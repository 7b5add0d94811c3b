------------------------ MODULE ServiceManagerProofs ------------------------
(***************************************************************************)
(* The books of the service manager, for any services, processes and       *)
(* connections: a record of a service always names the process of its      *)
(* name, which runs and which nobody has been told to stop.  As long as    *)
(* clients wait for answers, no service object is forgotten and none is    *)
(* destroyed under a connected client.                                     *)
(***************************************************************************)
EXTENDS ServiceManager, ListLemmas

Op == {"start", "stop", "bind", "unbind", "create", "created", "notCreated", "result"}

Message ==
  {m \in [op: Op, s: Services, id: 0 .. MaxCalls, conn: Connections \cup {None}] :
     (m.op = "start" => m.id \in Id) /\ (m.op = "bind" => m.conn \in Connections)}

State == {"unused", "running", "quit", "ended"}

Proc ==
  {p \in [state: State, queue: Seq(Message), busy: Message \cup {None},
          services: SUBSET Enabled] :
     /\ IsFiniteSet(p.services)
     /\ p.busy # None /\ p.busy.op = "create" => p.busy.s \in Enabled}

Call == [op: {"start", "stop", "bind"}, s: Services, answered: BOOLEAN]

\* The kind of every variable, the messages on their way and in the processes included.
Kinds ==
  /\ mServices \in [Services -> Record \cup {None}]
  /\ mProcesses \in [Name -> Instance \cup {None}]
  /\ instances \in Nat
  /\ inbox \in Seq(Message)
  /\ stopping \in Seq(Instance) /\ manager \in {"idle", "services", "join"}
  /\ process \in [Instance -> Proc]
  /\ calls \in Seq(Call) /\ commands \subseteq Id /\ connected \subseteq Connections
  /\ bound \in [Connections -> Services \cup {None}] /\ posted \in Seq(Connections)

\* The requests in the inbox that may start a process.
Requests == {m \in Message : m.op \in {"start", "bind"}}
Starts == Cardinality(PlacesOf(inbox, Requests))

\* The messages of processes to the service manager.
Answers == Message \ Requests

\* A process is started for at most one call, so that there is an instance for each.
Budget == instances + Starts <= Len(calls) /\ Len(calls) <= MaxCalls

\* What the books say of each other and of the processes.
Refers ==
  /\ \A s \in Services :
       mServices[s] # None => mServices[s].proc = mProcesses[processName[s]]
  /\ \A n \in Name : mProcesses[n] # None =>
       /\ mProcesses[n] \in 1 .. instances /\ process[mProcesses[n]].state = "running"
       /\ mProcesses[n] \notin Range(stopping)
  /\ \A n, o \in Name : mProcesses[n] # None /\ mProcesses[n] = mProcesses[o] => n = o
  /\ Range(stopping) \subseteq 1 .. instances
  /\ manager # "idle" => stopping # <<>>

Inv == Kinds /\ Refers /\ Budget

\* There is an instance for every process that has been started.
LEMMA Numbers ==
  ASSUME Kinds, Budget
  PROVE  /\ Starts \in Nat /\ Len(calls) \in Nat /\ MaxCalls \in Nat
         /\ instances \in 0 .. MaxCalls
         /\ 1 .. instances \subseteq Instance
<1>1. Starts \in Nat
  BY PlacesFinite DEF Starts, Kinds
<1>2. Len(calls) \in Nat
  BY LenProperties DEF Kinds
<1> QED BY <1>1, <1>2, ServiceManagerAssumption DEF Budget, Kinds, Instance

\* Sending a message to the service manager.
LEMMA InboxAppend ==
  ASSUME Kinds, NEW m \in Message, inbox' = Append(inbox, m)
  PROVE  /\ inbox' \in Seq(Message)
         /\ Starts' = Starts + (IF m.op \in {"start", "bind"} THEN 1 ELSE 0)
<1>1. inbox \in Seq(Message)
  BY DEF Kinds
<1>2. Cardinality(PlacesOf(Append(inbox, m), Requests))
        = Cardinality(PlacesOf(inbox, Requests)) + (IF m \in Requests THEN 1 ELSE 0)
  BY <1>1, AppendPlaces
<1>3. Starts' = Cardinality(PlacesOf(Append(inbox, m), Requests))
  BY DEF Starts
<1>4. inbox' \in Seq(Message)
  BY <1>1, AppendProperties
<1> QED BY <1>2, <1>3, <1>4 DEF Starts, Requests

\* The service manager takes the first message.
LEMMA InboxTail ==
  ASSUME Kinds, inbox # <<>>, inbox' = Tail(inbox)
  PROVE  /\ Head(inbox) \in Message /\ inbox' \in Seq(Message)
         /\ Starts' = Starts - (IF Head(inbox).op \in {"start", "bind"} THEN 1 ELSE 0)
<1>1. inbox \in Seq(Message)
  BY DEF Kinds
<1>2. Cardinality(PlacesOf(Tail(inbox), Requests))
        = Cardinality(PlacesOf(inbox, Requests)) - (IF Head(inbox) \in Requests THEN 1 ELSE 0)
  BY <1>1, TailPlaces
<1>3. Starts' = Cardinality(PlacesOf(Tail(inbox), Requests))
  BY DEF Starts
<1>4. Head(inbox) \in Message /\ inbox' \in Seq(Message)
  BY <1>1, HeadTailProperties
<1> QED BY <1>2, <1>3, <1>4 DEF Starts, Requests

\* The service manager takes the first message and sends one to itself.
LEMMA InboxSelf ==
  ASSUME Kinds, inbox # <<>>, Head(inbox).op \notin {"start", "bind"},
         NEW m \in Message, m.op \notin {"start", "bind"}, inbox' = Append(Tail(inbox), m)
  PROVE  inbox' \in Seq(Message) /\ Starts' = Starts
<1>1. inbox \in Seq(Message) /\ Tail(inbox) \in Seq(Message)
  BY HeadTailProperties DEF Kinds
<1>2. Cardinality(PlacesOf(Tail(inbox), Requests))
        = Cardinality(PlacesOf(inbox, Requests)) - (IF Head(inbox) \in Requests THEN 1 ELSE 0)
  BY <1>1, TailPlaces
<1>3. Cardinality(PlacesOf(Append(Tail(inbox), m), Requests))
        = Cardinality(PlacesOf(Tail(inbox), Requests)) + (IF m \in Requests THEN 1 ELSE 0)
  BY <1>1, AppendPlaces
<1>4. Head(inbox) \notin Requests /\ m \notin Requests
  BY DEF Requests
<1>5. /\ Cardinality(PlacesOf(inbox, Requests)) \in Nat
      /\ Cardinality(PlacesOf(Tail(inbox), Requests)) \in Nat
  BY <1>1, PlacesFinite
<1>6. Starts' = Cardinality(PlacesOf(Append(Tail(inbox), m), Requests))
  BY DEF Starts
<1>7. inbox' \in Seq(Message)
  BY <1>1, AppendProperties
<1> QED BY <1>2, <1>3, <1>4, <1>5, <1>6, <1>7 DEF Starts

\* A change of its queue keeps what else is known of a process.
LEMMA QueueFacts ==
  ASSUME Kinds, NEW i \in Instance, NEW q \in Seq(Message),
         process' = [process EXCEPT ![i].queue = q]
  PROVE  /\ process' \in [Instance -> Proc]
         /\ \A j \in Instance : process'[j].state = process[j].state
<1> DEFINE p == [process[i] EXCEPT !.queue = q]
<1>1. process[i] \in Proc /\ process \in [Instance -> Proc]
  BY DEF Kinds
<1>2. p \in Proc /\ p.state = process[i].state
  BY <1>1 DEF Proc
<1>3. process' = [process EXCEPT ![i] = p]
  OBVIOUS
<1> HIDE DEF p
<1> QED BY <1>1, <1>2, <1>3

\* Steps that leave the books alone and stop no process but those given to the
\* process manager keep what the books say.
LEMMA StepRefers ==
  ASSUME Kinds, Refers, Budget, UNCHANGED <<managerVars, stopping>>,
         manager' # "idle" => stopping # <<>>,
         \A i \in Instance : process[i].state = "running" /\ i \notin Range(stopping)
                               => process'[i].state = "running"
  PROVE  Refers'
<1>1. /\ mServices' = mServices /\ mProcesses' = mProcesses /\ instances' = instances
      /\ stopping' = stopping
  BY DEF managerVars
<1>2. \A n \in Name : mProcesses[n] # None => process'[mProcesses[n]].state = "running"
  BY Numbers DEF Refers
<1> QED BY <1>1, <1>2 DEF Refers

\* Nothing runs and nobody has called.
LEMMA InitInv == Init => Inv
<1> SUFFICES ASSUME Init PROVE Inv
  OBVIOUS
<1>1. Kinds
  <2>1. [NewProcess EXCEPT !.state = "unused"] \in Proc
    BY FS_EmptySet, EmptySeq DEF NewProcess, Proc, State
  <2>2. process \in [Instance -> Proc]
    BY <2>1 DEF Init
  <2>3. /\ inbox \in Seq(Message) /\ stopping \in Seq(Instance) /\ calls \in Seq(Call)
        /\ posted \in Seq(Connections)
    BY EmptySeq DEF Init
  <2> QED BY <2>2, <2>3 DEF Init, Kinds
<1>2. Starts = 0
  <2>1. PlacesOf(inbox, Requests) = {}
    BY EmptySeq DEF Init, PlacesOf
  <2> QED BY <2>1, FS_EmptySet DEF Starts
<1>3. Budget
  BY <1>2, EmptySeq, ServiceManagerAssumption DEF Init, Budget
<1>4. Refers
  BY EmptySeq DEF Init, Refers, Range
<1> QED BY <1>1, <1>3, <1>4 DEF Inv

\* A call adds its request to the inbox.
LEMMA ClientInv ==
  ASSUME Inv,
         \/ \E s \in Services : Request("start", s) \/ Request("stop", s)
         \/ \E s \in Services, c \in Connections : Bind(s, c)
         \/ \E c \in Connections : Unbind(c)
  PROVE  Inv'
<1> USE DEF Inv
<1>1. UNCHANGED <<managerVars, stopVars, process, commands, posted>>
  BY DEF Request, Bind, Unbind
<1>2. Refers'
  BY <1>1, StepRefers DEF stopVars, Refers
<1>3. \A op \in {"start", "stop", "bind"}, s \in Services, a \in BOOLEAN :
        Called(op, s, a) => calls' \in Seq(Call) /\ Len(calls') = Len(calls) + 1
  BY AppendProperties DEF Called, Call, Kinds
<1>4. ASSUME NEW op \in {"start", "stop"}, NEW s \in Services, Request(op, s) PROVE Inv'
  <2> DEFINE m == Msg(op, s, Len(calls) + 1, None)
  <2>1. /\ Len(calls) < MaxCalls /\ Called(op, s, FALSE) /\ inbox' = Append(inbox, m)
        /\ UNCHANGED <<bound, connected>>
    BY <1>4 DEF Request, MayCall
  <2>2. Len(calls) + 1 \in Id
    BY <2>1, Numbers DEF Id
  <2>3. m \in Message /\ m.op = op
    BY <2>2, ServiceManagerAssumption DEF Msg, Message, Op, Id
  <2> HIDE DEF m
  <2>4. inbox' \in Seq(Message) /\ Starts' = Starts + (IF op = "start" THEN 1 ELSE 0)
    BY <2>1, <2>3, InboxAppend
  <2>5. calls' \in Seq(Call) /\ Len(calls') = Len(calls) + 1
    BY <1>3, <2>1
  <2>6. Kinds'
    BY <1>1, <2>1, <2>4, <2>5 DEF Kinds, managerVars, stopVars
  <2>7. Budget'
    BY <1>1, <2>1, <2>4, <2>5, Numbers DEF Budget, managerVars
  <2> QED BY <1>2, <2>6, <2>7
<1>5. ASSUME NEW s \in Services, NEW c \in Connections, Bind(s, c) PROVE Inv'
  <2> DEFINE m == Msg("bind", s, 0, c)
  <2>1. /\ Len(calls) < MaxCalls /\ Called("bind", s, TRUE) /\ inbox' = Append(inbox, m)
        /\ bound' = [bound EXCEPT ![c] = s] /\ connected' = connected \ {c}
    BY <1>5 DEF Bind, MayCall
  <2>2. m \in Message /\ m.op = "bind"
    BY ServiceManagerAssumption DEF Msg, Message, Op, Id
  <2> HIDE DEF m
  <2>3. inbox' \in Seq(Message) /\ Starts' = Starts + 1
    BY <2>1, <2>2, InboxAppend
  <2>4. calls' \in Seq(Call) /\ Len(calls') = Len(calls) + 1
    BY <1>3, <2>1
  <2>5. Kinds'
    BY <1>1, <2>1, <2>3, <2>4 DEF Kinds, managerVars, stopVars
  <2>6. Budget'
    BY <1>1, <2>1, <2>3, <2>4, Numbers DEF Budget, managerVars
  <2> QED BY <1>2, <2>5, <2>6
<1>6. ASSUME NEW c \in Connections, Unbind(c) PROVE Inv'
  <2> DEFINE m == Msg("unbind", bound[c], 0, c)
  <2>1. /\ bound[c] \in Services /\ inbox' = Append(inbox, m) /\ UNCHANGED calls
        /\ bound' = [bound EXCEPT ![c] = None] /\ connected' = connected \ {c}
    BY <1>6 DEF Unbind, Kinds
  <2>2. m \in Message /\ m.op = "unbind"
    BY <2>1, ServiceManagerAssumption DEF Msg, Message, Op, Id
  <2> HIDE DEF m
  <2>3. inbox' \in Seq(Message) /\ Starts' = Starts
    BY <2>1, <2>2, InboxAppend, Numbers
  <2>4. Kinds'
    BY <1>1, <2>1, <2>3 DEF Kinds, managerVars, stopVars
  <2>5. Budget'
    BY <1>1, <2>1, <2>3, Numbers DEF Budget, managerVars
  <2> QED BY <1>2, <2>4, <2>5
<1> QED BY <1>4, <1>5, <1>6

\* The handler of a context calls onServiceConnected.
LEMMA ConnectedInv ==
  ASSUME Inv, OnServiceConnected
  PROVE  Inv'
<1> USE DEF Inv
<1>1. /\ posted # <<>> /\ connected' = connected \cup {Head(posted)} /\ posted' = Tail(posted)
      /\ UNCHANGED <<managerVars, inbox, stopVars, process, calls, commands, bound>>
  BY DEF OnServiceConnected
<1>2. Head(posted) \in Connections /\ Tail(posted) \in Seq(Connections)
  BY <1>1, HeadTailProperties DEF Kinds
<1>3. Kinds'
  BY <1>1, <1>2 DEF Kinds, managerVars, stopVars
<1>4. Refers'
  BY <1>1, StepRefers DEF stopVars, Refers
<1>5. Budget'
  BY <1>1 DEF Budget, Starts, managerVars
<1> QED BY <1>3, <1>4, <1>5

\* prepareProcess and prepareService: the record of s names the process of its name,
\* which is started if there is none.
LEMMA PrepareFacts ==
  ASSUME Kinds, Refers, Budget, instances < MaxCalls, UNCHANGED stopVars,
         NEW s \in Services, NEW conns \in SUBSET Connections, NEW running \in BOOLEAN,
         NEW msgs \in Seq(Message), Prepare(s, conns, running, msgs)
  PROVE  /\ mServices' \in [Services -> Record \cup {None}]
         /\ mProcesses' \in [Name -> Instance \cup {None}]
         /\ instances' \in Nat /\ instances' <= instances + 1
         /\ process' \in [Instance -> Proc]
         /\ Refers'
<1> DEFINE n == processName[s]
           known == mServices[s] # None
           i == IF known THEN mServices[s].proc
                ELSE IF mProcesses[n] # None THEN mProcesses[n] ELSE instances + 1
           record == IF known THEN mServices[s] ELSE [proc |-> i, running |-> FALSE, conns |-> {}]
           new == [record EXCEPT !.running = @ \/ running, !.conns = @ \cup conns]
           p == IF i > instances THEN NewProcess ELSE process[i]
           q == [p EXCEPT !.queue = @ \o CreateIfNew(s) \o msgs]
<1>1. /\ mServices' = [mServices EXCEPT ![s] = new]
      /\ mProcesses' = [mProcesses EXCEPT ![n] = IF known THEN @ ELSE i]
      /\ instances' = IF i > instances THEN i ELSE instances
      /\ process' = [process EXCEPT ![i] = q]
  BY DEF Prepare
<1>2. n \in Name
  BY DEF Name
<1>3. known => mServices[s] \in Record /\ mServices[s].proc = mProcesses[n]
  BY DEF Kinds, Refers
<1>4. known => mProcesses[n] # None
  BY <1>3, NoneAssumption DEF Record, Instance
<1>5. i = IF mProcesses[n] # None THEN mProcesses[n] ELSE instances + 1
  BY <1>3, <1>4
<1>6. i \in Instance /\ i \in Nat /\ i <= instances + 1 /\ i > 0
  BY <1>2, <1>5, Numbers DEF Refers, Instance, Kinds
<1>7. record \in Record /\ record.proc = i
  <2>1. CASE known
    BY <1>3, <2>1
  <2>2. CASE ~known
    BY <1>6, <2>2 DEF Record
  <2> QED BY <2>1, <2>2
<1>8. p \in Proc /\ p.state = "running"
  <2>1. CASE i > instances
    BY <2>1, FS_EmptySet, EmptySeq DEF NewProcess, Proc, State
  <2>2. CASE i <= instances
    <3>1. mProcesses[n] # None /\ i = mProcesses[n]
      BY <1>5, <2>2 DEF Kinds
    <3> QED BY <1>2, <1>6, <2>2, <3>1 DEF Refers, Kinds
  <2> QED BY <1>6, <2>1, <2>2 DEF Kinds
<1> HIDE DEF i, record, p
<1>9. new \in Record /\ new.proc = i
  BY <1>7 DEF Record
<1>10. q \in Proc /\ q.state = "running"
  <2>1. CreateIfNew(s) \in Seq(Message)
    <3>1. Msg("create", s, 0, None) \in Message
      BY ServiceManagerAssumption DEF Msg, Message, Op
    <3> QED BY <3>1, EmptySeq DEF CreateIfNew
  <2>2. p.queue \in Seq(Message)
    BY <1>8 DEF Proc
  <2>3. p.queue \o CreateIfNew(s) \o msgs \in Seq(Message)
    BY <2>1, <2>2, ConcatProperties
  <2> QED BY <1>8, <2>3 DEF Proc
<1> HIDE DEF new, q
<1>11. /\ mServices' \in [Services -> Record \cup {None}]
       /\ mProcesses' \in [Name -> Instance \cup {None}]
       /\ instances' \in Nat /\ instances' <= instances + 1
       /\ process' \in [Instance -> Proc]
  BY <1>1, <1>2, <1>6, <1>9, <1>10 DEF Kinds
<1>12. \A t \in Services : mServices'[t] = IF t = s THEN new ELSE mServices[t]
  BY <1>1 DEF Kinds
<1>13. \A o \in Name : mProcesses'[o] = IF o = n THEN i ELSE mProcesses[o]
  <2>1. known => i = mProcesses[n]
    BY <1>4, <1>5
  <2> QED BY <1>1, <1>2, <2>1 DEF Kinds
<1>14. \A j \in Instance : process'[j] = IF j = i THEN q ELSE process[j]
  BY <1>1 DEF Kinds
<1>15. stopping' = stopping /\ manager' = manager
  BY DEF stopVars
<1>16. i \in 1 .. instances' /\ instances <= instances' /\ i \notin Range(stopping)
  <2>1. i \in 1 .. instances' /\ instances <= instances'
    BY <1>1, <1>6 DEF Kinds
  <2>2. mProcesses[n] # None => i \notin Range(stopping)
    BY <1>2, <1>5 DEF Refers
  <2>3. mProcesses[n] = None => i \notin Range(stopping)
    BY <1>5 DEF Refers, Kinds
  <2> QED BY <2>1, <2>2, <2>3
<1>17. \A t \in Services :
         mServices'[t] # None => mServices'[t].proc = mProcesses'[processName[t]]
  <2> SUFFICES ASSUME NEW t \in Services, mServices'[t] # None
               PROVE  mServices'[t].proc = mProcesses'[processName[t]]
    OBVIOUS
  <2>1. processName[t] \in Name
    BY DEF Name
  <2>2. CASE t = s
    BY <1>2, <1>9, <1>12, <1>13, <2>2
  <2>3. CASE t # s
    <3>1. mServices[t] \in Record /\ mServices[t].proc = mProcesses[processName[t]]
      BY <1>12, <2>3 DEF Kinds, Refers
    <3>2. mProcesses[processName[t]] # None
      BY <3>1, NoneAssumption DEF Record, Instance
    <3> QED BY <1>5, <1>12, <1>13, <2>1, <2>3, <3>1, <3>2
  <2> QED BY <2>2, <2>3
<1>18. \A o \in Name : mProcesses'[o] # None =>
         /\ mProcesses'[o] \in 1 .. instances' /\ process'[mProcesses'[o]].state = "running"
         /\ mProcesses'[o] \notin Range(stopping)
  <2> SUFFICES ASSUME NEW o \in Name, mProcesses'[o] # None
               PROVE  /\ mProcesses'[o] \in 1 .. instances'
                      /\ process'[mProcesses'[o]].state = "running"
                      /\ mProcesses'[o] \notin Range(stopping)
    OBVIOUS
  <2>1. CASE o = n
    BY <1>6, <1>10, <1>13, <1>14, <1>16, <2>1
  <2>2. CASE o # n
    <3>1. /\ mProcesses'[o] = mProcesses[o] /\ mProcesses[o] \in 1 .. instances
          /\ process[mProcesses[o]].state = "running" /\ mProcesses[o] \notin Range(stopping)
      BY <1>13, <2>2 DEF Refers
    <3>2. mProcesses[o] \in Instance /\ mProcesses[o] \in 1 .. instances'
      BY <1>11, <1>16, <3>1, Numbers DEF Kinds
    <3> QED BY <1>10, <1>14, <3>1, <3>2
  <2> QED BY <2>1, <2>2
<1>19. \A o, u \in Name : mProcesses'[o] # None /\ mProcesses'[o] = mProcesses'[u] => o = u
  <2>1. \A o \in Name : o # n /\ mProcesses[o] # None => mProcesses[o] # i
    <3>1. CASE mProcesses[n] # None
      BY <1>2, <1>5, <3>1 DEF Refers
    <3>2. CASE mProcesses[n] = None
      BY <1>5, <3>2 DEF Refers, Kinds
    <3> QED BY <3>1, <3>2
  <2>2. i # None
    BY <1>6, NoneAssumption
  <2> QED BY <1>13, <2>1, <2>2 DEF Refers
<1>20. Range(stopping) \subseteq 1 .. instances'
  BY <1>11, <1>16 DEF Refers, Kinds
<1> QED BY <1>11, <1>15, <1>17, <1>18, <1>19, <1>20 DEF Refers

\* The record of s goes, and with its last service the process, which is given to
\* the process manager.
LEMMA RemoveRecordFacts ==
  ASSUME Kinds, Refers, Budget, NEW s \in Services, mServices[s] # None, RemoveRecord(s),
         \A j \in Instance : process'[j].state = process[j].state
  PROVE  /\ mServices' \in [Services -> Record \cup {None}]
         /\ mProcesses' \in [Name -> Instance \cup {None}]
         /\ instances' = instances /\ manager' = manager
         /\ stopping' \in Seq(Instance)
         /\ Refers'
<1> DEFINE n == processName[s]
           i == mServices[s].proc
           last == \A r \in Services \ {s} : mServices[r] = None \/ mServices[r].proc # i
<1>1. /\ mServices' = [mServices EXCEPT ![s] = None]
      /\ mProcesses' = [mProcesses EXCEPT ![n] = IF last THEN None ELSE @]
      /\ stopping' = IF last THEN Append(stopping, i) ELSE stopping
      /\ instances' = instances /\ manager' = manager
  BY DEF RemoveRecord
<1>2. n \in Name
  BY DEF Name
<1>3. i \in Instance /\ i = mProcesses[n] /\ i # None
  BY NoneAssumption DEF Kinds, Refers, Record, Instance
<1>4. i \in 1 .. instances
  BY <1>2, <1>3 DEF Refers
<1>5. \A t \in Services : mServices'[t] = IF t = s THEN None ELSE mServices[t]
  BY <1>1 DEF Kinds
<1> HIDE DEF i, last
<1>6. /\ mServices' \in [Services -> Record \cup {None}]
      /\ mProcesses' \in [Name -> Instance \cup {None}]
  BY <1>1, <1>2, <1>3 DEF Kinds
<1>7. CASE ~last
  <2>1. stopping' = stopping /\ mProcesses' = mProcesses
    BY <1>1, <1>2, <1>7 DEF Kinds
  <2>2. Refers'
    <3>1. \A o \in Name : mProcesses[o] # None => mProcesses[o] \in Instance
      BY DEF Kinds
    <3> QED BY <1>1, <1>5, <2>1, <3>1 DEF Refers
  <2> QED BY <1>1, <1>6, <2>1, <2>2 DEF Kinds
<1>8. CASE last
  <2>1. stopping' = Append(stopping, i)
    BY <1>1, <1>8
  <2>2. /\ stopping' \in Seq(Instance) /\ Range(stopping') = Range(stopping) \cup {i}
        /\ stopping' # <<>>
    <3>1. stopping' \in Seq(Instance) /\ Len(stopping') = Len(stopping) + 1
      BY <1>3, <2>1, AppendProperties DEF Kinds
    <3>2. /\ \A k \in 1 .. Len(stopping) : stopping'[k] = stopping[k]
          /\ stopping'[Len(stopping) + 1] = i
      BY <1>3, <2>1, AppendProperties DEF Kinds
    <3>3. /\ DOMAIN stopping = 1 .. Len(stopping) /\ Len(stopping) \in Nat
          /\ DOMAIN stopping' = 1 .. Len(stopping) + 1
      BY <3>1, LenProperties DEF Kinds
    <3> QED BY <3>1, <3>2, <3>3, EmptySeq DEF Range
  <2>3. \A o \in Name : mProcesses'[o] = IF o = n THEN None ELSE mProcesses[o]
    BY <1>1, <1>2, <1>8 DEF Kinds
  <2>4. ASSUME NEW t \in Services, mServices'[t] # None
        PROVE  mServices'[t].proc = mProcesses'[processName[t]]
    <3>1. t # s /\ mServices'[t] = mServices[t] /\ mServices[t].proc # i
      BY <1>5, <1>8, <2>4 DEF last
    <3>2. mServices[t].proc = mProcesses[processName[t]]
      BY <2>4, <3>1 DEF Refers
    <3>3. processName[t] # n /\ processName[t] \in Name
      BY <1>3, <3>1, <3>2 DEF Name
    <3> QED BY <2>3, <3>1, <3>2, <3>3
  <2>5. ASSUME NEW o \in Name, mProcesses'[o] # None
        PROVE  /\ mProcesses'[o] \in 1 .. instances /\ process'[mProcesses'[o]].state = "running"
               /\ mProcesses'[o] \notin Range(stopping')
    <3>1. o # n /\ mProcesses'[o] = mProcesses[o] /\ mProcesses[o] \in Instance
      BY <2>3, <2>5 DEF Kinds
    <3>2. mProcesses[o] # i
      BY <1>2, <1>3, <2>5, <3>1 DEF Refers
    <3> QED BY <2>2, <2>5, <3>1, <3>2 DEF Refers
  <2>6. \A o, u \in Name : mProcesses'[o] # None /\ mProcesses'[o] = mProcesses'[u] => o = u
    BY <2>3 DEF Refers
  <2>7. Range(stopping') \subseteq 1 .. instances
    BY <1>4, <2>2 DEF Refers
  <2>8. Refers'
    BY <1>1, <2>2, <2>4, <2>5, <2>6, <2>7 DEF Refers
  <2> QED BY <1>1, <1>6, <2>2, <2>8
<1> QED BY <1>7, <1>8

\* An answer marks one call, and changes no number of calls.
LEMMA AnsweredFacts ==
  ASSUME Kinds, NEW id \in 0 .. MaxCalls, calls' = Answered(id)
  PROVE  calls' \in Seq(Call) /\ Len(calls') = Len(calls)
<1>1. calls \in Seq(Call)
  BY DEF Kinds
<1>2. CASE id \in DOMAIN calls
  <2>1. id # 0 /\ calls[id] \in Call
    BY <1>1, <1>2, LenProperties, ElementOfSeq
  <2>2. [calls[id] EXCEPT !.answered = TRUE] \in Call
    BY <2>1 DEF Call
  <2>3. calls' = [calls EXCEPT ![id] = [calls[id] EXCEPT !.answered = TRUE]]
    BY <2>1 DEF Answered
  <2> QED BY <1>1, <1>2, <2>2, <2>3, ExceptSeq
<1>3. CASE id \notin DOMAIN calls
  <2>1. calls' = calls
    BY <1>1, <1>3 DEF Answered
  <2> QED BY <1>1, <2>1
<1> QED BY <1>2, <1>3

\* Messages sent to a process arrive at the end of its queue.
LEMMA SentFacts ==
  ASSUME Kinds, NEW i \in Instance, NEW msgs \in Seq(Message), process' = Sent(i, msgs)
  PROVE  /\ process' \in [Instance -> Proc]
         /\ \A j \in Instance : process'[j].state = process[j].state
<1>1. process[i].queue \in Seq(Message)
  BY DEF Kinds, Proc
<1>2. process[i].queue \o msgs \in Seq(Message)
  BY <1>1, ConcatProperties
<1>3. process' = [process EXCEPT ![i].queue = process[i].queue \o msgs]
  BY DEF Sent
<1> QED BY <1>2, <1>3, QueueFacts

\* A request for a service that is installed prepares its process and its record.
LEMMA RequestHandledInv ==
  ASSUME Inv, StartService \/ BindService
  PROVE  Inv'
<1> USE DEF Inv
<1> DEFINE m == Head(inbox)
<1>1. /\ inbox # <<>> /\ inbox' = Tail(inbox) /\ m.op \in {"start", "bind"}
      /\ UNCHANGED <<stopVars, commands, bound, posted, connected>>
  BY DEF StartService, BindService, Receives, clientVars
<1>2. m \in Message /\ inbox' \in Seq(Message) /\ Starts' = Starts - 1
  BY <1>1, InboxTail
<1>3. m.s \in Services /\ m.id \in 0 .. MaxCalls
  BY <1>2 DEF Message
<1>4. Starts' \in Nat /\ instances < MaxCalls
  <2>1. Starts' \in Nat
    BY <1>2, PlacesFinite DEF Starts
  <2> QED BY <1>2, <2>1, Numbers DEF Budget, Kinds
<1> HIDE DEF m
<1>5. ASSUME NEW conns \in SUBSET Connections, NEW running \in BOOLEAN,
             NEW msgs \in Seq(Message), Prepare(m.s, conns, running, msgs), UNCHANGED calls
      PROVE  Inv'
  <2>1. /\ mServices' \in [Services -> Record \cup {None}]
        /\ mProcesses' \in [Name -> Instance \cup {None}]
        /\ instances' \in Nat /\ instances' <= instances + 1
        /\ process' \in [Instance -> Proc]
        /\ Refers'
    BY <1>1, <1>3, <1>4, <1>5, PrepareFacts
  <2>2. Kinds'
    BY <1>1, <1>2, <1>5, <2>1 DEF Kinds, stopVars
  <2>3. Budget'
    <3>1. /\ instances \in Nat /\ Starts \in Nat /\ Len(calls) \in Nat
          /\ instances + Starts <= Len(calls) /\ Len(calls) <= MaxCalls
      BY Numbers DEF Budget
    <3>2. /\ instances' \in Nat /\ instances' <= instances + 1
          /\ Starts' \in Nat /\ Starts' = Starts - 1
      BY <1>2, <1>4, <2>1
    <3>3. Len(calls') = Len(calls)
      BY <1>5
    <3> QED BY <3>1, <3>2, <3>3 DEF Budget
  <2> QED BY <2>1, <2>2, <2>3
<1>6. ASSUME UNCHANGED <<managerVars, process>>,
             calls' = calls \/ calls' = Answered(m.id)
      PROVE  Inv'
  <2>1. calls' \in Seq(Call) /\ Len(calls') = Len(calls)
    BY <1>3, <1>6, AnsweredFacts DEF Kinds
  <2>2. Kinds'
    BY <1>1, <1>2, <1>6, <2>1 DEF Kinds, managerVars, stopVars
  <2>3. Refers'
    BY <1>1, <1>6, StepRefers DEF stopVars, Refers
  <2>4. Budget'
    <3>1. /\ instances \in Nat /\ Starts \in Nat /\ Len(calls) \in Nat
          /\ instances + Starts <= Len(calls) /\ Len(calls) <= MaxCalls
      BY Numbers DEF Budget
    <3>2. instances' = instances /\ Starts' = Starts - 1
      BY <1>2, <1>6 DEF managerVars
    <3> QED BY <2>1, <3>1, <3>2 DEF Budget
  <2> QED BY <2>2, <2>3, <2>4
<1>7. <<m>> \in Seq(Message) /\ <<>> \in Seq(Message)
  BY <1>2, EmptySeq
<1>8. CASE StartService
  <2>1. \/ Prepare(m.s, {}, TRUE, <<m>>) /\ UNCHANGED calls
        \/ calls' = Answered(m.id) /\ UNCHANGED <<managerVars, process>>
    BY <1>8 DEF StartService, m
  <2>2. CASE Prepare(m.s, {}, TRUE, <<m>>) /\ UNCHANGED calls
    BY <1>5, <1>7, <2>2
  <2> QED BY <1>6, <2>1, <2>2
<1>9. CASE BindService
  <2>1. m.op = "bind" /\ m.conn \in Connections
    BY <1>2, <1>9 DEF BindService, Receives, m, Message
  <2>2. \/ \E msgs \in {<<>>, <<m>>} : Prepare(m.s, {m.conn}, FALSE, msgs)
        \/ UNCHANGED <<managerVars, process>>
    BY <1>9 DEF BindService, m
  <2>3. UNCHANGED calls
    BY <1>9 DEF BindService, clientVars
  <2>4. ASSUME NEW msgs \in {<<>>, <<m>>}, Prepare(m.s, {m.conn}, FALSE, msgs) PROVE Inv'
    BY <1>5, <1>7, <2>1, <2>3, <2>4
  <2> QED BY <1>6, <2>2, <2>3, <2>4
<1> QED BY <1>8, <1>9

\* stopService, unbindService and the answers never start a process, and send
\* messages only to a process that a record names.
LEMMA AnswerHandledInv ==
  ASSUME Inv, StopService \/ UnbindService \/ Created \/ Result
  PROVE  Inv'
<1> USE DEF Inv
<1> DEFINE m == Head(inbox)
<1>1. /\ inbox # <<>> /\ m.op \in {"stop", "unbind", "created", "notCreated", "result"}
      /\ inbox' = Tail(inbox) \/ inbox' = Append(Tail(inbox), Msg("stop", m.s, 0, None))
      /\ UNCHANGED <<commands, bound, posted, connected>>
  BY DEF StopService, UnbindService, Created, Result, Receives, clientVars
<1>0. m \in Message
  BY <1>1, HeadTailProperties DEF Kinds
<1>2. inbox' \in Seq(Message) /\ Starts' = Starts
  <2>1. CASE inbox' = Tail(inbox)
    BY <1>1, <2>1, InboxTail, Numbers
  <2>2. CASE inbox' = Append(Tail(inbox), Msg("stop", m.s, 0, None))
    <3>1. PICK x : x = Msg("stop", m.s, 0, None)
      OBVIOUS
    <3>2. x \in Message /\ x.op = "stop"
      BY <1>0, <3>1, ServiceManagerAssumption DEF Msg, Message, Op
    <3> QED BY <1>1, <2>2, <3>1, <3>2, InboxSelf
  <2> QED BY <1>1, <2>1, <2>2
<1>3. m.s \in Services /\ m.id \in 0 .. MaxCalls
  BY <1>0 DEF Message
<1> HIDE DEF m
<1>4. ASSUME calls' = calls \/ calls' = Answered(m.id), instances' = instances,
             Refers', process' \in [Instance -> Proc], manager' = manager,
             mServices' \in [Services -> Record \cup {None}],
             mProcesses' \in [Name -> Instance \cup {None}], stopping' \in Seq(Instance)
      PROVE  Inv'
  <2>1. calls' \in Seq(Call) /\ Len(calls') = Len(calls)
    BY <1>3, <1>4, AnsweredFacts DEF Kinds
  <2>2. Kinds'
    BY <1>1, <1>2, <1>4, <2>1 DEF Kinds
  <2>3. Budget'
    BY <1>2, <1>4, <2>1 DEF Budget
  <2> QED BY <1>4, <2>2, <2>3
<1>5. ASSUME UNCHANGED <<managerVars, stopVars, process>>,
             calls' = calls \/ calls' = Answered(m.id)
      PROVE  Inv'
  <2>1. Refers'
    BY <1>5, StepRefers DEF stopVars, Refers
  <2> QED BY <1>4, <1>5, <2>1 DEF managerVars, stopVars, Kinds
<1>6. ASSUME mServices[m.s] # None
      PROVE  mServices[m.s] \in Record /\ mServices[m.s].proc \in Instance
  BY <1>3, <1>6 DEF Kinds, Record
<1>7. ASSUME mServices[m.s] # None, NEW msgs \in Seq(Message),
             process' = Sent(mServices[m.s].proc, msgs) \/ process' = process,
             RemoveRecord(m.s), calls' = calls
      PROVE  Inv'
  <2>1. process' \in [Instance -> Proc] /\ \A j \in Instance : process'[j].state = process[j].state
    BY <1>6, <1>7, SentFacts DEF Kinds
  <2> QED BY <1>3, <1>4, <1>7, <2>1, RemoveRecordFacts
<1>8. <<m>> \in Seq(Message) /\ <<>> \in Seq(Message)
  BY <1>0, EmptySeq
<1>9. CASE StopService
  <2>1. \/ /\ Stoppable(m.s) /\ process' = Sent(mServices[m.s].proc, <<m>>)
           /\ RemoveRecord(m.s) /\ UNCHANGED calls
        \/ calls' = Answered(m.id) /\ UNCHANGED <<managerVars, stopVars, process>>
    BY <1>9 DEF StopService, m
  <2> QED BY <1>5, <1>7, <1>8, <2>1 DEF Stoppable
<1>10. CASE UnbindService
  <2> DEFINE rest == mServices[m.s].conns \ {m.conn}
  <2>1. UNCHANGED calls
    BY <1>10 DEF UnbindService, clientVars
  <2>2. \/ UNCHANGED <<managerVars, stopVars, process>>
        \/ /\ mServices[m.s] # None /\ process' = Sent(mServices[m.s].proc, <<m>>)
           /\ mServices' = [mServices EXCEPT ![m.s].conns = rest]
           /\ UNCHANGED <<mProcesses, instances, stopVars>>
    BY <1>10 DEF UnbindService, managerVars, m
  <2>3. ASSUME mServices[m.s] # None, process' = Sent(mServices[m.s].proc, <<m>>),
               mServices' = [mServices EXCEPT ![m.s].conns = rest],
               UNCHANGED <<mProcesses, instances, stopVars>>
        PROVE  Inv'
    <3> DEFINE r == [mServices[m.s] EXCEPT !.conns = rest]
    <3>1. /\ process' \in [Instance -> Proc]
          /\ \A j \in Instance : process'[j].state = process[j].state
      BY <1>6, <1>8, <2>3, SentFacts
    <3>2. r \in Record /\ r.proc = mServices[m.s].proc
      BY <1>6, <2>3 DEF Record
    <3>3. mServices' = [mServices EXCEPT ![m.s] = r]
      BY <2>3
    <3> HIDE DEF r
    <3>4. /\ mServices' \in [Services -> Record \cup {None}]
          /\ \A t \in Services : mServices'[t] = IF t = m.s THEN r ELSE mServices[t]
      BY <1>3, <3>2, <3>3 DEF Kinds
    <3>5. /\ mProcesses' = mProcesses /\ instances' = instances
          /\ stopping' = stopping /\ manager' = manager
      BY <2>3 DEF stopVars
    <3>6. \A n \in Name : mProcesses[n] # None => mProcesses[n] \in Instance
      BY DEF Kinds
    <3>7. Refers'
      BY <2>3, <3>1, <3>2, <3>4, <3>5, <3>6 DEF Refers
    <3> QED BY <1>4, <2>1, <3>1, <3>4, <3>5, <3>7 DEF Kinds
  <2> QED BY <1>5, <2>1, <2>2, <2>3
<1>11. CASE Created
  <2>1. UNCHANGED <<calls, process>>
    BY <1>11 DEF Created, clientVars
  <2>2. \/ mServices[m.s] # None /\ RemoveRecord(m.s)
        \/ UNCHANGED <<managerVars, stopVars>>
    BY <1>11 DEF Created, ToCleanUp, m
  <2> QED BY <1>5, <1>7, <1>8, <2>1, <2>2
<1>12. CASE Result
  BY <1>5, <1>12 DEF Result, m
<1> QED BY <1>9, <1>10, <1>11, <1>12

\* A step of the main thread of process i that does not end it while it runs, and
\* that sends an answer or nothing.
LEMMA ProcessStep ==
  ASSUME Inv, NEW i \in Instance, NEW p \in Proc, process' = [process EXCEPT ![i] = p],
         p.state = process[i].state \/ process[i].state # "running",
         NEW m \in Answers,
         inbox' = inbox \/ inbox' = Append(inbox, m),
         UNCHANGED <<managerVars, stopVars, calls, bound>>,
         commands' \subseteq Id, UNCHANGED connected, posted' \in Seq(Connections)
  PROVE  Inv'
<1> USE DEF Inv
<1>1. /\ process' \in [Instance -> Proc]
      /\ \A j \in Instance : process'[j] = IF j = i THEN p ELSE process[j]
  BY DEF Kinds
<1>2. inbox' \in Seq(Message) /\ Starts' = Starts
  <2>1. CASE inbox' = inbox
    BY <2>1 DEF Kinds, Starts
  <2>2. CASE inbox' = Append(inbox, m)
    BY <2>2, InboxAppend, Numbers DEF Answers, Requests
  <2> QED BY <2>1, <2>2
<1>3. Kinds'
  BY <1>1, <1>2 DEF Kinds, managerVars, stopVars
<1>4. Refers'
  BY <1>1, StepRefers DEF stopVars, Refers
<1>5. Budget'
  BY <1>2 DEF Budget, managerVars
<1> QED BY <1>3, <1>4, <1>5

\* The main thread of a process creates, starts, binds and destroys services.
LEMMA WorkInv ==
  ASSUME Inv, NEW i \in Instance, Work(i)
  PROVE  Inv'
<1> USE DEF Inv
<1> DEFINE m == Head(process[i].queue)
           b == process[i].busy
           taken == [process[i] EXCEPT !.queue = Tail(@)]
           busy == [process[i] EXCEPT !.queue = Tail(@), !.busy = m]
           Answer(op, s, id) == Msg(op, s, id, None)
<1>1. /\ process[i] \in Proc /\ b \in Message \cup {None} /\ process[i].queue \in Seq(Message)
      /\ IsFiniteSet(process[i].services)
  BY DEF Kinds, Proc
<1>2. ASSUME NEW op, Turn(i, op)
      PROVE  /\ m \in Message /\ m.op = op /\ Tail(process[i].queue) \in Seq(Message)
             /\ taken \in Proc /\ taken.state = process[i].state
             /\ Taken(i) = [process EXCEPT ![i] = taken]
             /\ Busy(i, m) = [process EXCEPT ![i] = busy] /\ busy.state = process[i].state
             /\ (op = "create" => m.s \in Enabled) => busy \in Proc
  <2>1. process[i].queue # <<>> /\ m.op = op
    BY <1>2 DEF Turn
  <2>2. m \in Message /\ Tail(process[i].queue) \in Seq(Message)
    BY <1>1, <2>1, HeadTailProperties
  <2>3. taken \in Proc /\ taken.state = process[i].state
    BY <1>1, <2>2 DEF Proc
  <2> HIDE DEF m
  <2>4. busy.state = process[i].state /\ ((op = "create" => m.s \in Enabled) => busy \in Proc)
    BY <1>1, <2>1, <2>2 DEF Proc
  <2>5. Taken(i) = [process EXCEPT ![i] = taken] /\ Busy(i, m) = [process EXCEPT ![i] = busy]
    BY DEF Taken, Busy, Kinds
  <2> QED BY <2>1, <2>2, <2>3, <2>4, <2>5
<1>3. \A op \in {"created", "notCreated", "result"}, s \in Services, id \in 0 .. MaxCalls :
        Answer(op, s, id) \in Answers
  BY DEF Msg, Message, Op, Answers, Requests
<1>4. 0 \in 0 .. MaxCalls
  BY ServiceManagerAssumption
<1> HIDE DEF taken, busy, Answer, m
<1>5. \A x \in Message : x.s \in Services /\ x.id \in 0 .. MaxCalls
  BY DEF Message
<1>6. commands \subseteq Id /\ posted \in Seq(Connections)
  BY DEF Kinds
<1>7. CASE CreateService(i)
  <2>1. Turn(i, "create") /\ UNCHANGED <<managerVars, stopVars, clientVars>>
    BY <1>7 DEF CreateService
  <2>2. \/ m.s \in Enabled /\ process' = Busy(i, m) /\ UNCHANGED inbox
        \/ process' = Taken(i) /\ inbox' = Append(inbox, Answer("notCreated", m.s, 0))
    BY <1>7 DEF CreateService, m, Answer
  <2>3. UNCHANGED <<managerVars, stopVars, calls, bound, commands, posted, connected>>
    BY <2>1 DEF clientVars
  <2>4. Answer("notCreated", m.s, 0) \in Answers
    BY <1>2, <1>3, <1>4, <1>5, <2>1
  <2>5. PICK p \in Proc : process' = [process EXCEPT ![i] = p] /\ p.state = process[i].state
    BY <1>2, <2>1, <2>2
  <2> QED BY <1>6, <2>2, <2>3, <2>4, <2>5, ProcessStep
<1>8. CASE OnCreated(i)
  <2> DEFINE p == [process[i] EXCEPT !.busy = None, !.services = @ \cup {b.s}]
  <2>1. /\ b \in Message /\ b.op = "create" /\ b # None
        /\ process' = [process EXCEPT ![i] = p]
        /\ inbox' = Append(inbox, Answer("created", b.s, 0))
        /\ UNCHANGED <<managerVars, stopVars, calls, bound, commands, posted, connected>>
    BY <1>1, <1>8 DEF OnCreated, Answer, clientVars, Kinds
  <2>2. b.s \in Enabled
    BY <1>1, <2>1 DEF Proc
  <2>3. IsFiniteSet(process[i].services \cup {b.s})
    BY <1>1, FS_AddElement
  <2>4. p \in Proc /\ p.state = process[i].state
    BY <1>1, <2>2, <2>3 DEF Proc
  <2>5. Answer("created", b.s, 0) \in Answers
    BY <1>3, <1>4, <1>5, <2>1
  <2> HIDE DEF p
  <2> QED BY <1>6, <2>1, <2>4, <2>5, ProcessStep
<1>9. CASE OnStartCommand(i)
  <2>1. /\ Turn(i, "start") /\ process' = Taken(i)
        /\ commands' = commands \/ commands' = commands \cup {m.id}
        /\ inbox' = Append(inbox, Answer("result", m.s, m.id))
        /\ UNCHANGED <<managerVars, stopVars, calls, bound, posted, connected>>
    BY <1>9 DEF OnStartCommand, m, Answer
  <2>2. m.id \in Id /\ m \in Message
    BY <1>2, <2>1 DEF Message
  <2>3. Answer("result", m.s, m.id) \in Answers
    BY <1>3, <1>5, <2>2
  <2>4. taken \in Proc /\ taken.state = process[i].state /\ process' = [process EXCEPT ![i] = taken]
    BY <1>2, <2>1
  <2> QED BY <1>6, <2>1, <2>2, <2>3, <2>4, ProcessStep
<1>10. CASE DestroyService(i)
  <2>1. Turn(i, "stop") /\ UNCHANGED <<managerVars, stopVars, clientVars>>
    BY <1>10 DEF DestroyService
  <2>2. /\ process' = Busy(i, m) \/ process' = Taken(i)
        /\ inbox' = inbox \/ inbox' = Append(inbox, Answer("result", m.s, m.id))
    BY <1>10 DEF DestroyService, m, Answer
  <2>3. UNCHANGED <<managerVars, stopVars, calls, bound, commands, posted, connected>>
    BY <2>1 DEF clientVars
  <2>4. Answer("result", m.s, m.id) \in Answers
    BY <1>2, <1>3, <1>5, <2>1
  <2>5. PICK p \in Proc : process' = [process EXCEPT ![i] = p] /\ p.state = process[i].state
    BY <1>2, <2>1, <2>2
  <2> QED BY <1>6, <2>2, <2>3, <2>4, <2>5, ProcessStep
<1>11. CASE OnDestroyed(i)
  <2> DEFINE p == [process[i] EXCEPT !.busy = None, !.services = @ \ {b.s}]
  <2>1. /\ b \in Message /\ b.op = "stop" /\ b # None
        /\ process' = [process EXCEPT ![i] = p]
        /\ inbox' = inbox \/ inbox' = Append(inbox, Answer("result", b.s, b.id))
        /\ UNCHANGED <<managerVars, stopVars, calls, bound, commands, posted, connected>>
    BY <1>1, <1>11 DEF OnDestroyed, Answer, clientVars, Kinds
  <2>2. IsFiniteSet(process[i].services \ {b.s})
    BY <1>1, FS_RemoveElement
  <2>3. p \in Proc /\ p.state = process[i].state
    BY <1>1, <2>2 DEF Proc
  <2>4. Answer("result", b.s, b.id) \in Answers
    BY <1>3, <1>5, <2>1
  <2> HIDE DEF p
  <2> QED BY <1>6, <2>1, <2>3, <2>4, ProcessStep
<1>12. CASE OnBind(i) \/ OnUnbind(i)
  <2>1. PICK op \in {"bind", "unbind"} : Turn(i, op) /\ process' = Taken(i)
    BY <1>12 DEF OnBind, OnUnbind
  <2>2. /\ posted' = posted \/ (op = "bind" /\ posted' = Append(posted, m.conn))
        /\ UNCHANGED <<managerVars, stopVars, calls, bound, commands, connected, inbox>>
    BY <1>2, <1>12, <2>1 DEF OnBind, OnUnbind, clientVars, m, Turn
  <2>3. op = "bind" => m.conn \in Connections
    BY <1>2, <2>1 DEF Message
  <2>4. taken \in Proc /\ taken.state = process[i].state /\ process' = [process EXCEPT ![i] = taken]
    BY <1>2, <2>1
  <2>5. Answer("result", m.s, 0) \in Answers
    BY <1>2, <1>3, <1>4, <1>5, <2>1
  <2>6. posted' \in Seq(Connections)
    BY <1>6, <2>2, <2>3, AppendProperties
  <2> QED BY <1>6, <2>2, <2>4, <2>5, <2>6, ProcessStep
<1>13. CASE Ends(i)
  <2> DEFINE p == [process[i] EXCEPT !.state = "ended"]
  <2>1. /\ process[i].state = "quit" /\ process' = [process EXCEPT ![i] = p]
        /\ UNCHANGED <<patient, managerVars, inbox, stopVars, clientVars>>
    BY <1>13 DEF Ends, Kinds
  <2>2. p \in Proc
    BY <1>1 DEF Proc, State
  <2> HIDE DEF p
  <2>3. /\ process' \in [Instance -> Proc]
        /\ \A j \in Instance : process'[j] = IF j = i THEN p ELSE process[j]
    BY <2>1, <2>2 DEF Kinds
  <2>4. Kinds'
    BY <2>1, <2>3 DEF Kinds, managerVars, stopVars, clientVars
  <2>5. Refers'
    BY <2>1, <2>3, StepRefers DEF stopVars, Refers
  <2>6. Budget'
    BY <2>1 DEF Budget, Starts, managerVars, clientVars
  <2> QED BY <2>4, <2>5, <2>6
<1> QED BY <1>7, <1>8, <1>9, <1>10, <1>11, <1>12, <1>13 DEF Work

\* The messages by which Process::stop destroys what services are left.
LEMMA StopMessagesFacts ==
  ASSUME Kinds, NEW i \in Instance
  PROVE  StopMessages(i) \in Seq(Message)
<1> DEFINE S == process[i].services
           n == Cardinality(S)
           order == SetToSeq(S)
<1>1. S \subseteq Services /\ IsFiniteSet(S)
  BY ServiceManagerAssumption DEF Kinds, Proc
<1> HIDE DEF S
<1>2. n \in Nat /\ ExistsBijection(1 .. n, S)
  BY <1>1, FS_CardinalityType
<1>3. \E f \in [1 .. n -> S] : IsInjective(f)
  <2>1. PICK f : f \in Bijection(1 .. n, S)
    BY <1>2 DEF ExistsBijection
  <2> QED BY <2>1 DEF Bijection, Injection, IsInjective
<1>4. order \in [1 .. n -> S]
  BY <1>3 DEF SetToSeq
<1> HIDE DEF order
<1>5. \A k \in 1 .. n : Msg("stop", order[k], 0, None) \in Message
  BY <1>1, <1>4, ServiceManagerAssumption DEF Msg, Message, Op
<1>6. StopMessages(i) = [k \in 1 .. n |-> Msg("stop", order[k], 0, None)]
  BY <1>4 DEF StopMessages, S, order
<1> QED BY <1>2, <1>5, <1>6, IsASeq

\* The process manager stops only processes that the books no longer name.
LEMMA StopInv ==
  ASSUME Inv, Stop \/ Waited \/ TimedOut \/ Joined
  PROVE  Inv'
<1> USE DEF Inv
<1> DEFINE i == Head(stopping)
<1>1. stopping # <<>>
  BY DEF Stop, Waited, TimedOut, Joined, Refers
<1>2. i \in Instance /\ i \in Range(stopping)
  <2>1. /\ stopping \in Seq(Instance) /\ 1 \in 1 .. Len(stopping)
        /\ DOMAIN stopping = 1 .. Len(stopping)
    BY <1>1, EmptySeq, LenProperties DEF Kinds
  <2>2. i = stopping[1] /\ i \in Instance
    BY <1>1, <2>1, HeadTailProperties
  <2> QED BY <2>1, <2>2 DEF Range
<1>3. /\ UNCHANGED <<managerVars, inbox, clientVars>>
      /\ manager' \in {"idle", "services", "join"}
  BY DEF Stop, Waited, TimedOut, Joined
<1>4. Budget'
  BY <1>3 DEF Budget, Starts, managerVars, clientVars
<1>5. ASSUME process' = Quit(i) \/ process' = Sent(i, StopMessages(i)), UNCHANGED stopping
      PROVE  Inv'
  <2> DEFINE q == [process[i] EXCEPT !.state = "quit", !.queue = <<>>]
  <2>1. q \in Proc
    BY <1>2, EmptySeq DEF Kinds, Proc, State
  <2>2. Quit(i) = [process EXCEPT ![i] = q]
    BY <1>2 DEF Quit, Kinds
  <2> HIDE DEF q, i
  <2>3. /\ process' \in [Instance -> Proc]
        /\ \A j \in Instance : j # i => process'[j].state = process[j].state
    <3>1. CASE process' = Quit(i)
      BY <1>2, <2>1, <2>2, <3>1 DEF Kinds
    <3>2. CASE process' = Sent(i, StopMessages(i))
      BY <1>2, <3>2, SentFacts, StopMessagesFacts
    <3> QED BY <1>5, <3>1, <3>2
  <2>4. Kinds'
    BY <1>3, <1>5, <2>3 DEF Kinds, managerVars, clientVars
  <2>5. Refers'
    BY <1>1, <1>2, <1>3, <1>5, <2>3, StepRefers
  <2> QED BY <1>4, <2>4, <2>5
<1>6. CASE Stop \/ Waited \/ TimedOut
  BY <1>5, <1>6 DEF Stop, Waited, TimedOut
<1>7. CASE Joined
  <2>1. stopping' = Tail(stopping) /\ manager' = "idle" /\ UNCHANGED process
    BY <1>7 DEF Joined
  <2>2. stopping' \in Seq(Instance) /\ Range(stopping') \subseteq Range(stopping)
    <3>1. /\ stopping' \in Seq(Instance) /\ Len(stopping') = Len(stopping) - 1
          /\ \A k \in 1 .. Len(stopping) - 1 : stopping'[k] = stopping[k + 1]
      BY <1>1, <2>1, HeadTailProperties DEF Kinds
    <3>2. /\ DOMAIN stopping = 1 .. Len(stopping) /\ Len(stopping) \in Nat
          /\ DOMAIN stopping' = 1 .. Len(stopping) - 1
      BY <3>1, LenProperties DEF Kinds
    <3> QED BY <3>1, <3>2 DEF Range
  <2>3. Kinds'
    BY <1>3, <2>1, <2>2 DEF Kinds, managerVars, clientVars
  <2>4. Refers'
    BY <1>3, <2>1, <2>2 DEF Refers, managerVars
  <2> QED BY <1>4, <2>3, <2>4
<1> QED BY <1>6, <1>7

\* Every step preserves the invariant.
LEMMA NextInv == Inv /\ [Next]_vars => Inv'
<1> SUFFICES ASSUME Inv, [Next]_vars PROVE Inv'
  OBVIOUS
<1>1. CASE UNCHANGED vars
  BY <1>1 DEF vars, managerVars, stopVars, clientVars, Inv, Kinds, Refers, Budget, Starts
<1> QED
  BY <1>1, ClientInv, ConnectedInv, RequestHandledInv, AnswerHandledInv, WorkInv, StopInv DEF Next, Handle

\* In every behaviour of the service manager, fair or not, the invariant holds.
THEOREM Invariance == Spec => []Inv
<1> QED BY InitInv, NextInv, PTL DEF Spec

\* Every variable holds a value of its kind; in particular there is an instance for
\* every process that prepareProcess starts.
THEOREM TypeCorrect == Spec => []TypeOK
<1>1. Inv => TypeOK
  BY Numbers DEF Inv, Kinds, TypeOK, Proc, State
<1> QED BY <1>1, Invariance, PTL

\* The service manager's books never go stale: whatever start, stop, bind, unbind
\* and failed creations arrive in whatever order, a record names the running
\* process of its name, never one that was given to the process manager to stop.
THEOREM RecordsReferHolds == Spec => []RecordsRefer
<1>1. Inv => RecordsRefer
  <2> SUFFICES ASSUME Inv, NEW s \in Services, mServices[s] # None
               PROVE  /\ mServices[s].proc = mProcesses[processName[s]]
                      /\ process[mServices[s].proc].state = "running"
                      /\ ~Contains(stopping, mServices[s].proc)
    BY DEF RecordsRefer
  <2>1. mServices[s].proc = mProcesses[processName[s]] /\ processName[s] \in Name
    BY DEF Inv, Refers, Name
  <2>2. mServices[s].proc # None
    BY NoneAssumption DEF Inv, Kinds, Record, Instance
  <2>3. process[mServices[s].proc].state = "running" /\ mServices[s].proc \notin Range(stopping)
    BY <2>1, <2>2 DEF Inv, Refers
  <2>4. ~Contains(stopping, mServices[s].proc)
    BY <2>3, LenProperties DEF Contains, Range, Inv, Kinds
  <2> QED BY <2>1, <2>3, <2>4
<1> QED BY <1>1, Invariance, PTL

(***************************************************************************)
(* What is on its way between the service manager and the processes, as    *)
(* long as clients wait for answers.                                       *)
(***************************************************************************)
\* The places of a process: 0 is what it works on, the others are in its queue.
Place(p) == {k \in 0 .. Len(p.queue) : k = 0 => p.busy # None}
Item(p, k) == IF k = 0 THEN p.busy ELSE p.queue[k]

\* Message x is at place k of process i; message x is at place k of the inbox.
Has(i, k, x) == k \in Place(process[i]) /\ Item(process[i], k) = x
Waits(k, x) == k \in 1 .. Len(inbox) /\ inbox[k] = x

Is(x, op, s) == x.op = op /\ x.s = s

\* Message x is part of a request for s that has yet to be answered.
Token(x, s) == x.s = s /\ (x.op \in {"create", "start", "bind"} \/ (x.op = "stop" /\ x.id # 0))

\* Message x is a client's request for s; the stops without a call are the manager's own.
Asks(x, s) == x.s = s /\ (x.op \in {"start", "bind", "unbind"} \/ (x.op = "stop" /\ x.id # 0))
Requested(s) == \E k \in Nat, x \in Message : Waits(k, x) /\ Asks(x, s)

\* Message x is neither a client's request nor a part of the answer to one.
Quiet(x) ==
  /\ x.op \notin {"start", "bind", "unbind", "result", "notCreated"}
  /\ x.op = "stop" => x.id = 0

Creating(i, s) == \E k \in Nat, x \in Message : Has(i, k, x) /\ Is(x, "create", s)
Destroying(i, s) == \E k \in Nat, x \in Message : Has(i, k, x) /\ Is(x, "stop", s)
Recorded(s, i) == mServices[s] # None /\ mServices[s].proc = i

\* The client that asked for message x waits for the answer.
Open(x) ==
  \/ /\ x.op \in {"start", "stop", "result"} /\ x.id \in 1 .. Len(calls)
     /\ calls[x.id].s = x.s /\ ~calls[x.id].answered
  \/ x.op = "bind" /\ bound[x.conn] = x.s /\ x.conn \notin connected
  \/ x.op \in {"create", "notCreated"} /\ Unanswered(x.s)

\* The next request for s is made when the last one has been answered.
TokensOpen(s) ==
  \A i \in Instance, k \in Nat, x \in Message :
    Has(i, k, x) /\ Token(x, s) => Open(x) /\ ~Requested(s)

\* What is in the inbox for s.
RequestsLast(s) ==
  \A k \in Nat, x \in Message :
    Waits(k, x) /\ Asks(x, s) =>
      IF x.op = "unbind" THEN ~(x.conn \in connected /\ bound[x.conn] = s)
      ELSE Open(x) /\ \A l \in Nat, y \in Message : Waits(l, y) /\ Asks(y, s) => l <= k
ResultsLast(s) ==
  \A k \in Nat, x \in Message :
    Waits(k, x) /\ Is(x, "result", s) =>
      /\ Open(x) /\ ~Requested(s)
      /\ \A i \in Instance, l \in Nat, y \in Message : Has(i, l, y) => ~Token(y, s)
      /\ \A l \in Nat, y \in Message :
           Waits(l, y) /\ y.s = s /\ y.op \in {"result", "notCreated"} => l <= k
Failures(s) ==
  \A k \in Nat, x \in Message :
    Waits(k, x) /\ Is(x, "notCreated", s) =>
      Open(x) /\ ~Requested(s) /\ s \notin Enabled /\ \A i \in Instance : ~Creating(i, s)

\* A process creates a service before it handles the request for which it does so.
Order(s) ==
  \A i, j \in Instance, k, l \in Nat, x, y \in Message :
    Has(i, k, x) /\ Has(j, l, y) /\ Token(x, s) /\ Token(y, s) =>
      i = j /\ (k < l => x.op = "create" /\ y.op \in {"start", "bind"})

\* What stops an earlier object of a service is handled before a new one is created.
StopsFirst(s) ==
  \A i \in Instance, k, l \in Nat, x, y \in Message :
    Has(i, k, x) /\ Has(i, l, y) /\ Is(x, "create", s) /\ Is(y, "stop", s) => l < k

\* Where a service is created or bound its record is.
CreatedHere(s) ==
  \A i \in Instance, k \in Nat, x \in Message :
    Has(i, k, x) =>
      /\ Is(x, "create", s) => Recorded(s, i)
      /\ Is(x, "bind", s) /\ s \in Enabled => Recorded(s, i) /\ x.conn \in mServices[s].conns

\* A service with a record is there and stays, or is about to be created.
Served(s) ==
  \A i \in Instance :
    Recorded(s, i) /\ s \in Enabled =>
      Creating(i, s) \/ (s \in process[i].services /\ ~Destroying(i, s))

\* The record of a service knows the clients that are connected.
Known(s) ==
  \A c \in connected : bound[c] = s =>
    /\ s \in Enabled /\ mServices[s] # None /\ c \in mServices[s].conns
    /\ \A i \in Instance : ~Creating(i, s)

Talk(s) ==
  /\ TokensOpen(s) /\ RequestsLast(s) /\ ResultsLast(s) /\ Failures(s)
  /\ Order(s) /\ StopsFirst(s) /\ CreatedHere(s) /\ Served(s) /\ Known(s)

\* A process ends without services, or stop() has given up on it.
EndsEmpty ==
  \A i \in Instance :
    process[i].state \in {"quit", "ended"} => process[i].services = {} \/ i \in timedOut

\* A process that has not been started has no messages.
Blank == \A i \in Instance, k \in Nat, x \in Message : Has(i, k, x) => i <= instances

Talks == patient =>
  /\ \A c \in connected : bound[c] # None
  /\ EndsEmpty /\ Blank /\ \A s \in Services : Talk(s)

\* No part of a request for s is in a process, or in the inbox.
Calm(s) == \A i \in Instance, k \in Nat, x \in Message : Has(i, k, x) => ~Token(x, s)
Idle(s) == \A k \in Nat, x \in Message : Waits(k, x) /\ x.s = s => Quiet(x)

\* The end of a connection is asked for once, and the record knows that connection.
Unbinds(s) ==
  \A k \in Nat, x \in Message :
    Waits(k, x) /\ Is(x, "unbind", s) =>
      /\ s \in Enabled /\ mServices[s] # None /\ x.conn \in mServices[s].conns
      /\ \A l \in Nat, y \in Message :
           Waits(l, y) /\ Is(y, "unbind", s) /\ y.conn = x.conn => l = k

\* Message x is the stop that the service manager sends to itself with the end of the last
\* connection to s.
Late(x, s) == x.op = "stop" /\ x.s = s /\ x.id = 0

\* When it comes s is not being created, nor is it sent twice; a start or a bind that is
\* before it is one for the object that is there.
LateStops(s) ==
  \A k \in Nat, x \in Message :
    Waits(k, x) /\ Late(x, s) =>
      /\ s \in Enabled /\ \A i \in Instance : ~Creating(i, s)
      /\ \A l \in Nat, y \in Message : Waits(l, y) /\ y.s = s =>
           /\ y.op = "unbind" \/ Late(y, s) => l >= k
           /\ l < k /\ y.op \in {"start", "bind"} => mServices[s] # None

Closing == patient => \A s \in Services : Unbinds(s) /\ LateStops(s)

\* The call of onServiceConnected for connection c is at place k of the context's handler.
Pending(k, c) == k \in 1 .. Len(posted) /\ posted[k] = c

\* The client that will be told so waits for that; its record knows the connection.
Greeted(c, s) ==
  /\ c \notin connected /\ Calm(s) /\ Idle(s)
  /\ s \in Enabled /\ mServices[s] # None /\ c \in mServices[s].conns
Greets(s) == \A k \in Nat, c \in Connections : Pending(k, c) /\ bound[c] = s => Greeted(c, s)

Greeting == patient =>
  /\ \A k \in Nat, c \in Connections : Pending(k, c) => bound[c] # None
  /\ \A k, l \in Nat, c \in Connections : Pending(k, c) /\ Pending(l, c) => k = l
  /\ \A s \in Services : Greets(s)

\* The record of t goes: t could not be created, or nobody is bound to it.
Withdrawn(t) ==
  /\ mServices'[t] = None /\ \A i \in Instance : ~Creating(i, t)
  /\ t \notin Enabled \/ mServices[t].conns = {}

\* Messages keep their order when those of process i move up by l places.
LEMMA Frame ==
  ASSUME NEW t \in Services, Talk(t), NEW i, NEW l \in Nat, NEW e \in Nat,
         \A j \in Instance, k \in Nat, x \in Message :
           Has(j, k, x)' /\ x.s = t /\ x.op \in {"create", "start", "bind", "stop"} =>
             \/ Has(j, IF j = i THEN k + l ELSE k, x)
             \/ x.op = "stop" /\ x.id = 0 /\ (~Recorded(t, j) \/ ~Creating(j, t)),
         \A k \in Nat, x \in Message : Waits(k, x)' /\ x.s = t /\ ~Quiet(x) => Waits(k + e, x),
         \A x \in Message : x.s = t /\ Open(x) => Open(x)',
         \A c \in connected' : bound'[c] = t => c \in connected /\ bound[c] = t,
         mServices'[t] = mServices[t] \/ Withdrawn(t),
         Served(t)'
  PROVE  Talk(t)'
<1> USE DEF Talk
<1>1. ASSUME NEW j \in Instance, NEW k \in Nat, NEW x \in Message, Has(j, k, x)',
             Token(x, t) \/ Is(x, "create", t)
      PROVE  Has(j, IF j = i THEN k + l ELSE k, x)
  BY <1>1 DEF Token, Is
<1>2. \A j \in Instance : Creating(j, t)' => Creating(j, t)
  <2>1. SUFFICES ASSUME NEW j \in Instance, NEW k \in Nat, NEW x \in Message,
                        Has(j, k, x)', Is(x, "create", t)
                 PROVE  Creating(j, t)
    BY DEF Creating
  <2>2. Has(j, IF j = i THEN k + l ELSE k, x) /\ (IF j = i THEN k + l ELSE k) \in Nat
    BY <1>1, <2>1
  <2> QED BY <2>1, <2>2 DEF Creating
<1>3. Requested(t)' => Requested(t)
  <2>1. SUFFICES ASSUME NEW k \in Nat, NEW x \in Message, Waits(k, x)', Asks(x, t) PROVE Requested(t)
    BY DEF Requested
  <2>2. Waits(k + e, x) /\ k + e \in Nat
    BY <2>1 DEF Asks, Quiet
  <2> QED BY <2>1, <2>2 DEF Requested
<1>4. TokensOpen(t)'
  <2>1. SUFFICES ASSUME NEW j \in Instance, NEW k \in Nat, NEW x \in Message, Has(j, k, x)', Token(x, t)
                 PROVE  Open(x)' /\ ~Requested(t)'
    BY DEF TokensOpen
  <2>2. Has(j, IF j = i THEN k + l ELSE k, x) /\ (IF j = i THEN k + l ELSE k) \in Nat
    BY <1>1, <2>1
  <2>3. Open(x) /\ ~Requested(t) /\ x.s = t
    BY <2>1, <2>2 DEF TokensOpen, Token
  <2> QED BY <1>3, <2>3
<1>5. RequestsLast(t)'
  <2>1. SUFFICES ASSUME NEW k \in Nat, NEW x \in Message, Waits(k, x)', Asks(x, t)
                 PROVE  (IF x.op = "unbind" THEN ~(x.conn \in connected /\ bound[x.conn] = t)
                         ELSE Open(x) /\ \A m \in Nat, y \in Message : Waits(m, y) /\ Asks(y, t) => m <= k)'
    BY DEF RequestsLast
  <2>2. Waits(k + e, x) /\ k + e \in Nat /\ x.s = t
    BY <2>1 DEF Asks, Quiet
  <2>3. CASE x.op = "unbind"
    BY <2>1, <2>2, <2>3 DEF RequestsLast
  <2>4. CASE x.op # "unbind"
    <3>1. Open(x)' /\ \A m \in Nat, y \in Message : Waits(m, y) /\ Asks(y, t) => m <= k + e
      BY <2>1, <2>2, <2>4 DEF RequestsLast
    <3>2. ASSUME NEW m \in Nat, NEW y \in Message, Waits(m, y)', Asks(y, t) PROVE m <= k
      <4>1. Waits(m + e, y) /\ m + e \in Nat
        BY <3>2 DEF Asks, Quiet
      <4>2. m + e <= k + e
        BY <3>1, <3>2, <4>1
      <4> QED BY <4>2
    <3> QED BY <2>4, <3>1, <3>2
  <2> QED BY <2>3, <2>4
<1>6. ResultsLast(t)'
  <2>1. SUFFICES ASSUME NEW k \in Nat, NEW x \in Message, Waits(k, x)', Is(x, "result", t)
                 PROVE  /\ Open(x)' /\ ~Requested(t)'
                        /\ \A j \in Instance, m \in Nat, y \in Message : Has(j, m, y)' => ~Token(y, t)
                        /\ \A m \in Nat, y \in Message :
                             Waits(m, y)' /\ y.s = t /\ y.op \in {"result", "notCreated"} => m <= k
    BY DEF ResultsLast
  <2>2. Waits(k + e, x) /\ k + e \in Nat /\ x.s = t
    BY <2>1 DEF Is, Quiet
  <2>3. /\ Open(x) /\ ~Requested(t)
        /\ \A j \in Instance, m \in Nat, y \in Message : Has(j, m, y) => ~Token(y, t)
        /\ \A m \in Nat, y \in Message :
             Waits(m, y) /\ y.s = t /\ y.op \in {"result", "notCreated"} => m <= k + e
    BY <2>1, <2>2 DEF ResultsLast
  <2>4. ASSUME NEW j \in Instance, NEW m \in Nat, NEW y \in Message, Has(j, m, y)', Token(y, t) PROVE FALSE
    <3>1. Has(j, IF j = i THEN m + l ELSE m, y) /\ (IF j = i THEN m + l ELSE m) \in Nat
      BY <1>1, <2>4
    <3> QED BY <2>3, <2>4, <3>1
  <2>5. ASSUME NEW m \in Nat, NEW y \in Message, Waits(m, y)', y.s = t, y.op \in {"result", "notCreated"}
        PROVE  m <= k
    <3>1. Waits(m + e, y) /\ m + e \in Nat
      BY <2>5 DEF Quiet
    <3>2. m + e <= k + e
      BY <2>3, <2>5, <3>1
    <3> QED BY <3>2
  <2> QED BY <1>3, <2>2, <2>3, <2>4, <2>5
<1>7. Failures(t)'
  <2>1. SUFFICES ASSUME NEW k \in Nat, NEW x \in Message, Waits(k, x)', Is(x, "notCreated", t)
                 PROVE  Open(x)' /\ ~Requested(t)' /\ t \notin Enabled /\ \A j \in Instance : ~Creating(j, t)'
    BY DEF Failures
  <2>2. Waits(k + e, x) /\ k + e \in Nat /\ x.s = t
    BY <2>1 DEF Is, Quiet
  <2>3. Open(x) /\ ~Requested(t) /\ t \notin Enabled /\ \A j \in Instance : ~Creating(j, t)
    BY <2>1, <2>2 DEF Failures
  <2> QED BY <1>2, <1>3, <2>2, <2>3
<1>8. Order(t)'
  <2>1. SUFFICES ASSUME NEW j \in Instance, NEW h \in Instance, NEW k \in Nat, NEW m \in Nat,
                        NEW x \in Message, NEW y \in Message,
                        Has(j, k, x)', Has(h, m, y)', Token(x, t), Token(y, t)
                 PROVE  j = h /\ (k < m => x.op = "create" /\ y.op \in {"start", "bind"})
    BY DEF Order
  <2>2. /\ Has(j, IF j = i THEN k + l ELSE k, x) /\ (IF j = i THEN k + l ELSE k) \in Nat
        /\ Has(h, IF h = i THEN m + l ELSE m, y) /\ (IF h = i THEN m + l ELSE m) \in Nat
    BY <1>1, <2>1
  <2>3. /\ j = h
        /\ (IF j = i THEN k + l ELSE k) < (IF h = i THEN m + l ELSE m)
             => x.op = "create" /\ y.op \in {"start", "bind"}
    BY <2>1, <2>2 DEF Order
  <2> QED BY <2>3
<1>9. StopsFirst(t)'
  <2>1. SUFFICES ASSUME NEW j \in Instance, NEW k \in Nat, NEW m \in Nat,
                        NEW x \in Message, NEW y \in Message,
                        Has(j, k, x)', Has(j, m, y)', Is(x, "create", t), Is(y, "stop", t)
                 PROVE  m < k
    BY DEF StopsFirst
  <2>2. Has(j, IF j = i THEN k + l ELSE k, x) /\ (IF j = i THEN k + l ELSE k) \in Nat
    BY <1>1, <2>1
  <2>3. Recorded(t, j) /\ Creating(j, t)
    BY <2>1, <2>2 DEF CreatedHere, Creating
  <2>4. Has(j, IF j = i THEN m + l ELSE m, y) /\ (IF j = i THEN m + l ELSE m) \in Nat
    BY <2>1, <2>3 DEF Is
  <2>5. (IF j = i THEN m + l ELSE m) < (IF j = i THEN k + l ELSE k)
    BY <2>1, <2>2, <2>4 DEF StopsFirst
  <2> QED BY <2>5
<1>10. CreatedHere(t)'
  <2>1. SUFFICES ASSUME NEW j \in Instance, NEW k \in Nat, NEW x \in Message, Has(j, k, x)'
                 PROVE  /\ Is(x, "create", t) => Recorded(t, j)'
                        /\ Is(x, "bind", t) /\ t \in Enabled =>
                             Recorded(t, j)' /\ x.conn \in mServices'[t].conns
    BY DEF CreatedHere
  <2>2. Is(x, "create", t) \/ Is(x, "bind", t) =>
          Has(j, IF j = i THEN k + l ELSE k, x) /\ (IF j = i THEN k + l ELSE k) \in Nat
    BY <2>1 DEF Is
  <2>3. /\ Is(x, "create", t) => Recorded(t, j) /\ Creating(j, t)
        /\ Is(x, "bind", t) /\ t \in Enabled => Recorded(t, j) /\ x.conn \in mServices[t].conns
    BY <2>2 DEF CreatedHere, Creating
  <2> QED BY <2>3 DEF Recorded, Withdrawn
<1>11. Known(t)'
  BY <1>2 DEF Known, Withdrawn
<1> QED BY <1>4, <1>5, <1>6, <1>7, <1>8, <1>9, <1>10, <1>11

\* None is no message.
LEMMA NoneIsNoMessage == None \notin Message
  BY NoneAssumption, ServiceManagerAssumption DEF Message, Op

(***************************************************************************)
(* How messages move in one step.                                          *)
(***************************************************************************)
\* Process i takes the first message m from its place l, and the others move up.
Removes(i, l, m) ==
  /\ Has(i, l, m)
  /\ \A k \in Nat, x \in Message : Has(i, k, x) => k >= l /\ (k = l => x = m)
  /\ \A j \in Instance, k \in Nat, x \in Message :
       Has(j, k, x)' => Has(j, IF j = i THEN k + l ELSE k, x) /\ (j = i => k >= 1)
  /\ \A j \in Instance, k \in Nat, x \in Message :
       Has(j, k, x) => (j = i /\ k = l) \/ \E n \in Nat : Has(j, n, x)'

\* All messages stay, those of process i move up by l places.
Keeps(i, l) ==
  /\ \A j \in Instance, k \in Nat, x \in Message :
       Has(j, k, x)' => Has(j, IF j = i THEN k + l ELSE k, x)
  /\ \A j \in Instance, k \in Nat, x \in Message :
       Has(j, k, x) => \E n \in Nat : Has(j, n, x)'

\* Process i gets the messages msgs behind its first b places.
Adds(i, b, msgs) ==
  /\ \A k \in Nat, x \in Message : Has(i, k, x) => k <= b
  /\ \A j \in Instance, k \in Nat, x \in Message : Has(j, k, x) => Has(j, k, x)'
  /\ \A j \in Instance, k \in Nat, x \in Message : Has(j, k, x)' =>
       Has(j, k, x) \/ (j = i /\ \E n \in 1 .. Len(msgs) : k = b + n /\ x = msgs[n])
  /\ \A n \in 1 .. Len(msgs) : Has(i, b + n, msgs[n])'

\* Services and states of processes stay.
SameServices ==
  \A j \in Instance : process'[j].services = process[j].services /\ process'[j].state = process[j].state

\* What a process other than i has stays.
LEMMA OthersKeep ==
  ASSUME Kinds, NEW i \in Instance, NEW p, process' = [process EXCEPT ![i] = p]
  PROVE  /\ process'[i] = p
         /\ \A j \in Instance : j # i => process'[j] = process[j]
         /\ \A j \in Instance, k \in Nat, x \in Message : j # i => (Has(j, k, x)' <=> Has(j, k, x))
         /\ \A k \in Nat, x \in Message : Has(i, k, x)' <=> k \in Place(p) /\ Item(p, k) = x
<1>1. process'[i] = p /\ \A j \in Instance : j # i => process'[j] = process[j]
  BY DEF Kinds
<1> QED BY <1>1 DEF Has

\* The message queue of a process hands out its first message.
LEMMA TakenShape ==
  ASSUME Kinds, NEW i \in Instance, NEW op, Turn(i, op), NEW m, m = Head(process[i].queue),
         process' = Taken(i)
  PROVE  m \in Message /\ m.op = op /\ Removes(i, 1, m) /\ SameServices /\ process[i].state = "running"
<1> DEFINE q == process[i].queue
           p == [process[i] EXCEPT !.queue = Tail(q)]
<1>1. /\ process[i] \in Proc /\ q \in Seq(Message) /\ q # <<>> /\ process[i].busy = None
      /\ m.op = op /\ process[i].state = "running"
  BY DEF Kinds, Proc, Turn
<1>2. /\ m \in Message /\ m = q[1] /\ Len(q) \in Nat /\ Len(q) >= 1
      /\ Len(Tail(q)) = Len(q) - 1 /\ \A k \in 1 .. Len(q) - 1 : Tail(q)[k] = q[k + 1]
  BY <1>1, HeadTailProperties, LenProperties, EmptySeq
<1>3. process' = [process EXCEPT ![i] = p]
  BY DEF Taken, Kinds
<1>4. p.busy = None /\ p.queue = Tail(q) /\ p.services = process[i].services /\ p.state = process[i].state
  BY <1>1 DEF Proc
<1> HIDE DEF p, q
<1>5. \A k \in Nat, x \in Message : Has(i, k, x) <=> k \in 1 .. Len(q) /\ q[k] = x
  BY <1>1, <1>2 DEF Has, Place, Item, q
<1>6. \A k \in Nat, x \in Message : Has(i, k, x)' <=> k \in 1 .. Len(q) - 1 /\ q[k + 1] = x
  <2>1. \A k \in Nat, x \in Message : k \in Place(p) /\ Item(p, k) = x <=> k \in 1 .. Len(q) - 1 /\ q[k + 1] = x
    BY <1>2, <1>4 DEF Place, Item
  <2>2. \A k \in Nat, x \in Message : Has(i, k, x)' <=> k \in Place(p) /\ Item(p, k) = x
    BY <1>3, OthersKeep
  <2> QED BY <2>1, <2>2
<1>7. \A j \in Instance, k \in Nat, x \in Message : j # i => (Has(j, k, x)' <=> Has(j, k, x))
  BY <1>3, OthersKeep
<1>8. Has(i, 1, m) /\ \A k \in Nat, x \in Message : Has(i, k, x) => k >= 1 /\ (k = 1 => x = m)
  BY <1>2, <1>5
<1>9. ASSUME NEW j \in Instance, NEW k \in Nat, NEW x \in Message, Has(j, k, x)'
      PROVE  Has(j, IF j = i THEN k + 1 ELSE k, x) /\ (j = i => k >= 1)
  <2>1. CASE j = i
    BY <1>2, <1>5, <1>6, <1>9, <2>1
  <2>2. CASE j # i
    BY <1>7, <1>9, <2>2
  <2> QED BY <2>1, <2>2
<1>10. ASSUME NEW j \in Instance, NEW k \in Nat, NEW x \in Message, Has(j, k, x), ~(j = i /\ k = 1)
       PROVE  \E n \in Nat : Has(j, n, x)'
  <2>1. CASE j # i
    BY <1>7, <1>10, <2>1
  <2>2. CASE j = i
    <3>1. k \in 1 .. Len(q) /\ q[k] = x /\ k # 1
      BY <1>5, <1>10, <2>2
    <3>2. k - 1 \in Nat /\ k - 1 \in 1 .. Len(q) - 1 /\ q[(k - 1) + 1] = x
      BY <1>2, <3>1
    <3> QED BY <1>6, <2>2, <3>2
  <2> QED BY <2>1, <2>2
<1>11. SameServices
  <2>1. process'[i] = p /\ \A j \in Instance : j # i => process'[j] = process[j]
    BY <1>3, OthersKeep
  <2>2. process'[i].services = process[i].services /\ process'[i].state = process[i].state
    BY <1>4, <2>1
  <2>3. \A j \in Instance : j # i =>
          process'[j].services = process[j].services /\ process'[j].state = process[j].state
    BY <2>1
  <2> QED BY <2>2, <2>3 DEF SameServices
<1> QED BY <1>1, <1>2, <1>8, <1>9, <1>10, <1>11 DEF Removes

\* The process works on its first message.
LEMMA BusyShape ==
  ASSUME Kinds, NEW i \in Instance, NEW op, Turn(i, op), NEW m, m = Head(process[i].queue),
         process' = Busy(i, m)
  PROVE  m \in Message /\ m.op = op /\ Keeps(i, 1) /\ SameServices /\ Has(i, 1, m) /\ Has(i, 0, m)'
<1> DEFINE q == process[i].queue
           p == [process[i] EXCEPT !.queue = Tail(q), !.busy = m]
<1>1. /\ process[i] \in Proc /\ q \in Seq(Message) /\ q # <<>> /\ process[i].busy = None
      /\ m.op = op
  BY DEF Kinds, Proc, Turn
<1>2. /\ m \in Message /\ m = q[1] /\ Len(q) \in Nat /\ Len(q) >= 1
      /\ Len(Tail(q)) = Len(q) - 1 /\ \A k \in 1 .. Len(q) - 1 : Tail(q)[k] = q[k + 1]
  BY <1>1, HeadTailProperties, LenProperties, EmptySeq
<1>3. process' = [process EXCEPT ![i] = p]
  BY DEF Busy, Kinds
<1>4. p.busy = m /\ p.queue = Tail(q) /\ p.services = process[i].services /\ p.state = process[i].state
  BY <1>1 DEF Proc
<1>5. m # None
  BY <1>2, NoneIsNoMessage
<1> HIDE DEF p, q
<1>6. \A k \in Nat, x \in Message : Has(i, k, x) <=> k \in 1 .. Len(q) /\ q[k] = x
  BY <1>1, <1>2 DEF Has, Place, Item, q
<1>7. \A k \in Nat, x \in Message : Has(i, k, x)' <=> k \in 0 .. Len(q) - 1 /\ q[k + 1] = x
  <2>1. \A k \in Nat, x \in Message : k \in Place(p) /\ Item(p, k) = x <=> k \in 0 .. Len(q) - 1 /\ q[k + 1] = x
    BY <1>2, <1>4, <1>5 DEF Place, Item
  <2>2. \A k \in Nat, x \in Message : Has(i, k, x)' <=> k \in Place(p) /\ Item(p, k) = x
    BY <1>3, OthersKeep
  <2> QED BY <2>1, <2>2
<1>8. \A j \in Instance, k \in Nat, x \in Message : j # i => (Has(j, k, x)' <=> Has(j, k, x))
  BY <1>3, OthersKeep
<1>9. Has(i, 1, m) /\ Has(i, 0, m)'
  BY <1>2, <1>6, <1>7
<1>10. ASSUME NEW j \in Instance, NEW k \in Nat, NEW x \in Message, Has(j, k, x)'
      PROVE  Has(j, IF j = i THEN k + 1 ELSE k, x)
  BY <1>2, <1>6, <1>7, <1>8, <1>10
<1>11. ASSUME NEW j \in Instance, NEW k \in Nat, NEW x \in Message, Has(j, k, x)
       PROVE  \E n \in Nat : Has(j, n, x)'
  <2>1. CASE j # i
    BY <1>8, <1>11, <2>1
  <2>2. CASE j = i
    <3>1. k \in 1 .. Len(q) /\ q[k] = x
      BY <1>6, <1>11, <2>2
    <3>2. k - 1 \in Nat /\ k - 1 \in 0 .. Len(q) - 1 /\ q[(k - 1) + 1] = x
      BY <1>2, <3>1
    <3> QED BY <1>7, <2>2, <3>2
  <2> QED BY <2>1, <2>2
<1>12. SameServices
  <2>1. process'[i] = p /\ \A j \in Instance : j # i => process'[j] = process[j]
    BY <1>3, OthersKeep
  <2>2. process'[i].services = process[i].services /\ process'[i].state = process[i].state
    BY <1>4, <2>1
  <2>3. \A j \in Instance : j # i =>
          process'[j].services = process[j].services /\ process'[j].state = process[j].state
    BY <2>1
  <2> QED BY <2>2, <2>3 DEF SameServices
<1> QED BY <1>1, <1>2, <1>9, <1>10, <1>11, <1>12 DEF Keeps

\* Process i has done what it worked on, m, and has the services S.
Finishes(i, m, S) ==
  /\ m = process[i].busy /\ m # None
  /\ \E p : /\ p.busy = None /\ p.queue = process[i].queue /\ p.services = S /\ p.state = process[i].state
            /\ process' = [process EXCEPT ![i] = p]

\* Its other messages stay where they are.
LEMMA DoneShape ==
  ASSUME Kinds, NEW i \in Instance, NEW m, NEW S, Finishes(i, m, S)
  PROVE  /\ m \in Message /\ Removes(i, 0, m)
         /\ \A j \in Instance : process'[j].state = process[j].state
         /\ \A j \in Instance : process'[j].services = IF j = i THEN S ELSE process[j].services
<1>0. PICK p : /\ p.busy = None /\ p.queue = process[i].queue /\ p.services = S /\ p.state = process[i].state
               /\ process' = [process EXCEPT ![i] = p]
  BY DEF Finishes
<1> DEFINE q == process[i].queue
<1>1. process[i] \in Proc /\ q \in Seq(Message) /\ m \in Message /\ Len(q) \in Nat
  BY LenProperties DEF Kinds, Proc, Finishes
<1>2. process' = [process EXCEPT ![i] = p]
  BY <1>0
<1>3. p.busy = None /\ p.queue = q /\ p.services = S /\ p.state = process[i].state
  BY <1>0
<1> HIDE DEF q
<1>4. \A k \in Nat, x \in Message : Has(i, k, x) <=> (k = 0 /\ x = m) \/ (k \in 1 .. Len(q) /\ q[k] = x)
  BY <1>1 DEF Has, Place, Item, q, Finishes
<1>5. \A k \in Nat, x \in Message : Has(i, k, x)' <=> k \in 1 .. Len(q) /\ q[k] = x
  <2>1. \A k \in Nat, x \in Message : k \in Place(p) /\ Item(p, k) = x <=> k \in 1 .. Len(q) /\ q[k] = x
    BY <1>1, <1>3 DEF Place, Item
  <2>2. \A k \in Nat, x \in Message : Has(i, k, x)' <=> k \in Place(p) /\ Item(p, k) = x
    BY <1>2, OthersKeep
  <2> QED BY <2>1, <2>2
<1>6. \A j \in Instance, k \in Nat, x \in Message : j # i => (Has(j, k, x)' <=> Has(j, k, x))
  BY <1>2, OthersKeep
<1>7. Has(i, 0, m) /\ \A k \in Nat, x \in Message : Has(i, k, x) => k >= 0 /\ (k = 0 => x = m)
  BY <1>1, <1>4
<1>8. ASSUME NEW j \in Instance, NEW k \in Nat, NEW x \in Message, Has(j, k, x)'
      PROVE  Has(j, IF j = i THEN k + 0 ELSE k, x) /\ (j = i => k >= 1)
  <2>1. k + 0 = k
    OBVIOUS
  <2> QED BY <1>1, <1>4, <1>5, <1>6, <1>8, <2>1
<1>9. ASSUME NEW j \in Instance, NEW k \in Nat, NEW x \in Message, Has(j, k, x), ~(j = i /\ k = 0)
      PROVE  \E n \in Nat : Has(j, n, x)'
  <2>1. CASE j # i
    BY <1>6, <1>9, <2>1
  <2>2. CASE j = i
    BY <1>4, <1>5, <1>9, <2>2
  <2> QED BY <2>1, <2>2
<1>10. process'[i] = p /\ \A j \in Instance : j # i => process'[j] = process[j]
  BY <1>2, OthersKeep
<1>11. /\ \A j \in Instance : process'[j].state = process[j].state
       /\ \A j \in Instance : process'[j].services = IF j = i THEN S ELSE process[j].services
  <2>1. SUFFICES ASSUME NEW j \in Instance
                 PROVE  /\ process'[j].state = process[j].state
                        /\ process'[j].services = IF j = i THEN S ELSE process[j].services
    OBVIOUS
  <2>2. CASE j = i
    BY <1>3, <1>10, <2>2
  <2>3. CASE j # i
    <3>1. process'[j] = process[j]
      BY <1>10, <2>3
    <3> QED BY <2>3, <3>1
  <2> QED BY <2>2, <2>3
<1> QED BY <1>1, <1>7, <1>8, <1>9, <1>11 DEF Removes

\* Messages for process i, which has been started if it was not there yet.
LEMMA AddsShape ==
  ASSUME Kinds, NEW i \in Instance, NEW p \in Proc, NEW msgs \in Seq(Message),
         p = process[i] \/ (p = NewProcess /\ \A k \in Nat, x \in Message : ~Has(i, k, x)),
         process' = [process EXCEPT ![i] = [p EXCEPT !.queue = @ \o msgs]]
  PROVE  /\ Adds(i, Len(p.queue), msgs) /\ Len(p.queue) \in Nat
         /\ \A j \in Instance : process'[j].services = IF j = i THEN p.services ELSE process[j].services
         /\ \A j \in Instance : process'[j].state = IF j = i THEN p.state ELSE process[j].state
<1> DEFINE q == p.queue
           b == Len(q)
           r == [p EXCEPT !.queue = q \o msgs]
<1>1. q \in Seq(Message) /\ b \in Nat /\ Len(msgs) \in Nat
  BY LenProperties DEF Proc
<1>2. /\ Len(q \o msgs) = b + Len(msgs)
      /\ \A k \in 1 .. b + Len(msgs) : (q \o msgs)[k] = IF k <= b THEN q[k] ELSE msgs[k - b]
  BY <1>1, ConcatProperties
<1>3. r.queue = q \o msgs /\ r.busy = p.busy /\ r.services = p.services /\ r.state = p.state
  BY DEF Proc
<1>4. process' = [process EXCEPT ![i] = r]
  OBVIOUS
<1>5. \A k \in Nat, x \in Message : Has(i, k, x) <=> k \in Place(p) /\ Item(p, k) = x
  <2>1. CASE p = process[i]
    BY <2>1 DEF Has
  <2>2. CASE p = NewProcess /\ \A k \in Nat, x \in Message : ~Has(i, k, x)
    <3>1. Place(p) = {}
      BY <2>2, EmptySeq DEF NewProcess, Place
    <3> QED BY <2>2, <3>1
  <2> QED BY <2>1, <2>2
<1>6. \A k \in Nat, x \in Message : Has(i, k, x)' <=> k \in Place(r) /\ Item(r, k) = x
  BY <1>4, OthersKeep
<1>7. \A j \in Instance, k \in Nat, x \in Message : j # i => (Has(j, k, x)' <=> Has(j, k, x))
  BY <1>4, OthersKeep
<1>8. \A k \in Place(p) : k \in 0 .. b /\ k \in Place(r) /\ Item(r, k) = Item(p, k)
  <2>1. SUFFICES ASSUME NEW k \in Place(p) PROVE k \in 0 .. b /\ k \in Place(r) /\ Item(r, k) = Item(p, k)
    OBVIOUS
  <2>2. k \in 0 .. b /\ (k = 0 => p.busy # None)
    BY DEF Place
  <2> HIDE DEF r, q
  <2>3. k \in 0 .. Len(r.queue) /\ (k = 0 => r.busy # None)
    BY <1>1, <1>2, <1>3, <2>2
  <2>4. k # 0 => (q \o msgs)[k] = q[k]
    BY <1>1, <1>2, <2>2
  <2> QED BY <1>3, <2>2, <2>3, <2>4 DEF Place, Item, q
<1>9. \A k \in Place(r) : k \in Place(p) \/ \E n \in 1 .. Len(msgs) : k = b + n /\ Item(r, k) = msgs[n]
  <2>1. SUFFICES ASSUME NEW k \in Place(r), k \notin Place(p)
                 PROVE  \E n \in 1 .. Len(msgs) : k = b + n /\ Item(r, k) = msgs[n]
    OBVIOUS
  <2> HIDE DEF r
  <2>2. k \in 0 .. b + Len(msgs) /\ (k = 0 => p.busy # None)
    BY <1>2, <1>3 DEF Place
  <2>3. k > b
    BY <1>1, <2>1, <2>2 DEF Place
  <2>4. /\ k - b \in 1 .. Len(msgs) /\ k = b + (k - b)
        /\ k \in 1 .. b + Len(msgs) /\ ~(k <= b) /\ k # 0
    BY <1>1, <2>2, <2>3
  <2>5. (q \o msgs)[k] = msgs[k - b]
    BY <1>2, <2>4
  <2>6. Item(r, k) = msgs[k - b]
    BY <1>3, <2>4, <2>5 DEF Item
  <2> QED BY <2>4, <2>6
<1>10. \A n \in 1 .. Len(msgs) : b + n \in Place(r) /\ Item(r, b + n) = msgs[n]
  <2> HIDE DEF r
  <2>1. SUFFICES ASSUME NEW n \in 1 .. Len(msgs) PROVE b + n \in Place(r) /\ Item(r, b + n) = msgs[n]
    OBVIOUS
  <2>2. /\ b + n \in 1 .. b + Len(msgs) /\ b + n # 0 /\ ~(b + n <= b) /\ (b + n) - b = n
    BY <1>1
  <2> QED BY <1>2, <1>3, <2>2 DEF Place, Item
<1> HIDE DEF r
<1>11. \A k \in Nat, x \in Message : Has(i, k, x) => k <= b
  BY <1>1, <1>5, <1>8
<1>12. \A j \in Instance, k \in Nat, x \in Message : Has(j, k, x) => Has(j, k, x)'
  BY <1>5, <1>6, <1>7, <1>8
<1>13. \A j \in Instance, k \in Nat, x \in Message : Has(j, k, x)' =>
         Has(j, k, x) \/ (j = i /\ \E n \in 1 .. Len(msgs) : k = b + n /\ x = msgs[n])
  BY <1>5, <1>6, <1>7, <1>8, <1>9
<1>14. \A n \in 1 .. Len(msgs) : Has(i, b + n, msgs[n])'
  <2>1. SUFFICES ASSUME NEW n \in 1 .. Len(msgs) PROVE Has(i, b + n, msgs[n])'
    OBVIOUS
  <2>2. b + n \in Nat /\ msgs[n] \in Message
    BY <1>1, ElementOfSeq
  <2> QED BY <1>6, <1>10, <2>2
<1>15. /\ \A j \in Instance : process'[j].services = IF j = i THEN p.services ELSE process[j].services
       /\ \A j \in Instance : process'[j].state = IF j = i THEN p.state ELSE process[j].state
  <2>1. process'[i] = r /\ \A j \in Instance : j # i => process'[j] = process[j]
    BY <1>4, OthersKeep
  <2> QED BY <1>3, <2>1
<1> QED BY <1>1, <1>11, <1>12, <1>13, <1>14, <1>15 DEF Adds

\* The service manager takes message m.
Takes(m) ==
  /\ Waits(1, m)
  /\ \A k \in Nat, x \in Message : Waits(k, x) => k >= 1 /\ (k = 1 => x = m)
  /\ \A k \in Nat, x \in Message : Waits(k, x)' => Waits(k + 1, x) /\ k >= 1

\* That is what taking the head of the inbox does.
LEMMA TakesShape ==
  ASSUME Kinds, inbox # <<>>, NEW m, m = Head(inbox), inbox' = Tail(inbox)
  PROVE  m \in Message /\ Takes(m)
<1>1. /\ inbox \in Seq(Message) /\ m \in Message /\ m = inbox[1] /\ Len(inbox) \in Nat /\ Len(inbox) >= 1
      /\ Len(inbox') = Len(inbox) - 1 /\ \A k \in 1 .. Len(inbox) - 1 : inbox'[k] = inbox[k + 1]
  BY HeadTailProperties, LenProperties, EmptySeq DEF Kinds
<1> QED BY <1>1 DEF Takes, Waits

\* The service manager takes message m, and nobody asks for anything meanwhile.
Drops(m) ==
  /\ Waits(1, m)
  /\ \A k \in Nat, x \in Message : Waits(k, x)' /\ ~Quiet(x) => Waits(k + 1, x) /\ k >= 1

\* Message m arrives behind the first b ones.
Gets(b, m) ==
  /\ \A k \in Nat, x \in Message : Waits(k, x) => k <= b
  /\ \A k \in Nat, x \in Message : Waits(k, x)' => Waits(k, x) \/ (k = b + 1 /\ x = m)
  /\ Waits(b + 1, m)'

\* That is what appending to the inbox does.
LEMMA GetsShape ==
  ASSUME Kinds, NEW m \in Message, inbox' = Append(inbox, m)
  PROVE  \E b \in Nat : Gets(b, m)
<1>1. /\ inbox \in Seq(Message) /\ Len(inbox) \in Nat /\ Len(inbox') = Len(inbox) + 1
      /\ \A k \in 1 .. Len(inbox) : inbox'[k] = inbox[k]
      /\ inbox'[Len(inbox) + 1] = m
  BY AppendProperties, LenProperties DEF Kinds
<1>2. PICK b : b = Len(inbox)
  OBVIOUS
<1>3. PICK r : r = inbox'
  OBVIOUS
<1>4. /\ \A k \in Nat, x \in Message : Waits(k, x)' <=> k \in 1 .. Len(r) /\ r[k] = x
      /\ \A k \in Nat, x \in Message : Waits(k, x) <=> k \in 1 .. b /\ inbox[k] = x
  BY <1>2, <1>3 DEF Waits
<1>5. /\ b \in Nat /\ Len(r) = b + 1 /\ r[b + 1] = m
      /\ \A k \in 1 .. b : r[k] = inbox[k]
  BY <1>1, <1>2, <1>3
<1>6. /\ \A k \in Nat, x \in Message : Waits(k, x) => k <= b
      /\ \A k \in Nat, x \in Message : Waits(k, x)' => Waits(k, x) \/ (k = b + 1 /\ x = m)
      /\ Waits(b + 1, m)'
  BY <1>4, <1>5
<1> QED BY <1>5, <1>6 DEF Gets

\* Messages that stay where they are.
LEMMA SameShape ==
  /\ UNCHANGED inbox => \A k \in Nat, x \in Message : Waits(k, x)' <=> Waits(k, x)
  /\ UNCHANGED process =>
       /\ \A i \in Instance, k \in Nat, x \in Message : Has(i, k, x)' <=> Has(i, k, x)
       /\ SameServices
<1> QED BY DEF Waits, Has, SameServices

\* A service stays served where its record is.
LEMMA ServedStays ==
  ASSUME NEW t \in Services, Served(t),
         \A j \in Instance : Recorded(t, j)' => Recorded(t, j),
         \A j \in Instance, k \in Nat, x \in Message :
           Recorded(t, j) /\ Has(j, k, x) /\ Is(x, "create", t) => \E n \in Nat : Has(j, n, x)',
         \A j \in Instance, k \in Nat, x \in Message :
           Recorded(t, j) /\ Has(j, k, x)' /\ Is(x, "stop", t) => \E n \in Nat : Has(j, n, x),
         \A j \in Instance :
           Recorded(t, j) /\ t \in process[j].services => t \in process'[j].services
  PROVE  Served(t)'
<1>1. SUFFICES ASSUME NEW j \in Instance, Recorded(t, j)', t \in Enabled
               PROVE  Creating(j, t)' \/ (t \in process'[j].services /\ ~Destroying(j, t)')
  BY DEF Served
<1>2. Recorded(t, j)
  BY <1>1
<1>3. CASE Creating(j, t)
  <2>1. PICK k \in Nat, x \in Message : Has(j, k, x) /\ Is(x, "create", t)
    BY <1>3 DEF Creating
  <2>2. PICK n \in Nat : Has(j, n, x)'
    BY <1>2, <2>1
  <2> QED BY <2>1, <2>2 DEF Creating
<1>4. CASE t \in process[j].services /\ ~Destroying(j, t)
  <2>1. ASSUME NEW k \in Nat, NEW x \in Message, Has(j, k, x)', Is(x, "stop", t) PROVE FALSE
    <3>1. PICK n \in Nat : Has(j, n, x)
      BY <1>2, <2>1
    <3> QED BY <1>4, <2>1, <3>1 DEF Destroying
  <2>2. ~Destroying(j, t)'
    BY <2>1 DEF Destroying
  <2> QED BY <1>2, <1>4, <2>2
<1> QED BY <1>1, <1>2, <1>3, <1>4 DEF Served

\* What is left to show for t when no process has a part of a request for it.
LEMMA CalmTalk ==
  ASSUME NEW t \in Services, Calm(t)', RequestsLast(t)', ResultsLast(t)', Failures(t)', Served(t)',
         \A c \in connected' : bound'[c] = t =>
           t \in Enabled /\ mServices'[t] # None /\ c \in mServices'[t].conns
  PROVE  Talk(t)'
<1>1. \A i \in Instance, k \in Nat, x \in Message : Has(i, k, x)' => ~Token(x, t)
  BY DEF Calm
<1>2. \A x \in Message : Is(x, "create", t) \/ Is(x, "bind", t) => Token(x, t)
  BY DEF Is, Token
<1>3. \A i \in Instance : ~Creating(i, t)'
  BY <1>1, <1>2 DEF Creating
<1>4. TokensOpen(t)' /\ Order(t)'
  BY <1>1 DEF TokensOpen, Order
<1>5. StopsFirst(t)' /\ CreatedHere(t)'
  BY <1>1, <1>2 DEF StopsFirst, CreatedHere
<1>6. Known(t)'
  BY <1>3 DEF Known
<1> QED BY <1>4, <1>5, <1>6 DEF Talk

\* What is left to show for t when there is none in the inbox either.
LEMMA IdleTalk ==
  ASSUME NEW t \in Services, Calm(t)', Idle(t)', Served(t)',
         \A c \in connected' : bound'[c] = t =>
           t \in Enabled /\ mServices'[t] # None /\ c \in mServices'[t].conns
  PROVE  Talk(t)'
<1>1. \A k \in Nat, x \in Message : Waits(k, x)' /\ x.s = t => Quiet(x)
  BY DEF Idle
<1>2. RequestsLast(t)' /\ ResultsLast(t)' /\ Failures(t)'
  BY <1>1 DEF RequestsLast, ResultsLast, Failures, Asks, Is, Quiet
<1> QED BY <1>2, CalmTalk

\* The client of an open request waits.
LEMMA OpenWaits ==
  ASSUME Kinds, NEW x \in Message, Open(x)
  PROVE  Unanswered(x.s)
<1>1. DOMAIN calls = 1 .. Len(calls)
  BY LenProperties DEF Kinds
<1>2. x.op = "bind" => x.conn \in Connections
  BY DEF Message
<1> QED BY <1>1, <1>2 DEF Open, Unanswered

\* When no client waits for an answer for t, none is to be expected.
LEMMA Silence ==
  ASSUME Kinds, NEW t \in Services, Talk(t), ~Unanswered(t)
  PROVE  /\ Calm(t)
         /\ \A k \in Nat, x \in Message : Waits(k, x) /\ x.s = t => Quiet(x) \/ x.op = "unbind"
<1>1. Calm(t)
  <2>1. SUFFICES ASSUME NEW i \in Instance, NEW k \in Nat, NEW x \in Message, Has(i, k, x), Token(x, t) PROVE FALSE
    BY DEF Calm
  <2>2. Open(x) /\ x.s = t
    BY <2>1 DEF Talk, TokensOpen, Token
  <2> QED BY <2>2, OpenWaits
<1>2. ASSUME NEW k \in Nat, NEW x \in Message, Waits(k, x), x.s = t
      PROVE  Quiet(x) \/ x.op = "unbind"
  <2>1. ~Open(x)
    BY <1>2, OpenWaits
  <2>2. x.op \notin {"start", "bind"} /\ (x.op = "stop" => x.id = 0)
    BY <1>2, <2>1 DEF Talk, RequestsLast, Asks
  <2>3. x.op # "result" /\ x.op # "notCreated"
    BY <1>2, <2>1 DEF Talk, ResultsLast, Failures, Is
  <2> QED BY <2>2, <2>3 DEF Quiet
<1> QED BY <1>1, <1>2

\* A request for t stays open as long as its call and its connection do.
LEMMA OpenStays ==
  ASSUME Kinds, NEW t \in Services,
         \A id \in 1 .. Len(calls) : calls[id].s = t /\ ~calls[id].answered =>
           id \in 1 .. Len(calls') /\ calls'[id].s = t /\ ~calls'[id].answered,
         calls' \in Seq(Call),
         \A c \in Connections : bound[c] = t /\ c \notin connected => bound'[c] = t /\ c \notin connected'
  PROVE  \A x \in Message : x.s = t /\ Open(x) => Open(x)'
<1>1. DOMAIN calls = 1 .. Len(calls) /\ DOMAIN calls' = 1 .. Len(calls')
  BY LenProperties DEF Kinds
<1>2. Unanswered(t) => Unanswered(t)'
  BY <1>1 DEF Unanswered
<1>3. \A x \in Message : x.op = "bind" => x.conn \in Connections
  BY DEF Message
<1> QED BY <1>2, <1>3 DEF Open

\* Nothing happens in the processes and to the record of t.
LEMMA FrameStill ==
  ASSUME NEW t \in Services, Talk(t), UNCHANGED process, mServices'[t] = mServices[t], NEW e \in Nat,
         \A k \in Nat, x \in Message : Waits(k, x)' /\ x.s = t /\ ~Quiet(x) => Waits(k + e, x),
         \A x \in Message : x.s = t /\ Open(x) => Open(x)',
         \A c \in connected' : bound'[c] = t => c \in connected /\ bound[c] = t
  PROVE  Talk(t)'
<1>1. /\ \A i \in Instance, k \in Nat, x \in Message : Has(i, k, x)' <=> Has(i, k, x)
      /\ SameServices
  BY SameShape
<1>2. Served(t)'
  <2>1. Served(t)
    BY DEF Talk
  <2> QED BY <1>1, <2>1, ServedStays DEF SameServices, Recorded
<1>3. \A j \in Instance, k \in Nat : (IF j = 0 THEN k + 0 ELSE k) = k
  OBVIOUS
<1>4. 0 \in Nat
  OBVIOUS
<1>5. \A j \in Instance, k \in Nat, x \in Message :
        Has(j, k, x)' /\ x.s = t /\ x.op \in {"create", "start", "bind", "stop"} =>
          \/ Has(j, IF j = 0 THEN k + 0 ELSE k, x)
          \/ x.op = "stop" /\ x.id = 0 /\ (~Recorded(t, j) \/ ~Creating(j, t))
  BY <1>1, <1>3
<1> QED BY <1>2, <1>4, <1>5, Frame

\* A client asks for t when all its earlier requests have been answered.
LEMMA AskedTalk ==
  ASSUME Kinds, NEW t \in Services, Talk(t), ~Unanswered(t), UNCHANGED <<process, mServices>>,
         NEW m \in Message, Asks(m, t), inbox' = Append(inbox, m),
         IF m.op = "unbind" THEN ~(m.conn \in connected' /\ bound'[m.conn] = t) ELSE Open(m)',
         \A c \in connected' : bound'[c] = t => c \in connected /\ bound[c] = t
  PROVE  Talk(t)'
<1>1. /\ \A i \in Instance, k \in Nat, x \in Message : Has(i, k, x)' <=> Has(i, k, x)
      /\ SameServices
  BY SameShape
<1>2. PICK b \in Nat : Gets(b, m)
  BY GetsShape
<1>3. /\ Calm(t)
      /\ \A k \in Nat, x \in Message : Waits(k, x) /\ x.s = t => Quiet(x) \/ x.op = "unbind"
  BY Silence
<1>4. /\ \A k \in Nat, x \in Message : Waits(k, x) => k <= b
      /\ \A k \in Nat, x \in Message : Waits(k, x)' => Waits(k, x) \/ (k = b + 1 /\ x = m)
  BY <1>2 DEF Gets
<1>5. Calm(t)'
  BY <1>1, <1>3 DEF Calm
<1>6. RequestsLast(t)'
  <2>1. SUFFICES ASSUME NEW k \in Nat, NEW x \in Message, Waits(k, x)', Asks(x, t)
                 PROVE  (IF x.op = "unbind" THEN ~(x.conn \in connected /\ bound[x.conn] = t)
                         ELSE Open(x) /\ \A l \in Nat, y \in Message : Waits(l, y) /\ Asks(y, t) => l <= k)'
    BY DEF RequestsLast
  <2>2. CASE x = m /\ k = b + 1
    <3>1. \A l \in Nat, y \in Message : Waits(l, y)' => l <= b + 1
      BY <1>4
    <3> QED BY <2>2, <3>1
  <2>3. CASE Waits(k, x)
    <3>1. x.op = "unbind"
      BY <1>3, <2>1, <2>3 DEF Asks, Quiet
    <3>2. ~(x.conn \in connected /\ bound[x.conn] = t)
      BY <2>1, <2>3, <3>1 DEF Talk, RequestsLast
    <3> QED BY <3>1, <3>2
  <2> QED BY <1>4, <2>1, <2>2, <2>3
<1>7. ResultsLast(t)' /\ Failures(t)'
  <2>1. ASSUME NEW k \in Nat, NEW x \in Message, Waits(k, x)', x.s = t PROVE x.op \notin {"result", "notCreated"}
    BY <1>3, <1>4, <2>1 DEF Asks, Quiet
  <2> QED BY <2>1 DEF ResultsLast, Failures, Is
<1>8. Served(t)'
  <2>1. Served(t)
    BY DEF Talk
  <2> QED BY <1>1, <2>1, ServedStays DEF SameServices, Recorded
<1>9. \A c \in connected' : bound'[c] = t =>
        t \in Enabled /\ mServices'[t] # None /\ c \in mServices'[t].conns
  BY DEF Talk, Known
<1> QED BY <1>5, <1>6, <1>7, <1>8, <1>9, CalmTalk

\* What processes are when nothing happens in them.
LEMMA BooksStill ==
  ASSUME EndsEmpty, Blank, UNCHANGED <<process, instances, timedOut>>
  PROVE  EndsEmpty' /\ Blank'
<1>1. \A i \in Instance, k \in Nat, x \in Message : Has(i, k, x)' <=> Has(i, k, x)
  BY SameShape
<1> QED BY <1>1 DEF EndsEmpty, Blank

\* Clients that wait for answers keep what is on its way in order.
LEMMA ClientTalks ==
  ASSUME Inv, Inv', Talks,
         \/ \E s \in Services : Request("start", s) \/ Request("stop", s)
         \/ \E s \in Services, c \in Connections : Bind(s, c)
         \/ \E c \in Connections : Unbind(c)
  PROVE  Talks'
<1> USE DEF Inv
<1>1. UNCHANGED <<patient, managerVars, stopVars, process, commands>>
  BY DEF Request, Bind, Unbind
<1> SUFFICES ASSUME patient PROVE Talks'
  BY <1>1 DEF Talks
<1>2. /\ \A c \in connected : bound[c] # None
      /\ EndsEmpty /\ Blank /\ \A s \in Services : Talk(s)
  BY DEF Talks
<1>3. EndsEmpty' /\ Blank' /\ mServices' = mServices
  BY <1>1, <1>2, BooksStill DEF managerVars, stopVars
<1>4. ASSUME NEW s \in Services, NEW m \in Message, Asks(m, s), inbox' = Append(inbox, m), ~Unanswered(s),
             IF m.op = "unbind" THEN ~(m.conn \in connected' /\ bound'[m.conn] = s) ELSE Open(m)',
             \A c \in connected' : c \in connected /\ bound'[c] = bound[c],
             \A t \in Services : t # s => \A x \in Message : x.s = t /\ Open(x) => Open(x)'
      PROVE  Talks'
  <2>1. PICK b \in Nat : Gets(b, m)
    BY <1>4, GetsShape
  <2>2. ASSUME NEW t \in Services PROVE Talk(t)'
    <3>1. CASE t = s
      BY <1>1, <1>2, <1>3, <1>4, <3>1, AskedTalk
    <3>2. CASE t # s
      <4>1. \A k \in Nat, x \in Message : Waits(k, x)' /\ x.s = t /\ ~Quiet(x) => Waits(k + 0, x)
        <5>1. \A k \in Nat : k + 0 = k
          OBVIOUS
        <5> QED BY <1>4, <2>1, <3>2, <5>1 DEF Gets, Asks
      <4>2. 0 \in Nat /\ process' = process /\ mServices'[t] = mServices[t]
        BY <1>1, <1>3
      <4>3. \A x \in Message : x.s = t /\ Open(x) => Open(x)'
        BY <1>4, <3>2
      <4> QED BY <1>2, <1>4, <4>1, <4>2, <4>3, FrameStill
    <3> QED BY <3>1, <3>2
  <2> QED BY <1>2, <1>3, <1>4, <2>2 DEF Talks
<1>5. calls \in Seq(Call) /\ calls' \in Seq(Call) /\ Len(calls) \in Nat
  BY Numbers DEF Kinds
<1>6. ASSUME NEW op \in {"start", "stop"}, NEW s \in Services, Request(op, s) PROVE Talks'
  <2>1. /\ ~Unanswered(s) /\ Len(calls) < MaxCalls /\ Called(op, s, FALSE) /\ UNCHANGED <<bound, connected>>
        /\ inbox' = Append(inbox, Msg(op, s, Len(calls) + 1, None))
    BY <1>6 DEF Request, MayCall
  <2>0. /\ Len(calls') = Len(calls) + 1 /\ \A id \in 1 .. Len(calls) : calls'[id] = calls[id]
        /\ calls'[Len(calls) + 1] = [op |-> op, s |-> s, answered |-> FALSE]
    BY <1>5, <2>1, AppendProperties DEF Called, Call
  <2>2. PICK m : m = Msg(op, s, Len(calls) + 1, None)
    OBVIOUS
  <2>3. m \in Message /\ Asks(m, s) /\ m.op = op /\ m.s = s /\ m.id = Len(calls) + 1
    BY <1>5, <2>1, <2>2, ServiceManagerAssumption DEF Msg, Message, Op, Id, Asks
  <2>4. Open(m)'
    <3>1. m.id \in 1 .. Len(calls') /\ calls'[m.id] = [op |-> op, s |-> s, answered |-> FALSE]
      BY <1>5, <2>0, <2>3
    <3> QED BY <2>3, <3>1 DEF Open
  <2>5. ASSUME NEW t \in Services PROVE \A x \in Message : x.s = t /\ Open(x) => Open(x)'
    <3>1. \A id \in 1 .. Len(calls) : calls[id].s = t /\ ~calls[id].answered =>
            id \in 1 .. Len(calls') /\ calls'[id].s = t /\ ~calls'[id].answered
      BY <1>5, <2>0
    <3> QED BY <1>5, <2>1, <3>1, OpenStays
  <2> QED BY <1>4, <2>1, <2>2, <2>3, <2>4, <2>5
<1>7. ASSUME NEW s \in Services, NEW c \in Connections, Bind(s, c) PROVE Talks'
  <2>1. /\ ~Unanswered(s) /\ bound[c] = None /\ Called("bind", s, TRUE)
        /\ bound' = [bound EXCEPT ![c] = s] /\ connected' = connected \ {c}
        /\ inbox' = Append(inbox, Msg("bind", s, 0, c))
    BY <1>7 DEF Bind, MayCall
  <2>0. /\ Len(calls') = Len(calls) + 1 /\ \A id \in 1 .. Len(calls) : calls'[id] = calls[id]
        /\ calls'[Len(calls) + 1] = [op |-> "bind", s |-> s, answered |-> TRUE]
    BY <1>5, <2>1, AppendProperties DEF Called, Call
  <2>2. PICK m : m = Msg("bind", s, 0, c)
    OBVIOUS
  <2>3. m \in Message /\ Asks(m, s) /\ m.op = "bind" /\ m.s = s /\ m.conn = c
    BY <2>2, ServiceManagerAssumption DEF Msg, Message, Op, Id, Asks
  <2>4. \A d \in Connections : bound'[d] = IF d = c THEN s ELSE bound[d]
    BY <2>1 DEF Kinds
  <2>5. Open(m)'
    BY <2>1, <2>3, <2>4 DEF Open
  <2>6. connected \subseteq Connections
    BY DEF Kinds
  <2>7. ASSUME NEW t \in Services PROVE \A x \in Message : x.s = t /\ Open(x) => Open(x)'
    <3>1. \A id \in 1 .. Len(calls) : calls[id].s = t /\ ~calls[id].answered =>
            id \in 1 .. Len(calls') /\ calls'[id].s = t /\ ~calls'[id].answered
      BY <1>5, <2>0
    <3>2. \A d \in Connections : bound[d] = t /\ d \notin connected => bound'[d] = t /\ d \notin connected'
      BY <2>1, <2>4, ServiceManagerAssumption
    <3> QED BY <1>5, <3>1, <3>2, OpenStays
  <2>8. \A d \in connected' : d \in connected /\ bound'[d] = bound[d]
    BY <2>1, <2>4, <2>6
  <2> QED BY <1>4, <2>1, <2>2, <2>3, <2>5, <2>7, <2>8
<1>8. ASSUME NEW c \in Connections, Unbind(c) PROVE Talks'
  <2>1. PICK s : s = bound[c]
    OBVIOUS
  <2>2. /\ s \in Services /\ ~Unanswered(s) /\ UNCHANGED calls
        /\ bound' = [bound EXCEPT ![c] = None] /\ connected' = connected \ {c}
        /\ inbox' = Append(inbox, Msg("unbind", s, 0, c))
    BY <1>8, <2>1 DEF Unbind, Kinds
  <2>3. PICK m : m = Msg("unbind", s, 0, c)
    OBVIOUS
  <2>4. m \in Message /\ Asks(m, s) /\ m.op = "unbind" /\ m.s = s /\ m.conn = c
    BY <2>2, <2>3, ServiceManagerAssumption DEF Msg, Message, Op, Id, Asks
  <2>5. \A d \in Connections : bound'[d] = IF d = c THEN None ELSE bound[d]
    BY <2>2 DEF Kinds
  <2>6. connected \subseteq Connections
    BY DEF Kinds
  <2>7. ASSUME NEW t \in Services, t # s PROVE \A x \in Message : x.s = t /\ Open(x) => Open(x)'
    <3>1. \A d \in Connections : bound[d] = t /\ d \notin connected => bound'[d] = t /\ d \notin connected'
      BY <2>1, <2>2, <2>5, <2>7
    <3> QED BY <1>5, <2>2, <3>1, OpenStays
  <2>8. \A d \in connected' : d \in connected /\ bound'[d] = bound[d]
    BY <2>2, <2>5, <2>6
  <2> QED BY <1>4, <2>2, <2>3, <2>4, <2>7, <2>8
<1> QED BY <1>6, <1>7, <1>8

\* The service manager handles a request for t: no other one is on its way, unless
\* this one is about the end of a connection.
LEMMA Handled ==
  ASSUME NEW t \in Services, Talk(t), NEW m \in Message, Drops(m), Asks(m, t)
  PROVE  /\ Calm(t)
         /\ \A k \in Nat, x \in Message : Waits(k, x)' /\ x.s = t => x.op \notin {"result", "notCreated"}
         /\ m.op # "unbind" => Idle(t)' /\ Open(m)
<1>1. Requested(t)
  BY DEF Drops, Requested
<1>2. Calm(t)
  BY <1>1 DEF Talk, TokensOpen, Calm
<1>3. ASSUME NEW k \in Nat, NEW x \in Message, Waits(k, x)', x.s = t, ~Quiet(x)
      PROVE  Waits(k + 1, x) /\ k >= 1 /\ k + 1 \in Nat /\ x.op \notin {"result", "notCreated"}
  <2>1. Waits(k + 1, x) /\ k >= 1 /\ k + 1 \in Nat
    BY <1>3 DEF Drops
  <2> QED BY <1>1, <1>3, <2>1 DEF Talk, ResultsLast, Failures, Is
<1>4. ASSUME m.op # "unbind" PROVE Idle(t)' /\ Open(m)
  <2>1. Open(m) /\ \A l \in Nat, y \in Message : Waits(l, y) /\ Asks(y, t) => l <= 1
    BY <1>4 DEF Talk, RequestsLast, Drops
  <2>2. ASSUME NEW k \in Nat, NEW x \in Message, Waits(k, x)', x.s = t, ~Quiet(x) PROVE FALSE
    <3>1. Waits(k + 1, x) /\ k >= 1 /\ k + 1 \in Nat /\ x.op \notin {"result", "notCreated"}
      BY <1>3, <2>2
    <3>2. ~Asks(x, t)
      BY <2>1, <3>1
    <3> QED BY <2>2, <3>1, <3>2 DEF Asks, Quiet
  <2> QED BY <2>1, <2>2 DEF Idle
<1>5. \A x \in Message : x.op \in {"result", "notCreated"} => ~Quiet(x)
  BY DEF Quiet
<1> QED BY <1>2, <1>3, <1>4, <1>5

\* A message that the service manager drops.
LEMMA DroppedTalks ==
  ASSUME Inv, Talks, inbox # <<>>, inbox' = Tail(inbox),
         UNCHANGED <<patient, managerVars, stopVars, process, clientVars>>
  PROVE  Talks'
<1>1. PICK m : m = Head(inbox)
  OBVIOUS
<1>2. Takes(m)
  BY <1>1, TakesShape DEF Inv
<1> SUFFICES ASSUME patient PROVE Talks'
  BY DEF Talks
<1>3. /\ \A c \in connected : bound[c] # None
      /\ EndsEmpty /\ Blank /\ \A s \in Services : Talk(s)
  BY DEF Talks
<1>4. /\ process' = process /\ mServices' = mServices /\ instances' = instances /\ timedOut' = timedOut
      /\ calls' = calls /\ bound' = bound /\ connected' = connected
  BY DEF managerVars, stopVars, clientVars
<1>5. \A x \in Message : Open(x)' <=> Open(x)
  BY <1>4 DEF Open, Unanswered
<1>6. \A k \in Nat, x \in Message : Waits(k, x)' => Waits(k + 1, x)
  BY <1>2 DEF Takes
<1>7. 1 \in Nat
  OBVIOUS
<1>8. \A t \in Services : Talk(t)'
  BY <1>3, <1>4, <1>5, <1>6, <1>7, FrameStill
<1> QED BY <1>3, <1>4, <1>8, BooksStill DEF Talks

\* A call is answered.
LEMMA AnsweredTalks ==
  ASSUME Inv, Inv', Talks, inbox # <<>>, inbox' = Tail(inbox),
         NEW m, m = Head(inbox), m.op \in {"start", "stop", "result"}, m.op = "stop" => m.id # 0,
         calls' = Answered(m.id),
         UNCHANGED <<patient, managerVars, stopVars, process, commands, bound, connected>>
  PROVE  Talks'
<1> USE DEF Inv
<1>1. m \in Message /\ Takes(m) /\ m.s \in Services
  <2>1. m \in Message /\ Takes(m)
    BY TakesShape
  <2> QED BY <2>1 DEF Message
<1> SUFFICES ASSUME patient PROVE Talks'
  BY DEF Talks
<1>2. /\ \A c \in connected : bound[c] # None
      /\ EndsEmpty /\ Blank /\ \A s \in Services : Talk(s)
  BY DEF Talks
<1>3. /\ process' = process /\ mServices' = mServices /\ instances' = instances /\ timedOut' = timedOut
      /\ bound' = bound /\ connected' = connected
  BY DEF managerVars, stopVars
<1>4. Calm(m.s) /\ Idle(m.s)' /\ Open(m)
  <2>1. CASE m.op # "result"
    <3>1. Asks(m, m.s) /\ m.op # "unbind"
      BY <2>1 DEF Asks
    <3> QED BY <1>1, <1>2, <3>1, Handled DEF Takes, Drops
  <2>2. CASE m.op = "result"
    <3>1. Waits(1, m) /\ Is(m, "result", m.s)
      BY <1>1, <2>2 DEF Takes, Is
    <3>2. /\ Open(m) /\ ~Requested(m.s)
          /\ \A i \in Instance, l \in Nat, y \in Message : Has(i, l, y) => ~Token(y, m.s)
          /\ \A l \in Nat, y \in Message :
               Waits(l, y) /\ y.s = m.s /\ y.op \in {"result", "notCreated"} => l <= 1
      BY <1>1, <1>2, <3>1 DEF Talk, ResultsLast
    <3>3. ASSUME NEW k \in Nat, NEW x \in Message, Waits(k, x)', x.s = m.s PROVE Quiet(x)
      <4>1. Waits(k + 1, x) /\ k >= 1 /\ k + 1 \in Nat
        BY <1>1, <3>3 DEF Takes
      <4>2. x.op \notin {"result", "notCreated"}
        BY <3>2, <3>3, <4>1
      <4>3. ~Asks(x, m.s)
        BY <3>2, <4>1 DEF Requested
      <4> QED BY <3>3, <4>2, <4>3 DEF Asks, Quiet
    <3>4. \A k \in Nat, x \in Message : Waits(k, x)' /\ x.s = m.s => Quiet(x)
      BY <3>3
    <3> QED BY <3>2, <3>4 DEF Idle, Calm
  <2> QED BY <2>1, <2>2
<1>5. m.id \in 1 .. Len(calls) /\ calls[m.id].s = m.s
  BY <1>4 DEF Open
<1>6. /\ \A i \in Instance, k \in Nat, x \in Message : Has(i, k, x)' <=> Has(i, k, x)
      /\ SameServices
  BY <1>3, SameShape
<1>7. ASSUME NEW t \in Services PROVE Talk(t)'
  <2>1. CASE t = m.s
    <3>1. Calm(t)'
      BY <1>4, <1>6, <2>1 DEF Calm
    <3>2. Served(t)'
      <4>1. Served(t)
        BY <1>2 DEF Talk
      <4> QED BY <1>3, <1>6, <4>1, ServedStays DEF SameServices, Recorded
    <3>3. \A c \in connected' : bound'[c] = t =>
            t \in Enabled /\ mServices'[t] # None /\ c \in mServices'[t].conns
      BY <1>2, <1>3 DEF Talk, Known
    <3>4. Idle(t)'
      BY <1>4, <2>1 DEF Idle
    <3> QED BY <3>1, <3>2, <3>3, <3>4, IdleTalk
  <2>2. CASE t # m.s
    <3>1. \A k \in Nat, x \in Message : Waits(k, x)' => Waits(k + 1, x)
      BY <1>1 DEF Takes
    <3>2. calls \in Seq(Call) /\ calls' \in Seq(Call) /\ Len(calls) \in Nat
      BY Numbers DEF Kinds
    <3>3. /\ calls' = [calls EXCEPT ![m.id].answered = TRUE]
          /\ Len(calls') = Len(calls) /\ \A id \in 1 .. Len(calls) : id # m.id => calls'[id] = calls[id]
      <4>1. calls' = [calls EXCEPT ![m.id].answered = TRUE]
        BY <1>5 DEF Answered
      <4>2. m.id \in 0 .. MaxCalls
        BY <1>1 DEF Message
      <4>3. Len(calls') = Len(calls)
        BY <4>2, AnsweredFacts
      <4>4. \A id \in DOMAIN calls : id # m.id => calls'[id] = calls[id]
        BY <4>1
      <4> QED BY <3>2, <4>1, <4>3, <4>4, LenProperties
    <3>4. \A id \in 1 .. Len(calls) : calls[id].s = t /\ ~calls[id].answered =>
            id \in 1 .. Len(calls') /\ calls'[id].s = t /\ ~calls'[id].answered
      BY <1>5, <2>2, <3>3
    <3>5. \A x \in Message : x.s = t /\ Open(x) => Open(x)'
      BY <1>3, <3>2, <3>4, OpenStays
    <3>6. 1 \in Nat
      OBVIOUS
    <3> QED BY <1>2, <1>3, <3>1, <3>5, <3>6, FrameStill
  <2> QED BY <2>1, <2>2
<1> QED BY <1>2, <1>3, <1>7, BooksStill DEF Talks

\* What RemoveRecord does to the records.
LEMMA RecordGoes ==
  ASSUME Kinds, NEW s \in Services, RemoveRecord(s)
  PROVE  /\ mServices'[s] = None /\ \A t \in Services : t # s => mServices'[t] = mServices[t]
         /\ instances' = instances /\ timedOut' = timedOut
<1> QED BY DEF RemoveRecord, Kinds

\* A service that could not be created loses its record.
LEMMA NotCreatedTalks ==
  ASSUME Inv, Talks, inbox # <<>>, inbox' = Tail(inbox), NEW m, m = Head(inbox),
         m.op = "notCreated", RemoveRecord(m.s), UNCHANGED <<patient, process, clientVars>>
  PROVE  Talks'
<1> USE DEF Inv
<1>1. m \in Message /\ Takes(m) /\ m.s \in Services
  <2>1. m \in Message /\ Takes(m)
    BY TakesShape
  <2> QED BY <2>1 DEF Message
<1> SUFFICES ASSUME patient PROVE Talks'
  BY DEF Talks
<1>2. /\ \A c \in connected : bound[c] # None
      /\ EndsEmpty /\ Blank /\ \A s \in Services : Talk(s)
  BY DEF Talks
<1>3. /\ mServices'[m.s] = None /\ \A t \in Services : t # m.s => mServices'[t] = mServices[t]
      /\ instances' = instances /\ timedOut' = timedOut
  BY <1>1, RecordGoes
<1>4. /\ process' = process /\ calls' = calls /\ bound' = bound /\ connected' = connected
  BY DEF clientVars
<1>5. \A x \in Message : Open(x)' <=> Open(x)
  BY <1>4 DEF Open, Unanswered
<1>6. \A k \in Nat, x \in Message : Waits(k, x)' => Waits(k + 1, x)
  BY <1>1 DEF Takes
<1>7. 1 \in Nat /\ 0 \in Nat
  OBVIOUS
<1>8. ASSUME NEW t \in Services PROVE Talk(t)'
  <2>1. CASE t # m.s
    BY <1>2, <1>3, <1>4, <1>5, <1>6, <1>7, <2>1, FrameStill
  <2>2. CASE t = m.s
    <3>1. Waits(1, m) /\ Is(m, "notCreated", t)
      BY <1>1, <2>2 DEF Takes, Is
    <3>2. t \notin Enabled /\ \A i \in Instance : ~Creating(i, t)
      BY <1>1, <1>2, <1>7, <3>1 DEF Talk, Failures
    <3>3. Served(t)'
      BY <1>3, <2>2 DEF Served, Recorded
    <3>4. \A j \in Instance, k \in Nat, x \in Message :
            Has(j, k, x)' => Has(j, IF j = 0 THEN k + 0 ELSE k, x)
      <4>1. \A j \in Instance, k \in Nat : (IF j = 0 THEN k + 0 ELSE k) = k
        OBVIOUS
      <4> QED BY <1>4, <4>1, SameShape
    <3>5. mServices'[t] = None /\ Talk(t)
      BY <1>2, <1>3, <2>2
    <3>6. \A j \in Instance, k \in Nat, x \in Message :
            Has(j, k, x)' /\ x.s = t /\ x.op \in {"create", "start", "bind", "stop"} =>
              \/ Has(j, IF j = 0 THEN k + 0 ELSE k, x)
              \/ x.op = "stop" /\ x.id = 0 /\ (~Recorded(t, j) \/ ~Creating(j, t))
      BY <3>4
    <3>7. \A x \in Message : x.s = t /\ Open(x) => Open(x)'
      BY <1>5
    <3>8. \A c \in connected' : bound'[c] = t => c \in connected /\ bound[c] = t
      BY <1>4
    <3>9. \A k \in Nat, x \in Message : Waits(k, x)' /\ x.s = t /\ ~Quiet(x) => Waits(k + 1, x)
      BY <1>6
    <3>10. Withdrawn(t)
      BY <3>2, <3>5 DEF Withdrawn
    <3> QED BY <1>7, <3>3, <3>5, <3>6, <3>7, <3>8, <3>9, <3>10, Frame
  <2> QED BY <2>1, <2>2
<1> QED BY <1>2, <1>3, <1>4, <1>8, BooksStill DEF Talks

\* prepareProcess and prepareService as seen by the messages: the process of s, a new
\* one perhaps, gets them behind those it has.
Prepared(s, conns, msgs) ==
  \E i \in Instance, b \in Nat, ms \in Seq(Message) :
    /\ ms = CreateIfNew(s) \o msgs /\ Adds(i, b, ms)
    /\ i <= instances' /\ instances <= instances'
    /\ \A j \in Instance : j <= instances => process'[j].services = process[j].services
    /\ \A j \in Instance : process'[j].services = process[j].services \/ process'[j].services = {}
    /\ \A j \in Instance : process'[j].state = process[j].state \/ process'[j].state = "running"
    /\ \A t \in Services : t # s => mServices'[t] = mServices[t]
    /\ mServices'[s] # None /\ mServices'[s].proc = i
    /\ mServices'[s].conns = (IF mServices[s] = None THEN {} ELSE mServices[s].conns) \cup conns
    /\ mServices[s] # None => mServices[s].proc = i

\* That is what Prepare does.
LEMMA PrepareShape ==
  ASSUME Inv, Blank, instances < MaxCalls, NEW s \in Services, NEW conns \in SUBSET Connections,
         NEW running \in BOOLEAN, NEW msgs \in Seq(Message), Prepare(s, conns, running, msgs)
  PROVE  Prepared(s, conns, msgs)
<1> USE DEF Inv
<1>1. PICK n : n = processName[s]
  OBVIOUS
<1>3. PICK i : i = IF mServices[s] # None THEN mServices[s].proc
                   ELSE IF mProcesses[n] # None THEN mProcesses[n] ELSE instances + 1
  OBVIOUS
<1>4. PICK record : record = IF mServices[s] # None THEN mServices[s]
                             ELSE [proc |-> i, running |-> FALSE, conns |-> {}]
  OBVIOUS
<1>5. PICK p : p = IF i > instances THEN NewProcess ELSE process[i]
  OBVIOUS
<1>6. PICK new : new = [record EXCEPT !.running = @ \/ running, !.conns = @ \cup conns]
  OBVIOUS
<1>7. PICK ms : ms = CreateIfNew(s) \o msgs
  OBVIOUS
<1>8. /\ mServices' = [mServices EXCEPT ![s] = new]
      /\ instances' = IF i > instances THEN i ELSE instances
      /\ process' = [process EXCEPT ![i] = [p EXCEPT !.queue = @ \o CreateIfNew(s) \o msgs]]
  BY <1>1, <1>3, <1>4, <1>5, <1>6 DEF Prepare
<1>9. n \in Name
  BY <1>1 DEF Name
<1>10. mServices[s] # None => mServices[s] \in Record /\ mServices[s].proc = mProcesses[n]
  BY <1>1 DEF Kinds, Refers
<1>11. mServices[s] # None => mProcesses[n] # None
  BY <1>10, NoneAssumption DEF Record, Instance
<1>12. i = IF mProcesses[n] # None THEN mProcesses[n] ELSE instances + 1
  BY <1>3, <1>10, <1>11
<1>13. i \in Instance /\ i \in Nat /\ i <= instances + 1 /\ i > 0 /\ instances \in Nat
  BY <1>9, <1>12, Numbers DEF Refers, Instance, Kinds
<1>14. record \in Record /\ record.proc = i
       /\ record.conns = IF mServices[s] = None THEN {} ELSE mServices[s].conns
  <2>1. CASE mServices[s] # None
    BY <1>3, <1>4, <1>10, <2>1
  <2>2. CASE mServices[s] = None
    BY <1>4, <1>13, <2>2 DEF Record
  <2> QED BY <2>1, <2>2
<1>15. new \in Record /\ new.proc = i /\ new.conns = record.conns \cup conns
  BY <1>6, <1>14 DEF Record
<1>16. new # None
  BY <1>15, NoneAssumption DEF Record, Instance
<1>17. /\ mServices'[s] = new /\ \A t \in Services : t # s => mServices'[t] = mServices[t]
  BY <1>8 DEF Kinds
<1>18. p \in Proc /\ p.state = "running"
  <2>1. CASE i > instances
    BY <1>5, <2>1, FS_EmptySet, EmptySeq DEF NewProcess, Proc, State
  <2>2. CASE i <= instances
    <3>1. mProcesses[n] # None /\ i = mProcesses[n] /\ p = process[i]
      BY <1>5, <1>12, <1>13, <2>2
    <3> QED BY <1>9, <1>13, <3>1 DEF Refers, Kinds
  <2> QED BY <1>13, <2>1, <2>2
<1>19. CreateIfNew(s) \in Seq(Message) /\ ms \in Seq(Message) /\ p.queue \in Seq(Message)
  <2>1. Msg("create", s, 0, None) \in Message
    BY ServiceManagerAssumption DEF Msg, Message, Op
  <2>2. CreateIfNew(s) \in Seq(Message)
    BY <2>1, EmptySeq DEF CreateIfNew
  <2> QED BY <1>7, <1>18, <2>2, ConcatProperties DEF Proc
<1>20. p.queue \o CreateIfNew(s) \o msgs = p.queue \o ms
  <2>1. \A x, y, z \in Seq(Message) : (x \o y) \o z = x \o (y \o z)
    BY ConcatAssociative
  <2> QED BY <1>7, <1>19, <2>1
<1>21. process' = [process EXCEPT ![i] = [p EXCEPT !.queue = @ \o ms]]
  BY <1>8, <1>20
<1>22. p = process[i] \/ (p = NewProcess /\ \A k \in Nat, x \in Message : ~Has(i, k, x))
  BY <1>5, <1>13 DEF Blank
<1>23. /\ Adds(i, Len(p.queue), ms) /\ Len(p.queue) \in Nat
       /\ \A j \in Instance : process'[j].services = IF j = i THEN p.services ELSE process[j].services
       /\ \A j \in Instance : process'[j].state = IF j = i THEN p.state ELSE process[j].state
  BY <1>13, <1>18, <1>19, <1>21, <1>22, AddsShape
<1>24. /\ i <= instances' /\ instances <= instances'
  BY <1>8, <1>13
<1>25. NewProcess.services = {}
  BY DEF NewProcess
<1>26. /\ \A j \in Instance : j <= instances => process'[j].services = process[j].services
       /\ \A j \in Instance : process'[j].services = process[j].services \/ process'[j].services = {}
  <2>1. \A j \in Instance : j # i => process'[j].services = process[j].services
    BY <1>23
  <2>2. process'[i].services = p.services /\ i \in Instance
    BY <1>13, <1>23
  <2>3. CASE i > instances
    <3>1. process'[i].services = {}
      BY <1>5, <1>25, <2>2, <2>3
    <3>2. \A j \in Instance : j <= instances => j # i
      BY <1>13, <2>3 DEF Instance
    <3> QED BY <2>1, <3>1, <3>2
  <2>4. CASE ~(i > instances)
    <3>1. process'[i].services = process[i].services
      BY <1>5, <2>2, <2>4
    <3> QED BY <2>1, <3>1
  <2> QED BY <2>3, <2>4
<1>27. \A j \in Instance : process'[j].state = process[j].state \/ process'[j].state = "running"
  BY <1>18, <1>23
<1>28. mServices[s] # None => mServices[s].proc = i
  BY <1>3
<1> QED BY <1>7, <1>13, <1>14, <1>15, <1>16, <1>17, <1>19, <1>23, <1>24, <1>26, <1>27, <1>28 DEF Prepared

\* The only request for t that is on its way in a process is m at place a of process i,
\* perhaps with the message at place c that creates t.
OnlyAt(m, t, i, a, c) ==
  \A j \in Instance, k \in Nat, x \in Message : Has(j, k, x) /\ Token(x, t) =>
    j = i /\ ((x = m /\ k = a) \/ (x.op = "create" /\ k = c /\ c < a /\ m.op \in {"start", "bind"}))

\* What is left to show for t when a process has just been sent the only request for it.
LEMMA TokensTalk ==
  ASSUME NEW t \in Services, NEW m \in Message, NEW i \in Instance, NEW a \in Nat, NEW c \in Nat,
         OnlyAt(m, t, i, a, c)',
         m.op \in {"start", "bind", "stop"}, m.s = t, Open(m)', Kinds', Idle(t)',
         m.op # "stop" => Recorded(t, i)',
         m.op = "bind" => m.conn \in mServices'[t].conns,
         Served(t)', StopsFirst(t)', Known(t)'
  PROVE  Talk(t)'
<1>0. \A j \in Instance, k \in Nat, x \in Message : Has(j, k, x)' /\ Token(x, t) =>
        j = i /\ ((x = m /\ k = a) \/ (x.op = "create" /\ k = c /\ c < a /\ m.op \in {"start", "bind"}))
  BY DEF OnlyAt
<1>1. RequestsLast(t)' /\ ResultsLast(t)' /\ Failures(t)' /\ ~Requested(t)'
  <2>1. \A k \in Nat, x \in Message : Waits(k, x)' /\ x.s = t => Quiet(x)
    BY DEF Idle
  <2> QED BY <2>1 DEF RequestsLast, ResultsLast, Failures, Requested, Asks, Is, Quiet
<1>2. TokensOpen(t)'
  <2>1. SUFFICES ASSUME NEW j \in Instance, NEW k \in Nat, NEW x \in Message, Has(j, k, x)', Token(x, t)
                 PROVE  Open(x)'
    BY <1>1 DEF TokensOpen
  <2>2. CASE x = m
    BY <2>2
  <2>3. CASE x.op = "create"
    <3>1. x.s = t
      BY <2>1 DEF Token
    <3>2. (Unanswered(t))'
      <4>1. ASSUME NEW y \in Message, Open(y)', y.s = t PROVE Unanswered(t)'
        <5>1. DOMAIN calls' = 1 .. Len(calls')
          BY LenProperties DEF Kinds
        <5>2. y.op = "bind" => y.conn \in Connections
          BY DEF Message
        <5> QED BY <4>1, <5>1, <5>2 DEF Open, Unanswered
      <4> QED BY <4>1
    <3> QED BY <2>3, <3>1, <3>2 DEF Open
  <2> QED BY <1>0, <2>1, <2>2, <2>3
<1>3. Order(t)'
  <2>1. SUFFICES ASSUME NEW j \in Instance, NEW h \in Instance, NEW k \in Nat, NEW l \in Nat,
                        NEW x \in Message, NEW y \in Message,
                        Has(j, k, x)', Has(h, l, y)', Token(x, t), Token(y, t)
                 PROVE  j = h /\ (k < l => x.op = "create" /\ y.op \in {"start", "bind"})
    BY DEF Order
  <2>2. /\ j = i /\ ((x = m /\ k = a) \/ (x.op = "create" /\ k = c /\ c < a /\ m.op \in {"start", "bind"}))
        /\ h = i /\ ((y = m /\ l = a) \/ (y.op = "create" /\ l = c /\ c < a /\ m.op \in {"start", "bind"}))
    BY <1>0, <2>1
  <2> QED BY <2>2
<1>4. CreatedHere(t)'
  <2>1. SUFFICES ASSUME NEW j \in Instance, NEW k \in Nat, NEW x \in Message, Has(j, k, x)',
                        Is(x, "create", t) \/ Is(x, "bind", t)
                 PROVE  Recorded(t, j)' /\ (x.op = "bind" => x.conn \in mServices'[t].conns)
    BY DEF CreatedHere, Is
  <2>2. Token(x, t) /\ x.op \in {"create", "bind"}
    BY <2>1 DEF Is, Token
  <2>3. j = i /\ ((x = m /\ k = a) \/ (x.op = "create" /\ k = c /\ c < a /\ m.op \in {"start", "bind"}))
    BY <1>0, <2>1, <2>2
  <2> QED BY <2>2, <2>3
<1> QED BY <1>1, <1>2, <1>3, <1>4 DEF Talk

\* A record names a running process that nobody has been told to stop.
LEMMA RecordedRuns ==
  ASSUME Inv, NEW t \in Services, NEW j, Recorded(t, j)
  PROVE  /\ j \in Instance /\ j <= instances /\ process[j].state = "running" /\ j \notin Range(stopping)
<1>1. mServices[t] \in Record /\ mServices[t].proc = j /\ processName[t] \in Name
  BY DEF Recorded, Inv, Kinds, Name
<1>2. j = mProcesses[processName[t]] /\ j \in Instance /\ j # None
  BY <1>1, NoneAssumption DEF Recorded, Inv, Refers, Record, Instance
<1> QED BY <1>1, <1>2 DEF Inv, Refers, Kinds

\* The steps of the other services when a process gets messages for s.
LEMMA AddedOthers ==
  ASSUME Inv, NEW s, NEW t \in Services, t # s, Talk(t),
         NEW i \in Instance, NEW b \in Nat, NEW ms \in Seq(Message), Adds(i, b, ms),
         \A n \in 1 .. Len(ms) : ms[n].s = s,
         \A j \in Instance : j <= instances => process'[j].services = process[j].services,
         mServices'[t] = mServices[t], UNCHANGED <<calls, bound, connected>>, NEW m, Drops(m)
  PROVE  Talk(t)'
<1>1. \A x \in Message : Open(x)' <=> Open(x)
  BY DEF Open, Unanswered
<1>2. ASSUME NEW j \in Instance, NEW k \in Nat, NEW x \in Message, Has(j, k, x)', x.s = t
      PROVE  Has(j, k, x)
  BY <1>2 DEF Adds
<1>3. \A j \in Instance, k \in Nat, x \in Message : Has(j, k, x) => Has(j, k, x)'
  BY DEF Adds
<1>4. Served(t)'
  <2>1. Served(t)
    BY DEF Talk
  <2>2. \A j \in Instance : Recorded(t, j)' <=> Recorded(t, j)
    BY DEF Recorded
  <2>3. \A j \in Instance : Recorded(t, j) => process'[j].services = process[j].services
    BY RecordedRuns
  <2> QED BY <1>2, <1>3, <2>1, <2>2, <2>3, ServedStays DEF Is
<1>5. 0 \in Nat /\ 1 \in Nat /\ \A j \in Instance, k \in Nat : (IF j = 0 THEN k + 0 ELSE k) = k
  OBVIOUS
<1>6. \A j \in Instance, k \in Nat, x \in Message :
        Has(j, k, x)' /\ x.s = t /\ x.op \in {"create", "start", "bind", "stop"} =>
          \/ Has(j, IF j = 0 THEN k + 0 ELSE k, x)
          \/ x.op = "stop" /\ x.id = 0 /\ (~Recorded(t, j) \/ ~Creating(j, t))
  BY <1>2, <1>5
<1>7. \A k \in Nat, x \in Message : Waits(k, x)' /\ x.s = t /\ ~Quiet(x) => Waits(k + 1, x)
  BY DEF Drops
<1> QED BY <1>1, <1>4, <1>5, <1>6, <1>7, Frame

\* A request for s is handed on to its process.
LEMMA PreparedTalk ==
  ASSUME Inv, Inv', NEW s \in Services, Talk(s), NEW m \in Message, m.s = s, m.op \in {"start", "bind"},
         Takes(m), NEW conns, m.op = "bind" => m.conn \in conns,
         NEW i \in Instance, NEW b \in Nat, NEW ms \in Seq(Message), Adds(i, b, ms),
         \/ mServices[s] # None /\ ms \in {<<>>, <<m>>}
         \/ mServices[s] = None /\ Len(ms) = 2 /\ Is(ms[1], "create", s) /\ ms[2] = m,
         \A j \in Instance : j <= instances => process'[j].services = process[j].services,
         mServices'[s] # None, mServices'[s].proc = i,
         mServices'[s].conns = (IF mServices[s] = None THEN {} ELSE mServices[s].conns) \cup conns,
         mServices[s] # None => mServices[s].proc = i,
         UNCHANGED <<calls, bound, connected>>
  PROVE  Talk(s)'
<1>1. \A x \in Message : Open(x)' <=> Open(x)
  BY DEF Open, Unanswered
<1>2. Calm(s) /\ Idle(s)' /\ Open(m)'
  <2>1. Asks(m, s) /\ m.op # "unbind"
    BY DEF Asks
  <2> QED BY <1>1, <2>1, Handled DEF Takes, Drops
<1>3. /\ \A k \in Nat, x \in Message : Has(i, k, x) => k <= b
      /\ \A j \in Instance, k \in Nat, x \in Message : Has(j, k, x) => Has(j, k, x)'
      /\ \A j \in Instance, k \in Nat, x \in Message : Has(j, k, x)' =>
           Has(j, k, x) \/ (j = i /\ \E n \in 1 .. Len(ms) : k = b + n /\ x = ms[n])
      /\ \A n \in 1 .. Len(ms) : Has(i, b + n, ms[n])'
  BY DEF Adds
<1>4. \A j \in Instance, k \in Nat, x \in Message : Has(j, k, x) => ~Token(x, s)
  BY <1>2 DEF Calm
<1>5. \A j : Recorded(s, j)' => j = i
  BY DEF Recorded
<1>6. \A x \in Message : Is(x, "create", s) => Token(x, s)
  BY DEF Is, Token
<1>7. CASE mServices[s] # None
  <2>1. Recorded(s, i) /\ Recorded(s, i)' /\ i <= instances
    <3>1. Recorded(s, i) /\ Recorded(s, i)'
      BY <1>7 DEF Recorded
    <3> QED BY <3>1, RecordedRuns
  <2>2. ASSUME NEW j \in Instance, NEW k \in Nat, NEW x \in Message, Has(j, k, x)'
        PROVE  Has(j, k, x) \/ (j = i /\ x = m /\ k = b + 1 /\ ms = <<m>>)
    <3>1. CASE ms = <<>>
      <4>1. Len(ms) = 0
        BY <3>1, EmptySeq
      <4>2. \A n \in 1 .. 0 : FALSE
        OBVIOUS
      <4> QED BY <1>3, <2>2, <4>1, <4>2
    <3>2. CASE ms = <<m>>
      <4>1. Len(ms) = 1 /\ ms[1] = m
        BY <3>2
      <4>2. \A n \in 1 .. 1 : n = 1
        OBVIOUS
      <4> QED BY <1>3, <2>2, <3>2, <4>1, <4>2
    <3> QED BY <1>7, <3>1, <3>2
  <2>3. \A j \in Instance : ~Creating(j, s)'
    <3>1. ASSUME NEW j \in Instance, NEW k \in Nat, NEW x \in Message, Has(j, k, x)', Is(x, "create", s) PROVE FALSE
      <4>1. x # m
        BY <3>1 DEF Is
      <4> QED BY <1>4, <1>6, <2>2, <3>1, <4>1
    <3> QED BY <3>1 DEF Creating
  <2>4. Served(s)'
    <3>1. Served(s)
      BY DEF Talk
    <3>2. \A j \in Instance, k \in Nat, x \in Message : Has(j, k, x)' /\ Is(x, "stop", s) => Has(j, k, x)
      <4>1. ~Is(m, "stop", s)
        BY DEF Is
      <4> QED BY <2>2, <4>1
    <3>3. \A j \in Instance : Recorded(s, j)' => Recorded(s, j)
      BY <1>5, <2>1
    <3>4. \A j \in Instance : Recorded(s, j) => process'[j].services = process[j].services
      BY RecordedRuns
    <3> QED BY <1>3, <3>1, <3>2, <3>3, <3>4, ServedStays
  <2>5. StopsFirst(s)'
    BY <2>3 DEF StopsFirst, Creating
  <2>6. \A c \in connected' : bound'[c] = s =>
          s \in Enabled /\ mServices'[s] # None /\ c \in mServices'[s].conns
    BY <1>7 DEF Talk, Known
  <2>7. Known(s)'
    BY <2>3, <2>6 DEF Known
  <2>8. CASE ms = <<>>
    <3>1. <<m>> # <<>>
      OBVIOUS
    <3>2. Calm(s)'
      BY <1>4, <2>2, <2>8, <3>1 DEF Calm
    <3> QED BY <1>2, <2>4, <2>6, <3>2, IdleTalk
  <2>9. CASE ms = <<m>>
    <3>1. PICK a \in Nat, c \in Nat : a = b + 1 /\ c = 0 /\ c < a
      OBVIOUS
    <3>2. OnlyAt(m, s, i, a, c)'
      BY <1>4, <2>2, <3>1 DEF OnlyAt
    <3>3. m.op \in {"start", "bind", "stop"} /\ (m.op = "bind" => m.conn \in mServices'[s].conns)
      OBVIOUS
    <3>4. Kinds'
      BY DEF Inv
    <3> QED BY <1>2, <2>1, <2>4, <2>5, <2>7, <3>1, <3>2, <3>3, <3>4, TokensTalk
  <2> QED BY <1>7, <2>8, <2>9
<1>8. CASE mServices[s] = None
  <2>1. Len(ms) = 2 /\ Is(ms[1], "create", s) /\ ms[2] = m /\ ms[1] \in Message
    <3>1. 1 \in 1 .. 2
      OBVIOUS
    <3> QED BY <1>8, <3>1, ElementOfSeq
  <2>2. ASSUME NEW j \in Instance, NEW k \in Nat, NEW x \in Message, Has(j, k, x)'
        PROVE  Has(j, k, x) \/ (j = i /\ ((x = ms[1] /\ k = b + 1) \/ (x = m /\ k = b + 2)))
    <3>1. \A n \in 1 .. 2 : n = 1 \/ n = 2
      OBVIOUS
    <3> QED BY <1>3, <2>1, <2>2, <3>1
  <2>3. Creating(i, s)'
    <3>1. Has(i, b + 1, ms[1])' /\ b + 1 \in Nat
      BY <1>3, <2>1
    <3> QED BY <2>1, <3>1 DEF Creating
  <2>4. Served(s)'
    BY <1>5, <2>3 DEF Served
  <2>5. StopsFirst(s)'
    <3>1. SUFFICES ASSUME NEW j \in Instance, NEW k \in Nat, NEW l \in Nat,
                          NEW x \in Message, NEW y \in Message,
                          Has(j, k, x)', Has(j, l, y)', Is(x, "create", s), Is(y, "stop", s)
                   PROVE  l < k
      BY DEF StopsFirst
    <3>2. j = i /\ (k = b + 1 \/ k = b + 2)
      BY <1>4, <1>6, <2>2, <3>1
    <3>3. y # ms[1] /\ y # m
      BY <2>1, <3>1 DEF Is
    <3>4. l <= b
      BY <1>3, <2>2, <3>1, <3>2, <3>3
    <3> QED BY <3>2, <3>4
  <2>6. Known(s)'
    BY <1>8 DEF Talk, Known
  <2>7. PICK a \in Nat, c \in Nat : a = b + 2 /\ c = b + 1 /\ c < a
    OBVIOUS
  <2>8. OnlyAt(m, s, i, a, c)'
    BY <1>4, <2>1, <2>2, <2>7 DEF OnlyAt, Is
  <2>9. m.op \in {"start", "bind", "stop"} /\ (m.op = "bind" => m.conn \in mServices'[s].conns)
    OBVIOUS
  <2>10. Recorded(s, i)'
    BY DEF Recorded
  <2>11. Kinds'
    BY DEF Inv
  <2> QED BY <1>2, <2>4, <2>5, <2>6, <2>7, <2>8, <2>9, <2>10, <2>11, TokensTalk
<1> QED BY <1>7, <1>8

\* There is an instance for the process that a request may start.
LEMMA RoomToStart ==
  ASSUME Inv, inbox # <<>>, inbox' = Tail(inbox), Head(inbox).op \in {"start", "bind"}
  PROVE  instances < MaxCalls
<1> USE DEF Inv
<1>1. Starts' = Starts - 1 /\ inbox' \in Seq(Message)
  BY InboxTail
<1>2. Starts' \in Nat
  BY <1>1, PlacesFinite DEF Starts
<1> QED BY <1>1, <1>2, Numbers DEF Budget, Kinds

\* startService and bindService send a request to the process of the service.
LEMMA PreparedTalks ==
  ASSUME Inv, Inv', Talks, inbox # <<>>, inbox' = Tail(inbox), NEW m, m = Head(inbox),
         m.op \in {"start", "bind"}, NEW conns \in SUBSET Connections, m.op = "bind" => m.conn \in conns,
         NEW running \in BOOLEAN, NEW msgs \in {<<>>, <<m>>}, mServices[m.s] = None => msgs = <<m>>,
         Prepare(m.s, conns, running, msgs), UNCHANGED <<patient, stopVars, calls, bound, connected>>
  PROVE  Talks'
<1>1. m \in Message /\ Takes(m) /\ m.s \in Services
  <2>1. m \in Message /\ Takes(m)
    BY TakesShape DEF Inv
  <2> QED BY <2>1 DEF Message
<1>2. PICK s \in Services : s = m.s
  BY <1>1
<1> SUFFICES ASSUME patient PROVE Talks'
  BY DEF Talks
<1>3. /\ \A c \in connected : bound[c] # None
      /\ EndsEmpty /\ Blank /\ \A t \in Services : Talk(t)
  BY DEF Talks
<1>4. msgs \in Seq(Message) /\ <<m>> \in Seq(Message)
  <2>1. <<>> \in Seq(Message) /\ \A x \in Message : <<x>> \in Seq(Message)
    BY EmptySeq
  <2> QED BY <1>1, <2>1
<1>5. instances < MaxCalls
  BY RoomToStart
<1>6. PICK i \in Instance, b \in Nat, ms \in Seq(Message) :
           /\ ms = CreateIfNew(s) \o msgs /\ Adds(i, b, ms)
           /\ i <= instances' /\ instances <= instances'
           /\ \A j \in Instance : j <= instances => process'[j].services = process[j].services
           /\ \A j \in Instance : process'[j].services = process[j].services \/ process'[j].services = {}
           /\ \A j \in Instance : process'[j].state = process[j].state \/ process'[j].state = "running"
           /\ \A t \in Services : t # s => mServices'[t] = mServices[t]
           /\ mServices'[s] # None /\ mServices'[s].proc = i
           /\ mServices'[s].conns = (IF mServices[s] = None THEN {} ELSE mServices[s].conns) \cup conns
           /\ mServices[s] # None => mServices[s].proc = i
  <2>1. Prepare(s, conns, running, msgs)
    BY <1>2
  <2>2. Prepared(s, conns, msgs)
    BY <1>3, <1>4, <1>5, <2>1, PrepareShape
  <2> QED BY <2>2 DEF Prepared
<1>7. mServices[s] # None => ms = msgs
  <2>1. \A q \in Seq(Message) : <<>> \o q = q
    BY ConcatEmptySeq
  <2> QED BY <1>4, <1>6, <2>1 DEF CreateIfNew
<1>8. mServices[s] = None => Len(ms) = 2 /\ Is(ms[1], "create", s) /\ ms[2] = m
  <2>1. mServices[s] = None => ms = <<Msg("create", s, 0, None)>> \o <<m>>
    BY <1>2, <1>6 DEF CreateIfNew
  <2>2. \A c \in Message : LET q == <<c>> \o <<m>> IN Len(q) = 2 /\ q[1] = c /\ q[2] = m
    BY <1>1
  <2>3. Msg("create", s, 0, None) \in Message /\ Is(Msg("create", s, 0, None), "create", s)
    BY ServiceManagerAssumption DEF Msg, Message, Op, Is
  <2> QED BY <2>1, <2>2, <2>3
<1>9. \A n \in 1 .. Len(ms) : ms[n].s = s
  <2>1. CASE mServices[s] = None
    <3>1. \A n \in 1 .. 2 : n = 1 \/ n = 2
      OBVIOUS
    <3> QED BY <1>2, <1>8, <2>1, <3>1 DEF Is
  <2>2. CASE mServices[s] # None
    <3>1. CASE ms = <<>>
      <4>1. Len(ms) = 0 /\ \A n \in 1 .. 0 : FALSE
        BY <3>1, EmptySeq
      <4> QED BY <4>1
    <3>2. CASE ms = <<m>>
      <4>1. Len(ms) = 1 /\ ms[1] = m /\ \A n \in 1 .. 1 : n = 1
        BY <3>2
      <4> QED BY <1>2, <4>1
    <3> QED BY <1>7, <2>2, <3>1, <3>2
  <2> QED BY <2>1, <2>2
<1>10. ASSUME NEW t \in Services PROVE Talk(t)'
  <2>1. CASE t # s
    BY <1>1, <1>3, <1>6, <1>9, <2>1, AddedOthers DEF Takes, Drops
  <2>2. CASE t = s
    <3>1. \/ mServices[s] # None /\ ms \in {<<>>, <<m>>}
          \/ mServices[s] = None /\ Len(ms) = 2 /\ Is(ms[1], "create", s) /\ ms[2] = m
      BY <1>7, <1>8
    <3>2. Talk(s) /\ m.s = s /\ calls' = calls /\ bound' = bound /\ connected' = connected
      BY <1>2, <1>3
    <3>3. Talk(s)'
      BY <1>1, <1>6, <3>1, <3>2, PreparedTalk
    <3> QED BY <2>2, <3>3
  <2> QED BY <2>1, <2>2
<1>11. EndsEmpty'
  BY <1>3, <1>6 DEF EndsEmpty, stopVars
<1>12. Blank'
  <2>1. SUFFICES ASSUME NEW j \in Instance, NEW k \in Nat, NEW x \in Message, Has(j, k, x)' PROVE j <= instances'
    BY DEF Blank
  <2>2. Has(j, k, x) \/ j = i
    BY <1>6, <2>1 DEF Adds
  <2>3. instances \in Nat /\ instances' \in Nat /\ j \in Nat
    BY DEF Inv, Kinds, Instance
  <2> QED BY <1>3, <1>6, <2>2, <2>3 DEF Blank
<1> QED BY <1>3, <1>10, <1>11, <1>12 DEF Talks

\* Messages for a process that is there.
LEMMA SentShape ==
  ASSUME Kinds, NEW i \in Instance, NEW ms \in Seq(Message), process' = Sent(i, ms)
  PROVE  SameServices /\ \E b \in Nat : Adds(i, b, ms)
<1>1. PICK p : p = process[i]
  OBVIOUS
<1>2. p \in Proc
  BY <1>1 DEF Kinds
<1>3. process' = [process EXCEPT ![i] = [p EXCEPT !.queue = @ \o ms]]
  BY <1>1 DEF Sent
<1>4. /\ Adds(i, Len(p.queue), ms) /\ Len(p.queue) \in Nat
      /\ \A j \in Instance : process'[j].services = IF j = i THEN p.services ELSE process[j].services
      /\ \A j \in Instance : process'[j].state = IF j = i THEN p.state ELSE process[j].state
  BY <1>1, <1>2, <1>3, AddsShape
<1> QED BY <1>1, <1>4 DEF SameServices

\* What a process is when the one of a record gets messages.
LEMMA BooksSent ==
  ASSUME Inv, EndsEmpty, Blank, SameServices, NEW i \in Instance, i <= instances, NEW b, NEW ms, Adds(i, b, ms),
         UNCHANGED <<instances, timedOut>>
  PROVE  EndsEmpty' /\ Blank'
<1>1. EndsEmpty'
  BY DEF EndsEmpty, SameServices
<1>2. ASSUME NEW j \in Instance, NEW k \in Nat, NEW x \in Message, Has(j, k, x)' PROVE j <= instances'
  BY <1>2 DEF Blank, Adds
<1> QED BY <1>1, <1>2 DEF Blank

\* stopService takes the record and sends the message that destroys the service.
LEMMA StopTalks ==
  ASSUME Inv, Inv', Talks, Closing, StopService
  PROVE  Talks'
<1> USE DEF Inv
<1>1. PICK m : m = Head(inbox)
  OBVIOUS
<1>2. /\ inbox # <<>> /\ m.op = "stop" /\ inbox' = Tail(inbox)
      /\ UNCHANGED <<patient, commands, bound, posted, connected>>
  BY <1>1 DEF StopService, Receives
<1>3. m \in Message /\ Takes(m) /\ m.s \in Services
  <2>1. m \in Message /\ Takes(m)
    BY <1>1, <1>2, TakesShape
  <2> QED BY <2>1 DEF Message
<1>4. CASE ~Stoppable(m.s)
  <2>1. calls' = Answered(m.id) /\ UNCHANGED <<managerVars, stopVars, process>>
    BY <1>1, <1>4 DEF StopService
  <2>2. CASE m.id # 0
    BY <1>1, <1>2, <2>1, <2>2, AnsweredTalks
  <2>3. CASE m.id = 0
    BY <1>2, <2>1, <2>3, DroppedTalks DEF Answered, clientVars
  <2> QED BY <2>2, <2>3
<1>5. CASE Stoppable(m.s)
  <2>1. process' = Sent(mServices[m.s].proc, <<m>>) /\ RemoveRecord(m.s) /\ UNCHANGED calls
    BY <1>1, <1>5 DEF StopService
  <2> SUFFICES ASSUME patient PROVE Talks'
    BY <1>2 DEF Talks
  <2>2. /\ \A c \in connected : bound[c] # None
        /\ EndsEmpty /\ Blank /\ \A t \in Services : Talk(t)
    BY DEF Talks
  <2>3. PICK s \in Services : s = m.s
    BY <1>3
  <2>4. PICK i : i = mServices[s].proc
    OBVIOUS
  <2>5. i \in Instance /\ i <= instances /\ Recorded(s, i) /\ mServices[s].conns = {}
    <3>1. Recorded(s, i) /\ mServices[s].conns = {}
      BY <1>5, <2>3, <2>4 DEF Stoppable, Recorded
    <3> QED BY <3>1, RecordedRuns
  <2>6. PICK ms \in Seq(Message) : ms = <<m>>
    <3>1. \A x \in Message : <<x>> \in Seq(Message)
      OBVIOUS
    <3> QED BY <1>3, <3>1
  <2>7. PICK b \in Nat : SameServices /\ Adds(i, b, ms)
    BY <2>1, <2>3, <2>4, <2>5, <2>6, SentShape
  <2>8. /\ mServices'[s] = None /\ \A t \in Services : t # s => mServices'[t] = mServices[t]
        /\ instances' = instances /\ timedOut' = timedOut
    BY <2>1, <2>3, RecordGoes
  <2>9. Len(ms) = 1 /\ ms[1] = m /\ \A n \in 1 .. 1 : n = 1
    BY <2>6
  <2>10. ASSUME NEW t \in Services PROVE Talk(t)'
    <3>1. CASE t # s
      <4>1. \A n \in 1 .. Len(ms) : ms[n].s = s
        BY <2>3, <2>9
      <4>2. UNCHANGED <<calls, bound, connected>> /\ mServices'[t] = mServices[t]
        BY <1>2, <2>1, <2>8, <3>1
      <4>3. \A j \in Instance : j <= instances => process'[j].services = process[j].services
        BY <2>7 DEF SameServices
      <4> QED BY <1>3, <2>2, <2>5, <2>7, <3>1, <4>1, <4>2, <4>3, AddedOthers DEF Takes, Drops
    <3>2. CASE t = s /\ m.id = 0
      <4>1. Late(m, s) /\ Waits(1, m) /\ 1 \in Nat
        BY <1>2, <1>3, <2>3, <3>2 DEF Late, Takes
      <4>2. \A j \in Instance : ~Creating(j, s)
        BY <1>3, <4>1 DEF Closing, LateStops
      <4>3. Withdrawn(s) /\ Served(s)'
        BY <2>5, <2>8, <4>2 DEF Withdrawn, Served, Recorded
      <4>4. \A j \in Instance, k \in Nat, x \in Message : Has(j, k, x)' => Has(j, k, x) \/ x = m
        BY <2>7, <2>9 DEF Adds
      <4>5. 0 \in Nat /\ \A j \in Instance, k \in Nat : (IF j = 0 THEN k + 0 ELSE k) = k
        OBVIOUS
      <4>6. \A j \in Instance, k \in Nat, x \in Message :
              Has(j, k, x)' /\ x.s = s /\ x.op \in {"create", "start", "bind", "stop"} =>
                \/ Has(j, IF j = 0 THEN k + 0 ELSE k, x)
                \/ x.op = "stop" /\ x.id = 0 /\ (~Recorded(s, j) \/ ~Creating(j, s))
        BY <1>2, <3>2, <4>2, <4>4, <4>5
      <4>7. \A k \in Nat, x \in Message : Waits(k, x)' /\ x.s = s /\ ~Quiet(x) => Waits(k + 1, x)
        BY <1>3 DEF Takes
      <4>8. \A x \in Message : x.s = s /\ Open(x) => Open(x)'
        BY <1>2, <2>1 DEF Open, Unanswered
      <4>9. \A c \in connected' : bound'[c] = s => c \in connected /\ bound[c] = s
        BY <1>2
      <4>10. Talk(s)'
        BY <2>2, <4>1, <4>3, <4>5, <4>6, <4>7, <4>8, <4>9, Frame
      <4> QED BY <3>2, <4>10
    <3>3. CASE t = s /\ m.id # 0
      <4>1. Asks(m, s) /\ m.op # "unbind"
        BY <1>2, <2>3, <3>3 DEF Asks
      <4>2. Calm(s) /\ Idle(s)' /\ Open(m)
        BY <1>3, <2>2, <4>1, Handled DEF Takes, Drops
      <4>3. Open(m)'
        BY <1>2, <2>1, <4>2 DEF Open, Unanswered
      <4>4. \A j \in Instance, k \in Nat, x \in Message : Has(j, k, x)' => Has(j, k, x) \/ (j = i /\ x = m /\ k = b + 1)
        BY <2>7, <2>9 DEF Adds
      <4>5. PICK a \in Nat, c \in Nat : a = b + 1 /\ c = 0
        OBVIOUS
      <4>6. OnlyAt(m, s, i, a, c)'
        BY <4>2, <4>4, <4>5 DEF OnlyAt, Calm
      <4>7. Served(s)'
        BY <2>8 DEF Served, Recorded
      <4>8. \A j \in Instance, k \in Nat, x \in Message : Has(j, k, x)' => ~Is(x, "create", s)
        <5>1. ~Is(m, "create", s) /\ \A x \in Message : Is(x, "create", s) => Token(x, s)
          BY <1>2 DEF Is, Token
        <5> QED BY <4>2, <4>4, <5>1 DEF Calm
      <4>9. StopsFirst(s)'
        BY <4>8 DEF StopsFirst
      <4>10. Known(s)'
        BY <1>2, <2>2, <2>5 DEF Talk, Known
      <4>11. Kinds' /\ m.op \in {"start", "bind", "stop"} /\ m.s = s
        BY <1>2, <2>3
      <4>12. Talk(s)'
        BY <1>2, <1>3, <2>5, <4>2, <4>3, <4>6, <4>7, <4>9, <4>10, <4>11, TokensTalk
      <4> QED BY <3>3, <4>12
    <3> QED BY <3>1, <3>2, <3>3
  <2>11. EndsEmpty' /\ Blank'
    BY <2>2, <2>5, <2>7, <2>8, BooksSent
  <2> QED BY <1>2, <2>2, <2>10, <2>11 DEF Talks
<1> QED BY <1>4, <1>5

\* unbindService takes message m, and with the last connection it sends itself one that comes
\* behind the others.
Parts(m, b, late) ==
  /\ Late(late, m.s)
  /\ \A k \in Nat, x \in Message : Waits(k, x) => k >= 1 /\ k <= b /\ (k = 1 => x = m)
  /\ \A k \in Nat, x \in Message : Waits(k, x)' =>
       \/ Waits(k + 1, x) /\ k >= 1
       \/ /\ k = b /\ x = late
          /\ mServices[m.s] # None /\ mServices[m.s].conns \ {m.conn} = {}

\* That is what it does to the inbox.
LEMMA UnbindInbox ==
  ASSUME Inv, UnbindService, NEW m, m = Head(inbox)
  PROVE  /\ m \in Message /\ m.op = "unbind" /\ m.s \in Services /\ Drops(m)
         /\ \E b \in Nat, late \in Message : Parts(m, b, late)
<1>1. inbox # <<>> /\ m.op = "unbind" /\ inbox \in Seq(Message)
  BY DEF UnbindService, Receives, Inv, Kinds
<1>2. PICK n : n = Len(inbox)
  OBVIOUS
<1>3. PICK late : late = Msg("stop", m.s, 0, None)
  OBVIOUS
<1>4. PICK rest : rest = Tail(inbox)
  OBVIOUS
<1>5. /\ m \in Message /\ m = inbox[1] /\ n \in Nat /\ n >= 1 /\ rest \in Seq(Message)
      /\ Len(rest) = n - 1 /\ \A k \in 1 .. n - 1 : rest[k] = inbox[k + 1]
  BY <1>1, <1>2, <1>4, HeadTailProperties, LenProperties, EmptySeq
<1>6. m.s \in Services
  BY <1>5 DEF Message
<1>7. late \in Message /\ Late(late, m.s)
  BY <1>3, <1>6, ServiceManagerAssumption DEF Msg, Message, Op, Late
<1>8. \A k \in Nat, x \in Message : Waits(k, x) <=> k \in 1 .. n /\ inbox[k] = x
  BY <1>2 DEF Waits
<1>9. \A k \in Nat, x \in Message : Waits(k, x) => k >= 1 /\ k <= n /\ (k = 1 => x = m)
  BY <1>5, <1>8
<1>10. \A k \in Nat : k \in 1 .. n - 1 => k + 1 \in 1 .. n /\ k + 1 \in Nat /\ k >= 1
  BY <1>5
<1>11. CASE inbox' = rest
  <2>1. \A k \in Nat, x \in Message : Waits(k, x)' => k \in 1 .. n - 1 /\ inbox[k + 1] = x
    BY <1>5, <1>11 DEF Waits
  <2>2. \A k \in Nat, x \in Message : Waits(k, x)' => Waits(k + 1, x) /\ k >= 1
    BY <1>8, <1>10, <2>1
  <2>3. Waits(1, m)
    BY <1>5, <1>8
  <2> QED BY <1>1, <1>5, <1>6, <1>7, <1>9, <2>2, <2>3 DEF Parts, Drops
<1>12. CASE /\ inbox' = Append(rest, late)
            /\ mServices[m.s] # None /\ mServices[m.s].conns \ {m.conn} = {}
  <2>1. /\ Len(inbox') = n /\ inbox'[n] = late /\ \A k \in 1 .. n - 1 : inbox'[k] = inbox[k + 1]
    BY <1>5, <1>7, <1>12, AppendProperties
  <2>2. \A k \in Nat, x \in Message : Waits(k, x)' =>
          (k \in 1 .. n - 1 /\ inbox[k + 1] = x) \/ (k = n /\ x = late)
    BY <1>5, <2>1 DEF Waits
  <2>3. \A k \in Nat, x \in Message : Waits(k, x)' =>
          (Waits(k + 1, x) /\ k >= 1) \/ (k = n /\ x = late)
    BY <1>8, <1>10, <2>2
  <2>4. Waits(1, m) /\ Quiet(late)
    BY <1>5, <1>7, <1>8 DEF Late, Quiet
  <2> QED BY <1>1, <1>5, <1>6, <1>7, <1>9, <1>12, <2>3, <2>4 DEF Parts, Drops
<1> QED BY <1>3, <1>4, <1>11, <1>12 DEF UnbindService

\* And this to a record.
LEMMA UnbindRecord ==
  ASSUME Inv, UnbindService, NEW m, m = Head(inbox), mServices[m.s] # None
  PROVE  /\ process' = Sent(mServices[m.s].proc, <<m>>)
         /\ mServices'[m.s] # None /\ mServices'[m.s].proc = mServices[m.s].proc
         /\ mServices'[m.s].conns = mServices[m.s].conns \ {m.conn}
         /\ \A t \in Services : t # m.s => mServices'[t] = mServices[t]
         /\ UNCHANGED <<patient, instances, timedOut, clientVars>>
<1>1. m.s \in Services
  BY UnbindInbox
<1>2. PICK rest : rest = mServices[m.s].conns \ {m.conn}
  OBVIOUS
<1>3. PICK r : r = [mServices[m.s] EXCEPT !.conns = rest]
  OBVIOUS
<1>4. mServices[m.s] \in Record
  BY <1>1 DEF Inv, Kinds
<1>5. r \in Record /\ r.proc = mServices[m.s].proc /\ r.conns = rest
  BY <1>2, <1>3, <1>4 DEF Record
<1>6. r # None
  BY <1>5, NoneAssumption DEF Record, Instance
<1>7. /\ process' = Sent(mServices[m.s].proc, <<m>>) /\ mServices' = [mServices EXCEPT ![m.s] = r]
      /\ UNCHANGED <<patient, instances, timedOut, clientVars>>
  BY <1>2, <1>3 DEF UnbindService, stopVars
<1>8. mServices'[m.s] = r /\ \A t \in Services : t # m.s => mServices'[t] = mServices[t]
  BY <1>1, <1>7 DEF Inv, Kinds
<1> QED BY <1>2, <1>5, <1>6, <1>7, <1>8

\* A connection less leaves the talk about services in order.
LEMMA UnbindTalks ==
  ASSUME Inv, Inv', Talks, UnbindService
  PROVE  Talks'
<1> USE DEF Inv
<1>1. PICK m : m = Head(inbox)
  OBVIOUS
<1>2. m \in Message /\ m.op = "unbind" /\ m.s \in Services /\ Drops(m)
  BY <1>1, UnbindInbox
<1>3. inbox # <<>> /\ UNCHANGED <<patient, clientVars>>
  BY DEF UnbindService, Receives
<1>4. calls' = calls /\ bound' = bound /\ connected' = connected
  BY <1>3 DEF clientVars
<1>5. CASE mServices[m.s] = None
  <2>1. UNCHANGED <<managerVars, stopVars, process>> /\ inbox' = Tail(inbox)
    BY <1>1, <1>5 DEF UnbindService, managerVars
  <2> QED BY <1>3, <2>1, DroppedTalks
<1>6. CASE mServices[m.s] # None
  <2> SUFFICES ASSUME patient PROVE Talks'
    BY <1>3 DEF Talks
  <2>1. /\ \A c \in connected : bound[c] # None
        /\ EndsEmpty /\ Blank /\ \A t \in Services : Talk(t)
    BY DEF Talks
  <2>2. PICK s \in Services : s = m.s
    BY <1>2
  <2>3. PICK i : i = mServices[s].proc
    OBVIOUS
  <2>4. i \in Instance /\ i <= instances /\ Recorded(s, i)
    <3>1. Recorded(s, i)
      BY <1>6, <2>2, <2>3 DEF Recorded
    <3> QED BY <3>1, RecordedRuns
  <2>5. PICK rest : rest = mServices[s].conns \ {m.conn}
    OBVIOUS
  <2>6. /\ process' = Sent(i, <<m>>) /\ mServices'[s] # None /\ mServices'[s].proc = i
        /\ mServices'[s].conns = rest /\ \A t \in Services : t # s => mServices'[t] = mServices[t]
        /\ instances' = instances /\ timedOut' = timedOut
    BY <1>1, <1>6, <2>2, <2>3, <2>5, UnbindRecord
  <2>7. PICK ms \in Seq(Message) : ms = <<m>>
    <3>1. \A x \in Message : <<x>> \in Seq(Message)
      OBVIOUS
    <3> QED BY <1>2, <3>1
  <2>8. PICK b \in Nat : SameServices /\ Adds(i, b, ms)
    BY <2>4, <2>6, <2>7, SentShape
  <2>9. Len(ms) = 1 /\ ms[1] = m /\ (\A n \in 1 .. 1 : n = 1) /\ ~Token(m, s) /\ m.op # "stop"
    BY <1>2, <2>7 DEF Token
  <2>10. ASSUME NEW t \in Services PROVE Talk(t)'
    <3>1. CASE t # s
      <4>1. \A j \in Instance : j <= instances => process'[j].services = process[j].services
        BY <2>8 DEF SameServices
      <4>2. \A n \in 1 .. Len(ms) : ms[n].s = s
        BY <2>2, <2>9
      <4> QED BY <1>2, <1>4, <2>1, <2>4, <2>6, <2>8, <3>1, <4>1, <4>2, AddedOthers
    <3>2. CASE t = s
      <4>1. Asks(m, s)
        BY <1>2, <2>2 DEF Asks
      <4>2. /\ Calm(s)
            /\ \A k \in Nat, x \in Message : Waits(k, x)' /\ x.s = s => x.op \notin {"result", "notCreated"}
        BY <1>2, <2>1, <4>1, Handled
      <4>3. \A j \in Instance, k \in Nat, x \in Message : Has(j, k, x)' =>
              Has(j, k, x) \/ (~Token(x, s) /\ x.op # "stop")
        BY <2>8, <2>9 DEF Adds
      <4>4. Calm(s)'
        BY <4>2, <4>3 DEF Calm
      <4>5. ResultsLast(s)' /\ Failures(s)'
        BY <4>2 DEF ResultsLast, Failures, Is
      <4>6. \A k \in Nat, x \in Message : Waits(k, x)' /\ Asks(x, s) => Waits(k + 1, x) /\ k + 1 \in Nat
        BY <1>2 DEF Drops, Asks, Quiet
      <4>7. \A x \in Message : Open(x)' <=> Open(x)
        BY <1>4 DEF Open, Unanswered
      <4>8. RequestsLast(s)'
        <5>1. SUFFICES ASSUME NEW k \in Nat, NEW x \in Message, Waits(k, x)', Asks(x, s)
                       PROVE  (IF x.op = "unbind" THEN ~(x.conn \in connected /\ bound[x.conn] = s)
                               ELSE Open(x) /\ \A l \in Nat, y \in Message : Waits(l, y) /\ Asks(y, s) => l <= k)'
          BY DEF RequestsLast
        <5>2. IF x.op = "unbind" THEN ~(x.conn \in connected /\ bound[x.conn] = s)
              ELSE Open(x) /\ \A l \in Nat, y \in Message : Waits(l, y) /\ Asks(y, s) => l <= k + 1
          BY <2>1, <4>6, <5>1 DEF Talk, RequestsLast
        <5>3. CASE x.op = "unbind"
          BY <1>4, <5>2, <5>3
        <5>4. CASE x.op # "unbind"
          <6>1. ASSUME NEW l \in Nat, NEW y \in Message, Waits(l, y)', Asks(y, s) PROVE l <= k
            <7>1. l + 1 <= k + 1
              BY <4>6, <5>2, <5>4, <6>1
            <7> QED BY <7>1
          <6> QED BY <4>7, <5>2, <5>4, <6>1
        <5> QED BY <5>3, <5>4
      <4>9. Served(s)'
        <5>1. Served(s)
          BY <2>1 DEF Talk
        <5>2. \A j \in Instance : Recorded(s, j)' => Recorded(s, j)
          BY <2>4, <2>6 DEF Recorded
        <5>3. \A j \in Instance, k \in Nat, x \in Message : Has(j, k, x) => Has(j, k, x)'
          BY <2>8 DEF Adds
        <5>4. \A j \in Instance, k \in Nat, x \in Message : Has(j, k, x)' /\ Is(x, "stop", s) => Has(j, k, x)
          BY <4>3 DEF Is
        <5> QED BY <2>8, <5>1, <5>2, <5>3, <5>4, ServedStays DEF SameServices
      <4>10. \A c \in connected' : bound'[c] = s =>
               s \in Enabled /\ mServices'[s] # None /\ c \in mServices'[s].conns
        <5>1. Waits(1, m)
          BY <1>2 DEF Drops
        <5>2. ~(m.conn \in connected /\ bound[m.conn] = s)
          BY <1>2, <2>1, <4>1, <5>1 DEF Talk, RequestsLast
        <5>3. \A c \in connected : bound[c] = s => s \in Enabled /\ c \in mServices[s].conns
          BY <2>1 DEF Talk, Known
        <5>4. \A c \in connected : bound[c] = s => s \in Enabled /\ c \in rest
          BY <2>5, <5>2, <5>3
        <5> QED BY <1>4, <2>6, <5>4
      <4>11. Talk(s)'
        BY <4>4, <4>5, <4>8, <4>9, <4>10, CalmTalk
      <4> QED BY <3>2, <4>11
    <3> QED BY <3>1, <3>2
  <2>11. EndsEmpty' /\ Blank'
    BY <2>1, <2>4, <2>6, <2>8, BooksSent
  <2> QED BY <1>3, <1>4, <2>1, <2>10, <2>11 DEF Talks
<1> QED BY <1>5, <1>6

\* The service manager's thread keeps what is on its way in order.
LEMMA HandleTalks ==
  ASSUME Inv, Inv', Talks, Closing, Handle
  PROVE  Talks'
<1>1. PICK m : m = Head(inbox)
  OBVIOUS
<1>0. SUFFICES ASSUME StartService \/ BindService \/ Created \/ Result PROVE Talks'
  BY StopTalks, UnbindTalks DEF Handle
<1>2. inbox # <<>> /\ inbox' = Tail(inbox) /\ m \in Message /\ m.s \in Services
  <2>1. inbox # <<>> /\ inbox' = Tail(inbox)
    BY <1>0 DEF StartService, BindService, Created, Result, Receives
  <2>2. m \in Message
    BY <1>1, <2>1, TakesShape DEF Inv
  <2> QED BY <2>1, <2>2 DEF Message
<1>3. CASE StartService
  <2>1. m.op = "start" /\ UNCHANGED <<patient, stopVars, commands, bound, posted, connected>>
    BY <1>1, <1>3 DEF StartService, Receives
  <2>2. CASE m.s \in Installed
    <3>1. Prepare(m.s, {}, TRUE, <<m>>) /\ UNCHANGED calls
      BY <1>1, <1>3, <2>2 DEF StartService
    <3>2. PICK conns \in SUBSET Connections : conns = {}
      OBVIOUS
    <3>3. PICK msgs \in {<<>>, <<m>>} : msgs = <<m>>
      OBVIOUS
    <3>4. Prepare(m.s, conns, TRUE, msgs)
      BY <3>1, <3>2, <3>3
    <3> QED BY <1>1, <1>2, <2>1, <3>1, <3>3, <3>4, PreparedTalks
  <2>3. CASE m.s \notin Installed
    <3>1. calls' = Answered(m.id) /\ UNCHANGED <<managerVars, process>>
      BY <1>1, <1>3, <2>3 DEF StartService
    <3> QED BY <1>1, <1>2, <2>1, <3>1, AnsweredTalks
  <2> QED BY <2>2, <2>3
<1>4. CASE BindService
  <2>1. m.op = "bind" /\ UNCHANGED <<patient, stopVars, clientVars>> /\ m.conn \in Connections
    BY <1>1, <1>2, <1>4 DEF BindService, Receives, Message
  <2>2. CASE m.s \in Installed
    <3>1. PICK msgs \in {<<>>, <<m>>} : (mServices[m.s] = None => msgs = <<m>>) /\ Prepare(m.s, {m.conn}, FALSE, msgs)
      BY <1>1, <1>4, <2>2 DEF BindService
    <3>2. PICK conns \in SUBSET Connections : conns = {m.conn}
      BY <2>1
    <3>3. Prepare(m.s, conns, FALSE, msgs) /\ m.conn \in conns
      BY <3>1, <3>2
    <3>4. UNCHANGED <<calls, bound, connected>>
      BY <2>1 DEF clientVars
    <3> QED BY <1>1, <1>2, <2>1, <3>1, <3>3, <3>4, PreparedTalks
  <2>3. CASE m.s \notin Installed
    <3>1. UNCHANGED <<managerVars, process>>
      BY <1>1, <1>4, <2>3 DEF BindService
    <3> QED BY <1>2, <2>1, <3>1, DroppedTalks
  <2> QED BY <2>2, <2>3
<1>5. CASE Created
  <2>1. UNCHANGED <<patient, process, clientVars>>
    BY <1>5 DEF Created
  <2>2. CASE ToCleanUp(m)
    <3>1. RemoveRecord(m.s) /\ m.op = "notCreated"
      BY <1>1, <1>5, <2>2 DEF Created, ToCleanUp
    <3> QED BY <1>1, <1>2, <2>1, <2>2, <3>1, NotCreatedTalks
  <2>3. CASE ~ToCleanUp(m)
    <3>1. UNCHANGED <<managerVars, stopVars>>
      BY <1>1, <1>5, <2>3 DEF Created
    <3> QED BY <1>2, <2>1, <3>1, DroppedTalks
  <2> QED BY <2>2, <2>3
<1>6. CASE Result
  <2>1. /\ m.op = "result" /\ calls' = Answered(m.id)
        /\ UNCHANGED <<patient, managerVars, stopVars, process, commands, bound, posted, connected>>
    BY <1>1, <1>6 DEF Result, Receives
  <2> QED BY <1>1, <1>2, <2>1, AnsweredTalks
<1> QED BY <1>0, <1>3, <1>4, <1>5, <1>6

(***************************************************************************)
(* What the threads of the processes do.                                   *)
(***************************************************************************)
\* Messages that are there were there, those of process i l places further back.
Moves(i, l) ==
  \A j \in Instance, k \in Nat, x \in Message :
    Has(j, k, x)' => Has(j, IF j = i THEN k + l ELSE k, x) /\ (IF j = i THEN k + l ELSE k) \in Nat

\* Taking a message and starting to work on one both move messages up.
LEMMA ShapesMove ==
  ASSUME NEW i, NEW l \in Nat, NEW m, Removes(i, l, m) \/ Keeps(i, l)
  PROVE  Moves(i, l)
<1> QED BY DEF Removes, Keeps, Moves

\* A step of process i that neither answers a request for t nor destroys it.
LEMMA WorkFrame ==
  ASSUME Kinds, Kinds', NEW t \in Services, Talk(t), NEW i, NEW l \in Nat, Moves(i, l),
         \A k \in Nat, x \in Message : Waits(k, x)' /\ x.s = t /\ ~Quiet(x) => Waits(k, x),
         UNCHANGED <<mServices, calls, bound>>,
         \A c \in Connections : bound[c] = t => (c \in connected' <=> c \in connected),
         Served(t)'
  PROVE  Talk(t)'
<1>1. \A x \in Message : x.s = t /\ Open(x) => Open(x)'
  <2>1. calls' \in Seq(Call) /\ bound' = bound /\ calls' = calls
    BY DEF Kinds
  <2>2. \A c \in Connections : bound[c] = t /\ c \notin connected => bound'[c] = t /\ c \notin connected'
    BY <2>1
  <2> QED BY <2>1, <2>2, OpenStays
<1>2. \A c \in connected' : bound'[c] = t => c \in connected /\ bound[c] = t
  BY DEF Kinds
<1>3. \A j \in Instance, k \in Nat, x \in Message :
        Has(j, k, x)' /\ x.s = t /\ x.op \in {"create", "start", "bind", "stop"} =>
          \/ Has(j, IF j = i THEN k + l ELSE k, x)
          \/ x.op = "stop" /\ x.id = 0 /\ (~Recorded(t, j) \/ ~Creating(j, t))
  BY DEF Moves
<1>4. \A k \in Nat, x \in Message : Waits(k, x)' /\ x.s = t /\ ~Quiet(x) => Waits(k + 0, x)
  OBVIOUS
<1>5. 0 \in Nat /\ mServices'[t] = mServices[t]
  OBVIOUS
<1> QED BY <1>1, <1>2, <1>3, <1>4, <1>5, Frame

\* A message that is taken leaves a service served that it does not create.
LEMMA RemovesServed ==
  ASSUME NEW t \in Services, Served(t), NEW i, NEW l \in Nat, NEW m, Removes(i, l, m),
         ~Is(m, "create", t), UNCHANGED mServices,
         \A j \in Instance : Recorded(t, j) /\ t \in process[j].services => t \in process'[j].services
  PROVE  Served(t)'
<1>1. \A j \in Instance : Recorded(t, j)' => Recorded(t, j)
  BY DEF Recorded
<1>2. \A j \in Instance, k \in Nat, x \in Message :
        Recorded(t, j) /\ Has(j, k, x) /\ Is(x, "create", t) => \E n \in Nat : Has(j, n, x)'
  BY DEF Removes
<1>3. ASSUME NEW j \in Instance, NEW k \in Nat, NEW x \in Message, Has(j, k, x)' PROVE \E n \in Nat : Has(j, n, x)
  <2>1. Has(j, IF j = i THEN k + l ELSE k, x) /\ (IF j = i THEN k + l ELSE k) \in Nat
    BY <1>3 DEF Removes
  <2> QED BY <2>1
<1> QED BY <1>1, <1>2, <1>3, ServedStays

\* A message that is kept leaves services served.
LEMMA KeepsServed ==
  ASSUME NEW t \in Services, Served(t), NEW i, NEW l \in Nat, Keeps(i, l), SameServices, UNCHANGED mServices
  PROVE  Served(t)'
<1>1. \A j \in Instance : Recorded(t, j)' => Recorded(t, j)
  BY DEF Recorded
<1>2. \A j \in Instance, k \in Nat, x \in Message :
        Recorded(t, j) /\ Has(j, k, x) /\ Is(x, "create", t) => \E n \in Nat : Has(j, n, x)'
  BY DEF Keeps
<1>3. ASSUME NEW j \in Instance, NEW k \in Nat, NEW x \in Message, Has(j, k, x)' PROVE \E n \in Nat : Has(j, n, x)
  <2>1. Has(j, IF j = i THEN k + l ELSE k, x) /\ (IF j = i THEN k + l ELSE k) \in Nat
    BY <1>3 DEF Keeps
  <2> QED BY <2>1
<1>4. \A j \in Instance : Recorded(t, j) /\ t \in process[j].services => t \in process'[j].services
  BY DEF SameServices
<1> QED BY <1>1, <1>2, <1>3, <1>4, ServedStays

\* When the first part of a request has been dealt with, what is left is what it was created for.
LEMMA LastPart ==
  ASSUME NEW s \in Services, Order(s), NEW i \in Instance, NEW l \in Nat, NEW m \in Message, Removes(i, l, m),
         Token(m, s), NEW j \in Instance, NEW k \in Nat, NEW x \in Message, Has(j, k, x)', Token(x, s)
  PROVE  m.op = "create" /\ x.op \in {"start", "bind"}
<1>1. Has(i, l, m) /\ Has(j, IF j = i THEN k + l ELSE k, x) /\ (j = i => k >= 1)
  BY DEF Removes
<1>2. PICK n \in Nat : n = IF j = i THEN k + l ELSE k
  OBVIOUS
<1>3. i = j /\ (l < n => m.op = "create" /\ x.op \in {"start", "bind"})
  BY <1>1, <1>2 DEF Order
<1>4. l < n
  BY <1>1, <1>2, <1>3
<1> QED BY <1>3, <1>4

\* A process answers a request for s.
LEMMA AnswerTalk ==
  ASSUME NEW s \in Services, Talk(s), NEW i \in Instance, NEW l \in Nat, NEW m \in Message,
         Removes(i, l, m), Token(m, s), m.op \in {"start", "stop"},
         NEW r \in Message, Is(r, "result", s), r.id = m.id, NEW b \in Nat, Gets(b, r),
         UNCHANGED <<mServices, calls, bound, connected>>, Served(s)'
  PROVE  Talk(s)'
<1>1. Has(i, l, m) /\ Open(m) /\ ~Requested(s) /\ m.s = s
  BY DEF Removes, Talk, TokensOpen, Token
<1>2. /\ \A k \in Nat, x \in Message : Waits(k, x) => k <= b
      /\ \A k \in Nat, x \in Message : Waits(k, x)' => Waits(k, x) \/ (k = b + 1 /\ x = r)
  BY DEF Gets
<1>3. Calm(s)'
  <2>1. SUFFICES ASSUME NEW j \in Instance, NEW k \in Nat, NEW x \in Message, Has(j, k, x)', Token(x, s) PROVE FALSE
    BY DEF Calm
  <2>2. Order(s)
    BY DEF Talk
  <2> QED BY <2>1, <2>2, LastPart
<1>4. ~Requested(s)'
  <2>1. \A k \in Nat, x \in Message : Waits(k, x)' /\ Asks(x, s) => Waits(k, x)
    BY <1>2 DEF Asks, Is
  <2> QED BY <1>1, <2>1 DEF Requested
<1>5. RequestsLast(s)'
  BY <1>4 DEF RequestsLast, Requested
<1>6. \A k \in Nat, x \in Message : Waits(k, x) => ~Is(x, "result", s)
  BY <1>1 DEF Talk, ResultsLast
<1>7. \A x \in Message : Open(x)' <=> Open(x)
  BY DEF Open, Unanswered
<1>8. ResultsLast(s)'
  <2>1. SUFFICES ASSUME NEW k \in Nat, NEW x \in Message, Waits(k, x)', Is(x, "result", s)
                 PROVE  /\ Open(x)' /\ ~Requested(s)'
                        /\ \A j \in Instance, n \in Nat, y \in Message : Has(j, n, y)' => ~Token(y, s)
                        /\ \A n \in Nat, y \in Message :
                             Waits(n, y)' /\ y.s = s /\ y.op \in {"result", "notCreated"} => n <= k
    BY DEF ResultsLast
  <2>2. k = b + 1 /\ x = r
    BY <1>2, <1>6, <2>1
  <2>3. Open(r)
    BY <1>1 DEF Open, Is
  <2>4. \A n \in Nat, y \in Message : Waits(n, y)' => n <= k
    BY <1>2, <2>2
  <2> QED BY <1>3, <1>4, <1>7, <2>2, <2>3, <2>4 DEF Calm
<1>9. Failures(s)'
  <2>1. SUFFICES ASSUME NEW k \in Nat, NEW x \in Message, Waits(k, x)', Is(x, "notCreated", s)
                 PROVE  Open(x)' /\ ~Requested(s)' /\ s \notin Enabled /\ \A j \in Instance : ~Creating(j, s)'
    BY DEF Failures
  <2>2. Waits(k, x)
    BY <1>2, <2>1 DEF Is
  <2>3. Open(x) /\ s \notin Enabled
    BY <2>1, <2>2 DEF Talk, Failures
  <2>4. \A j \in Instance : ~Creating(j, s)'
    BY <1>3 DEF Calm, Creating, Token, Is
  <2> QED BY <1>4, <1>7, <2>3, <2>4
<1>10. \A c \in connected' : bound'[c] = s =>
         s \in Enabled /\ mServices'[s] # None /\ c \in mServices'[s].conns
  BY DEF Talk, Known
<1> QED BY <1>3, <1>5, <1>8, <1>9, <1>10, CalmTalk

\* A process cannot create s.
LEMMA FailTalk ==
  ASSUME NEW s \in Services, Talk(s), NEW i \in Instance, NEW l \in Nat, NEW m \in Message,
         Removes(i, l, m), Is(m, "create", s), s \notin Enabled,
         NEW r \in Message, Is(r, "notCreated", s), NEW b \in Nat, Gets(b, r),
         UNCHANGED <<mServices, calls, bound, connected>>
  PROVE  Talk(s)'
<1>0. Token(m, s)
  BY DEF Is, Token
<1>1. Has(i, l, m) /\ Open(m) /\ ~Requested(s) /\ m.s = s /\ Order(s) /\ Creating(i, s)
  BY <1>0 DEF Removes, Talk, TokensOpen, Token, Creating
<1>2. \A k \in Nat, x \in Message : Waits(k, x)' => Waits(k, x) \/ (k = b + 1 /\ x = r)
  BY DEF Gets
<1>3. ~Requested(s)'
  <2>1. \A k \in Nat, x \in Message : Waits(k, x)' /\ Asks(x, s) => Waits(k, x)
    BY <1>2 DEF Asks, Is
  <2> QED BY <1>1, <2>1 DEF Requested
<1>4. \A x \in Message : Open(x)' <=> Open(x)
  BY DEF Open, Unanswered
<1>5. \A j \in Instance : ~Creating(j, s)'
  <2>1. SUFFICES ASSUME NEW j \in Instance, NEW k \in Nat, NEW x \in Message, Has(j, k, x)', Is(x, "create", s) PROVE FALSE
    BY DEF Creating
  <2>2. Token(x, s) /\ x.op = "create"
    BY <2>1 DEF Token, Is
  <2> QED BY <1>0, <1>1, <2>1, <2>2, LastPart
<1>6. \A j \in Instance, k \in Nat, x \in Message :
        Has(j, k, x)' => Has(j, IF j = i THEN k + l ELSE k, x) /\ (IF j = i THEN k + l ELSE k) \in Nat
  BY DEF Removes
<1>7. TokensOpen(s)'
  BY <1>3, <1>4, <1>6 DEF Talk, TokensOpen
<1>8. RequestsLast(s)'
  BY <1>3 DEF RequestsLast, Requested
<1>9. ResultsLast(s)'
  <2>1. \A k \in Nat, x \in Message : Waits(k, x) => ~Is(x, "result", s)
    BY <1>0, <1>1 DEF Talk, ResultsLast
  <2>2. ~Is(r, "result", s)
    BY DEF Is
  <2> QED BY <1>2, <2>1, <2>2 DEF ResultsLast
<1>10. Failures(s)'
  <2>1. SUFFICES ASSUME NEW k \in Nat, NEW x \in Message, Waits(k, x)', Is(x, "notCreated", s) PROVE Open(x)'
    BY <1>3, <1>5 DEF Failures
  <2>2. Unanswered(s)
    BY <1>1 DEF Open, Is
  <2> QED BY <1>4, <2>1, <2>2 DEF Open, Is
<1>11. Order(s)'
  <2>1. SUFFICES ASSUME NEW j \in Instance, NEW h \in Instance, NEW k \in Nat, NEW n \in Nat,
                        NEW x \in Message, NEW y \in Message,
                        Has(j, k, x)', Has(h, n, y)', Token(x, s), Token(y, s)
                 PROVE  j = h /\ (k < n => x.op = "create" /\ y.op \in {"start", "bind"})
    BY DEF Order
  <2>2. PICK kk \in Nat : kk = IF j = i THEN k + l ELSE k
    OBVIOUS
  <2>3. PICK nn \in Nat : nn = IF h = i THEN n + l ELSE n
    OBVIOUS
  <2>4. Has(j, kk, x) /\ Has(h, nn, y)
    BY <1>6, <2>1, <2>2, <2>3
  <2>5. j = h /\ (kk < nn => x.op = "create" /\ y.op \in {"start", "bind"})
    BY <1>1, <2>1, <2>4 DEF Order
  <2> QED BY <2>2, <2>3, <2>5
<1>12. StopsFirst(s)' /\ CreatedHere(s)'
  BY <1>5 DEF StopsFirst, CreatedHere, Creating
<1>13. Served(s)'
  BY DEF Served
<1>14. Known(s)'
  BY DEF Talk, Known
<1> QED BY <1>7, <1>8, <1>9, <1>10, <1>11, <1>12, <1>13, <1>14 DEF Talk

\* What processes are after a step of process i.
LEMMA BooksWork ==
  ASSUME EndsEmpty, Blank, NEW i, NEW l \in Nat, Moves(i, l), UNCHANGED <<instances, timedOut>>,
         \A j \in Instance : process'[j].state = process[j].state,
         \A j \in Instance : process[j].state = "running" \/ process'[j].services \subseteq process[j].services
  PROVE  EndsEmpty' /\ Blank'
<1>1. EndsEmpty'
  <2>1. SUFFICES ASSUME NEW j \in Instance, process'[j].state \in {"quit", "ended"}
                 PROVE  process'[j].services = {} \/ j \in timedOut'
    BY DEF EndsEmpty
  <2>2. process[j].state # "running" /\ (process[j].services = {} \/ j \in timedOut)
    BY <2>1 DEF EndsEmpty
  <2> QED BY <2>2
<1>2. Blank'
  <2>1. SUFFICES ASSUME NEW j \in Instance, NEW k \in Nat, NEW x \in Message, Has(j, k, x)' PROVE j <= instances
    BY DEF Blank
  <2> QED BY <2>1 DEF Blank, Moves
<1> QED BY <1>1, <1>2

\* What the steps of processes leave alone.
WorkStill == UNCHANGED <<patient, mServices, instances, timedOut, calls, bound, connected>>

\* A step that answers nobody.
LEMMA SilentTalks ==
  ASSUME Inv, Inv', Talks, WorkStill, NEW i, NEW l \in Nat, Moves(i, l),
         \A j \in Instance : process'[j].state = process[j].state,
         \A j \in Instance : process[j].state = "running" \/ process'[j].services \subseteq process[j].services,
         \A k \in Nat, x \in Message : Waits(k, x)' /\ ~Quiet(x) => Waits(k, x),
         patient => \A t \in Services : Served(t)'
  PROVE  Talks'
<1> USE DEF Inv
<1> SUFFICES ASSUME patient PROVE Talks'
  BY DEF Talks, WorkStill
<1>1. /\ \A c \in connected : bound[c] # None
      /\ EndsEmpty /\ Blank /\ \A t \in Services : Talk(t)
  BY DEF Talks
<1>2. EndsEmpty' /\ Blank'
  BY <1>1, BooksWork DEF WorkStill
<1>3. ASSUME NEW t \in Services PROVE Talk(t)'
  BY <1>1, WorkFrame DEF WorkStill
<1>4. \A c \in connected' : bound'[c] # None
  BY <1>1 DEF WorkStill
<1> QED BY <1>2, <1>3, <1>4 DEF Talks

\* A step that answers a request.
LEMMA AnswerTalks ==
  ASSUME Inv, Inv', Talks, WorkStill, NEW i \in Instance, NEW l \in Nat, NEW m \in Message, Removes(i, l, m),
         m.op = "start" \/ (m.op = "stop" /\ m.id # 0),
         \A j \in Instance : process'[j].state = process[j].state,
         \A j \in Instance : process'[j].services \subseteq process[j].services,
         inbox' = Append(inbox, Msg("result", m.s, m.id, None)),
         patient => \A t \in Services : Served(t)'
  PROVE  Talks'
<1> USE DEF Inv
<1> SUFFICES ASSUME patient PROVE Talks'
  BY DEF Talks, WorkStill
<1>1. /\ \A c \in connected : bound[c] # None
      /\ EndsEmpty /\ Blank /\ \A t \in Services : Talk(t)
  BY DEF Talks
<1>2. PICK s \in Services : s = m.s
  BY DEF Message
<1>3. PICK r : r = Msg("result", m.s, m.id, None)
  OBVIOUS
<1>4. r \in Message /\ Is(r, "result", s) /\ r.id = m.id
  BY <1>2, <1>3 DEF Msg, Message, Op, Is
<1>5. PICK b \in Nat : Gets(b, r)
  BY <1>3, <1>4, GetsShape
<1>6. Token(m, s) /\ m.op \in {"start", "stop"}
  BY <1>2 DEF Token
<1>7. Moves(i, l)
  BY ShapesMove
<1>8. EndsEmpty' /\ Blank'
  BY <1>1, <1>7, BooksWork DEF WorkStill
<1>9. ASSUME NEW t \in Services PROVE Talk(t)'
  <2>1. CASE t = s
    <3>1. Talk(s) /\ Served(s)'
      BY <1>1
    <3>2. Talk(s)'
      BY <1>4, <1>5, <1>6, <3>1, AnswerTalk DEF WorkStill
    <3> QED BY <2>1, <3>2
  <2>2. CASE t # s
    <3>1. \A k \in Nat, x \in Message : Waits(k, x)' /\ x.s = t /\ ~Quiet(x) => Waits(k, x)
      BY <1>4, <1>5, <2>2 DEF Gets, Is
    <3> QED BY <1>1, <1>7, <3>1, WorkFrame DEF WorkStill
  <2> QED BY <2>1, <2>2
<1>10. \A c \in connected' : bound'[c] # None
  BY <1>1 DEF WorkStill
<1> QED BY <1>8, <1>9, <1>10 DEF Talks

\* A message is taken that creates no service.
LEMMA TakenServed ==
  ASSUME Talks, patient, NEW i, NEW l \in Nat, NEW m, Removes(i, l, m), m.op # "create", SameServices,
         UNCHANGED mServices
  PROVE  \A t \in Services : Served(t)'
<1>1. SUFFICES ASSUME NEW t \in Services PROVE Served(t)'
  OBVIOUS
<1>2. Served(t) /\ ~Is(m, "create", t)
  BY DEF Talks, Talk, Is
<1>3. \A j \in Instance : Recorded(t, j) /\ t \in process[j].services => t \in process'[j].services
  BY DEF SameServices
<1> QED BY <1>2, <1>3, RemovesServed

\* A message that is neither answered nor creates a service is taken.
LEMMA TakenTalks ==
  ASSUME Inv, Inv', Talks, WorkStill, NEW i \in Instance, NEW op, op # "create", Turn(i, op), process' = Taken(i),
         UNCHANGED inbox
  PROVE  Talks'
<1> USE DEF Inv
<1>1. PICK m : m = Head(process[i].queue)
  OBVIOUS
<1>2. m.op = op /\ Removes(i, 1, m) /\ SameServices
  BY <1>1, TakenShape
<1>3. patient => \A t \in Services : Served(t)'
  BY <1>2, TakenServed DEF WorkStill
<1>4. Moves(i, 1)
  BY <1>2, ShapesMove
<1>5. \A k \in Nat, x \in Message : Waits(k, x)' /\ ~Quiet(x) => Waits(k, x)
  BY SameShape
<1> QED BY <1>2, <1>3, <1>4, <1>5, SilentTalks DEF SameServices

\* A process starts to work on its first message.
LEMMA BusyTalks ==
  ASSUME Inv, Inv', Talks, WorkStill, NEW i \in Instance, NEW op, Turn(i, op), NEW m, m = Head(process[i].queue),
         process' = Busy(i, m), UNCHANGED inbox
  PROVE  Talks'
<1> USE DEF Inv
<1>1. Keeps(i, 1) /\ SameServices
  BY BusyShape
<1>2. patient => \A t \in Services : Served(t)'
  <2>1. SUFFICES ASSUME patient, NEW t \in Services PROVE Served(t)'
    OBVIOUS
  <2>2. Served(t)
    BY <2>1 DEF Talks, Talk
  <2> QED BY <1>1, <2>2, KeepsServed DEF WorkStill
<1>3. Moves(i, 1)
  BY <1>1, ShapesMove
<1>4. \A k \in Nat, x \in Message : Waits(k, x)' /\ ~Quiet(x) => Waits(k, x)
  BY SameShape
<1> QED BY <1>1, <1>2, <1>3, <1>4, SilentTalks DEF SameServices

\* A service is being created, or cannot be.
LEMMA CreateTalks ==
  ASSUME Inv, Inv', Talks, NEW i \in Instance, CreateService(i)
  PROVE  Talks'
<1> USE DEF Inv
<1>1. PICK m : m = Head(process[i].queue)
  OBVIOUS
<1>2. Turn(i, "create") /\ WorkStill
  BY DEF CreateService, WorkStill, managerVars, stopVars, clientVars
<1>3. CASE m.s \in Enabled
  <2>1. process' = Busy(i, m) /\ UNCHANGED inbox
    BY <1>1, <1>3 DEF CreateService
  <2> QED BY <1>1, <1>2, <2>1, BusyTalks
<1>4. CASE m.s \notin Enabled
  <2> SUFFICES ASSUME patient PROVE Talks'
    BY <1>2 DEF Talks, WorkStill
  <2>1. process' = Taken(i) /\ inbox' = Append(inbox, Msg("notCreated", m.s, 0, None))
    BY <1>1, <1>4 DEF CreateService
  <2>2. m \in Message /\ m.op = "create" /\ Removes(i, 1, m) /\ SameServices
    BY <1>1, <1>2, <2>1, TakenShape
  <2>3. /\ \A c \in connected : bound[c] # None
        /\ EndsEmpty /\ Blank /\ \A t \in Services : Talk(t)
    BY DEF Talks
  <2>4. PICK s \in Services : s = m.s
    BY <2>2 DEF Message
  <2>5. PICK r : r = Msg("notCreated", m.s, 0, None)
    OBVIOUS
  <2>6. r \in Message /\ Is(r, "notCreated", s)
    BY <2>4, <2>5, ServiceManagerAssumption DEF Msg, Message, Op, Is
  <2>7. PICK b \in Nat : Gets(b, r)
    BY <2>1, <2>5, <2>6, GetsShape
  <2>8. Moves(i, 1)
    BY <2>2, ShapesMove
  <2>9. EndsEmpty' /\ Blank'
    BY <1>2, <2>2, <2>3, <2>8, BooksWork DEF WorkStill, SameServices
  <2>10. ASSUME NEW t \in Services PROVE Talk(t)'
    <3>1. CASE t = s
      <4>1. Talk(s) /\ Is(m, "create", s) /\ s \notin Enabled
        BY <1>4, <2>2, <2>3, <2>4 DEF Is
      <4>2. Talk(s)'
        BY <1>2, <2>2, <2>6, <2>7, <4>1, FailTalk DEF WorkStill
      <4> QED BY <3>1, <4>2
    <3>2. CASE t # s
      <4>1. \A k \in Nat, x \in Message : Waits(k, x)' /\ x.s = t /\ ~Quiet(x) => Waits(k, x)
        BY <2>6, <2>7, <3>2 DEF Gets, Is
      <4>2. Talk(t) /\ Served(t) /\ ~Is(m, "create", t)
        BY <2>3, <2>4, <3>2 DEF Talk, Is
      <4>3. \A j \in Instance : Recorded(t, j) /\ t \in process[j].services => t \in process'[j].services
        BY <2>2 DEF SameServices
      <4>4. Served(t)'
        BY <1>2, <2>2, <4>2, <4>3, RemovesServed DEF WorkStill
      <4> QED BY <1>2, <2>8, <4>1, <4>2, <4>4, WorkFrame DEF WorkStill
    <3> QED BY <3>1, <3>2
  <2>11. \A c \in connected' : bound'[c] # None
    BY <1>2, <2>3 DEF WorkStill
  <2> QED BY <2>9, <2>10, <2>11 DEF Talks
<1> QED BY <1>3, <1>4

\* A service has been created, and its record is still there.
LEMMA OnCreatedTalks ==
  ASSUME Inv, Inv', Talks, NEW i \in Instance, OnCreated(i)
  PROVE  Talks'
<1> USE DEF Inv
<1>1. PICK m : m = process[i].busy
  OBVIOUS
<1>2. PICK S : S = process[i].services \cup {m.s}
  OBVIOUS
<1>3. /\ m # None /\ m.op = "create" /\ WorkStill
      /\ process' = [process EXCEPT ![i].busy = None, ![i].services = S]
      /\ inbox' = Append(inbox, Msg("created", m.s, 0, None))
  <2>1. process \in [Instance -> Proc]
    BY DEF Kinds
  <2> QED BY <1>1, <1>2, <2>1 DEF OnCreated, WorkStill, managerVars, stopVars, clientVars
<1>4. /\ m \in Message /\ Removes(i, 0, m)
      /\ \A j \in Instance : process'[j].state = process[j].state
      /\ \A j \in Instance : process'[j].services = IF j = i THEN S ELSE process[j].services
  <2>1. Finishes(i, m, S)
    <3> DEFINE p == [process[i] EXCEPT !.busy = None, !.services = S]
    <3>1. process' = [process EXCEPT ![i] = p]
      BY <1>3 DEF Kinds
    <3>2. p.busy = None /\ p.queue = process[i].queue /\ p.services = S /\ p.state = process[i].state
      BY DEF Kinds, Proc
    <3>3. m # None
      BY <1>3
    <3> HIDE DEF p
    <3> QED BY <1>1, <3>1, <3>2, <3>3 DEF Finishes
  <2> QED BY <2>1, DoneShape
<1>5. PICK s \in Services : s = m.s
  BY <1>4 DEF Message
<1>6. PICK r : r = Msg("created", m.s, 0, None)
  OBVIOUS
<1>7. r \in Message /\ r.op = "created"
  BY <1>5, <1>6, ServiceManagerAssumption DEF Msg, Message, Op
<1>8. PICK b \in Nat : Gets(b, r)
  BY <1>3, <1>6, <1>7, GetsShape
<1>9. \A k \in Nat, x \in Message : Waits(k, x)' /\ ~Quiet(x) => Waits(k, x)
  BY <1>7, <1>8 DEF Gets, Quiet
<1>10. Moves(i, 0)
  BY <1>4, ShapesMove
<1> SUFFICES ASSUME patient PROVE Talks'
  BY <1>3 DEF Talks, WorkStill
<1>11. \A t \in Services : Talk(t)
  BY DEF Talks
<1>12. Has(i, 0, m) /\ Is(m, "create", s)
  BY <1>3, <1>4, <1>5 DEF Removes, Is
<1>13. Recorded(s, i) /\ process[i].state = "running"
  <2>1. Recorded(s, i)
    BY <1>4, <1>11, <1>12 DEF Talk, CreatedHere
  <2> QED BY <2>1, RecordedRuns
<1>14. ASSUME NEW t \in Services PROVE Served(t)'
  <2>1. CASE t = s
    <3>1. ASSUME NEW k \in Nat, NEW x \in Message, Has(i, k, x)', Is(x, "stop", s) PROVE FALSE
      <4>1. Has(i, k, x)
        <5>1. Has(i, k + 0, x) /\ k + 0 = k
          BY <1>4, <3>1 DEF Removes
        <5> QED BY <5>1
      <4>2. StopsFirst(s)
        BY <1>11 DEF Talk
      <4>3. k < 0
        BY <1>4, <1>12, <3>1, <4>1, <4>2 DEF StopsFirst
      <4> QED BY <4>3
    <3>2. ~Destroying(i, s)'
      BY <3>1 DEF Destroying
    <3>3. s \in process'[i].services
      BY <1>2, <1>4, <1>5
    <3>4. \A j \in Instance : Recorded(s, j)' => j = i
      BY <1>3, <1>13 DEF Recorded, WorkStill
    <3>5. Served(s)'
      BY <3>2, <3>3, <3>4 DEF Served
    <3> QED BY <2>1, <3>5
  <2>2. CASE t # s
    <3>1. Served(t) /\ ~Is(m, "create", t)
      BY <1>5, <1>11, <2>2 DEF Talk, Is
    <3>2. \A j \in Instance : Recorded(t, j) /\ t \in process[j].services => t \in process'[j].services
      BY <1>2, <1>4
    <3> QED BY <1>3, <1>4, <3>1, <3>2, RemovesServed DEF WorkStill
  <2> QED BY <2>1, <2>2
<1>15. \A j \in Instance : process[j].state = "running" \/ process'[j].services \subseteq process[j].services
  BY <1>4, <1>13
<1> QED BY <1>3, <1>4, <1>9, <1>10, <1>14, <1>15, SilentTalks

\* onStartCommand has been called, the client gets its answer.
LEMMA StartCommandTalks ==
  ASSUME Inv, Inv', Talks, NEW i \in Instance, OnStartCommand(i)
  PROVE  Talks'
<1> USE DEF Inv
<1>1. PICK m : m = Head(process[i].queue)
  OBVIOUS
<1>2. /\ Turn(i, "start") /\ WorkStill /\ process' = Taken(i)
      /\ inbox' = Append(inbox, Msg("result", m.s, m.id, None))
  BY <1>1 DEF OnStartCommand, WorkStill, managerVars, stopVars
<1>3. m \in Message /\ m.op = "start" /\ Removes(i, 1, m) /\ SameServices
  BY <1>1, <1>2, TakenShape
<1>4. patient => \A t \in Services : Served(t)'
  BY <1>2, <1>3, TakenServed DEF WorkStill
<1> QED BY <1>2, <1>3, <1>4, AnswerTalks DEF SameServices

\* A service is being destroyed, or is not there.
LEMMA DestroyTalks ==
  ASSUME Inv, Inv', Talks, NEW i \in Instance, DestroyService(i)
  PROVE  Talks'
<1> USE DEF Inv
<1>1. PICK m : m = Head(process[i].queue)
  OBVIOUS
<1>2. Turn(i, "stop") /\ WorkStill
  BY DEF DestroyService, WorkStill, managerVars, stopVars, clientVars
<1>3. CASE process' = Busy(i, m) /\ UNCHANGED inbox
  BY <1>1, <1>2, <1>3, BusyTalks
<1>4. CASE process' = Taken(i) /\ inbox' = IF m.id = 0 THEN inbox ELSE Append(inbox, Msg("result", m.s, m.id, None))
  <2>1. CASE m.id = 0
    <3>1. UNCHANGED inbox
      BY <1>4, <2>1
    <3> QED BY <1>2, <1>4, <3>1, TakenTalks
  <2>2. CASE m.id # 0
    <3>1. m \in Message /\ m.op = "stop" /\ Removes(i, 1, m) /\ SameServices
      BY <1>1, <1>2, <1>4, TakenShape
    <3>2. patient => \A t \in Services : Served(t)'
      BY <1>2, <3>1, TakenServed DEF WorkStill
    <3>3. inbox' = Append(inbox, Msg("result", m.s, m.id, None))
      BY <1>4, <2>2
    <3> QED BY <1>2, <2>2, <3>1, <3>2, <3>3, AnswerTalks DEF SameServices
  <2> QED BY <2>1, <2>2
<1> QED BY <1>1, <1>3, <1>4 DEF DestroyService

\* A service has been destroyed; a record of it has another object created.
LEMMA OnDestroyedTalks ==
  ASSUME Inv, Inv', Talks, NEW i \in Instance, OnDestroyed(i)
  PROVE  Talks'
<1> USE DEF Inv
<1>1. PICK m : m = process[i].busy
  OBVIOUS
<1>2. PICK S : S = process[i].services \ {m.s}
  OBVIOUS
<1>3. /\ m # None /\ m.op = "stop" /\ WorkStill
      /\ process' = [process EXCEPT ![i].busy = None, ![i].services = S]
      /\ inbox' = IF m.id = 0 THEN inbox ELSE Append(inbox, Msg("result", m.s, m.id, None))
  <2>1. process \in [Instance -> Proc]
    BY DEF Kinds
  <2> QED BY <1>1, <1>2, <2>1 DEF OnDestroyed, WorkStill, managerVars, stopVars, clientVars
<1>4. /\ m \in Message /\ Removes(i, 0, m)
      /\ \A j \in Instance : process'[j].state = process[j].state
      /\ \A j \in Instance : process'[j].services = IF j = i THEN S ELSE process[j].services
  <2>1. Finishes(i, m, S)
    <3> DEFINE p == [process[i] EXCEPT !.busy = None, !.services = S]
    <3>1. process' = [process EXCEPT ![i] = p]
      BY <1>3 DEF Kinds
    <3>2. p.busy = None /\ p.queue = process[i].queue /\ p.services = S /\ p.state = process[i].state
      BY DEF Kinds, Proc
    <3>3. m # None
      BY <1>3
    <3> HIDE DEF p
    <3> QED BY <1>1, <3>1, <3>2, <3>3 DEF Finishes
  <2> QED BY <2>1, DoneShape
<1>5. PICK s \in Services : s = m.s
  BY <1>4 DEF Message
<1>6. \A j \in Instance : process'[j].services \subseteq process[j].services
  BY <1>2, <1>4
<1>7. ASSUME patient, NEW t \in Services PROVE Served(t)'
  <2>1. Served(t) /\ ~Is(m, "create", t)
    BY <1>3, <1>7 DEF Talks, Talk, Is
  <2>2. CASE t = s
    <3>1. SUFFICES ASSUME NEW j \in Instance, Recorded(s, j)', s \in Enabled
                   PROVE  Creating(j, s)' \/ (s \in process'[j].services /\ ~Destroying(j, s)')
      BY <2>2 DEF Served
    <3>2. Recorded(s, j)
      BY <1>3, <3>1 DEF Recorded, WorkStill
    <3>3. CASE j = i
      <4>1. Destroying(i, s)
        BY <1>3, <1>4, <1>5 DEF Removes, Destroying, Is
      <4>2. PICK k \in Nat, x \in Message : Has(i, k, x) /\ Is(x, "create", s)
        BY <2>1, <2>2, <3>1, <3>2, <3>3, <4>1 DEF Served, Creating
      <4>3. PICK n \in Nat : Has(i, n, x)'
        <5>1. x # m
          BY <1>3, <4>2 DEF Is
        <5> QED BY <1>4, <4>2, <5>1 DEF Removes
      <4> QED BY <3>3, <4>2, <4>3 DEF Creating
    <3>4. CASE j # i
      <4>1. \A k \in Nat, x \in Message : Has(j, k, x)' => Has(j, k, x)
        BY <1>4, <3>4 DEF Removes
      <4>2. \A k \in Nat, x \in Message : Has(j, k, x) => \E n \in Nat : Has(j, n, x)'
        BY <1>4, <3>4 DEF Removes
      <4>3. Creating(j, s) \/ (s \in process[j].services /\ ~Destroying(j, s))
        BY <2>1, <2>2, <3>1, <3>2 DEF Served
      <4>4. Destroying(j, s)' => Destroying(j, s)
        BY <4>1 DEF Destroying
      <4>5. Creating(j, s) => Creating(j, s)'
        <5>1. SUFFICES ASSUME NEW k \in Nat, NEW x \in Message, Has(j, k, x), Is(x, "create", s) PROVE Creating(j, s)'
          BY DEF Creating
        <5>2. PICK n \in Nat : Has(j, n, x)'
          BY <4>2, <5>1
        <5> QED BY <5>1, <5>2 DEF Creating
      <4>6. process'[j].services = process[j].services
        BY <1>4, <3>4
      <4> QED BY <4>3, <4>4, <4>5, <4>6
    <3> QED BY <3>3, <3>4
  <2>3. CASE t # s
    <3>1. \A j \in Instance : Recorded(t, j) /\ t \in process[j].services => t \in process'[j].services
      BY <1>2, <1>4, <1>5, <2>3
    <3> QED BY <1>3, <1>4, <2>1, <3>1, RemovesServed DEF WorkStill
  <2> QED BY <2>2, <2>3
<1>8. CASE m.id = 0
  <2>1. inbox' = inbox
    BY <1>3, <1>8
  <2>2. \A k \in Nat, x \in Message : Waits(k, x)' /\ ~Quiet(x) => Waits(k, x)
    BY <2>1, SameShape
  <2>3. Moves(i, 0)
    BY <1>4, ShapesMove
  <2> QED BY <1>3, <1>4, <1>6, <1>7, <2>2, <2>3, SilentTalks
<1>9. CASE m.id # 0
  <2>1. inbox' = Append(inbox, Msg("result", m.s, m.id, None))
    BY <1>3, <1>9
  <2> QED BY <1>3, <1>4, <1>6, <1>7, <1>9, <2>1, AnswerTalks
<1> QED BY <1>8, <1>9

\* The main thread of a process ends.
LEMMA EndsTalks ==
  ASSUME Inv, Inv', Talks, NEW i \in Instance, Ends(i)
  PROVE  Talks'
<1> USE DEF Inv
<1>1. /\ process[i].state = "quit" /\ UNCHANGED inbox /\ WorkStill
      /\ process' = [process EXCEPT ![i].state = "ended"]
  BY DEF Ends, WorkStill, managerVars, stopVars, clientVars
<1> SUFFICES ASSUME patient PROVE Talks'
  BY <1>1 DEF Talks, WorkStill
<1>2. PICK p : p = [process[i] EXCEPT !.state = "ended"]
  OBVIOUS
<1>3. process[i] \in Proc
  BY DEF Kinds
<1>4. p.queue = process[i].queue /\ p.busy = process[i].busy /\ p.services = process[i].services
  BY <1>2, <1>3 DEF Proc
<1>5. process' = [process EXCEPT ![i] = p]
  BY <1>1, <1>2
<1>6. /\ process'[i] = p
      /\ \A j \in Instance : j # i => process'[j] = process[j]
      /\ \A j \in Instance, k \in Nat, x \in Message : j # i => (Has(j, k, x)' <=> Has(j, k, x))
      /\ \A k \in Nat, x \in Message : Has(i, k, x)' <=> k \in Place(p) /\ Item(p, k) = x
  BY <1>5, OthersKeep
<1>7. \A j \in Instance, k \in Nat, x \in Message : Has(j, k, x)' <=> Has(j, k, x)
  <2>1. \A k \in Nat, x \in Message : k \in Place(p) /\ Item(p, k) = x <=> Has(i, k, x)
    BY <1>4 DEF Has, Place, Item
  <2> QED BY <1>6, <2>1
<1>8. \A j \in Instance : process'[j].services = process[j].services
  BY <1>4, <1>6
<1>9. /\ \A c \in connected : bound[c] # None
      /\ EndsEmpty /\ Blank /\ \A t \in Services : Talk(t)
  BY DEF Talks
<1>10. EndsEmpty' /\ Blank'
  <2>1. EndsEmpty'
    <3>1. SUFFICES ASSUME NEW j \in Instance, process'[j].state \in {"quit", "ended"}
                   PROVE  process'[j].services = {} \/ j \in timedOut'
      BY DEF EndsEmpty
    <3>2. process[j].state \in {"quit", "ended"}
      <4>1. CASE j = i
        BY <1>1, <4>1
      <4>2. CASE j # i
        <5>1. process'[j] = process[j]
          BY <1>6, <4>2
        <5> QED BY <3>1, <5>1
      <4> QED BY <4>1, <4>2
    <3>3. process[j].services = {} \/ j \in timedOut
      BY <1>9, <3>2 DEF EndsEmpty
    <3> QED BY <1>1, <1>8, <3>3 DEF WorkStill
  <2>2. Blank'
    BY <1>1, <1>7, <1>9 DEF Blank, WorkStill
  <2> QED BY <2>1, <2>2
<1>11. Moves(0, 0)
  <2>1. \A j \in Instance, k \in Nat : (IF j = 0 THEN k + 0 ELSE k) = k
    OBVIOUS
  <2> QED BY <1>7, <2>1 DEF Moves
<1>12. ASSUME NEW t \in Services PROVE Talk(t)'
  <2>1. Talk(t) /\ Served(t)
    BY <1>9 DEF Talk
  <2>2. Served(t)'
    BY <1>1, <1>7, <1>8, <2>1, ServedStays DEF WorkStill, Recorded
  <2>3. \A k \in Nat, x \in Message : Waits(k, x)' /\ x.s = t /\ ~Quiet(x) => Waits(k, x)
    BY <1>1, SameShape
  <2>4. 0 \in Nat
    OBVIOUS
  <2> QED BY <1>1, <1>11, <2>1, <2>2, <2>3, <2>4, WorkFrame DEF WorkStill
<1>13. \A c \in connected' : bound'[c] # None
  BY <1>1, <1>9 DEF WorkStill
<1> QED BY <1>10, <1>12, <1>13 DEF Talks

\* The threads of the processes keep what is on its way in order.
LEMMA WorkTalks ==
  ASSUME Inv, Inv', Talks, NEW i \in Instance, Work(i)
  PROVE  Talks'
<1>1. CASE OnUnbind(i)
  <2>1. Turn(i, "unbind") /\ process' = Taken(i) /\ UNCHANGED inbox /\ WorkStill
    BY <1>1 DEF OnUnbind, WorkStill, managerVars, stopVars, clientVars
  <2> QED BY <2>1, TakenTalks
<1>2. CASE OnBind(i)
  <2>1. Turn(i, "bind") /\ process' = Taken(i) /\ UNCHANGED inbox /\ WorkStill
    BY <1>2 DEF OnBind, WorkStill, managerVars, stopVars
  <2> QED BY <2>1, TakenTalks
<1> QED BY <1>1, <1>2, CreateTalks, OnCreatedTalks, StartCommandTalks, DestroyTalks, OnDestroyedTalks,
           EndsTalks DEF Work

(***************************************************************************)
(* What the process manager does.                                          *)
(***************************************************************************)
\* Process i, which has no service on record, gets messages that stop services, or drops its own.
Ending(i) ==
  /\ \A j \in Instance : j # i => process'[j] = process[j]
  /\ \A k \in Nat, x \in Message : Has(i, k, x)' => Has(i, k, x) \/ (x.op = "stop" /\ x.id = 0)

\* Nobody talks to a process that is being stopped.
LEMMA EndingTalk ==
  ASSUME Inv, NEW t \in Services, Talk(t), NEW i \in Instance, i \in Range(stopping), Ending(i),
         UNCHANGED <<mServices, inbox, calls, bound, connected>>
  PROVE  Talk(t)'
<1>1. \A j : Recorded(t, j) => j \in Instance /\ j # i
  BY RecordedRuns
<1>2. \A j \in Instance, k \in Nat, x \in Message : j # i => (Has(j, k, x)' <=> Has(j, k, x))
  BY DEF Ending, Has
<1>3. Served(t)'
  <2>1. Served(t)
    BY DEF Talk
  <2>2. \A j \in Instance : Recorded(t, j)' => Recorded(t, j)
    BY DEF Recorded
  <2>3. \A j \in Instance, k \in Nat, x \in Message : Recorded(t, j) => (Has(j, k, x)' <=> Has(j, k, x))
    BY <1>1, <1>2
  <2>4. \A j \in Instance : Recorded(t, j) /\ t \in process[j].services => t \in process'[j].services
    BY <1>1 DEF Ending
  <2> QED BY <2>1, <2>2, <2>3, <2>4, ServedStays
<1>4. \A x \in Message : x.s = t /\ Open(x) => Open(x)'
  BY DEF Open, Unanswered
<1>5. \A j \in Instance, k \in Nat : (IF j = 0 THEN k + 0 ELSE k) = k
  OBVIOUS
<1>6. \A j \in Instance, k \in Nat, x \in Message :
        Has(j, k, x)' /\ x.s = t /\ x.op \in {"create", "start", "bind", "stop"} =>
          \/ Has(j, IF j = 0 THEN k + 0 ELSE k, x)
          \/ x.op = "stop" /\ x.id = 0 /\ (~Recorded(t, j) \/ ~Creating(j, t))
  BY <1>1, <1>2, <1>5 DEF Ending
<1>7. \A k \in Nat, x \in Message : Waits(k, x)' /\ x.s = t /\ ~Quiet(x) => Waits(k + 0, x)
  BY DEF Waits
<1>8. 0 \in Nat /\ mServices'[t] = mServices[t]
  OBVIOUS
<1>9. \A c \in connected' : bound'[c] = t => c \in connected /\ bound[c] = t
  OBVIOUS
<1> QED BY <1>3, <1>4, <1>6, <1>7, <1>8, <1>9, Frame

\* The looper of a process quits.
LEMMA QuitShape ==
  ASSUME Kinds, NEW i \in Instance, process' = Quit(i)
  PROVE  /\ Ending(i)
         /\ process'[i].state = "quit" /\ process'[i].services = process[i].services
         /\ \A k \in Nat, x \in Message : Has(i, k, x)' => Has(i, k, x)
<1> DEFINE p == [process[i] EXCEPT !.state = "quit", !.queue = <<>>]
<1>1. process' = [process EXCEPT ![i] = p]
  BY DEF Kinds, Quit
<1>2. p.state = "quit" /\ p.queue = <<>> /\ p.busy = process[i].busy /\ p.services = process[i].services
  BY DEF Kinds, Proc
<1> HIDE DEF p
<1>3. /\ process'[i] = p
      /\ \A j \in Instance : j # i => process'[j] = process[j]
      /\ \A k \in Nat, x \in Message : Has(i, k, x)' <=> k \in Place(p) /\ Item(p, k) = x
  BY <1>1, OthersKeep
<1>4. ASSUME NEW k \in Nat, NEW x \in Message, Has(i, k, x)' PROVE Has(i, k, x)
  <2>1. k \in Place(p) /\ Item(p, k) = x
    BY <1>3, <1>4
  <2>2. k = 0 /\ process[i].busy # None /\ process[i].busy = x
    BY <1>2, <2>1, EmptySeq DEF Place, Item
  <2>3. Len(process[i].queue) \in Nat
    BY LenProperties DEF Kinds, Proc
  <2> QED BY <2>2, <2>3 DEF Has, Place, Item
<1> QED BY <1>2, <1>3, <1>4 DEF Ending

\* The process that stop() is at.
LEMMA FirstStopped ==
  ASSUME Inv, stopping # <<>>, NEW i, i = Head(stopping)
  PROVE  i \in Instance /\ i \in Range(stopping) /\ i <= instances
<1> USE DEF Inv
<1>1. stopping \in Seq(Instance)
  BY DEF Kinds
<1>2. /\ i \in Instance /\ i = stopping[1] /\ Len(stopping) \in Nat /\ Len(stopping) >= 1
      /\ DOMAIN stopping = 1 .. Len(stopping)
  BY <1>1, HeadTailProperties, LenProperties, EmptySeq
<1>3. i \in Range(stopping)
  BY <1>2 DEF Range
<1>4. i \in 1 .. instances
  BY <1>3 DEF Refers
<1> QED BY <1>2, <1>3, <1>4

\* stop() sends messages.
LEMMA StopMessagesShape ==
  ASSUME Kinds, NEW i \in Instance, NEW ms, ms = StopMessages(i)
  PROVE  /\ ms \in Seq(Message)
         /\ \A n \in 1 .. Len(ms) : ms[n].op = "stop" /\ ms[n].id = 0
<1>1. ms \in Seq(Message)
  BY StopMessagesFacts
<1>2. DOMAIN ms = 1 .. Len(ms)
  BY <1>1, LenProperties
<1>3. \A n \in DOMAIN ms : ms[n].op = "stop" /\ ms[n].id = 0
  BY DEF StopMessages, Msg
<1> QED BY <1>1, <1>2, <1>3

\* The thread of the process manager keeps what is on its way in order.
LEMMA StoppingTalks ==
  ASSUME Inv, Inv', Talks, Stop \/ Waited \/ TimedOut \/ Joined
  PROVE  Talks'
<1> USE DEF Inv
<1>1. UNCHANGED <<patient, mServices, instances, inbox, calls, bound, connected>> /\ timedOut \subseteq timedOut'
  BY DEF Stop, Waited, TimedOut, Joined, managerVars, clientVars
<1> SUFFICES ASSUME patient PROVE Talks'
  BY <1>1 DEF Talks
<1>2. /\ \A c \in connected : bound[c] # None
      /\ EndsEmpty /\ Blank /\ \A t \in Services : Talk(t)
  BY DEF Talks
<1>3. stopping # <<>>
  BY DEF Stop, Waited, TimedOut, Joined, Refers
<1>4. PICK i : i = Head(stopping)
  OBVIOUS
<1>5. i \in Instance /\ i \in Range(stopping) /\ i <= instances
  BY <1>3, <1>4, FirstStopped
<1>6. \A c \in connected' : bound'[c] # None
  BY <1>1, <1>2
<1>7. CASE process' = Sent(i, StopMessages(i)) /\ UNCHANGED timedOut
  <2>1. PICK ms : ms = StopMessages(i)
    OBVIOUS
  <2>2. /\ ms \in Seq(Message)
        /\ \A n \in 1 .. Len(ms) : ms[n].op = "stop" /\ ms[n].id = 0
    BY <1>5, <2>1, StopMessagesShape
  <2>3. PICK b \in Nat : SameServices /\ Adds(i, b, ms)
    BY <1>5, <1>7, <2>1, <2>2, SentShape
  <2>4. Ending(i)
    <3>1. \A j \in Instance : j # i => process'[j] = process[j]
      BY <1>5, <1>7 DEF Sent, Kinds
    <3>2. \A k \in Nat, x \in Message : Has(i, k, x)' => Has(i, k, x) \/ (x.op = "stop" /\ x.id = 0)
      BY <1>5, <2>2, <2>3 DEF Adds
    <3> QED BY <3>1, <3>2 DEF Ending
  <2>5. EndsEmpty' /\ Blank'
    BY <1>1, <1>2, <1>5, <1>7, <2>3, BooksSent
  <2>6. \A t \in Services : Talk(t)'
    BY <1>1, <1>2, <1>5, <2>4, EndingTalk
  <2> QED BY <1>6, <2>5, <2>6 DEF Talks
<1>8. CASE process' = Quit(i) /\ (process[i].services = {} \/ i \in timedOut')
  <2>1. /\ Ending(i)
        /\ process'[i].state = "quit" /\ process'[i].services = process[i].services
        /\ \A k \in Nat, x \in Message : Has(i, k, x)' => Has(i, k, x)
    BY <1>5, <1>8, QuitShape
  <2>2. \A j \in Instance : j # i => process'[j] = process[j]
    BY <2>1 DEF Ending
  <2>3. \A j \in Instance, k \in Nat, x \in Message : Has(j, k, x)' => Has(j, k, x)
    BY <2>1, <2>2 DEF Has
  <2>4. Blank'
    BY <1>1, <1>2, <2>3 DEF Blank
  <2>5. EndsEmpty'
    <3>1. SUFFICES ASSUME NEW j \in Instance, process'[j].state \in {"quit", "ended"}
                   PROVE  process'[j].services = {} \/ j \in timedOut'
      BY DEF EndsEmpty
    <3>2. CASE j = i
      BY <1>8, <2>1, <3>2
    <3>3. CASE j # i
      <4>1. process'[j] = process[j]
        BY <2>2, <3>3
      <4>2. process[j].services = {} \/ j \in timedOut
        BY <1>2, <3>1, <4>1 DEF EndsEmpty
      <4> QED BY <1>1, <4>1, <4>2
    <3> QED BY <3>2, <3>3
  <2>6. \A t \in Services : Talk(t)'
    BY <1>1, <1>2, <1>5, <2>1, EndingTalk
  <2> QED BY <1>6, <2>4, <2>5, <2>6 DEF Talks
<1>9. CASE UNCHANGED <<process, timedOut>>
  <2>1. EndsEmpty' /\ Blank'
    BY <1>1, <1>2, <1>9, BooksStill
  <2>2. Ending(i)
    BY <1>9 DEF Ending, Has
  <2>3. \A t \in Services : Talk(t)'
    BY <1>1, <1>2, <1>5, <2>2, EndingTalk
  <2> QED BY <1>6, <2>1, <2>3 DEF Talks
<1> QED BY <1>4, <1>7, <1>8, <1>9 DEF Stop, Waited, TimedOut, Joined

\* The handler of the context takes the first call, and the others move up.
LEMMA PostedShape ==
  ASSUME Kinds, OnServiceConnected, NEW c, c = Head(posted)
  PROVE  /\ c \in Connections /\ Pending(1, c) /\ connected' = connected \cup {c}
         /\ \A k \in Nat, d \in Connections : Pending(k, d)' => Pending(k + 1, d) /\ k >= 1
<1>1. posted # <<>> /\ posted \in Seq(Connections) /\ posted' = Tail(posted)
  BY DEF OnServiceConnected, Kinds
<1>2. PICK n : n = Len(posted)
  OBVIOUS
<1>3. /\ c \in Connections /\ c = posted[1] /\ n \in Nat /\ n >= 1
      /\ Len(posted') = n - 1 /\ \A k \in 1 .. n - 1 : posted'[k] = posted[k + 1]
  BY <1>1, <1>2, HeadTailProperties, LenProperties, EmptySeq
<1>4. Pending(1, c)
  BY <1>2, <1>3 DEF Pending
<1>5. ASSUME NEW k \in Nat, NEW d \in Connections, Pending(k, d)' PROVE Pending(k + 1, d) /\ k >= 1
  BY <1>2, <1>3, <1>5 DEF Pending
<1> QED BY <1>3, <1>4, <1>5 DEF OnServiceConnected

\* A client is told that it is connected to a service that its record says.
LEMMA ConnectedTalks ==
  ASSUME Inv, Inv', Talks, Greeting, OnServiceConnected
  PROVE  Talks'
<1> USE DEF Inv
<1>1. UNCHANGED <<process, mServices, instances, timedOut, patient, inbox, calls, bound>>
  BY DEF OnServiceConnected, managerVars, stopVars
<1> SUFFICES ASSUME patient PROVE Talks'
  BY <1>1 DEF Talks
<1>2. /\ \A c \in connected : bound[c] # None
      /\ EndsEmpty /\ Blank /\ \A t \in Services : Talk(t)
  BY DEF Talks
<1>3. PICK c : c = Head(posted)
  OBVIOUS
<1>4. c \in Connections /\ Pending(1, c) /\ connected' = connected \cup {c}
  BY <1>3, PostedShape
<1>5. PICK s \in Services : s = bound[c]
  <2>1. bound[c] # None
    BY <1>4 DEF Greeting
  <2> QED BY <1>4, <2>1 DEF Kinds
<1>6. /\ Calm(s) /\ Idle(s)
      /\ s \in Enabled /\ mServices[s] # None /\ c \in mServices[s].conns
  BY <1>4, <1>5 DEF Greeting, Greets, Greeted
<1>7. /\ \A i \in Instance, k \in Nat, x \in Message : Has(i, k, x)' <=> Has(i, k, x)
      /\ \A k \in Nat, x \in Message : Waits(k, x)' <=> Waits(k, x)
      /\ SameServices
  BY <1>1, SameShape
<1>8. Talk(s)'
  <2>1. Calm(s)' /\ Idle(s)'
    BY <1>6, <1>7 DEF Calm, Idle
  <2>2. Served(s)'
    <3>1. Served(s)
      BY <1>2 DEF Talk
    <3> QED BY <1>1, <1>7, <3>1, ServedStays DEF SameServices, Recorded
  <2>3. \A d \in connected' : bound'[d] = s =>
          s \in Enabled /\ mServices'[s] # None /\ d \in mServices'[s].conns
    <3>1. \A d \in connected : bound[d] = s => d \in mServices[s].conns
      BY <1>2 DEF Talk, Known
    <3> QED BY <1>1, <1>4, <1>6, <3>1
  <2> QED BY <2>1, <2>2, <2>3, IdleTalk
<1>9. ASSUME NEW t \in Services, t # s PROVE Talk(t)'
  <2>1. calls' \in Seq(Call) /\ calls' = calls
    BY <1>1 DEF Kinds
  <2>2. \A d \in Connections : bound[d] = t /\ d \notin connected => bound'[d] = t /\ d \notin connected'
    BY <1>1, <1>4, <1>5, <1>9
  <2>3. \A x \in Message : x.s = t /\ Open(x) => Open(x)'
    BY <2>1, <2>2, OpenStays
  <2>4. \A d \in connected' : bound'[d] = t => d \in connected /\ bound[d] = t
    BY <1>1, <1>4, <1>5, <1>9
  <2>5. 0 \in Nat /\ \A k \in Nat : k + 0 = k
    OBVIOUS
  <2>6. \A k \in Nat, x \in Message : Waits(k, x)' /\ x.s = t /\ ~Quiet(x) => Waits(k + 0, x)
    BY <1>7, <2>5
  <2> QED BY <1>1, <1>2, <2>3, <2>4, <2>5, <2>6, FrameStill
<1>10. EndsEmpty' /\ Blank'
  BY <1>1, <1>2, BooksStill
<1>11. \A d \in connected' : bound'[d] # None
  BY <1>1, <1>2, <1>4, <1>5, ServiceManagerAssumption
<1> QED BY <1>8, <1>9, <1>10, <1>11 DEF Talks

\* At the start nothing is on its way.
LEMMA InitTalks == Init => Talks
<1> SUFFICES ASSUME Init PROVE Talks
  OBVIOUS
<1>1. \A i \in Instance : /\ process[i].queue = <<>> /\ process[i].busy = None
                          /\ process[i].services = {} /\ process[i].state = "unused"
  BY DEF Init, NewProcess
<1>2. \A i \in Instance, k \in Nat, x \in Message : ~Has(i, k, x)
  <2>1. \A i \in Instance : Place(process[i]) = {}
    BY <1>1, EmptySeq DEF Place
  <2> QED BY <2>1 DEF Has
<1>3. \A k \in Nat, x \in Message : ~Waits(k, x)
  BY EmptySeq DEF Init, Waits
<1>4. connected = {} /\ \A s \in Services : mServices[s] = None
  BY DEF Init
<1>5. EndsEmpty /\ Blank
  BY <1>1, <1>2 DEF EndsEmpty, Blank
<1>6. ASSUME NEW s \in Services PROVE Talk(s)
  <2>1. TokensOpen(s) /\ Order(s) /\ StopsFirst(s) /\ CreatedHere(s)
    BY <1>2 DEF TokensOpen, Order, StopsFirst, CreatedHere
  <2>2. RequestsLast(s) /\ ResultsLast(s) /\ Failures(s)
    BY <1>3 DEF RequestsLast, ResultsLast, Failures
  <2>3. Served(s) /\ Known(s)
    BY <1>4 DEF Served, Known, Recorded
  <2> QED BY <2>1, <2>2, <2>3 DEF Talk
<1> QED BY <1>4, <1>5, <1>6 DEF Talks

\* Every step keeps what is on its way in order.
LEMMA NextTalks ==
  ASSUME Inv, Inv', Talks, Closing, Greeting, [Next]_vars
  PROVE  Talks'
<1>1. CASE UNCHANGED vars
  <2>1. WorkStill /\ UNCHANGED <<inbox, process>>
    BY <1>1 DEF vars, WorkStill, managerVars, stopVars, clientVars
  <2>2. \A i \in Instance, k \in Nat, x \in Message : Has(i, k, x)' <=> Has(i, k, x)
    BY <2>1, SameShape
  <2>3. \A k \in Nat, x \in Message : Waits(k, x)' /\ ~Quiet(x) => Waits(k, x)
    BY <2>1, SameShape
  <2>4. ASSUME patient, NEW t \in Services PROVE Served(t)'
    <3>1. Served(t)
      BY <2>4 DEF Talks, Talk
    <3> QED BY <2>1, <2>2, <3>1, ServedStays DEF WorkStill, Recorded
  <2>5. Moves(0, 0)
    <3>1. \A j \in Instance, k \in Nat : (IF j = 0 THEN k + 0 ELSE k) = k
      OBVIOUS
    <3> QED BY <2>2, <3>1 DEF Moves
  <2>6. 0 \in Nat
    OBVIOUS
  <2>7. /\ \A j \in Instance : process'[j].state = process[j].state
        /\ \A j \in Instance : process[j].state = "running" \/ process'[j].services \subseteq process[j].services
    BY <2>1
  <2> QED BY <2>1, <2>3, <2>4, <2>5, <2>6, <2>7, SilentTalks
<1>2. CASE Next
  BY <1>2, ClientTalks, ConnectedTalks, HandleTalks, WorkTalks, StoppingTalks DEF Next
<1> QED BY <1>1, <1>2

(***************************************************************************)
(* No service object is forgotten.                                         *)
(***************************************************************************)
\* The service manager knows of a service object, its end is on the way, or stop() has given up.
Kept == patient =>
  \A i \in Instance : \A s \in process[i].services :
    Recorded(s, i) \/ Destroying(i, s) \/ i \in timedOut

\* What a step has to leave to a service object that is there after it.
KeepsObject(i, s) ==
  /\ s \in process[i].services \/ Recorded(s, i)'
  /\ Recorded(s, i) => Recorded(s, i)' \/ Destroying(i, s)'
  /\ Destroying(i, s) => Destroying(i, s)' \/ i \in timedOut'

\* It is enough that a step leaves that to every object.
LEMMA KeptStays ==
  ASSUME Kept, UNCHANGED patient, timedOut \subseteq timedOut',
         patient => \A i \in Instance : \A s \in process'[i].services : KeepsObject(i, s)
  PROVE  Kept'
<1>1. SUFFICES ASSUME patient, NEW i \in Instance, NEW s \in process'[i].services
               PROVE  Recorded(s, i)' \/ Destroying(i, s)' \/ i \in timedOut'
  BY DEF Kept
<1>2. KeepsObject(i, s)
  BY <1>1
<1>3. s \in process[i].services => Recorded(s, i) \/ Destroying(i, s) \/ i \in timedOut
  BY <1>1 DEF Kept
<1> QED BY <1>2, <1>3 DEF KeepsObject

\* A process that keeps its messages goes on with what it has to destroy.
LEMMA DestroyingStays ==
  ASSUME NEW i \in Instance, NEW s,
         \A k \in Nat, x \in Message : Has(i, k, x) /\ Is(x, "stop", s) => \E n \in Nat : Has(i, n, x)'
  PROVE  Destroying(i, s) => Destroying(i, s)'
<1>1. SUFFICES ASSUME NEW k \in Nat, NEW x \in Message, Has(i, k, x), Is(x, "stop", s) PROVE Destroying(i, s)'
  BY DEF Destroying
<1>2. PICK n \in Nat : Has(i, n, x)'
  BY <1>1
<1> QED BY <1>1, <1>2 DEF Destroying

\* Nothing happens in the processes, and no record of a service object goes.
LEMMA StillKept ==
  ASSUME Kept, UNCHANGED <<patient, timedOut, process>>, 
         patient => \A i \in Instance : \A s \in process[i].services : Recorded(s, i) => Recorded(s, i)'
  PROVE  Kept'
<1>1. ASSUME patient, NEW i \in Instance, NEW s \in process'[i].services PROVE KeepsObject(i, s)
  <2>1. Destroying(i, s) => Destroying(i, s)'
    BY SameShape, DestroyingStays
  <2> QED BY <1>1, <2>1 DEF KeepsObject
<1> QED BY <1>1, KeptStays

\* Messages are sent, and the records of services that they do not stop stay.
LEMMA SentKept ==
  ASSUME Kept, UNCHANGED <<patient, timedOut>>, NEW i, NEW b, NEW ms, Adds(i, b, ms),
         \A j \in Instance : process'[j].services \subseteq process[j].services,
         \A j \in Instance : \A s \in process'[j].services :
           Recorded(s, j) => Recorded(s, j)' \/ Destroying(j, s)'
  PROVE  Kept'
<1>1. ASSUME NEW j \in Instance, NEW s \in process'[j].services PROVE KeepsObject(j, s)
  <2>1. \A k \in Nat, x \in Message : Has(j, k, x) => \E n \in Nat : Has(j, n, x)'
    BY DEF Adds
  <2>2. Destroying(j, s) => Destroying(j, s)'
    BY <2>1, DestroyingStays
  <2> QED BY <1>1, <2>2 DEF KeepsObject
<1> QED BY <1>1, KeptStays

\* startService and bindService forget no service object.
LEMMA PrepareKept ==
  ASSUME Inv, Talks, Kept, inbox # <<>>, inbox' = Tail(inbox), Head(inbox).op \in {"start", "bind"},
         NEW s \in Services, NEW conns \in SUBSET Connections, NEW running \in BOOLEAN, NEW msgs \in Seq(Message),
         Prepare(s, conns, running, msgs), UNCHANGED <<patient, timedOut>>
  PROVE  Kept'
<1> SUFFICES ASSUME patient PROVE Kept'
  BY DEF Kept
<1>1. Blank /\ instances < MaxCalls
  BY RoomToStart DEF Talks
<1>2. Prepared(s, conns, msgs)
  BY <1>1, PrepareShape
<1>3. PICK i \in Instance, b \in Nat, ms \in Seq(Message) :
        /\ Adds(i, b, ms)
        /\ \A j \in Instance : process'[j].services = process[j].services \/ process'[j].services = {}
        /\ \A t \in Services : t # s => mServices'[t] = mServices[t]
        /\ mServices'[s] # None /\ mServices'[s].proc = i
        /\ mServices[s] # None => mServices[s].proc = i
  BY <1>2 DEF Prepared
<1>4. \A j \in Instance : process'[j].services \subseteq process[j].services
  BY <1>3
<1>5. \A j \in Instance : \A t \in process[j].services : t \in Services
  BY ServiceManagerAssumption DEF Inv, Kinds, Proc
<1>6. \A j \in Instance : \A t \in process'[j].services : Recorded(t, j) => Recorded(t, j)' \/ Destroying(j, t)'
  BY <1>3, <1>4, <1>5 DEF Recorded
<1> QED BY <1>3, <1>4, <1>6, SentKept

\* stopService sends the message that destroys the object it forgets.
LEMMA StopKept ==
  ASSUME Inv, Kept, StopService
  PROVE  Kept'
<1> USE DEF Inv
<1>1. PICK m : m = Head(inbox)
  OBVIOUS
<1>2. inbox # <<>> /\ m.op = "stop" /\ inbox' = Tail(inbox) /\ UNCHANGED patient
  BY <1>1 DEF StopService, Receives
<1>3. m \in Message
  BY <1>1, <1>2, TakesShape
<1>4. PICK s \in Services : s = m.s
  BY <1>3 DEF Message
<1>5. CASE ~Stoppable(s)
  <2>1. UNCHANGED <<mServices, process, timedOut>>
    BY <1>1, <1>4, <1>5 DEF StopService, managerVars, stopVars
  <2> QED BY <1>2, <2>1, StillKept DEF Recorded
<1>6. CASE Stoppable(s)
  <2>1. PICK i : i = mServices[s].proc
    OBVIOUS
  <2>2. Recorded(s, i) /\ i \in Instance
    <3>1. Recorded(s, i)
      BY <1>6, <2>1 DEF Stoppable, Recorded
    <3> QED BY <3>1, RecordedRuns
  <2>3. PICK ms : ms = <<m>>
    OBVIOUS
  <2>4. ms \in Seq(Message) /\ Len(ms) = 1 /\ ms[1] = m /\ 1 \in 1 .. Len(ms)
    BY <1>3, <2>3
  <2>5. process' = Sent(i, ms) /\ RemoveRecord(s)
    BY <1>1, <1>4, <1>6, <2>1, <2>3 DEF StopService
  <2>6. PICK b \in Nat : SameServices /\ Adds(i, b, ms)
    BY <2>2, <2>4, <2>5, SentShape
  <2>7. /\ \A t \in Services : t # s => mServices'[t] = mServices[t]
        /\ timedOut' = timedOut
    BY <2>5, RecordGoes
  <2>8. Destroying(i, s)'
    <3>1. PICK n \in Nat : n = b + 1
      OBVIOUS
    <3>2. Has(i, n, m)' 
      BY <2>4, <2>6, <3>1 DEF Adds
    <3> QED BY <1>2, <1>3, <1>4, <3>2 DEF Destroying, Is
  <2>9. \A j \in Instance : \A t \in process[j].services : t \in Services
    BY ServiceManagerAssumption DEF Kinds, Proc
  <2>10. \A j \in Instance : \A t \in process'[j].services : Recorded(t, j) => Recorded(t, j)' \/ Destroying(j, t)'
    BY <2>2, <2>6, <2>7, <2>8, <2>9 DEF Recorded, SameServices
  <2>11. \A j \in Instance : process'[j].services \subseteq process[j].services
    BY <2>6 DEF SameServices
  <2> QED BY <1>2, <2>6, <2>7, <2>10, <2>11, SentKept
<1> QED BY <1>5, <1>6

\* unbindService forgets none.
LEMMA UnbindKept ==
  ASSUME Inv, Kept, UnbindService
  PROVE  Kept'
<1>1. PICK m : m = Head(inbox)
  OBVIOUS
<1>2. m \in Message
  BY <1>1, UnbindInbox
<1>3. PICK s \in Services : s = m.s
  BY <1>2 DEF Message
<1>4. CASE mServices[s] = None
  <2>1. UNCHANGED <<patient, mServices, process, timedOut>>
    BY <1>1, <1>3, <1>4 DEF UnbindService, stopVars
  <2> QED BY <2>1, StillKept DEF Recorded
<1>5. CASE mServices[s] # None
  <2>1. PICK i : i = mServices[s].proc
    OBVIOUS
  <2>2. i \in Instance
    <3>1. Recorded(s, i)
      BY <1>5, <2>1 DEF Recorded
    <3> QED BY <3>1, RecordedRuns
  <2>3. PICK ms : ms = <<m>>
    OBVIOUS
  <2>4. ms \in Seq(Message)
    BY <1>2, <2>3
  <2>5. /\ process' = Sent(i, ms) /\ mServices'[s] # None /\ mServices'[s].proc = i
        /\ \A t \in Services : t # s => mServices'[t] = mServices[t]
        /\ UNCHANGED <<patient, timedOut>>
    BY <1>1, <1>3, <1>5, <2>1, <2>3, UnbindRecord
  <2>6. PICK b \in Nat : SameServices /\ Adds(i, b, ms)
    BY <2>2, <2>4, <2>5, SentShape DEF Inv
  <2>7. \A j \in Instance : \A t \in process[j].services : t \in Services
    BY ServiceManagerAssumption DEF Inv, Kinds, Proc
  <2>8. \A j \in Instance : \A t \in process'[j].services : Recorded(t, j) => Recorded(t, j)' \/ Destroying(j, t)'
    <3>1. SUFFICES ASSUME NEW j \in Instance, NEW t \in Services, Recorded(t, j) PROVE Recorded(t, j)'
      BY <2>6, <2>7 DEF SameServices
    <3> QED BY <2>1, <2>5, <3>1 DEF Recorded
  <2>9. \A j \in Instance : process'[j].services \subseteq process[j].services
    BY <2>6 DEF SameServices
  <2> QED BY <2>5, <2>6, <2>8, <2>9, SentKept
<1> QED BY <1>4, <1>5

\* The service manager's thread forgets no service object.
LEMMA HandleKept ==
  ASSUME Inv, Talks, Kept, Handle
  PROVE  Kept'
<1> USE DEF Inv
<1>1. PICK m : m = Head(inbox)
  OBVIOUS
<1>0. SUFFICES ASSUME StartService \/ BindService \/ Created \/ Result PROVE Kept'
  BY StopKept, UnbindKept DEF Handle
<1>2. inbox # <<>> /\ inbox' = Tail(inbox) /\ m \in Message /\ m.s \in Services /\ Takes(m)
  <2>1. inbox # <<>> /\ inbox' = Tail(inbox)
    BY <1>0 DEF StartService, BindService, Created, Result, Receives
  <2>2. m \in Message /\ Takes(m)
    BY <1>1, <2>1, TakesShape
  <2> QED BY <2>1, <2>2 DEF Message
<1>3. <<m>> \in Seq(Message) /\ <<>> \in Seq(Message)
  BY <1>2
<1>4. CASE StartService
  <2>1. m.op = "start" /\ UNCHANGED <<patient, timedOut>>
    BY <1>1, <1>4 DEF StartService, Receives, stopVars
  <2>2. CASE m.s \in Installed
    <3>1. Prepare(m.s, {}, TRUE, <<m>>)
      BY <1>1, <1>4, <2>2 DEF StartService
    <3>2. {} \in SUBSET Connections
      OBVIOUS
    <3> QED BY <1>1, <1>2, <1>3, <2>1, <3>1, <3>2, PrepareKept
  <2>3. CASE m.s \notin Installed
    <3>1. UNCHANGED <<mServices, process>>
      BY <1>1, <1>4, <2>3 DEF StartService, managerVars
    <3> QED BY <2>1, <3>1, StillKept DEF Recorded
  <2> QED BY <2>2, <2>3
<1>5. CASE BindService
  <2>1. m.op = "bind" /\ UNCHANGED <<patient, timedOut>>
    BY <1>1, <1>5 DEF BindService, Receives, stopVars
  <2>2. CASE m.s \in Installed
    <3>1. PICK msgs \in {<<>>, <<m>>} : Prepare(m.s, {m.conn}, FALSE, msgs)
      BY <1>1, <1>5, <2>2 DEF BindService
    <3>2. {m.conn} \in SUBSET Connections /\ msgs \in Seq(Message)
      BY <1>2, <1>3, <2>1 DEF Message
    <3> QED BY <1>1, <1>2, <2>1, <3>1, <3>2, PrepareKept
  <2>3. CASE m.s \notin Installed
    <3>1. UNCHANGED <<mServices, process>>
      BY <1>1, <1>5, <2>3 DEF BindService, managerVars
    <3> QED BY <2>1, <3>1, StillKept DEF Recorded
  <2> QED BY <2>2, <2>3
<1>6. CASE Created
  <2>1. UNCHANGED <<patient, process>>
    BY <1>6 DEF Created
  <2>2. CASE ToCleanUp(m)
    <3>1. RemoveRecord(m.s) /\ m.op = "notCreated"
      BY <1>1, <1>6, <2>2 DEF Created, ToCleanUp
    <3>2. PICK s \in Services : s = m.s
      BY <1>2
    <3>3. (\A t \in Services : t # s => mServices'[t] = mServices[t]) /\ timedOut' = timedOut
      BY <3>1, <3>2, RecordGoes
    <3>4. patient => s \notin Enabled
      <4>1. Waits(1, m) /\ Is(m, "notCreated", s)
        BY <1>2, <3>1, <3>2 DEF Takes, Is
      <4> QED BY <1>2, <4>1 DEF Talks, Talk, Failures
    <3>5. \A j \in Instance : \A t \in process[j].services : t \in Services /\ t \in Enabled
      BY ServiceManagerAssumption DEF Kinds, Proc
    <3>6. patient => \A j \in Instance : \A t \in process[j].services : Recorded(t, j) => Recorded(t, j)'
      BY <3>3, <3>4, <3>5 DEF Recorded
    <3> QED BY <2>1, <3>3, <3>6, StillKept
  <2>3. CASE ~ToCleanUp(m)
    <3>1. UNCHANGED <<mServices, timedOut>>
      BY <1>1, <1>6, <2>3 DEF Created, managerVars, stopVars
    <3> QED BY <2>1, <3>1, StillKept DEF Recorded
  <2> QED BY <2>2, <2>3
<1>7. CASE Result
  <2>1. UNCHANGED <<patient, mServices, timedOut, process>>
    BY <1>7 DEF Result, managerVars, stopVars
  <2> QED BY <2>1, StillKept DEF Recorded
<1> QED BY <1>0, <1>4, <1>5, <1>6, <1>7

\* A process takes a message that stops none of the services it has after that.
LEMMA RemovesKept ==
  ASSUME Kept, UNCHANGED <<patient, timedOut, mServices>>, NEW i \in Instance, NEW l \in Nat, NEW m \in Message,
         Removes(i, l, m), m.op = "stop" => m.s \notin process'[i].services,
         patient => \A j \in Instance : \A s \in process'[j].services : s \in process[j].services \/ Recorded(s, j)
  PROVE  Kept'
<1>1. ASSUME patient, NEW j \in Instance, NEW s \in process'[j].services PROVE KeepsObject(j, s)
  <2>1. \A k \in Nat, x \in Message : Has(j, k, x) /\ Is(x, "stop", s) => \E n \in Nat : Has(j, n, x)'
    <3>1. j = i => ~Is(m, "stop", s)
      BY <1>1 DEF Is
    <3> QED BY <3>1 DEF Removes
  <2>2. Destroying(j, s) => Destroying(j, s)'
    BY <2>1, DestroyingStays
  <2>3. Recorded(s, j)' <=> Recorded(s, j)
    BY DEF Recorded
  <2> QED BY <1>1, <2>2, <2>3 DEF KeepsObject
<1> QED BY <1>1, KeptStays

\* A process starts to work on a message, or quits its loop: its messages and services stay.
LEMMA KeepsKept ==
  ASSUME Kept, UNCHANGED <<patient, timedOut, mServices>>,
         \A j \in Instance, k \in Nat, x \in Message : Has(j, k, x) => \E n \in Nat : Has(j, n, x)',
         \A j \in Instance : process'[j].services \subseteq process[j].services
  PROVE  Kept'
<1>1. ASSUME NEW j \in Instance, NEW s \in process'[j].services PROVE KeepsObject(j, s)
  <2>1. Destroying(j, s) => Destroying(j, s)'
    BY DestroyingStays
  <2>2. Recorded(s, j)' <=> Recorded(s, j)
    BY DEF Recorded
  <2> QED BY <1>1, <2>1, <2>2 DEF KeepsObject
<1> QED BY <1>1, KeptStays

\* The threads of the processes lose no message that stops a service they have.
LEMMA WorkKept ==
  ASSUME Inv, Talks, Kept, NEW i \in Instance, Work(i)
  PROVE  Kept'
<1> USE DEF Inv
<1>1. UNCHANGED <<patient, timedOut, mServices>>
  BY DEF Work, CreateService, OnCreated, OnStartCommand, DestroyService, OnDestroyed, OnBind, OnUnbind, Ends,
         managerVars, stopVars
<1>2. ASSUME NEW op, Turn(i, op), process' = Taken(i),
             op = "stop" => Head(process[i].queue).s \notin process[i].services
      PROVE  Kept'
  <2>1. PICK m : m = Head(process[i].queue)
    OBVIOUS
  <2>2. m \in Message /\ m.op = op /\ Removes(i, 1, m) /\ SameServices
    BY <1>2, <2>1, TakenShape
  <2>3. m.op = "stop" => m.s \notin process'[i].services
    BY <1>2, <2>1, <2>2 DEF SameServices
  <2>4. \A j \in Instance : \A s \in process'[j].services : s \in process[j].services
    BY <2>2 DEF SameServices
  <2> QED BY <1>1, <2>2, <2>3, <2>4, RemovesKept
<1>3. ASSUME NEW op, Turn(i, op), NEW m, m = Head(process[i].queue), process' = Busy(i, m)
      PROVE  Kept'
  <2>1. Keeps(i, 1) /\ SameServices
    BY <1>3, BusyShape
  <2> QED BY <1>1, <2>1, KeepsKept DEF Keeps, SameServices
<1>4. ASSUME NEW m, m = process[i].busy, m # None, NEW S,
             process' = [process EXCEPT ![i].busy = None, ![i].services = S],
             \/ m.op = "create" /\ S = process[i].services \cup {m.s}
             \/ m.op = "stop" /\ S = process[i].services \ {m.s}
      PROVE  Kept'
  <2>1. Finishes(i, m, S)
    <3> DEFINE p == [process[i] EXCEPT !.busy = None, !.services = S]
    <3>1. process' = [process EXCEPT ![i] = p]
      BY <1>4 DEF Kinds
    <3>2. p.busy = None /\ p.queue = process[i].queue /\ p.services = S /\ p.state = process[i].state
      BY DEF Kinds, Proc
    <3>3. m # None /\ m = process[i].busy
      BY <1>4
    <3> HIDE DEF p
    <3> QED BY <3>1, <3>2, <3>3 DEF Finishes
  <2>2. /\ m \in Message /\ Removes(i, 0, m)
        /\ \A j \in Instance : process'[j].services = IF j = i THEN S ELSE process[j].services
    BY <2>1, DoneShape
  <2>3. m.op = "stop" => m.s \notin process'[i].services
    BY <1>4, <2>2
  <2>4. patient /\ m.op = "create" => Recorded(m.s, i)
    <3>1. SUFFICES ASSUME patient, m.op = "create" PROVE Recorded(m.s, i)
      OBVIOUS
    <3>2. PICK s \in Services : s = m.s
      BY <2>2 DEF Message
    <3>3. Has(i, 0, m) /\ Is(m, "create", s)
      BY <2>2, <3>1, <3>2 DEF Removes, Is
    <3>4. Recorded(s, i)
      BY <2>2, <3>1, <3>3 DEF Talks, Talk, CreatedHere
    <3> QED BY <3>2, <3>4
  <2>5. patient => \A j \in Instance : \A s \in process'[j].services : s \in process[j].services \/ Recorded(s, j)
    BY <1>4, <2>2, <2>4
  <2> QED BY <1>1, <2>2, <2>3, <2>5, RemovesKept
<1>5. CASE Ends(i)
  <2> DEFINE p == [process[i] EXCEPT !.state = "ended"]
  <2>1. process' = [process EXCEPT ![i] = p]
    BY <1>5 DEF Ends
  <2>2. p.queue = process[i].queue /\ p.busy = process[i].busy /\ p.services = process[i].services
    BY DEF Kinds, Proc
  <2> HIDE DEF p
  <2>3. /\ process'[i] = p /\ \A j \in Instance : j # i => process'[j] = process[j]
        /\ \A j \in Instance, k \in Nat, x \in Message : j # i => (Has(j, k, x)' <=> Has(j, k, x))
        /\ \A k \in Nat, x \in Message : Has(i, k, x)' <=> k \in Place(p) /\ Item(p, k) = x
    BY <2>1, OthersKeep
  <2>4. \A k \in Nat, x \in Message : k \in Place(p) /\ Item(p, k) = x <=> Has(i, k, x)
    BY <2>2 DEF Has, Place, Item
  <2>5. \A j \in Instance, k \in Nat, x \in Message : Has(j, k, x) => \E n \in Nat : Has(j, n, x)'
    BY <2>3, <2>4
  <2>6. \A j \in Instance : process'[j].services \subseteq process[j].services
    BY <2>2, <2>3
  <2> QED BY <1>1, <2>5, <2>6, KeepsKept
<1>6. CASE CreateService(i)
  BY <1>2, <1>3, <1>6 DEF CreateService
<1>7. CASE OnCreated(i) \/ OnDestroyed(i)
  <2>1. process \in [Instance -> Proc]
    BY DEF Kinds
  <2>2. CASE OnCreated(i)
    BY <1>4, <2>1, <2>2 DEF OnCreated
  <2>3. CASE OnDestroyed(i)
    BY <1>4, <2>1, <2>3 DEF OnDestroyed
  <2> QED BY <1>7, <2>2, <2>3
<1>8. CASE OnStartCommand(i) \/ OnBind(i) \/ OnUnbind(i)
  BY <1>2, <1>8 DEF OnStartCommand, OnBind, OnUnbind
<1>9. CASE DestroyService(i)
  BY <1>2, <1>3, <1>9 DEF DestroyService
<1> QED BY <1>5, <1>6, <1>7, <1>8, <1>9 DEF Work

\* The process manager quits a process that has no services, or gives up.
LEMMA StoppingKept ==
  ASSUME Inv, Kept, Stop \/ Waited \/ TimedOut \/ Joined
  PROVE  Kept'
<1> USE DEF Inv
<1>1. UNCHANGED <<patient, mServices>> /\ timedOut \subseteq timedOut'
  BY DEF Stop, Waited, TimedOut, Joined, managerVars
<1>2. stopping # <<>>
  BY DEF Stop, Waited, TimedOut, Joined, Refers
<1>3. PICK i : i = Head(stopping)
  OBVIOUS
<1>4. i \in Instance
  BY <1>2, <1>3, FirstStopped
<1>5. CASE process' = Sent(i, StopMessages(i)) /\ UNCHANGED timedOut
  <2>1. PICK ms : ms = StopMessages(i)
    OBVIOUS
  <2>2. ms \in Seq(Message)
    BY <1>4, <2>1, StopMessagesShape
  <2>3. PICK b \in Nat : SameServices /\ Adds(i, b, ms)
    BY <1>4, <1>5, <2>1, <2>2, SentShape
  <2>4. \A j \in Instance : process'[j].services \subseteq process[j].services
    BY <2>3 DEF SameServices
  <2>5. \A j \in Instance : \A s \in process'[j].services : Recorded(s, j) => Recorded(s, j)' \/ Destroying(j, s)'
    BY <1>1 DEF Recorded
  <2> QED BY <1>1, <1>5, <2>3, <2>4, <2>5, SentKept
<1>6. CASE process' = Quit(i) /\ (process[i].services = {} \/ i \in timedOut')
  <2>1. Ending(i) /\ process'[i].services = process[i].services
    BY <1>4, <1>6, QuitShape
  <2>2. ASSUME NEW j \in Instance, NEW s \in process'[j].services PROVE KeepsObject(j, s)
    <3>1. Recorded(s, j)' <=> Recorded(s, j)
      BY <1>1 DEF Recorded
    <3>2. CASE j = i
      BY <1>6, <2>1, <2>2, <3>1, <3>2 DEF KeepsObject
    <3>3. CASE j # i
      <4>1. process'[j] = process[j]
        BY <2>1, <3>3 DEF Ending
      <4>2. \A k \in Nat, x \in Message : Has(j, k, x) => \E n \in Nat : Has(j, n, x)'
        BY <4>1 DEF Has
      <4>3. Destroying(j, s) => Destroying(j, s)'
        BY <4>2, DestroyingStays
      <4> QED BY <2>2, <3>1, <4>1, <4>3 DEF KeepsObject
    <3> QED BY <3>2, <3>3
  <2> QED BY <1>1, <2>2, KeptStays
<1>7. CASE UNCHANGED <<process, timedOut>>
  BY <1>1, <1>7, StillKept DEF Recorded
<1> QED BY <1>3, <1>5, <1>6, <1>7 DEF Stop, Waited, TimedOut, Joined

\* No step forgets a service object.
LEMMA NextKept ==
  ASSUME Inv, Talks, Kept, [Next]_vars
  PROVE  Kept'
<1>1. CASE \/ \E s \in Services : Request("start", s) \/ Request("stop", s)
           \/ \E s \in Services, c \in Connections : Bind(s, c)
           \/ \E c \in Connections : Unbind(c)
           \/ OnServiceConnected \/ UNCHANGED vars
  <2>1. UNCHANGED <<patient, timedOut, mServices, process>>
    BY <1>1 DEF Request, Bind, Unbind, OnServiceConnected, vars, managerVars, stopVars
  <2> QED BY <2>1, StillKept DEF Recorded
<1> QED BY <1>1, HandleKept, WorkKept, StoppingKept DEF Next

\* A message at one of the places of a process.
LEMMA DestroyingWillStop ==
  ASSUME Kinds, NEW i \in Instance, NEW s, Destroying(i, s)
  PROVE  WillStop(i, s)
<1>1. PICK k \in Nat, x \in Message : Has(i, k, x) /\ Is(x, "stop", s)
  BY DEF Destroying
<1>2. DOMAIN process[i].queue = 1 .. Len(process[i].queue) /\ Len(process[i].queue) \in Nat
  BY LenProperties DEF Kinds, Proc
<1>3. CASE k = 0
  BY <1>1, <1>3 DEF Has, Place, Item, Is, WillStop
<1>4. CASE k # 0
  <2>1. k \in DOMAIN process[i].queue /\ process[i].queue[k] = x
    BY <1>1, <1>2, <1>4 DEF Has, Place, Item
  <2> QED BY <1>1, <2>1 DEF Is, WillStop
<1> QED BY <1>3, <1>4

(***************************************************************************)
(* What a step leaves of the messages.                                     *)
(***************************************************************************)
\* The processes have no message that they did not have.
NoneNew ==
  \A j \in Instance, k \in Nat, x \in Message : Has(j, k, x)' => \E n \in Nat : Has(j, n, x)

\* The inbox stays, or an answer arrives: a service was created, or process i has dealt with
\* a part of a request.
Reports(i) ==
  \/ UNCHANGED inbox
  \/ \E r \in Message : /\ inbox' = Append(inbox, r)
                        /\ \/ r.op = "created"
                           \/ /\ r.op \in {"result", "notCreated"}
                              /\ \E k \in Nat, x \in Message : Has(i, k, x) /\ Token(x, r.s)

\* That is what processes do.
LEMMA WorkShape ==
  ASSUME Inv, NEW i \in Instance, Work(i)
  PROVE  NoneNew /\ Reports(i) /\ WorkStill
<1> USE DEF Inv
<1>1. WorkStill
  BY DEF Work, CreateService, OnCreated, OnStartCommand, DestroyService, OnDestroyed, OnBind, OnUnbind, Ends,
         WorkStill, managerVars, stopVars, clientVars
<1>2. ASSUME NEW l \in Nat, Moves(i, l) PROVE NoneNew
  BY <1>2 DEF Moves, NoneNew
<1>3. 0 \in Nat /\ 1 \in Nat
  OBVIOUS
<1>4. ASSUME NEW op, Turn(i, op), NEW m, m = Head(process[i].queue), process' = Busy(i, m) PROVE NoneNew
  BY <1>2, <1>3, <1>4, BusyShape, ShapesMove
<1>5. ASSUME NEW op, Turn(i, op), NEW m, m = Head(process[i].queue), process' = Taken(i)
      PROVE  NoneNew /\ m \in Message /\ m.op = op /\ Has(i, 1, m)
  <2>1. m \in Message /\ m.op = op /\ Removes(i, 1, m)
    BY <1>5, TakenShape
  <2>2. Moves(i, 1)
    BY <1>3, <2>1, ShapesMove
  <2> QED BY <1>2, <1>3, <2>1, <2>2 DEF Removes
<1>6. ASSUME NEW m, NEW S, Finishes(i, m, S)
      PROVE  NoneNew /\ m \in Message /\ Has(i, 0, m)
  <2>1. m \in Message /\ Removes(i, 0, m)
    BY <1>6, DoneShape
  <2>2. Moves(i, 0)
    BY <1>3, <2>1, ShapesMove
  <2> QED BY <1>2, <1>3, <2>1, <2>2 DEF Removes
<1>7. ASSUME NEW m \in Message, NEW op \in {"result", "notCreated"}, NEW id \in 0 .. MaxCalls,
             NEW k \in Nat, Has(i, k, m), Token(m, m.s), inbox' = Append(inbox, Msg(op, m.s, id, None))
      PROVE  Reports(i)
  <2>1. PICK r : r = Msg(op, m.s, id, None)
    OBVIOUS
  <2>2. r \in Message /\ r.op = op /\ r.s = m.s
    BY <2>1 DEF Msg, Message, Op
  <2> QED BY <1>7, <2>1, <2>2 DEF Reports
<1>8. PICK m : m = Head(process[i].queue)
  OBVIOUS
<1>9. CASE CreateService(i)
  <2>1. CASE process' = Busy(i, m) /\ UNCHANGED inbox
    BY <1>1, <1>4, <1>8, <1>9, <2>1 DEF CreateService, Reports
  <2>2. CASE process' = Taken(i) /\ inbox' = Append(inbox, Msg("notCreated", m.s, 0, None))
    <3>1. NoneNew /\ m \in Message /\ m.op = "create" /\ Has(i, 1, m)
      BY <1>5, <1>8, <1>9, <2>2 DEF CreateService
    <3>2. Token(m, m.s) /\ 0 \in 0 .. MaxCalls
      BY <3>1, ServiceManagerAssumption DEF Token
    <3> QED BY <1>1, <1>3, <1>7, <2>2, <3>1, <3>2
  <2> QED BY <1>8, <1>9, <2>1, <2>2 DEF CreateService
<1>10. CASE OnStartCommand(i)
  <2>1. Turn(i, "start") /\ process' = Taken(i) /\ inbox' = Append(inbox, Msg("result", m.s, m.id, None))
    BY <1>8, <1>10 DEF OnStartCommand
  <2>2. NoneNew /\ m \in Message /\ m.op = "start" /\ Has(i, 1, m)
    BY <1>5, <1>8, <2>1
  <2>3. Token(m, m.s) /\ m.id \in 0 .. MaxCalls
    BY <2>2 DEF Token, Message
  <2> QED BY <1>1, <1>3, <1>7, <2>1, <2>2, <2>3
<1>11. CASE DestroyService(i)
  <2>1. CASE process' = Busy(i, m) /\ UNCHANGED inbox
    BY <1>1, <1>4, <1>8, <1>11, <2>1 DEF DestroyService, Reports
  <2>2. CASE process' = Taken(i) /\ inbox' = IF m.id = 0 THEN inbox ELSE Append(inbox, Msg("result", m.s, m.id, None))
    <3>1. NoneNew /\ m \in Message /\ m.op = "stop" /\ Has(i, 1, m)
      BY <1>5, <1>8, <1>11, <2>2 DEF DestroyService
    <3>2. CASE m.id = 0
      BY <1>1, <2>2, <3>1, <3>2 DEF Reports
    <3>3. CASE m.id # 0
      <4>1. Token(m, m.s) /\ m.id \in 0 .. MaxCalls
        BY <3>1, <3>3 DEF Token, Message
      <4> QED BY <1>1, <1>3, <1>7, <2>2, <3>1, <3>3, <4>1
    <3> QED BY <3>2, <3>3
  <2> QED BY <1>8, <1>11, <2>1, <2>2 DEF DestroyService
<1>12. CASE OnBind(i) \/ OnUnbind(i)
  <2>1. UNCHANGED inbox /\ process' = Taken(i) /\ \E op : Turn(i, op)
    BY <1>12 DEF OnBind, OnUnbind
  <2> QED BY <1>1, <1>5, <1>8, <2>1 DEF Reports
<1>13. CASE OnCreated(i) \/ OnDestroyed(i)
  <2>1. PICK b, S : /\ b = process[i].busy /\ b # None
                    /\ process' = [process EXCEPT ![i].busy = None, ![i].services = S]
                    /\ \/ inbox' = Append(inbox, Msg("created", b.s, 0, None))
                       \/ /\ b.op = "stop"
                          /\ inbox' = IF b.id = 0 THEN inbox ELSE Append(inbox, Msg("result", b.s, b.id, None))
    <3>1. process \in [Instance -> Proc]
      BY DEF Kinds
    <3> QED BY <1>13, <3>1 DEF OnCreated, OnDestroyed
  <2>2. NoneNew /\ b \in Message /\ Has(i, 0, b)
    <3>1. Finishes(i, b, S)
      <4> DEFINE p == [process[i] EXCEPT !.busy = None, !.services = S]
      <4>1. process' = [process EXCEPT ![i] = p]
        BY <2>1 DEF Kinds
      <4>2. p.busy = None /\ p.queue = process[i].queue /\ p.services = S /\ p.state = process[i].state
        BY DEF Kinds, Proc
      <4> HIDE DEF p
      <4> QED BY <2>1, <4>1, <4>2 DEF Finishes
    <3> QED BY <1>6, <3>1
  <2>3. CASE inbox' = Append(inbox, Msg("created", b.s, 0, None))
    <3>1. Msg("created", b.s, 0, None) \in Message /\ Msg("created", b.s, 0, None).op = "created"
      BY <2>2, ServiceManagerAssumption DEF Msg, Message, Op
    <3> QED BY <1>1, <2>2, <2>3, <3>1 DEF Reports
  <2>4. CASE /\ b.op = "stop"
             /\ inbox' = IF b.id = 0 THEN inbox ELSE Append(inbox, Msg("result", b.s, b.id, None))
    <3>1. CASE b.id = 0
      BY <1>1, <2>2, <2>4, <3>1 DEF Reports
    <3>2. CASE b.id # 0
      <4>1. Token(b, b.s) /\ b.id \in 0 .. MaxCalls
        BY <2>2, <2>4, <3>2 DEF Token, Message
      <4> QED BY <1>1, <1>3, <1>7, <2>2, <2>4, <3>2, <4>1
    <3> QED BY <3>1, <3>2
  <2> QED BY <2>1, <2>3, <2>4
<1>14. CASE Ends(i)
  <2> DEFINE p == [process[i] EXCEPT !.state = "ended"]
  <2>1. process' = [process EXCEPT ![i] = p] /\ UNCHANGED inbox
    BY <1>14 DEF Ends
  <2>2. p.queue = process[i].queue /\ p.busy = process[i].busy
    BY DEF Kinds, Proc
  <2> HIDE DEF p
  <2>3. /\ \A j \in Instance, k \in Nat, x \in Message : j # i => (Has(j, k, x)' <=> Has(j, k, x))
        /\ \A k \in Nat, x \in Message : Has(i, k, x)' <=> k \in Place(p) /\ Item(p, k) = x
    BY <2>1, OthersKeep
  <2>4. \A k \in Nat, x \in Message : k \in Place(p) /\ Item(p, k) = x <=> Has(i, k, x)
    BY <2>2 DEF Has, Place, Item
  <2> QED BY <1>1, <2>1, <2>3, <2>4 DEF NoneNew, Reports
<1> QED BY <1>9, <1>10, <1>11, <1>12, <1>13, <1>14 DEF Work

\* The process manager sends messages that stop services, or drops the messages of a process.
LEMMA StoppingShape ==
  ASSUME Inv, Stop \/ Waited \/ TimedOut \/ Joined
  PROVE  /\ UNCHANGED <<patient, mServices, inbox, calls, bound, posted, connected>>
         /\ \A j \in Instance, k \in Nat, x \in Message :
              Has(j, k, x)' => Has(j, k, x) \/ (x.op = "stop" /\ x.id = 0)
<1> USE DEF Inv
<1>1. UNCHANGED <<patient, mServices, inbox, calls, bound, posted, connected>>
  BY DEF Stop, Waited, TimedOut, Joined, managerVars, clientVars
<1>2. stopping # <<>>
  BY DEF Stop, Waited, TimedOut, Joined, Refers
<1>3. PICK i : i = Head(stopping)
  OBVIOUS
<1>4. i \in Instance
  BY <1>2, <1>3, FirstStopped
<1>5. CASE process' = Sent(i, StopMessages(i))
  <2>1. PICK ms : ms = StopMessages(i)
    OBVIOUS
  <2>2. ms \in Seq(Message) /\ \A n \in 1 .. Len(ms) : ms[n].op = "stop" /\ ms[n].id = 0
    BY <1>4, <2>1, StopMessagesShape
  <2>3. PICK b \in Nat : Adds(i, b, ms)
    BY <1>4, <1>5, <2>1, <2>2, SentShape
  <2>4. \A j \in Instance, k \in Nat, x \in Message :
          Has(j, k, x)' => Has(j, k, x) \/ \E n \in 1 .. Len(ms) : x = ms[n]
    BY <2>3 DEF Adds
  <2> QED BY <1>1, <2>2, <2>4
<1>6. CASE process' = Quit(i)
  <2>1. Ending(i)
    BY <1>4, <1>6, QuitShape
  <2> QED BY <1>1, <2>1 DEF Ending, Has
<1>7. CASE UNCHANGED process
  BY <1>1, <1>7, SameShape
<1> QED BY <1>3, <1>5, <1>6, <1>7 DEF Stop, Waited, TimedOut, Joined

\* A request or an answer for one service leaves what concerns the others where it is.
LEMMA HandleShape ==
  ASSUME Inv, Talks, patient, Handle, NEW m, m = Head(inbox)
  PROVE  /\ m \in Message /\ m.s \in Services /\ Waits(1, m) /\ UNCHANGED <<patient, bound, posted, connected>>
         /\ \A k \in Nat, x \in Message : Waits(k, x) => k >= 1 /\ (k = 1 => x = m)
         /\ \A k \in Nat, x \in Message : Waits(k, x)' /\ x.s # m.s => Waits(k + 1, x) /\ k >= 1
         /\ \A j \in Instance, k \in Nat, x \in Message : Has(j, k, x)' /\ x.s # m.s => Has(j, k, x)
         /\ \A t \in Services : t # m.s => mServices'[t] = mServices[t]
<1> USE DEF Inv
<1>1. UNCHANGED <<patient, bound, posted, connected>>
  BY DEF Handle, StartService, BindService, StopService, UnbindService, Created, Result, clientVars
<1>2. CASE UnbindService
  <2>1. m \in Message /\ m.s \in Services /\ Drops(m)
    BY <1>2, UnbindInbox
  <2>2. PICK b \in Nat, late \in Message : Parts(m, b, late)
    BY <1>2, UnbindInbox
  <2>3. /\ \A k \in Nat, x \in Message : Waits(k, x) => k >= 1 /\ (k = 1 => x = m)
        /\ \A k \in Nat, x \in Message : Waits(k, x)' /\ x.s # m.s => Waits(k + 1, x) /\ k >= 1
    BY <2>2 DEF Parts, Late
  <2>4. CASE mServices[m.s] = None
    <3>1. UNCHANGED <<mServices, process>>
      BY <1>2, <2>4 DEF UnbindService
    <3> QED BY <1>1, <2>1, <2>3, <3>1, SameShape DEF Drops
  <2>5. CASE mServices[m.s] # None
    <3>1. PICK i : i = mServices[m.s].proc
      OBVIOUS
    <3>2. i \in Instance
      <4>1. Recorded(m.s, i)
        BY <2>5, <3>1 DEF Recorded
      <4> QED BY <2>1, <4>1, RecordedRuns
    <3>3. PICK ms \in Seq(Message) : ms = <<m>>
      <4>1. <<m>> \in Seq(Message)
        BY <2>1
      <4> QED BY <4>1
    <3>4. process' = Sent(i, ms) /\ \A t \in Services : t # m.s => mServices'[t] = mServices[t]
      BY <1>2, <2>5, <3>1, <3>3, UnbindRecord
    <3>5. PICK b1 \in Nat : Adds(i, b1, ms)
      BY <3>2, <3>4, SentShape
    <3>6. \A n \in 1 .. Len(ms) : ms[n].s = m.s
      BY <3>3
    <3>7. \A j \in Instance, k \in Nat, x \in Message : Has(j, k, x)' /\ x.s # m.s => Has(j, k, x)
      BY <3>5, <3>6 DEF Adds
    <3> QED BY <1>1, <2>1, <2>3, <3>4, <3>7 DEF Drops
  <2> QED BY <2>4, <2>5
<1>3. CASE ~UnbindService
  <2>1. inbox # <<>> /\ inbox' = Tail(inbox)
    BY <1>3 DEF Handle, StartService, BindService, StopService, Created, Result, Receives
  <2>2. m \in Message /\ Takes(m)
    BY <2>1, TakesShape
  <2>3. PICK s \in Services : s = m.s
    BY <2>2 DEF Message
  <2>4. /\ Waits(1, m) /\ \A k \in Nat, x \in Message : Waits(k, x) => k >= 1 /\ (k = 1 => x = m)
        /\ \A k \in Nat, x \in Message : Waits(k, x)' => Waits(k + 1, x) /\ k >= 1
    BY <2>2 DEF Takes
  <2>5. ASSUME NEW i \in Instance, NEW b \in Nat, NEW ms \in Seq(Message), Adds(i, b, ms),
               \A n \in 1 .. Len(ms) : ms[n].s = s
        PROVE  \A j \in Instance, k \in Nat, x \in Message : Has(j, k, x)' /\ x.s # s => Has(j, k, x)
    BY <2>5 DEF Adds
  <2>6. CASE UNCHANGED <<mServices, process>>
    BY <1>1, <2>2, <2>3, <2>4, <2>6, SameShape
  <2>7. CASE RemoveRecord(s) /\ UNCHANGED process
    <3>1. \A t \in Services : t # s => mServices'[t] = mServices[t]
      BY <2>7, RecordGoes
    <3> QED BY <1>1, <2>2, <2>3, <2>4, <2>7, <3>1, SameShape
  <2>8. CASE Stoppable(s) /\ RemoveRecord(s) /\ process' = Sent(mServices[s].proc, <<m>>)
    <3>1. \A t \in Services : t # s => mServices'[t] = mServices[t]
      BY <2>8, RecordGoes
    <3>2. PICK i : i = mServices[s].proc
      OBVIOUS
    <3>3. i \in Instance
      <4>1. Recorded(s, i)
        BY <2>8, <3>2 DEF Recorded, Stoppable
      <4> QED BY <4>1, RecordedRuns
    <3>4. PICK ms \in Seq(Message) : ms = <<m>>
      <4>1. <<m>> \in Seq(Message)
        BY <2>2
      <4> QED BY <4>1
    <3>5. PICK b \in Nat : Adds(i, b, ms)
      BY <2>8, <3>2, <3>3, <3>4, SentShape
    <3>6. \A n \in 1 .. Len(ms) : ms[n].s = s
      BY <2>3, <3>4
    <3>7. \A j \in Instance, k \in Nat, x \in Message : Has(j, k, x)' /\ x.s # s => Has(j, k, x)
      BY <2>5, <3>3, <3>5, <3>6
    <3> QED BY <1>1, <2>2, <2>3, <2>4, <3>1, <3>7
  <2>9. ASSUME NEW conns \in SUBSET Connections, NEW running \in BOOLEAN, NEW msgs \in {<<>>, <<m>>},
               Prepare(s, conns, running, msgs), m.op \in {"start", "bind"}
        PROVE  /\ \A j \in Instance, k \in Nat, x \in Message : Has(j, k, x)' /\ x.s # s => Has(j, k, x)
               /\ \A t \in Services : t # s => mServices'[t] = mServices[t]
    <3>1. msgs \in Seq(Message) /\ Blank /\ instances < MaxCalls
      <4>1. <<m>> \in Seq(Message) /\ <<>> \in Seq(Message)
        BY <2>2
      <4> QED BY <2>1, <2>9, <4>1, RoomToStart DEF Talks
    <3>2. Prepared(s, conns, msgs)
      BY <2>9, <3>1, PrepareShape
    <3>3. PICK i \in Instance, b \in Nat, ms \in Seq(Message) :
            /\ ms = CreateIfNew(s) \o msgs /\ Adds(i, b, ms)
            /\ \A t \in Services : t # s => mServices'[t] = mServices[t]
      BY <3>2 DEF Prepared
    <3>4. \A n \in 1 .. Len(ms) : ms[n].s = s
      <4>1. PICK c \in Seq(Message) : c = CreateIfNew(s) /\ \A n \in 1 .. Len(c) : c[n].s = s
        <5>1. PICK x \in Message : x = Msg("create", s, 0, None) /\ x.s = s
          <6>1. Msg("create", s, 0, None) \in Message
            <7>1. 0 \in 0 .. MaxCalls
              BY ServiceManagerAssumption
            <7> QED BY <7>1 DEF Msg, Message, Op
          <6>2. Msg("create", s, 0, None).s = s
            BY DEF Msg
          <6> QED BY <6>1, <6>2
        <5>2. <<x>> \in Seq(Message) /\ <<>> \in Seq(Message)
          OBVIOUS
        <5>3. \A n \in 1 .. Len(<<x>>) : <<x>>[n].s = s
          BY <5>1
        <5>4. \A n \in 1 .. Len(<<>>) : FALSE
          OBVIOUS
        <5> QED BY <5>1, <5>2, <5>3, <5>4 DEF CreateIfNew
      <4>2. \A n \in 1 .. Len(msgs) : msgs[n].s = s
        <5>1. \A n \in 1 .. Len(<<m>>) : <<m>>[n].s = s
          BY <2>3
        <5>2. \A n \in 1 .. Len(<<>>) : FALSE
          OBVIOUS
        <5> QED BY <5>1, <5>2
      <4>3. Len(ms) = Len(c) + Len(msgs) /\ Len(c) \in Nat /\ Len(msgs) \in Nat
            /\ \A n \in 1 .. Len(ms) : ms[n] = IF n <= Len(c) THEN c[n] ELSE msgs[n - Len(c)]
        BY <3>1, <3>3, <4>1, ConcatProperties, LenProperties
      <4> QED BY <4>1, <4>2, <4>3
    <3> QED BY <2>5, <3>3, <3>4
  <2>10. {} \in SUBSET Connections /\ (m.op = "bind" => {m.conn} \in SUBSET Connections)
    BY <2>2 DEF Message
  <2>11. CASE StartService
    <3>1. CASE m.s \in Installed
      <4>1. Prepare(s, {}, TRUE, <<m>>) /\ m.op = "start"
        BY <2>3, <2>11, <3>1 DEF StartService, Receives
      <4> QED BY <1>1, <2>2, <2>3, <2>4, <2>9, <2>10, <4>1
    <3>2. CASE m.s \notin Installed
      BY <2>6, <2>11, <3>2 DEF StartService, managerVars
    <3> QED BY <3>1, <3>2
  <2>12. CASE BindService
    <3>1. CASE m.s \in Installed
      <4>1. PICK msgs \in {<<>>, <<m>>} : Prepare(s, {m.conn}, FALSE, msgs) /\ m.op = "bind"
        BY <2>3, <2>12, <3>1 DEF BindService, Receives
      <4> QED BY <1>1, <2>2, <2>3, <2>4, <2>9, <2>10, <4>1
    <3>2. CASE m.s \notin Installed
      BY <2>6, <2>12, <3>2 DEF BindService, managerVars
    <3> QED BY <3>1, <3>2
  <2>13. CASE StopService
    BY <2>3, <2>6, <2>8, <2>13 DEF StopService, managerVars
  <2>14. CASE Created \/ Result
    BY <2>3, <2>6, <2>7, <2>14 DEF Created, Result, managerVars
  <2> QED BY <1>3, <2>11, <2>12, <2>13, <2>14 DEF Handle
<1> QED BY <1>2, <1>3

(***************************************************************************)
(* The stop that the service manager sends to itself.                      *)
(***************************************************************************)
\* Where no message that creates t arrives t is not created.
LEMMA CreatingStays ==
  ASSUME NEW t,
         \A j \in Instance, k \in Nat, x \in Message :
           Has(j, k, x)' /\ Is(x, "create", t) => \E n \in Nat : Has(j, n, x)
  PROVE  \A j \in Instance : Creating(j, t)' => Creating(j, t)
<1>1. SUFFICES ASSUME NEW j \in Instance, NEW k \in Nat, NEW x \in Message, Has(j, k, x)', Is(x, "create", t)
               PROVE  Creating(j, t)
  BY DEF Creating
<1>2. PICK n \in Nat : Has(j, n, x)
  BY <1>1
<1> QED BY <1>1, <1>2 DEF Creating

\* Requests for t move up by e places in the inbox, and its record stays.
LEMMA ClosingFrame ==
  ASSUME NEW t, Unbinds(t), LateStops(t), NEW e \in Nat,
         \A k \in Nat, x \in Message :
           Waits(k, x)' /\ x.s = t /\ x.op \in {"start", "bind", "stop", "unbind"} => Waits(k + e, x),
         \A j \in Instance : Creating(j, t)' => Creating(j, t),
         mServices[t] # None => mServices'[t] # None /\ mServices[t].conns \subseteq mServices'[t].conns
  PROVE  Unbinds(t)' /\ LateStops(t)'
<1>1. Unbinds(t)'
  <2>1. SUFFICES ASSUME NEW k \in Nat, NEW x \in Message, Waits(k, x)', Is(x, "unbind", t)
                 PROVE  /\ t \in Enabled /\ mServices'[t] # None /\ x.conn \in mServices'[t].conns
                        /\ \A l \in Nat, y \in Message :
                             Waits(l, y)' /\ Is(y, "unbind", t) /\ y.conn = x.conn => l = k
    BY DEF Unbinds
  <2>2. Waits(k + e, x) /\ k + e \in Nat
    BY <2>1 DEF Is
  <2>3. /\ t \in Enabled /\ mServices[t] # None /\ x.conn \in mServices[t].conns
        /\ \A l \in Nat, y \in Message : Waits(l, y) /\ Is(y, "unbind", t) /\ y.conn = x.conn => l = k + e
    BY <2>1, <2>2 DEF Unbinds
  <2>4. ASSUME NEW l \in Nat, NEW y \in Message, Waits(l, y)', Is(y, "unbind", t), y.conn = x.conn PROVE l = k
    <3>1. Waits(l + e, y) /\ l + e \in Nat
      BY <2>4 DEF Is
    <3>2. l + e = k + e
      BY <2>3, <2>4, <3>1
    <3> QED BY <3>2
  <2> QED BY <2>3, <2>4
<1>2. LateStops(t)'
  <2>1. SUFFICES ASSUME NEW k \in Nat, NEW x \in Message, Waits(k, x)', Late(x, t)
                 PROVE  /\ t \in Enabled /\ \A i \in Instance : ~Creating(i, t)'
                        /\ \A l \in Nat, y \in Message : Waits(l, y)' /\ y.s = t =>
                             /\ y.op = "unbind" \/ Late(y, t) => l >= k
                             /\ l < k /\ y.op \in {"start", "bind"} => mServices'[t] # None
    BY DEF LateStops
  <2>2. Waits(k + e, x) /\ k + e \in Nat
    BY <2>1 DEF Late
  <2>3. /\ t \in Enabled /\ \A i \in Instance : ~Creating(i, t)
        /\ \A l \in Nat, y \in Message : Waits(l, y) /\ y.s = t =>
             /\ y.op = "unbind" \/ Late(y, t) => l >= k + e
             /\ l < k + e /\ y.op \in {"start", "bind"} => mServices[t] # None
    BY <2>1, <2>2 DEF LateStops
  <2>4. ASSUME NEW l \in Nat, NEW y \in Message, Waits(l, y)', y.s = t
        PROVE  /\ y.op = "unbind" \/ Late(y, t) => l >= k
               /\ l < k /\ y.op \in {"start", "bind"} => mServices'[t] # None
    <3>1. CASE y.op = "unbind" \/ Late(y, t)
      <4>1. Waits(l + e, y) /\ l + e \in Nat
        BY <2>4, <3>1 DEF Late
      <4>2. l + e >= k + e
        BY <2>3, <2>4, <3>1, <4>1
      <4>3. l >= k
        BY <4>2
      <4> QED BY <4>3
    <3>2. CASE l < k /\ y.op \in {"start", "bind"}
      <4>1. Waits(l + e, y) /\ l + e \in Nat
        BY <2>4, <3>2
      <4>2. l + e < k + e
        BY <3>2
      <4>3. mServices'[t] # None
        BY <2>3, <2>4, <3>2, <4>1, <4>2
      <4>4. ~(y.op = "unbind" \/ Late(y, t))
        BY <3>2 DEF Late
      <4> QED BY <4>3, <4>4
    <3> QED BY <3>1, <3>2
  <2> QED BY <2>3, <2>4
<1> QED BY <1>1, <1>2

\* Nobody ends a connection to t, and no stop is on its way.
LEMMA ClosingVoid ==
  ASSUME NEW t, \A k \in Nat, x \in Message : Waits(k, x)' /\ x.s = t => x.op # "unbind" /\ ~Late(x, t)
  PROVE  Unbinds(t)' /\ LateStops(t)'
<1> QED BY DEF Unbinds, LateStops, Late, Is

\* A request that clients make when no answer is to be expected.
LEMMA AskedClosing ==
  ASSUME Kinds, NEW s \in Services, Talk(s), Unbinds(s), LateStops(s), ~Unanswered(s),
         UNCHANGED <<process, mServices>>, NEW m \in Message, Asks(m, s), inbox' = Append(inbox, m),
         m.op = "unbind" => m.conn \in Connections /\ bound[m.conn] = s
  PROVE  Unbinds(s)' /\ LateStops(s)'
<1>1. PICK b \in Nat : Gets(b, m)
  BY GetsShape
<1>2. /\ \A k \in Nat, x \in Message : Waits(k, x) => k <= b
      /\ \A k \in Nat, x \in Message : Waits(k, x)' => Waits(k, x) \/ (k = b + 1 /\ x = m)
  BY <1>1 DEF Gets
<1>3. m.s = s /\ ~Late(m, s)
  BY DEF Asks, Late
<1>4. /\ m.op = "unbind" => /\ s \in Enabled /\ mServices[s] # None /\ m.conn \in mServices[s].conns
                            /\ m.conn \in connected /\ bound[m.conn] = s
  <2>1. m.op = "unbind" => m.conn \in connected
    BY DEF Unanswered
  <2> QED BY <2>1 DEF Talk, Known
<1>5. \A j \in Instance, k \in Nat, x \in Message : Has(j, k, x)' <=> Has(j, k, x)
  BY SameShape
<1>6. Unbinds(s)'
  <2>1. SUFFICES ASSUME NEW k \in Nat, NEW x \in Message, Waits(k, x)', Is(x, "unbind", s)
                 PROVE  /\ s \in Enabled /\ mServices[s] # None /\ x.conn \in mServices[s].conns
                        /\ \A l \in Nat, y \in Message :
                             Waits(l, y)' /\ Is(y, "unbind", s) /\ y.conn = x.conn => l = k
    BY DEF Unbinds
  <2>2. \A l \in Nat, y \in Message : Waits(l, y) /\ Is(y, "unbind", s) /\ m.op = "unbind" => y.conn # m.conn
    <3>1. \A y \in Message : Is(y, "unbind", s) => Asks(y, s) /\ y.op = "unbind"
      BY DEF Is, Asks
    <3> QED BY <1>4, <3>1 DEF Talk, RequestsLast
  <2>3. CASE Waits(k, x)
    <3>1. /\ s \in Enabled /\ mServices[s] # None /\ x.conn \in mServices[s].conns
          /\ \A l \in Nat, y \in Message : Waits(l, y) /\ Is(y, "unbind", s) /\ y.conn = x.conn => l = k
      BY <2>1, <2>3 DEF Unbinds
    <3>2. Is(m, "unbind", s) => m.conn # x.conn
      BY <2>1, <2>2, <2>3 DEF Is
    <3> QED BY <1>2, <3>1, <3>2
  <2>4. CASE k = b + 1 /\ x = m
    <3>1. m.op = "unbind"
      BY <2>1, <2>4 DEF Is
    <3>2. \A l \in Nat, y \in Message : Waits(l, y)' /\ Is(y, "unbind", s) /\ y.conn = m.conn => l = b + 1
      BY <1>2, <2>2, <3>1
    <3> QED BY <1>4, <2>4, <3>1, <3>2
  <2> QED BY <1>2, <2>1, <2>3, <2>4
<1>7. LateStops(s)'
  <2>1. SUFFICES ASSUME NEW k \in Nat, NEW x \in Message, Waits(k, x)', Late(x, s)
                 PROVE  /\ s \in Enabled /\ \A i \in Instance : ~Creating(i, s)'
                        /\ \A l \in Nat, y \in Message : Waits(l, y)' /\ y.s = s =>
                             /\ y.op = "unbind" \/ Late(y, s) => l >= k
                             /\ l < k /\ y.op \in {"start", "bind"} => mServices[s] # None
    BY DEF LateStops
  <2>2. Waits(k, x) /\ k <= b
    BY <1>2, <1>3, <2>1
  <2>3. /\ s \in Enabled /\ \A i \in Instance : ~Creating(i, s)
        /\ \A l \in Nat, y \in Message : Waits(l, y) /\ y.s = s =>
             /\ y.op = "unbind" \/ Late(y, s) => l >= k
             /\ l < k /\ y.op \in {"start", "bind"} => mServices[s] # None
    BY <2>1, <2>2 DEF LateStops
  <2>4. \A i \in Instance : ~Creating(i, s)'
    BY <1>5, <2>3, CreatingStays
  <2>5. b + 1 >= k /\ ~(b + 1 < k)
    BY <2>2
  <2> QED BY <1>2, <2>3, <2>4, <2>5
<1> QED BY <1>6, <1>7

\* What a message that the service manager handles leaves for the other services.
LEMMA OthersClosing ==
  ASSUME Inv, Talks, Closing, patient, Handle, NEW m, m = Head(inbox), NEW t \in Services, t # m.s
  PROVE  Unbinds(t)' /\ LateStops(t)'
<1>1. /\ \A k \in Nat, x \in Message : Waits(k, x)' /\ x.s # m.s => Waits(k + 1, x) /\ k >= 1
      /\ \A j \in Instance, k \in Nat, x \in Message : Has(j, k, x)' /\ x.s # m.s => Has(j, k, x)
      /\ mServices'[t] = mServices[t]
  BY HandleShape
<1>2. Unbinds(t) /\ LateStops(t) /\ 1 \in Nat
  BY DEF Closing
<1>3. \A k \in Nat, x \in Message :
        Waits(k, x)' /\ x.s = t /\ x.op \in {"start", "bind", "stop", "unbind"} => Waits(k + 1, x)
  BY <1>1
<1>4. \A j \in Instance : Creating(j, t)' => Creating(j, t)
  BY <1>1, CreatingStays DEF Is
<1> QED BY <1>1, <1>2, <1>3, <1>4, ClosingFrame

\* A message that changes nothing for its service but that it is gone.
LEMMA TakenClosing ==
  ASSUME Inv, Closing, patient, inbox # <<>>, inbox' = Tail(inbox), NEW t \in Services,
         \A j \in Instance, k \in Nat, x \in Message : Has(j, k, x)' /\ Is(x, "create", t) => Has(j, k, x),
         mServices[t] # None => mServices'[t] # None /\ mServices[t].conns \subseteq mServices'[t].conns
  PROVE  Unbinds(t)' /\ LateStops(t)'
<1>1. Takes(Head(inbox))
  BY TakesShape DEF Inv
<1>2. \A k \in Nat, x \in Message : Waits(k, x)' => Waits(k + 1, x)
  BY <1>1 DEF Takes
<1>3. Unbinds(t) /\ LateStops(t) /\ 1 \in Nat
  BY DEF Closing
<1>4. \A j \in Instance : Creating(j, t)' => Creating(j, t)
  BY CreatingStays
<1> QED BY <1>2, <1>3, <1>4, ClosingFrame

\* A start or a bind: the object that a stop is on its way for is there, or no stop is.
LEMMA PreparedClosing ==
  ASSUME Inv, Talks, Closing, patient, inbox # <<>>, inbox' = Tail(inbox), NEW m, m = Head(inbox),
         m.op \in {"start", "bind"}, NEW s \in Services, s = m.s, NEW conns \in SUBSET Connections,
         NEW running \in BOOLEAN, NEW msgs \in {<<>>, <<m>>}, Prepare(s, conns, running, msgs)
  PROVE  Unbinds(s)' /\ LateStops(s)'
<1>1. m \in Message /\ Takes(m)
  BY TakesShape DEF Inv
<1>2. Unbinds(s) /\ LateStops(s)
  BY DEF Closing
<1>3. msgs \in Seq(Message) /\ Blank /\ instances < MaxCalls
  <2>1. <<m>> \in Seq(Message) /\ <<>> \in Seq(Message)
    BY <1>1
  <2> QED BY <2>1, RoomToStart DEF Talks
<1>4. Prepared(s, conns, msgs)
  BY <1>3, PrepareShape
<1>5. PICK i \in Instance, b \in Nat, ms \in Seq(Message) :
        /\ ms = CreateIfNew(s) \o msgs /\ Adds(i, b, ms) /\ mServices'[s] # None
        /\ mServices'[s].conns = (IF mServices[s] = None THEN {} ELSE mServices[s].conns) \cup conns
  BY <1>4 DEF Prepared
<1>6. CASE mServices[s] # None
  <2>1. ms = msgs
    <3>1. \A q \in Seq(Message) : <<>> \o q = q
      BY ConcatEmptySeq
    <3> QED BY <1>3, <1>5, <1>6, <3>1 DEF CreateIfNew
  <2>2. \A n \in 1 .. Len(ms) : ms[n] = m
    <3>1. \A n \in 1 .. Len(<<m>>) : <<m>>[n] = m
      OBVIOUS
    <3>2. \A n \in 1 .. Len(<<>>) : FALSE
      OBVIOUS
    <3> QED BY <2>1, <3>1, <3>2
  <2>3. \A j \in Instance, k \in Nat, x \in Message : Has(j, k, x)' => Has(j, k, x) \/ x = m
    <3>1. Adds(i, b, ms)
      BY <1>5
    <3> QED BY <2>2, <3>1 DEF Adds
  <2>4. \A j \in Instance, k \in Nat, x \in Message : Has(j, k, x)' /\ Is(x, "create", s) => Has(j, k, x)
    BY <2>3 DEF Is
  <2>5. mServices'[s] # None /\ mServices[s].conns \subseteq mServices'[s].conns
    BY <1>5, <1>6
  <2> QED BY <2>4, <2>5, TakenClosing
<1>7. CASE mServices[s] = None
  <2>1. ASSUME NEW k \in Nat, NEW x \in Message, Waits(k, x)', x.s = s PROVE x.op # "unbind" /\ ~Late(x, s)
    <3>1. Waits(k + 1, x) /\ k >= 1 /\ k + 1 \in Nat /\ Waits(1, m) /\ 1 \in Nat
      BY <1>1, <2>1 DEF Takes
    <3>2. x.op # "unbind"
      BY <1>2, <1>7, <2>1, <3>1 DEF Unbinds, Is
    <3>3. 1 < k + 1
      BY <3>1
    <3>4. ~Late(x, s)
      BY <1>1, <1>2, <1>7, <3>1, <3>3 DEF LateStops
    <3> QED BY <3>2, <3>4
  <2> QED BY <2>1, ClosingVoid
<1> QED BY <1>6, <1>7

\* A stop that is carried out.
LEMMA StopClosing ==
  ASSUME Inv, Talks, Closing, patient, StopService, NEW m, m = Head(inbox), NEW s \in Services, s = m.s
  PROVE  Unbinds(s)' /\ LateStops(s)'
<1> USE DEF Inv
<1>1. inbox # <<>> /\ m.op = "stop" /\ inbox' = Tail(inbox)
  BY DEF StopService, Receives
<1>2. m \in Message /\ Takes(m)
  BY <1>1, TakesShape
<1>3. Unbinds(s) /\ LateStops(s) /\ Talk(s)
  BY DEF Closing, Talks
<1>4. CASE ~Stoppable(s)
  <2>1. UNCHANGED <<mServices, process>>
    BY <1>4 DEF StopService, managerVars
  <2>2. \A j \in Instance, k \in Nat, x \in Message : Has(j, k, x)' <=> Has(j, k, x)
    BY <2>1, SameShape
  <2> QED BY <1>1, <2>1, <2>2, TakenClosing
<1>5. CASE Stoppable(s)
  <2>1. process' = Sent(mServices[s].proc, <<m>>)
    BY <1>5 DEF StopService
  <2>2. PICK i : i = mServices[s].proc
    OBVIOUS
  <2>3. i \in Instance
    <3>1. Recorded(s, i)
      BY <1>5, <2>2 DEF Recorded, Stoppable
    <3> QED BY <3>1, RecordedRuns
  <2>4. PICK ms \in Seq(Message) : ms = <<m>>
    <3>1. <<m>> \in Seq(Message)
      BY <1>2
    <3> QED BY <3>1
  <2>5. PICK b \in Nat : Adds(i, b, ms)
    BY <2>1, <2>2, <2>3, <2>4, SentShape
  <2>6. \A n \in 1 .. Len(ms) : ms[n] = m
    BY <2>4
  <2>7. \A j \in Instance, k \in Nat, x \in Message : Has(j, k, x)' => Has(j, k, x) \/ x = m
    BY <2>5, <2>6 DEF Adds
  <2>8. \A j \in Instance : Creating(j, s)' => Creating(j, s)
    <3>1. \A j \in Instance, k \in Nat, x \in Message : Has(j, k, x)' /\ Is(x, "create", s) => Has(j, k, x)
      BY <1>1, <2>7 DEF Is
    <3> QED BY <3>1, CreatingStays
  <2>9. /\ Waits(1, m) /\ 1 \in Nat
        /\ \A k \in Nat, x \in Message : Waits(k, x)' => Waits(k + 1, x) /\ k >= 1 /\ k + 1 \in Nat
    BY <1>2 DEF Takes
  <2>10. \A k \in Nat, x \in Message : Waits(k, x)' /\ x.s = s => x.op # "unbind"
    BY <1>3, <1>5, <2>9 DEF Unbinds, Is, Stoppable
  <2>11. CASE m.id = 0
    <3>1. Late(m, s)
      BY <1>1, <2>11 DEF Late
    <3>2. ASSUME NEW k \in Nat, NEW x \in Message, Waits(k, x)', Late(x, s) PROVE FALSE
      <4>1. Waits(k + 1, x) /\ k >= 1 /\ k + 1 \in Nat
        BY <2>9, <3>2
      <4>2. 1 >= k + 1
        BY <1>2, <1>3, <2>9, <3>1, <3>2, <4>1 DEF LateStops
      <4> QED BY <4>1, <4>2
    <3> QED BY <2>10, <3>2, ClosingVoid
  <2>12. CASE m.id # 0
    <3>1. Asks(m, s) /\ m.op # "unbind"
      BY <1>1, <2>12 DEF Asks
    <3>2. \A l \in Nat, y \in Message : Waits(l, y) /\ Asks(y, s) => l <= 1
      BY <1>2, <1>3, <2>9, <3>1 DEF Talk, RequestsLast
    <3>3. \A k \in Nat, x \in Message : Waits(k, x)' /\ x.s = s => x.op \notin {"start", "bind"}
      BY <2>9, <3>2 DEF Asks
    <3>4. Unbinds(s)'
      BY <2>10 DEF Unbinds, Is
    <3>5. LateStops(s)'
      <4>1. SUFFICES ASSUME NEW k \in Nat, NEW x \in Message, Waits(k, x)', Late(x, s)
                     PROVE  /\ s \in Enabled /\ \A j \in Instance : ~Creating(j, s)'
                            /\ \A l \in Nat, y \in Message : Waits(l, y)' /\ y.s = s =>
                                 /\ y.op = "unbind" \/ Late(y, s) => l >= k
                                 /\ l < k /\ y.op \in {"start", "bind"} => mServices'[s] # None
        BY DEF LateStops
      <4>2. Waits(k + 1, x) /\ k + 1 \in Nat
        BY <2>9, <4>1
      <4>3. /\ s \in Enabled /\ \A j \in Instance : ~Creating(j, s)
            /\ \A l \in Nat, y \in Message : Waits(l, y) /\ y.s = s /\ Late(y, s) => l >= k + 1
        BY <1>3, <4>1, <4>2 DEF LateStops
      <4>4. ASSUME NEW l \in Nat, NEW y \in Message, Waits(l, y)', Late(y, s) PROVE l >= k
        <5>1. l + 1 >= k + 1
          BY <2>9, <4>3, <4>4 DEF Late
        <5> QED BY <5>1
      <4> QED BY <2>8, <2>10, <3>3, <4>3, <4>4
    <3> QED BY <3>4, <3>5
  <2> QED BY <2>11, <2>12
<1> QED BY <1>4, <1>5

\* The end of a connection, and with the last one the stop behind everything that waits.
LEMMA UnbindClosing ==
  ASSUME Inv, Talks, Closing, patient, UnbindService, NEW m, m = Head(inbox), NEW s \in Services, s = m.s
  PROVE  Unbinds(s)' /\ LateStops(s)'
<1> USE DEF Inv
<1>1. m \in Message /\ m.op = "unbind" /\ Drops(m)
  BY UnbindInbox
<1>2. PICK b \in Nat, late \in Message : Parts(m, b, late)
  BY UnbindInbox
<1>3. Unbinds(s) /\ LateStops(s) /\ Talk(s)
  BY DEF Closing, Talks
<1>4. Waits(1, m) /\ 1 \in Nat /\ Is(m, "unbind", s)
  BY <1>1 DEF Drops, Is
<1>5. /\ s \in Enabled /\ mServices[s] # None
      /\ \A l \in Nat, y \in Message : Waits(l, y) /\ Is(y, "unbind", s) /\ y.conn = m.conn => l = 1
  BY <1>1, <1>3, <1>4 DEF Unbinds
<1>6. PICK rest : rest = mServices[s].conns \ {m.conn}
  OBVIOUS
<1>7. process' = Sent(mServices[s].proc, <<m>>) /\ mServices'[s] # None /\ mServices'[s].conns = rest
  BY <1>5, <1>6, UnbindRecord
<1>8. \A j \in Instance : ~Creating(j, s)'
  <2>1. PICK i : i = mServices[s].proc
    OBVIOUS
  <2>2. i \in Instance
    <3>1. Recorded(s, i)
      BY <1>5, <2>1 DEF Recorded
    <3> QED BY <3>1, RecordedRuns
  <2>3. PICK ms \in Seq(Message) : ms = <<m>>
    <3>1. <<m>> \in Seq(Message)
      BY <1>1
    <3> QED BY <3>1
  <2>4. PICK h \in Nat : Adds(i, h, ms)
    BY <1>7, <2>1, <2>2, <2>3, SentShape
  <2>5. \A n \in 1 .. Len(ms) : ms[n] = m
    BY <2>3
  <2>6. \A j \in Instance, k \in Nat, x \in Message : Has(j, k, x)' => Has(j, k, x) \/ x = m
    BY <2>4, <2>5 DEF Adds
  <2>7. Asks(m, s)
    BY <1>1 DEF Asks
  <2>8. Calm(s)
    BY <1>1, <1>3, <2>7, Handled
  <2>9. \A x \in Message : Is(x, "create", s) => Token(x, s) /\ x # m
    BY <1>1 DEF Is, Token
  <2> QED BY <2>6, <2>8, <2>9 DEF Calm, Creating
<1>9. \A k \in Nat, x \in Message : Waits(k, x) => k >= 1 /\ k <= b /\ (k = 1 => x = m)
  BY <1>2 DEF Parts
<1>10. \A k \in Nat, x \in Message : Waits(k, x) => ~Late(x, s)
  <2>1. SUFFICES ASSUME NEW k \in Nat, NEW x \in Message, Waits(k, x), Late(x, s) PROVE FALSE
    OBVIOUS
  <2>2. 1 >= k
    BY <1>1, <1>3, <1>4, <2>1 DEF LateStops, Is
  <2>3. x = m
    BY <1>9, <2>1, <2>2
  <2> QED BY <1>1, <2>1, <2>3 DEF Late
<1>11. ASSUME NEW k \in Nat, NEW x \in Message, Waits(k, x)'
       PROVE  \/ Waits(k + 1, x) /\ k + 1 \in Nat /\ k >= 1 /\ k + 1 <= b /\ ~Late(x, s)
              \/ k = b /\ x = late /\ Late(late, s) /\ rest = {}
  <2>1. /\ Late(late, s)
        /\ \/ Waits(k + 1, x) /\ k >= 1
           \/ k = b /\ x = late /\ rest = {}
    BY <1>2, <1>6, <1>11 DEF Parts
  <2> QED BY <1>9, <1>10, <2>1
<1>12. \A k \in Nat, x \in Message : Waits(k, x)' /\ Is(x, "unbind", s) =>
         Waits(k + 1, x) /\ k + 1 \in Nat /\ k >= 1 /\ x.conn \in rest
  <2>1. SUFFICES ASSUME NEW k \in Nat, NEW x \in Message, Waits(k, x)', Is(x, "unbind", s)
                 PROVE  Waits(k + 1, x) /\ k + 1 \in Nat /\ k >= 1 /\ x.conn \in rest
    OBVIOUS
  <2>2. Waits(k + 1, x) /\ k + 1 \in Nat /\ k >= 1
    BY <1>11, <2>1 DEF Is, Late
  <2>3. x.conn \in mServices[s].conns
    BY <1>3, <2>1, <2>2 DEF Unbinds
  <2>4. k + 1 # 1
    BY <2>2
  <2>5. x.conn # m.conn
    BY <1>5, <2>1, <2>2, <2>4
  <2> QED BY <1>6, <2>2, <2>3, <2>5
<1>13. Unbinds(s)'
  <2>1. SUFFICES ASSUME NEW k \in Nat, NEW x \in Message, Waits(k, x)', Is(x, "unbind", s)
                 PROVE  /\ s \in Enabled /\ mServices'[s] # None /\ x.conn \in mServices'[s].conns
                        /\ \A l \in Nat, y \in Message :
                             Waits(l, y)' /\ Is(y, "unbind", s) /\ y.conn = x.conn => l = k
    BY DEF Unbinds
  <2>2. Waits(k + 1, x) /\ k + 1 \in Nat /\ x.conn \in rest
    BY <1>12, <2>1
  <2>3. ASSUME NEW l \in Nat, NEW y \in Message, Waits(l, y)', Is(y, "unbind", s), y.conn = x.conn PROVE l = k
    <3>1. Waits(l + 1, y) /\ l + 1 \in Nat
      BY <1>12, <2>3
    <3>2. l + 1 = k + 1
      BY <1>3, <2>1, <2>2, <2>3, <3>1 DEF Unbinds
    <3> QED BY <3>2
  <2> QED BY <1>5, <1>7, <2>2, <2>3
<1>14. LateStops(s)'
  <2>1. SUFFICES ASSUME NEW k \in Nat, NEW x \in Message, Waits(k, x)', Late(x, s)
                 PROVE  /\ s \in Enabled /\ \A j \in Instance : ~Creating(j, s)'
                        /\ \A l \in Nat, y \in Message : Waits(l, y)' /\ y.s = s =>
                             /\ y.op = "unbind" \/ Late(y, s) => l >= k
                             /\ l < k /\ y.op \in {"start", "bind"} => mServices'[s] # None
    BY DEF LateStops
  <2>2. k = b /\ rest = {}
    BY <1>11, <2>1
  <2>3. \A l \in Nat, y \in Message : Waits(l, y)' /\ y.s = s => y.op # "unbind"
    BY <1>12, <2>2 DEF Is
  <2>4. \A l \in Nat, y \in Message : Waits(l, y)' /\ Late(y, s) => l = b
    BY <1>11
  <2>5. b >= b
    OBVIOUS
  <2> QED BY <1>5, <1>7, <1>8, <2>2, <2>3, <2>4, <2>5
<1> QED BY <1>13, <1>14

\* A service that could not be created: nobody ended a connection to it.
LEMMA NotCreatedClosing ==
  ASSUME Inv, Talks, Closing, patient, inbox # <<>>, inbox' = Tail(inbox), NEW m, m = Head(inbox),
         m.op = "notCreated", NEW s \in Services, s = m.s
  PROVE  Unbinds(s)' /\ LateStops(s)'
<1>1. m \in Message /\ Takes(m)
  BY TakesShape DEF Inv
<1>2. Unbinds(s) /\ LateStops(s) /\ Talk(s)
  BY DEF Closing, Talks
<1>3. Waits(1, m) /\ Is(m, "notCreated", s) /\ 1 \in Nat
  BY <1>1 DEF Takes, Is
<1>4. s \notin Enabled
  BY <1>1, <1>2, <1>3 DEF Talk, Failures
<1>5. ASSUME NEW k \in Nat, NEW x \in Message, Waits(k, x)', x.s = s PROVE x.op # "unbind" /\ ~Late(x, s)
  <2>1. Waits(k + 1, x) /\ k + 1 \in Nat
    BY <1>1, <1>5 DEF Takes
  <2> QED BY <1>2, <1>4, <1>5, <2>1 DEF Unbinds, LateStops, Is
<1> QED BY <1>5, ClosingVoid

\* The service manager's thread.
LEMMA HandleClosing ==
  ASSUME Inv, Talks, Closing, Handle
  PROVE  Closing'
<1>1. UNCHANGED patient
  BY DEF Handle, StartService, BindService, StopService, UnbindService, Created, Result
<1> SUFFICES ASSUME patient, NEW t \in Services PROVE Unbinds(t)' /\ LateStops(t)'
  BY <1>1 DEF Closing
<1>2. PICK m : m = Head(inbox)
  OBVIOUS
<1>3. CASE t # m.s
  BY <1>2, <1>3, OthersClosing
<1>4. CASE t = m.s
  <2>1. ASSUME inbox # <<>>, inbox' = Tail(inbox), UNCHANGED <<mServices, process>>
        PROVE  Unbinds(t)' /\ LateStops(t)'
    <3>1. \A j \in Instance, k \in Nat, x \in Message : Has(j, k, x)' <=> Has(j, k, x)
      BY <2>1, SameShape
    <3> QED BY <2>1, <3>1, TakenClosing
  <2>2. CASE StartService
    <3>1. m.op = "start" /\ inbox # <<>> /\ inbox' = Tail(inbox)
      BY <1>2, <2>2 DEF StartService, Receives
    <3>2. CASE m.s \in Installed
      <4>1. Prepare(m.s, {}, TRUE, <<m>>)
        BY <1>2, <2>2, <3>2 DEF StartService
      <4>2. PICK conns \in SUBSET Connections, msgs \in {<<>>, <<m>>} : conns = {} /\ msgs = <<m>>
        OBVIOUS
      <4>3. Prepare(t, conns, TRUE, msgs)
        BY <1>4, <4>1, <4>2
      <4> QED BY <1>2, <1>4, <3>1, <4>3, PreparedClosing
    <3>3. CASE m.s \notin Installed
      BY <1>2, <2>1, <2>2, <3>1, <3>3 DEF StartService, managerVars
    <3> QED BY <3>2, <3>3
  <2>3. CASE BindService
    <3>1. m.op = "bind" /\ inbox # <<>> /\ inbox' = Tail(inbox)
      BY <1>2, <2>3 DEF BindService, Receives
    <3>2. m \in Message /\ m.conn \in Connections
      <4>1. m \in Message
        BY <1>2, <3>1, TakesShape DEF Inv
      <4> QED BY <3>1, <4>1 DEF Message
    <3>3. CASE m.s \in Installed
      <4>1. PICK msgs \in {<<>>, <<m>>} : Prepare(m.s, {m.conn}, FALSE, msgs)
        BY <1>2, <2>3, <3>3 DEF BindService
      <4>2. PICK conns \in SUBSET Connections : conns = {m.conn}
        BY <3>2
      <4>3. Prepare(t, conns, FALSE, msgs)
        BY <1>4, <4>1, <4>2
      <4> QED BY <1>2, <1>4, <3>1, <4>3, PreparedClosing
    <3>4. CASE m.s \notin Installed
      BY <1>2, <2>1, <2>3, <3>1, <3>4 DEF BindService, managerVars
    <3> QED BY <3>3, <3>4
  <2>4. CASE Created
    <3>1. inbox # <<>> /\ inbox' = Tail(inbox) /\ UNCHANGED process
      BY <2>4 DEF Created, Receives
    <3>2. CASE ToCleanUp(m)
      BY <1>2, <1>4, <3>1, <3>2, NotCreatedClosing DEF ToCleanUp
    <3>3. CASE ~ToCleanUp(m)
      BY <1>2, <2>1, <2>4, <3>1, <3>3 DEF Created, managerVars
    <3> QED BY <3>2, <3>3
  <2>5. CASE Result
    BY <2>1, <2>5 DEF Result, Receives, managerVars
  <2> QED BY <1>2, <1>4, <2>2, <2>3, <2>4, <2>5, StopClosing, UnbindClosing DEF Handle
<1> QED BY <1>3, <1>4

\* Clients that wait for answers.
LEMMA ClientClosing ==
  ASSUME Inv, Talks, Closing,
         \/ \E s \in Services : Request("start", s) \/ Request("stop", s)
         \/ \E s \in Services, c \in Connections : Bind(s, c)
         \/ \E c \in Connections : Unbind(c)
  PROVE  Closing'
<1> USE DEF Inv
<1>1. UNCHANGED <<patient, mServices, process>>
  BY DEF Request, Bind, Unbind, managerVars
<1> SUFFICES ASSUME patient PROVE Closing'
  BY <1>1 DEF Closing
<1>2. \A t \in Services : Talk(t) /\ Unbinds(t) /\ LateStops(t)
  BY DEF Talks, Closing
<1>3. ASSUME NEW s \in Services, NEW m \in Message, Asks(m, s), inbox' = Append(inbox, m), ~Unanswered(s),
             m.op = "unbind" => m.conn \in Connections /\ bound[m.conn] = s
      PROVE  Closing'
  <2>1. PICK b \in Nat : Gets(b, m)
    BY <1>3, GetsShape
  <2>2. ASSUME NEW t \in Services PROVE Unbinds(t)' /\ LateStops(t)'
    <3>1. CASE t = s
      BY <1>1, <1>2, <1>3, <3>1, AskedClosing
    <3>2. CASE t # s
      <4>1. \A k \in Nat, x \in Message :
              Waits(k, x)' /\ x.s = t /\ x.op \in {"start", "bind", "stop", "unbind"} => Waits(k + 0, x)
        <5>1. \A k \in Nat : k + 0 = k
          OBVIOUS
        <5> QED BY <1>3, <2>1, <3>2, <5>1 DEF Gets, Asks
      <4>2. \A j \in Instance : Creating(j, t)' => Creating(j, t)
        <5>1. \A j \in Instance, k \in Nat, x \in Message : Has(j, k, x)' <=> Has(j, k, x)
          BY <1>1, SameShape
        <5> QED BY <5>1, CreatingStays
      <4>3. 0 \in Nat
        OBVIOUS
      <4> QED BY <1>1, <1>2, <4>1, <4>2, <4>3, ClosingFrame
    <3> QED BY <3>1, <3>2
  <2> QED BY <2>2 DEF Closing
<1>4. ASSUME NEW op \in {"start", "stop"}, NEW s \in Services, Request(op, s) PROVE Closing'
  <2>1. /\ ~Unanswered(s) /\ Len(calls) < MaxCalls
        /\ inbox' = Append(inbox, Msg(op, s, Len(calls) + 1, None))
    BY <1>4 DEF Request, MayCall
  <2>2. PICK m : m = Msg(op, s, Len(calls) + 1, None)
    OBVIOUS
  <2>3. Len(calls) \in Nat
    BY Numbers DEF Kinds
  <2>4. m \in Message /\ Asks(m, s) /\ m.op = op
    BY <2>1, <2>2, <2>3, ServiceManagerAssumption DEF Msg, Message, Op, Id, Asks
  <2> QED BY <1>3, <2>1, <2>2, <2>4
<1>5. ASSUME NEW s \in Services, NEW c \in Connections, Bind(s, c) PROVE Closing'
  <2>1. ~Unanswered(s) /\ inbox' = Append(inbox, Msg("bind", s, 0, c))
    BY <1>5 DEF Bind, MayCall
  <2>2. PICK m : m = Msg("bind", s, 0, c)
    OBVIOUS
  <2>3. m \in Message /\ Asks(m, s) /\ m.op = "bind"
    BY <2>2, ServiceManagerAssumption DEF Msg, Message, Op, Id, Asks
  <2> QED BY <1>3, <2>1, <2>2, <2>3
<1>6. ASSUME NEW c \in Connections, Unbind(c) PROVE Closing'
  <2>1. PICK s : s = bound[c]
    OBVIOUS
  <2>2. s \in Services /\ ~Unanswered(s) /\ inbox' = Append(inbox, Msg("unbind", s, 0, c))
    BY <1>6, <2>1 DEF Unbind, Kinds
  <2>3. PICK m : m = Msg("unbind", s, 0, c)
    OBVIOUS
  <2>4. m \in Message /\ Asks(m, s) /\ m.conn = c
    BY <2>2, <2>3, ServiceManagerAssumption DEF Msg, Message, Op, Id, Asks
  <2> QED BY <1>3, <2>1, <2>2, <2>3, <2>4
<1> QED BY <1>4, <1>5, <1>6

\* What the other threads do reaches the requests and stops that wait not at all.
LEMMA QuietClosing ==
  ASSUME Closing, UNCHANGED <<patient, mServices>>,
         \A k \in Nat, x \in Message :
           Waits(k, x)' /\ x.op \in {"start", "bind", "stop", "unbind"} => Waits(k, x),
         \A j \in Instance, k \in Nat, x \in Message :
           Has(j, k, x)' /\ x.op = "create" => \E n \in Nat : Has(j, n, x)
  PROVE  Closing'
<1> SUFFICES ASSUME patient, NEW t \in Services PROVE Unbinds(t)' /\ LateStops(t)'
  BY DEF Closing
<1>1. Unbinds(t) /\ LateStops(t) /\ 0 \in Nat
  BY DEF Closing
<1>2. \A k \in Nat, x \in Message :
        Waits(k, x)' /\ x.s = t /\ x.op \in {"start", "bind", "stop", "unbind"} => Waits(k + 0, x)
  <2>1. \A k \in Nat : k + 0 = k
    OBVIOUS
  <2> QED BY <2>1
<1>3. \A j \in Instance : Creating(j, t)' => Creating(j, t)
  BY CreatingStays DEF Is
<1> QED BY <1>1, <1>2, <1>3, ClosingFrame

\* Every step keeps the unbinds and the stops that wait in order.
LEMMA NextClosing ==
  ASSUME Inv, Talks, Closing, [Next]_vars
  PROVE  Closing'
<1>1. CASE OnServiceConnected \/ UNCHANGED vars
  <2>1. UNCHANGED <<patient, mServices, inbox, process>>
    BY <1>1 DEF OnServiceConnected, vars, managerVars
  <2>2. /\ \A k \in Nat, x \in Message : Waits(k, x)' <=> Waits(k, x)
        /\ \A j \in Instance, k \in Nat, x \in Message : Has(j, k, x)' <=> Has(j, k, x)
    BY <2>1, SameShape
  <2> QED BY <2>1, <2>2, QuietClosing
<1>2. ASSUME NEW i \in Instance, Work(i) PROVE Closing'
  <2>1. NoneNew /\ Reports(i) /\ WorkStill
    BY <1>2, WorkShape
  <2>2. \A k \in Nat, x \in Message :
          Waits(k, x)' /\ x.op \in {"start", "bind", "stop", "unbind"} => Waits(k, x)
    <3>1. CASE UNCHANGED inbox
      BY <3>1, SameShape
    <3>2. ASSUME NEW r \in Message, inbox' = Append(inbox, r), r.op \in {"created", "result", "notCreated"}
          PROVE  \A k \in Nat, x \in Message :
                   Waits(k, x)' /\ x.op \in {"start", "bind", "stop", "unbind"} => Waits(k, x)
      <4>1. PICK b \in Nat : Gets(b, r)
        BY <3>2, GetsShape DEF Inv
      <4> QED BY <3>2, <4>1 DEF Gets
    <3> QED BY <2>1, <3>1, <3>2 DEF Reports
  <2>3. \A j \in Instance, k \in Nat, x \in Message : Has(j, k, x)' => \E n \in Nat : Has(j, n, x)
    BY <2>1 DEF NoneNew
  <2> QED BY <2>1, <2>2, <2>3, QuietClosing DEF WorkStill
<1>3. CASE Stop \/ Waited \/ TimedOut \/ Joined
  <2>1. /\ UNCHANGED <<patient, mServices, inbox>>
        /\ \A j \in Instance, k \in Nat, x \in Message :
             Has(j, k, x)' => Has(j, k, x) \/ (x.op = "stop" /\ x.id = 0)
    BY <1>3, StoppingShape
  <2>2. \A j \in Instance, k \in Nat, x \in Message : Has(j, k, x)' /\ x.op = "create" => Has(j, k, x)
    BY <2>1
  <2> QED BY <2>1, <2>2, SameShape, QuietClosing
<1> QED BY <1>1, <1>2, <1>3, ClientClosing, HandleClosing DEF Next

(***************************************************************************)
(* The calls of onServiceConnected that wait.                              *)
(***************************************************************************)
\* A client that will be told that it is connected to t waits for that still.
LEMMA GreetedStays ==
  ASSUME NEW t \in Services, NEW c, Greeted(c, t), c \notin connected',
         \A j \in Instance, k \in Nat, x \in Message : Has(j, k, x)' /\ Token(x, t) => \E n \in Nat : Has(j, n, x),
         \A k \in Nat, x \in Message : Waits(k, x)' /\ x.s = t => Quiet(x) \/ \E n \in Nat : Waits(n, x),
         mServices'[t] = mServices[t]
  PROVE  Greeted(c, t)'
<1>1. Calm(t)'
  BY DEF Greeted, Calm
<1>2. Idle(t)'
  <2>1. SUFFICES ASSUME NEW k \in Nat, NEW x \in Message, Waits(k, x)', x.s = t PROVE Quiet(x)
    BY DEF Idle
  <2> QED BY <2>1 DEF Greeted, Idle
<1> QED BY <1>1, <1>2 DEF Greeted

\* Nobody is told anything, and no connection changes.
LEMMA GreetingStays ==
  ASSUME Greeting, UNCHANGED <<patient, bound, posted, connected>>,
         patient => \A t \in Services, c \in Connections : Greeted(c, t) /\ bound[c] = t => Greeted(c, t)'
  PROVE  Greeting'
<1> SUFFICES ASSUME patient PROVE Greeting'
  BY DEF Greeting
<1>1. \A k \in Nat, c \in Connections : Pending(k, c)' <=> Pending(k, c)
  BY DEF Pending
<1>2. ASSUME NEW t \in Services PROVE Greets(t)'
  <2>1. Greets(t)
    BY DEF Greeting
  <2> QED BY <1>1, <2>1 DEF Greets
<1> QED BY <1>1, <1>2 DEF Greeting

\* A client asks for s while none is to be told that it is connected to s.
LEMMA AskedGreeting ==
  ASSUME Inv, Greeting, patient, UNCHANGED <<patient, posted, mServices, process>>, NEW s \in Services,
         NEW m \in Message, Asks(m, s), inbox' = Append(inbox, m), ~Unanswered(s), connected' \subseteq connected,
         \A c \in Connections : \/ bound'[c] = bound[c]
                                \/ bound[c] = None /\ bound'[c] = s
                                \/ bound[c] = s /\ bound'[c] = None
  PROVE  Greeting'
<1>1. \A k \in Nat, c \in Connections : Pending(k, c)' <=> Pending(k, c)
  BY DEF Pending
<1>2. ASSUME NEW k \in Nat, NEW c \in Connections, Pending(k, c)
      PROVE  bound[c] # None /\ bound[c] # s /\ bound'[c] = bound[c]
  <2>1. bound[c] # None
    BY <1>2 DEF Greeting
  <2>2. bound[c] = s => c \notin connected
    BY <1>2 DEF Greeting, Greets, Greeted
  <2>3. bound[c] # s
    BY <2>2 DEF Unanswered
  <2> QED BY <2>1, <2>3
<1>3. PICK b \in Nat : Gets(b, m)
  BY GetsShape DEF Inv
<1>4. ASSUME NEW t \in Services, NEW k \in Nat, NEW c \in Connections, Pending(k, c)', bound'[c] = t
      PROVE  Greeted(c, t)'
  <2>1. Pending(k, c) /\ bound[c] = t /\ t # s
    BY <1>1, <1>2, <1>4
  <2>2. Greeted(c, t)
    BY <2>1 DEF Greeting, Greets
  <2>3. c \notin connected'
    BY <2>2 DEF Greeted
  <2>4. \A j \in Instance, n \in Nat, x \in Message : Has(j, n, x)' <=> Has(j, n, x)
    BY SameShape
  <2>5. \A n \in Nat, x \in Message : Waits(n, x)' /\ x.s = t => Waits(n, x)
    BY <1>3, <2>1 DEF Gets, Asks
  <2> QED BY <2>2, <2>3, <2>4, <2>5, GreetedStays
<1>5. \A t \in Services : Greets(t)'
  BY <1>4 DEF Greets
<1> QED BY <1>1, <1>2, <1>5 DEF Greeting

\* Clients that wait for answers.
LEMMA ClientGreeting ==
  ASSUME Inv, Greeting,
         \/ \E s \in Services : Request("start", s) \/ Request("stop", s)
         \/ \E s \in Services, c \in Connections : Bind(s, c)
         \/ \E c \in Connections : Unbind(c)
  PROVE  Greeting'
<1> USE DEF Inv
<1>1. UNCHANGED <<patient, mServices, process, posted>>
  BY DEF Request, Bind, Unbind, managerVars
<1> SUFFICES ASSUME patient PROVE Greeting'
  BY <1>1 DEF Greeting
<1>2. ASSUME NEW op \in {"start", "stop"}, NEW s \in Services, Request(op, s) PROVE Greeting'
  <2>1. /\ ~Unanswered(s) /\ Len(calls) < MaxCalls /\ UNCHANGED <<bound, connected>>
        /\ inbox' = Append(inbox, Msg(op, s, Len(calls) + 1, None))
    BY <1>2 DEF Request, MayCall
  <2>2. PICK m : m = Msg(op, s, Len(calls) + 1, None)
    OBVIOUS
  <2>3. Len(calls) \in Nat
    BY Numbers DEF Kinds
  <2>4. m \in Message /\ Asks(m, s)
    BY <2>1, <2>2, <2>3, ServiceManagerAssumption DEF Msg, Message, Op, Id, Asks
  <2> QED BY <1>1, <2>1, <2>2, <2>4, AskedGreeting
<1>3. ASSUME NEW s \in Services, NEW c \in Connections, Bind(s, c) PROVE Greeting'
  <2>1. /\ ~Unanswered(s) /\ inbox' = Append(inbox, Msg("bind", s, 0, c)) /\ bound[c] = None
        /\ bound' = [bound EXCEPT ![c] = s] /\ connected' = connected \ {c}
    BY <1>3 DEF Bind, MayCall
  <2>2. PICK m : m = Msg("bind", s, 0, c)
    OBVIOUS
  <2>3. m \in Message /\ Asks(m, s)
    BY <2>2, ServiceManagerAssumption DEF Msg, Message, Op, Id, Asks
  <2>4. \A d \in Connections : bound'[d] = bound[d] \/ (bound[d] = None /\ bound'[d] = s)
    BY <2>1 DEF Kinds
  <2> QED BY <1>1, <2>1, <2>2, <2>3, <2>4, AskedGreeting
<1>4. ASSUME NEW c \in Connections, Unbind(c) PROVE Greeting'
  <2>1. PICK s : s = bound[c]
    OBVIOUS
  <2>2. /\ s \in Services /\ ~Unanswered(s) /\ inbox' = Append(inbox, Msg("unbind", s, 0, c))
        /\ bound' = [bound EXCEPT ![c] = None] /\ connected' = connected \ {c}
    BY <1>4, <2>1 DEF Unbind, Kinds
  <2>3. PICK m : m = Msg("unbind", s, 0, c)
    OBVIOUS
  <2>4. m \in Message /\ Asks(m, s)
    BY <2>2, <2>3, ServiceManagerAssumption DEF Msg, Message, Op, Id, Asks
  <2>5. \A d \in Connections : bound'[d] = bound[d] \/ (bound[d] = s /\ bound'[d] = None)
    BY <2>1, <2>2 DEF Kinds
  <2> QED BY <1>1, <2>2, <2>3, <2>4, <2>5, AskedGreeting
<1> QED BY <1>2, <1>3, <1>4

\* The context's handler tells a client.
LEMMA ConnectedGreeting ==
  ASSUME Inv, Greeting, OnServiceConnected
  PROVE  Greeting'
<1>1. UNCHANGED <<process, mServices, patient, inbox, bound>>
  BY DEF OnServiceConnected, managerVars
<1> SUFFICES ASSUME patient PROVE Greeting'
  BY <1>1 DEF Greeting
<1>2. PICK c : c = Head(posted)
  OBVIOUS
<1>3. /\ c \in Connections /\ Pending(1, c) /\ 1 \in Nat /\ connected' = connected \cup {c}
      /\ \A k \in Nat, d \in Connections : Pending(k, d)' => Pending(k + 1, d) /\ k >= 1 /\ k + 1 \in Nat
  BY <1>2, PostedShape DEF Inv
<1>4. \A k \in Nat, d \in Connections : Pending(k, d)' => d # c
  <2>1. SUFFICES ASSUME NEW k \in Nat, Pending(k, c)' PROVE FALSE
    BY <1>3
  <2>2. Pending(k + 1, c) /\ k >= 1 /\ k + 1 \in Nat
    BY <1>3, <2>1
  <2>3. k + 1 = 1
    BY <1>3, <2>2 DEF Greeting
  <2> QED BY <2>2, <2>3
<1>5. ASSUME NEW t \in Services, NEW k \in Nat, NEW d \in Connections, Pending(k, d)', bound'[d] = t
      PROVE  Greeted(d, t)'
  <2>1. Pending(k + 1, d) /\ k + 1 \in Nat /\ bound[d] = t
    BY <1>1, <1>3, <1>5
  <2>2. Greeted(d, t)
    BY <2>1 DEF Greeting, Greets
  <2>3. d \notin connected'
    BY <1>3, <1>4, <1>5, <2>2 DEF Greeted
  <2>4. /\ \A j \in Instance, n \in Nat, x \in Message : Has(j, n, x)' <=> Has(j, n, x)
        /\ \A n \in Nat, x \in Message : Waits(n, x)' <=> Waits(n, x)
    BY <1>1, SameShape
  <2> QED BY <1>1, <2>2, <2>3, <2>4, GreetedStays
<1>6. \A t \in Services : Greets(t)'
  BY <1>5 DEF Greets
<1>7. ASSUME NEW k \in Nat, NEW l \in Nat, NEW d \in Connections, Pending(k, d)', Pending(l, d)' PROVE k = l
  <2>1. Pending(k + 1, d) /\ k + 1 \in Nat /\ Pending(l + 1, d) /\ l + 1 \in Nat
    BY <1>3, <1>7
  <2>2. k + 1 = l + 1
    BY <2>1 DEF Greeting
  <2> QED BY <2>2
<1>8. \A k \in Nat, d \in Connections : Pending(k, d)' => bound'[d] # None
  BY <1>1, <1>3 DEF Greeting
<1> QED BY <1>6, <1>7, <1>8 DEF Greeting

\* The service manager's thread: a message for the service of such a client changes nothing.
LEMMA HandleGreeting ==
  ASSUME Inv, Talks, Greeting, Handle
  PROVE  Greeting'
<1>1. UNCHANGED <<patient, bound, posted, connected>>
  BY DEF Handle, StartService, BindService, StopService, UnbindService, Created, Result, clientVars
<1>2. PICK m : m = Head(inbox)
  OBVIOUS
<1>3. ASSUME patient, NEW t \in Services, NEW c \in Connections, Greeted(c, t), bound[c] = t PROVE Greeted(c, t)'
  <2>1. /\ m \in Message /\ Waits(1, m) /\ 1 \in Nat
        /\ \A k \in Nat, x \in Message : Waits(k, x)' /\ x.s # m.s => Waits(k + 1, x)
        /\ \A j \in Instance, k \in Nat, x \in Message : Has(j, k, x)' /\ x.s # m.s => Has(j, k, x)
        /\ t # m.s => mServices'[t] = mServices[t]
    BY <1>2, <1>3, HandleShape
  <2>2. c \notin connected'
    BY <1>1, <1>3 DEF Greeted
  <2>3. CASE t # m.s
    <3>1. \A k \in Nat, x \in Message : Waits(k, x)' /\ x.s = t => Waits(k + 1, x) /\ k + 1 \in Nat
      BY <2>1, <2>3
    <3>2. \A j \in Instance, k \in Nat, x \in Message : Has(j, k, x)' /\ Token(x, t) => Has(j, k, x)
      BY <2>1, <2>3 DEF Token
    <3> QED BY <1>3, <2>1, <2>2, <2>3, <3>1, <3>2, GreetedStays
  <2>4. CASE t = m.s
    <3>1. Quiet(m)
      BY <1>3, <2>1, <2>4 DEF Greeted, Idle
    <3>2. StopService \/ Created
      BY <1>2, <3>1 DEF Handle, StartService, BindService, UnbindService, Result, Receives, Quiet
    <3>3. inbox # <<>> /\ inbox' = Tail(inbox)
      BY <3>2 DEF StopService, Created, Receives
    <3>4. UNCHANGED <<mServices, process>>
      <4>1. ~Stoppable(t) /\ ~ToCleanUp(m)
        BY <1>3, <3>1 DEF Greeted, Stoppable, ToCleanUp, Quiet
      <4> QED BY <1>2, <2>4, <3>2, <4>1 DEF StopService, Created, managerVars
    <3>5. Takes(m)
      BY <1>2, <3>3, TakesShape DEF Inv
    <3>6. \A k \in Nat, x \in Message : Waits(k, x)' => Waits(k + 1, x) /\ k + 1 \in Nat
      BY <3>5 DEF Takes
    <3>7. \A j \in Instance, k \in Nat, x \in Message : Has(j, k, x)' <=> Has(j, k, x)
      BY <3>4, SameShape
    <3> QED BY <1>3, <2>2, <3>4, <3>6, <3>7, GreetedStays
  <2> QED BY <2>3, <2>4
<1> QED BY <1>1, <1>3, GreetingStays

\* What a process does leaves those who wait for onServiceConnected waiting.
LEMMA WorkGreeted ==
  ASSUME Inv, NEW i \in Instance, Work(i), NEW t \in Services, NEW c, Greeted(c, t)
  PROVE  Greeted(c, t)'
<1>1. NoneNew /\ Reports(i) /\ WorkStill
  BY WorkShape
<1>2. \A k \in Nat, x \in Message : Waits(k, x)' /\ x.s = t => Quiet(x) \/ Waits(k, x)
  <2>1. CASE UNCHANGED inbox
    BY <2>1, SameShape
  <2>2. ASSUME NEW r \in Message, inbox' = Append(inbox, r), r.s = t => Quiet(r)
        PROVE  \A k \in Nat, x \in Message : Waits(k, x)' /\ x.s = t => Quiet(x) \/ Waits(k, x)
    <3>1. PICK b \in Nat : Gets(b, r)
      BY <2>2, GetsShape DEF Inv
    <3> QED BY <2>2, <3>1 DEF Gets
  <2>3. ASSUME NEW r \in Message, r.op = "created" PROVE Quiet(r)
    BY <2>3 DEF Quiet
  <2>4. ASSUME NEW r \in Message, NEW k \in Nat, NEW x \in Message, Has(i, k, x), Token(x, r.s) PROVE r.s # t
    BY <2>4 DEF Greeted, Calm
  <2> QED BY <1>1, <2>1, <2>2, <2>3, <2>4 DEF Reports
<1>3. \A j \in Instance, k \in Nat, x \in Message : Has(j, k, x)' => \E n \in Nat : Has(j, n, x)
  BY <1>1 DEF NoneNew
<1>4. mServices' = mServices /\ connected' = connected
  BY <1>1 DEF WorkStill
<1>5. c \notin connected'
  BY <1>4 DEF Greeted
<1> QED BY <1>2, <1>3, <1>4, <1>5, GreetedStays

\* A client is bound and will be told so.
LEMMA BoundGreeted ==
  ASSUME Inv, Talks, patient, NEW i \in Instance, OnBind(i), NEW m, m = Head(process[i].queue),
         m.s \in process[i].services
  PROVE  /\ m \in Message /\ m.conn \in Connections /\ Has(i, 1, m) /\ Token(m, m.s)
         /\ m.s \in Services /\ bound[m.conn] = m.s /\ Greeted(m.conn, m.s)'
<1> USE DEF Inv
<1>1. Turn(i, "bind") /\ process' = Taken(i) /\ UNCHANGED <<inbox, mServices, bound, connected>>
  BY DEF OnBind, managerVars
<1>2. m \in Message /\ m.op = "bind" /\ Removes(i, 1, m)
  BY <1>1, TakenShape
<1>3. PICK s \in Services : s = m.s
  BY <1>2 DEF Message
<1>4. m.conn \in Connections /\ Has(i, 1, m) /\ Token(m, s) /\ Is(m, "bind", s) /\ 1 \in Nat
  BY <1>2, <1>3 DEF Message, Token, Is, Removes
<1>5. s \in Enabled
  BY <1>3 DEF Kinds, Proc
<1>6. Talk(s)
  BY DEF Talks
<1>7. Open(m) /\ ~Requested(s)
  BY <1>2, <1>4, <1>6 DEF Talk, TokensOpen
<1>8. bound[m.conn] = s /\ m.conn \notin connected
  BY <1>2, <1>3, <1>7 DEF Open
<1>9. Recorded(s, i) /\ m.conn \in mServices[s].conns
  BY <1>2, <1>4, <1>5, <1>6 DEF Talk, CreatedHere
<1>10. Calm(s)'
  <2>1. SUFFICES ASSUME NEW j \in Instance, NEW k \in Nat, NEW x \in Message, Has(j, k, x)', Token(x, s)
                 PROVE  FALSE
    BY DEF Calm
  <2>2. Order(s)
    BY <1>6 DEF Talk
  <2>3. m.op = "create"
    BY <1>2, <1>4, <2>1, <2>2, LastPart
  <2> QED BY <1>2, <2>3
<1>11. Idle(s)'
  <2>1. SUFFICES ASSUME NEW k \in Nat, NEW x \in Message, Waits(k, x)', x.s = s PROVE Quiet(x)
    BY DEF Idle
  <2>2. Waits(k, x)
    BY <1>1, <2>1, SameShape
  <2>3. ~Asks(x, s)
    BY <1>7, <2>2 DEF Requested
  <2>4. x.op # "result"
    BY <1>2, <1>4, <1>6, <2>1, <2>2 DEF Talk, ResultsLast, Is
  <2>5. x.op # "notCreated"
    BY <1>5, <1>6, <2>1, <2>2 DEF Talk, Failures, Is
  <2> QED BY <2>1, <2>3, <2>4, <2>5 DEF Asks, Quiet
<1>12. Greeted(m.conn, s)'
  <2>1. PICK c \in Connections : c = m.conn
    BY <1>4
  <2>2. Greeted(c, s)'
    BY <1>1, <1>5, <1>8, <1>9, <1>10, <1>11, <2>1 DEF Greeted, Recorded
  <2> QED BY <2>1, <2>2
<1> QED BY <1>2, <1>3, <1>4, <1>8, <1>12

\* The main thread of a process.
LEMMA WorkGreeting ==
  ASSUME Inv, Talks, Greeting, NEW i \in Instance, Work(i)
  PROVE  Greeting'
<1>1. UNCHANGED <<patient, bound, connected, mServices>>
  BY WorkShape DEF WorkStill
<1>2. CASE UNCHANGED posted
  <2>1. \A t \in Services, c \in Connections : Greeted(c, t) => Greeted(c, t)'
    BY WorkGreeted
  <2> QED BY <1>1, <1>2, <2>1, GreetingStays
<1>3. ASSUME OnBind(i), NEW m, m = Head(process[i].queue), m.s \in process[i].services PROVE Greeting'
  <2> SUFFICES ASSUME patient PROVE Greeting'
    BY <1>1 DEF Greeting
  <2>1. /\ m \in Message /\ m.conn \in Connections /\ Has(i, 1, m) /\ Token(m, m.s) /\ 1 \in Nat
        /\ m.s \in Services /\ bound[m.conn] = m.s /\ Greeted(m.conn, m.s)'
    BY <1>3, BoundGreeted
  <2>2. PICK d \in Connections : d = m.conn
    BY <2>1
  <2>3. PICK s \in Services : s = m.s /\ s # None
    BY <2>1, ServiceManagerAssumption
  <2>4. posted' = Append(posted, d)
    BY <1>3, <2>2 DEF OnBind
  <2>5. PICK n : n = Len(posted)
    OBVIOUS
  <2>6. n \in Nat /\ Len(posted') = n + 1 /\ (\A k \in 1 .. n : posted'[k] = posted[k]) /\ posted'[n + 1] = d
    BY <2>4, <2>5, AppendProperties, LenProperties DEF Inv, Kinds
  <2>7. \A k \in Nat, c \in Connections : Pending(k, c)' => Pending(k, c) \/ (k = n + 1 /\ c = d)
    BY <2>5, <2>6 DEF Pending
  <2>8. \A k \in Nat : ~Pending(k, d)
    <3>1. SUFFICES ASSUME NEW k \in Nat, Pending(k, d) PROVE FALSE
      OBVIOUS
    <3>2. bound[d] = s
      BY <2>1, <2>2, <2>3
    <3>3. Calm(s)
      BY <3>1, <3>2 DEF Greeting, Greets, Greeted
    <3> QED BY <2>1, <2>3, <3>3 DEF Calm
  <2>9. ASSUME NEW t \in Services, NEW k \in Nat, NEW c \in Connections, Pending(k, c)', bound'[c] = t
        PROVE  Greeted(c, t)'
    <3>1. CASE Pending(k, c)
      <4>1. Greeted(c, t)
        BY <1>1, <2>9, <3>1 DEF Greeting, Greets
      <4> QED BY <4>1, WorkGreeted
    <3>2. CASE c = d
      <4>1. t = m.s /\ c = m.conn
        BY <1>1, <2>1, <2>2, <2>9, <3>2
      <4> QED BY <2>1, <4>1
    <3> QED BY <2>7, <2>9, <3>1, <3>2
  <2>10. \A t \in Services : Greets(t)'
    BY <2>9 DEF Greets
  <2>11. \A k \in Nat, c \in Connections : Pending(k, c)' => bound'[c] # None
    <3>1. bound[d] # None
      BY <2>1, <2>2, <2>3
    <3>2. \A k \in Nat, c \in Connections : Pending(k, c) => bound[c] # None
      BY DEF Greeting
    <3> QED BY <1>1, <2>7, <3>1, <3>2
  <2>12. \A k, l \in Nat, c \in Connections : Pending(k, c)' /\ Pending(l, c)' => k = l
    <3>1. \A k, l \in Nat, c \in Connections : Pending(k, c) /\ Pending(l, c) => k = l
      BY DEF Greeting
    <3> QED BY <2>7, <2>8, <3>1
  <2> QED BY <2>10, <2>11, <2>12 DEF Greeting
<1>4. CASE ~UNCHANGED posted
  <2>1. OnBind(i) /\ Head(process[i].queue).s \in process[i].services
    BY <1>4 DEF Work, CreateService, OnCreated, OnStartCommand, DestroyService, OnDestroyed, OnBind, OnUnbind, Ends,
                clientVars
  <2> QED BY <1>3, <2>1
<1> QED BY <1>2, <1>4

\* The process manager's thread.
LEMMA StoppingGreeting ==
  ASSUME Inv, Greeting, Stop \/ Waited \/ TimedOut \/ Joined
  PROVE  Greeting'
<1>1. /\ UNCHANGED <<patient, mServices, inbox, bound, posted, connected>>
      /\ \A j \in Instance, k \in Nat, x \in Message :
           Has(j, k, x)' => Has(j, k, x) \/ (x.op = "stop" /\ x.id = 0)
  BY StoppingShape
<1>2. ASSUME NEW t \in Services, NEW c \in Connections, Greeted(c, t) PROVE Greeted(c, t)'
  <2>1. c \notin connected'
    BY <1>1, <1>2 DEF Greeted
  <2>2. \A j \in Instance, k \in Nat, x \in Message : Has(j, k, x)' /\ Token(x, t) => Has(j, k, x)
    BY <1>1 DEF Token
  <2>3. \A k \in Nat, x \in Message : Waits(k, x)' <=> Waits(k, x)
    BY <1>1, SameShape
  <2> QED BY <1>1, <1>2, <2>1, <2>2, <2>3, GreetedStays
<1> QED BY <1>1, <1>2, GreetingStays

\* Every step keeps those who wait for onServiceConnected in order.
LEMMA NextGreeting ==
  ASSUME Inv, Talks, Greeting, [Next]_vars
  PROVE  Greeting'
<1>1. CASE UNCHANGED vars
  <2>1. UNCHANGED <<patient, bound, posted, connected, mServices, inbox, process>>
    BY <1>1 DEF vars, managerVars, clientVars
  <2>2. ASSUME NEW t \in Services, NEW c \in Connections, Greeted(c, t) PROVE Greeted(c, t)'
    <3>1. /\ \A k \in Nat, x \in Message : Waits(k, x)' <=> Waits(k, x)
          /\ \A j \in Instance, k \in Nat, x \in Message : Has(j, k, x)' <=> Has(j, k, x)
      BY <2>1, SameShape
    <3>2. c \notin connected'
      BY <2>1, <2>2 DEF Greeted
    <3> QED BY <2>1, <2>2, <3>1, <3>2, GreetedStays
  <2> QED BY <2>1, <2>2, GreetingStays
<1> QED BY <1>1, ClientGreeting, ConnectedGreeting, HandleGreeting, WorkGreeting, StoppingGreeting DEF Next

\* At the start nothing waits.
LEMMA InitClosing == Init => Closing /\ Greeting
<1> SUFFICES ASSUME Init PROVE Closing /\ Greeting
  OBVIOUS
<1>1. \A k \in Nat, x \in Message : ~Waits(k, x)
  BY EmptySeq DEF Init, Waits
<1>2. \A k \in Nat, c \in Connections : ~Pending(k, c)
  BY EmptySeq DEF Init, Pending
<1>3. Closing
  BY <1>1 DEF Closing, Unbinds, LateStops
<1>4. Greeting
  BY <1>2 DEF Greeting, Greets
<1> QED BY <1>3, <1>4

\* The order of what is on its way, and what is known of service objects, in every state:
\* Talks, Closing, Greeting and Kept are inductive together with Inv.
THEOREM TalksHold == Spec => [](Inv /\ Talks /\ Closing /\ Greeting /\ Kept)
<1>1. Init => Inv /\ Talks /\ Closing /\ Greeting /\ Kept
  <2>1. Init => Kept
    BY DEF Init, Kept, NewProcess
  <2> QED BY <2>1, InitInv, InitTalks, InitClosing
<1>2. Inv /\ Talks /\ Closing /\ Greeting /\ Kept /\ [Next]_vars
        => (Inv /\ Talks /\ Closing /\ Greeting /\ Kept)'
  BY NextInv, NextTalks, NextClosing, NextGreeting, NextKept
<1> QED BY <1>1, <1>2, PTL DEF Spec

\* A service object lives in a process only while the service manager has its record there or
\* its end is on the way, unless stop() gave up or clients do not wait for answers: for any
\* number of clients, services and processes, prepareService, stopService, cleanupService and
\* Process::stop forget none between them, nor does the stopService that unbindService sends to
\* the service manager's own looper, behind the starts and binds that wait there.
THEOREM NoOrphanHolds == Spec => []NoOrphan
<1>1. Inv /\ Talks /\ Kept => NoOrphan
  <2>1. SUFFICES ASSUME Inv, Talks, Kept, patient, NEW i \in Instance, NEW s \in process[i].services, i \notin timedOut
                 PROVE  Recorded(s, i) \/ (WillStop(i, s) /\ process[i].state # "ended")
    BY DEF NoOrphan, Recorded
  <2>2. process[i].state # "ended"
    BY <2>1 DEF Talks, EndsEmpty
  <2>3. Recorded(s, i) \/ Destroying(i, s)
    BY <2>1 DEF Kept
  <2>4. Destroying(i, s) => WillStop(i, s)
    BY <2>1, DestroyingWillStop DEF Inv
  <2> QED BY <2>2, <2>3, <2>4
<1> QED BY <1>1, TalksHold, PTL

\* The service that onServiceConnected announced to a client lives in a process until that
\* client unbinds, as long as clients wait for answers: neither stopService nor another
\* client's unbindService nor the end of a process destroys it.
THEOREM ConnectedIsServedHolds == Spec => []ConnectedIsServed
<1>1. Inv /\ Talks => ConnectedIsServed
  <2>1. SUFFICES ASSUME Inv, Talks, patient, NEW c \in connected
                 PROVE  \E i \in Instance : bound[c] \in process[i].services
    BY DEF ConnectedIsServed
  <2>2. PICK s \in Services : s = bound[c]
    BY <2>1 DEF Inv, Kinds, Talks
  <2>3. Known(s) /\ Served(s)
    BY <2>1 DEF Talks, Talk
  <2>4. s \in Enabled /\ mServices[s] # None /\ \A i \in Instance : ~Creating(i, s)
    BY <2>1, <2>2, <2>3 DEF Known
  <2>5. PICK i : i = mServices[s].proc
    OBVIOUS
  <2>6. Recorded(s, i)
    BY <2>4, <2>5 DEF Recorded
  <2>7. i \in Instance
    BY <2>1, <2>6, RecordedRuns
  <2>8. s \in process[i].services
    BY <2>3, <2>4, <2>6, <2>7 DEF Served
  <2> QED BY <2>2, <2>7, <2>8
<1> QED BY <1>1, TalksHold, PTL
=============================================================================
