--------------------------- MODULE ServiceManager ---------------------------
(***************************************************************************)
(* os/ServiceManager, os/Process and the part of app/ContextImpl that binds *)
(* services.  The service manager's thread keeps the records of processes  *)
(* and services and handles requests and answers in the order they arrive; *)
(* so are the requests that it sends to itself.                            *)
(* It sends one-way messages to the main thread of a process, which        *)
(* creates, starts, binds and destroys services and answers through a      *)
(* RemoteCallback.  A process that lost its last service is stopped by the *)
(* thread of the ProcessManager.  A process that is started again under    *)
(* the same name is another instance.                                      *)
(*                                                                         *)
(* A ServiceRecord exists as long as it is alive: both begin in            *)
(* prepareService and both end in stopService or cleanupService.           *)
(***************************************************************************)
EXTENDS Integers, Sequences, FiniteSets, SequencesExt

CONSTANTS
  Services,     \* components
  Installed,    \* those that the package manager resolves
  Enabled,      \* those that can be created
  processName,  \* per service: the name of its process
  Connections,  \* ServiceConnections of the client's context
  Uses,         \* what patient clients, and others, call: operation, service, connection
  None,
  MaxCalls      \* bound: calls of startService, stopService and bindService

ASSUME ServiceManagerAssumption ==
  /\ Enabled \subseteq Installed /\ Installed \subseteq Services
  /\ None \notin Services /\ MaxCalls \in Nat

\* None is none of the values that stand where it does.
ASSUME NoneAssumption ==
  /\ None \notin Nat
  /\ None \notin [proc: Nat, running: BOOLEAN, conns: SUBSET Connections]
  /\ None \notin [op: {"start", "stop", "bind", "unbind", "create", "created", "notCreated", "result"},
                 s: Services, id: Nat, conn: Connections \cup {None}]

Instance == 1..MaxCalls   \* a call starts at most one process
Id == 1..MaxCalls
Name == {processName[s] : s \in Services}

VARIABLES
  patient,    \* do clients wait for the answer before the next call for a service?
  \* the service manager
  mServices,  \* per service: its record or None
  mProcesses, \* per name: the instance of its process or None
  instances,  \* how many processes have been started
  inbox,      \* the messages of the service manager's looper
  \* the process manager
  stopping,   \* instances that have to be stopped, the one being stopped first
  manager,    \* "idle", or what Process::stop waits for
  timedOut,   \* instances whose stop() has given up
  \* the processes
  process,    \* per instance: [state, queue, busy, services]
  \* the clients
  calls,      \* the calls made: [op, s, answered]
  commands,   \* ids of the start calls for which onStartCommand was called
  bound,      \* per connection: ContextImpl::mServiceConnections, a service or None
  posted,     \* the calls of onServiceConnected that wait in the context's handler
  connected   \* connections that got onServiceConnected

managerVars == <<mServices, mProcesses, instances>>
stopVars == <<stopping, manager, timedOut>>
clientVars == <<calls, commands, bound, posted, connected>>
vars == <<patient, managerVars, inbox, stopVars, process, clientVars>>

Record == [proc: Instance, running: BOOLEAN, conns: SUBSET Connections]

\* Messages: id is the number of the call that waits for the answer, or 0.
Msg(op, s, id, conn) == [op |-> op, s |-> s, id |-> id, conn |-> conn]

NewProcess == [state |-> "running", queue |-> <<>>, busy |-> None, services |-> {}]

Init ==
  /\ patient \in BOOLEAN
  /\ mServices = [s \in Services |-> None]
  /\ mProcesses = [n \in Name |-> None]
  /\ instances = 0 /\ inbox = <<>>
  /\ stopping = <<>> /\ manager = "idle" /\ timedOut = {}
  /\ process = [i \in Instance |-> [NewProcess EXCEPT !.state = "unused"]]
  /\ calls = <<>> /\ commands = {}
  /\ bound = [c \in Connections |-> None] /\ posted = <<>> /\ connected = {}

(***************************************************************************)
(* Clients.  ContextImpl keeps a connection from bindService until         *)
(* unbindService; the first answers through the connection.                *)
(***************************************************************************)
Unanswered(s) ==
  \/ \E id \in DOMAIN calls : calls[id].s = s /\ ~calls[id].answered
  \/ \E c \in Connections : bound[c] = s /\ c \notin connected

MayCall(op, s, c) == /\ <<op, s, c>> \in Uses[patient] /\ Len(calls) < MaxCalls
                     /\ patient => ~Unanswered(s)

Called(op, s, answered) == calls' = Append(calls, [op |-> op, s |-> s, answered |-> answered])

Request(op, s) ==
  /\ MayCall(op, s, None)
  /\ Called(op, s, FALSE)
  /\ inbox' = Append(inbox, Msg(op, s, Len(calls) + 1, None))
  /\ UNCHANGED <<patient, managerVars, stopVars, process, commands, bound, posted, connected>>

Bind(s, c) ==
  /\ MayCall("bind", s, c) /\ bound[c] = None
  /\ Called("bind", s, TRUE)
  /\ bound' = [bound EXCEPT ![c] = s] /\ connected' = connected \ {c}
  /\ inbox' = Append(inbox, Msg("bind", s, 0, c))
  /\ UNCHANGED <<patient, managerVars, stopVars, process, commands, posted>>

Unbind(c) ==
  LET s == bound[c] IN
  /\ s # None /\ (patient => ~Unanswered(s))
  /\ bound' = [bound EXCEPT ![c] = None] /\ connected' = connected \ {c}
  /\ inbox' = Append(inbox, Msg("unbind", s, 0, c))
  /\ UNCHANGED <<patient, managerVars, stopVars, process, calls, commands, posted>>

\* The handler of the context calls onServiceConnected, also for a connection
\* that was unbound since.
OnServiceConnected ==
  /\ posted # <<>>
  /\ connected' = connected \cup {Head(posted)}
  /\ posted' = Tail(posted)
  /\ UNCHANGED <<patient, managerVars, inbox, stopVars, process, calls, commands, bound>>

(***************************************************************************)
(* The service manager's thread.                                           *)
(***************************************************************************)
Receives(op) == inbox # <<>> /\ Head(inbox).op = op

Answered(id) == IF id = 0 THEN calls ELSE [calls EXCEPT ![id].answered = TRUE]

\* A service that has no record yet is created.
CreateIfNew(s) == IF mServices[s] = None THEN <<Msg("create", s, 0, None)>> ELSE <<>>

\* prepareProcess and the record of prepareService; the message that creates
\* the service goes first.  conns and running are what the request adds.
Prepare(s, conns, running, msgs) ==
  LET known == mServices[s] # None
      i == IF known THEN mServices[s].proc
           ELSE IF mProcesses[processName[s]] # None THEN mProcesses[processName[s]]
           ELSE instances + 1
      record == IF known THEN mServices[s] ELSE [proc |-> i, running |-> FALSE, conns |-> {}]
      p == IF i > instances THEN NewProcess ELSE process[i]
  IN  /\ mServices' = [mServices EXCEPT ![s] = [record EXCEPT !.running = @ \/ running,
                                                             !.conns = @ \cup conns]]
      /\ mProcesses' = [mProcesses EXCEPT ![processName[s]] = IF known THEN @ ELSE i]
      /\ instances' = IF i > instances THEN i ELSE instances
      /\ process' = [process EXCEPT ![i] = [p EXCEPT !.queue = @ \o CreateIfNew(s) \o msgs]]

\* A service that the package manager does not know: null is the answer.
StartService ==
  LET m == Head(inbox) IN
  /\ Receives("start")
  /\ \/ /\ m.s \in Installed
        /\ Prepare(m.s, {}, TRUE, <<m>>)
        /\ UNCHANGED calls
     \/ /\ m.s \notin Installed
        /\ calls' = Answered(m.id)
        /\ UNCHANGED <<managerVars, process>>
  /\ inbox' = Tail(inbox)
  /\ UNCHANGED <<patient, stopVars, commands, bound, posted, connected>>

\* A connection that the record has already is not bound again.
BindService ==
  LET m == Head(inbox)
      msgs == IF mServices[m.s] # None /\ m.conn \in mServices[m.s].conns THEN <<>> ELSE <<m>>
  IN
  /\ Receives("bind")
  /\ IF m.s \in Installed THEN Prepare(m.s, {m.conn}, FALSE, msgs)
                          ELSE UNCHANGED <<managerVars, process>>
  /\ inbox' = Tail(inbox)
  /\ UNCHANGED <<patient, stopVars, clientVars>>

\* Variant: the record of a process stays when its last service goes.
RemoveServiceRecordOnly(s) ==
  LET i == mServices[s].proc
      last == \A r \in Services \ {s} : mServices[r] = None \/ mServices[r].proc # i
  IN  /\ mServices' = [mServices EXCEPT ![s] = None]
      /\ stopping' = IF last THEN Append(stopping, i) ELSE stopping
      /\ UNCHANGED <<mProcesses, instances, manager, timedOut>>

\* The end of stopService and of cleanupService: the record goes, and with its
\* last service the process, which the process manager has to stop.
RemoveRecord(s) ==
  LET i == mServices[s].proc
      last == \A r \in Services \ {s} : mServices[r] = None \/ mServices[r].proc # i
  IN  /\ mServices' = [mServices EXCEPT ![s] = None]
      /\ mProcesses' = [mProcesses EXCEPT ![processName[s]] = IF last THEN None ELSE @]
      /\ stopping' = IF last THEN Append(stopping, i) ELSE stopping
      /\ UNCHANGED <<instances, manager, timedOut>>

Sent(i, msgs) == [process EXCEPT ![i].queue = @ \o msgs]

\* Variant: active bindings are not looked at.
StoppableIfBound(s) == mServices[s] # None

\* There is such a service, and no connection to it.
Stoppable(s) == mServices[s] # None /\ mServices[s].conns = {}

StopService ==
  LET m == Head(inbox) IN
  /\ Receives("stop")
  /\ \/ /\ Stoppable(m.s)
        /\ process' = Sent(mServices[m.s].proc, <<m>>)
        /\ RemoveRecord(m.s)
        /\ UNCHANGED calls
     \/ /\ ~Stoppable(m.s)  \* false
        /\ calls' = Answered(m.id)
        /\ UNCHANGED <<managerVars, stopVars, process>>
  /\ inbox' = Tail(inbox)
  /\ UNCHANGED <<patient, commands, bound, posted, connected>>

\* The last connection takes the service with it: the service manager sends a
\* stopService to itself, behind the requests that wait already.  Nobody waits
\* for its answer, which changes nothing and is left out.
UnbindService ==
  LET m == Head(inbox)  rest == mServices[m.s].conns \ {m.conn} IN
  /\ Receives("unbind")
  /\ \/ /\ mServices[m.s] = None
        /\ inbox' = Tail(inbox)
        /\ UNCHANGED <<mServices, process>>
     \/ /\ mServices[m.s] # None
        /\ process' = Sent(mServices[m.s].proc, <<m>>)
        /\ mServices' = [mServices EXCEPT ![m.s].conns = rest]
        /\ inbox' = IF rest = {} THEN Append(Tail(inbox), Msg("stop", m.s, 0, None))
                     ELSE Tail(inbox)
  /\ UNCHANGED <<patient, mProcesses, instances, stopVars, clientVars>>

\* Variant: the record is cleaned up whatever the answer is.
ToCleanUpAlways(m) == mServices[m.s] # None

\* A service could not be created, and there is a record of it.
ToCleanUp(m) == m.op = "notCreated" /\ mServices[m.s] # None

\* onResult for createService.
Created ==
  LET m == Head(inbox) IN
  /\ Receives("created") \/ Receives("notCreated")
  /\ IF ToCleanUp(m) THEN RemoveRecord(m.s) ELSE UNCHANGED <<managerVars, stopVars>>
  /\ inbox' = Tail(inbox)
  /\ UNCHANGED <<patient, process, clientVars>>

\* onResult for startService and stopService: the promise is completed.
Result ==
  /\ Receives("result")
  /\ calls' = Answered(Head(inbox).id)
  /\ inbox' = Tail(inbox)
  /\ UNCHANGED <<patient, managerVars, stopVars, process, commands, bound, posted, connected>>

(***************************************************************************)
(* The main thread of a process.  onCreate and onDestroy take a while.     *)
(***************************************************************************)
Turn(i, op) == /\ process[i].state = "running" /\ process[i].busy = None
               /\ process[i].queue # <<>> /\ Head(process[i].queue).op = op

Taken(i) == [process EXCEPT ![i].queue = Tail(@)]

\* Message m, the first one, is being worked on.
Busy(i, m) == [process EXCEPT ![i].queue = Tail(@), ![i].busy = m]

CreateService(i) ==
  LET m == Head(process[i].queue) IN
  /\ Turn(i, "create")
  /\ \/ m.s \in Enabled /\ process' = Busy(i, m) /\ UNCHANGED inbox
     \/ /\ m.s \notin Enabled
        /\ process' = Taken(i)
        /\ inbox' = Append(inbox, Msg("notCreated", m.s, 0, None))
  /\ UNCHANGED <<patient, managerVars, stopVars, clientVars>>

OnCreated(i) ==
  LET m == process[i].busy IN
  /\ m # None /\ m.op = "create"
  /\ process' = [process EXCEPT ![i].busy = None, ![i].services = @ \cup {m.s}]
  /\ inbox' = Append(inbox, Msg("created", m.s, 0, None))
  /\ UNCHANGED <<patient, managerVars, stopVars, clientVars>>

\* Variant: the answer is forgotten.
OnStartCommandUnanswered(i) ==
  LET m == Head(process[i].queue) IN
  /\ Turn(i, "start")
  /\ commands' = commands \cup {m.id}
  /\ process' = Taken(i)
  /\ UNCHANGED <<patient, managerVars, inbox, stopVars, calls, bound, posted, connected>>

OnStartCommand(i) ==
  LET m == Head(process[i].queue) IN
  /\ Turn(i, "start")
  /\ commands' = IF m.s \in process[i].services THEN commands \cup {m.id} ELSE commands
  /\ process' = Taken(i)
  /\ inbox' = Append(inbox, Msg("result", m.s, m.id, None))
  /\ UNCHANGED <<patient, managerVars, stopVars, calls, bound, posted, connected>>

DestroyService(i) ==
  LET m == Head(process[i].queue) IN
  /\ Turn(i, "stop")
  /\ \/ m.s \in process[i].services /\ process' = Busy(i, m) /\ UNCHANGED inbox
     \/ /\ m.s \notin process[i].services
        /\ process' = Taken(i)
        /\ inbox' = IF m.id = 0 THEN inbox ELSE Append(inbox, Msg("result", m.s, m.id, None))
  /\ UNCHANGED <<patient, managerVars, stopVars, clientVars>>

OnDestroyed(i) ==
  LET m == process[i].busy IN
  /\ m # None /\ m.op = "stop"
  /\ process' = [process EXCEPT ![i].busy = None, ![i].services = @ \ {m.s}]
  /\ inbox' = IF m.id = 0 THEN inbox ELSE Append(inbox, Msg("result", m.s, m.id, None))
  /\ UNCHANGED <<patient, managerVars, stopVars, clientVars>>

\* onBind; the answer posts onServiceConnected, unless there is no such service.
OnBind(i) ==
  LET m == Head(process[i].queue) IN
  /\ Turn(i, "bind")
  /\ posted' = IF m.s \in process[i].services THEN Append(posted, m.conn) ELSE posted
  /\ process' = Taken(i)
  /\ UNCHANGED <<patient, managerVars, inbox, stopVars, calls, commands, bound, connected>>

OnUnbind(i) ==
  /\ Turn(i, "unbind")
  /\ process' = Taken(i)
  /\ UNCHANGED <<patient, managerVars, inbox, stopVars, clientVars>>

Ends(i) ==
  /\ process[i].state = "quit" /\ process[i].busy = None
  /\ process' = [process EXCEPT ![i].state = "ended"]
  /\ UNCHANGED <<patient, managerVars, inbox, stopVars, clientVars>>

(***************************************************************************)
(* The process manager's thread: Process::stop.                            *)
(***************************************************************************)
Quit(i) == [process EXCEPT ![i].state = "quit", ![i].queue = <<>>]

StopMessages(i) ==
  LET order == SetToSeq(process[i].services)
  IN  [k \in DOMAIN order |-> Msg("stop", order[k], 0, None)]

Stop ==
  LET i == Head(stopping) IN
  /\ manager = "idle" /\ stopping # <<>>
  /\ \/ /\ process[i].services # {}
        /\ process' = Sent(i, StopMessages(i))
        /\ manager' = "services"
     \/ /\ process[i].services = {}
        /\ process' = Quit(i)
        /\ manager' = "join"
  /\ UNCHANGED <<patient, managerVars, inbox, stopping, timedOut, clientVars>>

Waited ==
  LET i == Head(stopping) IN
  /\ manager = "services" /\ process[i].services = {}
  /\ process' = Quit(i) /\ manager' = "join"
  /\ UNCHANGED <<patient, managerVars, inbox, stopping, timedOut, clientVars>>

TimedOut ==
  LET i == Head(stopping) IN
  /\ manager = "services" /\ process[i].services # {}
  /\ process' = Quit(i) /\ manager' = "join"
  /\ timedOut' = timedOut \cup {i}
  /\ UNCHANGED <<patient, managerVars, inbox, stopping, clientVars>>

Joined ==
  /\ manager = "join" /\ process[Head(stopping)].state = "ended"
  /\ manager' = "idle" /\ stopping' = Tail(stopping)
  /\ UNCHANGED <<patient, managerVars, inbox, timedOut, process, clientVars>>

Handle == StartService \/ BindService \/ StopService \/ UnbindService \/ Created \/ Result

Work(i) ==
  \/ CreateService(i) \/ OnCreated(i) \/ OnStartCommand(i) \/ DestroyService(i)
  \/ OnDestroyed(i) \/ OnBind(i) \/ OnUnbind(i) \/ Ends(i)

Next ==
  \/ \E s \in Services : Request("start", s) \/ Request("stop", s)
  \/ \E s \in Services, c \in Connections : Bind(s, c)
  \/ \E c \in Connections : Unbind(c)
  \/ OnServiceConnected
  \/ Handle
  \/ \E i \in Instance : Work(i)
  \/ Stop \/ Waited \/ TimedOut \/ Joined

\* The threads run.  Nobody has to call, and stop() need not give up.
Fairness ==
  /\ WF_vars(Handle) /\ WF_vars(OnServiceConnected)
  /\ \A i \in Instance : WF_vars(Work(i))
  /\ WF_vars(Stop \/ Waited \/ Joined)

Spec == Init /\ [][Next]_vars /\ Fairness

(***************************************************************************)
(* Properties.                                                             *)
(***************************************************************************)
\* Every variable holds a value of its kind.
TypeOK ==
  /\ mServices \in [Services -> Record \cup {None}]
  /\ mProcesses \in [Name -> Instance \cup {None}]
  /\ instances \in 0..MaxCalls
  /\ stopping \in Seq(Instance) /\ manager \in {"idle", "services", "join"}
  /\ commands \subseteq Id /\ connected \subseteq Connections /\ posted \in Seq(Connections)
  /\ bound \in [Connections -> Services \cup {None}]
  /\ \A i \in Instance : process[i].services \subseteq Enabled
                         /\ process[i].state \in {"unused", "running", "quit", "ended"}

\* A record never refers to a process that has been given to the process
\* manager to stop: no message of the service manager fails ("System failure").
RecordsRefer ==
  \A s \in Services : mServices[s] # None =>
    /\ mServices[s].proc = mProcesses[processName[s]]
    /\ process[mServices[s].proc].state = "running"
    /\ ~Contains(stopping, mServices[s].proc)

\* A message that stops s waits in process i, or s is being destroyed there.
WillStop(i, s) ==
  \/ \E k \in DOMAIN process[i].queue :
       process[i].queue[k].op = "stop" /\ process[i].queue[k].s = s
  \/ process[i].busy # None /\ process[i].busy.op = "stop" /\ process[i].busy.s = s

\* A service object lives in a process only while the service manager has its
\* record there or its end is on the way, so that a process ends without
\* services and each got its onDestroy; exceptions are the processes whose
\* stop() gave up, or that clients did not wait for.
NoOrphan ==
  \A i \in Instance : \A s \in process[i].services :
    \/ mServices[s] # None /\ mServices[s].proc = i
    \/ WillStop(i, s) /\ process[i].state # "ended"
    \/ i \in timedOut \/ ~patient

\* The service of a connected client is not destroyed: not by stopService, not
\* by other clients that unbind, not with its process (clients wait for answers).
ConnectedIsServed ==
  patient => \A c \in connected : \E i \in Instance : bound[c] \in process[i].services

\* The process manager is never stuck with a process, and every startService of
\* clients that wait reaches onStartCommand and is answered, also one that comes
\* before the stop that follows an unbind, as long as stop() does not give up.
StartsAnsweredStopsEnd ==
  <>[](/\ stopping = <<>>
       /\ patient /\ timedOut = {} => \A id \in DOMAIN calls :
            calls[id].op = "start" /\ calls[id].s \in Enabled
              => id \in commands /\ calls[id].answered)
=============================================================================
