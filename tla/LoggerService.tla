---------------------------- MODULE LoggerService ----------------------------
(***************************************************************************)
(* util/logging: log buffers, which any thread fills, and the service with *)
(* the thread that empties them.  A buffer is a ring; a record is a length *)
(* followed by its contents, and old records are overwritten.  A reader of *)
(* an empty buffer gets a promise, which the next put() completes.  The    *)
(* logger thread waits for any of its promises.  The service changes, on   *)
(* its own thread, what is logged, and wakes the logger up to look again.  *)
(*                                                                         *)
(* A cell of a ring is the 4 bytes of a length, or as much of a record's   *)
(* contents.  Buffers and the service have locks; each step is one hold of *)
(* them (the logger reads several buffers in one hold of the service's).   *)
(***************************************************************************)
EXTENDS Integers, Sequences, FiniteSets, FiniteSetsExt

CONSTANTS
  Log,         \* the ids of the log buffers
  TestLogs,    \* those that a service logs from the start in integration tests
  mSize,       \* cells of a buffer
  Sizes,       \* per log: lengths of records
  None, Waits, \* no promise; a promise that is not done
  MaxPuts, MaxCommands, MaxServices  \* bounds

ASSUME LoggerServiceAssumption ==
  /\ TestLogs \subseteq Log /\ mSize \in Nat \ {0} /\ \A b \in Log : Sizes[b] \subseteq Nat \ {0}
  /\ MaxPuts \in Nat /\ MaxCommands \in Nat /\ MaxServices \in Nat
  /\ None \notin Nat /\ Waits \notin Nat /\ None # Waits

VARIABLES
  \* the buffers
  mBuffer, mReadIndex, mWriteIndex,
  mPromise,      \* has the buffer a promise that waits for a record?
  \* the service
  service,       \* "none", "idle", "start", "reset", "join", "crashed"
  command,       \* what startLogging() is going to do: [log, on]
  mLogHandlers,  \* the logs with handlers
  \* its logger thread
  pc,
  interrupted,
  loggers,       \* per log: None, or a promise: Waits or its record
  mWaitForLogs,  \* has reset() completed it?
  left,          \* the logs that it has still to look at
  \* history
  records,       \* what has been put: [log, size]; a record is its number
  published,     \* per log: the last record that the handlers got
  commands, services

bufferVars == <<mBuffer, mReadIndex, mWriteIndex, mPromise>>
serviceVars == <<service, command, mLogHandlers>>
threadVars == <<pc, interrupted, loggers, mWaitForLogs, left>>
bounds == <<commands, services>>
vars == <<bufferVars, serviceVars, threadVars, records, published, bounds>>

Index == 0..(mSize - 1)
NoRecord == 0  \* what reset() completes a promise with, and what is no record

Init ==
  /\ mBuffer = [b \in Log |-> [i \in Index |-> <<NoRecord, 0>>]]
  /\ mReadIndex = [b \in Log |-> 0] /\ mWriteIndex = [b \in Log |-> 0]
  /\ mPromise = [b \in Log |-> FALSE]
  /\ service = "none" /\ command = None /\ mLogHandlers = {}
  /\ pc = "ended" /\ interrupted = FALSE /\ loggers = [b \in Log |-> None]
  /\ mWaitForLogs = FALSE /\ left = {}
  /\ records = <<>> /\ published = [b \in Log |-> NoRecord] /\ commands = 0 /\ services = 0

(***************************************************************************)
(* LogBuffer.                                                              *)
(***************************************************************************)
isEmpty(b) == mReadIndex[b] = mWriteIndex[b]

remainingCapacity(b) ==
  IF mWriteIndex[b] >= mReadIndex[b] THEN mSize - (mWriteIndex[b] - mReadIndex[b])
                                     ELSE mReadIndex[b] - mWriteIndex[b]

\* A cell read as a length.  Contents would be some number, unused cells are 0.
intFromByteArray(c) == IF c[1] # NoRecord /\ c[2] = 0 THEN records[c[1]].size ELSE c[2]

\* The indexes behind the first, the second ... record, from index r on.
RecordEnds(b, r) ==
  LET end[k \in 0..mSize] ==
        IF k = 0 THEN [at |-> r, passed |-> 0]
        ELSE LET e == end[k - 1]
                 n == 1 + intFromByteArray(mBuffer[b][e.at])
             IN  [at |-> (e.at + n) % mSize, passed |-> e.passed + n]
  IN  end

\* Variant: a record is skipped by its contents, without its length.
DroppedContents(b, n) ==
  LET end == RecordEnds(b, mReadIndex[b])
      k == Min({j \in 0..mSize : remainingCapacity(b) + end[j].passed >= n})
  IN  (mReadIndex[b] + end[k].passed - k) % mSize

\* The read index after the oldest records have made room for n cells.
Dropped(b, n) ==
  LET end == RecordEnds(b, mReadIndex[b])
      k == Min({j \in 0..mSize : remainingCapacity(b) + end[j].passed >= n})
  IN  end[k].at

\* Record id with its length, of n cells together, behind what is there.
writeByteArray(b, id, n) ==
  /\ mBuffer' = [mBuffer EXCEPT ![b] = [i \in Index |->
       LET j == (i - mWriteIndex[b] + mSize) % mSize IN IF j < n THEN <<id, j>> ELSE @[i]]]
  /\ mReadIndex' = [mReadIndex EXCEPT ![b] = Dropped(b, n)]
  /\ mWriteIndex' = [mWriteIndex EXCEPT ![b] = (@ + n) % mSize]

\* The promise of log b, if somebody has it, is completed with record id.
Completed(b, id) == [loggers EXCEPT ![b] = IF @ = Waits THEN id ELSE @]

\* Variant: the record that completes the promise is stored as well.
PutTwice(b, size) ==
  LET id == Len(records) + 1 IN
  /\ Len(records) < MaxPuts /\ size + 1 <= mSize
  /\ records' = Append(records, [log |-> b, size |-> size])
  /\ loggers' = (IF mPromise[b] THEN Completed(b, id) ELSE loggers)
  /\ mPromise' = [mPromise EXCEPT ![b] = FALSE]
  /\ writeByteArray(b, id, size + 1)
  /\ UNCHANGED <<serviceVars, pc, interrupted, mWaitForLogs, left, published, bounds>>

\* put(): a record that is too long is refused.
Put(b, size) ==
  LET id == Len(records) + 1 IN
  /\ Len(records) < MaxPuts /\ size + 1 <= mSize
  /\ records' = Append(records, [log |-> b, size |-> size])
  /\ \/ /\ mPromise[b]
        /\ loggers' = Completed(b, id) /\ mPromise' = [mPromise EXCEPT ![b] = FALSE]
        /\ UNCHANGED <<mBuffer, mReadIndex, mWriteIndex>>
     \/ /\ ~mPromise[b]
        /\ writeByteArray(b, id, size + 1)
        /\ UNCHANGED <<mPromise, loggers>>
  /\ UNCHANGED <<serviceVars, pc, interrupted, mWaitForLogs, left, published, bounds>>

\* The record at the read index, if the cells there are one.
Record(b) ==
  LET r == mReadIndex[b]
      id == mBuffer[b][r][1]
      whole == \A j \in 0..intFromByteArray(mBuffer[b][r]) :
                 mBuffer[b][(r + j) % mSize] = <<id, j>>
  IN  IF whole THEN id ELSE NoRecord

\* What get() returns: the promise that there is, a record, or a new promise.
get(b) == IF mPromise[b] \/ isEmpty(b) THEN Waits ELSE Record(b)

\* reset() of the buffers bs; a promise that waits is completed with null.
Reset(bs) ==
  /\ mReadIndex' = [b \in Log |-> IF b \in bs THEN 0 ELSE mReadIndex[b]]
  /\ mWriteIndex' = [b \in Log |-> IF b \in bs THEN 0 ELSE mWriteIndex[b]]
  /\ mPromise' = [b \in Log |-> b \notin bs /\ mPromise[b]]
  /\ UNCHANGED mBuffer

\* Log::clear(), one of its buffers.
Clear(b) ==
  /\ (~isEmpty(b) \/ mPromise[b]) /\ commands < MaxCommands
  /\ Reset({b}) /\ loggers' = Completed(b, NoRecord) /\ commands' = commands + 1
  /\ UNCHANGED <<serviceVars, pc, interrupted, mWaitForLogs, left, records, published, services>>

(***************************************************************************)
(* LoggerThread::run().                                                    *)
(***************************************************************************)
TestInterrupted ==
  /\ pc = "top"
  /\ pc' = IF interrupted THEN "ended" ELSE "gather"
  /\ UNCHANGED <<bufferVars, serviceVars, interrupted, loggers, mWaitForLogs, left, records,
                 published, bounds>>

\* A promise for every log with handlers, and one for any of them.
Gather ==
  LET new == {b \in mLogHandlers : loggers[b] = None} IN
  /\ pc = "gather"
  /\ loggers' = [b \in Log |-> IF b \in new THEN get(b) ELSE loggers[b]]
  /\ mPromise' = [b \in Log |-> mPromise[b] \/ (b \in new /\ isEmpty(b))]
  /\ mReadIndex' = [b \in Log |-> IF b \in new /\ get(b) # Waits
                                  THEN RecordEnds(b, mReadIndex[b])[1].at ELSE mReadIndex[b]]
  /\ mWaitForLogs' = FALSE
  /\ pc' = "test"
  /\ UNCHANGED <<mBuffer, mWriteIndex, serviceVars, interrupted, left, records, published, bounds>>

\* Variant: the flag is not looked at again before the wait.
TestNothing ==
  /\ pc = "test"
  /\ pc' = "await"
  /\ UNCHANGED <<bufferVars, serviceVars, interrupted, loggers, mWaitForLogs, left, records,
                 published, bounds>>

TestAgain ==
  /\ pc = "test"
  /\ pc' = IF interrupted THEN "ended" ELSE "await"
  /\ UNCHANGED <<bufferVars, serviceVars, interrupted, loggers, mWaitForLogs, left, records,
                 published, bounds>>

\* The promise of log b is done.
isDone(b) == loggers[b] \notin {None, Waits}

Awake ==
  /\ pc = "await" /\ (mWaitForLogs \/ \E b \in Log : isDone(b))
  /\ left' = {b \in Log : loggers[b] # None}
  /\ pc' = IF left' = {} THEN "top" ELSE "publish"
  /\ UNCHANGED <<bufferVars, serviceVars, interrupted, loggers, mWaitForLogs, records, published,
                 bounds>>

\* The handlers, if there are any, get the record of a promise that is done.
Publish(b) ==
  /\ pc = "publish" /\ b \in left
  /\ IF isDone(b)
       THEN /\ loggers' = [loggers EXCEPT ![b] = None]
            /\ published' = IF loggers[b] # NoRecord /\ b \in mLogHandlers
                            THEN [published EXCEPT ![b] = loggers[b]] ELSE published
       ELSE UNCHANGED <<loggers, published>>
  /\ left' = left \ {b}
  /\ pc' = IF left' = {} THEN "top" ELSE "publish"
  /\ UNCHANGED <<bufferVars, serviceVars, interrupted, mWaitForLogs, records, bounds>>

(***************************************************************************)
(* The service.                                                            *)
(***************************************************************************)
OnCreate ==
  /\ service = "none" /\ services < MaxServices
  /\ service' = "idle" /\ services' = services + 1 /\ mLogHandlers' \in SUBSET TestLogs
  /\ pc' = "top" /\ interrupted' = FALSE /\ mWaitForLogs' = FALSE /\ left' = {}
  /\ loggers' = [b \in Log |-> None]
  /\ UNCHANGED <<bufferVars, command, records, published, commands>>

\* ACTION_LOG: first stopLogging() ...
StopLogging(b, on) ==
  /\ service = "idle" /\ commands < MaxCommands
  /\ service' = "start" /\ command' = [log |-> b, on |-> on] /\ commands' = commands + 1
  /\ mLogHandlers' = mLogHandlers \ {b}
  /\ UNCHANGED <<bufferVars, threadVars, records, published, services>>

\* Variant: the logger is not told.
StartUntold ==
  /\ service = "start"
  /\ mLogHandlers' = IF command.on THEN mLogHandlers \cup {command.log} ELSE mLogHandlers
  /\ service' = "idle" /\ command' = None
  /\ UNCHANGED <<bufferVars, threadVars, records, published, bounds>>

\* ... then startLogging(), which may find no handler to log to.
StartLogging ==
  /\ service = "start"
  /\ mLogHandlers' = IF command.on THEN mLogHandlers \cup {command.log} ELSE mLogHandlers
  /\ mWaitForLogs' = (mWaitForLogs \/ command.on)
  /\ service' = "idle" /\ command' = None
  /\ UNCHANGED <<bufferVars, pc, interrupted, loggers, left, records, published, bounds>>

\* onDestroy() calls quit(): interrupt() ...
Interrupt ==
  /\ service = "idle"
  /\ service' = "reset" /\ interrupted' = TRUE
  /\ UNCHANGED <<bufferVars, command, mLogHandlers, pc, loggers, mWaitForLogs, left, records,
                 published, bounds>>

\* ... reset(), which uses the reference that a thread at its end has cleared ...
ResetLogger ==
  /\ service = "reset"
  /\ service' = IF pc = "ended" THEN "crashed" ELSE "join"
  /\ mWaitForLogs' = TRUE
  /\ UNCHANGED <<bufferVars, command, mLogHandlers, pc, interrupted, loggers, left, records,
                 published, bounds>>

\* ... and join(); then the buffers are reset and the handlers go.
Destroy ==
  /\ service = "join" /\ pc = "ended"
  /\ service' = "none" /\ mLogHandlers' = {}
  /\ Reset(mLogHandlers)
  /\ loggers' = [b \in Log |-> None]  \* the thread's variable is gone
  /\ UNCHANGED <<command, pc, interrupted, mWaitForLogs, left, records, published, bounds>>

Logger == TestInterrupted \/ Gather \/ TestAgain \/ Awake \/ \E b \in Log : Publish(b)

Next ==
  /\ service # "crashed"
  /\ \/ \E b \in Log : \E size \in Sizes[b] : Put(b, size)
     \/ \E b \in Log : Clear(b)
     \/ Logger
     \/ OnCreate \/ Interrupt \/ StartLogging \/ ResetLogger \/ Destroy
     \/ \E b \in Log, on \in BOOLEAN : StopLogging(b, on)

\* Threads run; nobody has to log, to call the service or to end it.
Fairness == WF_vars(service # "crashed" /\ Logger)
            /\ WF_vars(StartLogging \/ ResetLogger \/ Destroy)

Spec == Init /\ [][Next]_vars /\ Fairness

(***************************************************************************)
(* Properties.                                                             *)
(***************************************************************************)
\* Every variable holds a value of its kind.
TypeOK ==
  /\ mReadIndex \in [Log -> Index] /\ mWriteIndex \in [Log -> Index]
  /\ mPromise \in [Log -> BOOLEAN] /\ mLogHandlers \subseteq Log /\ left \subseteq Log
  /\ service \in {"none", "idle", "start", "reset", "join", "crashed"}
  /\ pc \in {"top", "gather", "test", "await", "publish", "ended"}
  /\ loggers \in [Log -> 0..MaxPuts \cup {None, Waits}]

\* Records reach the handlers of a log in the order in which they were put
\* there and once, whatever is overwritten, wrapped around, handed over through
\* a promise, cleared or left by an earlier service: what the logger has in hand
\* is newer than all that was published, and older than what is in the buffer.
PublishedInOrder ==
  \A b \in Log : isDone(b) /\ loggers[b] # NoRecord =>
    /\ loggers[b] > published[b] /\ records[loggers[b]].log = b
    /\ ~isEmpty(b) => mBuffer[b][mReadIndex[b]][1] > loggers[b]

\* The cells between read and write index are whole records: from record to
\* record a reader comes to the write index and never past it.
WholeRecords ==
  \A b \in Log :
    LET used == (mWriteIndex[b] - mReadIndex[b] + mSize) % mSize
        end == RecordEnds(b, mReadIndex[b])
        n == Min({k \in 0..mSize : end[k].passed >= used})
    IN  /\ end[n].passed = used
        /\ \A k \in 0..(n - 1), j \in 0..(mSize - 1) :
             end[k].passed + j < end[k + 1].passed =>
               mBuffer[b][(end[k].at + j) % mSize] = <<mBuffer[b][end[k].at][1], j>>

\* Log b has handlers and a thread.
On(b) == b \in mLogHandlers /\ ~interrupted

Drained(b) == isEmpty(b) /\ loggers[b] \in {None, Waits, NoRecord}

\* As long as a log stays switched on its records do not stay in the buffer or
\* in a promise: startLogging() is never missed by a logger about to wait.
LoggedIsPublished == \A b \in Log : <>[]On(b) => <>[]Drained(b)

\* quit() never joins a thread that goes on waiting.
DestroyReturns == interrupted ~> service \in {"none", "crashed"}
=============================================================================
