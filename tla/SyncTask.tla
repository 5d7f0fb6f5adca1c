---- MODULE SyncTask ----
(***************************************************************************)
(* The synchronous request protocol between the R worker, which blocks in  *)
(* Atomics.wait, and the main thread, which answers through shared memory: *)
(* SyncTask and _Syncifier (src/webR/chan/task-worker.ts) on the worker,   *)
(* syncResponse (src/webR/chan/task-main.ts) on the main thread.           *)
(*                                                                         *)
(* Every task has a syncifier, a signal buffer and a size buffer of its    *)
(* own.  Its task number is therefore always 1 and it always uses bit 0    *)
(* and the slot next to it.  Data buffers are the only shared memory that  *)
(* passes from task to task, through the pool.                             *)
(*                                                                         *)
(* The two threads interleave at each atomic operation they do on the      *)
(* shared memory.  Code of the main thread runs to its next await without  *)
(* other code of the main thread in between: `running' is the task whose   *)
(* syncResponse() is in such a run.                                        *)
(***************************************************************************)
EXTENDS Integers, Sequences, SequencesExt

CONSTANTS
    MaxTasks,      \* bound on the number of tasks
    MaxDepth,      \* bound on the number of nested tasks
    Small,         \* responses whose encoding fits in UUID_LENGTH rounded up
    Large,         \* responses whose encoding needs a bigger buffer
    Unencodable,   \* responses encode() throws on
    NODE,          \* TRUE: listeners as in Node (once), FALSE: as in a browser
    None           \* no response, no buffer, no task

Task == 1 .. MaxTasks
Payload == Small \cup Large \cup Unencodable
Buffer == 1 .. 2 * MaxTasks      \* a task uses two data buffers at most
SizeClass == {1, 2}              \* rounded up powers of two: UUID_LENGTH, bigger
TaskId == 1                      \* nextTaskId of a fresh syncifier

(* What a data buffer holds: nothing, a listener's uuid or encoded bytes.  *)
Zeroes == <<"zeroes", None, None>>
Uuid(t) == <<"uuid", t, None>>
Bytes(t, p) == <<"bytes", t, p>>
Content == {Zeroes} \cup {Uuid(t) : t \in Task} \cup {Bytes(t, p) : t \in Task, p \in Payload}

ASSUME SyncTaskAssumption ==
    /\ MaxTasks \in Nat \ {0} /\ MaxDepth \in Nat \ {0}
    /\ NODE \in BOOLEAN
    /\ None \notin Payload /\ None \notin Buffer /\ None \notin Content

VARIABLES
    stack,      \* worker: the tasks being awaited, innermost last
    handling,   \* worker: inside handleEvents(), between two of its requests
    phase,      \* worker: where each task is
    grown,      \* worker: the tasks that asked for a bigger buffer
    buffer,     \* worker: the data buffer each task uses
    result,     \* worker: what each task's syncify() returned
    pool,       \* worker: dataBuffers, by size class
    capacity,   \* the size class each buffer was allocated with, 0 if it was not
    content,    \* shared: what each data buffer holds
    size, fits, \* shared: the size buffer of each task
    signal,     \* shared: bit 0 of word 0 of each task's signal buffer
    slot,       \* shared: word 1 of each task's signal buffer
    inbox,      \* messages posted to the main thread
    reply,      \* main: progress of syncResponse() for each task
    response,   \* main: what each task is answered
    target,     \* main: syncResponse()'s dataBuffer, for each task
    listening,  \* main: tasks with a listener for a bigger buffer
    running     \* main: the task whose syncResponse() is running, or None

workerVars == <<stack, handling, phase, grown, buffer, result, pool, capacity>>
sharedVars == <<content, size, fits, signal, slot>>
mainVars == <<reply, response, target, listening, running>>
vars == <<workerVars, sharedVars, mainVars, inbox>>

Posted == [type : {"sync-request"}, task : Task, buffer : Buffer]
          \cup [type : {"buffer"}, id : Content, buffer : Buffer]
Phase == {"new", "waiting", "cleared", "returned", "abandoned"}
ReplyStep == {"none", "pending", "write", "store slot", "set bit",
              "store slot uuid", "set bit uuid", "listen", "sent", "failed"}

TypeOK ==
    /\ stack \in Seq(Task)
    /\ handling \in BOOLEAN
    /\ phase \in [Task -> Phase]
    /\ grown \subseteq Task
    /\ buffer \in [Task -> Buffer \cup {None}]
    /\ result \in [Task -> Content \cup {None}]
    /\ pool \in [SizeClass -> Seq(Buffer)]
    /\ capacity \in [Buffer -> SizeClass \cup {0}]
    /\ content \in [Buffer -> Content]
    /\ size \in [Task -> SizeClass \cup {0}]
    /\ fits \in [Task -> {0, 1}]
    /\ signal \in [Task -> {0, 1}]
    /\ slot \in [Task -> {0, TaskId}]
    /\ inbox \in Seq(Posted)
    /\ reply \in [Task -> ReplyStep]
    /\ response \in [Task -> Payload \cup {None}]
    /\ target \in [Task -> Buffer \cup {None}]
    /\ listening \subseteq Task
    /\ running \in Task \cup {None}

Init ==
    /\ stack = <<>>
    /\ handling = FALSE
    /\ phase = [t \in Task |-> "new"]
    /\ grown = {}
    /\ buffer = [t \in Task |-> None]
    /\ result = [t \in Task |-> None]
    /\ pool = [c \in SizeClass |-> <<>>]
    /\ capacity = [b \in Buffer |-> 0]
    /\ content = [b \in Buffer |-> Zeroes]
    /\ size = [t \in Task |-> 0]
    /\ fits = [t \in Task |-> 0]
    /\ signal = [t \in Task |-> 0]
    /\ slot = [t \in Task |-> 0]
    /\ inbox = <<>>
    /\ reply = [t \in Task |-> "none"]
    /\ response = [t \in Task |-> None]
    /\ target = [t \in Task |-> None]
    /\ listening = {}
    /\ running = None

Top == Last(stack)
NextTask(t) == phase[t] = "new" /\ \A u \in 1 .. t - 1 : phase[u] # "new"

-----------------------------------------------------------------------------
(* The pool of data buffers.                                               *)

(* Broken variants: a pool that hands out its last buffer without removing *)
(* it, a release that files the buffer one class too high.                 *)
PeekLast(s) == s
RoundedTooHigh(c) == c + 1

Popped(s) == Front(s)
ReleaseClass(c) == c

Unallocated(b) ==
    capacity[b] = 0 /\ \A a \in 1 .. b - 1 : capacity[a] # 0

(* acquireDataBuffer(): b is a zeroed buffer of class c, out of the pool   *)
(* `free' when that has one of the class, allocated otherwise.             *)
Acquire(b, c, free) ==
    /\ content' = [content EXCEPT ![b] = Zeroes]
    /\ \/ /\ free[c] # <<>>
          /\ b = Last(free[c])
          /\ pool' = [free EXCEPT ![c] = Popped(free[c])]
          /\ UNCHANGED capacity
       \/ /\ free[c] = <<>>
          /\ Unallocated(b)
          /\ capacity' = [capacity EXCEPT ![b] = c]
          /\ pool' = free

(* releaseDataBuffer(). *)
Released(b) ==
    LET c == ReleaseClass(capacity[b])
    IN  [pool EXCEPT ![c] = Append(pool[c], b)]

-----------------------------------------------------------------------------
(* The worker.                                                             *)

(* scheduleSync() and the first part of doSync(): a fresh task posts its   *)
(* request and waits.                                                      *)
Start(t) ==
    /\ NextTask(t)
    /\ \E b \in Buffer :
         /\ Acquire(b, 1, pool)
         /\ buffer' = [buffer EXCEPT ![t] = b]
         /\ inbox' = Append(inbox, [type |-> "sync-request", task |-> t, buffer |-> b])
    /\ phase' = [phase EXCEPT ![t] = "waiting"]
    /\ stack' = Append(stack, t)
    /\ handling' = FALSE
    /\ UNCHANGED <<grown, result, size, fits, signal, slot, mainVars>>

(* R or the channel makes a request. *)
CallSync(t) == stack = <<>> /\ Start(t)

(* Atomics.wait times out and the event buffer is set: handleEvents()      *)
(* makes a request inside the wait of another.                             *)
TimeoutEvents(t) ==
    /\ stack # <<>> /\ ~ handling
    /\ phase[Top] = "waiting" /\ signal[Top] = 0
    /\ Len(stack) < MaxDepth
    /\ Start(t)

(* handleEvents() asks for the next event, after one it has handled; the   *)
(* signal of the interrupted wait may have come meanwhile.                 *)
NextEvent(t) == handling /\ Start(t)

(* There are no more events: back to the interrupted wait. *)
EndEvents ==
    /\ handling
    /\ handling' = FALSE
    /\ UNCHANGED <<stack, phase, grown, buffer, result, pool, capacity,
                   sharedVars, mainVars, inbox>>

(* The event was an interrupt: R jumps out of every wait. *)
Interrupt ==
    /\ handling
    /\ handling' = FALSE
    /\ phase' = [t \in Task |-> IF t \in ToSet(stack) THEN "abandoned" ELSE phase[t]]
    /\ stack' = <<>>
    /\ UNCHANGED <<grown, buffer, result, pool, capacity, sharedVars, mainVars, inbox>>

(* waitOnSignalBuffer() returns and tasksIdsToWakeup() clears the bit. *)
Wake ==
    /\ stack # <<>> /\ ~ handling
    /\ phase[Top] = "waiting" /\ signal[Top] = 1
    /\ signal' = [signal EXCEPT ![Top] = 0]
    /\ phase' = [phase EXCEPT ![Top] = "cleared"]
    /\ UNCHANGED <<stack, handling, grown, buffer, result, pool, capacity,
                   content, size, fits, slot, mainVars, inbox>>

LeaveSlot == TaskId   \* a worker that reads the slot without the exchange

EmptySlot == 0

(* tasksIdsToWakeup() takes the task number out of the slot, pollTasks()   *)
(* resumes doSync(): here it finds that the response did not fit, reads    *)
(* the uuid and posts a bigger buffer.                                     *)
PollGrow ==
    /\ stack # <<>> /\ phase[Top] = "cleared"
    /\ Top \notin grown /\ fits[Top] = 0
    /\ slot' = [slot EXCEPT ![Top] = EmptySlot]
    /\ \E b \in Buffer :
         /\ Acquire(b, size[Top], Released(buffer[Top]))
         /\ buffer' = [buffer EXCEPT ![Top] = b]
         /\ inbox' = Append(inbox, [type |-> "buffer", id |-> content[buffer[Top]],
                                    buffer |-> b])
    /\ grown' = grown \cup {Top}
    /\ phase' = [phase EXCEPT ![Top] = "waiting"]
    /\ UNCHANGED <<stack, handling, result, size, fits, signal, mainVars>>

(* The same, when the response is in the data buffer: syncify() returns    *)
(* it.  The event handler that made the request goes on, if one did.       *)
PollReturn ==
    /\ stack # <<>> /\ phase[Top] = "cleared"
    /\ Top \in grown \/ fits[Top] = 1
    /\ slot' = [slot EXCEPT ![Top] = EmptySlot]
    /\ result' = [result EXCEPT ![Top] = content[buffer[Top]]]
    /\ phase' = [phase EXCEPT ![Top] = "returned"]
    /\ stack' = Front(stack)
    /\ handling' = (Len(stack) > 1)
    /\ UNCHANGED <<grown, buffer, pool, capacity, content, size, fits, signal,
                   mainVars, inbox>>

-----------------------------------------------------------------------------
(* The main thread.                                                        *)

(* Broken variants: a listener that goes away at the first message, a      *)
(* response written into the buffer it did not fit in, a bit set without   *)
(* the task number in the slot.                                            *)
GoneAtAnyMessage(m) == listening
KeepTarget(t, b) == target[t]
BitOnly == "set bit"

(* Node: a listener added with once() goes away at the first message of    *)
(* any kind.  Browser: only when its own message comes.                    *)
Dismissed(m) ==
    IF NODE THEN listening
    ELSE {t \in listening : m.type = "buffer" /\ m.id = Uuid(t)}
BiggerBuffer(t, b) == b
AfterWrite == "store slot"

(* The 'message' handlers run on the oldest posted message: the request    *)
(* waits for its response (input, an event, a promise), a bigger buffer    *)
(* goes to the listener that waits for its uuid, if there is one.          *)
Receive ==
    /\ running = None /\ inbox # <<>>
    /\ LET m == Head(inbox)
       IN  /\ inbox' = Tail(inbox)
           /\ listening' = listening \ Dismissed(m)
           /\ \/ /\ m.type = "sync-request"
                 /\ reply' = [reply EXCEPT ![m.task] = "pending"]
                 /\ target' = [target EXCEPT ![m.task] = m.buffer]
              \/ /\ m.type = "buffer"
                 /\ LET heard == {t \in listening : m.id = Uuid(t)}
                    IN  /\ reply' = [t \in Task |-> IF t \in heard THEN "write" ELSE reply[t]]
                        /\ target' = [t \in Task |-> IF t \in heard
                                                     THEN BiggerBuffer(t, m.buffer)
                                                     ELSE target[t]]
    /\ UNCHANGED <<workerVars, sharedVars, response, running>>

(* Broken variant: a size rounded up to one power of two too many. *)
RoundedUpTwice(p) == IF p \in Small THEN 2 ELSE 3

SizeOf(p) == IF p \in Small THEN 1 ELSE 2
Fits(t, p) == SizeOf(p) <= capacity[target[t]]

(* syncResponse() with a response that encodes: the size buffer is stored  *)
(* and, when the data buffer is too small, the listener is added and its   *)
(* uuid written where the response should go.                              *)
Respond(t, p) ==
    /\ running = None /\ reply[t] = "pending"
    /\ p \in Small \cup Large
    /\ response' = [response EXCEPT ![t] = p]
    /\ size' = [size EXCEPT ![t] = SizeOf(p)]
    /\ running' = t
    /\ \/ /\ Fits(t, p)
          /\ fits' = [fits EXCEPT ![t] = 1]
          /\ reply' = [reply EXCEPT ![t] = "write"]
          /\ UNCHANGED <<content, listening>>
       \/ /\ ~ Fits(t, p)
          /\ fits' = [fits EXCEPT ![t] = 0]
          /\ listening' = listening \cup {t}
          /\ content' = [content EXCEPT ![target[t]] = Uuid(t)]
          /\ reply' = [reply EXCEPT ![t] = "store slot uuid"]
    /\ UNCHANGED <<workerVars, signal, slot, target, inbox>>

(* syncResponse() with a response encode() throws on: the error is logged  *)
(* and nothing is signalled.                                               *)
RespondThrows(t, p) ==
    /\ running = None /\ reply[t] = "pending"
    /\ p \in Unencodable
    /\ reply' = [reply EXCEPT ![t] = "failed"]
    /\ UNCHANGED <<workerVars, sharedVars, response, target, listening, running, inbox>>

(* The encoded response goes into the data buffer. *)
Write(t) ==
    /\ running \in {None, t} /\ reply[t] = "write"
    /\ content' = [content EXCEPT ![target[t]] = Bytes(t, response[t])]
    /\ fits' = [fits EXCEPT ![t] = 1]
    /\ reply' = [reply EXCEPT ![t] = AfterWrite]
    /\ running' = t
    /\ UNCHANGED <<workerVars, size, signal, slot, response, target, listening, inbox>>

(* signalRequester(): the task number goes into the slot if it is free.    *)
StoreSlot(t) ==
    /\ running = t /\ slot[t] = 0
    /\ \/ reply[t] = "store slot" /\ reply' = [reply EXCEPT ![t] = "set bit"]
       \/ reply[t] = "store slot uuid" /\ reply' = [reply EXCEPT ![t] = "set bit uuid"]
    /\ slot' = [slot EXCEPT ![t] = TaskId]
    /\ UNCHANGED <<workerVars, content, size, fits, signal, response, target, listening,
                   running, inbox>>

(* Then the bit is set and the worker notified; syncResponse() ends, or    *)
(* awaits the bigger buffer.                                               *)
SetBit(t) ==
    /\ running = t
    /\ \/ reply[t] = "set bit" /\ reply' = [reply EXCEPT ![t] = "sent"]
       \/ reply[t] = "set bit uuid" /\ reply' = [reply EXCEPT ![t] = "listen"]
    /\ signal' = [signal EXCEPT ![t] = 1]
    /\ running' = None
    /\ UNCHANGED <<workerVars, content, size, fits, slot, response, target, listening, inbox>>

-----------------------------------------------------------------------------
WorkerStep ==
    \/ \E t \in Task : CallSync(t) \/ TimeoutEvents(t) \/ NextEvent(t)
    \/ EndEvents \/ Interrupt
    \/ Wake \/ PollGrow \/ PollReturn

MainStep ==
    \/ Receive
    \/ \E t \in Task : \/ \E p \in Payload : Respond(t, p) \/ RespondThrows(t, p)
                       \/ Write(t) \/ StoreSlot(t) \/ SetBit(t)

Next == WorkerStep \/ MainStep

(* The main thread's event loop runs, every request is answered in the end *)
(* (events at once, reads under the assumption that the application sends  *)
(* input), and a worker that can leave its wait or its event handler does. *)
(* New requests and timeouts need not happen.                              *)
Fairness ==
    /\ WF_vars(MainStep)
    /\ WF_vars(Wake \/ PollGrow \/ PollReturn \/ EndEvents)

Spec == Init /\ [][Next]_vars /\ Fairness

-----------------------------------------------------------------------------
(* The worker never wakes up without a task number in the slot: "Assertion *)
(* error: unknown taskId" of pollTasks() cannot happen.                    *)
WokenTaskKnown ==
    \A t \in Task : phase[t] = "cleared" => slot[t] = TaskId

(* signalRequester() finds its slot free whenever it gets to it, also at   *)
(* the second signal of a large response: it never has to back off.        *)
SlotFreeToSignal ==
    \A t \in Task : reply[t] \in {"store slot", "store slot uuid"} => slot[t] = 0

(* The main thread never writes into a buffer that went back to the pool   *)
(* or that another open request owns: not when the writing syncResponse()  *)
(* serves an abandoned request, and not after the worker released the      *)
(* first buffer of a large response.                                       *)
WriterOwnsBuffer ==
    \A t \in Task : reply[t] \in {"pending", "write"} =>
        /\ \A c \in SizeClass : target[t] \notin ToSet(pool[c])
        /\ \A u \in Task : buffer[u] = target[t] => u = t

(* A response is only ever written into a buffer it fits in, whatever came *)
(* out of the pool: dataBuffer.set() of a longer response would throw, and *)
(* syncResponse() would end without signalling.                            *)
ResponseFitsBuffer ==
    \A t \in Task : reply[t] = "write" => Fits(t, response[t])

(* A request that was made ends: it returns or an interrupt abandons it,   *)
(* unless the main thread could not encode the response to it or to a      *)
(* request made inside its wait.                                           *)
Ended(t) == phase[t] \in {"returned", "abandoned"}
Unanswerable == \E u \in ToSet(stack) : reply[u] = "failed"
EveryCallEnds ==
    \A t \in Task : phase[t] = "waiting" ~> Ended(t) \/ Unanswerable

-----------------------------------------------------------------------------
(* The protocol implements blocking calls: what syncify() returns is what  *)
(* syncResponse() was given for the same request.  A response is chosen at *)
(* Respond, and seen when the worker decodes the data buffer.              *)
Answered(t) == IF response[t] = None THEN None ELSE Bytes(t, response[t])

Calls == INSTANCE BlockingCall
           WITH Response <- {Bytes(t, p) : t \in Task, p \in Payload},
                NoResponse <- None,
                calls <- stack,
                made <- {t \in Task : phase[t] # "new"},
                answer <- [t \in Task |-> Answered(t)]

ImplementsBlockingCall == Calls!Spec
====
