---- MODULE SharedChannel ----
(***************************************************************************)
(* The SharedArrayBuffer channel between an application and the R worker:  *)
(* SharedBufferChannelMain and SharedBufferChannelWorker                   *)
(* (src/webR/chan/channel-shared.ts) with the queues and parked requests   *)
(* of ChannelMain (src/webR/chan/channel.ts).                              *)
(*                                                                         *)
(* The worker is a stack of frames, innermost last:                        *)
(*   prompt  inputOrDispatch(), blocked in read() or dispatching a request *)
(*   eval    R evaluating a console line or a request                      *)
(*   events  handleEvents(), blocked in its request for the next event     *)
(* R code may ask for a line (readline, browser) and so nests prompts; a   *)
(* blocked request times out and so nests event handlers.                  *)
(*                                                                         *)
(* The input queue is an AsyncQueue, used here by what module AsyncQueue   *)
(* shows of it: stored messages and waiting calls, paired in order.  A     *)
(* request to the main thread is a BlockingCall, as module SyncTask shows: *)
(* posted, answered at most once, seen by the frame that made it unless an *)
(* interrupt has unwound that frame.                                       *)
(***************************************************************************)
EXTENDS Integers, Sequences, FiniteSets, SequencesExt

CONSTANTS
    Line,           \* 'stdin' messages, each written at most once
    Request,        \* 'request' messages, known by their uuid
    Event,          \* events other than interrupts, each emitted at most once
    MaxInterrupts,  \* bound on the calls of interrupt()
    MaxDepth,       \* bound on the frames of the worker's stack
    MaxCalls,       \* bound on the calls in flight or abandoned
    None            \* no call, no item, no answer

Call == 1 .. MaxCalls
Interrupt == "interrupt"
NoEvent == "no event"

ASSUME SharedChannelAssumption ==
    /\ MaxInterrupts \in Nat /\ MaxDepth \in Nat /\ MaxCalls \in Nat
    /\ Line \cap Request = {} /\ Event \cap (Line \cup Request) = {}
    /\ {None, Interrupt, NoEvent} \cap (Line \cup Request \cup Event) = {}
    /\ None \notin Call /\ None \notin {Interrupt, NoEvent}

Message == Line \cup Request
Answer == Message \cup Event \cup {Interrupt, NoEvent, None}

VARIABLES
    inputQueue,   \* main: messages stored for the worker
    waiters,      \* main: reads whose get() is waiting for a message
    due,          \* main: reads whose get() is settled, not yet resumed
    eventQueue,   \* main: events not yet asked for
    parked,       \* main: requests waiting for their response
    closed,       \* main: close() was called
    eventBuffer,  \* shared: nonzero asks the worker to handle events
    toMain,       \* posted by the worker, not yet received
    answer,       \* what a call was answered that its frame has not looked at
    stack,        \* worker: its frames
    written,      \* history: messages written, in order
    consumed,     \* history: messages the worker got, in order
    settled,      \* history: requests whose promise is settled
    dropped,      \* history: messages removed by interrupt()
    lost,         \* history: messages and events given to a frame that is gone
    handled,      \* history: events handled, in order
    interrupts    \* history: calls of interrupt()

mainVars == <<inputQueue, waiters, due, eventQueue, parked, closed>>
history == <<written, consumed, settled, dropped, lost, handled, interrupts>>
vars == <<mainVars, eventBuffer, toMain, answer, stack, history>>

Prompt(c) == [kind |-> "prompt", call |-> c, item |-> None]
Events(c) == [kind |-> "events", call |-> c, item |-> None]
Eval(m) == [kind |-> "eval", call |-> None, item |-> m]
Frame == [kind : {"prompt", "events", "eval"}, call : Call \cup {None},
          item : Message \cup {None}]
Post == [type : {"read", "event"}, call : Call]
        \cup [type : {"response"}, request : Request]

TypeOK ==
    /\ inputQueue \in Seq(Message)
    /\ waiters \in Seq(Call)
    /\ due \in Seq([call : Call, message : Message])
    /\ eventQueue \in Seq(Event \cup {Interrupt})
    /\ parked \subseteq Request
    /\ closed \in BOOLEAN
    /\ eventBuffer \in {0, 1}
    /\ toMain \in Seq(Post)
    /\ answer \in [Call -> Answer]
    /\ stack \in Seq(Frame)
    /\ written \in Seq(Message) /\ consumed \in Seq(Message)
    /\ settled \subseteq Request
    /\ dropped \subseteq Message
    /\ lost \subseteq Message \cup Event \cup {Interrupt}
    /\ handled \in Seq(Event)
    /\ interrupts \in 0 .. MaxInterrupts

Init ==
    /\ inputQueue = <<>> /\ waiters = <<>> /\ due = <<>> /\ eventQueue = <<>>
    /\ parked = {} /\ closed = FALSE
    /\ eventBuffer = 0
    /\ toMain = <<>>
    /\ answer = [c \in Call |-> None]
    /\ stack = <<>>
    /\ written = <<>> /\ consumed = <<>> /\ settled = {}
    /\ dropped = {} /\ lost = {} /\ handled = <<>> /\ interrupts = 0

Top == Last(stack)
TopIs(kind) == stack # <<>> /\ Top.kind = kind
Below == Front(stack)

(* A call somebody still holds: its frame, its post, its get() or the      *)
(* resumption of its get().  Identities of the others are used again.      *)
LiveCalls == {f.call : f \in ToSet(stack)} \ {None}
InUse ==
    LiveCalls \cup ToSet(waiters) \cup {d.call : d \in ToSet(due)}
    \cup {p.call : p \in {q \in ToSet(toMain) : q.type # "response"}}
NewCall(c) == c \in Call \ InUse /\ \A b \in 1 .. c - 1 : b \in InUse

-----------------------------------------------------------------------------
(* The application and the other users of the main thread.                 *)

(* Broken variants: a queue that stores the newest message first, one that *)
(* stores a message although a read waits for it, one that answers a read  *)
(* and leaves it waiting, a flag that counts.                              *)
StoreFirst(m) == <<m>> \o inputQueue
NobodyReads == FALSE
KeepWaiters == waiters
CountUp == eventBuffer + 1

Store(m) == Append(inputQueue, m)
SomebodyReads == waiters # <<>>
ShiftWaiters == Tail(waiters)
Raised == 1

(* inputQueue.put(): the longest waiting read gets the message, or it is   *)
(* stored.                                                                 *)
Put(m) ==
    \/ /\ SomebodyReads
       /\ due' = Append(due, [call |-> Head(waiters), message |-> m])
       /\ waiters' = ShiftWaiters
       /\ UNCHANGED inputQueue
    \/ /\ ~ SomebodyReads
       /\ inputQueue' = Store(m)
       /\ UNCHANGED <<waiters, due>>

(* write() of a line or request(); a request is parked before it is        *)
(* written.                                                                *)
Write(m) ==
    /\ ~ closed
    /\ m \notin ToSet(written)
    /\ Put(m)
    /\ parked' = parked \cup ({m} \cap Request)
    /\ written' = Append(written, m)
    /\ UNCHANGED <<eventQueue, closed, eventBuffer, toMain, answer, stack, consumed,
                   settled, dropped, lost, handled, interrupts>>

(* request() on a closed channel: write() throws and the caller's promise  *)
(* is rejected, but the entry parked before that stays.                    *)
RequestClosed(r) ==
    /\ closed
    /\ r \notin ToSet(written) /\ r \notin parked
    /\ parked' = parked \cup {r}
    /\ UNCHANGED <<inputQueue, waiters, due, eventQueue, closed, eventBuffer, toMain,
                   answer, stack, history>>

(* emit(): the event is queued and the flag raised. *)
EmitEvent(e) ==
    /\ eventQueue' = Append(eventQueue, e)
    /\ eventBuffer' = Raised

Emit(e) ==
    /\ e \notin ToSet(eventQueue) \cup ToSet(handled) \cup lost
    /\ \A c \in LiveCalls : answer[c] # e
    /\ EmitEvent(e)
    /\ UNCHANGED <<inputQueue, waiters, due, parked, closed, toMain, answer, stack, history>>

(* interrupt(): the input queue is reset, stored messages and waiting      *)
(* reads alike, before the event is emitted.                               *)
RequestInterrupt ==
    /\ interrupts < MaxInterrupts
    /\ interrupts' = interrupts + 1
    /\ inputQueue' = <<>>
    /\ waiters' = <<>>
    /\ dropped' = dropped \cup ToSet(inputQueue)
    /\ EmitEvent(Interrupt)
    /\ UNCHANGED <<due, parked, closed, toMain, answer, stack, written, consumed, settled,
                   lost, handled>>

(* close(): the worker is terminated.  What it has posted may still be     *)
(* received; emit() and interrupt() still do what they do.                 *)
Close ==
    /\ ~ closed
    /\ closed' = TRUE
    /\ UNCHANGED <<inputQueue, waiters, due, eventQueue, parked, eventBuffer, toMain,
                   answer, stack, history>>

-----------------------------------------------------------------------------
(* onMessageFromWorker.                                                    *)

(* A read that found a message goes on after its await: syncResponse()     *)
(* answers the call.  If its frame is gone, so is the message.             *)
ResumeRead ==
    /\ due # <<>>
    /\ LET d == Head(due)
       IN  \/ /\ d.call \in LiveCalls
              /\ answer' = [answer EXCEPT ![d.call] = d.message]
              /\ UNCHANGED lost
           \/ /\ d.call \notin LiveCalls
              /\ lost' = lost \cup {d.message}
              /\ UNCHANGED answer
    /\ due' = Tail(due)
    /\ UNCHANGED <<inputQueue, waiters, eventQueue, parked, closed, eventBuffer, toMain,
                   stack, written, consumed, settled, dropped, handled, interrupts>>

Received(type) ==
    /\ due = <<>>        \* settled reads resume before the next message event
    /\ toMain # <<>>
    /\ Head(toMain).type = type
    /\ toMain' = Tail(toMain)

ReceiveRead ==
    /\ Received("read")
    /\ LET c == Head(toMain).call
       IN  \/ /\ inputQueue # <<>>
              /\ due' = Append(due, [call |-> c, message |-> Head(inputQueue)])
              /\ inputQueue' = Tail(inputQueue)
              /\ UNCHANGED waiters
           \/ /\ inputQueue = <<>>
              /\ waiters' = Append(waiters, c)
              /\ UNCHANGED <<inputQueue, due>>
    /\ UNCHANGED <<eventQueue, parked, closed, eventBuffer, answer, stack, history>>

PeekEvents == eventQueue   \* broken variant: the event is read, not shifted

ShiftEvents == IF eventQueue = <<>> THEN <<>> ELSE Tail(eventQueue)

ReceiveEvent ==
    /\ Received("event")
    /\ LET c == Head(toMain).call
           e == IF eventQueue = <<>> THEN NoEvent ELSE Head(eventQueue)
       IN  \/ /\ c \in LiveCalls
              /\ answer' = [answer EXCEPT ![c] = e]
              /\ UNCHANGED lost
           \/ /\ c \notin LiveCalls
              /\ lost' = lost \cup ({e} \ {NoEvent})
              /\ UNCHANGED answer
    /\ eventQueue' = ShiftEvents
    /\ UNCHANGED <<inputQueue, waiters, due, parked, closed, eventBuffer, stack, written,
                   consumed, settled, dropped, handled, interrupts>>

(* resolveResponse(): the parked promise is settled and forgotten. *)
ReceiveResponse ==
    /\ Received("response")
    /\ LET r == Head(toMain).request
       IN  /\ parked' = parked \ {r}
           /\ settled' = settled \cup ({r} \cap parked)
    /\ UNCHANGED <<inputQueue, waiters, due, eventQueue, closed, eventBuffer, answer, stack,
                   written, consumed, dropped, lost, handled, interrupts>>

-----------------------------------------------------------------------------
(* The worker.                                                             *)

(* A frame posts a request for the main thread and blocks. *)
Ask(type, c, posts) ==
    /\ NewCall(c)
    /\ toMain' = toMain \o posts \o <<[type |-> type, call |-> c]>>

(* R prints a prompt and reads the console: at top level, or from code     *)
(* that asks for a line.                                                   *)
ReadConsole(c) ==
    /\ ~ closed
    /\ stack = <<>> \/ TopIs("eval")
    /\ Len(stack) < MaxDepth
    /\ Ask("read", c, <<>>)
    /\ stack' = Append(stack, Prompt(c))
    /\ UNCHANGED <<mainVars, eventBuffer, answer, history>>

Unanswered == Top.call # None /\ answer[Top.call] = None
Got(m) == Top.call # None /\ answer[Top.call] = m
Taken == answer' = [answer EXCEPT ![Top.call] = None]

(* inputOrDispatch() returns a line: to the console loop, which evaluates  *)
(* it, or to the code that asked for it.                                   *)
GetLine(m) ==
    /\ ~ closed
    /\ TopIs("prompt") /\ m \in Line /\ Got(m) /\ Taken
    /\ stack' = IF Below = <<>> THEN <<Eval(m)>> ELSE Below
    /\ consumed' = Append(consumed, m)
    /\ UNCHANGED <<mainVars, eventBuffer, toMain, written, settled, dropped, lost,
                   handled, interrupts>>

(* inputOrDispatch() dispatches a request. *)
GetRequest(m) ==
    /\ ~ closed
    /\ TopIs("prompt") /\ m \in Request /\ Got(m) /\ Taken
    /\ stack' = Below \o <<Prompt(None), Eval(m)>>
    /\ consumed' = Append(consumed, m)
    /\ UNCHANGED <<mainVars, eventBuffer, toMain, written, settled, dropped, lost,
                   handled, interrupts>>

Response(r) == [type |-> "response", request |-> r]

(* A request is done: its response is posted and inputOrDispatch() reads   *)
(* again.                                                                  *)
FinishRequest(c) ==
    /\ ~ closed
    /\ TopIs("eval") /\ Top.item \in Request
    /\ Ask("read", c, <<Response(Top.item)>>)
    /\ stack' = Front(Below) \o <<Prompt(c)>>
    /\ UNCHANGED <<mainVars, eventBuffer, answer, history>>

(* A console line is done. *)
FinishLine ==
    /\ ~ closed
    /\ TopIs("eval") /\ Top.item \in Line
    /\ stack' = Below
    /\ UNCHANGED <<mainVars, eventBuffer, toMain, answer, history>>

(* handleEvents() with the flag up: called by R while it computes, or by a *)
(* wait that timed out.                                                    *)
StartEvents(c) ==
    /\ eventBuffer # 0
    /\ Ask("event", c, <<>>)
    /\ stack' = Append(stack, Events(c))
    /\ UNCHANGED <<mainVars, eventBuffer, answer, history>>

PollEvents(c) ==
    /\ ~ closed
    /\ TopIs("eval") /\ Len(stack) < MaxDepth
    /\ StartEvents(c)

TimeoutEvents(c) ==
    /\ ~ closed
    /\ TopIs("prompt") \/ TopIs("events")
    /\ Unanswered /\ Len(stack) < MaxDepth
    /\ StartEvents(c)

(* handleEvents() handles an event and asks for the next. *)
HandleEvent(e, c) ==
    /\ ~ closed
    /\ TopIs("events") /\ Got(e) /\ Taken
    /\ handled' = Append(handled, e)
    /\ Ask("event", c, <<>>)
    /\ stack' = Append(Below, Events(c))
    /\ UNCHANGED <<mainVars, eventBuffer, written, consumed, settled, dropped, lost,
                   interrupts>>

(* There is no event left: the flag is cleared and handleEvents() returns. *)
EndEvents ==
    /\ ~ closed
    /\ TopIs("events") /\ Got(NoEvent) /\ Taken
    /\ eventBuffer' = 0
    /\ stack' = Below
    /\ UNCHANGED <<mainVars, toMain, history>>

(* The frames above k that evaluate a request, innermost first. *)
Unwindings(k) ==
    LET evals == {i \in k + 1 .. Len(stack) : stack[i].item \in Request}
    IN  {u \in [1 .. Cardinality(evals) -> evals] :
           \A i, j \in 1 .. Cardinality(evals) : i < j => u[i] > u[j]}

(* Broken variant: only the innermost request is answered. *)
AnswerInnermost(u) == IF u = <<>> THEN <<>> ELSE <<Response(stack[u[1]].item)>>

AnswerUnwound(u) == [i \in 1 .. Len(u) |-> Response(stack[u[i]].item)]

(* The event is an interrupt: R jumps to top level (k = 0) or to R code    *)
(* that catches interrupts (the eval frame k).  dispatch() answers every   *)
(* request the jump unwinds with an error and lets it go on; what other    *)
(* unwound frames had been given is lost.  The flag stays up.              *)
HandleInterrupt(k) ==
    /\ ~ closed
    /\ TopIs("events") /\ Got(Interrupt)
    /\ k = 0 \/ (k \in 1 .. Len(Below) /\ stack[k].kind = "eval")
    /\ stack' = SubSeq(stack, 1, k)
    /\ \E u \in Unwindings(k) : toMain' = toMain \o AnswerUnwound(u)
    /\ LET gone == {f.call : f \in ToSet(SubSeq(stack, k + 1, Len(stack)))} \ {None}
       IN  /\ lost' = lost \cup ({answer[c] : c \in gone \ {Top.call}} \ {None, NoEvent})
           /\ answer' = [c \in Call |-> IF c \in gone THEN None ELSE answer[c]]
    /\ UNCHANGED <<mainVars, eventBuffer, written, consumed, settled, dropped,
                   handled, interrupts>>

-----------------------------------------------------------------------------
MainStep == ResumeRead \/ ReceiveRead \/ ReceiveEvent \/ ReceiveResponse

(* What the worker does by itself when it is not waiting for an answer.    *)
WorkerStep ==
    \/ \E m \in Message : GetLine(m) \/ GetRequest(m)
    \/ FinishLine
    \/ \E c \in Call : FinishRequest(c)
    \/ \E e \in Event, c \in Call : HandleEvent(e, c)
    \/ EndEvents
    \/ \E k \in 0 .. MaxDepth : HandleInterrupt(k)

UserStep ==
    \/ \E m \in Message : Write(m)
    \/ \E r \in Request : RequestClosed(r)
    \/ \E e \in Event : Emit(e)
    \/ RequestInterrupt
    \/ Close

Next ==
    \/ MainStep
    \/ WorkerStep
    \/ \E c \in Call : ReadConsole(c) \/ PollEvents(c) \/ TimeoutEvents(c)
    \/ UserStep

(* The main thread's event loop runs; a worker that has an answer goes on, *)
(* evaluations end, the console loop reads again and a raised flag is      *)
(* noticed.  Applications need not do anything, and evaluations need not   *)
(* ask for lines.                                                          *)
ConsoleLoop == stack = <<>> /\ \E c \in Call : ReadConsole(c)
NoticeEvents == \E c \in Call : PollEvents(c) \/ TimeoutEvents(c)

Fairness ==
    /\ WF_vars(MainStep)
    /\ WF_vars(WorkerStep)
    /\ WF_vars(ConsoleLoop)
    /\ WF_vars(NoticeEvents)

Spec == Init /\ [][Next]_vars /\ Fairness

-----------------------------------------------------------------------------
(* The worker gets messages in the order they were written and none twice, *)
(* through nested prompts, interrupts and reads that were given up.        *)
WrittenAt(m) == CHOOSE i \in 1 .. Len(written) : written[i] = m
ConsumedInOrder ==
    \A i, j \in 1 .. Len(consumed) :
        i < j => WrittenAt(consumed[i]) < WrittenAt(consumed[j])

(* The places of a message or event, each by its index in the queue or     *)
(* stack that holds it.                                                    *)
At(q, x) == {i \in 1 .. Len(q) : q[i] = x}
Due(x) == {i \in 1 .. Len(due) : due[i].message = x}
Offered(x) == {i \in 1 .. Len(stack) : stack[i].call # None /\ answer[stack[i].call] = x}
Evaluated(r) == {i \in 1 .. Len(stack) : stack[i].item = r}

RequestPlaces(r) ==
    ({"stored"} \X At(inputQueue, r)) \cup ({"due"} \X Due(r))
    \cup ({"offered"} \X Offered(r)) \cup ({"evaluated"} \X Evaluated(r))
    \cup ({"answered"} \X At(toMain, Response(r)))
    \cup ({"discarded"} \X ({r} \cap (dropped \cup lost)))

(* A request whose promise is open is in exactly one place: stored, on its *)
(* way to a read, being evaluated, or answered; only a reset queue or an   *)
(* unwound read can take it away, and a settled request is nowhere.  In    *)
(* particular an interrupt answers every request it unwinds, at any depth. *)
RequestAccounted ==
    \A r \in ToSet(written) \cap Request :
        Cardinality(RequestPlaces(r)) = IF r \in parked THEN 1 ELSE 0

EventPlaces(e) ==
    ({"queued"} \X At(eventQueue, e)) \cup ({"offered"} \X Offered(e))
    \cup ({"handled"} \X At(handled, e)) \cup ({"discarded"} \X ({e} \cap lost))

(* An event is queued, offered to a handler that is still there, handled   *)
(* or lost to an unwound handler: one of these, and it is handled once.    *)
EventAccounted == \A e \in Event : Cardinality(EventPlaces(e)) <= 1

(* While nobody interrupts, nothing is lost and the only read that waits   *)
(* for a message is the innermost prompt the worker is blocked in.         *)
QuietReads ==
    interrupts = 0 =>
        /\ dropped = {} /\ lost = {}
        /\ Len(waiters) <= 1
        /\ \A i \in 1 .. Len(waiters) : \E f \in 1 .. Len(stack) :
              /\ stack[f] = Prompt(waiters[i])
              /\ \A g \in f + 1 .. Len(stack) : stack[g].kind = "events"

(* A request is settled in the end, also behind other requests and inside  *)
(* nested prompts, unless someone interrupts or closes the channel or its  *)
(* evaluation itself asks for a line.                                      *)
AsksForLine(r) ==
    \E i, j \in 1 .. Len(stack) :
        i < j /\ stack[i].item = r /\ stack[j].kind = "prompt"
RequestSettles ==
    \A r \in Request :
        r \in parked ~> \/ r \in settled
                        \/ interrupts > 0 \/ closed
                        \/ AsksForLine(r)

-----------------------------------------------------------------------------
(* What the documentation says of messages, that they are stored until the *)
(* worker consumes them, of a worker at rest: when nothing is in flight    *)
(* and no event is queued, a read that waits for the next message is one   *)
(* the worker is blocked in, so that the message reaches R.                *)
IdleReadIsLive ==
    (~ closed /\ toMain = <<>> /\ due = <<>> /\ eventQueue = <<>>)
        => ToSet(waiters) \subseteq LiveCalls

(* A worker that keeps looking at the flag takes every emitted event and   *)
(* interrupt off the queue in the end.                                     *)
EventsNoticed == eventQueue # <<>> ~> (eventQueue = <<>> \/ closed)
====
