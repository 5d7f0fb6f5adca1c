---- MODULE PostMessage ----
(***************************************************************************)
(* A session over the PostMessage channel (src/webR/chan/                  *)
(* channel-postmessage.ts): ChannelMain and WebR on the main thread        *)
(* (channel.ts, webr-main.ts), the fallback REPL on the R worker, and the  *)
(* Console that reads R's output (console.ts).                             *)
(*                                                                         *)
(* The worker cannot block, so its REPL asks for one message at a time and *)
(* waits for the answer.  R asks for input through inputOrDispatch(): once *)
(* at the top-level prompt, where the answer "nothing" ends R's step, and  *)
(* again from code such as readline(), where a count of the prompts tells  *)
(* the second request from the first.  Messages between the threads arrive *)
(* in order.                                                               *)
(***************************************************************************)
EXTENDS Integers, Sequences

CONSTANTS
    InputLine,     \* lines for R's console, each a sequence of statements
    Evaluated,     \* statements evaluated on request
    MaxWritten     \* bound on the messages the main thread writes

(* A statement asks for input, then ends with a value, an R error or an    *)
(* error of the WebAssembly machine; it may set a timer.                   *)
Statement == [asks : 0 .. 2, ends : {"value", "error", "fatal"}, timer : BOOLEAN]

ASSUME PostMessageAssumption ==
    /\ InputLine \subseteq Seq(Statement) /\ Evaluated \subseteq Statement
    /\ MaxWritten \in Nat

VARIABLES
    ready,        \* start of the session: "no", "asking" or "yes"
    written,      \* inputQueue: messages for R
    reading,      \* reads of inputQueue that wait for a message
    unsettled,    \* #parked of ChannelMain: requests without a response
    outcome,      \* how the promise of each request was settled
    closed,       \* #closed
    systemQueue,  \* messages for WebR itself
    timers,       \* timers that have not fired
    outputQueue,  \* R's output
    console,      \* "prompted", "busy" or "ended"
    toWorker,     \* messages on their way to the worker
    fromWorker,   \* messages on their way back
    repl,         \* where the REPL is
    statements,   \* what R has not run yet of the line in its buffer
    promptDepth,  \* #promptDepth
    asked,        \* history: the last line asked for input while it ran
    refused,      \* history: R was refused input since that line was taken
    died,         \* history: a line ended with an error of the machine
    total         \* history: messages written by the main thread

postMainVars == <<ready, written, reading, unsettled, outcome, closed, systemQueue, timers, total>>
postConsoleVars == <<outputQueue, console>>
postWorkerVars == <<repl, statements, promptDepth, asked, refused, died>>
postVars == <<postMainVars, postConsoleVars, postWorkerVars, toWorker, fromWorker>>

Requests == 0 .. MaxWritten
FirstRequest == 0        \* stands for those that fetch the session's first objects
Plain == [asks |-> 0, ends |-> "value", timer |-> FALSE]

SessionInit ==
    /\ ready = "no" /\ written = <<>> /\ reading = 0
    /\ unsettled = {} /\ outcome = [r \in Requests |-> "none"] /\ closed = FALSE
    /\ systemQueue = <<>> /\ timers = 0 /\ total = 0
    /\ outputQueue = <<>> /\ console = "busy"
    /\ toWorker = <<>> /\ fromWorker = <<>>
    /\ repl = "starting" /\ statements = <<>> /\ promptDepth = 0
    /\ asked = FALSE /\ refused = FALSE /\ died = FALSE

-----------------------------------------------------------------------------
(* What the worker posts.                                                  *)

Output(type) == [to |-> "output", type |-> type]
System(type) == [to |-> "system", type |-> type]
PostPrompt == <<Output("prompt")>>
Post(messages) == fromWorker' = fromWorker \o messages

(* Broken variant: the count of requests is never reset.                   *)
AlwaysCounts(depth) == [refused |-> depth > 0, depth |-> depth + 1]

(* inputOrDispatch(), when R asks for input. *)
InputOrDispatch(depth) == [refused |-> depth > 0, depth |-> IF depth > 0 THEN 0 ELSE depth + 1]

(* R asks n times, with a prompt, until it is refused.  Prompts in a row   *)
(* count as one.                                                           *)
AskInput(depth, n) ==
    LET first == InputOrDispatch(depth)
    IN  IF n = 0 THEN [refused |-> FALSE, depth |-> depth]
        ELSE IF n = 1 \/ first.refused THEN first
        ELSE InputOrDispatch(first.depth)
AskPosts(s) == IF s.asks = 0 THEN <<>> ELSE PostPrompt

TimerPosts(s) == IF s.timer THEN <<System("setTimeoutWasm")>> ELSE <<>>

-----------------------------------------------------------------------------
(* The worker.                                                             *)

WorkerOnly == UNCHANGED <<postMainVars, postConsoleVars>>

(* run(): R's first prompt resolves the start of the session. *)
StartR ==
    /\ repl = "starting" /\ repl' = "asks"
    /\ promptDepth' = InputOrDispatch(promptDepth).depth
    /\ Post(<<System("console.warn"), Output("prompt"), [to |-> "session"]>>)
    /\ WorkerOnly /\ UNCHANGED <<statements, asked, refused, died, toWorker>>

(* Broken variant: the count of prompts is left from the line before.      *)
DepthKept == promptDepth
TopDepth == 0

(* One turn of the loop of asyncREPL(). *)
AskMessage ==
    /\ repl = "asks" /\ repl' = "awaits"
    /\ promptDepth' = TopDepth
    /\ asked' = FALSE /\ refused' = FALSE
    /\ Post(<<[to |-> "read"]>>)
    /\ WorkerOnly /\ UNCHANGED <<statements, died, toWorker>>

(* dispatch() of a request: it answers in every case, and an R error goes  *)
(* on to the loop, which does not end.                                     *)
DispatchRequest(m) ==
    LET input == AskInput(promptDepth, m.statement.asks)
        good == ~ input.refused /\ m.statement.ends = "value"
    IN  /\ promptDepth' = input.depth
        /\ repl' = "asks"
        /\ Post(AskPosts(m.statement) \o (IF input.refused THEN <<>> ELSE TimerPosts(m.statement))
                \o <<[to |-> "response", request |-> m.request,
                      outcome |-> IF good THEN "resolved" ELSE "rejected"]>>)
        /\ UNCHANGED <<statements, asked, refused>>

(* Any other message is an error that ends the loop. *)
TakeMessage ==
    /\ repl = "awaits" /\ toWorker # <<>>
    /\ toWorker' = Tail(toWorker)
    /\ LET m == Head(toWorker)
       IN  \/ /\ m.type = "stdin"
              /\ repl' = "runs" /\ statements' = m.line
              /\ UNCHANGED <<fromWorker, promptDepth, asked, refused>>
           \/ m.type = "request" /\ DispatchRequest(m)
           \/ /\ m.type = "other" /\ repl' = "stopped"
              /\ UNCHANGED <<fromWorker, statements, promptDepth, asked, refused>>
    /\ WorkerOnly /\ UNCHANGED died

(* R_ReplDLLdo1(), with a statement in the buffer. *)
RunStatement ==
    /\ repl = "runs" /\ statements # <<>>
    /\ LET s == Head(statements)
           input == AskInput(promptDepth, s.asks)
           ends == IF input.refused THEN "error" ELSE s.ends
       IN  /\ promptDepth' = input.depth
           /\ asked' = (asked \/ s.asks > 0) /\ refused' = (refused \/ input.refused)
           /\ Post(AskPosts(s) \o (IF input.refused THEN <<>> ELSE TimerPosts(s))
                   \o IF ends = "fatal"
                      THEN <<System("console.error"), System("console.error"), System("close")>>
                      ELSE <<>>)
           /\ repl' = CASE ends = "value" -> "runs" [] ends = "error" -> "recovers"
                        [] ends = "fatal" -> "stopped"
           /\ statements' = IF ends = "value" THEN Tail(statements) ELSE <<>>
           /\ died' = (died \/ ends = "fatal")
    /\ WorkerOnly /\ UNCHANGED toWorker

PromptStep(onRefusal) ==
    LET input == InputOrDispatch(promptDepth)
    IN  /\ Post(PostPrompt)
        /\ promptDepth' = input.depth /\ refused' = (refused \/ input.refused)
        /\ repl' = IF input.refused THEN onRefusal ELSE "asks"
        /\ WorkerOnly /\ UNCHANGED <<statements, asked, died, toWorker>>

(* R_ReplDLLdo1(), with an empty buffer: R prompts, and is refused when    *)
(* the statements before have asked.                                       *)
EndLine == repl = "runs" /\ statements = <<>> /\ PromptStep("recovers")

(* Broken variant: R starts again without a prompt.                        *)
NoPrompt ==
    repl' = "asks" /\ WorkerOnly
    /\ UNCHANGED <<statements, promptDepth, asked, refused, died, toWorker, fromWorker>>

(* R_ReplDLLinit() and R_ReplDLLdo1() after an R error; a second error     *)
(* goes to the loop.                                                       *)
Reprompt == PromptStep("asks")
Recover == repl = "recovers" /\ Reprompt

-----------------------------------------------------------------------------
(* The main thread.                                                        *)

MainOnly == UNCHANGED postWorkerVars

(* write() throws when the channel is closed. *)
WriteInput(m) == written' = IF closed THEN written ELSE Append(written, m)

(* request() of ChannelMain keeps the request even when write() throws. *)
WriteRequest(r, s) ==
    /\ WriteInput([type |-> "request", request |-> r, statement |-> s])
    /\ unsettled' = unsettled \cup {r}
    /\ outcome' = IF closed THEN [outcome EXCEPT ![r] = "rejected"] ELSE outcome

Counted == total < MaxWritten /\ total' = total + 1
NotConsole == UNCHANGED postConsoleVars
NoTransit == UNCHANGED <<toWorker, fromWorker>>

UserRequest(s) ==
    /\ Counted /\ WriteRequest(total', s)
    /\ MainOnly /\ NotConsole /\ NoTransit
    /\ UNCHANGED <<ready, reading, closed, systemQueue, timers>>

(* writeConsole(), at the prompt or from somewhere else. *)
UserLine(l, typed) ==
    /\ Counted /\ WriteInput([type |-> "stdin", line |-> l])
    /\ typed => console = "prompted"
    /\ console' = IF typed THEN "busy" ELSE console
    /\ MainOnly /\ NoTransit
    /\ UNCHANGED <<ready, reading, unsettled, outcome, closed, systemQueue, timers, outputQueue>>

(* write() of a message of the user's own. *)
UserMessage ==
    /\ Counted /\ WriteInput([type |-> "other"])
    /\ MainOnly /\ NotConsole /\ NoTransit
    /\ UNCHANGED <<ready, reading, unsettled, outcome, closed, systemQueue, timers>>

TimerFires ==
    /\ timers > 0 /\ timers' = timers - 1
    /\ Counted /\ WriteRequest(total', Plain)
    /\ MainOnly /\ NotConsole /\ NoTransit
    /\ UNCHANGED <<ready, reading, closed, systemQueue>>

(* A message that the queue has for a read is posted to the worker. *)
AnswerRead ==
    /\ reading > 0 /\ written # <<>>
    /\ reading' = reading - 1 /\ written' = Tail(written)
    /\ toWorker' = IF closed THEN toWorker ELSE Append(toWorker, Head(written))
    /\ MainOnly /\ NotConsole
    /\ UNCHANGED <<ready, unsettled, outcome, closed, systemQueue, timers, total, fromWorker>>

(* resolveResponse() *)
Settle(m) ==
    /\ m.request \in unsettled
    /\ unsettled' = unsettled \ {m.request}
    /\ outcome' = [outcome EXCEPT ![m.request] = m.outcome]
    /\ ready' = IF m.request = FirstRequest THEN "yes" ELSE ready

(* onMessageFromWorker() *)
Deliver ==
    /\ fromWorker # <<>> /\ fromWorker' = Tail(fromWorker)
    /\ LET m == Head(fromWorker)
       IN  \/ /\ m.to = "session" /\ ready' = "asking" /\ WriteRequest(FirstRequest, Plain)
              /\ UNCHANGED <<reading, systemQueue, outputQueue>>
           \/ /\ m.to = "response" /\ Settle(m)
              /\ UNCHANGED <<written, reading, systemQueue, outputQueue>>
           \/ /\ m.to = "system" /\ systemQueue' = Append(systemQueue, m.type)
              /\ UNCHANGED <<ready, written, reading, unsettled, outcome, outputQueue>>
           \/ /\ m.to = "output" /\ outputQueue' = Append(outputQueue, m.type)
              /\ UNCHANGED <<ready, written, reading, unsettled, outcome, systemQueue>>
           \/ /\ m.to = "read" /\ reading' = reading + 1
              /\ UNCHANGED <<ready, written, unsettled, outcome, systemQueue, outputQueue>>
    /\ MainOnly /\ UNCHANGED <<closed, timers, total, console, toWorker>>

(* Broken variant: the reader of the output is not told.                   *)
CloseQuietly == UNCHANGED outputQueue

(* putClosedMessage() *)
PutClosed == outputQueue' = Append(outputQueue, "closed")

(* close(): what the worker has posted may still arrive. *)
CloseChannel(arrives) ==
    /\ closed' = TRUE /\ PutClosed
    /\ repl' = "terminated" /\ toWorker' = <<>>
    /\ fromWorker' = IF arrives THEN fromWorker ELSE <<>>
    /\ UNCHANGED <<written, reading, unsettled, outcome, total, console,
                   statements, promptDepth, asked, refused, died>>

UserCloses(arrives) ==
    /\ ~ closed /\ CloseChannel(arrives)
    /\ UNCHANGED <<ready, systemQueue, timers>>

(* handleSystemMessages(), which starts when the first objects are there. *)
SystemMessage(arrives) ==
    /\ ready = "yes" /\ systemQueue # <<>> /\ systemQueue' = Tail(systemQueue)
    /\ LET type == Head(systemQueue)
       IN  \/ /\ type = "close" /\ CloseChannel(arrives) /\ UNCHANGED timers
           \/ /\ type = "setTimeoutWasm" /\ timers' = timers + 1 /\ MainOnly /\ NotConsole /\ NoTransit
              /\ UNCHANGED <<written, reading, unsettled, outcome, closed, total>>
           \/ /\ type \in {"console.warn", "console.error"} /\ MainOnly /\ NotConsole /\ NoTransit
              /\ UNCHANGED <<written, reading, unsettled, outcome, closed, total, timers>>
    /\ UNCHANGED ready

(* run() of Console *)
ConsoleReads ==
    /\ console # "ended" /\ outputQueue # <<>> /\ outputQueue' = Tail(outputQueue)
    /\ console' = CASE Head(outputQueue) = "prompt" -> "prompted"
                    [] Head(outputQueue) = "closed" -> "ended"
    /\ MainOnly /\ NoTransit /\ UNCHANGED postMainVars

SessionNext ==
    \/ StartR \/ AskMessage \/ TakeMessage \/ RunStatement \/ EndLine \/ Recover
    \/ \E s \in Evaluated : UserRequest(s)
    \/ \E l \in InputLine, typed \in BOOLEAN : UserLine(l, typed)
    \/ UserMessage \/ TimerFires \/ AnswerRead \/ Deliver \/ ConsoleReads
    \/ \E arrives \in BOOLEAN : UserCloses(arrives) \/ SystemMessage(arrives)

SessionSpec == SessionInit /\ [][SessionNext]_postVars

-----------------------------------------------------------------------------
SessionTypeOK ==
    /\ ready \in {"no", "asking", "yes"} /\ reading \in 0 .. 1
    /\ unsettled \subseteq Requests
    /\ outcome \in [Requests -> {"none", "resolved", "rejected"}]
    /\ console \in {"prompted", "busy", "ended"}
    /\ repl \in {"starting", "asks", "awaits", "runs", "recovers", "stopped", "terminated"}
    /\ promptDepth \in 0 .. 1
    /\ total \in 0 .. MaxWritten

(* After a line R has been refused input when its code asked for some, and *)
(* only then: what remains in the count of a line that failed or was       *)
(* refused never makes R refuse its own prompt for a later line.           *)
RefusedWhenAsked == repl = "asks" => asked = refused

(* Nothing is on its way and the REPL waits. *)
SessionIdle ==
    /\ fromWorker = <<>> /\ toWorker = <<>> /\ outputQueue = <<>>
    /\ reading = 0 \/ written = <<>>
    /\ systemQueue = <<>> \/ ready # "yes"

(* A REPL that waits when nothing is on its way has answered every request *)
(* and taken every line, has its one read with the main thread, and the    *)
(* console is at a prompt: no R error, refusal or timer leaves a request   *)
(* or the user waiting.                                                    *)
IdleMeansDone ==
    SessionIdle /\ repl = "awaits" =>
        /\ ready = "yes" /\ reading = 1 /\ unsettled = {} /\ console = "prompted"

(* When a line has ended R with an error of the machine and the session    *)
(* had started, the channel is closed and the console has ended.           *)
FatalEndsSession == SessionIdle /\ died /\ ready = "yes" => closed /\ console = "ended"
====
