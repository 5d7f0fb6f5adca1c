---- MODULE PostMessageProofs ----
(***************************************************************************)
(* The prompts of a session over the PostMessage channel, its one read,    *)
(* and its end by an error of the WebAssembly machine, for every set of    *)
(* lines and requests and any number of messages.                          *)
(***************************************************************************)
EXTENDS PostMessage, TLAPS

-----------------------------------------------------------------------------
(* Types.                                                                  *)

InputMessage ==
    [type : {"stdin"}, line : InputLine]
    \cup [type : {"request"}, request : Requests, statement : Evaluated \cup {Plain}]
    \cup [type : {"other"}]
SystemType == {"console.warn", "console.error", "close", "setTimeoutWasm"}
Posted ==
    [to : {"output"}, type : {"prompt"}] \cup [to : {"system"}, type : SystemType]
    \cup [to : {"session"}]
    \cup [to : {"response"}, request : Requests, outcome : {"resolved", "rejected"}]
WorkerMessage == Posted \cup [to : {"read"}]

MessageTypes ==
    /\ written \in Seq(InputMessage) /\ toWorker \in Seq(InputMessage)
    /\ fromWorker \in Seq(WorkerMessage)
    /\ systemQueue \in Seq(SystemType) /\ outputQueue \in Seq({"prompt", "closed"})
    /\ statements \in Seq(Statement)
    /\ total \in 0 .. MaxWritten /\ closed \in BOOLEAN /\ died \in BOOLEAN
    /\ ready \in {"no", "asking", "yes"} /\ reading \in Nat /\ timers \in Nat
    /\ unsettled \subseteq Requests
    /\ outcome \in [Requests -> {"none", "resolved", "rejected"}]
    /\ console \in {"prompted", "busy", "ended"}
    /\ repl \in {"starting", "asks", "awaits", "runs", "recovers", "stopped", "terminated"}

LEMMA PlainTypes ==
    ASSUME PostMessageAssumption
    PROVE  /\ Plain \in Statement /\ Evaluated \cup {Plain} \subseteq Statement
           /\ FirstRequest \in Requests
           /\ \A m \in InputMessage :
                /\ m.type \in {"stdin", "request", "other"}
                /\ m.type = "stdin" => m.line \in Seq(Statement)
                /\ m.type = "request" => m.request \in Requests /\ m.statement \in Statement
<1>1. Plain \in Statement
  BY DEF Plain, Statement
<1>2. Evaluated \cup {Plain} \subseteq Statement /\ FirstRequest \in Requests
  BY <1>1 DEF PostMessageAssumption, FirstRequest, Requests
<1>3. ASSUME NEW m \in InputMessage
      PROVE  /\ m.type \in {"stdin", "request", "other"}
             /\ m.type = "stdin" => m.line \in Seq(Statement)
             /\ m.type = "request" => m.request \in Requests /\ m.statement \in Statement
  <2>1. CASE m \in [type : {"stdin"}, line : InputLine]
    BY <2>1 DEF PostMessageAssumption
  <2>2. CASE m \in [type : {"request"}, request : Requests, statement : Evaluated \cup {Plain}]
    BY <2>2, <1>2
  <2>3. CASE m \in [type : {"other"}]
    BY <2>3
  <2> QED BY <2>1, <2>2, <2>3 DEF InputMessage
<1> QED BY <1>1, <1>2, <1>3

LEMMA PostedTypes ==
    ASSUME NEW s \in Statement
    PROVE  /\ AskPosts(s) \in Seq(Posted)
           /\ TimerPosts(s) \in Seq(Posted)
           /\ PostPrompt \in Seq(Posted)
           /\ \A t \in SystemType : System(t) \in Posted
           /\ Output("prompt") \in Posted
<1>1. \A t \in SystemType : System(t) \in Posted
  BY DEF System, Posted
<1>2. Output("prompt") \in Posted
  BY DEF Output, Posted
<1>3. System("setTimeoutWasm") \in Posted
  BY <1>1 DEF SystemType
<1>4. \A m \in Posted : <<m>> \in Seq(Posted)
  OBVIOUS
<1>5. PostPrompt \in Seq(Posted) /\ <<>> \in Seq(Posted)
  BY <1>2, <1>4 DEF PostPrompt
<1>6. <<System("setTimeoutWasm")>> \in Seq(Posted)
  BY <1>3, <1>4
<1>7. AskPosts(s) \in Seq(Posted) /\ TimerPosts(s) \in Seq(Posted)
  BY <1>5, <1>6 DEF AskPosts, TimerPosts
<1> QED BY <1>1, <1>2, <1>5, <1>7

(* A message at the end of what is posted is among the posted. *)
LEMMA PostedLast ==
    ASSUME NEW a \in Seq(Posted), NEW b \in Seq(Posted), NEW i \in 1 .. Len(b)
    PROVE  \E j \in 1 .. Len(a \o b) : (a \o b)[j] = b[i]
<1>1. Len(a) + i \in 1 .. Len(a \o b) /\ (a \o b)[Len(a) + i] = b[i]
  OBVIOUS
<1> QED BY <1>1

LEMMA MessagesInitial == PostMessageAssumption /\ SessionInit => MessageTypes
<1> SUFFICES ASSUME PostMessageAssumption, SessionInit PROVE MessageTypes
  OBVIOUS
<1>1. /\ <<>> \in Seq(InputMessage) /\ <<>> \in Seq(WorkerMessage) /\ <<>> \in Seq(SystemType)
      /\ <<>> \in Seq({"prompt", "closed"}) /\ <<>> \in Seq(Statement)
  OBVIOUS
<1>2. 0 \in 0 .. MaxWritten
  BY DEF PostMessageAssumption
<1>3. outcome \in [Requests -> {"none", "resolved", "rejected"}]
  BY DEF SessionInit
<1> QED BY <1>1, <1>2, <1>3 DEF SessionInit, MessageTypes

(* A request is answered in every case. *)
Response(r, o) == [to |-> "response", request |-> r, outcome |-> o]

LEMMA AnswerPosted ==
    ASSUME PostMessageAssumption, NEW m \in InputMessage, m.type = "request", DispatchRequest(m)
    PROVE  \E p \in Seq(Posted) :
             /\ fromWorker' = fromWorker \o p
             /\ \E o \in {"resolved", "rejected"}, j \in 1 .. Len(p) : p[j] = Response(m.request, o)
<1>1. m.request \in Requests /\ m.statement \in Statement
  BY PlainTypes
<1>2. \A o \in {"resolved", "rejected"} : Response(m.request, o) \in Posted
  BY <1>1 DEF Posted, Response
<1> DEFINE input == AskInput(promptDepth, m.statement.asks)
           good == ~ input.refused /\ m.statement.ends = "value"
           timed == IF input.refused THEN <<>> ELSE TimerPosts(m.statement)
           o == IF good THEN "resolved" ELSE "rejected"
           before == AskPosts(m.statement) \o timed
           answer == <<Response(m.request, o)>>
<1>3. fromWorker' = fromWorker \o (before \o answer)
  BY DEF DispatchRequest, Post, Response
<1>4. before \in Seq(Posted)
  <2>1. timed \in Seq(Posted) /\ AskPosts(m.statement) \in Seq(Posted)
    <3>1. <<>> \in Seq(Posted)
      OBVIOUS
    <3> QED BY <1>1, <3>1, PostedTypes
  <2> HIDE DEF timed
  <2> QED BY ONLY <2>1
<1>5. o \in {"resolved", "rejected"}
  OBVIOUS
<1>6. answer \in Seq(Posted) /\ 1 \in 1 .. Len(answer) /\ answer[1] = Response(m.request, o)
  <2> HIDE DEF o
  <2> QED BY <1>2, <1>5
<1> HIDE DEF before, answer, o
<1>7. before \o answer \in Seq(Posted)
  BY ONLY <1>4, <1>6
<1>8. \E j \in 1 .. Len(before \o answer) : (before \o answer)[j] = answer[1]
  BY <1>4, <1>6, PostedLast, Zenon
<1>9. \E j \in 1 .. Len(before \o answer) : (before \o answer)[j] = Response(m.request, o)
  BY <1>6, <1>8, Zenon
<1> QED BY <1>3, <1>5, <1>7, <1>9, Zenon

(* What a step of the worker posts: a read only when it asks for the next  *)
(* message, and a message to close the channel when a line ends with an    *)
(* error of the machine.                                                   *)
LEMMA WorkerPosts ==
    ASSUME PostMessageAssumption, MessageTypes,
           StartR \/ TakeMessage \/ RunStatement \/ EndLine \/ Recover
    PROVE  \E p \in Seq(Posted) :
             /\ fromWorker' = fromWorker \o p
             /\ died' => died \/ \E i \in 1 .. Len(p) : p[i] = System("close")
<1> USE PlainTypes, PostedTypes DEF MessageTypes
<1>0. <<>> \in Seq(Posted) /\ fromWorker \o <<>> = fromWorker
  OBVIOUS
<1>1. CASE StartR
  <2>1. <<System("console.warn"), Output("prompt"), [to |-> "session"]>> \in Seq(Posted)
    BY DEF System, Output, Posted, SystemType
  <2> QED BY <1>1, <2>1 DEF StartR, Post
<1>2. CASE TakeMessage
  <2> DEFINE m == Head(toWorker)
  <2>1. m \in InputMessage /\ died' = died
    BY <1>2 DEF TakeMessage
  <2>2. CASE m.type = "request" /\ DispatchRequest(m)
    <3>1. PICK p \in Seq(Posted) : fromWorker' = fromWorker \o p
      BY <2>1, <2>2, AnswerPosted
    <3> QED BY <2>1, <3>1
  <2>3. CASE UNCHANGED fromWorker
    BY <1>0, <2>1, <2>3
  <2> QED BY <1>2, <2>2, <2>3 DEF TakeMessage
<1>3. CASE RunStatement
  <2> DEFINE s == Head(statements)
  <2>1. s \in Statement
    BY <1>3 DEF RunStatement
  <2> DEFINE input == AskInput(promptDepth, s.asks)
             ends == IF input.refused THEN "error" ELSE s.ends
             timed == IF input.refused THEN <<>> ELSE TimerPosts(s)
             last == <<System("console.error"), System("console.error"), System("close")>>
             closing == IF ends = "fatal" THEN last ELSE <<>>
             p == AskPosts(s) \o timed \o closing
  <2>2. <<>> \in Seq(Posted) /\ last \in Seq(Posted) /\ 3 \in 1 .. Len(last) /\ last[3] = System("close")
    BY DEF System, Posted, SystemType
  <2>3. fromWorker' = fromWorker \o p
    BY <1>3 DEF RunStatement, Post
  <2>4. timed \in Seq(Posted) /\ closing \in Seq(Posted) /\ AskPosts(s) \in Seq(Posted)
    <3> HIDE DEF last
    <3> QED BY <2>1, <2>2
  <2>5. died' => died \/ ends = "fatal"
    BY <1>3, Zenon DEF RunStatement
  <2>6. p \in Seq(Posted) /\ (closing = last => \E i \in 1 .. Len(p) : p[i] = System("close"))
    <3> HIDE DEF timed, closing, last
    <3>1. p \in Seq(Posted) /\ Len(p) = Len(AskPosts(s)) + Len(timed) + Len(closing)
      BY ONLY <2>4
    <3>2. ASSUME closing = last
          PROVE  \E i \in 1 .. Len(p) : p[i] = System("close")
      <4> DEFINE before == AskPosts(s) \o timed
      <4>1. before \in Seq(Posted) /\ p = before \o closing
        BY ONLY <2>4
      <4> HIDE DEF before, p
      <4>2. closing \in Seq(Posted) /\ 3 \in 1 .. Len(closing) /\ closing[3] = System("close")
        BY ONLY <2>2, <3>2
      <4>3. \E j \in 1 .. Len(before \o closing) : (before \o closing)[j] = closing[3]
        BY <4>1, <4>2, PostedLast, Zenon
      <4> QED BY <4>1, <4>2, <4>3, Zenon
    <3> QED BY <3>1, <3>2
  <2>7. ends = "fatal" => closing = last
    OBVIOUS
  <2> HIDE DEF p, closing, last, ends
  <2> QED BY <2>3, <2>5, <2>6, <2>7
<1>4. ASSUME NEW to, PromptStep(to) PROVE fromWorker' = fromWorker \o PostPrompt /\ died' = died
  BY <1>4 DEF PromptStep, Post
<1>5. CASE EndLine \/ Recover
  BY <1>4, <1>5 DEF EndLine, Recover, Reprompt
<1> QED BY <1>1, <1>2, <1>3, <1>5

LEMMA WorkerTypes ==
    ASSUME PostMessageAssumption, MessageTypes,
           StartR \/ AskMessage \/ TakeMessage \/ RunStatement \/ EndLine \/ Recover
    PROVE  MessageTypes'
<1> USE DEF MessageTypes
<1>1. fromWorker' \in Seq(WorkerMessage)
  <2>1. CASE AskMessage
    <3>1. <<[to |-> "read"]>> \in Seq(WorkerMessage)
      BY DEF WorkerMessage
    <3> QED BY <2>1, <3>1 DEF AskMessage, Post
  <2>2. CASE StartR \/ TakeMessage \/ RunStatement \/ EndLine \/ Recover
    <3>1. PICK p \in Seq(Posted) : fromWorker' = fromWorker \o p
      BY <2>2, WorkerPosts
    <3>2. p \in Seq(WorkerMessage)
      BY DEF WorkerMessage
    <3> QED BY <3>1, <3>2
  <2> QED BY <2>1, <2>2
<1>2. UNCHANGED <<postMainVars, postConsoleVars>>
  BY DEF StartR, AskMessage, TakeMessage, RunStatement, EndLine, Recover, Reprompt, PromptStep, WorkerOnly
<1>3. CASE StartR \/ AskMessage
  BY <1>1, <1>2, <1>3 DEF StartR, AskMessage, postMainVars, postConsoleVars
<1>4. CASE TakeMessage
  <2> DEFINE m == Head(toWorker)
  <2>1. m \in InputMessage /\ toWorker' \in Seq(InputMessage) /\ died' = died
    BY <1>4 DEF TakeMessage
  <2>2. /\ repl' \in {"runs", "asks", "stopped"}
        /\ statements' = statements \/ (m.type = "stdin" /\ statements' = m.line)
    <3>1. DispatchRequest(m) => repl' = "asks" /\ statements' = statements
      BY Zenon DEF DispatchRequest
    <3>2. \/ m.type = "stdin" /\ repl' = "runs" /\ statements' = m.line
          \/ DispatchRequest(m)
          \/ repl' = "stopped" /\ statements' = statements
      BY <1>4, Zenon DEF TakeMessage
    <3> HIDE DEF m
    <3> QED BY <3>1, <3>2
  <2> HIDE DEF m
  <2>3. repl' \in {"runs", "asks", "stopped"} /\ statements' \in Seq(Statement)
    BY <2>1, <2>2, PlainTypes
  <2> QED BY <1>1, <1>2, <2>1, <2>3 DEF postMainVars, postConsoleVars
<1>5. CASE RunStatement
  <2>1. Head(statements) \in Statement
    BY <1>5 DEF RunStatement
  <2>2. Head(statements).ends \in {"value", "error", "fatal"}
    BY <2>1 DEF Statement
  <2>3. statements' \in Seq(Statement) /\ repl' \in {"runs", "recovers", "stopped"} /\ died' \in BOOLEAN
    BY <1>5, <2>1, <2>2 DEF RunStatement
  <2> QED BY <1>1, <1>2, <1>5, <2>3 DEF RunStatement, postMainVars, postConsoleVars
<1>6. ASSUME NEW to \in {"recovers", "asks"}, PromptStep(to) PROVE MessageTypes'
  BY <1>1, <1>2, <1>6 DEF PromptStep, postMainVars, postConsoleVars
<1> QED BY <1>3, <1>4, <1>5, <1>6 DEF EndLine, Recover, Reprompt

(* The main thread's steps write messages for R, and take the worker's. *)
LEMMA MainTypes ==
    ASSUME PostMessageAssumption, MessageTypes,
           \/ \E s \in Evaluated : UserRequest(s)
           \/ \E l \in InputLine, typed \in BOOLEAN : UserLine(l, typed)
           \/ UserMessage \/ TimerFires \/ AnswerRead \/ Deliver \/ ConsoleReads
           \/ \E arrives \in BOOLEAN : UserCloses(arrives) \/ SystemMessage(arrives)
    PROVE  MessageTypes'
<1> USE PlainTypes DEF MessageTypes
<1>1. ASSUME NEW m \in InputMessage, WriteInput(m) PROVE written' \in Seq(InputMessage)
  BY <1>1 DEF WriteInput
<1>2. ASSUME NEW r \in Requests, NEW s \in Evaluated \cup {Plain}, WriteRequest(r, s)
      PROVE  /\ written' \in Seq(InputMessage) /\ unsettled' \subseteq Requests
             /\ outcome' \in [Requests -> {"none", "resolved", "rejected"}]
  <2>1. [type |-> "request", request |-> r, statement |-> s] \in InputMessage
    BY DEF InputMessage
  <2> QED BY <1>1, <1>2, <2>1 DEF WriteRequest
<1>3. ASSUME Counted PROVE total' \in 0 .. MaxWritten /\ total' \in Requests
  BY <1>3, PostMessageAssumption DEF Counted, Requests
<1>4. ASSUME NEW s \in Evaluated, UserRequest(s) PROVE MessageTypes'
  <2>1. WriteRequest(total', s) /\ Counted
    BY <1>4 DEF UserRequest
  <2>2. total' \in 0 .. MaxWritten /\ total' \in Requests
    BY <1>3, <2>1
  <2>3. /\ written' \in Seq(InputMessage) /\ unsettled' \subseteq Requests
        /\ outcome' \in [Requests -> {"none", "resolved", "rejected"}]
    BY <1>2, <2>1, <2>2
  <2> QED BY <1>4, <2>2, <2>3 DEF UserRequest, MainOnly, NotConsole, NoTransit, postWorkerVars,
        postConsoleVars
<1>5. ASSUME NEW l \in InputLine, NEW typed \in BOOLEAN, UserLine(l, typed) PROVE MessageTypes'
  <2>1. [type |-> "stdin", line |-> l] \in InputMessage
    BY DEF InputMessage
  <2>2. total' \in 0 .. MaxWritten /\ written' \in Seq(InputMessage)
    BY <1>1, <1>3, <1>5, <2>1 DEF UserLine
  <2> QED BY <1>5, <2>2 DEF UserLine, MainOnly, NoTransit, postWorkerVars
<1>6. CASE UserMessage
  <2>1. [type |-> "other"] \in InputMessage
    BY DEF InputMessage
  <2>2. total' \in 0 .. MaxWritten /\ written' \in Seq(InputMessage)
    BY <1>1, <1>3, <1>6, <2>1 DEF UserMessage
  <2> QED BY <1>6, <2>2 DEF UserMessage, MainOnly, NotConsole, NoTransit, postWorkerVars,
        postConsoleVars
<1>7. CASE TimerFires
  <2>1. WriteRequest(total', Plain) /\ Counted
    BY <1>7 DEF TimerFires
  <2>2. total' \in 0 .. MaxWritten /\ total' \in Requests
    BY <1>3, <2>1
  <2>3. /\ written' \in Seq(InputMessage) /\ unsettled' \subseteq Requests
        /\ outcome' \in [Requests -> {"none", "resolved", "rejected"}]
    BY <1>2, <2>1, <2>2
  <2> QED BY <1>7, <2>2, <2>3 DEF TimerFires, MainOnly, NotConsole, NoTransit, postWorkerVars,
        postConsoleVars
<1>8. CASE AnswerRead
  <2>1. written' \in Seq(InputMessage) /\ toWorker' \in Seq(InputMessage) /\ reading' \in Nat
    BY <1>8 DEF AnswerRead
  <2> QED BY <1>8, <2>1 DEF AnswerRead, MainOnly, NotConsole, postWorkerVars, postConsoleVars
<1>9. CASE Deliver
  <2> DEFINE m == Head(fromWorker)
  <2>1. m \in WorkerMessage /\ fromWorker' \in Seq(WorkerMessage)
    BY <1>9 DEF Deliver
  <2>2. UNCHANGED <<closed, timers, total, console, toWorker, repl, statements, died>>
    BY <1>9 DEF Deliver, MainOnly, postWorkerVars
  <2>3. CASE /\ ready' = "asking" /\ WriteRequest(FirstRequest, Plain)
             /\ UNCHANGED <<reading, systemQueue, outputQueue>>
    BY <1>2, <2>1, <2>2, <2>3
  <2>4. CASE /\ m.to = "response" /\ Settle(m)
             /\ UNCHANGED <<written, reading, systemQueue, outputQueue>>
    <3>1. m.outcome \in {"resolved", "rejected"}
      BY <2>1, <2>4 DEF WorkerMessage, Posted
    <3>2. /\ unsettled' \subseteq Requests /\ ready' \in {"no", "asking", "yes"}
          /\ outcome' \in [Requests -> {"none", "resolved", "rejected"}]
      BY <2>4, <3>1 DEF Settle
    <3> QED BY <2>1, <2>2, <2>4, <3>2
  <2>5. CASE /\ m.to = "system" /\ systemQueue' = Append(systemQueue, m.type)
             /\ UNCHANGED <<ready, written, reading, unsettled, outcome, outputQueue>>
    <3>1. m.type \in SystemType
      BY <2>1, <2>5 DEF WorkerMessage, Posted
    <3> QED BY <2>1, <2>2, <2>5, <3>1
  <2>6. CASE /\ m.to = "output" /\ outputQueue' = Append(outputQueue, m.type)
             /\ UNCHANGED <<ready, written, reading, unsettled, outcome, systemQueue>>
    <3>1. m.type \in {"prompt", "closed"}
      BY <2>1, <2>6 DEF WorkerMessage, Posted
    <3> QED BY <2>1, <2>2, <2>6, <3>1
  <2>7. CASE /\ m.to = "read" /\ reading' = reading + 1
             /\ UNCHANGED <<ready, written, unsettled, outcome, systemQueue, outputQueue>>
    BY <2>1, <2>2, <2>7
  <2> QED BY <1>9, <2>3, <2>4, <2>5, <2>6, <2>7 DEF Deliver
<1>10. CASE ConsoleReads
  <2>1. /\ Head(outputQueue) \in {"prompt", "closed"}
        /\ outputQueue' \in Seq({"prompt", "closed"})
    BY <1>10 DEF ConsoleReads
  <2> QED BY <1>10, <2>1 DEF ConsoleReads, MainOnly, NoTransit, postMainVars, postWorkerVars
<1>11. ASSUME NEW arrives \in BOOLEAN, CloseChannel(arrives)
       PROVE  /\ outputQueue' \in Seq({"prompt", "closed"}) /\ closed' = TRUE
              /\ repl' = "terminated" /\ toWorker' \in Seq(InputMessage)
              /\ fromWorker' \in Seq(WorkerMessage)
              /\ UNCHANGED <<written, reading, unsettled, outcome, total, console, statements, died>>
  BY <1>11 DEF CloseChannel, PutClosed
<1>12. ASSUME NEW arrives \in BOOLEAN, UserCloses(arrives) PROVE MessageTypes'
  BY <1>11, <1>12 DEF UserCloses
<1>13. ASSUME NEW arrives \in BOOLEAN, SystemMessage(arrives) PROVE MessageTypes'
  <2>1. systemQueue' \in Seq(SystemType) /\ UNCHANGED ready
    BY <1>13 DEF SystemMessage
  <2>2. CASE CloseChannel(arrives) /\ UNCHANGED timers
    BY <1>11, <2>1, <2>2
  <2>3. CASE /\ timers' \in {timers, timers + 1} /\ MainOnly /\ NotConsole /\ NoTransit
             /\ UNCHANGED <<written, reading, unsettled, outcome, closed, total>>
    BY <2>1, <2>3 DEF MainOnly, NotConsole, NoTransit, postWorkerVars, postConsoleVars
  <2> QED BY <1>13, <2>2, <2>3 DEF SystemMessage
<1> QED BY <1>4, <1>5, <1>6, <1>7, <1>8, <1>9, <1>10, <1>12, <1>13

LEMMA MessagesStep ==
    ASSUME PostMessageAssumption, MessageTypes, [SessionNext]_postVars
    PROVE  MessageTypes'
<1>1. CASE UNCHANGED postVars
  BY <1>1 DEF MessageTypes, postVars, postMainVars, postConsoleVars, postWorkerVars
<1> QED BY <1>1, WorkerTypes, MainTypes DEF SessionNext

THEOREM SessionMessages == SessionSpec => []MessageTypes
  BY PostMessageAssumption, MessagesInitial, MessagesStep, PTL DEF SessionSpec

-----------------------------------------------------------------------------
(* Prompts.                                                                *)

(* What the count of prompts is at each stage of the REPL: it counts at    *)
(* most one, and remembers exactly whether the line has asked for input    *)
(* that R was not refused.                                                 *)
PromptInv ==
    /\ promptDepth \in 0 .. 1
    /\ repl = "asks" => (asked <=> refused)
    /\ repl \in {"starting", "awaits"} => ~ asked /\ ~ refused
    /\ repl = "awaits" => promptDepth = 0
    /\ repl = "runs" => ~ refused /\ (promptDepth = 1 <=> asked)
    /\ repl = "recovers" => IF refused THEN asked /\ promptDepth = 0
                            ELSE promptDepth = 1 <=> asked

(* Asking n times: the first time is refused exactly when the count stands *)
(* at one, the second time always; a refusal resets the count.             *)
LEMMA AskedOnce ==
    ASSUME NEW d \in 0 .. 1
    PROVE  /\ InputOrDispatch(d).refused <=> d = 1
           /\ InputOrDispatch(d).depth = IF d = 1 THEN 0 ELSE 1
<1>1. InputOrDispatch(d).refused <=> d > 0
  BY Zenon DEF InputOrDispatch
<1>2. InputOrDispatch(d).depth = IF d > 0 THEN 0 ELSE d + 1
  BY Zenon DEF InputOrDispatch
<1> QED BY <1>1, <1>2

LEMMA AskedInput ==
    ASSUME NEW depth \in 0 .. 1, NEW n \in 0 .. 2
    PROVE  /\ AskInput(depth, n).depth \in 0 .. 1
           /\ n = 0 => ~ AskInput(depth, n).refused /\ AskInput(depth, n).depth = depth
           /\ n > 0 => /\ AskInput(depth, n).refused <=> (depth = 1 \/ n = 2)
                       /\ AskInput(depth, n).depth = IF AskInput(depth, n).refused THEN 0 ELSE 1
<1>1. ASSUME NEW d \in 0 .. 1
      PROVE  /\ InputOrDispatch(d).refused <=> d = 1
             /\ InputOrDispatch(d).depth = IF d = 1 THEN 0 ELSE 1
  BY AskedOnce
<1>2. CASE n = 0
  <2>1. ~ AskInput(depth, n).refused
    BY <1>2, Zenon DEF AskInput
  <2>2. AskInput(depth, n).depth = depth
    BY <1>2, Zenon DEF AskInput
  <2> QED BY <1>2, <2>1, <2>2
<1>3. CASE n = 1 \/ (n = 2 /\ depth = 1)
  <2>1. InputOrDispatch(depth).refused \/ n = 1
    BY <1>1, <1>3
  <2>2. AskInput(depth, n) = InputOrDispatch(depth)
    BY <1>3, <2>1 DEF AskInput
  <2> QED BY <1>1, <1>3, <2>2
<1>4. CASE n = 2 /\ depth = 0
  <2>1. ~ InputOrDispatch(depth).refused /\ InputOrDispatch(depth).depth = 1
    BY <1>1, <1>4
  <2>2. AskInput(depth, n) = InputOrDispatch(1)
    BY <1>4, <2>1 DEF AskInput
  <2> QED BY <1>1, <1>4, <2>2
<1> QED BY <1>2, <1>3, <1>4

LEMMA PromptInitial == SessionInit => PromptInv /\ asked \in BOOLEAN /\ refused \in BOOLEAN
<1> SUFFICES ASSUME SessionInit PROVE PromptInv /\ asked \in BOOLEAN /\ refused \in BOOLEAN
  OBVIOUS
<1>1. repl = "starting" /\ promptDepth = 0
  BY DEF SessionInit
<1>2. ~ asked /\ ~ refused /\ asked \in BOOLEAN /\ refused \in BOOLEAN
  BY Zenon DEF SessionInit
<1> QED BY <1>1, <1>2 DEF PromptInv

(* The histories stay truth values. *)
LEMMA HistoriesStep ==
    ASSUME asked \in BOOLEAN, refused \in BOOLEAN, [SessionNext]_postVars
    PROVE  asked' \in BOOLEAN /\ refused' \in BOOLEAN
<1>1. ASSUME NEW to, PromptStep(to) PROVE asked' \in BOOLEAN /\ refused' \in BOOLEAN
  BY <1>1, Zenon DEF PromptStep
<1>2. CASE RunStatement
  BY <1>2, Zenon DEF RunStatement
<1>3. CASE AskMessage
  BY <1>3, Zenon DEF AskMessage
<1>4. ASSUME StartR \/ TakeMessage PROVE UNCHANGED <<asked, refused>>
  BY <1>4, Zenon DEF StartR, TakeMessage, DispatchRequest
<1>5. ASSUME \/ \E s \in Evaluated : UserRequest(s)
             \/ \E l \in InputLine, typed \in BOOLEAN : UserLine(l, typed)
             \/ UserMessage \/ TimerFires \/ AnswerRead \/ Deliver \/ ConsoleReads
             \/ \E arrives \in BOOLEAN : UserCloses(arrives) \/ SystemMessage(arrives)
      PROVE  UNCHANGED <<asked, refused>>
  BY <1>5, Zenon DEF UserRequest, UserLine, UserMessage, TimerFires, AnswerRead, Deliver,
       ConsoleReads, UserCloses, SystemMessage, CloseChannel, MainOnly, postWorkerVars
<1>6. CASE UNCHANGED postVars
  BY <1>6, Zenon DEF postVars, postWorkerVars
<1> QED BY <1>1, <1>2, <1>3, <1>4, <1>5, <1>6, Zenon DEF SessionNext, EndLine, Recover, Reprompt

LEMMA PromptsStep ==
    ASSUME PostMessageAssumption, MessageTypes, PromptInv, [SessionNext]_postVars
    PROVE  PromptInv'
<1> USE DEF PromptInv
<1>1. CASE StartR
  <2>1. UNCHANGED <<asked, refused>> /\ repl = "starting" /\ repl' = "asks"
    BY <1>1, Zenon DEF StartR
  <2>2. promptDepth' \in 0 .. 1
    BY <1>1 DEF StartR, InputOrDispatch
  <2> QED BY <2>1, <2>2
<1>2. CASE AskMessage
  <2>1. ~ asked' /\ ~ refused'
    BY <1>2, Zenon DEF AskMessage
  <2>2. repl' = "awaits" /\ promptDepth' = 0
    BY <1>2 DEF AskMessage, TopDepth
  <2> QED BY <2>1, <2>2
<1>3. CASE TakeMessage
  <2> DEFINE m == Head(toWorker)
  <2>1. m \in InputMessage
    BY <1>3 DEF TakeMessage, MessageTypes
  <2>2. CASE m.type = "request" /\ DispatchRequest(m)
    <3>1. m.statement.asks \in 0 .. 2
      BY <2>1, <2>2, PlainTypes DEF Statement
    <3>2. promptDepth' \in 0 .. 1
      BY <2>2, <3>1, AskedInput DEF DispatchRequest
    <3>3. UNCHANGED <<asked, refused>> /\ repl = "awaits" /\ repl' = "asks"
      BY <1>3, <2>2, Zenon DEF TakeMessage, DispatchRequest
    <3> QED BY <3>2, <3>3
  <2>3. CASE repl' \in {"runs", "stopped"} /\ UNCHANGED <<promptDepth, asked, refused>>
    BY <1>3, <2>3 DEF TakeMessage
  <2> QED BY <1>3, <2>2, <2>3 DEF TakeMessage
<1>4. CASE RunStatement
  <2> DEFINE s == Head(statements)
             input == AskInput(promptDepth, s.asks)
             ends == IF input.refused THEN "error" ELSE s.ends
  <2>0. s \in Statement
    BY <1>4 DEF RunStatement, MessageTypes
  <2>1. s.asks \in 0 .. 2 /\ s.ends \in {"value", "error", "fatal"}
    <3> HIDE DEF s
    <3> QED BY <2>0 DEF Statement
  <2>2. /\ repl = "runs" /\ promptDepth' = input.depth
        /\ repl' = IF ends = "value" THEN "runs" ELSE IF ends = "error" THEN "recovers" ELSE "stopped"
    BY <1>4, <2>1 DEF RunStatement
  <2>3. (asked' <=> asked \/ s.asks > 0) /\ (refused' <=> refused \/ input.refused)
    BY <1>4, Zenon DEF RunStatement
  <2>4. /\ input.depth \in 0 .. 1
        /\ s.asks = 0 => ~ input.refused /\ input.depth = promptDepth
        /\ s.asks > 0 => input.depth = IF input.refused THEN 0 ELSE 1
    BY <2>1, AskedInput
  <2>5. repl' = "runs" => ~ input.refused
    BY <2>2
  <2>6. input.refused => repl' = "recovers"
    BY <2>2
  <2> HIDE DEF s, input, ends
  <2> QED BY <2>1, <2>2, <2>3, <2>4, <2>5, <2>6
<1>5. ASSUME NEW to, PromptStep(to)
      PROVE  /\ promptDepth' = IF promptDepth = 1 THEN 0 ELSE 1
             /\ refused' <=> refused \/ promptDepth = 1
             /\ asked' = asked
             /\ repl' = IF promptDepth = 1 THEN to ELSE "asks"
  <2> DEFINE input == InputOrDispatch(promptDepth)
  <2>1. (input.refused <=> promptDepth = 1) /\ input.depth = IF promptDepth = 1 THEN 0 ELSE 1
    BY AskedOnce
  <2>2. /\ promptDepth' = input.depth /\ repl' = IF input.refused THEN to ELSE "asks"
        /\ asked' = asked
    BY <1>5, Zenon DEF PromptStep
  <2>3. refused' <=> refused \/ input.refused
    BY <1>5, Zenon DEF PromptStep
  <2> HIDE DEF input
  <2> QED BY <2>1, <2>2, <2>3
<1>6. CASE EndLine \/ Recover
  <2>1. CASE repl = "runs" /\ PromptStep("recovers")
    BY <1>5, <2>1
  <2>2. CASE repl = "recovers" /\ PromptStep("asks")
    BY <1>5, <2>2
  <2> QED BY <1>6, <2>1, <2>2 DEF EndLine, Recover, Reprompt
<1>7. ASSUME NEW arrives \in BOOLEAN, CloseChannel(arrives) PROVE PromptInv'
  BY <1>7 DEF CloseChannel
<1>8. CASE UNCHANGED postWorkerVars
  BY <1>8 DEF postWorkerVars
<1>9. ASSUME \/ \E s \in Evaluated : UserRequest(s)
             \/ \E l \in InputLine, typed \in BOOLEAN : UserLine(l, typed)
             \/ UserMessage \/ TimerFires \/ AnswerRead \/ Deliver \/ ConsoleReads
      PROVE  UNCHANGED postWorkerVars
  BY <1>9 DEF UserRequest, UserLine, UserMessage, TimerFires, AnswerRead, Deliver, ConsoleReads, MainOnly
<1>10. ASSUME NEW arrives \in BOOLEAN, UserCloses(arrives) \/ SystemMessage(arrives)
       PROVE  UNCHANGED postWorkerVars \/ CloseChannel(arrives)
  BY <1>10 DEF UserCloses, SystemMessage, MainOnly
<1> QED BY <1>1, <1>2, <1>3, <1>4, <1>5, <1>6, <1>7, <1>8, <1>9, <1>10 DEF SessionNext, postVars

(* R is refused input when the code of a line asked for some, and only     *)
(* then.                                                                   *)
THEOREM RefusedOnlyWhenAsked == SessionSpec => []RefusedWhenAsked
<1> DEFINE Inv == PromptInv /\ asked \in BOOLEAN /\ refused \in BOOLEAN
<1>1. Inv => RefusedWhenAsked
  BY DEF PromptInv, RefusedWhenAsked
<1>2. Inv /\ MessageTypes /\ [SessionNext]_postVars => Inv'
  BY PromptsStep, HistoriesStep, PostMessageAssumption
<1>3. SessionInit => Inv
  BY PromptInitial
<1> HIDE DEF Inv
<1> QED BY <1>1, <1>2, <1>3, SessionMessages, PTL DEF SessionSpec

-----------------------------------------------------------------------------
(* The end of a session.                                                   *)

Has(q, x) == \E i \in 1 .. Len(q) : q[i] = x

LEMMA HasKept ==
    ASSUME NEW S, NEW q \in Seq(S), NEW x, Has(q, x)
    PROVE  /\ \A y \in S : Has(Append(q, y), x)
           /\ \A p \in Seq(S) : Has(q \o p, x)
           /\ q # <<>> /\ (Head(q) = x \/ Has(Tail(q), x))
<1> PICK i \in 1 .. Len(q) : q[i] = x
  BY DEF Has
<1>1. ASSUME NEW y \in S PROVE i \in 1 .. Len(Append(q, y)) /\ Append(q, y)[i] = x
  OBVIOUS
<1>2. ASSUME NEW p \in Seq(S) PROVE i \in 1 .. Len(q \o p) /\ (q \o p)[i] = x
  OBVIOUS
<1>3. q # <<>>
  OBVIOUS
<1>4. ASSUME i = 1 PROVE Head(q) = x
  BY <1>3, <1>4
<1>5. ASSUME i # 1 PROVE Has(Tail(q), x)
  <2>1. i - 1 \in 1 .. Len(Tail(q)) /\ Tail(q)[i - 1] = x
    BY <1>3, <1>5
  <2> QED BY <2>1 DEF Has
<1> QED BY <1>1, <1>2, <1>3, <1>4, <1>5 DEF Has

LEMMA HasLast ==
    ASSUME NEW S, NEW q \in Seq(S), NEW y \in S
    PROVE  Has(Append(q, y), y)
<1>1. Len(q) + 1 \in 1 .. Len(Append(q, y)) /\ Append(q, y)[Len(q) + 1] = y
  OBVIOUS
<1> QED BY <1>1 DEF Has

LEMMA HasPosted ==
    ASSUME NEW S, NEW q \in Seq(S), NEW p \in Seq(S), NEW x, Has(p, x)
    PROVE  Has(q \o p, x)
<1> PICK i \in 1 .. Len(p) : p[i] = x
  BY DEF Has
<1>1. Len(q) + i \in 1 .. Len(q \o p) /\ (q \o p)[Len(q) + i] = p[i]
  OBVIOUS
<1> QED BY <1>1 DEF Has

(* After an error of the machine the message to close is on its way until  *)
(* the channel is closed, and then the console's until it has ended.       *)
CloseComes == died => closed \/ Has(fromWorker, System("close")) \/ Has(systemQueue, "close")
ConsoleToldToEnd == closed => console = "ended" \/ Has(outputQueue, "closed")
EndInv == CloseComes /\ ConsoleToldToEnd

LEMMA EndInitial == SessionInit => EndInv
<1> SUFFICES ASSUME SessionInit PROVE EndInv
  OBVIOUS
<1>1. ~ died /\ ~ closed
  BY Zenon DEF SessionInit
<1> QED BY <1>1, Zenon DEF EndInv, CloseComes, ConsoleToldToEnd

LEMMA EndWorker ==
    ASSUME PostMessageAssumption, MessageTypes, EndInv,
           StartR \/ AskMessage \/ TakeMessage \/ RunStatement \/ EndLine \/ Recover
    PROVE  EndInv'
<1>1. UNCHANGED <<closed, systemQueue, console, outputQueue>>
  BY DEF StartR, AskMessage, TakeMessage, RunStatement, EndLine, Recover, Reprompt, PromptStep,
     WorkerOnly, postMainVars, postConsoleVars
<1>2. \E p \in Seq(WorkerMessage) :
        fromWorker' = fromWorker \o p /\ (died' => died \/ Has(p, System("close")))
  <2>1. CASE AskMessage
    <3>1. <<[to |-> "read"]>> \in Seq(WorkerMessage)
      BY DEF WorkerMessage
    <3>2. fromWorker' = fromWorker \o <<[to |-> "read"]>> /\ died' = died
      BY <2>1, Zenon DEF AskMessage, Post
    <3> QED BY <3>1, <3>2, Zenon
  <2>2. CASE StartR \/ TakeMessage \/ RunStatement \/ EndLine \/ Recover
    <3>1. PICK p \in Seq(Posted) :
                /\ fromWorker' = fromWorker \o p
                /\ died' => died \/ \E i \in 1 .. Len(p) : p[i] = System("close")
      BY <2>2, WorkerPosts
    <3>2. p \in Seq(WorkerMessage)
      BY DEF WorkerMessage
    <3> QED BY <3>1, <3>2, Zenon DEF Has
  <2> QED BY <2>1, <2>2
<1>3. PICK p \in Seq(WorkerMessage) :
        fromWorker' = fromWorker \o p /\ (died' => died \/ Has(p, System("close")))
  BY <1>2
<1>4. fromWorker \in Seq(WorkerMessage)
  BY DEF MessageTypes
<1>5. Has(fromWorker, System("close")) \/ Has(p, System("close"))
        => Has(fromWorker', System("close"))
  BY <1>3, <1>4, HasKept, HasPosted, Zenon
<1> QED BY <1>1, <1>3, <1>5, Zenon DEF EndInv, CloseComes, ConsoleToldToEnd

LEMMA EndMain ==
    ASSUME PostMessageAssumption, MessageTypes, EndInv,
           \/ \E s \in Evaluated : UserRequest(s)
           \/ \E l \in InputLine, typed \in BOOLEAN : UserLine(l, typed)
           \/ UserMessage \/ TimerFires \/ AnswerRead \/ Deliver \/ ConsoleReads
           \/ \E arrives \in BOOLEAN : UserCloses(arrives) \/ SystemMessage(arrives)
    PROVE  EndInv'
<1> USE DEF EndInv, CloseComes, ConsoleToldToEnd
<1>0. /\ fromWorker \in Seq(WorkerMessage) /\ systemQueue \in Seq(SystemType)
      /\ outputQueue \in Seq({"prompt", "closed"})
  BY DEF MessageTypes
<1>1. ASSUME /\ UNCHANGED <<closed, died, fromWorker, systemQueue, outputQueue>>
             /\ console = "ended" => console' = "ended"
      PROVE  EndInv'
  BY <1>1, Zenon
<1>2. ASSUME \/ \E s \in Evaluated : UserRequest(s)
             \/ \E l \in InputLine, typed \in BOOLEAN : UserLine(l, typed)
             \/ UserMessage \/ TimerFires \/ AnswerRead
      PROVE  /\ UNCHANGED <<closed, died, fromWorker, systemQueue, outputQueue>>
             /\ console = "ended" => console' = "ended"
  <2>1. ASSUME NEW l \in InputLine, NEW typed \in BOOLEAN, UserLine(l, typed)
        PROVE  /\ UNCHANGED <<closed, died, fromWorker, systemQueue, outputQueue>>
               /\ console = "ended" => console' = "ended"
    BY <2>1 DEF UserLine, MainOnly, NoTransit, postWorkerVars
  <2> QED BY <1>2, <2>1 DEF UserRequest, UserMessage, TimerFires, AnswerRead, MainOnly, NotConsole,
        NoTransit, postWorkerVars, postConsoleVars
<1>3. CASE Deliver
  <2> DEFINE m == Head(fromWorker)
  <2>1. UNCHANGED <<closed, died, console>> /\ fromWorker' = Tail(fromWorker) /\ m \in WorkerMessage
    BY <1>0, <1>3 DEF Deliver, MainOnly, postWorkerVars
  <2>2. Has(fromWorker, System("close")) => m = System("close") \/ Has(fromWorker', System("close"))
    BY <1>0, <2>1, HasKept, Zenon
  <2>3. /\ systemQueue' = systemQueue
           \/ (m.type \in SystemType /\ systemQueue' = Append(systemQueue, m.type))
        /\ m.to = "system" => systemQueue' = Append(systemQueue, m.type)
    BY <1>3, <2>1 DEF Deliver, WorkerMessage, Posted
  <2>4. outputQueue' = outputQueue
        \/ (m.type \in {"prompt", "closed"} /\ outputQueue' = Append(outputQueue, m.type))
    BY <1>3, <2>1 DEF Deliver, WorkerMessage, Posted
  <2>5. m = System("close") => m.to = "system" /\ m.type = "close" /\ m.type \in SystemType
    BY DEF System, SystemType
  <2> HIDE DEF m
  <2>6. ASSUME Has(outputQueue, "closed") PROVE Has(outputQueue', "closed")
    <3>1. \A y \in {"prompt", "closed"} : Has(Append(outputQueue, y), "closed")
      BY <1>0, <2>6, HasKept
    <3> QED BY <2>4, <2>6, <3>1, Zenon
  <2>7. ASSUME Has(systemQueue, "close") PROVE Has(systemQueue', "close")
    <3>1. \A y \in SystemType : Has(Append(systemQueue, y), "close")
      BY <1>0, <2>7, HasKept
    <3> QED BY <2>3, <2>7, <3>1, Zenon
  <2>8. m = System("close") => Has(systemQueue', "close")
    BY <1>0, <2>3, <2>5, HasLast, Zenon
  <2> QED BY <2>1, <2>2, <2>6, <2>7, <2>8, Zenon
<1>4. CASE ConsoleReads
  <2>1. UNCHANGED <<closed, died, fromWorker, systemQueue>> /\ outputQueue' = Tail(outputQueue)
        /\ console # "ended" /\ outputQueue # <<>>
    BY <1>4 DEF ConsoleReads, MainOnly, NoTransit, postMainVars, postWorkerVars
  <2>2. Head(outputQueue) = "closed" => console' = "ended"
    BY <1>4 DEF ConsoleReads
  <2>3. Has(outputQueue, "closed") => Head(outputQueue) = "closed" \/ Has(outputQueue', "closed")
    BY <1>0, <2>1, HasKept, Zenon
  <2> QED BY <2>1, <2>2, <2>3, Zenon
<1>5. ASSUME NEW arrives \in BOOLEAN, CloseChannel(arrives) PROVE EndInv'
  <2>1. closed' = TRUE /\ outputQueue' = Append(outputQueue, "closed")
    BY <1>5 DEF CloseChannel, PutClosed
  <2>2. Has(outputQueue', "closed")
    BY <1>0, <2>1, HasLast
  <2> QED BY <2>1, <2>2, Zenon
<1>6. ASSUME NEW arrives \in BOOLEAN, UserCloses(arrives) PROVE EndInv'
  BY <1>5, <1>6 DEF UserCloses
<1>7. ASSUME NEW arrives \in BOOLEAN, SystemMessage(arrives) PROVE EndInv'
  <2>1. CASE CloseChannel(arrives)
    BY <1>5, <2>1
  <2>2. CASE /\ Head(systemQueue) # "close" /\ MainOnly /\ NotConsole /\ NoTransit
             /\ UNCHANGED closed
    <3>1. UNCHANGED <<closed, died, console, fromWorker, outputQueue>>
          /\ systemQueue' = Tail(systemQueue)
      BY <1>7, <2>2 DEF SystemMessage, MainOnly, NotConsole, NoTransit, postWorkerVars, postConsoleVars
    <3>2. Has(systemQueue, "close") => Has(systemQueue', "close")
      BY <1>0, <2>2, <3>1, HasKept, Zenon
    <3> QED BY <3>1, <3>2, Zenon
  <2> QED BY <1>7, <2>1, <2>2 DEF SystemMessage
<1> QED BY <1>1, <1>2, <1>3, <1>4, <1>6, <1>7

(* The channel is closed and the console has ended when a line has ended   *)
(* R with an error of the machine and all messages have arrived.           *)
THEOREM FatalErrorEndsSession == SessionSpec => []FatalEndsSession
<1>1. MessageTypes /\ EndInv => FatalEndsSession
  <2> SUFFICES ASSUME EndInv, SessionIdle, died, ready = "yes" PROVE closed /\ console = "ended"
    BY Zenon DEF FatalEndsSession
  <2>1. ~ Has(fromWorker, System("close")) /\ ~ Has(systemQueue, "close") /\ ~ Has(outputQueue, "closed")
    BY DEF SessionIdle, Has
  <2> QED BY <2>1, Zenon DEF EndInv, CloseComes, ConsoleToldToEnd
<1>2. EndInv /\ MessageTypes /\ [SessionNext]_postVars => EndInv'
  <2>1. CASE UNCHANGED postVars
    BY <2>1, Zenon DEF postVars, postMainVars, postConsoleVars, postWorkerVars, EndInv, CloseComes,
       ConsoleToldToEnd
  <2> QED BY <2>1, EndWorker, EndMain, PostMessageAssumption DEF SessionNext
<1> QED BY <1>1, <1>2, EndInitial, SessionMessages, PTL DEF SessionSpec

-----------------------------------------------------------------------------
(* The one read.                                                           *)

NoRead(q) == \A i \in 1 .. Len(q) : q[i].to # "read"
OneRead(q) == \A i, j \in 1 .. Len(q) : q[i].to = "read" /\ q[j].to = "read" => i = j

LEMMA ReadsKept ==
    ASSUME NEW q \in Seq(WorkerMessage), NEW p \in Seq(Posted)
    PROVE  (NoRead(q) => NoRead(q \o p)) /\ (OneRead(q) => OneRead(q \o p))
<1>1. \A i \in 1 .. Len(p) : p[i].to # "read"
  <2>1. \A m \in Posted : m.to # "read"
    BY DEF Posted
  <2> QED BY <2>1
<1>2. p \in Seq(WorkerMessage)
  BY DEF WorkerMessage
<1>3. ASSUME NEW i \in 1 .. Len(q \o p), (q \o p)[i].to = "read"
      PROVE  i \in 1 .. Len(q) /\ q[i].to = "read"
  <2>1. CASE i \in 1 .. Len(q)
    <3>1. (q \o p)[i] = q[i]
      BY <1>2, <2>1
    <3> QED BY <1>3, <2>1, <3>1
  <2>2. CASE i \notin 1 .. Len(q)
    <3>1. i - Len(q) \in 1 .. Len(p) /\ (q \o p)[i] = p[i - Len(q)]
      BY <1>2, <2>2
    <3> QED BY <1>1, <1>3, <3>1
  <2> QED BY <2>1, <2>2
<1> QED BY <1>3, Zenon DEF NoRead, OneRead

LEMMA ReadAsked ==
    ASSUME NEW q \in Seq(WorkerMessage), NoRead(q)
    PROVE  OneRead(q \o <<[to |-> "read"]>>)
<1> DEFINE r == <<[to |-> "read"]>>
<1>1. r \in Seq(WorkerMessage) /\ Len(r) = 1
  BY DEF WorkerMessage
<1>2. ASSUME NEW i \in 1 .. Len(q \o r), (q \o r)[i].to = "read"
      PROVE  i = Len(q) + 1
  <2>1. CASE i \in 1 .. Len(q)
    <3>1. (q \o r)[i] = q[i]
      BY <1>1, <2>1
    <3> QED BY <1>2, <2>1, <3>1 DEF NoRead
  <2>2. CASE i \notin 1 .. Len(q)
    BY <1>1, <2>2
  <2> QED BY <2>1, <2>2
<1> QED BY <1>2, Zenon DEF OneRead

LEMMA ReadTaken ==
    ASSUME NEW q \in Seq(WorkerMessage), q # <<>>
    PROVE  /\ NoRead(q) => NoRead(Tail(q)) /\ Head(q).to # "read"
           /\ OneRead(q) => OneRead(Tail(q))
           /\ OneRead(q) /\ Head(q).to = "read" => NoRead(Tail(q))
<1>1. ASSUME NEW i \in 1 .. Len(Tail(q)) PROVE i + 1 \in 1 .. Len(q) /\ Tail(q)[i] = q[i + 1]
  OBVIOUS
<1>2. 1 \in 1 .. Len(q) /\ Head(q) = q[1]
  OBVIOUS
<1>3. NoRead(q) => NoRead(Tail(q)) /\ Head(q).to # "read"
  BY <1>1, <1>2 DEF NoRead
<1>4. ASSUME OneRead(q) PROVE OneRead(Tail(q))
  <2> SUFFICES ASSUME NEW i \in 1 .. Len(Tail(q)), NEW j \in 1 .. Len(Tail(q)),
                      Tail(q)[i].to = "read", Tail(q)[j].to = "read"
               PROVE  i = j
    BY Zenon DEF OneRead
  <2>1. i + 1 = j + 1
    BY <1>1, <1>4 DEF OneRead
  <2> QED BY <2>1
<1>5. ASSUME OneRead(q), Head(q).to = "read" PROVE NoRead(Tail(q))
  <2> SUFFICES ASSUME NEW i \in 1 .. Len(Tail(q)), Tail(q)[i].to = "read" PROVE FALSE
    BY Zenon DEF NoRead
  <2>1. i + 1 = 1
    BY <1>1, <1>2, <1>5 DEF OneRead
  <2> QED BY <2>1
<1> QED BY <1>3, <1>4, <1>5

(* The worker's read is in one place only: on its way to the main thread,  *)
(* waiting there, or answered by the message on its way back.  Unless R    *)
(* waits for it or its worker has been terminated, there is none.          *)
ReadInv ==
    /\ reading \in 0 .. 1
    /\ OneRead(fromWorker)
    /\ reading = 1 => NoRead(fromWorker)
    /\ toWorker # <<>> => Tail(toWorker) = <<>> /\ reading = 0 /\ NoRead(fromWorker)
    /\ repl \notin {"awaits", "terminated"} =>
         reading = 0 /\ toWorker = <<>> /\ NoRead(fromWorker)

LEMMA ReadWorker ==
    ASSUME PostMessageAssumption, MessageTypes, ReadInv,
           StartR \/ AskMessage \/ TakeMessage \/ RunStatement \/ EndLine \/ Recover
    PROVE  ReadInv'
<1> USE DEF ReadInv
<1>0. reading' = reading /\ fromWorker \in Seq(WorkerMessage)
  BY DEF StartR, AskMessage, TakeMessage, RunStatement, EndLine, Recover, Reprompt, PromptStep,
     WorkerOnly, postMainVars, MessageTypes
<1>1. CASE AskMessage
  <2>1. /\ fromWorker' = fromWorker \o <<[to |-> "read"]>> /\ toWorker' = toWorker
        /\ repl = "asks" /\ repl' = "awaits"
    BY <1>1 DEF AskMessage, Post
  <2>2. NoRead(fromWorker) /\ toWorker = <<>> /\ reading = 0
    BY <2>1
  <2>3. OneRead(fromWorker')
    BY <1>0, <2>1, <2>2, ReadAsked
  <2> QED BY <1>0, <2>1, <2>2, <2>3
<1>2. CASE StartR \/ TakeMessage \/ RunStatement \/ EndLine \/ Recover
  <2>1. PICK p \in Seq(Posted) : fromWorker' = fromWorker \o p
    BY <1>2, WorkerPosts
  <2>2. (NoRead(fromWorker) => NoRead(fromWorker')) /\ (OneRead(fromWorker) => OneRead(fromWorker'))
    BY <1>0, <2>1, ReadsKept
  <2>3. toWorker' = toWorker \/ (toWorker # <<>> /\ toWorker' = Tail(toWorker))
    BY <1>2 DEF StartR, TakeMessage, RunStatement, EndLine, Recover, Reprompt, PromptStep
  <2>4. CASE TakeMessage
    <3>1. toWorker # <<>> /\ toWorker' = Tail(toWorker)
      BY <2>4 DEF TakeMessage
    <3>2. reading = 0 /\ toWorker' = <<>> /\ NoRead(fromWorker)
      BY <3>1
    <3> QED BY <1>0, <2>2, <3>2
  <2>5. CASE StartR \/ RunStatement \/ EndLine \/ Recover
    <3>1. repl \notin {"awaits", "terminated"} /\ toWorker' = toWorker
      BY <2>5 DEF StartR, RunStatement, EndLine, Recover, Reprompt, PromptStep
    <3> QED BY <1>0, <2>2, <3>1
  <2> QED BY <1>2, <2>4, <2>5
<1> QED BY <1>1, <1>2

LEMMA ReadMain ==
    ASSUME PostMessageAssumption, MessageTypes, ReadInv,
           \/ \E s \in Evaluated : UserRequest(s)
           \/ \E l \in InputLine, typed \in BOOLEAN : UserLine(l, typed)
           \/ UserMessage \/ TimerFires \/ AnswerRead \/ Deliver \/ ConsoleReads
           \/ \E arrives \in BOOLEAN : UserCloses(arrives) \/ SystemMessage(arrives)
    PROVE  ReadInv'
<1> USE DEF ReadInv
<1>0. fromWorker \in Seq(WorkerMessage) /\ toWorker \in Seq(InputMessage) /\ written \in Seq(InputMessage)
  BY DEF MessageTypes
<1>1. ASSUME UNCHANGED <<reading, repl, toWorker, fromWorker>> PROVE ReadInv'
  BY <1>1
<1>2. ASSUME \/ \E s \in Evaluated : UserRequest(s)
             \/ \E l \in InputLine, typed \in BOOLEAN : UserLine(l, typed)
             \/ UserMessage \/ TimerFires \/ ConsoleReads
      PROVE  UNCHANGED <<reading, repl, toWorker, fromWorker>>
  BY <1>2 DEF UserRequest, UserLine, UserMessage, TimerFires, ConsoleReads, MainOnly, NoTransit,
     postWorkerVars, postMainVars
<1>3. CASE AnswerRead
  <2>1. /\ reading = 1 /\ reading' = 0 /\ UNCHANGED <<repl, fromWorker>>
        /\ toWorker' = toWorker \/ toWorker' = Append(toWorker, Head(written))
    BY <1>3 DEF AnswerRead, MainOnly, postWorkerVars
  <2>2. toWorker = <<>> /\ NoRead(fromWorker) /\ repl \in {"awaits", "terminated"}
    BY <2>1
  <2>3. toWorker' # <<>> => Tail(toWorker') = <<>>
    <3>1. \A x : Append(<<>>, x) = <<x>> /\ Tail(<<x>>) = <<>>
      OBVIOUS
    <3> QED BY <2>1, <2>2, <3>1
  <2> QED BY <2>1, <2>2, <2>3
<1>4. CASE Deliver
  <2> DEFINE m == Head(fromWorker)
  <2>1. /\ fromWorker # <<>> /\ fromWorker' = Tail(fromWorker) /\ UNCHANGED <<repl, toWorker>>
        /\ reading' = reading \/ (m.to = "read" /\ reading' = reading + 1)
    BY <1>4 DEF Deliver, MainOnly, postWorkerVars
  <2>2. /\ NoRead(fromWorker) => NoRead(fromWorker') /\ m.to # "read"
        /\ OneRead(fromWorker')
        /\ m.to = "read" => NoRead(fromWorker')
    BY <1>0, <2>1, ReadTaken
  <2> HIDE DEF m
  <2>3. CASE reading' = reading
    BY <2>1, <2>2, <2>3
  <2>4. CASE m.to = "read" /\ reading' = reading + 1
    <3>1. ~ NoRead(fromWorker) /\ NoRead(fromWorker')
      BY <2>2, <2>4
    <3>2. reading = 0 /\ reading' = 1 /\ toWorker = <<>> /\ repl \in {"awaits", "terminated"}
      BY <2>4, <3>1
    <3> QED BY <2>1, <2>2, <3>1, <3>2
  <2> QED BY <2>1, <2>3, <2>4
<1>5. ASSUME NEW arrives \in BOOLEAN, CloseChannel(arrives) PROVE ReadInv'
  <2>1. reading' = reading /\ repl' = "terminated" /\ toWorker' = <<>>
    BY <1>5 DEF CloseChannel
  <2>2. CASE fromWorker' = fromWorker
    BY <2>1, <2>2
  <2>3. CASE fromWorker' = <<>>
    <3>1. NoRead(fromWorker') /\ OneRead(fromWorker')
      BY <2>3 DEF NoRead, OneRead
    <3> QED BY <2>1, <3>1
  <2> QED BY <1>5, <2>2, <2>3 DEF CloseChannel
<1>6. ASSUME NEW arrives \in BOOLEAN, UserCloses(arrives) \/ SystemMessage(arrives)
      PROVE  CloseChannel(arrives) \/ UNCHANGED <<reading, repl, toWorker, fromWorker>>
  BY <1>6 DEF UserCloses, SystemMessage, MainOnly, NoTransit, postWorkerVars
<1> QED BY <1>1, <1>2, <1>3, <1>4, <1>5, <1>6

LEMMA ReadInitial == SessionInit => ReadInv
<1>1. NoRead(<<>>) /\ OneRead(<<>>)
  BY DEF NoRead, OneRead
<1>2. SessionInit => reading = 0 /\ fromWorker = <<>> /\ toWorker = <<>>
  BY DEF SessionInit
<1> QED BY <1>1, <1>2 DEF ReadInv

LEMMA ReadStep ==
    ASSUME MessageTypes, ReadInv, [SessionNext]_postVars
    PROVE  ReadInv'
<1>1. CASE UNCHANGED postVars
  BY <1>1 DEF ReadInv, postVars, postMainVars, postWorkerVars
<1> QED BY <1>1, ReadWorker, ReadMain, PostMessageAssumption DEF SessionNext

(* Type correctness: in particular at most one read waits on the main      *)
(* thread, and a count of prompts is 0 or 1.                               *)
THEOREM SessionTypeCorrect == SessionSpec => []SessionTypeOK
<1> DEFINE Inv == ReadInv /\ PromptInv
<1>1. MessageTypes /\ Inv => SessionTypeOK
  BY DEF MessageTypes, ReadInv, PromptInv, SessionTypeOK
<1>2. SessionInit => Inv
  BY ReadInitial, PromptInitial
<1>3. Inv /\ MessageTypes /\ [SessionNext]_postVars => Inv'
  BY ReadStep, PromptsStep, PostMessageAssumption
<1> HIDE DEF Inv
<1> QED BY <1>1, <1>2, <1>3, SessionMessages, PTL DEF SessionSpec

-----------------------------------------------------------------------------
(* Nothing is left over when the session is idle.                          *)

HasSome(q, X) == \E x \in X : Has(q, x)
RequestsOf(r) == {m \in InputMessage : m.type = "request" /\ m.request = r}
ResponsesTo(r) == {m \in Posted : m.to = "response" /\ m.request = r}
Lines == {m \in InputMessage : m.type = "stdin"}

LEMMA HasSomeKept ==
    ASSUME NEW S, NEW q \in Seq(S), NEW X, HasSome(q, X)
    PROVE  /\ \A y \in S : HasSome(Append(q, y), X)
           /\ \A p \in Seq(S) : HasSome(q \o p, X)
           /\ q # <<>> /\ (Head(q) \in X \/ HasSome(Tail(q), X))
<1> PICK x \in X : Has(q, x)
  BY DEF HasSome
<1>1. /\ \A y \in S : Has(Append(q, y), x)
      /\ \A p \in Seq(S) : Has(q \o p, x)
      /\ q # <<>> /\ (Head(q) = x \/ Has(Tail(q), x))
  BY HasKept
<1> QED BY <1>1, Zenon DEF HasSome

LEMMA HasSomeLast ==
    ASSUME NEW S, NEW q \in Seq(S), NEW X, NEW y \in S, y \in X
    PROVE  HasSome(Append(q, y), X)
<1>1. Has(Append(q, y), y)
  BY HasLast
<1> QED BY <1>1, Zenon DEF HasSome

(* While the channel is open: a REPL that waits has its read or its answer *)
(* somewhere; the session starts, or its first request has no response;    *)
(* each request without a response is on its way, or its response is; and  *)
(* a console that waits will have a prompt from the REPL, from a message   *)
(* or from a line that is on its way.                                      *)
ClosedMeansTerminated ==
    /\ closed <=> repl = "terminated"
    /\ console = "ended" \/ Has(outputQueue, "closed") => closed
ReadComes ==
    repl = "awaits" => reading # 0 \/ ~ NoRead(fromWorker) \/ toWorker # <<>>
StartComes ==
    ready # "yes" /\ repl # "terminated" =>
        \/ repl = "starting" \/ Has(fromWorker, [to |-> "session"]) \/ FirstRequest \in unsettled
Coming(r) ==
    \/ HasSome(written, RequestsOf(r)) \/ HasSome(toWorker, RequestsOf(r))
    \/ HasSome(fromWorker, ResponsesTo(r))
AnswersCome == repl # "terminated" => \A r \in unsettled : Coming(r)
PromptComing ==
    \/ repl \in {"starting", "runs", "recovers", "stopped"}
    \/ Has(fromWorker, Output("prompt")) \/ Has(outputQueue, "prompt")
    \/ HasSome(written, Lines) \/ HasSome(toWorker, Lines)
PromptComes == repl # "terminated" /\ console = "busy" => PromptComing
ComingInv == ClosedMeansTerminated /\ ReadComes /\ StartComes /\ AnswersCome /\ PromptComes

LEMMA ComingInitial == SessionInit => ComingInv
<1> SUFFICES ASSUME SessionInit PROVE ComingInv
  OBVIOUS
<1>1. ~ closed
  BY Zenon DEF SessionInit
<1>2. repl = "starting" /\ outputQueue = <<>> /\ console = "busy" /\ unsettled = {}
  BY DEF SessionInit
<1>3. ~ Has(outputQueue, "closed")
  BY <1>2 DEF Has
<1> QED BY <1>1, <1>2, <1>3 DEF ComingInv, ClosedMeansTerminated, ReadComes, StartComes, AnswersCome,
     PromptComes, PromptComing

(* What the worker's steps leave, and what they post. *)
LEMMA WorkerKeeps ==
    ASSUME PostMessageAssumption, MessageTypes,
           StartR \/ AskMessage \/ TakeMessage \/ RunStatement \/ EndLine \/ Recover
    PROVE  /\ UNCHANGED <<ready, written, reading, unsettled, closed, outputQueue, console>>
           /\ repl # "terminated" /\ repl' # "terminated"
           /\ repl' = "awaits" => AskMessage
           /\ \A x : Has(fromWorker, x) => Has(fromWorker', x)
           /\ \A X : HasSome(fromWorker, X) => HasSome(fromWorker', X)
           /\ ~ TakeMessage => toWorker' = toWorker
<1>1. UNCHANGED <<ready, written, reading, unsettled, closed, outputQueue, console>>
  BY DEF StartR, AskMessage, TakeMessage, RunStatement, EndLine, Recover, Reprompt, PromptStep,
     WorkerOnly, postMainVars, postConsoleVars
<1>2. PICK p \in Seq(WorkerMessage) : fromWorker' = fromWorker \o p
  <2>1. CASE AskMessage
    <3>1. <<[to |-> "read"]>> \in Seq(WorkerMessage)
      BY DEF WorkerMessage
    <3> QED BY <2>1, <3>1 DEF AskMessage, Post
  <2>2. CASE StartR \/ TakeMessage \/ RunStatement \/ EndLine \/ Recover
    <3>1. PICK p \in Seq(Posted) : fromWorker' = fromWorker \o p
      BY <2>2, WorkerPosts
    <3>2. p \in Seq(WorkerMessage)
      BY DEF WorkerMessage
    <3> QED BY <3>1, <3>2
  <2> QED BY <2>1, <2>2
<1>3. fromWorker \in Seq(WorkerMessage)
  BY DEF MessageTypes
<1>4. /\ \A x : Has(fromWorker, x) => Has(fromWorker', x)
      /\ \A X : HasSome(fromWorker, X) => HasSome(fromWorker', X)
  BY <1>2, <1>3, HasKept, HasSomeKept, Zenon
<1>5. ASSUME NEW to \in {"recovers", "asks"}, PromptStep(to)
      PROVE  repl' \in {"recovers", "asks"} /\ toWorker' = toWorker
  BY <1>5 DEF PromptStep
<1>6. CASE EndLine \/ Recover
  BY <1>1, <1>4, <1>5, <1>6 DEF EndLine, Recover, Reprompt
<1>7. CASE TakeMessage
  <2>1. repl = "awaits"
    BY <1>7 DEF TakeMessage
  <2>2. DispatchRequest(Head(toWorker)) => repl' = "asks"
    BY DEF DispatchRequest
  <2>3. repl' = "runs" \/ repl' = "asks" \/ repl' = "stopped"
    BY <1>7, <2>2, Zenon DEF TakeMessage
  <2> QED BY <1>1, <1>4, <1>7, <2>1, <2>3
<1>8. CASE RunStatement
  <2>1. Head(statements) \in Statement
    BY <1>8 DEF RunStatement, MessageTypes
  <2>2. Head(statements).ends \in {"value", "error", "fatal"}
    BY <2>1 DEF Statement
  <2>3. repl' \in {"runs", "recovers", "stopped"} /\ repl = "runs" /\ toWorker' = toWorker
    BY <1>8, <2>2 DEF RunStatement
  <2> QED BY <1>1, <1>4, <2>3
<1>9. CASE StartR \/ AskMessage
  <2>1. repl \in {"starting", "asks"} /\ repl' \in {"asks", "awaits"} /\ toWorker' = toWorker
        /\ (repl' = "awaits" => AskMessage)
    BY <1>9 DEF StartR, AskMessage
  <2> QED BY <1>1, <1>4, <2>1
<1> QED BY <1>6, <1>7, <1>8, <1>9

LEMMA ComingWorker ==
    ASSUME PostMessageAssumption, MessageTypes, ComingInv,
           StartR \/ AskMessage \/ TakeMessage \/ RunStatement \/ EndLine \/ Recover
    PROVE  ComingInv'
<1>0. /\ UNCHANGED <<ready, written, reading, unsettled, closed, outputQueue, console>>
      /\ repl # "terminated" /\ repl' # "terminated"
      /\ repl' = "awaits" => AskMessage
      /\ \A x : Has(fromWorker, x) => Has(fromWorker', x)
      /\ \A X : HasSome(fromWorker, X) => HasSome(fromWorker', X)
      /\ ~ TakeMessage => toWorker' = toWorker
  BY WorkerKeeps
<1>1. ClosedMeansTerminated'
  BY <1>0, Zenon DEF ComingInv, ClosedMeansTerminated
<1>2. ReadComes'
  <2>1. CASE AskMessage
    <3>1. fromWorker' = fromWorker \o <<[to |-> "read"]>> /\ fromWorker \in Seq(WorkerMessage)
      BY <2>1 DEF AskMessage, Post, MessageTypes
    <3>2. <<[to |-> "read"]>> \in Seq(WorkerMessage)
      BY DEF WorkerMessage
    <3>3. Has(<<[to |-> "read"]>>, [to |-> "read"])
      BY DEF Has
    <3>4. Has(fromWorker', [to |-> "read"])
      BY <3>1, <3>2, <3>3, HasPosted, Zenon
    <3> QED BY <3>4 DEF Has, NoRead, ReadComes
  <2>2. CASE ~ AskMessage
    BY <1>0, <2>2 DEF ReadComes
  <2> QED BY <2>1, <2>2
<1>3. StartComes'
  <2>1. CASE StartR
    <3> DEFINE p == <<System("console.warn"), Output("prompt"), [to |-> "session"]>>
    <3>1. p \in Seq(WorkerMessage)
      BY DEF System, Output, WorkerMessage, Posted, SystemType
    <3>2. Has(p, [to |-> "session"])
      <4>1. 3 \in 1 .. Len(p) /\ p[3] = [to |-> "session"]
        OBVIOUS
      <4> HIDE DEF p
      <4> QED BY <4>1 DEF Has
    <3>3. fromWorker' = fromWorker \o p /\ fromWorker \in Seq(WorkerMessage)
      BY <2>1 DEF StartR, Post, MessageTypes
    <3> HIDE DEF p
    <3>4. Has(fromWorker', [to |-> "session"])
      BY <3>1, <3>2, <3>3, HasPosted, Zenon
    <3> QED BY <3>4 DEF StartComes
  <2>2. CASE ~ StartR
    <3>1. repl # "starting"
      BY <2>2 DEF AskMessage, TakeMessage, RunStatement, EndLine, Recover
    <3> QED BY <1>0, <3>1 DEF ComingInv, StartComes
  <2> QED BY <2>1, <2>2
<1>4. CASE TakeMessage
  <2> DEFINE m == Head(toWorker)
  <2>1. toWorker # <<>> /\ toWorker' = Tail(toWorker) /\ m \in InputMessage
        /\ toWorker \in Seq(InputMessage) /\ fromWorker \in Seq(WorkerMessage)
    BY <1>4 DEF TakeMessage, MessageTypes
  <2>2. \/ m.type = "stdin" /\ repl' = "runs"
        \/ m.type = "request" /\ DispatchRequest(m)
        \/ m.type = "other" /\ repl' = "stopped"
    BY <1>4, Zenon DEF TakeMessage
  <2>3. m.type = "request" => HasSome(fromWorker', ResponsesTo(m.request))
    <3>0. SUFFICES ASSUME m.type = "request" PROVE HasSome(fromWorker', ResponsesTo(m.request))
      OBVIOUS
    <3>1. DispatchRequest(m)
      BY <2>2, <3>0
    <3>2a. PICK p \in Seq(Posted) :
             /\ fromWorker' = fromWorker \o p
             /\ \E o \in {"resolved", "rejected"}, j \in 1 .. Len(p) : p[j] = Response(m.request, o)
      BY <2>1, <3>0, <3>1, AnswerPosted
    <3>2. PICK o \in {"resolved", "rejected"}, j \in 1 .. Len(p) : p[j] = Response(m.request, o)
      BY <3>2a
    <3>3. p \in Seq(WorkerMessage) /\ p[j] \in Posted
      BY DEF WorkerMessage
    <3>4. Has(p, p[j])
      BY DEF Has
    <3>5. Has(fromWorker', p[j])
      BY <2>1, <3>2a, <3>3, <3>4, HasPosted
    <3>6. p[j] \in ResponsesTo(m.request)
      BY <3>2, <3>3 DEF ResponsesTo, Response
    <3> QED BY <3>5, <3>6 DEF HasSome
  <2> HIDE DEF m
  <2>4. ASSUME NEW X, HasSome(toWorker, X) PROVE m \in X \/ HasSome(toWorker', X)
    BY <2>1, <2>4, HasSomeKept DEF m
  <2>5. AnswersCome'
    <3> SUFFICES ASSUME NEW r \in unsettled PROVE Coming(r)'
      BY <1>0 DEF AnswersCome
    <3>1. Coming(r)
      BY <1>0 DEF ComingInv, AnswersCome
    <3>2. m \in RequestsOf(r) => HasSome(fromWorker', ResponsesTo(r))
      BY <2>3 DEF RequestsOf
    <3>3. HasSome(toWorker, RequestsOf(r)) => m \in RequestsOf(r) \/ HasSome(toWorker', RequestsOf(r))
      BY <2>4
    <3> QED BY <1>0, <3>1, <3>2, <3>3, Zenon DEF Coming
  <2>6. PromptComes'
    <3> SUFFICES ASSUME console = "busy" PROVE PromptComing'
      BY <1>0 DEF PromptComes
    <3>1. PromptComing /\ repl = "awaits"
      BY <1>0, <1>4 DEF ComingInv, PromptComes, TakeMessage
    <3>2. m \in Lines => repl' = "runs"
      BY <2>2 DEF Lines
    <3>3. HasSome(toWorker, Lines) => m \in Lines \/ HasSome(toWorker', Lines)
      BY <2>4
    <3> QED BY <1>0, <3>1, <3>2, <3>3 DEF PromptComing
  <2> QED BY <1>1, <1>2, <1>3, <2>5, <2>6 DEF ComingInv
<1>5. CASE ~ TakeMessage
  <2>1. AnswersCome'
    <3> SUFFICES ASSUME NEW r \in unsettled PROVE Coming(r)'
      BY <1>0 DEF AnswersCome
    <3>1. Coming(r)
      BY <1>0 DEF ComingInv, AnswersCome
    <3> QED BY <1>0, <1>5, <3>1, Zenon DEF Coming
  <2>2. PromptComes'
    <3> SUFFICES ASSUME console = "busy" PROVE PromptComing'
      BY <1>0 DEF PromptComes
    <3>1. PromptComing
      BY <1>0 DEF ComingInv, PromptComes
    <3>2. ASSUME NEW to, PromptStep(to) PROVE PromptComing'
      <4>1. fromWorker' = fromWorker \o <<Output("prompt")>> /\ fromWorker \in Seq(WorkerMessage)
        BY <3>2 DEF PromptStep, Post, PostPrompt, MessageTypes
      <4>2. <<Output("prompt")>> \in Seq(WorkerMessage) /\ Has(<<Output("prompt")>>, Output("prompt"))
        BY DEF Output, WorkerMessage, Posted, Has
      <4>3. Has(fromWorker', Output("prompt"))
        BY <4>1, <4>2, HasPosted, Zenon
      <4> QED BY <4>3 DEF PromptComing
    <3>3. CASE EndLine \/ Recover
      BY <3>2, <3>3 DEF EndLine, Recover, Reprompt
    <3>4. CASE StartR
      <4> DEFINE p == <<System("console.warn"), Output("prompt"), [to |-> "session"]>>
      <4>1. p \in Seq(WorkerMessage)
        BY DEF System, Output, WorkerMessage, Posted, SystemType
      <4>2. Has(p, Output("prompt"))
        <5>1. 2 \in 1 .. Len(p) /\ p[2] = Output("prompt")
          OBVIOUS
        <5> HIDE DEF p
        <5> QED BY <5>1 DEF Has
      <4>3. fromWorker' = fromWorker \o p /\ fromWorker \in Seq(WorkerMessage)
        BY <3>4 DEF StartR, Post, MessageTypes
      <4> HIDE DEF p
      <4>4. Has(fromWorker', Output("prompt"))
        BY <4>1, <4>2, <4>3, HasPosted, Zenon
      <4> QED BY <4>4 DEF PromptComing
    <3>5. CASE RunStatement
      <4>1. Head(statements) \in Statement
        BY <3>5 DEF RunStatement, MessageTypes
      <4>2. Head(statements).ends \in {"value", "error", "fatal"}
        BY <4>1 DEF Statement
      <4>3. repl' \in {"runs", "recovers", "stopped"}
        BY <3>5, <4>2 DEF RunStatement
      <4> QED BY <4>3 DEF PromptComing
    <3>6. CASE AskMessage
      <4>1. repl = "asks"
        BY <3>6 DEF AskMessage
      <4> QED BY <1>0, <1>5, <3>1, <4>1 DEF PromptComing
    <3> QED BY <1>5, <3>3, <3>4, <3>5, <3>6
  <2> QED BY <1>1, <1>2, <1>3, <2>1, <2>2 DEF ComingInv
<1> QED BY <1>4, <1>5

(* A message that the main thread writes while the channel is open. *)
LEMMA WriteKeeps ==
    ASSUME MessageTypes, NEW m \in InputMessage, WriteInput(m)
    PROVE  /\ \A X : HasSome(written, X) => HasSome(written', X)
           /\ \A X : m \in X /\ ~ closed => HasSome(written', X)
<1>1. written \in Seq(InputMessage)
  BY DEF MessageTypes
<1>2. (written' = written /\ closed) \/ written' = Append(written, m)
  BY Zenon DEF WriteInput
<1>3. ASSUME NEW X, HasSome(written, X) PROVE HasSome(written', X)
  <2>1. HasSome(Append(written, m), X)
    BY <1>1, <1>3, HasSomeKept
  <2> QED BY <1>2, <1>3, <2>1, Zenon
<1>4. ASSUME NEW X, m \in X, ~ closed PROVE HasSome(written', X)
  BY <1>1, <1>2, <1>4, HasSomeLast, Zenon
<1> QED BY <1>3, <1>4

(* A new request is on its way. *)
LEMMA RequestComes ==
    ASSUME PostMessageAssumption, MessageTypes, ComingInv,
           NEW r \in Requests, NEW s \in Evaluated \cup {Plain}, WriteRequest(r, s),
           UNCHANGED <<closed, repl, toWorker>>,
           \A X : HasSome(fromWorker, X) /\ X \subseteq Posted /\ (\A x \in X : x.to = "response")
                    => HasSome(fromWorker', X)
    PROVE  /\ AnswersCome'
           /\ \A X : HasSome(written, X) => HasSome(written', X)
           /\ r \in unsettled' /\ unsettled \subseteq unsettled'
<1> DEFINE m == [type |-> "request", request |-> r, statement |-> s]
<1>1. m \in InputMessage /\ WriteInput(m) /\ unsettled' = unsettled \cup {r}
  BY DEF InputMessage, WriteRequest
<1>2. m \in RequestsOf(r)
  BY <1>1 DEF RequestsOf
<1> HIDE DEF m
<1>3. /\ \A X : HasSome(written, X) => HasSome(written', X)
      /\ \A X : m \in X /\ ~ closed => HasSome(written', X)
  BY <1>1, WriteKeeps
<1>4. ASSUME NEW q \in unsettled', repl' # "terminated" PROVE Coming(q)'
  <2>1. CASE q = r
    <3>1. ~ closed
      BY <1>4, Zenon DEF ComingInv, ClosedMeansTerminated
    <3> QED BY <1>2, <1>3, <2>1, <3>1 DEF Coming
  <2>2. CASE q \in unsettled
    <3>1. Coming(q)
      BY <1>4, <2>2 DEF ComingInv, AnswersCome
    <3>2. HasSome(fromWorker, ResponsesTo(q)) => HasSome(fromWorker', ResponsesTo(q))
      BY DEF ResponsesTo
    <3> QED BY <1>3, <3>1, <3>2, Zenon DEF Coming
  <2> QED BY <1>1, <1>4, <2>1, <2>2
<1> QED BY <1>1, <1>3, <1>4 DEF AnswersCome

LEMMA ComingWrites ==
    ASSUME PostMessageAssumption, MessageTypes, ComingInv,
           \/ \E s \in Evaluated : UserRequest(s)
           \/ \E l \in InputLine, typed \in BOOLEAN : UserLine(l, typed)
           \/ UserMessage \/ TimerFires
    PROVE  ComingInv'
<1>1. UNCHANGED <<ready, reading, closed, outputQueue, repl, toWorker, fromWorker>>
      /\ (console = "ended" <=> console' = "ended")
  BY DEF UserRequest, UserLine, UserMessage, TimerFires, MainOnly, NotConsole, NoTransit,
     postWorkerVars, postConsoleVars
<1>2. ClosedMeansTerminated' /\ ReadComes'
  BY <1>1, Zenon DEF ComingInv, ClosedMeansTerminated, ReadComes
<1>3. ASSUME NEW s \in Evaluated \cup {Plain}, WriteRequest(total', s), Counted, UNCHANGED console
      PROVE  ComingInv'
  <2>1. total' \in Requests
    BY <1>3, PostMessageAssumption DEF Counted, Requests, MessageTypes
  <2>2. /\ AnswersCome'
        /\ \A X : HasSome(written, X) => HasSome(written', X)
        /\ unsettled \subseteq unsettled'
    BY <1>1, <1>3, <2>1, RequestComes
  <2>3. StartComes'
    BY <1>1, <2>2 DEF ComingInv, StartComes
  <2>4. PromptComes'
    BY <1>1, <1>3, <2>2, Zenon DEF ComingInv, PromptComes, PromptComing
  <2> QED BY <1>2, <2>2, <2>3, <2>4 DEF ComingInv
<1>4. ASSUME NEW m \in InputMessage, WriteInput(m), UNCHANGED unsettled,
             console' = console \/ (console' = "busy" /\ m \in Lines)
      PROVE  ComingInv'
  <2>1. /\ \A X : HasSome(written, X) => HasSome(written', X)
        /\ \A X : m \in X /\ ~ closed => HasSome(written', X)
    BY <1>4, WriteKeeps
  <2>2. StartComes'
    BY <1>1, <1>4 DEF ComingInv, StartComes
  <2>3. AnswersCome'
    <3> SUFFICES ASSUME repl' # "terminated", NEW r \in unsettled' PROVE Coming(r)'
      BY DEF AnswersCome
    <3>1. Coming(r)
      BY <1>1, <1>4 DEF ComingInv, AnswersCome
    <3> QED BY <1>1, <2>1, <3>1, Zenon DEF Coming
  <2>4. PromptComes'
    <3> SUFFICES ASSUME repl' # "terminated", console' = "busy" PROVE PromptComing'
      BY DEF PromptComes
    <3>1. CASE console' = console
      <4>1. PromptComing
        BY <1>1, <3>1 DEF ComingInv, PromptComes
      <4> QED BY <1>1, <2>1, <4>1, Zenon DEF PromptComing
    <3>2. CASE m \in Lines
      <4>1. ~ closed
        BY <1>1, Zenon DEF ComingInv, ClosedMeansTerminated
      <4> QED BY <2>1, <3>2, <4>1, Zenon DEF PromptComing
    <3> QED BY <1>4, <3>1, <3>2
  <2> QED BY <1>2, <2>2, <2>3, <2>4 DEF ComingInv
<1>5. ASSUME NEW s \in Evaluated, UserRequest(s) PROVE ComingInv'
  BY <1>3, <1>5 DEF UserRequest, NotConsole, postConsoleVars
<1>6. CASE TimerFires
  BY <1>3, <1>6 DEF TimerFires, NotConsole, postConsoleVars
<1>7. ASSUME NEW l \in InputLine, NEW typed \in BOOLEAN, UserLine(l, typed) PROVE ComingInv'
  <2> DEFINE m == [type |-> "stdin", line |-> l]
  <2>1. m \in InputMessage /\ m \in Lines
    BY DEF InputMessage, Lines
  <2>2. WriteInput(m) /\ UNCHANGED unsettled /\ (console' = console \/ console' = "busy")
    BY <1>7 DEF UserLine
  <2> QED BY <1>4, <2>1, <2>2
<1>8. CASE UserMessage
  <2> DEFINE m == [type |-> "other"]
  <2>1. m \in InputMessage
    BY DEF InputMessage
  <2>2. WriteInput(m) /\ UNCHANGED <<unsettled, console>>
    BY <1>8 DEF UserMessage, NotConsole, postConsoleVars
  <2> QED BY <1>4, <2>1, <2>2
<1> QED BY <1>5, <1>6, <1>7, <1>8

LEMMA ComingAnswerRead ==
    ASSUME MessageTypes, ComingInv, AnswerRead
    PROVE  ComingInv'
<1> DEFINE m == Head(written)
<1>0. /\ written \in Seq(InputMessage) /\ toWorker \in Seq(InputMessage)
      /\ written # <<>> /\ written' = Tail(written) /\ m \in InputMessage
  BY DEF MessageTypes, AnswerRead
<1>1. UNCHANGED <<ready, unsettled, closed, outputQueue, console, repl, fromWorker>>
  BY DEF AnswerRead, MainOnly, NotConsole, postWorkerVars, postConsoleVars
<1>2. ~ closed => toWorker' = Append(toWorker, m)
  BY Zenon DEF AnswerRead
<1> HIDE DEF m
<1>3. ClosedMeansTerminated' /\ StartComes'
  BY <1>1, Zenon DEF ComingInv, ClosedMeansTerminated, StartComes
<1>4. CASE repl = "terminated"
  BY <1>1, <1>3, <1>4 DEF ComingInv, ReadComes, AnswersCome, PromptComes
<1>5. CASE repl # "terminated"
  <2>1. toWorker' = Append(toWorker, m)
    BY <1>2, <1>5, Zenon DEF ComingInv, ClosedMeansTerminated
  <2>2. ASSUME NEW X, HasSome(toWorker, X) PROVE HasSome(toWorker', X)
    BY <1>0, <2>1, <2>2, HasSomeKept
  <2>3. ASSUME NEW X, HasSome(written, X) PROVE HasSome(written', X) \/ HasSome(toWorker', X)
    <3>1. m \in X \/ HasSome(written', X)
      BY <1>0, <2>3, HasSomeKept DEF m
    <3>2. m \in X => HasSome(toWorker', X)
      BY <1>0, <2>1, HasSomeLast
    <3> QED BY <3>1, <3>2
  <2>4. toWorker' # <<>>
    BY <1>0, <2>1
  <2>5. AnswersCome'
    <3> SUFFICES ASSUME NEW r \in unsettled PROVE Coming(r)'
      BY <1>1 DEF AnswersCome
    <3>1. Coming(r)
      BY <1>5 DEF ComingInv, AnswersCome
    <3> QED BY <1>1, <2>2, <2>3, <3>1, Zenon DEF Coming
  <2>6. PromptComes'
    <3> SUFFICES ASSUME console = "busy" PROVE PromptComing'
      BY <1>1 DEF PromptComes
    <3>1. PromptComing
      BY <1>5 DEF ComingInv, PromptComes
    <3> QED BY <1>1, <2>2, <2>3, <3>1, Zenon DEF PromptComing
  <2> QED BY <1>3, <2>4, <2>5, <2>6 DEF ComingInv, ReadComes
<1> QED BY <1>4, <1>5

LEMMA ComingDeliver ==
    ASSUME PostMessageAssumption, MessageTypes, ComingInv, Deliver
    PROVE  ComingInv'
<1> DEFINE m == Head(fromWorker)
<1>0. /\ fromWorker \in Seq(WorkerMessage) /\ fromWorker # <<>> /\ m \in WorkerMessage
      /\ fromWorker' = Tail(fromWorker) /\ outputQueue \in Seq({"prompt", "closed"})
      /\ unsettled \subseteq Requests
  BY DEF MessageTypes, Deliver
<1>1. UNCHANGED <<closed, console, toWorker, repl>>
  BY DEF Deliver, MainOnly, postWorkerVars
<1>2. ASSUME NEW x, Has(fromWorker, x) PROVE m = x \/ Has(fromWorker', x)
  BY <1>0, <1>2, HasKept
<1>3. ASSUME NEW X, HasSome(fromWorker, X) PROVE m \in X \/ HasSome(fromWorker', X)
  BY <1>0, <1>3, HasSomeKept
<1>4. NoRead(fromWorker) \/ m.to = "read" \/ ~ NoRead(fromWorker')
  <2>1. ASSUME ~ NoRead(fromWorker), NoRead(fromWorker') PROVE m.to = "read"
    <3>1. PICK i \in 1 .. Len(fromWorker) : fromWorker[i].to = "read"
      BY <2>1 DEF NoRead
    <3>2. Has(fromWorker, fromWorker[i])
      BY DEF Has
    <3>3. ~ Has(fromWorker', fromWorker[i])
      BY <2>1, <3>1 DEF Has, NoRead
    <3> QED BY <1>2, <3>1, <3>2, <3>3
  <2> QED BY <2>1
<1>5. ASSUME UNCHANGED unsettled, \A X : HasSome(written, X) => HasSome(written', X), m.to # "response"
      PROVE  AnswersCome'
  <2> SUFFICES ASSUME repl # "terminated", NEW r \in unsettled PROVE Coming(r)'
    BY <1>1, <1>5 DEF AnswersCome
  <2>1. Coming(r)
    BY DEF ComingInv, AnswersCome
  <2>2. m \notin ResponsesTo(r)
    BY <1>5 DEF ResponsesTo
  <2> QED BY <1>1, <1>3, <1>5, <2>1, <2>2, Zenon DEF Coming
<1>6. ASSUME UNCHANGED outputQueue, \A X : HasSome(written, X) => HasSome(written', X), m.to # "output"
      PROVE  PromptComes' /\ ClosedMeansTerminated'
  <2>1. m # Output("prompt")
    BY <1>6 DEF Output
  <2>2. PromptComing => PromptComing'
    BY <1>1, <1>2, <1>6, <2>1, Zenon DEF PromptComing
  <2>3. PromptComes'
    BY <1>1, <2>2, Zenon DEF ComingInv, PromptComes
  <2>4. ClosedMeansTerminated'
    BY <1>1, <1>6, Zenon DEF ComingInv, ClosedMeansTerminated
  <2> QED BY <2>3, <2>4
<1>7. ASSUME UNCHANGED reading, m.to # "read" PROVE ReadComes'
  BY <1>1, <1>4, <1>7 DEF ComingInv, ReadComes
<1>8. ASSUME UNCHANGED <<ready, unsettled>>, m.to # "session" PROVE StartComes'
  <2>1. m # [to |-> "session"]
    BY <1>8
  <2> QED BY <1>1, <1>2, <1>8, <2>1, Zenon DEF ComingInv, StartComes
<1> HIDE DEF m
<1>9. CASE /\ m.to = "session" /\ ready' = "asking" /\ WriteRequest(FirstRequest, Plain)
           /\ UNCHANGED <<reading, systemQueue, outputQueue>>
  <2>1. \A X : HasSome(fromWorker, X) /\ X \subseteq Posted /\ (\A x \in X : x.to = "response")
                 => HasSome(fromWorker', X)
    BY <1>3, <1>9
  <2>2. /\ AnswersCome'
        /\ \A X : HasSome(written, X) => HasSome(written', X)
        /\ FirstRequest \in unsettled'
    BY <1>1, <1>9, <2>1, PlainTypes, RequestComes
  <2>3. StartComes'
    BY <2>2 DEF StartComes
  <2> QED BY <1>6, <1>7, <1>9, <2>2, <2>3 DEF ComingInv
<1>10. CASE m.to = "response" /\ Settle(m) /\ UNCHANGED <<written, reading, systemQueue, outputQueue>>
  <2>1. /\ m.request \in unsettled /\ unsettled' = unsettled \ {m.request}
        /\ ready' = IF m.request = FirstRequest THEN "yes" ELSE ready
    BY <1>10 DEF Settle
  <2>2. AnswersCome'
    <3> SUFFICES ASSUME repl # "terminated", NEW r \in unsettled' PROVE Coming(r)'
      BY <1>1 DEF AnswersCome
    <3>1. r \in unsettled /\ m \notin ResponsesTo(r)
      BY <2>1 DEF ResponsesTo
    <3>2. Coming(r)
      BY <3>1 DEF ComingInv, AnswersCome
    <3> QED BY <1>1, <1>3, <1>10, <3>1, <3>2, Zenon DEF Coming
  <2>3. StartComes'
    <3>1. m # [to |-> "session"]
      BY <1>10
    <3>2. FirstRequest \in unsettled /\ ready' # "yes" => FirstRequest \in unsettled'
      BY <2>1
    <3>3. ready' # "yes" => ready # "yes"
      BY <2>1
    <3> QED BY <1>1, <1>2, <3>1, <3>2, <3>3, Zenon DEF ComingInv, StartComes
  <2> QED BY <1>6, <1>7, <1>10, <2>2, <2>3 DEF ComingInv
<1>11. CASE /\ m.to = "system"
            /\ UNCHANGED <<ready, written, reading, unsettled, outcome, outputQueue>>
  BY <1>5, <1>6, <1>7, <1>8, <1>11 DEF ComingInv
<1>12. CASE /\ m.to = "output" /\ outputQueue' = Append(outputQueue, m.type)
            /\ UNCHANGED <<ready, written, reading, unsettled, outcome, systemQueue>>
  <2>1. m = Output("prompt") /\ m.type = "prompt"
    BY <1>0, <1>12 DEF WorkerMessage, Posted, Output
  <2>2. Has(outputQueue', "prompt")
    BY <1>0, <1>12, <2>1, HasLast
  <2>3. Has(outputQueue', "closed") => Has(outputQueue, "closed")
    <3> SUFFICES ASSUME Has(outputQueue', "closed") PROVE Has(outputQueue, "closed")
      OBVIOUS
    <3>1. outputQueue' = Append(outputQueue, "prompt")
      BY <1>12, <2>1
    <3>2. PICK i \in 1 .. Len(Append(outputQueue, "prompt")) : Append(outputQueue, "prompt")[i] = "closed"
      BY <3>1 DEF Has
    <3>3. i \in 1 .. Len(outputQueue) /\ outputQueue[i] = "closed"
      BY <1>0, <3>2
    <3> QED BY <3>3 DEF Has
  <2>4. ClosedMeansTerminated'
    BY <1>1, <2>3, Zenon DEF ComingInv, ClosedMeansTerminated
  <2> QED BY <1>5, <1>7, <1>8, <1>12, <2>2, <2>4 DEF ComingInv, PromptComes, PromptComing
<1>13. CASE /\ m.to = "read" /\ reading' = reading + 1
            /\ UNCHANGED <<ready, written, unsettled, outcome, systemQueue, outputQueue>>
  <2>1. ReadComes'
    BY <1>13 DEF MessageTypes, ReadComes
  <2> QED BY <1>5, <1>6, <1>8, <1>13, <2>1 DEF ComingInv
<1> QED BY <1>9, <1>10, <1>11, <1>12, <1>13 DEF Deliver, m

LEMMA ComingConsole ==
    ASSUME MessageTypes, ComingInv, ConsoleReads
    PROVE  ComingInv'
<1>1. /\ UNCHANGED <<ready, written, reading, unsettled, closed, repl, toWorker, fromWorker>>
      /\ outputQueue # <<>> /\ outputQueue' = Tail(outputQueue)
      /\ outputQueue \in Seq({"prompt", "closed"})
  BY DEF ConsoleReads, MainOnly, NoTransit, postMainVars, postWorkerVars, MessageTypes
<1>2. Head(outputQueue) \in {"prompt", "closed"}
  BY <1>1
<1>3. console' = "prompted" \/ (console' = "ended" /\ Head(outputQueue) = "closed")
  BY <1>2 DEF ConsoleReads
<1>4. Head(outputQueue) = "closed" \/ Has(outputQueue', "closed") => Has(outputQueue, "closed")
  <2>1. 1 \in 1 .. Len(outputQueue) /\ Head(outputQueue) = outputQueue[1]
    BY <1>1
  <2>2. \A i \in 1 .. Len(outputQueue') :
          i + 1 \in 1 .. Len(outputQueue) /\ outputQueue'[i] = outputQueue[i + 1]
    BY <1>1
  <2> QED BY <2>1, <2>2, Zenon DEF Has
<1>5. ClosedMeansTerminated'
  BY <1>1, <1>3, <1>4, Zenon DEF ComingInv, ClosedMeansTerminated
<1>6. StartComes' /\ ReadComes'
  BY <1>1 DEF ComingInv, StartComes, ReadComes
<1>7. AnswersCome'
  BY <1>1 DEF ComingInv, AnswersCome, Coming
<1> QED BY <1>3, <1>5, <1>6, <1>7 DEF ComingInv, PromptComes

LEMMA ComingCloses ==
    ASSUME MessageTypes, ComingInv, NEW arrives \in BOOLEAN, UserCloses(arrives) \/ SystemMessage(arrives)
    PROVE  ComingInv'
<1>1. CASE CloseChannel(arrives)
  <2>1. repl' = "terminated" /\ closed'
    BY <1>1, Zenon DEF CloseChannel
  <2> QED BY <2>1 DEF ComingInv, ClosedMeansTerminated, ReadComes, StartComes, AnswersCome, PromptComes
<1>2. CASE UNCHANGED <<ready, written, reading, unsettled, closed, outputQueue, console, repl,
                       toWorker, fromWorker>>
  <2>1. ClosedMeansTerminated'
    BY <1>2, Zenon DEF ComingInv, ClosedMeansTerminated
  <2>2. StartComes' /\ ReadComes'
    BY <1>2 DEF ComingInv, StartComes, ReadComes
  <2>3. AnswersCome' /\ PromptComes'
    BY <1>2 DEF ComingInv, AnswersCome, Coming, PromptComes, PromptComing
  <2> QED BY <2>1, <2>2, <2>3 DEF ComingInv
<1>3. CloseChannel(arrives)
      \/ UNCHANGED <<ready, written, reading, unsettled, closed, outputQueue, console, repl,
                     toWorker, fromWorker>>
  BY DEF UserCloses, SystemMessage, MainOnly, NotConsole, NoTransit, postWorkerVars, postConsoleVars
<1> QED BY <1>1, <1>2, <1>3

LEMMA ComingStutter ==
    ASSUME ComingInv, UNCHANGED postVars
    PROVE  ComingInv'
<1>1. UNCHANGED <<ready, written, reading, unsettled, closed, outputQueue, console, repl, toWorker,
                  fromWorker>>
  BY DEF postVars, postMainVars, postConsoleVars, postWorkerVars
<1>2. ClosedMeansTerminated'
  BY <1>1, Zenon DEF ComingInv, ClosedMeansTerminated
<1>3. StartComes' /\ ReadComes'
  BY <1>1 DEF ComingInv, StartComes, ReadComes
<1>4. AnswersCome' /\ PromptComes'
  BY <1>1 DEF ComingInv, AnswersCome, Coming, PromptComes, PromptComing
<1> QED BY <1>2, <1>3, <1>4 DEF ComingInv

(* When nothing is on its way and the REPL waits, every request has been   *)
(* answered, every line taken, and the console is at a prompt.             *)
THEOREM IdleSessionIsDone == SessionSpec => []IdleMeansDone
<1>1. MessageTypes /\ ReadInv /\ ComingInv => IdleMeansDone
  <2> SUFFICES ASSUME MessageTypes, ReadInv, ComingInv, SessionIdle, repl = "awaits"
               PROVE  ready = "yes" /\ reading = 1 /\ unsettled = {} /\ console = "prompted"
    BY DEF IdleMeansDone
  <2>1. fromWorker = <<>> /\ toWorker = <<>> /\ outputQueue = <<>> /\ (reading = 0 \/ written = <<>>)
    BY DEF SessionIdle
  <2>2. (\A x : ~ Has(<<>>, x)) /\ (\A X : ~ HasSome(<<>>, X)) /\ NoRead(<<>>)
    BY DEF Has, HasSome, NoRead
  <2>3. reading = 1 /\ written = <<>>
    BY <2>1, <2>2 DEF ReadInv, ComingInv, ReadComes
  <2>4. unsettled = {}
    BY <2>1, <2>2, <2>3 DEF ComingInv, AnswersCome, Coming
  <2>5. ready = "yes"
    BY <2>1, <2>2, <2>4 DEF ComingInv, StartComes
  <2>6. console # "ended"
    BY Zenon DEF ComingInv, ClosedMeansTerminated
  <2>7. console # "busy"
    BY <2>1, <2>2, <2>3 DEF ComingInv, PromptComes, PromptComing
  <2> QED BY <2>3, <2>4, <2>5, <2>6, <2>7 DEF MessageTypes
<1>2. SessionInit => ReadInv /\ ComingInv
  BY ReadInitial, ComingInitial
<1>3. ReadInv /\ ComingInv /\ MessageTypes /\ [SessionNext]_postVars => (ReadInv /\ ComingInv)'
  <2> SUFFICES ASSUME ReadInv, ComingInv, MessageTypes, [SessionNext]_postVars
               PROVE  ReadInv' /\ ComingInv'
    OBVIOUS
  <2>1. ReadInv'
    BY ReadStep
  <2>2. ASSUME SessionNext PROVE ComingInv'
    <3>1. CASE StartR \/ AskMessage \/ TakeMessage \/ RunStatement \/ EndLine \/ Recover
      BY <3>1, ComingWorker, PostMessageAssumption
    <3>2. CASE \/ \E s \in Evaluated : UserRequest(s)
               \/ \E l \in InputLine, typed \in BOOLEAN : UserLine(l, typed)
               \/ UserMessage \/ TimerFires
      BY <3>2, ComingWrites, PostMessageAssumption
    <3>3. CASE AnswerRead \/ Deliver \/ ConsoleReads
      BY <3>3, ComingAnswerRead, ComingDeliver, ComingConsole, PostMessageAssumption
    <3>4. ASSUME NEW arrives \in BOOLEAN, UserCloses(arrives) \/ SystemMessage(arrives)
          PROVE  ComingInv'
      BY <3>4, ComingCloses
    <3> QED BY <2>2, <3>1, <3>2, <3>3, <3>4 DEF SessionNext
  <2> QED BY <2>1, <2>2, ComingStutter
<1> QED BY <1>1, <1>2, <1>3, SessionMessages, PTL DEF SessionSpec
====
