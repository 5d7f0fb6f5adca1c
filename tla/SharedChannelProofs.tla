---- MODULE SharedChannelProofs ----
(***************************************************************************)
(* The shared buffer channel for any messages and events, and stacks of    *)
(* any depth: its types, that the worker gets messages in the order they   *)
(* were written, what a channel does that nobody interrupts, and where     *)
(* each request and event is.                                              *)
(***************************************************************************)
EXTENDS SharedChannel, SequenceTheorems, FiniteSetTheorems, TLAPS

LEMMA FrontLast ==
    ASSUME NEW S, NEW q \in Seq(S), q # <<>>
    PROVE  /\ Len(q) \in Nat /\ Len(q) >= 1 /\ Last(q) = q[Len(q)] /\ Last(q) \in S
           /\ Front(q) \in Seq(S) /\ Len(Front(q)) = Len(q) - 1
           /\ \A i \in 1 .. Len(q) - 1 : Front(q)[i] = q[i]
<1>1. \A i \in 1 .. Len(q) - 1 : q[i] \in S
  OBVIOUS
<1>2. Len(q) \in Nat /\ Len(q) >= 1
  OBVIOUS
<1> DEFINE n == Len(q) - 1
<1>3. n \in Int /\ 1 \in Int /\ \A i \in 1 .. n : q[i] \in S
  BY <1>1, <1>2
<1> HIDE DEF n
<1>4. /\ SubSeq(q, 1, n) \in Seq(S) /\ Len(SubSeq(q, 1, n)) = IF 1 <= n THEN n - 1 + 1 ELSE 0
      /\ \A i \in 1 .. n - 1 + 1 : SubSeq(q, 1, n)[i] = q[1 + i - 1]
  BY <1>3, SubSeqProperties
<1>5. Front(q) = SubSeq(q, 1, n) /\ Last(q) = q[Len(q)]
  BY DEF Front, Last, n
<1>6. n - 1 + 1 = n /\ \A i \in 1 .. n : 1 + i - 1 = i
  BY <1>3
<1>7. Len(Front(q)) = n
  BY <1>2, <1>4, <1>5, <1>6 DEF n
<1>8. \A i \in 1 .. n : Front(q)[i] = q[i]
  BY <1>4, <1>5, <1>6
<1> QED BY <1>2, <1>4, <1>5, <1>7, <1>8 DEF n

LEMMA FirstFrames ==
    ASSUME NEW S, NEW q \in Seq(S), NEW k \in 0 .. Len(q)
    PROVE  /\ SubSeq(q, 1, k) \in Seq(S) /\ Len(SubSeq(q, 1, k)) = k
           /\ \A i \in 1 .. k : SubSeq(q, 1, k)[i] = q[i]
<1>1. \A i \in 1 .. k : q[i] \in S
  OBVIOUS
<1> QED BY <1>1, SubSeqProperties

LEMMA FrameTypes ==
    ASSUME NEW c \in Call \cup {None}
    PROVE  /\ Prompt(c) \in Frame /\ Events(c) \in Frame
           /\ \A m \in Message : Eval(m) \in Frame
           /\ \A f \in Frame : /\ f.call \in Call \cup {None} /\ f.item \in Message \cup {None}
                               /\ f.kind \in {"prompt", "events", "eval"}
BY DEF Prompt, Events, Eval, Frame

(* The posts of the worker. *)
LEMMA PostTypes ==
    ASSUME NEW c \in Call
    PROVE  /\ [type |-> "read", call |-> c] \in Post /\ [type |-> "event", call |-> c] \in Post
           /\ \A r \in Request : Response(r) \in Post
           /\ \A p \in Post : /\ p.type \in {"read", "event", "response"}
                              /\ p.type # "response" => p.call \in Call
                              /\ p.type = "response" => p.request \in Request
BY DEF Post, Response

LEMMA UnwoundTypes ==
    ASSUME TypeOK, NEW k \in Nat, NEW u \in Unwindings(k)
    PROVE  /\ AnswerUnwound(u) \in Seq(Post)
           /\ \A i \in 1 .. Len(AnswerUnwound(u)) : AnswerUnwound(u)[i].type = "response"
<1> DEFINE evals == {i \in k + 1 .. Len(stack) : stack[i].item \in Request}
           n == Cardinality(evals)
<1>1. Len(stack) \in Nat
  BY DEF TypeOK
<1>2. n \in Nat
  <2>1. IsFiniteSet(k + 1 .. Len(stack))
    BY <1>1, FS_Interval
  <2>2. evals \in SUBSET (k + 1 .. Len(stack))
    OBVIOUS
  <2>3. IsFiniteSet(evals)
    BY <2>1, <2>2, FS_Subset
  <2> QED BY <2>3, FS_CardinalityType
<1>3. u \in [1 .. n -> evals]
  BY DEF Unwindings
<1> HIDE DEF n
<1>4. Len(u) = n
  BY <1>2, <1>3
<1>5. \A i \in 1 .. n : stack[u[i]].item \in Request
  BY <1>3
<1>6. \A i \in 1 .. n : Response(stack[u[i]].item) \in Post
  BY <1>5 DEF Response, Post
<1>7. AnswerUnwound(u) = [i \in 1 .. n |-> Response(stack[u[i]].item)]
  BY <1>4 DEF AnswerUnwound
<1> DEFINE R(i) == Response(stack[u[i]].item)
<1>8. \A i \in 1 .. n : R(i) \in Post /\ R(i).type = "response"
  BY <1>6 DEF Response
<1>9. AnswerUnwound(u) = [i \in 1 .. n |-> R(i)]
  BY <1>7
<1> HIDE DEF R
<1>10. AnswerUnwound(u) \in Seq(Post) /\ Len(AnswerUnwound(u)) = n
  BY <1>2, <1>8, <1>9
<1> QED BY <1>2, <1>8, <1>9, <1>10

-----------------------------------------------------------------------------
(* The worker's stack.                                                     *)

(* A prompt that has asked for a message and not got it. *)
Asking(f) == f.kind = "prompt" /\ f.call # None

WellFormed(f) ==
    /\ f.kind = "eval" => f.call = None /\ f.item \in Message
    /\ f.kind = "events" => f.call \in Call /\ f.item = None
    /\ f.kind = "prompt" => f.item = None

(* A request is evaluated by the prompt that read it; above a prompt that  *)
(* asks there are only event handlers.                                     *)
StackInv ==
    \A i \in 1 .. Len(stack) :
        /\ WellFormed(stack[i])
        /\ stack[i].item \in Request => i > 1 /\ stack[i - 1] = Prompt(None)
        /\ Asking(stack[i]) => \A j \in i + 1 .. Len(stack) : stack[j].kind = "events"

(* A step that leaves the first k frames and puts n above them. *)
Keeps(k, n) ==
    /\ k \in 0 .. Len(stack)
    /\ stack' \in Seq(Frame) /\ Len(stack') = k + n
    /\ \A i \in 1 .. k : stack'[i] = stack[i]

LEMMA PushShape ==
    ASSUME stack \in Seq(Frame), NEW f \in Frame, stack' = Append(stack, f)
    PROVE  Keeps(Len(stack), 1) /\ stack'[Len(stack) + 1] = f
BY DEF Keeps

LEMMA PopShape ==
    ASSUME stack \in Seq(Frame), stack # <<>>, stack' = Below
    PROVE  Keeps(Len(stack) - 1, 0)
BY FrontLast DEF Keeps, Below

LEMMA ReplaceShape ==
    ASSUME stack \in Seq(Frame), stack # <<>>, NEW f \in Frame, stack' = Append(Below, f)
    PROVE  Keeps(Len(stack) - 1, 1) /\ stack'[Len(stack)] = f
<1>1. /\ Below \in Seq(Frame) /\ Len(Below) = Len(stack) - 1
      /\ Len(stack) \in Nat /\ Len(stack) >= 1
      /\ \A i \in 1 .. Len(stack) - 1 : Below[i] = stack[i]
  BY FrontLast DEF Below
<1>2. /\ stack' \in Seq(Frame) /\ Len(stack') = Len(Below) + 1
      /\ \A i \in 1 .. Len(Below) : stack'[i] = Below[i]
      /\ stack'[Len(Below) + 1] = f
  BY <1>1
<1> QED BY <1>1, <1>2 DEF Keeps

LEMMA TwoMore ==
    ASSUME NEW S, NEW q \in Seq(S), NEW f \in S, NEW g \in S
    PROVE  /\ q \o <<f, g>> \in Seq(S) /\ Len(q \o <<f, g>>) = Len(q) + 2
           /\ \A i \in 1 .. Len(q) : (q \o <<f, g>>)[i] = q[i]
           /\ (q \o <<f, g>>)[Len(q) + 1] = f /\ (q \o <<f, g>>)[Len(q) + 2] = g
<1>1. q \o <<f, g>> = Append(Append(q, f), g)
  OBVIOUS
<1> DEFINE r == Append(q, f)
<1>2. r \in Seq(S) /\ Len(r) = Len(q) + 1 /\ r[Len(q) + 1] = f /\ \A i \in 1 .. Len(q) : r[i] = q[i]
  OBVIOUS
<1>3. Len(q) \in Nat
  OBVIOUS
<1> HIDE DEF r
<1>4. /\ Append(r, g) \in Seq(S) /\ Len(Append(r, g)) = Len(r) + 1
      /\ Append(r, g)[Len(r) + 1] = g /\ \A i \in 1 .. Len(r) : Append(r, g)[i] = r[i]
  BY <1>2
<1>5. Append(r, g)[Len(q) + 1] = f /\ \A i \in 1 .. Len(q) : Append(r, g)[i] = q[i]
  BY <1>2, <1>3, <1>4
<1>6. q \o <<f, g>> = Append(r, g)
  BY <1>1 DEF r
<1> QED BY <1>2, <1>3, <1>4, <1>5, <1>6

LEMMA OneMore ==
    ASSUME NEW S, NEW q \in Seq(S), NEW f \in S
    PROVE  /\ q \o <<f>> \in Seq(S) /\ Len(q \o <<f>>) = Len(q) + 1
           /\ \A i \in 1 .. Len(q) : (q \o <<f>>)[i] = q[i]
           /\ (q \o <<f>>)[Len(q) + 1] = f
<1>1. q \o <<f>> = Append(q, f)
  OBVIOUS
<1>2. Append(q, f) \in Seq(S) /\ Len(Append(q, f)) = Len(q) + 1
      /\ Append(q, f)[Len(q) + 1] = f /\ \A i \in 1 .. Len(q) : Append(q, f)[i] = q[i]
  OBVIOUS
<1> QED BY ONLY <1>1, <1>2

LEMMA DispatchShape ==
    ASSUME stack \in Seq(Frame), stack # <<>>, NEW f \in Frame, NEW g \in Frame,
           stack' = Below \o <<f, g>>
    PROVE  /\ Keeps(Len(stack) - 1, 2)
           /\ stack'[Len(stack)] = f /\ stack'[Len(stack) + 1] = g
<1>1. /\ Below \in Seq(Frame) /\ Len(Below) = Len(stack) - 1
      /\ Len(stack) \in Nat /\ Len(stack) >= 1
      /\ \A i \in 1 .. Len(stack) - 1 : Below[i] = stack[i]
  BY FrontLast DEF Below
<1> DEFINE q == Below
<1>2. q \in Seq(Frame) /\ stack' = q \o <<f, g>>
  BY <1>1
<1> HIDE DEF q
<1>3. /\ stack' \in Seq(Frame) /\ Len(stack') = Len(q) + 2
      /\ \A i \in 1 .. Len(q) : stack'[i] = q[i]
      /\ stack'[Len(q) + 1] = f /\ stack'[Len(q) + 2] = g
  <2>1. /\ q \o <<f, g>> \in Seq(Frame) /\ Len(q \o <<f, g>>) = Len(q) + 2
        /\ \A i \in 1 .. Len(q) : (q \o <<f, g>>)[i] = q[i]
        /\ (q \o <<f, g>>)[Len(q) + 1] = f /\ (q \o <<f, g>>)[Len(q) + 2] = g
    BY <1>2, TwoMore
  <2> QED BY ONLY <1>2, <2>1
<1> QED BY <1>1, <1>3 DEF Keeps, q

LEMMA ReadAgainShape ==
    ASSUME stack \in Seq(Frame), Len(stack) > 1, NEW f \in Frame,
           stack' = Front(Below) \o <<f>>
    PROVE  Keeps(Len(stack) - 2, 1) /\ stack'[Len(stack) - 1] = f
<1>0. stack # <<>> /\ Len(stack) \in Nat
  OBVIOUS
<1>1. /\ Below \in Seq(Frame) /\ Len(Below) = Len(stack) - 1
      /\ \A i \in 1 .. Len(stack) - 1 : Below[i] = stack[i]
  BY <1>0, FrontLast DEF Below
<1>2. Below # <<>>
  BY <1>0, <1>1
<1>3. /\ Front(Below) \in Seq(Frame) /\ Len(Front(Below)) = Len(Below) - 1
      /\ \A i \in 1 .. Len(Below) - 1 : Front(Below)[i] = Below[i]
  BY <1>1, <1>2, FrontLast
<1> DEFINE q == Front(Below)
<1>4. stack' = q \o <<f>>
  OBVIOUS
<1>5. q \in Seq(Frame) /\ Len(q) = Len(stack) - 2 /\ \A i \in 1 .. Len(stack) - 2 : q[i] = stack[i]
  BY <1>0, <1>1, <1>3
<1> HIDE DEF q
<1>6. /\ stack' \in Seq(Frame) /\ Len(stack') = Len(q) + 1
      /\ \A i \in 1 .. Len(q) : stack'[i] = q[i]
      /\ stack'[Len(q) + 1] = f
  <2>1. /\ q \o <<f>> \in Seq(Frame) /\ Len(q \o <<f>>) = Len(q) + 1
        /\ \A i \in 1 .. Len(q) : (q \o <<f>>)[i] = q[i] /\ (q \o <<f>>)[Len(q) + 1] = f
    BY <1>5, OneMore
  <2>2. (q \o <<f>>)[Len(q) + 1] = f
    BY <1>5, OneMore
  <2> QED BY ONLY <1>4, <2>1, <2>2
<1> QED BY <1>0, <1>5, <1>6 DEF Keeps

LEMMA UnwindShape ==
    ASSUME stack \in Seq(Frame), NEW k \in 0 .. Len(stack), stack' = SubSeq(stack, 1, k)
    PROVE  Keeps(k, 0)
BY FirstFrames DEF Keeps

(* What each step of the worker does to the stack. *)
LEMMA Shapes ==
    ASSUME SharedChannelAssumption, stack \in Seq(Frame), StackInv
    PROVE  /\ \A c \in Call : ReadConsole(c) =>
                  Keeps(Len(stack), 1) /\ stack'[Len(stack) + 1] = Prompt(c)
           /\ \A c \in Call : StartEvents(c) =>
                  Keeps(Len(stack), 1) /\ stack'[Len(stack) + 1] = Events(c)
           /\ \A m \in Message : GetLine(m) =>
                  \/ Keeps(Len(stack) - 1, 0)
                  \/ Keeps(Len(stack) - 1, 1) /\ stack'[Len(stack)] = Eval(m) /\ m \notin Request
           /\ \A m \in Message : GetRequest(m) =>
                  /\ Keeps(Len(stack) - 1, 2)
                  /\ stack'[Len(stack)] = Prompt(None) /\ stack'[Len(stack) + 1] = Eval(m)
           /\ FinishLine => Keeps(Len(stack) - 1, 0)
           /\ \A c \in Call : FinishRequest(c) =>
                  /\ Len(stack) > 1 /\ stack[Len(stack) - 1] = Prompt(None)
                  /\ Keeps(Len(stack) - 2, 1) /\ stack'[Len(stack) - 1] = Prompt(c)
           /\ \A e \in Event, c \in Call : HandleEvent(e, c) =>
                  Keeps(Len(stack) - 1, 1) /\ stack'[Len(stack)] = Events(c)
           /\ EndEvents => Keeps(Len(stack) - 1, 0)
           /\ \A k \in 0 .. MaxDepth : HandleInterrupt(k) => Keeps(k, 0) /\ k < Len(stack)
<1>1. ASSUME NEW c \in Call, ReadConsole(c)
      PROVE  Keeps(Len(stack), 1) /\ stack'[Len(stack) + 1] = Prompt(c)
  BY <1>1, FrameTypes, PushShape DEF ReadConsole
<1>2. ASSUME NEW c \in Call, StartEvents(c)
      PROVE  Keeps(Len(stack), 1) /\ stack'[Len(stack) + 1] = Events(c)
  BY <1>2, FrameTypes, PushShape DEF StartEvents
<1>3. ASSUME NEW m \in Message, GetLine(m)
      PROVE  \/ Keeps(Len(stack) - 1, 0)
             \/ Keeps(Len(stack) - 1, 1) /\ stack'[Len(stack)] = Eval(m) /\ m \notin Request
  <2>1. stack # <<>> /\ m \in Line /\ m \notin Request
    BY <1>3 DEF GetLine, TopIs, SharedChannelAssumption
  <2>2. CASE Below # <<>>
    BY <1>3, <2>1, <2>2, PopShape DEF GetLine
  <2>3. CASE Below = <<>>
    <3>1. Len(stack) = 1
      <4>1. Len(Below) = Len(stack) - 1 /\ Len(stack) \in Nat
        BY <2>1, FrontLast DEF Below
      <4>2. Len(Below) = 0
        BY <2>3
      <4> QED BY <4>1, <4>2
    <3>2. stack' = <<Eval(m)>> /\ Eval(m) \in Frame
      BY <1>3, <2>3, FrameTypes DEF GetLine
    <3> QED BY <2>1, <3>1, <3>2 DEF Keeps
  <2> QED BY <2>2, <2>3
<1>4. ASSUME NEW m \in Message, GetRequest(m)
      PROVE  /\ Keeps(Len(stack) - 1, 2)
             /\ stack'[Len(stack)] = Prompt(None) /\ stack'[Len(stack) + 1] = Eval(m)
  <2>1. stack # <<>> /\ stack' = Below \o <<Prompt(None), Eval(m)>>
    BY <1>4 DEF GetRequest, TopIs
  <2>2. Prompt(None) \in Frame /\ Eval(m) \in Frame
    BY FrameTypes
  <2> QED BY <2>1, <2>2, DispatchShape
<1>5. ASSUME FinishLine PROVE Keeps(Len(stack) - 1, 0)
  BY <1>5, PopShape DEF FinishLine, TopIs
<1>6. ASSUME NEW c \in Call, FinishRequest(c)
      PROVE  /\ Len(stack) > 1 /\ stack[Len(stack) - 1] = Prompt(None)
             /\ Keeps(Len(stack) - 2, 1) /\ stack'[Len(stack) - 1] = Prompt(c)
  <2>1. stack # <<>> /\ Top.item \in Request
    BY <1>6 DEF FinishRequest, TopIs
  <2>2. Top = stack[Len(stack)] /\ Len(stack) \in 1 .. Len(stack)
    <3>1. Last(stack) = stack[Len(stack)]
      BY <2>1, FrontLast
    <3>2. Len(stack) \in Nat /\ Len(stack) >= 1
      BY <2>1, FrontLast
    <3> QED BY <3>1, <3>2 DEF Top
  <2>3. Len(stack) > 1 /\ stack[Len(stack) - 1] = Prompt(None)
    BY <2>1, <2>2 DEF StackInv
  <2>4. stack' = Front(Below) \o <<Prompt(c)>> /\ Prompt(c) \in Frame
    BY <1>6, FrameTypes DEF FinishRequest
  <2> QED BY <2>3, <2>4, ReadAgainShape
<1>7. ASSUME NEW e \in Event, NEW c \in Call, HandleEvent(e, c)
      PROVE  Keeps(Len(stack) - 1, 1) /\ stack'[Len(stack)] = Events(c)
  <2>1. stack # <<>> /\ stack' = Append(Below, Events(c)) /\ Events(c) \in Frame
    BY <1>7, FrameTypes DEF HandleEvent, TopIs
  <2> QED BY <2>1, ReplaceShape
<1>8. ASSUME EndEvents PROVE Keeps(Len(stack) - 1, 0)
  BY <1>8, PopShape DEF EndEvents, TopIs
<1>9. ASSUME NEW k \in 0 .. MaxDepth, HandleInterrupt(k) PROVE Keeps(k, 0) /\ k < Len(stack)
  <2>1. stack # <<>> /\ (k = 0 \/ k \in 1 .. Len(Below)) /\ stack' = SubSeq(stack, 1, k)
    BY <1>9 DEF HandleInterrupt, TopIs
  <2>2. Len(Below) = Len(stack) - 1 /\ Len(stack) \in Nat /\ Len(stack) >= 1
    BY <2>1, FrontLast DEF Below
  <2>3. k \in 0 .. Len(stack) /\ k < Len(stack)
    BY <2>1, <2>2
  <2> QED BY <2>1, <2>3, UnwindShape
<1> QED BY <1>1, <1>2, <1>3, <1>4, <1>5, <1>6, <1>7, <1>8, <1>9

(* What the innermost frame tells of the stack. *)
LEMMA TopFacts ==
    ASSUME SharedChannelAssumption, stack \in Seq(Frame), StackInv, stack # <<>>
    PROVE  /\ Len(stack) \in Nat /\ Len(stack) >= 1 /\ Top = stack[Len(stack)] /\ Top \in Frame
           /\ Top.kind = "eval" => \A i \in 1 .. Len(stack) : ~ Asking(stack[i])
           /\ \A i \in 1 .. Len(stack) - 1 : Asking(Top) => ~ Asking(stack[i])
<1>1. Len(stack) \in Nat /\ Len(stack) >= 1 /\ Last(stack) = stack[Len(stack)] /\ Last(stack) \in Frame
  BY FrontLast
<1>2. Len(stack) \in Nat /\ Len(stack) >= 1 /\ Top = stack[Len(stack)] /\ Top \in Frame
  BY <1>1 DEF Top
<1>3. ASSUME Top.kind = "eval", NEW i \in 1 .. Len(stack), Asking(stack[i]) PROVE FALSE
  <2>1. CASE i = Len(stack)
    BY <1>2, <1>3, <2>1 DEF Asking
  <2>2. CASE i # Len(stack)
    BY <1>2, <1>3, <2>2 DEF StackInv
  <2> QED BY <2>1, <2>2
<1>4. ASSUME NEW i \in 1 .. Len(stack) - 1, Asking(Top), Asking(stack[i]) PROVE FALSE
  BY <1>2, <1>4 DEF StackInv, Asking
<1> QED BY <1>2, <1>3, <1>4

(* Frames added to a stack keep it in order. *)
LEMMA StackKept ==
    ASSUME stack \in Seq(Frame), StackInv, NEW k \in Nat, NEW n \in Nat, Keeps(k, n),
           \A i \in k + 1 .. k + n : WellFormed(stack'[i]),
           \A i \in k + 1 .. k + n :
               stack'[i].item \in Request => i > k + 1 /\ stack'[i - 1] = Prompt(None),
           \/ \A i \in k + 1 .. k + n : stack'[i].kind = "events"
           \/ \A i \in 1 .. k : ~ Asking(stack[i]),
           \A i, j \in k + 1 .. k + n : i < j => ~ Asking(stack'[i])
    PROVE  StackInv'
<1>1. Len(stack') = k + n /\ k \in 0 .. Len(stack) /\ \A i \in 1 .. k : stack'[i] = stack[i]
  BY DEF Keeps
<1>2. Len(stack) \in Nat
  OBVIOUS
<1>3. ASSUME NEW i \in 1 .. k + n
      PROVE  /\ WellFormed(stack'[i])
             /\ stack'[i].item \in Request => i > 1 /\ stack'[i - 1] = Prompt(None)
             /\ Asking(stack'[i]) => \A j \in i + 1 .. k + n : stack'[j].kind = "events"
  <2>1. CASE i \in 1 .. k
    <3>1. i \in 1 .. Len(stack) /\ stack'[i] = stack[i]
      BY <1>1, <1>2, <2>1
    <3>2. /\ WellFormed(stack[i])
          /\ stack[i].item \in Request => i > 1 /\ stack[i - 1] = Prompt(None)
          /\ Asking(stack[i]) => \A j \in i + 1 .. Len(stack) : stack[j].kind = "events"
      BY <3>1 DEF StackInv
    <3>3. stack'[i].item \in Request => i > 1 /\ stack'[i - 1] = Prompt(None)
      <4>1. i > 1 => i - 1 \in 1 .. k
        BY <2>1
      <4> QED BY <1>1, <3>1, <3>2, <4>1
    <3>4. ASSUME Asking(stack'[i]), NEW j \in i + 1 .. k + n PROVE stack'[j].kind = "events"
      <4>1. CASE j \in 1 .. k
        BY <1>1, <1>2, <2>1, <3>1, <3>2, <3>4, <4>1
      <4>2. CASE j \in k + 1 .. k + n
        BY <2>1, <3>1, <3>4, <4>2
      <4> QED BY <2>1, <4>1, <4>2
    <3> QED BY <3>1, <3>2, <3>3, <3>4
  <2>2. CASE i \in k + 1 .. k + n
    <3>1. stack'[i].item \in Request => i > 1 /\ stack'[i - 1] = Prompt(None)
      BY <2>2
    <3>2. ASSUME NEW j \in i + 1 .. k + n PROVE ~ Asking(stack'[i])
      <4>1. i \in k + 1 .. k + n /\ j \in k + 1 .. k + n /\ i < j
        BY <2>2
      <4> QED BY <4>1
    <3> QED BY <2>2, <3>1, <3>2
  <2> QED BY <2>1, <2>2
<1> QED BY <1>1, <1>3 DEF StackInv

LEMMA FrameAdded ==
    ASSUME stack \in Seq(Frame), StackInv, NEW k \in Nat, Keeps(k, 1), NEW f,
           stack'[k + 1] = f, WellFormed(f), f.item \notin Request,
           \/ f.kind = "events"
           \/ \A i \in 1 .. k : ~ Asking(stack[i])
    PROVE  StackInv'
<1>1. \A i \in k + 1 .. k + 1 : stack'[i] = f
  OBVIOUS
<1>2. \A i, j \in k + 1 .. k + 1 : ~ (i < j)
  OBVIOUS
<1>3. \A i \in k + 1 .. k + 1 : WellFormed(stack'[i]) /\ stack'[i].item \notin Request
  BY <1>1
<1>4. \/ \A i \in k + 1 .. k + 1 : stack'[i].kind = "events"
      \/ \A i \in 1 .. k : ~ Asking(stack[i])
  BY <1>1
<1> QED BY <1>2, <1>3, <1>4, StackKept

LEMMA NewFrames ==
    ASSUME SharedChannelAssumption, NEW c \in Call
    PROVE  /\ WellFormed(Prompt(None)) /\ WellFormed(Prompt(c)) /\ WellFormed(Events(c))
           /\ ~ Asking(Prompt(None)) /\ ~ Asking(Events(c))
           /\ Prompt(None).item \notin Request /\ Prompt(c).item \notin Request
           /\ Events(c).item \notin Request
           /\ Prompt(c).kind = "prompt" /\ Prompt(c).call = c /\ Prompt(c).item = None
           /\ Events(c).kind = "events" /\ Events(c).call = c /\ Prompt(None).call = None
BY DEF WellFormed, Asking, Prompt, Events, SharedChannelAssumption

LEMMA NewDispatch ==
    ASSUME SharedChannelAssumption, NEW m \in Message
    PROVE  /\ WellFormed(Prompt(None)) /\ ~ Asking(Prompt(None)) /\ Prompt(None).item \notin Request
           /\ WellFormed(Eval(m)) /\ ~ Asking(Eval(m)) /\ Eval(m).item = m
           /\ Prompt(None).call = None /\ Eval(m).call = None
BY DEF WellFormed, Asking, Prompt, Eval, SharedChannelAssumption

(* The steps of the worker: it goes on, reads the console or looks at the  *)
(* flag.                                                                   *)
WorkerMoves == WorkerStep \/ \E c \in Call : ReadConsole(c) \/ StartEvents(c)

LEMMA StackSteps ==
    ASSUME SharedChannelAssumption, stack \in Seq(Frame), StackInv, WorkerMoves
    PROVE  stack' \in Seq(Frame) /\ StackInv'
<1>0. Len(stack) \in Nat
  OBVIOUS
<1>1. ASSUME NEW c \in Call, ReadConsole(c) PROVE stack' \in Seq(Frame) /\ StackInv'
  <2>1. Keeps(Len(stack), 1) /\ stack'[Len(stack) + 1] = Prompt(c)
    BY <1>1, Shapes
  <2>2. \A i \in 1 .. Len(stack) : ~ Asking(stack[i])
    <3>1. CASE stack = <<>>
      BY <3>1
    <3>2. CASE stack # <<>>
      BY <1>1, <3>2, TopFacts DEF ReadConsole, TopIs
    <3> QED BY <3>1, <3>2
  <2>3. WellFormed(Prompt(c)) /\ Prompt(c).item \notin Request
    BY NewFrames
  <2>5. StackInv'
    BY <1>0, <2>1, <2>2, <2>3, FrameAdded
  <2> QED BY <2>1, <2>5 DEF Keeps
<1>2. ASSUME NEW c \in Call, StartEvents(c) PROVE stack' \in Seq(Frame) /\ StackInv'
  <2>1. Keeps(Len(stack), 1) /\ stack'[Len(stack) + 1] = Events(c)
    BY <1>2, Shapes
  <2>3. WellFormed(Events(c)) /\ Events(c).item \notin Request /\ Events(c).kind = "events"
    BY NewFrames
  <2>5. StackInv'
    BY <1>0, <2>1, <2>3, FrameAdded
  <2> QED BY <2>1, <2>5 DEF Keeps
<1>3. ASSUME NEW j \in Nat, Keeps(j, 0) PROVE stack' \in Seq(Frame) /\ StackInv'
  <2>1. \A i \in j + 1 .. j + 0 : FALSE
    OBVIOUS
  <2>2. StackInv'
    BY <1>3, <2>1, StackKept
  <2> QED BY <1>3, <2>2 DEF Keeps
<1>4. ASSUME NEW m \in Message, GetLine(m) PROVE stack' \in Seq(Frame) /\ StackInv'
  <2>1. stack # <<>> /\ Top.kind = "prompt" /\ Top.call # None
    BY <1>4 DEF GetLine, TopIs, Got
  <2>2. Len(stack) - 1 \in Nat /\ \A i \in 1 .. Len(stack) - 1 : ~ Asking(stack[i])
    <3>1. Asking(Top)
      BY <2>1 DEF Asking
    <3> QED BY <2>1, <3>1, TopFacts
  <2>3. CASE Keeps(Len(stack) - 1, 0)
    BY <1>3, <2>2, <2>3
  <2>4. CASE Keeps(Len(stack) - 1, 1) /\ stack'[Len(stack)] = Eval(m) /\ m \notin Request
    <3>1. WellFormed(Eval(m)) /\ Eval(m).item \notin Request
      BY <2>4, NewDispatch
    <3> DEFINE j == Len(stack) - 1
    <3>2. stack'[j + 1] = Eval(m)
      BY <2>2, <2>4
    <3>3. j \in Nat /\ Keeps(j, 1) /\ \A i \in 1 .. j : ~ Asking(stack[i])
      BY <2>2, <2>4
    <3> HIDE DEF j
    <3>4. StackInv'
      BY <3>1, <3>2, <3>3, FrameAdded
    <3> QED BY <2>4, <3>4 DEF Keeps
  <2> QED BY <1>4, <2>3, <2>4, Shapes
<1>5. ASSUME NEW m \in Message, GetRequest(m) PROVE stack' \in Seq(Frame) /\ StackInv'
  <2>1. stack # <<>> /\ Top.kind = "prompt" /\ Top.call # None
    BY <1>5 DEF GetRequest, TopIs, Got
  <2>2. Len(stack) - 1 \in Nat /\ \A i \in 1 .. Len(stack) - 1 : ~ Asking(stack[i])
    <3>1. Asking(Top)
      BY <2>1 DEF Asking
    <3> QED BY <2>1, <3>1, TopFacts
  <2>3. Keeps(Len(stack) - 1, 2) /\ stack'[Len(stack)] = Prompt(None) /\ stack'[Len(stack) + 1] = Eval(m)
    BY <1>5, Shapes
  <2>4. /\ WellFormed(Prompt(None)) /\ ~ Asking(Prompt(None)) /\ Prompt(None).item \notin Request
        /\ WellFormed(Eval(m)) /\ ~ Asking(Eval(m))
    BY NewDispatch
  <2> DEFINE j == Len(stack) - 1
  <2>5. stack'[j + 1] = Prompt(None) /\ stack'[j + 2] = Eval(m)
    BY <2>2, <2>3
  <2>6. j \in Nat /\ Keeps(j, 2) /\ \A i \in 1 .. j : ~ Asking(stack[i])
    BY <2>2, <2>3
  <2> HIDE DEF j
  <2>7. \A i \in j + 1 .. j + 2 : i = j + 1 \/ (i = j + 2 /\ i - 1 = j + 1)
    BY <2>6
  <2>8. \A i \in j + 1 .. j + 2 : WellFormed(stack'[i]) /\ ~ Asking(stack'[i])
    BY <2>4, <2>5, <2>7
  <2>9. \A i \in j + 1 .. j + 2 :
            stack'[i].item \in Request => i > j + 1 /\ stack'[i - 1] = Prompt(None)
    BY <2>4, <2>5, <2>6, <2>7
  <2>10. StackInv'
    BY <2>6, <2>8, <2>9, StackKept
  <2> QED BY <2>3, <2>10 DEF Keeps
<1>6. CASE FinishLine
  <2>1. Len(stack) - 1 \in Nat /\ Keeps(Len(stack) - 1, 0)
    BY <1>6, Shapes, TopFacts DEF FinishLine, TopIs
  <2> QED BY <1>3, <2>1
<1>7. ASSUME NEW c \in Call, FinishRequest(c) PROVE stack' \in Seq(Frame) /\ StackInv'
  <2>1. stack # <<>> /\ Top.kind = "eval"
    BY <1>7 DEF FinishRequest, TopIs
  <2>2. Len(stack) > 1 /\ Keeps(Len(stack) - 2, 1) /\ stack'[Len(stack) - 1] = Prompt(c)
    BY <1>7, Shapes
  <2>3. WellFormed(Prompt(c)) /\ Prompt(c).item \notin Request
    BY NewFrames
  <2>4. \A i \in 1 .. Len(stack) - 2 : ~ Asking(stack[i])
    BY <2>1, TopFacts
  <2> DEFINE j == Len(stack) - 2
  <2>5. stack'[j + 1] = Prompt(c)
    BY <1>0, <2>2
  <2>6. j \in Nat /\ Keeps(j, 1) /\ \A i \in 1 .. j : ~ Asking(stack[i])
    BY <1>0, <2>2, <2>4
  <2> HIDE DEF j
  <2>7. StackInv'
    BY <2>3, <2>5, <2>6, FrameAdded
  <2> QED BY <2>2, <2>7 DEF Keeps
<1>8. ASSUME NEW e \in Event, NEW c \in Call, HandleEvent(e, c)
      PROVE  stack' \in Seq(Frame) /\ StackInv'
  <2>1. Len(stack) - 1 \in Nat
    BY <1>8, TopFacts DEF HandleEvent, TopIs
  <2>2. Keeps(Len(stack) - 1, 1) /\ stack'[Len(stack)] = Events(c)
    BY <1>8, Shapes
  <2>3. WellFormed(Events(c)) /\ Events(c).item \notin Request /\ Events(c).kind = "events"
    BY NewFrames
  <2> DEFINE j == Len(stack) - 1
  <2>5. stack'[j + 1] = Events(c)
    BY <2>1, <2>2
  <2>6. j \in Nat /\ Keeps(j, 1)
    BY <2>1, <2>2
  <2> HIDE DEF j
  <2>7. StackInv'
    BY <2>3, <2>5, <2>6, FrameAdded
  <2> QED BY <2>2, <2>7 DEF Keeps
<1>9. CASE EndEvents
  <2>1. Len(stack) - 1 \in Nat /\ Keeps(Len(stack) - 1, 0)
    BY <1>9, Shapes, TopFacts DEF EndEvents, TopIs
  <2> QED BY <1>3, <2>1
<1>10. ASSUME NEW j \in 0 .. MaxDepth, HandleInterrupt(j) PROVE stack' \in Seq(Frame) /\ StackInv'
  BY <1>3, <1>10, Shapes DEF SharedChannelAssumption
<1> QED BY <1>1, <1>2, <1>4, <1>5, <1>6, <1>7, <1>8, <1>9, <1>10 DEF WorkerMoves, WorkerStep

-----------------------------------------------------------------------------
(* Types.                                                                  *)

LEMMA InitTypes == SharedChannelAssumption /\ Init => TypeOK /\ StackInv
<1> SUFFICES ASSUME SharedChannelAssumption, Init PROVE TypeOK /\ StackInv
  OBVIOUS
<1>1. /\ <<>> \in Seq(Message) /\ <<>> \in Seq(Call) /\ <<>> \in Seq([call : Call, message : Message])
      /\ <<>> \in Seq(Event \cup {Interrupt}) /\ <<>> \in Seq(Post) /\ <<>> \in Seq(Frame)
      /\ <<>> \in Seq(Event)
  OBVIOUS
<1>2. answer \in [Call -> Answer]
  BY DEF Init, Answer
<1>3. 0 \in 0 .. MaxInterrupts
  BY DEF SharedChannelAssumption
<1>4. StackInv
  BY DEF Init, StackInv
<1> QED BY <1>1, <1>2, <1>3, <1>4 DEF Init, TypeOK

LEMMA UserTypes ==
    ASSUME SharedChannelAssumption, TypeOK, UserStep
    PROVE  TypeOK' /\ UNCHANGED stack
<1> USE DEF TypeOK, history
<1>1. ASSUME NEW m \in Message, Write(m) PROVE TypeOK' /\ UNCHANGED stack
  <2>1. inputQueue' \in Seq(Message) /\ waiters' \in Seq(Call)
        /\ due' \in Seq([call : Call, message : Message])
    <3>1. ASSUME waiters # <<>>, due' = Append(due, [call |-> Head(waiters), message |-> m]),
                 waiters' = Tail(waiters), UNCHANGED inputQueue
          PROVE  inputQueue' \in Seq(Message) /\ waiters' \in Seq(Call)
                 /\ due' \in Seq([call : Call, message : Message])
      <4>1. [call |-> Head(waiters), message |-> m] \in [call : Call, message : Message]
        BY <3>1
      <4> QED BY <3>1, <4>1
    <3>2. ASSUME inputQueue' = Append(inputQueue, m), UNCHANGED <<waiters, due>>
          PROVE  inputQueue' \in Seq(Message) /\ waiters' \in Seq(Call)
                 /\ due' \in Seq([call : Call, message : Message])
      BY <3>2
    <3> QED BY <1>1, <3>1, <3>2 DEF Write, Put, Store, SomebodyReads, ShiftWaiters
  <2>2. written' \in Seq(Message) /\ parked' \subseteq Request
    BY <1>1 DEF Write
  <2> QED BY <1>1, <2>1, <2>2 DEF Write
<1>2. ASSUME NEW r \in Request, RequestClosed(r) PROVE TypeOK' /\ UNCHANGED stack
  BY <1>2 DEF RequestClosed
<1>3. ASSUME NEW e \in Event, Emit(e) PROVE TypeOK' /\ UNCHANGED stack
  BY <1>3 DEF Emit, EmitEvent, Raised
<1>4. CASE RequestInterrupt
  <2>1. /\ eventQueue' \in Seq(Event \cup {Interrupt}) /\ eventBuffer' \in {0, 1}
        /\ inputQueue' = <<>> /\ waiters' = <<>>
    BY <1>4 DEF RequestInterrupt, EmitEvent, Raised
  <2>2. dropped' \subseteq Message
    BY <1>4 DEF RequestInterrupt, ToSet
  <2>3. interrupts' \in 0 .. MaxInterrupts
    BY <1>4, SharedChannelAssumption DEF RequestInterrupt, SharedChannelAssumption
  <2>4. inputQueue' \in Seq(Message) /\ waiters' \in Seq(Call)
    BY <2>1
  <2> QED BY <1>4, <2>1, <2>2, <2>3, <2>4 DEF RequestInterrupt
<1>5. CASE Close
  BY <1>5 DEF Close
<1> QED BY <1>1, <1>2, <1>3, <1>4, <1>5 DEF UserStep

LEMMA AnswerTypes ==
    ASSUME TypeOK, NEW c, NEW a \in Answer, answer' = [answer EXCEPT ![c] = a]
    PROVE  answer' \in [Call -> Answer]
BY DEF TypeOK

LEMMA MainTypes ==
    ASSUME SharedChannelAssumption, TypeOK, MainStep
    PROVE  TypeOK' /\ UNCHANGED stack
<1> USE DEF TypeOK, history
<1>1. CASE ResumeRead
  <2>1. Head(due) \in [call : Call, message : Message]
        /\ due' \in Seq([call : Call, message : Message])
    <3>1. due # <<>> /\ due' = Tail(due)
      BY <1>1 DEF ResumeRead
    <3> DEFINE T == [call : Call, message : Message]
    <3>2. due \in Seq(T)
      OBVIOUS
    <3> HIDE DEF T
    <3>3. Head(due) \in T /\ Tail(due) \in Seq(T)
      BY ONLY <3>1, <3>2
    <3> QED BY <3>1, <3>3 DEF T
  <2>2. Head(due).message \in Message
    BY <2>1
  <2>3. answer' \in [Call -> Answer] /\ lost' \subseteq Message \cup Event \cup {Interrupt}
    <3>1. ASSUME answer' = [answer EXCEPT ![Head(due).call] = Head(due).message], UNCHANGED lost
          PROVE  answer' \in [Call -> Answer] /\ lost' \subseteq Message \cup Event \cup {Interrupt}
      BY <2>2, <3>1, AnswerTypes DEF Answer
    <3>2. ASSUME lost' = lost \cup {Head(due).message}, UNCHANGED answer
          PROVE  answer' \in [Call -> Answer] /\ lost' \subseteq Message \cup Event \cup {Interrupt}
      BY <2>2, <3>2
    <3> QED BY <1>1, <3>1, <3>2 DEF ResumeRead
  <2> QED BY <1>1, <2>1, <2>3 DEF ResumeRead
<1>2. ASSUME NEW type, Received(type)
      PROVE  /\ toMain' \in Seq(Post) /\ Head(toMain) \in Post /\ Head(toMain).type = type
             /\ due = <<>> /\ toMain # <<>> /\ toMain' = Tail(toMain)
  BY <1>2 DEF Received
<1>3. CASE ReceiveRead
  <2>1. toMain' \in Seq(Post) /\ Head(toMain).call \in Call
    BY <1>2, <1>3 DEF ReceiveRead, Post
  <2>2. waiters' \in Seq(Call) /\ inputQueue' \in Seq(Message)
        /\ due' \in Seq([call : Call, message : Message])
    <3> DEFINE d == [call |-> Head(toMain).call, message |-> Head(inputQueue)]
    <3>1. ASSUME inputQueue # <<>>, due' = Append(due, d), inputQueue' = Tail(inputQueue), UNCHANGED waiters
          PROVE  waiters' \in Seq(Call) /\ inputQueue' \in Seq(Message)
                 /\ due' \in Seq([call : Call, message : Message])
      <4>1. d \in [call : Call, message : Message]
        BY <2>1, <3>1
      <4> HIDE DEF d
      <4> QED BY <3>1, <4>1
    <3>2. ASSUME waiters' = Append(waiters, Head(toMain).call), UNCHANGED <<inputQueue, due>>
          PROVE  waiters' \in Seq(Call) /\ inputQueue' \in Seq(Message)
                 /\ due' \in Seq([call : Call, message : Message])
      BY <2>1, <3>2
    <3> QED BY <1>3, <3>1, <3>2 DEF ReceiveRead
  <2> QED BY <1>3, <2>1, <2>2 DEF ReceiveRead
<1>4. CASE ReceiveEvent
  <2>1. toMain' \in Seq(Post)
    BY <1>2, <1>4 DEF ReceiveEvent
  <2> DEFINE e == IF eventQueue = <<>> THEN NoEvent ELSE Head(eventQueue)
  <2>2. e \in Event \cup {Interrupt, NoEvent} /\ eventQueue' \in Seq(Event \cup {Interrupt})
    BY <1>4 DEF ReceiveEvent, ShiftEvents
  <2>3. \/ answer' = answer /\ lost' = lost \cup ({e} \ {NoEvent})
        \/ answer' = [answer EXCEPT ![Head(toMain).call] = e] /\ lost' = lost
    BY <1>4 DEF ReceiveEvent
  <2> HIDE DEF e
  <2>4. e \in Answer
    BY <2>2 DEF Answer
  <2>5. answer' \in [Call -> Answer]
    BY <2>3, <2>4, AnswerTypes
  <2>6. lost' \subseteq Message \cup Event \cup {Interrupt}
    BY <2>2, <2>3
  <2> QED BY <1>4, <2>1, <2>2, <2>5, <2>6 DEF ReceiveEvent
<1>5. CASE ReceiveResponse
  <2>1. toMain' \in Seq(Post)
    BY <1>2, <1>5 DEF ReceiveResponse
  <2>2. parked' \subseteq Request /\ settled' \subseteq Request
    BY <1>5 DEF ReceiveResponse
  <2> QED BY <1>5, <2>1, <2>2 DEF ReceiveResponse
<1> QED BY <1>1, <1>3, <1>4, <1>5 DEF MainStep

(* What the worker asks. *)
LEMMA AskTypes ==
    ASSUME TypeOK, NEW type \in {"read", "event"}, NEW c \in Call,
           NEW posts \in Seq(Post), Ask(type, c, posts)
    PROVE  toMain' \in Seq(Post)
<1>1. [type |-> type, call |-> c] \in Post
  BY DEF Post
<1> DEFINE q == <<[type |-> type, call |-> c]>>
<1>2. q \in Seq(Post)
  BY <1>1
<1>3. toMain' = toMain \o posts \o q /\ toMain \in Seq(Post)
  BY DEF Ask, TypeOK
<1> HIDE DEF q
<1> QED BY <1>2, <1>3

LEMMA NoPosts == <<>> \in Seq(Post)
OBVIOUS

(* The frames above k, which an interrupt unwinds, and their calls.        *)
Gone(k) == {f.call : f \in ToSet(SubSeq(stack, k + 1, Len(stack)))} \ {None}

LEMMA GoneCalls ==
    ASSUME stack \in Seq(Frame), NEW k \in 0 .. Len(stack)
    PROVE  /\ Gone(k) \subseteq Call
           /\ \A i \in k + 1 .. Len(stack) : stack[i].call # None => stack[i].call \in Gone(k)
           /\ \A c \in Gone(k) : \E i \in k + 1 .. Len(stack) : stack[i].call = c
<1> DEFINE q == SubSeq(stack, k + 1, Len(stack))
           n == Len(stack)
<1>1. n \in Nat /\ k \in Nat /\ k + 1 \in Int /\ n \in Int
  OBVIOUS
<1>2. \A i \in k + 1 .. n : stack[i] \in Frame
  OBVIOUS
<1>3. /\ q \in Seq(Frame) /\ Len(q) = (IF k + 1 <= n THEN n - (k + 1) + 1 ELSE 0)
      /\ \A i \in 1 .. n - (k + 1) + 1 : q[i] = stack[(k + 1) + i - 1]
  <2> HIDE DEF n
  <2>1. /\ SubSeq(stack, k + 1, n) \in Seq(Frame)
        /\ Len(SubSeq(stack, k + 1, n)) = (IF k + 1 <= n THEN n - (k + 1) + 1 ELSE 0)
        /\ \A i \in 1 .. n - (k + 1) + 1 : SubSeq(stack, k + 1, n)[i] = stack[(k + 1) + i - 1]
    BY <1>1, <1>2, SubSeqProperties
  <2> QED BY <2>1 DEF n
<1>4. Gone(k) = {f.call : f \in ToSet(q)} \ {None}
  BY DEF Gone
<1> HIDE DEF q, n
<1>5. Len(q) = n - k
  BY <1>1, <1>3 DEF n
<1>6. \A i \in 1 .. n - k : q[i] = stack[k + i] /\ k + i \in k + 1 .. n
  BY <1>1, <1>3
<1>7. ToSet(q) = {q[i] : i \in 1 .. n - k}
  BY <1>1, <1>3, <1>5 DEF ToSet
<1>8. \A i \in k + 1 .. n : stack[i] = q[i - k] /\ i - k \in 1 .. n - k
  BY <1>1, <1>6
<1>9. \A i \in k + 1 .. n : stack[i] \in ToSet(q)
  BY <1>7, <1>8
<1>10. \A f \in ToSet(q) : \E i \in k + 1 .. n : f = stack[i]
  BY <1>6, <1>7
<1>11. \A f \in Frame : f.call \in Call \cup {None}
  BY DEF Frame
<1> QED BY <1>2, <1>4, <1>9, <1>10, <1>11 DEF n

LEMMA WorkerTypes ==
    ASSUME SharedChannelAssumption, TypeOK, StackInv, WorkerMoves
    PROVE  TypeOK' /\ StackInv'
<1>0. stack' \in Seq(Frame) /\ StackInv'
  BY StackSteps DEF TypeOK
<1>1. UNCHANGED mainVars
  BY DEF WorkerMoves, WorkerStep, ReadConsole, StartEvents, GetLine, GetRequest, FinishLine,
         FinishRequest, HandleEvent, EndEvents, HandleInterrupt
<1>2. UNCHANGED <<written, settled, dropped, interrupts>>
  BY DEF WorkerMoves, WorkerStep, ReadConsole, StartEvents, GetLine, GetRequest, FinishLine,
         FinishRequest, HandleEvent, EndEvents, HandleInterrupt, history
<1>3. eventBuffer' \in {0, 1}
  BY DEF WorkerMoves, WorkerStep, ReadConsole, StartEvents, GetLine, GetRequest, FinishLine,
         FinishRequest, HandleEvent, EndEvents, HandleInterrupt, TypeOK
<1> DEFINE Rest == /\ toMain' \in Seq(Post) /\ answer' \in [Call -> Answer]
                   /\ consumed' \in Seq(Message) /\ handled' \in Seq(Event)
                   /\ lost' \subseteq Message \cup Event \cup {Interrupt}
<1>4. Rest
  <2> USE DEF TypeOK, history
  <2>1. ASSUME NEW c \in Call, ReadConsole(c) PROVE Rest
    <3>1. toMain' \in Seq(Post)
      BY <2>1, AskTypes, NoPosts DEF ReadConsole
    <3> QED BY <2>1, <3>1 DEF ReadConsole
  <2>2. ASSUME NEW c \in Call, StartEvents(c) PROVE Rest
    <3>1. toMain' \in Seq(Post)
      BY <2>2, AskTypes, NoPosts DEF StartEvents
    <3> QED BY <2>2, <3>1 DEF StartEvents
  <2>3. ASSUME Taken PROVE answer' \in [Call -> Answer]
    BY <2>3, AnswerTypes DEF Taken, Answer
  <2>4. ASSUME NEW m \in Message, GetLine(m) PROVE Rest
    <3>1. answer' \in [Call -> Answer] /\ consumed' \in Seq(Message)
      BY <2>3, <2>4 DEF GetLine
    <3> QED BY <2>4, <3>1 DEF GetLine
  <2>5. ASSUME NEW m \in Message, GetRequest(m) PROVE Rest
    <3>1. answer' \in [Call -> Answer] /\ consumed' \in Seq(Message)
      BY <2>3, <2>5 DEF GetRequest
    <3> QED BY <2>5, <3>1 DEF GetRequest
  <2>6. CASE FinishLine
    BY <2>6 DEF FinishLine
  <2>7. ASSUME NEW c \in Call, FinishRequest(c) PROVE Rest
    <3>1. Response(Top.item) \in Post
      BY <2>7, PostTypes DEF FinishRequest
    <3>2. <<Response(Top.item)>> \in Seq(Post)
      BY <3>1
    <3>3. Ask("read", c, <<Response(Top.item)>>)
      BY <2>7 DEF FinishRequest
    <3>4. toMain' \in Seq(Post)
      BY <3>2, <3>3, AskTypes
    <3> QED BY <2>7, <3>4 DEF FinishRequest
  <2>8. ASSUME NEW e \in Event, NEW c \in Call, HandleEvent(e, c) PROVE Rest
    <3>1. toMain' \in Seq(Post)
      BY <2>8, AskTypes, NoPosts DEF HandleEvent
    <3>2. answer' \in [Call -> Answer] /\ handled' \in Seq(Event)
      BY <2>3, <2>8 DEF HandleEvent
    <3> QED BY <2>8, <3>1, <3>2 DEF HandleEvent
  <2>9. CASE EndEvents
    BY <2>3, <2>9 DEF EndEvents
  <2>10. ASSUME NEW k \in 0 .. MaxDepth, HandleInterrupt(k) PROVE Rest
    <3>1. k \in 0 .. Len(stack) /\ k \in Nat
      BY <2>10, Shapes DEF Keeps
    <3>2. toMain' \in Seq(Post)
      <4>1. PICK u \in Unwindings(k) : toMain' = toMain \o AnswerUnwound(u)
        BY <2>10 DEF HandleInterrupt
      <4> QED BY <3>1, <4>1, UnwoundTypes
    <3>3. /\ lost' = lost \cup ({answer[c] : c \in Gone(k) \ {Top.call}} \ {None, NoEvent})
          /\ answer' = [c \in Call |-> IF c \in Gone(k) THEN None ELSE answer[c]]
      BY <2>10 DEF HandleInterrupt, Gone
    <3>4. answer' \in [Call -> Answer]
      BY <3>3 DEF Answer
    <3>5. lost' \subseteq Message \cup Event \cup {Interrupt}
      <4>1. \A c \in Gone(k) : answer[c] \in Message \cup Event \cup {Interrupt, NoEvent, None}
        BY <3>1, GoneCalls DEF Answer
      <4> QED BY <3>3, <4>1
    <3> QED BY <2>10, <3>2, <3>4, <3>5 DEF HandleInterrupt
  <2> HIDE DEF Rest
  <2> QED BY <2>1, <2>2, <2>4, <2>5, <2>6, <2>7, <2>8, <2>9, <2>10 DEF WorkerMoves, WorkerStep
<1> QED BY <1>0, <1>1, <1>2, <1>3, <1>4 DEF TypeOK, mainVars

LEMMA StackSame == StackInv /\ UNCHANGED stack => StackInv'
BY DEF StackInv

(* A step is one of the application, of the main thread or of the worker.  *)
LEMMA Steps == [Next]_vars => MainStep \/ UserStep \/ WorkerMoves \/ UNCHANGED vars
BY DEF Next, WorkerMoves, PollEvents, TimeoutEvents

LEMMA TypesKept ==
    ASSUME SharedChannelAssumption, TypeOK, StackInv, [Next]_vars
    PROVE  TypeOK' /\ StackInv'
<1>1. CASE UNCHANGED vars
  BY <1>1, StackSame DEF vars, mainVars, history, TypeOK
<1> QED BY <1>1, Steps, UserTypes, MainTypes, WorkerTypes, StackSame

(* The variables keep their types, and the stack its order: a request is   *)
(* evaluated by the prompt that read it, and the only prompt that waits    *)
(* for a message has nothing but event handlers above it                   *)
(* (inputOrDispatch() and handleEvents(), channel-shared.ts).              *)
THEOREM ChannelTypes == Spec => [](TypeOK /\ StackInv)
<1>1. Init => TypeOK /\ StackInv
  BY InitTypes, SharedChannelAssumption
<1>2. TypeOK /\ StackInv /\ [Next]_vars => (TypeOK /\ StackInv)'
  BY TypesKept, SharedChannelAssumption
<1> QED BY <1>1, <1>2, PTL DEF Spec

-----------------------------------------------------------------------------
(* The calls.                                                              *)

(* The calls that read, wherever the read is, and those that ask for an    *)
(* event and have not been received.                                       *)
Reads ==
    ToSet(waiters) \cup {d.call : d \in ToSet(due)}
    \cup {p.call : p \in {q \in ToSet(toMain) : q.type = "read"}}
EventCalls == {p.call : p \in {q \in ToSet(toMain) : q.type = "event"}}

(* Answers wait for frames that are there, messages for prompts, and reads *)
(* are made by prompts.                                                    *)
CallInv ==
    /\ \A c \in Call : answer[c] # None =>
           \E i \in 1 .. Len(stack) :
               /\ stack[i].call = c
               /\ answer[c] \in Message => stack[i].kind = "prompt"
    /\ \A c \in Reads : \A i \in 1 .. Len(stack) : stack[i].call = c => stack[i].kind = "prompt"

LEMMA SetOfSeq ==
    ASSUME NEW S, NEW q \in Seq(S)
    PROVE  ToSet(q) = {q[i] : i \in 1 .. Len(q)} /\ ToSet(q) \subseteq S
BY DEF ToSet

LEMMA SetOfTail ==
    ASSUME NEW S, NEW q \in Seq(S), q # <<>>
    PROVE  /\ ToSet(q) = ToSet(Tail(q)) \cup {Head(q)} /\ ToSet(q) \subseteq S
           /\ Head(q) \in S /\ Tail(q) \in Seq(S)
<1>1. Len(q) \in Nat /\ Len(q) >= 1 /\ Head(q) = q[1] /\ Tail(q) \in Seq(S)
      /\ Len(Tail(q)) = Len(q) - 1 /\ \A i \in 1 .. Len(q) - 1 : Tail(q)[i] = q[i + 1]
  OBVIOUS
<1>2. DOMAIN q = 1 .. Len(q) /\ DOMAIN Tail(q) = 1 .. Len(q) - 1 /\ \A i \in 1 .. Len(q) : q[i] \in S
  BY <1>1
<1>3. ASSUME NEW x \in ToSet(q) PROVE x \in ToSet(Tail(q)) \cup {Head(q)}
  <2>1. PICK i \in 1 .. Len(q) : x = q[i]
    BY <1>2, <1>3 DEF ToSet
  <2>2. CASE i = 1
    BY <1>1, <2>1, <2>2
  <2>3. CASE i # 1
    <3>1. i - 1 \in 1 .. Len(q) - 1 /\ (i - 1) + 1 = i
      BY <1>1, <2>1, <2>3
    <3>2. x = Tail(q)[i - 1]
      BY <1>1, <2>1, <3>1
    <3> QED BY <1>2, <3>1, <3>2 DEF ToSet
  <2> QED BY <2>2, <2>3
<1>4. ASSUME NEW x \in ToSet(Tail(q)) PROVE x \in ToSet(q)
  <2>1. PICK i \in 1 .. Len(q) - 1 : x = Tail(q)[i]
    BY <1>2, <1>4 DEF ToSet
  <2>2. i + 1 \in 1 .. Len(q) /\ x = q[i + 1]
    BY <1>1, <2>1
  <2> QED BY <1>2, <2>2 DEF ToSet
<1>5. Head(q) \in ToSet(q)
  BY <1>1, <1>2 DEF ToSet
<1>6. ToSet(q) \subseteq S
  BY <1>2 DEF ToSet
<1> QED BY <1>1, <1>2, <1>3, <1>4, <1>5, <1>6

LEMMA SetOfAppend ==
    ASSUME NEW S, NEW q \in Seq(S), NEW x
    PROVE  ToSet(Append(q, x)) = ToSet(q) \cup {x}
<1>1. /\ Len(q) \in Nat /\ DOMAIN q = 1 .. Len(q) /\ DOMAIN Append(q, x) = 1 .. Len(q) + 1
      /\ \A i \in 1 .. Len(q) : Append(q, x)[i] = q[i]
      /\ Append(q, x)[Len(q) + 1] = x
  OBVIOUS
<1>2. \A i \in 1 .. Len(q) + 1 : i \in 1 .. Len(q) \/ i = Len(q) + 1
  BY <1>1
<1>3. \A i \in 1 .. Len(q) : i \in 1 .. Len(q) + 1
  BY <1>1
<1>4. Len(q) + 1 \in 1 .. Len(q) + 1
  BY <1>1
<1> QED BY <1>1, <1>2, <1>3, <1>4 DEF ToSet

LEMMA SetOfConcat ==
    ASSUME NEW S, NEW q \in Seq(S), NEW r \in Seq(S)
    PROVE  ToSet(q \o r) = ToSet(q) \cup ToSet(r)
<1>1. /\ Len(q) \in Nat /\ Len(r) \in Nat /\ DOMAIN q = 1 .. Len(q) /\ DOMAIN r = 1 .. Len(r)
      /\ DOMAIN (q \o r) = 1 .. Len(q) + Len(r)
      /\ \A i \in 1 .. Len(q) : (q \o r)[i] = q[i]
      /\ \A i \in Len(q) + 1 .. Len(q) + Len(r) : (q \o r)[i] = r[i - Len(q)]
  OBVIOUS
<1>2. ASSUME NEW x \in ToSet(q \o r) PROVE x \in ToSet(q) \cup ToSet(r)
  <2>1. PICK i \in 1 .. Len(q) + Len(r) : x = (q \o r)[i]
    BY <1>1, <1>2 DEF ToSet
  <2>2. CASE i \in 1 .. Len(q)
    BY <1>1, <2>1, <2>2 DEF ToSet
  <2>3. CASE i \in Len(q) + 1 .. Len(q) + Len(r)
    <3>1. i - Len(q) \in 1 .. Len(r) /\ x = r[i - Len(q)]
      BY <1>1, <2>1, <2>3
    <3> QED BY <1>1, <3>1 DEF ToSet
  <2> QED BY <1>1, <2>1, <2>2, <2>3
<1>3. ASSUME NEW x \in ToSet(q) PROVE x \in ToSet(q \o r)
  <2>1. PICK i \in 1 .. Len(q) : x = q[i]
    BY <1>1, <1>3 DEF ToSet
  <2>2. i \in 1 .. Len(q) + Len(r) /\ x = (q \o r)[i]
    BY <1>1, <2>1
  <2> QED BY <1>1, <2>2 DEF ToSet
<1>4. ASSUME NEW x \in ToSet(r) PROVE x \in ToSet(q \o r)
  <2>1. PICK i \in 1 .. Len(r) : x = r[i]
    BY <1>1, <1>4 DEF ToSet
  <2>2. i + Len(q) \in Len(q) + 1 .. Len(q) + Len(r) /\ (i + Len(q)) - Len(q) = i
    BY <1>1, <2>1
  <2>3. i + Len(q) \in 1 .. Len(q) + Len(r) /\ x = (q \o r)[i + Len(q)]
    BY <1>1, <2>1, <2>2
  <2> QED BY <1>1, <2>3 DEF ToSet
<1> QED BY <1>2, <1>3, <1>4

LEMMA FreshCall ==
    ASSUME SharedChannelAssumption, TypeOK, NEW c \in Call, NewCall(c)
    PROVE  /\ c \notin Reads /\ c \notin EventCalls
           /\ \A i \in 1 .. Len(stack) : stack[i].call # c
<1>1. c \notin InUse
  BY DEF NewCall
<1>2. c \notin Reads /\ c \notin EventCalls /\ c \notin LiveCalls
  BY <1>1 DEF InUse, Reads, EventCalls
<1>3. \A i \in 1 .. Len(stack) : stack[i] \in ToSet(stack)
  BY DEF ToSet, TypeOK
<1>4. c # None
  BY DEF SharedChannelAssumption
<1> QED BY <1>2, <1>3, <1>4 DEF LiveCalls

(* What is asked of the main thread adds a call. *)
LEMMA AskCalls ==
    ASSUME TypeOK, NEW type \in {"read", "event"}, NEW c \in Call,
           NEW posts \in Seq(Post), \A p \in ToSet(posts) : p.type = "response",
           Ask(type, c, posts), UNCHANGED <<waiters, due>>
    PROVE  /\ Reads' = Reads \cup (IF type = "read" THEN {c} ELSE {})
           /\ EventCalls' = EventCalls \cup (IF type = "event" THEN {c} ELSE {})
<1> DEFINE p == [type |-> type, call |-> c]
           q == toMain \o posts
<1>1. p \in Post /\ p.type = type /\ p.call = c
  BY DEF Post
<1>2. q \in Seq(Post) /\ ToSet(q) = ToSet(toMain) \cup ToSet(posts)
  BY SetOfConcat DEF TypeOK
<1>3. toMain' = toMain \o posts \o <<p>>
  BY DEF Ask
<1> HIDE DEF p
<1>4. toMain' = Append(q, p)
  BY <1>1, <1>2, <1>3
<1> HIDE DEF q
<1>5. ToSet(toMain') = ToSet(toMain) \cup ToSet(posts) \cup {p}
  BY <1>2, <1>4, SetOfAppend
<1>6. {x \in ToSet(toMain') : x.type = "read"}
        = {x \in ToSet(toMain) : x.type = "read"} \cup (IF type = "read" THEN {p} ELSE {})
  BY <1>1, <1>5
<1>7. {x \in ToSet(toMain') : x.type = "event"}
        = {x \in ToSet(toMain) : x.type = "event"} \cup (IF type = "event" THEN {p} ELSE {})
  BY <1>1, <1>5
<1>8. Reads' = Reads \cup (IF type = "read" THEN {c} ELSE {})
  BY <1>1, <1>6 DEF Reads
<1>9. EventCalls' = EventCalls \cup (IF type = "event" THEN {c} ELSE {})
  BY <1>1, <1>7 DEF EventCalls
<1> QED BY <1>8, <1>9

LEMMA AskRead ==
    ASSUME TypeOK, NEW c \in Call, NEW posts \in Seq(Post),
           \A p \in ToSet(posts) : p.type = "response",
           Ask("read", c, posts), UNCHANGED <<waiters, due>>
    PROVE  Reads' = Reads \cup {c} /\ EventCalls' = EventCalls
<1>1. /\ Reads' = Reads \cup (IF "read" = "read" THEN {c} ELSE {})
      /\ EventCalls' = EventCalls \cup (IF "read" = "event" THEN {c} ELSE {})
  BY AskCalls
<1> QED BY <1>1

LEMMA AskEvent ==
    ASSUME TypeOK, NEW c \in Call, Ask("event", c, <<>>), UNCHANGED <<waiters, due>>
    PROVE  Reads' = Reads /\ EventCalls' = EventCalls \cup {c}
<1>1. <<>> \in Seq(Post) /\ \A p \in ToSet(<<>>) : p.type = "response"
  BY DEF ToSet
<1>2. /\ Reads' = Reads \cup (IF "event" = "read" THEN {c} ELSE {})
      /\ EventCalls' = EventCalls \cup (IF "event" = "event" THEN {c} ELSE {})
  BY <1>1, AskCalls
<1> QED BY <1>2

(* The application and the main thread add none. *)
LEMMA OutsideCalls ==
    ASSUME SharedChannelAssumption, TypeOK, MainStep \/ UserStep
    PROVE  Reads' \subseteq Reads /\ EventCalls' \subseteq EventCalls
<1> DEFINE W == ToSet(waiters)
           D == {d.call : d \in ToSet(due)}
           R == {p.call : p \in {q \in ToSet(toMain) : q.type = "read"}}
<1>1. Reads = W \cup D \cup R
  BY DEF Reads
<1>2. CASE UNCHANGED <<waiters, due, toMain>>
  BY <1>2 DEF Reads, EventCalls
<1>3. ASSUME NEW m \in Message, Write(m) PROVE Reads' \subseteq Reads /\ EventCalls' \subseteq EventCalls
  <2>1. UNCHANGED toMain
    BY <1>3 DEF Write
  <2>2. CASE UNCHANGED <<waiters, due>>
    BY <1>2, <2>1, <2>2
  <2>3. CASE waiters # <<>> /\ due' = Append(due, [call |-> Head(waiters), message |-> m])
             /\ waiters' = Tail(waiters)
    <3>1. ToSet(waiters) = ToSet(waiters') \cup {Head(waiters)}
      BY <2>3, SetOfTail DEF TypeOK
    <3> DEFINE d == [call |-> Head(waiters), message |-> m]
    <3>2. due' = Append(due, d) /\ d.call = Head(waiters)
      BY <2>3
    <3> HIDE DEF d
    <3>3. ToSet(due') = ToSet(due) \cup {d}
      BY <3>2, SetOfAppend DEF TypeOK
    <3> QED BY <2>1, <3>1, <3>2, <3>3 DEF Reads, EventCalls
  <2> QED BY <1>3, <2>2, <2>3 DEF Write, Put, SomebodyReads, ShiftWaiters
<1>4. CASE RequestInterrupt
  <2>1. waiters' = <<>> /\ UNCHANGED <<due, toMain>>
    BY <1>4 DEF RequestInterrupt
  <2>2. ToSet(<<>>) = {}
    BY DEF ToSet
  <2> QED BY <2>1, <2>2 DEF Reads, EventCalls
<1>5. CASE ResumeRead
  <2>1. due # <<>> /\ due' = Tail(due) /\ UNCHANGED <<waiters, toMain>>
    BY <1>5 DEF ResumeRead
  <2>2. ToSet(due') \subseteq ToSet(due)
    BY <2>1, SetOfTail DEF TypeOK
  <2> QED BY <2>1, <2>2 DEF Reads, EventCalls
<1>6. ASSUME NEW type, Received(type)
      PROVE  /\ toMain # <<>> /\ Head(toMain).type = type
             /\ ToSet(toMain) = ToSet(toMain') \cup {Head(toMain)}
  BY <1>6, SetOfTail DEF Received, TypeOK
<1>7. CASE ReceiveRead
  <2>1. Received("read")
    BY <1>7 DEF ReceiveRead
  <2>2. Head(toMain).call \in R /\ ToSet(toMain') \subseteq ToSet(toMain)
    BY <1>6, <2>1
  <2> DEFINE d == [call |-> Head(toMain).call, message |-> Head(inputQueue)]
  <2>3. CASE due' = Append(due, d) /\ UNCHANGED waiters
    <3>1. d.call = Head(toMain).call
      OBVIOUS
    <3> HIDE DEF d
    <3>2. ToSet(due') = ToSet(due) \cup {d}
      BY <2>3, SetOfAppend DEF TypeOK
    <3> QED BY <2>2, <2>3, <3>1, <3>2 DEF Reads, EventCalls
  <2>4. CASE waiters' = Append(waiters, Head(toMain).call) /\ UNCHANGED due
    <3>1. ToSet(waiters') = ToSet(waiters) \cup {Head(toMain).call}
      BY <2>4, SetOfAppend DEF TypeOK
    <3> QED BY <2>2, <2>4, <3>1 DEF Reads, EventCalls
  <2> QED BY <1>7, <2>3, <2>4 DEF ReceiveRead
<1>8. CASE ReceiveEvent
  BY <1>6, <1>8 DEF ReceiveEvent, Reads, EventCalls
<1>9. CASE ReceiveResponse
  BY <1>6, <1>9 DEF ReceiveResponse, Reads, EventCalls
<1>10. ASSUME NEW r \in Request, RequestClosed(r) PROVE UNCHANGED <<waiters, due, toMain>>
  BY <1>10 DEF RequestClosed
<1>11. ASSUME NEW e \in Event, Emit(e) PROVE UNCHANGED <<waiters, due, toMain>>
  BY <1>11 DEF Emit
<1>12. ASSUME Close PROVE UNCHANGED <<waiters, due, toMain>>
  BY <1>12 DEF Close
<1> QED BY <1>2, <1>3, <1>4, <1>5, <1>7, <1>8, <1>9, <1>10, <1>11, <1>12 DEF MainStep, UserStep

(* A step of the worker leaves k frames and puts n above them; the answers *)
(* it leaves are of frames it leaves, and a new frame whose call reads is  *)
(* a prompt.                                                               *)
Leaves(k, n) ==
    /\ k \in Nat /\ n \in Nat /\ Keeps(k, n)
    /\ \A c \in Call : answer'[c] # None =>
           answer'[c] = answer[c] /\ \A i \in k + 1 .. Len(stack) : stack[i].call # c
    /\ \A c \in Reads' :
           /\ \A i \in k + 1 .. k + n : stack'[i].call = c => stack'[i].kind = "prompt"
           /\ c \in Reads \/ \A i \in 1 .. k : stack[i].call # c
    /\ UNCHANGED <<waiters, due>>

LEMMA AnswerTaken ==
    ASSUME TypeOK, Taken
    PROVE  \A c \in Call : answer'[c] # None => answer'[c] = answer[c] /\ c # Top.call
BY DEF Taken, TypeOK

LEMMA WorkerLeaves ==
    ASSUME SharedChannelAssumption, TypeOK, StackInv, WorkerMoves
    PROVE  /\ \E k, n \in Nat : Leaves(k, n)
           /\ \A c \in Call : ReadConsole(c) => Leaves(Len(stack), 1)
           /\ \A c \in Call : StartEvents(c) => Leaves(Len(stack), 1)
           /\ \A m \in Message : GetLine(m) => \E n \in Nat : Leaves(Len(stack) - 1, n)
           /\ \A m \in Message : GetRequest(m) => Leaves(Len(stack) - 1, 2)
           /\ FinishLine => Leaves(Len(stack) - 1, 0)
           /\ \A c \in Call : FinishRequest(c) => Leaves(Len(stack) - 2, 1)
           /\ \A e \in Event, c \in Call : HandleEvent(e, c) => Leaves(Len(stack) - 1, 1)
           /\ EndEvents => Leaves(Len(stack) - 1, 0)
<1>0. Len(stack) \in Nat /\ stack \in Seq(Frame) /\ None \notin Call
  BY DEF TypeOK, SharedChannelAssumption
<1>1. UNCHANGED <<waiters, due>>
  BY DEF WorkerMoves, WorkerStep, ReadConsole, StartEvents, GetLine, GetRequest, FinishLine,
         FinishRequest, HandleEvent, EndEvents, HandleInterrupt, mainVars
<1>2. Reads \subseteq Call
  <2>1. ToSet(waiters) \subseteq Call
    BY SetOfSeq DEF TypeOK
  <2>2. \A d \in ToSet(due) : d.call \in Call
    <3> DEFINE T == [call : Call, message : Message]
    <3>1. due \in Seq(T)
      BY DEF TypeOK
    <3>2. \A d \in T : d.call \in Call
      OBVIOUS
    <3> HIDE DEF T
    <3>3. ToSet(due) \subseteq T
      BY <3>1, SetOfSeq
    <3> QED BY <3>2, <3>3
  <2>3. \A p \in ToSet(toMain) : p.type = "read" => p.call \in Call
    <3>1. ToSet(toMain) \subseteq Post
      BY SetOfSeq DEF TypeOK
    <3>2. \A p \in Post : p.type = "read" => p.call \in Call
      BY DEF Post
    <3> QED BY <3>1, <3>2
  <2> QED BY <2>1, <2>2, <2>3 DEF Reads
<1>3. ASSUME NEW p \in ToSet(<<>>) PROVE FALSE
  BY <1>3 DEF ToSet
<1>4. ASSUME stack # <<>>
      PROVE  /\ Len(stack) - 1 \in Nat
             /\ \A i \in Len(stack) - 1 + 1 .. Len(stack) : stack[i] = Top
  <2>1. Len(stack) >= 1 /\ Top = stack[Len(stack)]
    BY <1>0, <1>4, TopFacts
  <2> QED BY <1>0, <2>1
<1>5. ASSUME UNCHANGED toMain PROVE Reads' = Reads
  BY <1>1, <1>5 DEF Reads
<1>6. ASSUME NEW c \in Call, ReadConsole(c) PROVE Leaves(Len(stack), 1)
  <2>1. Keeps(Len(stack), 1) /\ stack'[Len(stack) + 1] = Prompt(c) /\ UNCHANGED answer
    BY <1>0, <1>6, Shapes DEF ReadConsole
  <2>2. Ask("read", c, <<>>) /\ NewCall(c)
    BY <1>6 DEF ReadConsole, Ask
  <2>3. Reads' = Reads \cup {c}
    BY <1>1, <1>3, <2>2, AskRead, NoPosts
  <2>4. Prompt(c).kind = "prompt"
    BY DEF Prompt
  <2> QED BY <1>0, <1>1, <2>1, <2>2, <2>3, <2>4, FreshCall DEF Leaves
<1>7. ASSUME NEW c \in Call, StartEvents(c) PROVE Leaves(Len(stack), 1)
  <2>1. Keeps(Len(stack), 1) /\ stack'[Len(stack) + 1] = Events(c) /\ UNCHANGED answer
    BY <1>0, <1>7, Shapes DEF StartEvents
  <2>2. Ask("event", c, <<>>) /\ NewCall(c)
    BY <1>7 DEF StartEvents, Ask
  <2>3. Reads' = Reads
    BY <1>1, <2>2, AskEvent
  <2>4. Events(c).call = c /\ c \notin Reads
    BY <2>2, FreshCall DEF Events
  <2> QED BY <1>0, <1>1, <2>1, <2>3, <2>4 DEF Leaves
<1>8. ASSUME NEW m \in Message, GetLine(m) PROVE \E n \in Nat : Leaves(Len(stack) - 1, n)
  <2>1. Taken /\ stack # <<>> /\ UNCHANGED toMain
    BY <1>8 DEF GetLine, TopIs
  <2>2. \A c \in Call : answer'[c] # None =>
           answer'[c] = answer[c] /\ \A i \in Len(stack) - 1 + 1 .. Len(stack) : stack[i].call # c
    BY <1>4, <2>1, AnswerTaken
  <2>3. CASE Keeps(Len(stack) - 1, 0)
    <3>1. Leaves(Len(stack) - 1, 0)
      BY <1>1, <1>4, <1>5, <2>1, <2>2, <2>3 DEF Leaves
    <3> QED BY <3>1
  <2>4. CASE Keeps(Len(stack) - 1, 1) /\ stack'[Len(stack)] = Eval(m)
    <3>1. Eval(m).call \notin Reads
      BY <1>0, <1>2 DEF Eval
    <3>2. Leaves(Len(stack) - 1, 1)
      BY <1>0, <1>1, <1>4, <1>5, <2>1, <2>2, <2>4, <3>1 DEF Leaves
    <3> QED BY <3>2
  <2> QED BY <1>0, <1>8, <2>3, <2>4, Shapes
<1>9. ASSUME NEW m \in Message, GetRequest(m) PROVE Leaves(Len(stack) - 1, 2)
  <2>1. Taken /\ stack # <<>> /\ UNCHANGED toMain
    BY <1>9 DEF GetRequest, TopIs
  <2>2. \A c \in Call : answer'[c] # None =>
           answer'[c] = answer[c] /\ \A i \in Len(stack) - 1 + 1 .. Len(stack) : stack[i].call # c
    BY <1>4, <2>1, AnswerTaken
  <2>3. Keeps(Len(stack) - 1, 2) /\ stack'[Len(stack)] = Prompt(None) /\ stack'[Len(stack) + 1] = Eval(m)
    BY <1>0, <1>9, Shapes
  <2>4. Eval(m).call \notin Reads /\ Prompt(None).call \notin Reads
    BY <1>0, <1>2 DEF Eval, Prompt
  <2>5. \A i \in Len(stack) - 1 + 1 .. Len(stack) - 1 + 2 : stack'[i].call \notin Reads
    BY <1>0, <2>3, <2>4
  <2> QED BY <1>0, <1>1, <1>4, <1>5, <2>1, <2>2, <2>3, <2>5 DEF Leaves
<1>10. ASSUME FinishLine PROVE Leaves(Len(stack) - 1, 0)
  <2>1. stack # <<>> /\ Top.kind = "eval" /\ UNCHANGED <<toMain, answer>>
    BY <1>10 DEF FinishLine, TopIs
  <2>2. Top.call = None
    BY <1>0, <2>1, TopFacts DEF StackInv, WellFormed
  <2>3. Keeps(Len(stack) - 1, 0)
    BY <1>0, <1>10, Shapes
  <2> QED BY <1>0, <1>1, <1>4, <1>5, <2>1, <2>2, <2>3 DEF Leaves
<1>11. ASSUME NEW c \in Call, FinishRequest(c) PROVE Leaves(Len(stack) - 2, 1)
  <2>1. stack # <<>> /\ Top.kind = "eval" /\ Top.item \in Request /\ UNCHANGED answer
        /\ Ask("read", c, <<Response(Top.item)>>)
    BY <1>11 DEF FinishRequest, TopIs
  <2>2. Top.call = None /\ Top = stack[Len(stack)]
    BY <1>0, <2>1, TopFacts DEF StackInv, WellFormed
  <2>3. /\ Len(stack) > 1 /\ stack[Len(stack) - 1] = Prompt(None)
        /\ Keeps(Len(stack) - 2, 1) /\ stack'[Len(stack) - 1] = Prompt(c)
    BY <1>0, <1>11, Shapes
  <2>4. Prompt(None).call = None /\ Prompt(c).kind = "prompt"
    BY DEF Prompt
  <2>5. \A i \in Len(stack) - 2 + 1 .. Len(stack) : stack[i].call = None
    BY <1>0, <2>2, <2>3, <2>4
  <2>6. Reads' = Reads \cup {c} /\ NewCall(c)
    <3>1. Response(Top.item) \in Post /\ Response(Top.item).type = "response"
      BY <2>1 DEF Response, Post
    <3> DEFINE r == Response(Top.item)
    <3>2. r \in Post /\ r.type = "response" /\ Ask("read", c, <<r>>)
      BY <2>1, <3>1
    <3> HIDE DEF r
    <3>3. <<r>> \in Seq(Post) /\ \A p \in ToSet(<<r>>) : p = r
      BY <3>2 DEF ToSet
    <3> QED BY <1>1, <3>2, <3>3, AskRead DEF Ask
  <2>7. Len(stack) - 2 \in Nat
    BY <1>0, <2>3
  <2> QED BY <1>0, <1>1, <2>1, <2>3, <2>4, <2>5, <2>6, <2>7, FreshCall DEF Leaves
<1>12. ASSUME NEW e \in Event, NEW c \in Call, HandleEvent(e, c) PROVE Leaves(Len(stack) - 1, 1)
  <2>1. Taken /\ stack # <<>> /\ Ask("event", c, <<>>) /\ NewCall(c)
    BY <1>12 DEF HandleEvent, TopIs, Ask
  <2>2. \A b \in Call : answer'[b] # None =>
           answer'[b] = answer[b] /\ \A i \in Len(stack) - 1 + 1 .. Len(stack) : stack[i].call # b
    BY <1>4, <2>1, AnswerTaken
  <2>3. Keeps(Len(stack) - 1, 1) /\ stack'[Len(stack)] = Events(c)
    BY <1>0, <1>12, Shapes
  <2>4. Reads' = Reads
    BY <1>1, <2>1, AskEvent
  <2>5. Events(c).call = c /\ c \notin Reads
    BY <2>1, FreshCall DEF Events
  <2> QED BY <1>0, <1>1, <1>4, <2>1, <2>2, <2>3, <2>4, <2>5 DEF Leaves
<1>13. ASSUME EndEvents PROVE Leaves(Len(stack) - 1, 0)
  <2>1. Taken /\ stack # <<>> /\ UNCHANGED toMain
    BY <1>13 DEF EndEvents, TopIs
  <2>2. \A c \in Call : answer'[c] # None =>
           answer'[c] = answer[c] /\ \A i \in Len(stack) - 1 + 1 .. Len(stack) : stack[i].call # c
    BY <1>4, <2>1, AnswerTaken
  <2>3. Keeps(Len(stack) - 1, 0)
    BY <1>0, <1>13, Shapes
  <2> QED BY <1>1, <1>4, <1>5, <2>1, <2>2, <2>3 DEF Leaves
<1>14. ASSUME NEW k \in 0 .. MaxDepth, HandleInterrupt(k) PROVE k \in Nat /\ Leaves(k, 0)
  <2>1. Keeps(k, 0) /\ k \in Nat
    BY <1>0, <1>14, Shapes DEF SharedChannelAssumption
  <2>2. k \in 0 .. Len(stack)
    BY <2>1 DEF Keeps
  <2>3. answer' = [c \in Call |-> IF c \in Gone(k) THEN None ELSE answer[c]]
    BY <1>14 DEF HandleInterrupt, Gone
  <2>4. \A c \in Call : answer'[c] # None =>
           answer'[c] = answer[c] /\ \A i \in k + 1 .. Len(stack) : stack[i].call # c
    BY <1>0, <2>2, <2>3, GoneCalls
  <2>5. Reads' = Reads
    <3>1. PICK u \in Unwindings(k) : toMain' = toMain \o AnswerUnwound(u)
      BY <1>14 DEF HandleInterrupt
    <3> DEFINE r == AnswerUnwound(u)
    <3>2. r \in Seq(Post) /\ \A i \in 1 .. Len(r) : r[i].type = "response"
      BY <2>1, UnwoundTypes
    <3>3. toMain' = toMain \o r
      BY <3>1
    <3> HIDE DEF r
    <3>4. ToSet(toMain') = ToSet(toMain) \cup ToSet(r) /\ \A p \in ToSet(r) : p.type = "response"
      <4>1. toMain \in Seq(Post)
        BY DEF TypeOK
      <4>2. ToSet(toMain \o r) = ToSet(toMain) \cup ToSet(r)
        BY <3>2, <4>1, SetOfConcat
      <4>3. ToSet(r) = {r[i] : i \in 1 .. Len(r)}
        BY <3>2, SetOfSeq
      <4> QED BY <3>2, <3>3, <4>2, <4>3
    <3>5. {x \in ToSet(toMain') : x.type = "read"} = {x \in ToSet(toMain) : x.type = "read"}
      BY <3>4
    <3> QED BY <1>1, <3>5 DEF Reads
  <2> QED BY <1>1, <2>1, <2>4, <2>5 DEF Leaves
<1>15. ASSUME NEW k, NEW n, Leaves(k, n) PROVE \E i, j \in Nat : Leaves(i, j)
  BY <1>15 DEF Leaves
<1>16. \E k, n \in Nat : Leaves(k, n)
  BY <1>6, <1>7, <1>8, <1>9, <1>10, <1>11, <1>12, <1>13, <1>14, <1>15 DEF WorkerMoves, WorkerStep
<1> QED BY <1>6, <1>7, <1>8, <1>9, <1>10, <1>11, <1>12, <1>13, <1>16

LEMMA CallsLeft ==
    ASSUME TypeOK, CallInv, NEW k, NEW n, Leaves(k, n)
    PROVE  CallInv'
<1>1. /\ k \in 0 .. Len(stack) /\ Len(stack') = k + n /\ k \in Nat /\ n \in Nat
      /\ \A i \in 1 .. k : stack'[i] = stack[i]
  BY DEF Leaves, Keeps
<1>2. Len(stack) \in Nat
  BY DEF TypeOK
<1>3. ASSUME NEW c \in Call, answer'[c] # None
      PROVE  \E i \in 1 .. Len(stack') : /\ stack'[i].call = c
                                         /\ answer'[c] \in Message => stack'[i].kind = "prompt"
  <2>1. answer'[c] = answer[c] /\ \A i \in k + 1 .. Len(stack) : stack[i].call # c
    BY <1>3 DEF Leaves
  <2>2. PICK i \in 1 .. Len(stack) : /\ stack[i].call = c
                                     /\ answer[c] \in Message => stack[i].kind = "prompt"
    BY <1>3, <2>1 DEF CallInv
  <2>3. i \in 1 .. k /\ i \in 1 .. Len(stack')
    BY <1>1, <1>2, <2>1, <2>2
  <2> QED BY <1>1, <2>1, <2>2, <2>3
<1>4. ASSUME NEW c \in Reads', NEW i \in 1 .. Len(stack'), stack'[i].call = c
      PROVE  stack'[i].kind = "prompt"
  <2>1. CASE i \in 1 .. k
    <3>1. stack'[i] = stack[i] /\ i \in 1 .. Len(stack)
      BY <1>1, <1>2, <2>1
    <3>2. c \in Reads
      BY <1>4, <2>1, <3>1 DEF Leaves
    <3> QED BY <1>4, <3>1, <3>2 DEF CallInv
  <2>2. CASE i \in k + 1 .. k + n
    BY <1>4, <2>2 DEF Leaves
  <2> QED BY <1>1, <2>1, <2>2
<1> QED BY <1>3, <1>4 DEF CallInv

LEMMA LiveFrames ==
    ASSUME TypeOK, NEW c \in LiveCalls
    PROVE  \E i \in 1 .. Len(stack) : stack[i].call = c
BY SetOfSeq DEF LiveCalls, TypeOK

LEMMA AnswerGiven ==
    ASSUME TypeOK, CallInv, UNCHANGED stack, Reads' \subseteq Reads,
           NEW a, NEW c, answer' = [answer EXCEPT ![c] = a],
           \E i \in 1 .. Len(stack) :
               /\ stack[i].call = c
               /\ a \in Message => stack[i].kind = "prompt"
    PROVE  CallInv'
<1>1. ASSUME NEW b \in Call, answer'[b] # None
      PROVE  \E i \in 1 .. Len(stack') : /\ stack'[i].call = b
                                         /\ answer'[b] \in Message => stack'[i].kind = "prompt"
  <2>1. CASE b = c
    BY <2>1 DEF TypeOK
  <2>2. CASE b # c
    <3>1. answer'[b] = answer[b]
      BY <2>2 DEF TypeOK
    <3> QED BY <1>1, <3>1 DEF CallInv
  <2> QED BY <2>1, <2>2
<1>2. \A b \in Reads' : \A i \in 1 .. Len(stack') : stack'[i].call = b => stack'[i].kind = "prompt"
  BY DEF CallInv
<1> QED BY <1>1, <1>2 DEF CallInv

LEMMA CallsOutside ==
    ASSUME SharedChannelAssumption, TypeOK, CallInv, MainStep \/ UserStep
    PROVE  CallInv'
<1>1. UNCHANGED stack /\ Reads' \subseteq Reads
  BY UserTypes, MainTypes, OutsideCalls
<1>2. ASSUME UNCHANGED answer PROVE CallInv'
  BY <1>1, <1>2 DEF CallInv
<1>3. CASE ResumeRead
  <2>1. ASSUME Head(due).call \in LiveCalls, answer' = [answer EXCEPT ![Head(due).call] = Head(due).message]
        PROVE  CallInv'
    <3>1. due # <<>>
      BY <1>3 DEF ResumeRead
    <3>2. Head(due) \in ToSet(due)
      BY <3>1, SetOfTail DEF TypeOK
    <3>3. Head(due).call \in Reads
      BY <3>2 DEF Reads
    <3>4. \E i \in 1 .. Len(stack) : stack[i].call = Head(due).call /\ stack[i].kind = "prompt"
      BY <2>1, <3>3, LiveFrames DEF CallInv
    <3> QED BY <1>1, <2>1, <3>4, AnswerGiven
  <2> QED BY <1>2, <1>3, <2>1 DEF ResumeRead
<1>4. CASE ReceiveEvent
  <2> DEFINE e == IF eventQueue = <<>> THEN NoEvent ELSE Head(eventQueue)
             c == Head(toMain).call
  <2>1. \/ UNCHANGED answer
        \/ c \in LiveCalls /\ answer' = [answer EXCEPT ![c] = e]
    BY <1>4 DEF ReceiveEvent
  <2>2. e \in Event \cup {Interrupt, NoEvent}
    BY DEF TypeOK
  <2>3. e \notin Message
    BY <2>2 DEF Message, SharedChannelAssumption
  <2> HIDE DEF e, c
  <2>4. ASSUME c \in LiveCalls, answer' = [answer EXCEPT ![c] = e] PROVE CallInv'
    <3>1. \E i \in 1 .. Len(stack) : stack[i].call = c /\ (e \in Message => stack[i].kind = "prompt")
      BY <2>3, <2>4, LiveFrames
    <3> QED BY <1>1, <2>4, <3>1, AnswerGiven
  <2> QED BY <1>2, <2>1, <2>4
<1>5. CASE ReceiveRead \/ ReceiveResponse \/ UserStep
  <2>1. UNCHANGED answer
    BY <1>5 DEF ReceiveRead, ReceiveResponse, UserStep, Write, RequestClosed, Emit, RequestInterrupt, Close
  <2> QED BY <1>2, <2>1
<1> QED BY <1>3, <1>4, <1>5 DEF MainStep

LEMMA CallsKept ==
    ASSUME SharedChannelAssumption, TypeOK, StackInv, CallInv, [Next]_vars
    PROVE  CallInv'
<1>1. CASE UNCHANGED vars
  BY <1>1 DEF vars, mainVars, CallInv, Reads
<1>2. CASE WorkerMoves
  BY <1>2, WorkerLeaves, CallsLeft
<1> QED BY <1>1, <1>2, Steps, CallsOutside

LEMMA InitCalls == Init => CallInv
<1> SUFFICES ASSUME Init PROVE CallInv
  OBVIOUS
<1>1. Reads = {}
  <2>1. ToSet(<<>>) = {}
    BY DEF ToSet
  <2> QED BY <2>1 DEF Init, Reads
<1>2. \A c \in Call : answer[c] = None
  BY DEF Init
<1> QED BY <1>1, <1>2 DEF CallInv

(* Only one call has been answered with a message. *)
LEMMA OneAnswer ==
    ASSUME TypeOK, StackInv, CallInv, SharedChannelAssumption,
           NEW b \in Call, NEW c \in Call, answer[b] \in Message, answer[c] \in Message
    PROVE  b = c
<1>1. None \notin Message /\ None \notin Call
  BY DEF Message, SharedChannelAssumption
<1>2. PICK i \in 1 .. Len(stack) : stack[i].call = b /\ stack[i].kind = "prompt"
  BY <1>1 DEF CallInv
<1>3. PICK j \in 1 .. Len(stack) : stack[j].call = c /\ stack[j].kind = "prompt"
  BY <1>1 DEF CallInv
<1>4. Asking(stack[i]) /\ Asking(stack[j])
  BY <1>1, <1>2, <1>3 DEF Asking
<1>5. Len(stack) \in Nat
  BY DEF TypeOK
<1>6. ~ (i < j) /\ ~ (j < i)
  BY <1>2, <1>3, <1>4, <1>5 DEF StackInv
<1> QED BY <1>2, <1>3, <1>6

-----------------------------------------------------------------------------
(* The order of the messages.                                              *)

Precedes(w, x, y) == \E i, j \in 1 .. Len(w) : i < j /\ w[i] = x /\ w[j] = y
AllPrecede(w, X, Y) == \A x \in X, y \in Y : Precedes(w, x, y)
InOrder(w, q) == \A i, j \in 1 .. Len(q) : i < j => Precedes(w, q[i], q[j])
DueInOrder(w, q) == \A i, j \in 1 .. Len(q) : i < j => Precedes(w, q[i].message, q[j].message)

Answered == {answer[c] : c \in Call} \cap Message
DueMessages == {d.message : d \in ToSet(due)}

(* Every message is written once; what the worker has got precedes what it *)
(* has been answered, that what a read will be answered, and that what is  *)
(* stored, each of these in order.  Nothing is stored while a read waits.  *)
OrderInv ==
    /\ \A i, j \in 1 .. Len(written) : written[i] = written[j] => i = j
    /\ ToSet(consumed) \cup Answered \cup DueMessages \cup ToSet(inputQueue) \subseteq ToSet(written)
    /\ InOrder(written, consumed) /\ DueInOrder(written, due) /\ InOrder(written, inputQueue)
    /\ AllPrecede(written, ToSet(consumed), Answered \cup DueMessages \cup ToSet(inputQueue))
    /\ AllPrecede(written, Answered, DueMessages \cup ToSet(inputQueue))
    /\ AllPrecede(written, DueMessages, ToSet(inputQueue))
    /\ waiters = <<>> \/ inputQueue = <<>>

LEMMA AppendPrecedes ==
    ASSUME NEW S, NEW w \in Seq(S), NEW m \in S
    PROVE  /\ \A x, y : Precedes(w, x, y) => Precedes(Append(w, m), x, y)
           /\ \A x \in ToSet(w) : Precedes(Append(w, m), x, m)
<1> DEFINE v == Append(w, m)
<1>1. /\ Len(w) \in Nat /\ Len(v) = Len(w) + 1 /\ v[Len(w) + 1] = m
      /\ \A i \in 1 .. Len(w) : v[i] = w[i]
      /\ ToSet(w) = {w[i] : i \in 1 .. Len(w)}
  BY SetOfSeq
<1> HIDE DEF v
<1>2. \A i \in 1 .. Len(w) : i \in 1 .. Len(v) /\ i < Len(v)
  BY <1>1
<1>3. Len(v) \in 1 .. Len(v) /\ v[Len(v)] = m
  BY <1>1
<1>4. ASSUME NEW x, NEW y, Precedes(w, x, y) PROVE Precedes(v, x, y)
  BY <1>1, <1>2, <1>4 DEF Precedes
<1>5. ASSUME NEW x \in ToSet(w) PROVE Precedes(v, x, m)
  BY <1>1, <1>2, <1>3 DEF Precedes
<1> QED BY <1>4, <1>5 DEF v

LEMMA AppendInOrder ==
    ASSUME NEW w, NEW S, NEW q \in Seq(S), NEW m, InOrder(w, q), \A x \in ToSet(q) : Precedes(w, x, m)
    PROVE  InOrder(w, Append(q, m))
<1> DEFINE v == Append(q, m)
<1>1. /\ Len(q) \in Nat /\ Len(v) = Len(q) + 1 /\ v[Len(q) + 1] = m
      /\ \A i \in 1 .. Len(q) : v[i] = q[i]
      /\ ToSet(q) = {q[i] : i \in 1 .. Len(q)}
  BY SetOfSeq
<1> HIDE DEF v
<1>2. ASSUME NEW i \in 1 .. Len(v), NEW j \in 1 .. Len(v), i < j PROVE Precedes(w, v[i], v[j])
  <2>1. i \in 1 .. Len(q)
    BY <1>1, <1>2
  <2>2. CASE j \in 1 .. Len(q)
    BY <1>1, <1>2, <2>1, <2>2 DEF InOrder
  <2>3. CASE j = Len(q) + 1
    BY <1>1, <2>1, <2>3
  <2> QED BY <1>1, <2>2, <2>3
<1> QED BY <1>2 DEF InOrder, v

LEMMA TailInOrder ==
    ASSUME NEW w, NEW S, NEW q \in Seq(S), q # <<>>, InOrder(w, q)
    PROVE  InOrder(w, Tail(q)) /\ \A x \in ToSet(Tail(q)) : Precedes(w, Head(q), x)
<1> DEFINE v == Tail(q)
<1>1. /\ Len(q) \in Nat /\ Len(q) >= 1 /\ v \in Seq(S) /\ Len(v) = Len(q) - 1
      /\ Head(q) = q[1] /\ \A i \in 1 .. Len(v) : v[i] = q[i + 1]
  OBVIOUS
<1> HIDE DEF v
<1>2. \A i \in 1 .. Len(v) : i + 1 \in 1 .. Len(q) /\ 1 < i + 1
  BY <1>1
<1>3. 1 \in 1 .. Len(q) /\ Len(v) \in Nat
  BY <1>1
<1>4. \A i, j \in 1 .. Len(v) : i < j => i + 1 < j + 1
  BY <1>3
<1>5. InOrder(w, v)
  BY <1>1, <1>2, <1>4 DEF InOrder
<1>6. ToSet(v) = {v[i] : i \in 1 .. Len(v)}
  BY <1>1, SetOfSeq
<1>7. \A i \in 1 .. Len(v) : Precedes(w, q[1], q[i + 1])
  BY <1>2, <1>3 DEF InOrder
<1> QED BY <1>1, <1>5, <1>6, <1>7 DEF v

LEMMA AppendDue ==
    ASSUME NEW w, NEW S, NEW q \in Seq(S), NEW d, DueInOrder(w, q),
           \A x \in ToSet(q) : Precedes(w, x.message, d.message)
    PROVE  DueInOrder(w, Append(q, d))
<1> DEFINE v == Append(q, d)
<1>1. /\ Len(q) \in Nat /\ Len(v) = Len(q) + 1 /\ v[Len(q) + 1] = d
      /\ \A i \in 1 .. Len(q) : v[i] = q[i]
      /\ ToSet(q) = {q[i] : i \in 1 .. Len(q)}
  BY SetOfSeq
<1> HIDE DEF v
<1>2. ASSUME NEW i \in 1 .. Len(v), NEW j \in 1 .. Len(v), i < j
      PROVE  Precedes(w, v[i].message, v[j].message)
  <2>1. i \in 1 .. Len(q)
    BY <1>1, <1>2
  <2>2. CASE j \in 1 .. Len(q)
    BY <1>1, <1>2, <2>1, <2>2 DEF DueInOrder
  <2>3. CASE j = Len(q) + 1
    BY <1>1, <2>1, <2>3
  <2> QED BY <1>1, <2>2, <2>3
<1> QED BY <1>2 DEF DueInOrder, v

LEMMA TailDue ==
    ASSUME NEW w, NEW S, NEW q \in Seq(S), q # <<>>, DueInOrder(w, q)
    PROVE  DueInOrder(w, Tail(q)) /\ \A x \in ToSet(Tail(q)) : Precedes(w, Head(q).message, x.message)
<1> DEFINE v == Tail(q)
<1>1. /\ Len(q) \in Nat /\ Len(q) >= 1 /\ v \in Seq(S) /\ Len(v) = Len(q) - 1
      /\ Head(q) = q[1] /\ \A i \in 1 .. Len(v) : v[i] = q[i + 1]
  OBVIOUS
<1> HIDE DEF v
<1>2. \A i \in 1 .. Len(v) : i + 1 \in 1 .. Len(q) /\ 1 < i + 1
  BY <1>1
<1>3. 1 \in 1 .. Len(q) /\ Len(v) \in Nat
  BY <1>1
<1>4. \A i, j \in 1 .. Len(v) : i < j => i + 1 < j + 1
  BY <1>3
<1>5. DueInOrder(w, v)
  BY <1>1, <1>2, <1>4 DEF DueInOrder
<1>6. ToSet(v) = {v[i] : i \in 1 .. Len(v)}
  BY <1>1, SetOfSeq
<1>7. \A i \in 1 .. Len(v) : Precedes(w, q[1].message, q[i + 1].message)
  BY <1>2, <1>3 DEF DueInOrder
<1> QED BY <1>1, <1>5, <1>6, <1>7 DEF v

LEMMA EmptyInOrder == \A w : InOrder(w, <<>>) /\ DueInOrder(w, <<>>) /\ ToSet(<<>>) = {}
BY DEF InOrder, DueInOrder, ToSet

LEMMA InitOrder == SharedChannelAssumption /\ Init => OrderInv
<1> SUFFICES ASSUME SharedChannelAssumption, Init PROVE OrderInv
  OBVIOUS
<1>1. Answered = {}
  BY DEF Answered, Init, Message, SharedChannelAssumption
<1>2. DueMessages = {}
  BY EmptyInOrder DEF DueMessages, Init
<1> QED BY <1>1, <1>2, EmptyInOrder DEF OrderInv, Init, AllPrecede

(* A step that writes, reads and stores nothing, and answers no read.      *)
LEMMA OrderUntouched ==
    ASSUME OrderInv, UNCHANGED <<written, consumed, due, inputQueue>>, Answered' \subseteq Answered,
           waiters' = <<>> \/ inputQueue = <<>>
    PROVE  OrderInv'
BY DEF OrderInv, AllPrecede, DueMessages

LEMMA WriteOrder ==
    ASSUME TypeOK, OrderInv, NEW m \in Message, Write(m)
    PROVE  OrderInv'
<1>1. /\ m \notin ToSet(written) /\ written' = Append(written, m) /\ UNCHANGED <<answer, consumed>>
      /\ \/ /\ waiters # <<>> /\ due' = Append(due, [call |-> Head(waiters), message |-> m])
            /\ UNCHANGED inputQueue
         \/ waiters = <<>> /\ inputQueue' = Append(inputQueue, m) /\ UNCHANGED <<due, waiters>>
  BY DEF Write, Put, Store, SomebodyReads, ShiftWaiters
<1>2. written \in Seq(Message) /\ consumed \in Seq(Message) /\ inputQueue \in Seq(Message)
  BY DEF TypeOK
<1> DEFINE w == Append(written, m)
<1>3. /\ \A x, y : Precedes(written, x, y) => Precedes(w, x, y)
      /\ \A x \in ToSet(written) : Precedes(w, x, m)
      /\ ToSet(w) = ToSet(written) \cup {m}
  BY <1>2, AppendPrecedes, SetOfAppend
<1>4. \A i, j \in 1 .. Len(w) : w[i] = w[j] => i = j
  <2>1. /\ Len(written) \in Nat /\ Len(w) = Len(written) + 1 /\ w[Len(written) + 1] = m
        /\ \A i \in 1 .. Len(written) : w[i] = written[i]
    BY <1>2
  <2>2. \A i \in 1 .. Len(written) : written[i] # m
    BY <1>1, <1>2, SetOfSeq
  <2> HIDE DEF w
  <2> QED BY <2>1, <2>2 DEF OrderInv
<1> HIDE DEF w
<1>5. Answered' = Answered /\ written' = w /\ consumed' = consumed
  BY <1>1 DEF Answered, w
<1>6. InOrder(w, consumed) /\ InOrder(w, inputQueue) /\ DueInOrder(w, due)
  BY <1>3 DEF OrderInv, InOrder, DueInOrder
<1>7. /\ AllPrecede(w, ToSet(consumed), Answered \cup DueMessages \cup ToSet(inputQueue) \cup {m})
      /\ AllPrecede(w, Answered, DueMessages \cup ToSet(inputQueue) \cup {m})
      /\ AllPrecede(w, DueMessages, ToSet(inputQueue) \cup {m})
      /\ AllPrecede(w, ToSet(inputQueue), {m})
  BY <1>3 DEF OrderInv, AllPrecede
<1>8. CASE waiters # <<>> /\ due' = Append(due, [call |-> Head(waiters), message |-> m])
           /\ UNCHANGED inputQueue
  <2> DEFINE d == [call |-> Head(waiters), message |-> m]
  <2>1. inputQueue = <<>> /\ ToSet(inputQueue) = {}
    BY <1>8, EmptyInOrder DEF OrderInv
  <2>2. due' = Append(due, d) /\ d.message = m
    BY <1>8
  <2> HIDE DEF d
  <2>3. ToSet(due') = ToSet(due) \cup {d}
    BY <2>2, SetOfAppend DEF TypeOK
  <2>4. DueMessages' = DueMessages \cup {m}
    BY <2>2, <2>3 DEF DueMessages
  <2>5. DueInOrder(w, due')
    <3>1. \A x \in ToSet(due) : Precedes(w, x.message, d.message)
      BY <1>7, <2>2 DEF AllPrecede, DueMessages
    <3> QED BY <1>6, <2>2, <3>1, AppendDue DEF TypeOK
  <2>6. inputQueue' = <<>> /\ ToSet(inputQueue') = {}
    BY <1>8, <2>1
  <2>7. AllPrecede(w, ToSet(consumed), Answered \cup DueMessages' \cup ToSet(inputQueue'))
    BY <1>7, <2>4, <2>6 DEF AllPrecede
  <2>8. AllPrecede(w, Answered, DueMessages' \cup ToSet(inputQueue'))
        /\ AllPrecede(w, DueMessages', ToSet(inputQueue'))
    BY <1>7, <2>4, <2>6 DEF AllPrecede
  <2>9. ToSet(consumed) \cup Answered \cup DueMessages' \cup ToSet(inputQueue') \subseteq ToSet(w)
    BY <1>3, <2>4, <2>6 DEF OrderInv
  <2> QED BY <1>4, <1>5, <1>6, <2>5, <2>6, <2>7, <2>8, <2>9, EmptyInOrder DEF OrderInv
<1>9. CASE waiters = <<>> /\ inputQueue' = Append(inputQueue, m) /\ UNCHANGED <<due, waiters>>
  <2>1. ToSet(inputQueue') = ToSet(inputQueue) \cup {m}
    BY <1>2, <1>9, SetOfAppend
  <2>2. DueMessages' = DueMessages /\ due' = due /\ waiters' = <<>>
    BY <1>9 DEF DueMessages
  <2>3. InOrder(w, inputQueue')
    BY <1>2, <1>6, <1>7, <1>9, AppendInOrder DEF AllPrecede
  <2>4. /\ AllPrecede(w, ToSet(consumed), Answered \cup DueMessages \cup ToSet(inputQueue'))
        /\ AllPrecede(w, Answered, DueMessages \cup ToSet(inputQueue'))
        /\ AllPrecede(w, DueMessages, ToSet(inputQueue'))
    BY <1>7, <2>1 DEF AllPrecede
  <2>5. ToSet(consumed) \cup Answered \cup DueMessages \cup ToSet(inputQueue') \subseteq ToSet(w)
    BY <1>3, <2>1 DEF OrderInv
  <2> QED BY <1>4, <1>5, <1>6, <2>2, <2>3, <2>4, <2>5 DEF OrderInv
<1> QED BY <1>1, <1>8, <1>9

LEMMA ResumeOrder ==
    ASSUME TypeOK, OrderInv, ResumeRead
    PROVE  OrderInv'
<1> DEFINE d == Head(due)
<1>1. /\ due # <<>> /\ due' = Tail(due) /\ UNCHANGED <<written, consumed, inputQueue, waiters>>
      /\ UNCHANGED answer \/ answer' = [answer EXCEPT ![d.call] = d.message]
  BY DEF ResumeRead
<1> HIDE DEF d
<1>2. ToSet(due) = ToSet(due') \cup {d} /\ DueInOrder(written, due')
      /\ \A x \in ToSet(due') : Precedes(written, d.message, x.message)
  BY <1>1, SetOfTail, TailDue DEF TypeOK, OrderInv, d
<1>3. DueMessages = DueMessages' \cup {d.message}
  BY <1>2 DEF DueMessages
<1>4. Answered' \subseteq Answered \cup {d.message}
  BY <1>1 DEF Answered, TypeOK
<1>5. AllPrecede(written, {d.message}, DueMessages')
  BY <1>2 DEF AllPrecede, DueMessages
<1>6. /\ AllPrecede(written, ToSet(consumed), Answered' \cup DueMessages' \cup ToSet(inputQueue))
      /\ AllPrecede(written, Answered', DueMessages' \cup ToSet(inputQueue))
      /\ AllPrecede(written, DueMessages', ToSet(inputQueue))
  BY <1>3, <1>4, <1>5 DEF OrderInv, AllPrecede
<1>7. ToSet(consumed) \cup Answered' \cup DueMessages' \cup ToSet(inputQueue) \subseteq ToSet(written)
  BY <1>3, <1>4 DEF OrderInv
<1> QED BY <1>1, <1>2, <1>6, <1>7 DEF OrderInv

LEMMA ReceiveReadOrder ==
    ASSUME TypeOK, OrderInv, ReceiveRead
    PROVE  OrderInv'
<1>1. /\ UNCHANGED <<written, consumed, answer>> /\ due = <<>>
      /\ \/ /\ inputQueue # <<>> /\ inputQueue' = Tail(inputQueue) /\ UNCHANGED waiters
            /\ due' = Append(due, [call |-> Head(toMain).call, message |-> Head(inputQueue)])
         \/ inputQueue = <<>> /\ UNCHANGED <<inputQueue, due>>
  BY DEF ReceiveRead, Received, history
<1>2. Answered' = Answered
  BY <1>1 DEF Answered
<1>3. CASE inputQueue = <<>> /\ UNCHANGED <<inputQueue, due>>
  BY <1>1, <1>2, <1>3, OrderUntouched DEF OrderInv, DueMessages
<1>4. CASE /\ inputQueue # <<>> /\ inputQueue' = Tail(inputQueue) /\ UNCHANGED waiters
           /\ due' = Append(due, [call |-> Head(toMain).call, message |-> Head(inputQueue)])
  <2> DEFINE d == [call |-> Head(toMain).call, message |-> Head(inputQueue)]
             m == Head(inputQueue)
  <2>1. d.message = m /\ due' = Append(due, d)
    BY <1>4
  <2> HIDE DEF d
  <2>2. ToSet(due') = ToSet(due) \cup {d} /\ ToSet(due) = {}
    BY <1>1, <2>1, SetOfAppend, EmptyInOrder DEF TypeOK
  <2>3. DueMessages' = {m}
    BY <2>1, <2>2 DEF DueMessages
  <2>4. /\ ToSet(inputQueue) = ToSet(inputQueue') \cup {m} /\ InOrder(written, inputQueue')
        /\ \A x \in ToSet(inputQueue') : Precedes(written, m, x)
    BY <1>4, SetOfTail, TailInOrder DEF TypeOK, OrderInv
  <2> HIDE DEF m
  <2>5. DueInOrder(written, due')
    BY <2>1, <2>2, AppendDue DEF TypeOK, OrderInv
  <2>6. waiters' = <<>>
    BY <1>4 DEF OrderInv
  <2>7. /\ AllPrecede(written, ToSet(consumed), Answered \cup DueMessages' \cup ToSet(inputQueue'))
        /\ AllPrecede(written, Answered, DueMessages' \cup ToSet(inputQueue'))
        /\ AllPrecede(written, DueMessages', ToSet(inputQueue'))
    BY <2>3, <2>4 DEF OrderInv, AllPrecede
  <2>8. ToSet(consumed) \cup Answered \cup DueMessages' \cup ToSet(inputQueue') \subseteq ToSet(written)
    BY <2>3, <2>4 DEF OrderInv
  <2> QED BY <1>1, <1>2, <2>4, <2>5, <2>6, <2>7, <2>8 DEF OrderInv
<1> QED BY <1>1, <1>3, <1>4

(* The worker gets the only message that has been answered. *)
LEMMA GetOrder ==
    ASSUME SharedChannelAssumption, TypeOK, StackInv, CallInv, OrderInv,
           NEW m \in Message, GetLine(m) \/ GetRequest(m)
    PROVE  OrderInv'
<1>1. /\ stack # <<>> /\ Got(m) /\ Taken /\ consumed' = Append(consumed, m)
      /\ UNCHANGED <<written, due, inputQueue, waiters>>
  BY DEF GetLine, GetRequest, TopIs, mainVars
<1> DEFINE c == Top.call
<1>2. c \in Call /\ answer[c] = m
  <2>1. Top \in Frame
    BY <1>1, TopFacts DEF TypeOK
  <2>2. Top.call \in Call \cup {None}
    BY <2>1 DEF Frame
  <2> QED BY <1>1, <2>2 DEF Got
<1>3. \A b \in Call : answer[b] \in Message => b = c
  BY <1>2, OneAnswer
<1>4. answer' = [answer EXCEPT ![c] = None]
  BY <1>1 DEF Taken
<1> HIDE DEF c
<1>5. m \in Answered
  BY <1>2 DEF Answered
<1>6. Answered' = {}
  <2>1. None \notin Message
    BY DEF Message, SharedChannelAssumption
  <2>2. \A b \in Call : answer'[b] \notin Message
    BY <1>3, <1>4, <2>1 DEF TypeOK
  <2> QED BY <2>2 DEF Answered
<1>7. ToSet(consumed') = ToSet(consumed) \cup {m} /\ InOrder(written, consumed')
  <2>1. consumed \in Seq(Message)
    BY DEF TypeOK
  <2>2. \A x \in ToSet(consumed) : Precedes(written, x, m)
    BY <1>5 DEF OrderInv, AllPrecede
  <2> QED BY <1>1, <2>1, <2>2, SetOfAppend, AppendInOrder DEF OrderInv
<1>8. DueMessages' = DueMessages
  BY <1>1 DEF DueMessages
<1>9. /\ AllPrecede(written, ToSet(consumed'), Answered' \cup DueMessages \cup ToSet(inputQueue))
      /\ AllPrecede(written, Answered', DueMessages \cup ToSet(inputQueue))
  BY <1>5, <1>6, <1>7 DEF OrderInv, AllPrecede
<1>10. ToSet(consumed') \cup Answered' \cup DueMessages \cup ToSet(inputQueue) \subseteq ToSet(written)
  BY <1>5, <1>6, <1>7 DEF OrderInv
<1> QED BY <1>1, <1>7, <1>8, <1>9, <1>10 DEF OrderInv

LEMMA OrderKept ==
    ASSUME SharedChannelAssumption, TypeOK, StackInv, CallInv, OrderInv, [Next]_vars
    PROVE  OrderInv'
<1>1. ASSUME UNCHANGED <<written, consumed, due, inputQueue, waiters, answer>> PROVE OrderInv'
  BY <1>1, OrderUntouched DEF Answered, OrderInv
<1>2. CASE MainStep
  <2>1. CASE ReceiveEvent
    <3> DEFINE e == IF eventQueue = <<>> THEN NoEvent ELSE Head(eventQueue)
    <3>1. /\ UNCHANGED answer \/ answer' = [answer EXCEPT ![Head(toMain).call] = e]
          /\ UNCHANGED <<written, consumed, due, inputQueue, waiters>>
      BY <2>1 DEF ReceiveEvent
    <3>2. e \in Event \cup {Interrupt, NoEvent}
      BY DEF TypeOK
    <3>3. e \notin Message
      BY <3>2 DEF Message, SharedChannelAssumption
    <3> HIDE DEF e
    <3>4. Answered' \subseteq Answered
      BY <3>1, <3>3 DEF Answered, TypeOK
    <3> QED BY <3>1, <3>4, OrderUntouched DEF OrderInv
  <2>2. CASE ReceiveResponse
    BY <1>1, <2>2 DEF ReceiveResponse
  <2> QED BY <1>2, <2>1, <2>2, ResumeOrder, ReceiveReadOrder DEF MainStep
<1>3. CASE UserStep
  <2>1. CASE RequestInterrupt
    <3>1. /\ inputQueue' = <<>> /\ waiters' = <<>> /\ UNCHANGED <<written, consumed, due, answer>>
      BY <2>1 DEF RequestInterrupt
    <3>2. Answered' = Answered /\ DueMessages' = DueMessages
      BY <3>1 DEF Answered, DueMessages
    <3> QED BY <3>1, <3>2, EmptyInOrder DEF OrderInv, AllPrecede
  <2>2. ASSUME NEW r \in Request, RequestClosed(r) PROVE OrderInv'
    BY <1>1, <2>2 DEF RequestClosed, history
  <2>3. ASSUME NEW e \in Event, Emit(e) PROVE OrderInv'
    BY <1>1, <2>3 DEF Emit, history
  <2>4. CASE Close
    BY <1>1, <2>4 DEF Close, history
  <2> QED BY <1>3, <2>1, <2>2, <2>3, <2>4, WriteOrder DEF UserStep
<1>4. CASE WorkerMoves
  <2>1. CASE \E m \in Message : GetLine(m) \/ GetRequest(m)
    BY <2>1, GetOrder
  <2>2. CASE ~ \E m \in Message : GetLine(m) \/ GetRequest(m)
    <3>1. UNCHANGED <<written, consumed, due, inputQueue, waiters>>
      BY <1>4, <2>2 DEF WorkerMoves, WorkerStep, ReadConsole, StartEvents, FinishLine,
         FinishRequest, HandleEvent, EndEvents, HandleInterrupt, mainVars, history
    <3>2. \E k, n \in Nat : Leaves(k, n)
      BY <1>4, WorkerLeaves
    <3>3. None \notin Message
      BY DEF Message, SharedChannelAssumption
    <3>4. Answered' \subseteq Answered
      BY <3>2, <3>3 DEF Answered, Leaves
    <3> QED BY <3>1, <3>4, OrderUntouched DEF OrderInv
  <2> QED BY <2>1, <2>2
<1>5. CASE UNCHANGED vars
  BY <1>1, <1>5 DEF vars, mainVars, history
<1> QED BY <1>2, <1>3, <1>4, <1>5, Steps

LEMMA OrderTold ==
    ASSUME TypeOK, OrderInv
    PROVE  ConsumedInOrder
<1> SUFFICES ASSUME NEW i \in 1 .. Len(consumed), NEW j \in 1 .. Len(consumed), i < j
             PROVE  WrittenAt(consumed[i]) < WrittenAt(consumed[j])
  BY DEF ConsumedInOrder
<1>1. PICK a, b \in 1 .. Len(written) : a < b /\ written[a] = consumed[i] /\ written[b] = consumed[j]
  BY DEF OrderInv, InOrder, Precedes
<1>2. ASSUME NEW k \in 1 .. Len(written) PROVE WrittenAt(written[k]) = k
  BY DEF WrittenAt, OrderInv
<1> QED BY <1>1, <1>2

(* The worker gets the messages in the order they were written, whoever    *)
(* writes, reads, interrupts or gives up a read (get() and put() of the    *)
(* input queue, inputOrDispatch(), interrupt()).                           *)
THEOREM MessagesInOrder == Spec => []ConsumedInOrder
<1>1. Init => TypeOK /\ StackInv /\ CallInv /\ OrderInv
  BY InitTypes, InitCalls, InitOrder, SharedChannelAssumption
<1>2. TypeOK /\ StackInv /\ CallInv /\ OrderInv /\ [Next]_vars
        => (TypeOK /\ StackInv /\ CallInv /\ OrderInv)'
  BY TypesKept, CallsKept, OrderKept, SharedChannelAssumption
<1>3. TypeOK /\ StackInv /\ CallInv /\ OrderInv => ConsumedInOrder
  BY OrderTold
<1> QED BY <1>1, <1>2, <1>3, PTL DEF Spec

-----------------------------------------------------------------------------
(* A channel that nobody interrupts.                                       *)

(* At most one read is anywhere on its way, and an event is asked for once *)
(* by a frame.                                                             *)
OneRead ==
    /\ Len(waiters) <= 1 /\ Len(due) <= 1
    /\ waiters = <<>> \/ due = <<>>
    /\ \A i \in 1 .. Len(toMain) : toMain[i].type = "read" => waiters = <<>> /\ due = <<>>
    /\ \A i, j \in 1 .. Len(toMain) : toMain[i].type = "read" /\ toMain[j].type = "read" => i = j

OneEvent ==
    \A i, j \in 1 .. Len(toMain) :
        toMain[i].type = "event" /\ toMain[j].type = "event" /\ toMain[i].call = toMain[j].call
            => i = j

Calm ==
    /\ dropped = {} /\ lost = {} /\ Interrupt \notin ToSet(eventQueue)
    /\ \A c \in Call :
           /\ answer[c] # Interrupt
           /\ answer[c] \in Message => Reads = {}
           /\ c \in EventCalls => answer[c] = None
    /\ Reads \subseteq LiveCalls /\ EventCalls \subseteq LiveCalls /\ Reads \cap EventCalls = {}
    /\ OneRead /\ OneEvent

LEMMA ReadsAre ==
    ASSUME TypeOK
    PROVE  /\ \A i \in 1 .. Len(waiters) : waiters[i] \in Reads
           /\ \A i \in 1 .. Len(due) : due[i].call \in Reads
           /\ \A i \in 1 .. Len(toMain) : toMain[i].type = "read" => toMain[i].call \in Reads
           /\ \A i \in 1 .. Len(toMain) : toMain[i].type = "event" => toMain[i].call \in EventCalls
           /\ Reads = {} => waiters = <<>> /\ due = <<>>
           /\ (waiters = <<>> /\ due = <<>>
                  /\ \A i \in 1 .. Len(toMain) : toMain[i].type # "read") => Reads = {}
           /\ Reads \subseteq Call /\ EventCalls \subseteq Call
<1> DEFINE D == [call : Call, message : Message]
<1>1. due \in Seq(D) /\ waiters \in Seq(Call) /\ toMain \in Seq(Post)
  BY DEF TypeOK
<1>2. \A d \in D : d.call \in Call
  OBVIOUS
<1>3. \A p \in Post : p.type # "response" => p.call \in Call
  BY DEF Post
<1> HIDE DEF D
<1>4. /\ ToSet(due) = {due[i] : i \in 1 .. Len(due)} /\ ToSet(due) \subseteq D
      /\ ToSet(waiters) = {waiters[i] : i \in 1 .. Len(waiters)} /\ ToSet(waiters) \subseteq Call
      /\ ToSet(toMain) = {toMain[i] : i \in 1 .. Len(toMain)} /\ ToSet(toMain) \subseteq Post
  BY <1>1, SetOfSeq
<1>5. /\ \A i \in 1 .. Len(waiters) : waiters[i] \in Reads
      /\ \A i \in 1 .. Len(due) : due[i].call \in Reads
      /\ \A i \in 1 .. Len(toMain) : toMain[i].type = "read" => toMain[i].call \in Reads
      /\ \A i \in 1 .. Len(toMain) : toMain[i].type = "event" => toMain[i].call \in EventCalls
  BY <1>4 DEF Reads, EventCalls
<1>6. Reads \subseteq Call /\ EventCalls \subseteq Call
  BY <1>2, <1>3, <1>4 DEF Reads, EventCalls
<1>7. ASSUME Reads = {} PROVE waiters = <<>> /\ due = <<>>
  <2>1. ASSUME NEW S, NEW q \in Seq(S), \A i \in 1 .. Len(q) : FALSE PROVE q = <<>>
    BY <2>1
  <2>2. (\A i \in 1 .. Len(waiters) : FALSE) /\ (\A i \in 1 .. Len(due) : FALSE)
    BY <1>5, <1>7
  <2> QED BY <1>1, <2>1, <2>2
<1>8. ASSUME waiters = <<>>, due = <<>>, \A i \in 1 .. Len(toMain) : toMain[i].type # "read"
      PROVE  Reads = {}
  BY <1>4, <1>8, EmptyInOrder DEF Reads
<1> QED BY <1>5, <1>6, <1>7, <1>8

LEMMA AskPosts ==
    ASSUME TypeOK, NEW type \in {"read", "event"}, NEW c \in Call,
           NEW posts \in Seq(Post), \A p \in ToSet(posts) : p.type = "response",
           Ask(type, c, posts)
    PROVE  /\ Len(toMain) \in Nat /\ Len(toMain') \in Nat /\ Len(toMain') > Len(toMain)
           /\ \A i \in 1 .. Len(toMain) : toMain'[i] = toMain[i]
           /\ \A i \in Len(toMain) + 1 .. Len(toMain') - 1 : toMain'[i].type = "response"
           /\ toMain'[Len(toMain')] = [type |-> type, call |-> c]
<1> DEFINE p == [type |-> type, call |-> c]
           q == toMain \o posts
<1>1. p \in Post
  BY DEF Post
<1>2. /\ Len(toMain) \in Nat /\ Len(posts) \in Nat /\ q \in Seq(Post)
      /\ Len(q) = Len(toMain) + Len(posts)
      /\ \A i \in 1 .. Len(toMain) : q[i] = toMain[i]
      /\ \A i \in Len(toMain) + 1 .. Len(q) : q[i] = posts[i - Len(toMain)]
  BY DEF TypeOK
<1>3. toMain' = toMain \o posts \o <<p>>
  BY DEF Ask
<1> HIDE DEF p
<1>4. toMain' = Append(q, p)
  BY <1>1, <1>2, <1>3
<1>5. \A i \in 1 .. Len(posts) : posts[i].type = "response"
  BY SetOfSeq
<1> HIDE DEF q
<1>6. \A i \in Len(toMain) + 1 .. Len(q) : q[i].type = "response"
  BY <1>2, <1>5
<1>7. Len(toMain') = Len(q) + 1 /\ toMain'[Len(q) + 1] = p /\ \A i \in 1 .. Len(q) : toMain'[i] = q[i]
  <2>1. q \in Seq(Post)
    BY <1>2
  <2>2. /\ Len(Append(q, p)) = Len(q) + 1 /\ Append(q, p)[Len(q) + 1] = p
        /\ \A i \in 1 .. Len(q) : Append(q, p)[i] = q[i]
    BY <1>1, <2>1, AppendProperties
  <2> QED BY <1>4, <2>2
<1>8. Len(q) \in Nat /\ Len(q) >= Len(toMain)
  BY <1>2
<1>9. Len(toMain') \in Nat /\ Len(toMain') > Len(toMain) /\ Len(toMain') - 1 = Len(q)
  BY <1>2, <1>7, <1>8
<1>10. \A i \in 1 .. Len(toMain) : toMain'[i] = toMain[i]
  BY <1>2, <1>7, <1>8
<1>11. \A i \in Len(toMain) + 1 .. Len(toMain') - 1 : toMain'[i].type = "response"
  <2>1. \A i \in Len(toMain) + 1 .. Len(q) : i \in 1 .. Len(q)
    BY <1>2, <1>8
  <2> QED BY <1>6, <1>7, <1>9, <2>1
<1>12. toMain'[Len(toMain')] = p
  BY <1>7, <1>8
<1> QED BY <1>2, <1>9, <1>10, <1>11, <1>12 DEF p

(* While a frame evaluates, or there is none, nothing reads.               *)
LEMMA NobodyReading ==
    ASSUME SharedChannelAssumption, TypeOK, StackInv, CallInv, Calm,
           stack = <<>> \/ TopIs("eval")
    PROVE  Reads = {} /\ \A c \in Call : answer[c] \notin Message
<1>1. \A i \in 1 .. Len(stack) : ~ Asking(stack[i])
  <2>1. CASE stack = <<>>
    BY <2>1
  <2>2. CASE TopIs("eval")
    BY <2>2, TopFacts DEF TopIs, TypeOK
  <2> QED BY <2>1, <2>2
<1>2. None \notin Call /\ None \notin Message
  BY DEF SharedChannelAssumption, Message
<1>3. ASSUME NEW c \in Reads PROVE FALSE
  <2>1. c \in LiveCalls /\ c \in Call
    BY <1>3, ReadsAre DEF Calm
  <2>2. PICK i \in 1 .. Len(stack) : stack[i].call = c
    BY <2>1, LiveFrames
  <2> QED BY <1>1, <1>2, <1>3, <2>1, <2>2 DEF CallInv, Asking
<1>4. ASSUME NEW c \in Call, answer[c] \in Message PROVE FALSE
  BY <1>1, <1>2, <1>4 DEF CallInv, Asking
<1> QED BY <1>3, <1>4

LEMMA LiveLeft ==
    ASSUME SharedChannelAssumption, TypeOK, NEW k, NEW n, Leaves(k, n)
    PROVE  /\ \A c \in LiveCalls :
                  (\A i \in k + 1 .. Len(stack) : stack[i].call # c) => c \in LiveCalls'
           /\ \A c \in Call : (\E i \in k + 1 .. k + n : stack'[i].call = c) => c \in LiveCalls'
<1>1. /\ k \in Nat /\ n \in Nat /\ k \in 0 .. Len(stack) /\ Len(stack') = k + n
      /\ stack' \in Seq(Frame) /\ \A i \in 1 .. k : stack'[i] = stack[i]
  BY DEF Leaves, Keeps
<1>2. Len(stack) \in Nat
  BY DEF TypeOK
<1>3. ToSet(stack') = {stack'[i] : i \in 1 .. k + n}
  BY <1>1, SetOfSeq
<1>4. ASSUME NEW c \in LiveCalls, \A i \in k + 1 .. Len(stack) : stack[i].call # c
      PROVE  c \in LiveCalls'
  <2>1. PICK i \in 1 .. Len(stack) : stack[i].call = c
    BY LiveFrames
  <2>2. i \in 1 .. k /\ i \in 1 .. k + n
    BY <1>1, <1>2, <1>4, <2>1
  <2>3. c # None
    BY DEF LiveCalls
  <2>4. stack'[i] \in ToSet(stack') /\ stack'[i].call = c
    BY <1>1, <1>3, <2>1, <2>2
  <2> QED BY <2>3, <2>4 DEF LiveCalls
<1>5. ASSUME NEW c \in Call, NEW i \in k + 1 .. k + n, stack'[i].call = c PROVE c \in LiveCalls'
  <2>1. c # None
    BY DEF SharedChannelAssumption
  <2>2. i \in 1 .. k + n
    BY <1>1
  <2> QED BY <1>3, <1>5, <2>1, <2>2 DEF LiveCalls
<1> QED BY <1>4, <1>5

(* The frames a step takes away are of no call that is on its way.         *)
Spares(k) == \A c \in Reads \cup EventCalls, i \in k + 1 .. Len(stack) : stack[i].call # c

LEMMA CalmUnasked ==
    ASSUME SharedChannelAssumption, TypeOK, Calm, NEW k, NEW n, Leaves(k, n), Spares(k),
           UNCHANGED <<dropped, lost, eventQueue, toMain>>
    PROVE  Calm'
<1>1. UNCHANGED <<waiters, due>> /\ \A c \in Call : answer'[c] # None => answer'[c] = answer[c]
  BY DEF Leaves
<1>2. Reads' = Reads /\ EventCalls' = EventCalls
  BY <1>1 DEF Reads, EventCalls
<1>3. OneRead' /\ OneEvent'
  BY <1>1 DEF Calm, OneRead, OneEvent
<1>4. Reads \subseteq LiveCalls' /\ EventCalls \subseteq LiveCalls'
  BY LiveLeft DEF Calm, Spares
<1>5. None # Interrupt /\ None \notin Message
  BY DEF SharedChannelAssumption, Message
<1> QED BY <1>1, <1>2, <1>3, <1>4, <1>5 DEF Calm

LEMMA CalmRead ==
    ASSUME SharedChannelAssumption, TypeOK, Calm, NEW k, NEW n, Leaves(k, n), Spares(k),
           UNCHANGED <<dropped, lost, eventQueue>>, NEW c \in Call,
           NEW posts \in Seq(Post), \A p \in ToSet(posts) : p.type = "response",
           Ask("read", c, posts), \E i \in k + 1 .. k + n : stack'[i].call = c,
           Reads = {}, \A b \in Call : answer[b] \notin Message
    PROVE  Calm'
<1>1. UNCHANGED <<waiters, due>> /\ \A b \in Call : answer'[b] # None => answer'[b] = answer[b]
  BY DEF Leaves
<1>2. Reads' = {c} /\ EventCalls' = EventCalls
  BY <1>1, AskRead
<1>3. waiters = <<>> /\ due = <<>> /\ \A i \in 1 .. Len(toMain) : toMain[i].type # "read"
  BY ReadsAre
<1>4. /\ Len(toMain) \in Nat /\ Len(toMain') \in Nat /\ Len(toMain') > Len(toMain)
      /\ \A i \in 1 .. Len(toMain) : toMain'[i] = toMain[i]
      /\ \A i \in Len(toMain) + 1 .. Len(toMain') - 1 : toMain'[i].type = "response"
      /\ toMain'[Len(toMain')] = [type |-> "read", call |-> c]
  BY AskPosts
<1>5. toMain'[Len(toMain')].type = "read"
  BY <1>4
<1>6. \A i \in 1 .. Len(toMain') :
          i \in 1 .. Len(toMain) \/ i \in Len(toMain) + 1 .. Len(toMain') - 1 \/ i = Len(toMain')
  BY <1>4
<1>7. \A i \in 1 .. Len(toMain') : toMain'[i].type = "read" => i = Len(toMain')
  BY <1>3, <1>4, <1>6
<1>8. \A i \in 1 .. Len(toMain') : toMain'[i].type = "event" => i \in 1 .. Len(toMain)
  BY <1>4, <1>5, <1>6
<1>9. OneRead'
  <2>1. waiters' = <<>> /\ due' = <<>> /\ Len(<<>>) = 0
    BY <1>1, <1>3
  <2> QED BY <1>7, <2>1 DEF OneRead
<1>10. OneEvent'
  BY <1>4, <1>8 DEF Calm, OneEvent
<1>11. {c} \subseteq LiveCalls' /\ EventCalls \subseteq LiveCalls' /\ {c} \cap EventCalls = {}
  <2>1. c \notin EventCalls
    BY FreshCall DEF Ask
  <2> QED BY <2>1, LiveLeft DEF Calm, Spares
<1>12. None # Interrupt /\ None \notin Message
  BY DEF SharedChannelAssumption, Message
<1> QED BY <1>1, <1>2, <1>9, <1>10, <1>11, <1>12 DEF Calm

LEMMA CalmEvent ==
    ASSUME SharedChannelAssumption, TypeOK, CallInv, Calm, NEW k, NEW n, Leaves(k, n), Spares(k),
           UNCHANGED <<dropped, lost, eventQueue>>, NEW c \in Call,
           Ask("event", c, <<>>), \E i \in k + 1 .. k + n : stack'[i].call = c
    PROVE  Calm'
<1>1. UNCHANGED <<waiters, due>> /\ \A b \in Call : answer'[b] # None => answer'[b] = answer[b]
  BY DEF Leaves
<1>2. Reads' = Reads /\ EventCalls' = EventCalls \cup {c}
  BY <1>1, AskEvent
<1>3. c \notin Reads /\ c \notin EventCalls /\ \A i \in 1 .. Len(stack) : stack[i].call # c
  BY FreshCall DEF Ask
<1>4. answer'[c] = None
  BY <1>1, <1>3 DEF CallInv
<1>5. /\ Len(toMain) \in Nat /\ Len(toMain') \in Nat /\ Len(toMain') > Len(toMain)
      /\ \A i \in 1 .. Len(toMain) : toMain'[i] = toMain[i]
      /\ \A i \in Len(toMain) + 1 .. Len(toMain') - 1 : toMain'[i].type = "response"
      /\ toMain'[Len(toMain')] = [type |-> "event", call |-> c]
  <2>1. <<>> \in Seq(Post) /\ \A p \in ToSet(<<>>) : p.type = "response"
    BY EmptyInOrder
  <2> QED BY <2>1, AskPosts
<1>6. toMain'[Len(toMain')].type = "event" /\ toMain'[Len(toMain')].call = c
  BY <1>5
<1>7. \A i \in 1 .. Len(toMain') :
          i \in 1 .. Len(toMain) \/ i \in Len(toMain) + 1 .. Len(toMain') - 1 \/ i = Len(toMain')
  BY <1>5
<1>8. \A i \in 1 .. Len(toMain') : toMain'[i].type = "read" => i \in 1 .. Len(toMain)
  BY <1>5, <1>6, <1>7
<1>9. \A i \in 1 .. Len(toMain') :
          toMain'[i].type = "event" => i \in 1 .. Len(toMain) \/ i = Len(toMain')
  BY <1>5, <1>7
<1>10. OneRead'
  BY <1>1, <1>5, <1>8 DEF Calm, OneRead
<1>11. OneEvent'
  <2>1. \A i \in 1 .. Len(toMain) : toMain[i].type = "event" => toMain[i].call # c
    BY <1>3, ReadsAre
  <2> QED BY <1>5, <1>6, <1>9, <2>1 DEF Calm, OneEvent
<1>12. c \in LiveCalls' /\ Reads \subseteq LiveCalls' /\ EventCalls \subseteq LiveCalls'
  BY LiveLeft DEF Calm, Spares
<1>13. None # Interrupt /\ None \notin Message
  BY DEF SharedChannelAssumption, Message
<1>14. \A b \in Call : b \in EventCalls' => answer'[b] = None
  BY <1>1, <1>2, <1>4 DEF Calm
<1> QED BY <1>1, <1>2, <1>3, <1>10, <1>11, <1>12, <1>13, <1>14 DEF Calm

LEMMA CalmWorker ==
    ASSUME SharedChannelAssumption, TypeOK, StackInv, CallInv, Calm, WorkerMoves
    PROVE  Calm'
<1>0. Len(stack) \in Nat /\ None \notin Call /\ None \notin Message /\ None # Interrupt
      /\ \A e \in Event : e # None /\ e \notin Message
  BY DEF TypeOK, SharedChannelAssumption, Message
<1>1. Reads \cup EventCalls \subseteq Call
  BY ReadsAre
<1>2. Spares(Len(stack))
  BY <1>0 DEF Spares
<1>3. ASSUME stack # <<>>, Top.call \notin Reads \cup EventCalls PROVE Spares(Len(stack) - 1)
  <2>1. \A i \in Len(stack) - 1 + 1 .. Len(stack) : stack[i] = Top
    BY <1>0, <1>3, TopFacts DEF TypeOK
  <2> QED BY <1>3, <2>1 DEF Spares
<1>4. ASSUME NEW m, Got(m), m \in Message, stack # <<>> PROVE Spares(Len(stack) - 1)
  <2>1. Top.call \in Call /\ answer[Top.call] = m
    BY <1>4, TopFacts DEF Got, TypeOK, Frame
  <2>2. Top.call \notin Reads \cup EventCalls
    BY <1>0, <1>4, <2>1 DEF Calm
  <2> QED BY <1>3, <1>4, <2>2
<1>5. ASSUME NEW m, Got(m), m # None, TopIs("events") PROVE Spares(Len(stack) - 1)
  <2>1. Top.call \in Call /\ answer[Top.call] = m /\ stack # <<>> /\ Top.kind = "events"
    BY <1>5, TopFacts DEF Got, TopIs, TypeOK, Frame
  <2>2. Top.call \notin EventCalls
    BY <1>5, <2>1 DEF Calm
  <2>3. Top = stack[Len(stack)] /\ Len(stack) \in 1 .. Len(stack)
    BY <1>0, <2>1, TopFacts DEF TypeOK
  <2>4. Top.call \notin Reads
    BY <2>1, <2>3 DEF CallInv
  <2> QED BY <1>3, <2>1, <2>2, <2>4
<1>6. ASSUME NEW c \in Call, ReadConsole(c) PROVE Calm'
  <2>1. Leaves(Len(stack), 1) /\ Ask("read", c, <<>>) /\ UNCHANGED <<dropped, lost, eventQueue>>
    BY <1>6, WorkerLeaves DEF ReadConsole, mainVars, history
  <2>2. stack'[Len(stack) + 1] = Prompt(c) /\ Prompt(c).call = c
    BY <1>6, Shapes DEF TypeOK, Prompt
  <2>3. Reads = {} /\ \A b \in Call : answer[b] \notin Message
    BY <1>6, NobodyReading DEF ReadConsole
  <2>4. \E i \in Len(stack) + 1 .. Len(stack) + 1 : stack'[i].call = c
    BY <1>0, <2>2
  <2>5. <<>> \in Seq(Post) /\ \A p \in ToSet(<<>>) : p.type = "response"
    BY EmptyInOrder
  <2> QED BY <1>2, <2>1, <2>3, <2>4, <2>5, CalmRead
<1>7. ASSUME NEW c \in Call, StartEvents(c) PROVE Calm'
  <2>1. Leaves(Len(stack), 1) /\ Ask("event", c, <<>>) /\ UNCHANGED <<dropped, lost, eventQueue>>
    BY <1>7, WorkerLeaves DEF StartEvents, mainVars, history
  <2>2. stack'[Len(stack) + 1] = Events(c) /\ Events(c).call = c
    BY <1>7, Shapes DEF TypeOK, Events
  <2>3. \E i \in Len(stack) + 1 .. Len(stack) + 1 : stack'[i].call = c
    BY <1>0, <2>2
  <2> QED BY <1>2, <2>1, <2>3, CalmEvent
<1>8. ASSUME NEW m \in Message, GetLine(m) PROVE Calm'
  <2>1. Got(m) /\ stack # <<>> /\ UNCHANGED <<dropped, lost, eventQueue, toMain>>
    BY <1>8 DEF GetLine, TopIs, mainVars
  <2>2. PICK n \in Nat : Leaves(Len(stack) - 1, n)
    BY <1>8, WorkerLeaves
  <2> QED BY <1>4, <2>1, <2>2, CalmUnasked
<1>9. ASSUME NEW m \in Message, GetRequest(m) PROVE Calm'
  <2>1. Got(m) /\ stack # <<>> /\ UNCHANGED <<dropped, lost, eventQueue, toMain>>
    BY <1>9 DEF GetRequest, TopIs, mainVars
  <2>2. Leaves(Len(stack) - 1, 2)
    BY <1>9, WorkerLeaves
  <2> QED BY <1>4, <2>1, <2>2, CalmUnasked
<1>10. ASSUME stack # <<>>, Top.kind = "eval" PROVE Top.call = None /\ Spares(Len(stack) - 1)
  <2>1. Top.call = None
    BY <1>10, TopFacts DEF StackInv, WellFormed, TypeOK
  <2> QED BY <1>0, <1>1, <1>3, <1>10, <2>1
<1>11. ASSUME FinishLine PROVE Calm'
  <2>1. Spares(Len(stack) - 1) /\ UNCHANGED <<dropped, lost, eventQueue, toMain>>
    BY <1>10, <1>11 DEF FinishLine, TopIs, mainVars, history
  <2>2. Leaves(Len(stack) - 1, 0)
    BY <1>11, WorkerLeaves
  <2> QED BY <2>1, <2>2, CalmUnasked
<1>12. ASSUME NEW c \in Call, FinishRequest(c) PROVE Calm'
  <2>1. /\ Leaves(Len(stack) - 2, 1) /\ UNCHANGED <<dropped, lost, eventQueue>>
        /\ TopIs("eval") /\ Top.item \in Request /\ Ask("read", c, <<Response(Top.item)>>)
    BY <1>12, WorkerLeaves DEF FinishRequest, mainVars, history
  <2>2. /\ Len(stack) > 1 /\ stack[Len(stack) - 1] = Prompt(None)
        /\ stack'[Len(stack) - 1] = Prompt(c)
    BY <1>12, Shapes DEF TypeOK
  <2>3. Prompt(c).call = c /\ Prompt(None).call = None
    BY DEF Prompt
  <2>4. \E i \in Len(stack) - 2 + 1 .. Len(stack) - 2 + 1 : stack'[i].call = c
    BY <1>0, <2>2, <2>3
  <2>5. Reads = {} /\ \A b \in Call : answer[b] \notin Message
    BY <2>1, NobodyReading
  <2>6. Spares(Len(stack) - 2)
    <3>1. Top.call = None /\ Top = stack[Len(stack)]
      BY <1>10, <2>1, TopFacts DEF TopIs, TypeOK
    <3>2. \A i \in Len(stack) - 2 + 1 .. Len(stack) : stack[i].call = None
      BY <1>0, <2>2, <2>3, <3>1
    <3> QED BY <1>0, <1>1, <3>2 DEF Spares
  <2> DEFINE r == Response(Top.item)
  <2>7. r \in Post /\ r.type = "response" /\ Ask("read", c, <<r>>)
    BY <2>1 DEF Response, Post
  <2> HIDE DEF r
  <2>8. <<r>> \in Seq(Post) /\ \A p \in ToSet(<<r>>) : p.type = "response"
    BY <2>7 DEF ToSet
  <2> QED BY <2>1, <2>4, <2>5, <2>6, <2>7, <2>8, CalmRead
<1>13. ASSUME NEW e \in Event, NEW c \in Call, HandleEvent(e, c) PROVE Calm'
  <2>1. /\ Leaves(Len(stack) - 1, 1) /\ Ask("event", c, <<>>) /\ UNCHANGED <<dropped, lost, eventQueue>>
        /\ TopIs("events") /\ Got(e)
    BY <1>13, WorkerLeaves DEF HandleEvent, mainVars, history
  <2>2. stack'[Len(stack)] = Events(c) /\ Events(c).call = c
    BY <1>13, Shapes DEF TypeOK, Events
  <2>3. \E i \in Len(stack) - 1 + 1 .. Len(stack) - 1 + 1 : stack'[i].call = c
    BY <1>0, <2>2
  <2>4. Spares(Len(stack) - 1)
    BY <1>0, <1>5, <2>1
  <2> QED BY <2>1, <2>3, <2>4, CalmEvent
<1>14. ASSUME EndEvents PROVE Calm'
  <2>1. TopIs("events") /\ Got(NoEvent) /\ UNCHANGED <<dropped, lost, eventQueue, toMain>>
    BY <1>14 DEF EndEvents, mainVars, history
  <2>2. Leaves(Len(stack) - 1, 0)
    BY <1>14, WorkerLeaves
  <2>3. NoEvent # None
    BY DEF SharedChannelAssumption
  <2>4. Spares(Len(stack) - 1)
    BY <1>5, <2>1, <2>3
  <2> QED BY <2>1, <2>2, <2>4, CalmUnasked
<1>15. ASSUME NEW k, HandleInterrupt(k) PROVE FALSE
  <2>1. stack # <<>> /\ Got(Interrupt)
    BY <1>15 DEF HandleInterrupt, TopIs
  <2>2. Top.call \in Call /\ answer[Top.call] = Interrupt
    BY <2>1, TopFacts DEF Got, TypeOK, Frame
  <2> QED BY <2>2 DEF Calm
<1> QED BY <1>6, <1>7, <1>8, <1>9, <1>11, <1>12, <1>13, <1>14, <1>15 DEF WorkerMoves, WorkerStep

(* A step outside the worker that takes reads and events further.          *)
LEMMA CalmCarried ==
    ASSUME SharedChannelAssumption, TypeOK, Calm, Reads' \subseteq Reads, EventCalls' \subseteq EventCalls,
           UNCHANGED <<stack, dropped, lost>>, Interrupt \notin ToSet(eventQueue'),
           OneRead', OneEvent',
           \A c \in Call :
               /\ answer'[c] # Interrupt
               /\ answer'[c] \in Message => Reads' = {}
               /\ c \in EventCalls' => answer'[c] = None
    PROVE  Calm'
<1>1. LiveCalls' = LiveCalls
  BY DEF LiveCalls
<1> QED BY <1>1 DEF Calm

LEMMA CalmTail ==
    ASSUME TypeOK, Calm, toMain # <<>>, toMain' = Tail(toMain)
    PROVE  /\ OneEvent'
           /\ \A i, j \in 1 .. Len(toMain') :
                  toMain'[i].type = "read" /\ toMain'[j].type = "read" => i = j
           /\ \A i \in 1 .. Len(toMain') :
                  toMain'[i].type = "read" => waiters = <<>> /\ due = <<>> /\ Head(toMain).type # "read"
           /\ \A i \in 1 .. Len(toMain') :
                  toMain'[i].type = "event" /\ Head(toMain).type = "event"
                      => toMain'[i].call # Head(toMain).call
<1>1. /\ Len(toMain) \in Nat /\ Len(toMain) >= 1 /\ Len(toMain') = Len(toMain) - 1
      /\ Head(toMain) = toMain[1] /\ \A i \in 1 .. Len(toMain') : toMain'[i] = toMain[i + 1]
  BY DEF TypeOK
<1>2. \A i \in 1 .. Len(toMain') : i + 1 \in 1 .. Len(toMain) /\ i + 1 # 1
  BY <1>1
<1>3. \A i, j \in 1 .. Len(toMain') : i + 1 = j + 1 => i = j
  BY <1>1
<1>4. 1 \in 1 .. Len(toMain)
  BY <1>1
<1>5. OneRead /\ OneEvent
  BY DEF Calm
<1> QED BY <1>1, <1>2, <1>3, <1>4, <1>5 DEF OneRead, OneEvent

LEMMA OneElement ==
    ASSUME NEW S, NEW q \in Seq(S), q # <<>>, Len(q) <= 1
    PROVE  Len(q) = 1 /\ Head(q) = q[1] /\ Head(q) \in S /\ Tail(q) = <<>> /\ 1 \in 1 .. Len(q)
<1>0. Len(q) \in Nat /\ Len(q) # 0
  OBVIOUS
<1>1. Len(q) = 1 /\ Head(q) = q[1] /\ Head(q) \in S /\ 1 \in 1 .. Len(q)
  <2>1. Len(q) = 1
    BY <1>0
  <2>2. Head(q) = q[1] /\ Head(q) \in S
    OBVIOUS
  <2> QED BY <2>1, <2>2
<1>2. Tail(q) \in Seq(S) /\ Len(Tail(q)) = 0
  BY <1>1
<1>3. Tail(q) = <<>>
  BY <1>2
<1> QED BY <1>1, <1>3

LEMMA CalmMain ==
    ASSUME SharedChannelAssumption, TypeOK, TypeOK', CallInv, Calm, MainStep
    PROVE  Calm'
<1>1. Reads' \subseteq Reads /\ EventCalls' \subseteq EventCalls /\ UNCHANGED stack
  BY OutsideCalls, MainTypes
<1>2. Interrupt \notin Message
  BY DEF SharedChannelAssumption, Message
<1>3. ASSUME ResumeRead PROVE Calm'
  <2> DEFINE d == Head(due)
  <2>1. /\ due # <<>> /\ due' = Tail(due) /\ UNCHANGED <<waiters, toMain, eventQueue, dropped>>
        /\ \/ d.call \in LiveCalls /\ answer' = [answer EXCEPT ![d.call] = d.message] /\ UNCHANGED lost
           \/ d.call \notin LiveCalls
    BY <1>3 DEF ResumeRead
  <2>2. Len(due) = 1 /\ d = due[1] /\ due' = <<>> /\ 1 \in 1 .. Len(due)
    <3>1. Len(due) <= 1
      BY DEF Calm, OneRead
    <3> DEFINE T == [call : Call, message : Message]
    <3>2. due \in Seq(T)
      BY DEF TypeOK
    <3> HIDE DEF T
    <3> QED BY <2>1, <3>1, <3>2, OneElement
  <2>3. d.call \in Reads /\ d.message \in Message
    <3> DEFINE T == [call : Call, message : Message]
    <3>1. due \in Seq(T)
      BY DEF TypeOK
    <3>2. \A x \in T : x.message \in Message
      OBVIOUS
    <3> HIDE DEF T
    <3>3. d \in T
      BY <2>1, <3>1, SetOfTail
    <3> QED BY <2>2, <3>2, <3>3, ReadsAre
  <2>4. d.call \in LiveCalls /\ d.call \in Call /\ d.call \notin EventCalls
    BY <2>3, ReadsAre DEF Calm
  <2> HIDE DEF d
  <2>5. waiters' = <<>> /\ \A i \in 1 .. Len(toMain') : toMain'[i].type # "read"
    BY <2>1 DEF Calm, OneRead
  <2>6. OneRead'
    BY <2>2, <2>5 DEF OneRead
  <2>7. OneEvent' /\ Interrupt \notin ToSet(eventQueue')
    BY <2>1 DEF Calm, OneEvent
  <2>8. Reads' = {}
    <3>1. (waiters' = <<>> /\ due' = <<>> /\ \A i \in 1 .. Len(toMain') : toMain'[i].type # "read")
             => ToSet(waiters') = {} /\ ToSet(due') = {}
                /\ \A p \in ToSet(toMain') : p.type # "read"
      <4>1. ToSet(toMain') = {toMain'[i] : i \in 1 .. Len(toMain')}
        <5>1. toMain' \in Seq(Post)
          BY DEF TypeOK
        <5> QED BY <5>1, SetOfSeq
      <4> QED BY <4>1, EmptyInOrder
    <3> QED BY <2>2, <2>5, <3>1 DEF Reads
  <2>9. \A c \in Call : answer'[c] = IF c = d.call THEN d.message ELSE answer[c]
    BY <2>1, <2>4 DEF TypeOK
  <2>10. \A c \in Call : /\ answer'[c] # Interrupt
                         /\ c \in EventCalls' => answer'[c] = None
    BY <1>1, <1>2, <2>3, <2>4, <2>9 DEF Calm
  <2> QED BY <1>1, <2>1, <2>4, <2>6, <2>7, <2>8, <2>10, CalmCarried
<1>4. ASSUME NEW type, Received(type)
      PROVE  due = <<>> /\ toMain # <<>> /\ toMain' = Tail(toMain) /\ Head(toMain).type = type
  BY <1>4 DEF Received
<1>5. ASSUME UNCHANGED answer, NEW x, ReceiveRead \/ ReceiveResponse
      PROVE  \A c \in Call : /\ answer'[c] # Interrupt
                             /\ answer'[c] \in Message => Reads' = {}
                             /\ c \in EventCalls' => answer'[c] = None
  BY <1>1, <1>5 DEF Calm
<1>6. ASSUME ReceiveRead PROVE Calm'
  <2>1. /\ due = <<>> /\ toMain # <<>> /\ toMain' = Tail(toMain) /\ Head(toMain).type = "read"
        /\ UNCHANGED <<answer, eventQueue, dropped, lost>>
    BY <1>4, <1>6 DEF ReceiveRead, history
  <2>2. waiters = <<>>
    <3>1. Head(toMain) = toMain[1] /\ 1 \in 1 .. Len(toMain)
      BY <2>1 DEF TypeOK
    <3> QED BY <2>1, <3>1 DEF Calm, OneRead
  <2>3. OneEvent' /\ \A i \in 1 .. Len(toMain') : toMain'[i].type # "read"
    BY <2>1, CalmTail
  <2>4. Len(waiters') <= 1 /\ Len(due') <= 1 /\ (waiters' = <<>> \/ due' = <<>>)
    <3>1. CASE UNCHANGED waiters /\ \E d : due' = Append(due, d)
      BY <2>1, <2>2, <3>1
    <3>2. CASE UNCHANGED due /\ \E c : waiters' = Append(waiters, c)
      BY <2>1, <2>2, <3>2
    <3> QED BY <1>6, <3>1, <3>2 DEF ReceiveRead
  <2>5. OneRead'
    BY <2>3, <2>4 DEF OneRead
  <2>6. Interrupt \notin ToSet(eventQueue')
    BY <2>1 DEF Calm
  <2> QED BY <1>1, <1>5, <1>6, <2>1, <2>3, <2>5, <2>6, CalmCarried
<1>7. ASSUME ReceiveResponse PROVE Calm'
  <2>1. /\ toMain # <<>> /\ toMain' = Tail(toMain)
        /\ UNCHANGED <<answer, eventQueue, dropped, lost, waiters, due>>
    BY <1>4, <1>7 DEF ReceiveResponse
  <2>2. OneEvent' /\ OneRead'
    BY <2>1, CalmTail DEF Calm, OneRead
  <2>3. Interrupt \notin ToSet(eventQueue')
    BY <2>1 DEF Calm
  <2> QED BY <1>1, <1>5, <1>7, <2>1, <2>2, <2>3, CalmCarried
<1>8. ASSUME ReceiveEvent PROVE Calm'
  <2> DEFINE c == Head(toMain).call
             e == IF eventQueue = <<>> THEN NoEvent ELSE Head(eventQueue)
  <2>1. /\ toMain # <<>> /\ toMain' = Tail(toMain) /\ Head(toMain).type = "event"
        /\ UNCHANGED <<dropped, waiters, due>>
        /\ eventQueue' = IF eventQueue = <<>> THEN <<>> ELSE Tail(eventQueue)
        /\ \/ c \in LiveCalls /\ answer' = [answer EXCEPT ![c] = e] /\ UNCHANGED lost
           \/ c \notin LiveCalls
    BY <1>4, <1>8 DEF ReceiveEvent, ShiftEvents
  <2>2. c \in EventCalls
    <3>1. Head(toMain) = toMain[1] /\ 1 \in 1 .. Len(toMain)
      BY <2>1 DEF TypeOK
    <3> QED BY <2>1, <3>1, ReadsAre
  <2>3. c \in LiveCalls /\ c \in Call
    BY <2>2, ReadsAre DEF Calm
  <2>4. e \in Event \cup {NoEvent} /\ Interrupt \notin ToSet(eventQueue')
    <3>1. CASE eventQueue = <<>>
      BY <2>1, <3>1, EmptyInOrder
    <3>2. CASE eventQueue # <<>>
      <4>1. ToSet(eventQueue) = ToSet(Tail(eventQueue)) \cup {Head(eventQueue)}
            /\ Head(eventQueue) \in Event \cup {Interrupt}
        BY <3>2, SetOfTail DEF TypeOK
      <4> QED BY <2>1, <3>2, <4>1 DEF Calm
    <3> QED BY <3>1, <3>2
  <2>5. e # Interrupt /\ e \notin Message
    <3>1. Interrupt # NoEvent /\ Interrupt \notin Event /\ NoEvent \notin Message /\ Event \cap Message = {}
      BY DEF SharedChannelAssumption, Message, Interrupt, NoEvent
    <3> QED BY <2>4, <3>1
  <2>6. OneEvent' /\ OneRead' /\ c \notin EventCalls'
    <3>1. OneEvent' /\ OneRead'
      BY <2>1, CalmTail DEF Calm, OneRead
    <3>2. \A i \in 1 .. Len(toMain') : toMain'[i].type = "event" => toMain'[i].call # c
      BY <2>1, CalmTail
    <3>3. ToSet(toMain') = {toMain'[i] : i \in 1 .. Len(toMain')}
      <4>1. toMain' \in Seq(Post)
        BY DEF TypeOK
      <4> QED BY <4>1, SetOfSeq
    <3> QED BY <3>1, <3>2, <3>3 DEF EventCalls
  <2> HIDE DEF c, e
  <2>7. \A b \in Call : answer'[b] = IF b = c THEN e ELSE answer[b]
    BY <2>1, <2>3 DEF TypeOK
  <2>8. \A b \in Call : /\ answer'[b] # Interrupt
                        /\ answer'[b] \in Message => Reads' = {}
                        /\ b \in EventCalls' => answer'[b] = None
    BY <1>1, <2>5, <2>6, <2>7 DEF Calm
  <2> QED BY <1>1, <2>1, <2>3, <2>4, <2>6, <2>8, CalmCarried
<1> QED BY <1>3, <1>6, <1>7, <1>8 DEF MainStep

LEMMA CalmUser ==
    ASSUME SharedChannelAssumption, TypeOK, TypeOK', Calm, UserStep, interrupts' = 0
    PROVE  Calm'
<1>1. Reads' \subseteq Reads /\ EventCalls' \subseteq EventCalls /\ UNCHANGED stack
  BY OutsideCalls, UserTypes
<1>2. UNCHANGED <<answer, toMain, lost>>
  BY DEF UserStep, Write, RequestClosed, Emit, RequestInterrupt, Close, history
<1>3. \A c \in Call : /\ answer'[c] # Interrupt
                      /\ answer'[c] \in Message => Reads' = {}
                      /\ c \in EventCalls' => answer'[c] = None
  BY <1>1, <1>2 DEF Calm
<1>4. ~ RequestInterrupt
  <2>1. interrupts \in Nat
    BY DEF TypeOK, SharedChannelAssumption
  <2> QED BY <2>1 DEF RequestInterrupt
<1>5. UNCHANGED dropped
  BY <1>4 DEF UserStep, Write, RequestClosed, Emit, Close, history
<1>6. OneEvent'
  BY <1>2 DEF Calm, OneEvent
<1>7. ASSUME UNCHANGED <<waiters, due>> PROVE OneRead'
  BY <1>2, <1>7 DEF Calm, OneRead
<1>8. ASSUME NEW m \in Message, Write(m) PROVE Calm'
  <2>1. Interrupt \notin ToSet(eventQueue')
    BY <1>8 DEF Write, Calm
  <2>2. ASSUME waiters # <<>>, waiters' = Tail(waiters), NEW d, due' = Append(due, d) PROVE OneRead'
    <3>1. Len(waiters) \in Nat /\ Len(waiters) <= 1 /\ waiters \in Seq(Call)
      BY DEF Calm, OneRead, TypeOK
    <3>2. waiters' = <<>>
      BY <2>2, <3>1
    <3>3. due = <<>> /\ \A i \in 1 .. Len(toMain') : toMain'[i].type # "read"
      BY <1>2, <2>2 DEF Calm, OneRead
    <3>4. Len(due') = 1
      BY <2>2, <3>3
    <3>5. \A i \in 1 .. Len(toMain') : toMain'[i].type = "read" => FALSE
      BY <3>3
    <3> QED BY <3>2, <3>4, <3>5 DEF OneRead
  <2>3. OneRead'
    BY <1>7, <1>8, <2>2 DEF Write, Put, SomebodyReads, ShiftWaiters
  <2> QED BY <1>1, <1>2, <1>3, <1>5, <1>6, <2>1, <2>3, CalmCarried
<1>9. ASSUME NEW e \in Event, Emit(e) PROVE Calm'
  <2>1. UNCHANGED <<waiters, due>> /\ eventQueue' = Append(eventQueue, e)
    BY <1>9 DEF Emit, EmitEvent
  <2>2. ToSet(eventQueue') = ToSet(eventQueue) \cup {e} /\ e # Interrupt
    BY <2>1, SetOfAppend DEF TypeOK, SharedChannelAssumption
  <2>3. Interrupt \notin ToSet(eventQueue')
    BY <2>2 DEF Calm
  <2> QED BY <1>1, <1>2, <1>3, <1>5, <1>6, <1>7, <2>1, <2>3, CalmCarried
<1>10. ASSUME Close \/ \E r \in Request : RequestClosed(r) PROVE Calm'
  <2>1. UNCHANGED <<waiters, due, eventQueue>>
    BY <1>10 DEF Close, RequestClosed
  <2>2. Interrupt \notin ToSet(eventQueue')
    BY <2>1 DEF Calm
  <2> QED BY <1>1, <1>2, <1>3, <1>5, <1>6, <1>7, <2>1, <2>2, CalmCarried
<1> QED BY <1>4, <1>8, <1>9, <1>10 DEF UserStep

CalmInv == interrupts = 0 => Calm

LEMMA CalmKept ==
    ASSUME SharedChannelAssumption, TypeOK, TypeOK', StackInv, CallInv, CalmInv, [Next]_vars
    PROVE  CalmInv'
<1> SUFFICES ASSUME interrupts' = 0 PROVE Calm'
  BY DEF CalmInv
<1>1. interrupts = 0
  <2>1. interrupts' = interrupts \/ interrupts' = interrupts + 1
    BY Steps DEF MainStep, UserStep, WorkerMoves, WorkerStep, vars, mainVars, history, ResumeRead,
       ReceiveRead, ReceiveEvent, ReceiveResponse, Write, RequestClosed, Emit, RequestInterrupt, Close,
       ReadConsole, StartEvents, GetLine, GetRequest, FinishLine, FinishRequest, HandleEvent,
       EndEvents, HandleInterrupt
  <2>2. interrupts \in Nat
    BY DEF TypeOK, SharedChannelAssumption
  <2> QED BY <2>1, <2>2
<1>2. Calm
  BY <1>1 DEF CalmInv
<1>3. CASE UNCHANGED vars
  BY <1>2, <1>3 DEF vars, mainVars, history, Calm, OneRead, OneEvent, Reads, EventCalls, LiveCalls
<1> QED BY <1>2, <1>3, Steps, CalmMain, CalmUser, CalmWorker

LEMMA InitCalm == SharedChannelAssumption /\ Init => CalmInv
<1> SUFFICES ASSUME SharedChannelAssumption, Init PROVE Calm
  BY DEF CalmInv
<1>1. ToSet(<<>>) = {} /\ Len(<<>>) = 0
  BY EmptyInOrder
<1>2. Reads = {} /\ EventCalls = {}
  BY <1>1 DEF Init, Reads, EventCalls
<1>3. OneRead /\ OneEvent
  BY <1>1 DEF Init, OneRead, OneEvent
<1>4. None # Interrupt
  BY DEF SharedChannelAssumption
<1> QED BY <1>1, <1>2, <1>3, <1>4 DEF Init, Calm

LEMMA CalmReads ==
    ASSUME SharedChannelAssumption, TypeOK, StackInv, CallInv, CalmInv
    PROVE  QuietReads
<1> SUFFICES ASSUME interrupts = 0
             PROVE  /\ dropped = {} /\ lost = {} /\ Len(waiters) <= 1
                    /\ \A i \in 1 .. Len(waiters) : \E f \in 1 .. Len(stack) :
                          /\ stack[f] = Prompt(waiters[i])
                          /\ \A g \in f + 1 .. Len(stack) : stack[g].kind = "events"
  BY DEF QuietReads
<1>1. Calm
  BY DEF CalmInv
<1>2. ASSUME NEW i \in 1 .. Len(waiters)
      PROVE  \E f \in 1 .. Len(stack) :
                 /\ stack[f] = Prompt(waiters[i])
                 /\ \A g \in f + 1 .. Len(stack) : stack[g].kind = "events"
  <2> DEFINE c == waiters[i]
  <2>1. c \in Reads /\ c \in LiveCalls /\ c # None
    BY <1>1, ReadsAre DEF Calm, LiveCalls
  <2>2. PICK f \in 1 .. Len(stack) : stack[f].call = c
    BY <2>1, LiveFrames
  <2>3. stack[f].kind = "prompt"
    BY <2>1, <2>2 DEF CallInv
  <2>4. stack[f].item = None /\ stack[f] \in Frame
    BY <2>3 DEF StackInv, WellFormed, TypeOK
  <2>5. Asking(stack[f])
    BY <2>1, <2>2, <2>3 DEF Asking
  <2>6. stack[f] = [kind |-> "prompt", call |-> c, item |-> None]
    BY <2>2, <2>3, <2>4 DEF Frame
  <2> QED BY <2>5, <2>6 DEF Prompt, StackInv
<1> QED BY <1>1, <1>2 DEF Calm, OneRead

(* As long as nobody interrupts, no message and no event is lost and the   *)
(* one read that may wait is that of the innermost prompt, in which the    *)
(* worker is blocked, perhaps below event handlers.                        *)
THEOREM QuietChannel == Spec => []QuietReads
<1>1. Init => TypeOK /\ StackInv /\ CallInv /\ CalmInv
  BY InitTypes, InitCalls, InitCalm, SharedChannelAssumption
<1>2. TypeOK /\ StackInv /\ CallInv /\ CalmInv /\ [Next]_vars
        => (TypeOK /\ StackInv /\ CallInv /\ CalmInv)'
  BY TypesKept, CallsKept, CalmKept, SharedChannelAssumption
<1>3. TypeOK /\ StackInv /\ CallInv /\ CalmInv => QuietReads
  BY CalmReads, SharedChannelAssumption
<1> QED BY <1>1, <1>2, <1>3, PTL DEF Spec

-----------------------------------------------------------------------------
(* Where a message or an event is.                                         *)

(* A call that is in flight is in one place, and has not been answered.    *)
Asks(p) == p.type # "response"
DueCalls == {d.call : d \in ToSet(due)}
FlightInv ==
    /\ \A i, j \in 1 .. Len(toMain) :
           Asks(toMain[i]) /\ Asks(toMain[j]) /\ toMain[i].call = toMain[j].call => i = j
    /\ \A i, j \in 1 .. Len(waiters) : waiters[i] = waiters[j] => i = j
    /\ \A i, j \in 1 .. Len(due) : due[i].call = due[j].call => i = j
    /\ \A i \in 1 .. Len(toMain) :
           Asks(toMain[i]) => toMain[i].call \notin ToSet(waiters) \cup DueCalls
    /\ ToSet(waiters) \cap DueCalls = {}
    /\ \A c \in Call : answer[c] # None => c \notin Reads \cup EventCalls

LEMMA TailAt ==
    ASSUME NEW S, NEW q \in Seq(S), q # <<>>
    PROVE  /\ Len(q) \in Nat /\ Len(q) >= 1 /\ Head(q) = q[1] /\ Len(Tail(q)) = Len(q) - 1
           /\ \A i \in 1 .. Len(q) - 1 : Tail(q)[i] = q[i + 1] /\ i + 1 \in 2 .. Len(q)
OBVIOUS

LEMMA AppendAt ==
    ASSUME NEW S, NEW q \in Seq(S), NEW x
    PROVE  /\ Len(q) \in Nat /\ Len(Append(q, x)) = Len(q) + 1
           /\ \A i \in 1 .. Len(q) : Append(q, x)[i] = q[i]
           /\ Append(q, x)[Len(q) + 1] = x
OBVIOUS

LEMMA ConcatAt ==
    ASSUME NEW S, NEW q \in Seq(S), NEW r \in Seq(S)
    PROVE  /\ Len(q) \in Nat /\ Len(r) \in Nat /\ Len(q \o r) = Len(q) + Len(r)
           /\ q \o r \in Seq(S)
           /\ \A i \in 1 .. Len(q) : (q \o r)[i] = q[i]
           /\ \A i \in Len(q) + 1 .. Len(q) + Len(r) :
                  (q \o r)[i] = r[i - Len(q)] /\ i - Len(q) \in 1 .. Len(r)
OBVIOUS

(* What the worker posts: responses, and perhaps a call after them.        *)
Responds(R) ==
    /\ R \in Seq(Post)
    /\ \A i \in 1 .. Len(R) : ~ Asks(R[i])
Posts(R) ==
    /\ Responds(R)
    /\ \/ toMain' = toMain \o R
       \/ \E type \in {"read", "event"}, c \in Call : Ask(type, c, R)

LEMMA NoResponse == Responds(<<>>) /\ (TypeOK => toMain \o <<>> = toMain)
BY NoPosts DEF Responds, TypeOK

LEMMA OneResponse ==
    ASSUME NEW r \in Request
    PROVE  /\ Responds(<<Response(r)>>) /\ Len(<<Response(r)>>) = 1
           /\ <<Response(r)>>[1] = Response(r) /\ Response(r).request = r
<1>1. Response(r) \in Post /\ ~ Asks(Response(r)) /\ Response(r).request = r
  BY DEF Response, Post, Asks
<1> QED BY <1>1 DEF Responds

LEMMA WorkerPosts ==
    ASSUME SharedChannelAssumption, TypeOK, StackInv, WorkerMoves
    PROVE  /\ \E R : Posts(R)
           /\ \A c \in Call : FinishRequest(c) => Ask("read", c, <<Response(Top.item)>>)
           /\ \A k \in 0 .. MaxDepth : HandleInterrupt(k) =>
                  \E u \in Unwindings(k) : toMain' = toMain \o AnswerUnwound(u)
<1>1. ASSUME UNCHANGED toMain PROVE \E R : Posts(R)
  <2>1. Posts(<<>>)
    BY <1>1, NoResponse DEF Posts
  <2> QED BY <2>1
<1>2. ASSUME NEW type \in {"read", "event"}, NEW c \in Call, Ask(type, c, <<>>) PROVE \E R : Posts(R)
  <2>1. Posts(<<>>)
    BY <1>2, NoResponse DEF Posts
  <2> QED BY <2>1
<1>3. ASSUME NEW c \in Call, FinishRequest(c) PROVE \E R : Posts(R)
  <2>1. Ask("read", c, <<Response(Top.item)>>) /\ Top.item \in Request
    BY <1>3 DEF FinishRequest
  <2>2. Responds(<<Response(Top.item)>>)
    BY <2>1, OneResponse
  <2>3. Posts(<<Response(Top.item)>>)
    BY <2>1, <2>2 DEF Posts
  <2> QED BY <2>3
<1>4. ASSUME NEW k \in 0 .. MaxDepth, HandleInterrupt(k)
      PROVE  \E R : Posts(R)
  <2>1. PICK u \in Unwindings(k) : toMain' = toMain \o AnswerUnwound(u)
    BY <1>4 DEF HandleInterrupt
  <2>2. k \in Nat
    BY DEF SharedChannelAssumption
  <2>3. Responds(AnswerUnwound(u))
    BY <2>2, UnwoundTypes DEF Responds, Asks
  <2>4. Posts(AnswerUnwound(u))
    BY <2>1, <2>3 DEF Posts
  <2> QED BY <2>4
<1>5. ASSUME NEW c \in Call, ReadConsole(c) \/ StartEvents(c) PROVE \E R : Posts(R)
  BY <1>2, <1>5 DEF ReadConsole, StartEvents
<1>6. ASSUME NEW m \in Message, GetLine(m) \/ GetRequest(m) PROVE UNCHANGED toMain
  BY <1>6 DEF GetLine, GetRequest
<1>7. FinishLine \/ EndEvents => UNCHANGED toMain
  BY DEF FinishLine, EndEvents
<1>8. ASSUME NEW e \in Event, NEW c \in Call, HandleEvent(e, c) PROVE \E R : Posts(R)
  BY <1>2, <1>8 DEF HandleEvent
<1>9. \E R : Posts(R)
  BY <1>1, <1>3, <1>4, <1>5, <1>6, <1>7, <1>8 DEF WorkerMoves, WorkerStep
<1>10. \A c \in Call : FinishRequest(c) => Ask("read", c, <<Response(Top.item)>>)
  BY DEF FinishRequest
<1>11. \A k \in 0 .. MaxDepth : HandleInterrupt(k) =>
           \E u \in Unwindings(k) : toMain' = toMain \o AnswerUnwound(u)
  BY DEF HandleInterrupt
<1> QED BY <1>9, <1>10, <1>11

(* A worker that posts keeps the calls apart.                              *)
LEMMA PostedFlight ==
    ASSUME SharedChannelAssumption, TypeOK, CallInv, FlightInv, NEW R, Posts(R),
           UNCHANGED <<waiters, due>>,
           \A c \in Call : answer'[c] # None => answer'[c] = answer[c]
    PROVE  FlightInv'
<1> DEFINE L == Len(toMain)
           n == Len(R)
<1>1. /\ toMain \in Seq(Post) /\ R \in Seq(Post) /\ \A i \in 1 .. Len(R) : ~ Asks(R[i])
      /\ DueCalls' = DueCalls /\ ToSet(waiters)' = ToSet(waiters)
  BY DEF Posts, Responds, TypeOK, DueCalls
<1> DEFINE q == toMain \o R
<1>2. /\ L \in Nat /\ n \in Nat /\ Len(q) = L + n /\ q \in Seq(Post)
      /\ \A i \in 1 .. L : q[i] = toMain[i]
      /\ \A i \in L + 1 .. L + n : ~ Asks(q[i])
  <2>1. /\ L \in Nat /\ n \in Nat /\ Len(q) = L + n /\ q \in Seq(Post)
        /\ \A i \in 1 .. L : q[i] = toMain[i]
        /\ \A i \in L + 1 .. L + n : q[i] = R[i - L] /\ i - L \in 1 .. n
    BY <1>1, ConcatAt
  <2> QED BY <1>1, <2>1
<1>3. CASE toMain' = q
  <2>1. Reads' = Reads /\ EventCalls' = EventCalls
    <3>1. ToSet(toMain') = ToSet(toMain) \cup ToSet(R)
      BY <1>1, <1>3, SetOfConcat
    <3>2. \A p \in ToSet(R) : p.type = "response"
      BY <1>1, SetOfSeq DEF Asks
    <3>3. \A t \in {"read", "event"} :
              {x \in ToSet(toMain') : x.type = t} = {x \in ToSet(toMain) : x.type = t}
      BY <3>1, <3>2
    <3> QED BY <3>3 DEF Reads, EventCalls
  <2> HIDE DEF q, L, n
  <2>2. \A i, j \in 1 .. Len(toMain') :
           Asks(toMain'[i]) /\ Asks(toMain'[j]) /\ toMain'[i].call = toMain'[j].call => i = j
    <3>1. \A i \in 1 .. Len(toMain') : Asks(toMain'[i]) => i \in 1 .. L /\ toMain'[i] = toMain[i]
      BY <1>2, <1>3
    <3> QED BY <3>1 DEF FlightInv, L
  <2>3. \A i \in 1 .. Len(toMain') : Asks(toMain'[i]) => toMain'[i].call \notin ToSet(waiters') \cup DueCalls'
    <3>1. \A i \in 1 .. Len(toMain') : Asks(toMain'[i]) => i \in 1 .. L /\ toMain'[i] = toMain[i]
      BY <1>2, <1>3
    <3> QED BY <1>1, <3>1 DEF FlightInv, L
  <2> QED BY <1>1, <2>1, <2>2, <2>3 DEF FlightInv
<1>4. ASSUME NEW type \in {"read", "event"}, NEW c \in Call, Ask(type, c, R) PROVE FlightInv'
  <2> DEFINE p == [type |-> type, call |-> c]
  <2>1. p.type = type /\ p.call = c /\ p \in Post /\ Asks(p)
    BY DEF Post, Asks
  <2>2. NewCall(c) /\ toMain' = toMain \o R \o <<p>>
    BY <1>4 DEF Ask
  <2> HIDE DEF p
  <2>3. toMain' = Append(q, p)
    BY <1>1, <1>2, <2>1, <2>2
  <2>4. /\ Len(toMain') = L + n + 1 /\ toMain'[L + n + 1] = p
        /\ \A i \in 1 .. L + n : toMain'[i] = q[i]
    BY <1>2, <2>3, AppendAt
  <2>5. \A i \in 1 .. Len(toMain') : Asks(toMain'[i]) =>
           \/ i \in 1 .. L /\ toMain'[i] = toMain[i]
           \/ i = L + n + 1 /\ toMain'[i] = p
    <3> HIDE DEF q, L, n
    <3> QED BY <1>2, <2>4
  <2>6. \A i \in 1 .. L : Asks(toMain[i]) => toMain[i].call # c
    <3>1. \A x \in ToSet(toMain) : x.type # "response" => x.call # c
      BY <2>2 DEF NewCall, InUse
    <3> QED BY <1>1, <3>1, SetOfSeq DEF Asks
  <2>7. c \notin ToSet(waiters) \cup DueCalls /\ answer[c] = None
    <3>1. c \notin ToSet(waiters) \cup DueCalls
      BY <2>2 DEF NewCall, InUse, DueCalls
    <3>2. \A i \in 1 .. Len(stack) : stack[i].call # c
      BY <2>2, FreshCall
    <3> QED BY <3>1, <3>2 DEF CallInv
  <2> HIDE DEF q, L, n
  <2>8. \A i, j \in 1 .. Len(toMain') :
           Asks(toMain'[i]) /\ Asks(toMain'[j]) /\ toMain'[i].call = toMain'[j].call => i = j
    BY <2>1, <2>5, <2>6 DEF FlightInv, L
  <2>9. \A i \in 1 .. Len(toMain') : Asks(toMain'[i]) => toMain'[i].call \notin ToSet(waiters') \cup DueCalls'
    BY <1>1, <2>1, <2>5, <2>7 DEF FlightInv, L
  <2>10. Reads' \cup EventCalls' \subseteq Reads \cup EventCalls \cup {c}
    <3>1. \A x \in ToSet(R) : x.type = "response"
      BY <1>1, SetOfSeq DEF Asks
    <3> QED BY <1>1, <1>4, <3>1, AskCalls
  <2>11. \A b \in Call : answer'[b] # None => b \notin Reads' \cup EventCalls'
    BY <2>7, <2>10 DEF FlightInv
  <2> QED BY <1>1, <2>8, <2>9, <2>11 DEF FlightInv
<1> QED BY <1>3, <1>4 DEF Posts

LEMMA WorkerFlight ==
    ASSUME SharedChannelAssumption, TypeOK, StackInv, CallInv, FlightInv, WorkerMoves
    PROVE  FlightInv'
<1>1. PICK k, n \in Nat : Leaves(k, n)
  BY WorkerLeaves
<1>2. /\ UNCHANGED <<waiters, due>>
      /\ \A c \in Call : answer'[c] # None => answer'[c] = answer[c]
  BY <1>1 DEF Leaves
<1>3. PICK R : Posts(R)
  BY WorkerPosts
<1> QED BY <1>2, <1>3, PostedFlight

(* What is received leaves the queue.                                      *)
LEMMA ReceivedFlight ==
    ASSUME TypeOK, FlightInv, NEW type \in {"read", "event", "response"}, Received(type)
    PROVE  /\ toMain # <<>> /\ due = <<>> /\ Head(toMain).type = type
           /\ \A i, j \in 1 .. Len(toMain') :
                  Asks(toMain'[i]) /\ Asks(toMain'[j]) /\ toMain'[i].call = toMain'[j].call => i = j
           /\ \A i \in 1 .. Len(toMain') :
                  Asks(toMain'[i]) => toMain'[i].call \notin ToSet(waiters) \cup DueCalls
           /\ type # "response" =>
                  /\ Head(toMain).call \notin ToSet(waiters) \cup DueCalls
                  /\ \A i \in 1 .. Len(toMain') : Asks(toMain'[i]) => toMain'[i].call # Head(toMain).call
<1>1. toMain # <<>> /\ due = <<>> /\ Head(toMain).type = type /\ toMain' = Tail(toMain)
  BY DEF Received
<1>2. /\ Len(toMain) \in Nat /\ Len(toMain) >= 1 /\ Head(toMain) = toMain[1]
      /\ Len(toMain') = Len(toMain) - 1
      /\ \A i \in 1 .. Len(toMain) - 1 : toMain'[i] = toMain[i + 1] /\ i + 1 \in 2 .. Len(toMain)
  BY <1>1, TailAt DEF TypeOK
<1>3. \A i \in 1 .. Len(toMain') : i + 1 \in 1 .. Len(toMain) /\ toMain'[i] = toMain[i + 1] /\ i + 1 # 1
  BY <1>2
<1>4. ASSUME NEW i \in 1 .. Len(toMain'), NEW j \in 1 .. Len(toMain'),
             Asks(toMain'[i]), Asks(toMain'[j]), toMain'[i].call = toMain'[j].call
      PROVE  i = j
  <2>1. i + 1 = j + 1
    BY <1>3, <1>4 DEF FlightInv
  <2> QED BY <1>2, <2>1
<1>5. \A i \in 1 .. Len(toMain') :
          Asks(toMain'[i]) => toMain'[i].call \notin ToSet(waiters) \cup DueCalls
  BY <1>3 DEF FlightInv
<1>6. 1 \in 1 .. Len(toMain) /\ (type # "response" => Asks(toMain[1]))
  BY <1>1, <1>2 DEF Asks
<1>7. type # "response" =>
          /\ Head(toMain).call \notin ToSet(waiters) \cup DueCalls
          /\ \A i \in 1 .. Len(toMain') : Asks(toMain'[i]) => toMain'[i].call # Head(toMain).call
  BY <1>2, <1>3, <1>6 DEF FlightInv
<1> QED BY <1>1, <1>4, <1>5, <1>7

LEMMA NoDueCalls == due = <<>> => DueCalls = {}
BY DEF DueCalls, ToSet

LEMMA DueOf ==
    ASSUME TypeOK
    PROVE  /\ \A i \in 1 .. Len(due) : due[i].call \in DueCalls /\ due[i].call \in Reads
           /\ \A c \in DueCalls : \E i \in 1 .. Len(due) : due[i].call = c
           /\ \A i \in 1 .. Len(due) : due[i].call \in Call /\ due[i].message \in Message
           /\ DueMessages = {due[i].message : i \in 1 .. Len(due)}
<1> DEFINE T == [call : Call, message : Message]
<1>1. due \in Seq(T) /\ \A d \in T : d.call \in Call /\ d.message \in Message
  BY DEF TypeOK
<1> HIDE DEF T
<1>2. ToSet(due) = {due[i] : i \in 1 .. Len(due)} /\ \A i \in 1 .. Len(due) : due[i] \in T
  BY <1>1, SetOfSeq
<1> QED BY <1>1, <1>2 DEF DueCalls, Reads, DueMessages

(* A put gives the message to the read that has waited longest.            *)
LEMMA PutFlight ==
    ASSUME SharedChannelAssumption, TypeOK, FlightInv, NEW m \in Message, Put(m), UNCHANGED <<toMain, answer>>
    PROVE  FlightInv'
<1>0. Reads' \subseteq Reads /\ EventCalls' = EventCalls
  <2>1. CASE UNCHANGED <<waiters, due>>
    BY <2>1 DEF Reads, EventCalls
  <2>2. CASE waiters # <<>> /\ due' = Append(due, [call |-> Head(waiters), message |-> m])
             /\ waiters' = Tail(waiters)
    <3>1. ToSet(waiters) = ToSet(waiters') \cup {Head(waiters)}
      BY <2>2, SetOfTail DEF TypeOK
    <3> DEFINE d == [call |-> Head(waiters), message |-> m]
    <3>2. due' = Append(due, d) /\ d.call = Head(waiters)
      BY <2>2
    <3> HIDE DEF d
    <3>3. ToSet(due') = ToSet(due) \cup {d}
      BY <3>2, SetOfAppend DEF TypeOK
    <3> QED BY <3>1, <3>2, <3>3 DEF Reads, EventCalls
  <2> QED BY <2>1, <2>2 DEF Put, SomebodyReads, ShiftWaiters
<1>1. CASE UNCHANGED <<waiters, due>>
  <2>1. DueCalls' = DueCalls
    BY <1>1 DEF DueCalls
  <2> QED BY <1>0, <1>1, <2>1 DEF FlightInv
<1>2. CASE waiters # <<>> /\ due' = Append(due, [call |-> Head(waiters), message |-> m])
           /\ waiters' = Tail(waiters)
  <2> DEFINE d == [call |-> Head(waiters), message |-> m]
  <2>1. due' = Append(due, d) /\ d.call = Head(waiters)
    BY <1>2
  <2> HIDE DEF d
  <2>2. /\ Len(due) \in Nat /\ Len(due') = Len(due) + 1 /\ due'[Len(due) + 1] = d
        /\ \A i \in 1 .. Len(due) : due'[i] = due[i]
    BY <2>1, AppendAt DEF TypeOK
  <2>3. /\ Len(waiters) \in Nat /\ Len(waiters) >= 1 /\ Head(waiters) = waiters[1]
        /\ Len(waiters') = Len(waiters) - 1
        /\ \A i \in 1 .. Len(waiters) - 1 : waiters'[i] = waiters[i + 1] /\ i + 1 \in 2 .. Len(waiters)
    BY <1>2, TailAt DEF TypeOK
  <2>4. \A i \in 1 .. Len(waiters') : /\ i + 1 \in 1 .. Len(waiters) /\ waiters'[i] = waiters[i + 1]
                                      /\ i + 1 # 1 /\ i \in Int
    BY <2>3
  <2>5. ToSet(waiters) = ToSet(waiters') \cup {Head(waiters)}
    BY <1>2, SetOfTail DEF TypeOK
  <2>6. DueCalls' = DueCalls \cup {Head(waiters)}
    <3>1. ToSet(due') = ToSet(due) \cup {d}
      BY <2>1, SetOfAppend DEF TypeOK
    <3> QED BY <2>1, <3>1 DEF DueCalls
  <2>7. Head(waiters) \notin ToSet(waiters')
    <3>1. waiters' \in Seq(Call)
      BY <1>2, SetOfTail DEF TypeOK
    <3>2. \A i \in 1 .. Len(waiters') : waiters'[i] # waiters[1]
      <4>1. 1 \in 1 .. Len(waiters)
        BY <2>3
      <4> QED BY <2>4, <4>1 DEF FlightInv
    <3> QED BY <2>3, <3>1, <3>2, SetOfSeq
  <2>8. \A i, j \in 1 .. Len(waiters') : waiters'[i] = waiters'[j] => i = j
    <3>1. \A i, j \in 1 .. Len(waiters') : waiters'[i] = waiters'[j] => i + 1 = j + 1
      BY <2>4 DEF FlightInv
    <3> QED BY <2>4, <3>1
  <2>9. \A i, j \in 1 .. Len(due') : due'[i].call = due'[j].call => i = j
    <3>1. \A i \in 1 .. Len(due) : due[i].call # Head(waiters)
      BY <2>5, DueOf DEF FlightInv
    <3>2. \A i \in 1 .. Len(due') : i \in 1 .. Len(due) \/ i = Len(due) + 1
      BY <2>2
    <3> QED BY <2>1, <2>2, <3>1, <3>2 DEF FlightInv
  <2>10. ToSet(waiters') \cap DueCalls' = {}
    BY <2>5, <2>6, <2>7 DEF FlightInv
  <2>11. \A i \in 1 .. Len(toMain') : Asks(toMain'[i]) => toMain'[i].call \notin ToSet(waiters') \cup DueCalls'
    BY <2>5, <2>6 DEF FlightInv
  <2> QED BY <1>0, <2>8, <2>9, <2>10, <2>11 DEF FlightInv
<1> QED BY <1>1, <1>2 DEF Put, SomebodyReads, ShiftWaiters

(* The calls in flight after a step, by their places.                      *)
LEMMA Flying ==
    ASSUME TypeOK', NEW c \in Reads' \cup EventCalls'
    PROVE  \/ c \in ToSet(waiters') \cup DueCalls'
           \/ \E i \in 1 .. Len(toMain') : Asks(toMain'[i]) /\ toMain'[i].call = c
<1>1. ToSet(toMain') = {toMain'[i] : i \in 1 .. Len(toMain')}
  BY SetOfSeq DEF TypeOK
<1>2. CASE c \in ToSet(waiters') \cup DueCalls'
  BY <1>2
<1>3. CASE c \notin ToSet(waiters') \cup DueCalls'
  <2>1. PICK p \in ToSet(toMain') : p.call = c /\ p.type \in {"read", "event"}
    BY <1>3 DEF Reads, EventCalls, DueCalls
  <2>2. PICK i \in 1 .. Len(toMain') : p = toMain'[i]
    BY <1>1, <2>1
  <2> QED BY <2>1, <2>2 DEF Asks
<1> QED BY <1>2, <1>3

LEMMA ResumeFlight ==
    ASSUME SharedChannelAssumption, TypeOK, TypeOK', FlightInv, ResumeRead
    PROVE  FlightInv' /\ answer[Head(due).call] = None
<1> DEFINE d == Head(due)
<1>1. /\ due # <<>> /\ due' = Tail(due) /\ UNCHANGED <<waiters, toMain>>
      /\ UNCHANGED answer \/ answer' = [answer EXCEPT ![d.call] = d.message]
  BY DEF ResumeRead
<1> HIDE DEF d
<1>2. /\ Len(due) \in Nat /\ Len(due) >= 1 /\ d = due[1] /\ Len(due') = Len(due) - 1
      /\ \A i \in 1 .. Len(due) - 1 : due'[i] = due[i + 1] /\ i + 1 \in 2 .. Len(due)
  BY <1>1, TailAt DEF TypeOK, d
<1>3. /\ 1 \in 1 .. Len(due)
      /\ \A i \in 1 .. Len(due') : /\ i + 1 \in 1 .. Len(due) /\ due'[i] = due[i + 1]
                                   /\ i + 1 # 1 /\ i \in Int
  BY <1>2
<1>4. ToSet(due) = ToSet(due') \cup {d}
  BY <1>1, SetOfTail DEF TypeOK, d
<1>5. d.call \in DueCalls /\ DueCalls' \subseteq DueCalls /\ d.call \in Reads /\ d.call \in Call
  BY <1>2, <1>3, <1>4, DueOf DEF DueCalls
<1>6. d.call \notin DueCalls'
  <2> SUFFICES ASSUME d.call \in DueCalls' PROVE FALSE
    OBVIOUS
  <2>1. PICK x \in ToSet(due') : x.call = d.call
    BY DEF DueCalls
  <2>0. due' \in Seq([call : Call, message : Message])
    BY DEF TypeOK
  <2>2. PICK i \in 1 .. Len(due') : x = due'[i]
    BY <2>0, SetOfSeq
  <2> QED BY <1>2, <1>3, <2>1, <2>2 DEF FlightInv
<1>7. ASSUME NEW i \in 1 .. Len(due'), NEW j \in 1 .. Len(due'), due'[i].call = due'[j].call PROVE i = j
  <2>1. i + 1 = j + 1
    BY <1>3, <1>7 DEF FlightInv
  <2> QED BY <1>3, <2>1
<1>8. answer[d.call] = None
  BY <1>5 DEF FlightInv
<1>9. Reads' \cup EventCalls' \subseteq Reads \cup EventCalls
  BY <1>1, <1>4 DEF Reads, EventCalls
<1>10. ASSUME NEW c \in Call, answer'[c] # None PROVE c \notin Reads' \cup EventCalls'
  <2>1. CASE c # d.call
    <3>1. answer'[c] = answer[c]
      BY <1>1, <2>1 DEF TypeOK
    <3> QED BY <1>9, <1>10, <3>1 DEF FlightInv
  <2>2. CASE c = d.call
    <3>1. c \notin ToSet(waiters') \cup DueCalls'
      BY <1>1, <1>5, <1>6, <2>2 DEF FlightInv
    <3>2. \A i \in 1 .. Len(toMain') : Asks(toMain'[i]) => toMain'[i].call # c
      BY <1>1, <1>5, <2>2 DEF FlightInv
    <3> QED BY <3>1, <3>2, Flying
  <2> QED BY <2>1, <2>2
<1> QED BY <1>1, <1>5, <1>7, <1>8, <1>10 DEF FlightInv, d

LEMMA ReceiveReadFlight ==
    ASSUME SharedChannelAssumption, TypeOK, FlightInv, ReceiveRead
    PROVE  FlightInv'
<1> DEFINE c == Head(toMain).call
<1>1. Received("read") /\ UNCHANGED answer
  BY DEF ReceiveRead
<1>2. /\ toMain # <<>> /\ due = <<>> /\ Head(toMain).type = "read"
      /\ \A i, j \in 1 .. Len(toMain') :
             Asks(toMain'[i]) /\ Asks(toMain'[j]) /\ toMain'[i].call = toMain'[j].call => i = j
      /\ \A i \in 1 .. Len(toMain') :
             Asks(toMain'[i]) => toMain'[i].call \notin ToSet(waiters) \cup DueCalls
      /\ c \notin ToSet(waiters) \cup DueCalls
      /\ \A i \in 1 .. Len(toMain') : Asks(toMain'[i]) => toMain'[i].call # c
  BY <1>1, ReceivedFlight
<1>3. DueCalls = {} /\ Reads' \subseteq Reads /\ EventCalls' \subseteq EventCalls
  BY <1>2, NoDueCalls, OutsideCalls DEF MainStep
<1> DEFINE d == [call |-> c, message |-> Head(inputQueue)]
<1>4. d.call = c
  OBVIOUS
<1> HIDE DEF c
<1>5. CASE due' = Append(due, d) /\ UNCHANGED waiters
  <2> HIDE DEF d
  <2>1. ToSet(due') = ToSet(due) \cup {d} /\ Len(due') = Len(due) + 1 /\ Len(due) = 0
    BY <1>2, <1>5, SetOfAppend, AppendAt DEF TypeOK
  <2>2. DueCalls' = {c}
    BY <1>3, <1>4, <2>1 DEF DueCalls
  <2>3. \A i, j \in 1 .. Len(due') : i = j
    BY <2>1
  <2> QED BY <1>1, <1>2, <1>3, <1>5, <2>2, <2>3 DEF FlightInv
<1>6. CASE waiters' = Append(waiters, c) /\ UNCHANGED due
  <2>1. /\ Len(waiters) \in Nat /\ Len(waiters') = Len(waiters) + 1
        /\ \A i \in 1 .. Len(waiters) : waiters'[i] = waiters[i]
        /\ waiters'[Len(waiters) + 1] = c
        /\ ToSet(waiters') = ToSet(waiters) \cup {c} /\ ToSet(waiters) = {waiters[i] : i \in 1 .. Len(waiters)}
    <3>1. waiters \in Seq(Call) /\ waiters' = Append(waiters, c)
      BY <1>6 DEF TypeOK
    <3>2. /\ Len(waiters) \in Nat /\ Len(waiters') = Len(waiters) + 1
          /\ \A i \in 1 .. Len(waiters) : waiters'[i] = waiters[i]
          /\ waiters'[Len(waiters) + 1] = c
      BY <3>1, AppendAt
    <3>3. ToSet(waiters') = ToSet(waiters) \cup {c} /\ ToSet(waiters) = {waiters[i] : i \in 1 .. Len(waiters)}
      BY <3>1, SetOfAppend, SetOfSeq
    <3> QED BY <3>2, <3>3
  <2>2. DueCalls' = {}
    BY <1>3, <1>6 DEF DueCalls
  <2>3. \A i, j \in 1 .. Len(waiters') : waiters'[i] = waiters'[j] => i = j
    <3>1. \A i \in 1 .. Len(waiters) : waiters[i] # c
      BY <1>2, <2>1
    <3>2. \A i \in 1 .. Len(waiters') : i \in 1 .. Len(waiters) \/ i = Len(waiters) + 1
      BY <2>1
    <3> QED BY <2>1, <3>1, <3>2 DEF FlightInv
  <2> QED BY <1>1, <1>2, <1>3, <1>6, <2>1, <2>2, <2>3 DEF FlightInv
<1> QED BY <1>5, <1>6 DEF ReceiveRead, c

LEMMA ReceiveEventFlight ==
    ASSUME SharedChannelAssumption, TypeOK, TypeOK', FlightInv, ReceiveEvent
    PROVE  FlightInv' /\ answer[Head(toMain).call] = None
<1> DEFINE c == Head(toMain).call
           e == IF eventQueue = <<>> THEN NoEvent ELSE Head(eventQueue)
<1>1. /\ Received("event") /\ UNCHANGED <<waiters, due>>
      /\ UNCHANGED answer \/ answer' = [answer EXCEPT ![c] = e]
  BY DEF ReceiveEvent
<1>2. /\ toMain # <<>> /\ Head(toMain).type = "event"
      /\ \A i, j \in 1 .. Len(toMain') :
             Asks(toMain'[i]) /\ Asks(toMain'[j]) /\ toMain'[i].call = toMain'[j].call => i = j
      /\ \A i \in 1 .. Len(toMain') :
             Asks(toMain'[i]) => toMain'[i].call \notin ToSet(waiters) \cup DueCalls
      /\ c \notin ToSet(waiters) \cup DueCalls
      /\ \A i \in 1 .. Len(toMain') : Asks(toMain'[i]) => toMain'[i].call # c
  BY <1>1, ReceivedFlight
<1>3. DueCalls' = DueCalls /\ Reads' \cup EventCalls' \subseteq Reads \cup EventCalls
  BY <1>1, OutsideCalls DEF MainStep, DueCalls
<1>4. c \in EventCalls /\ c \in Call
  <2>0. toMain \in Seq(Post) /\ toMain # <<>>
    BY <1>2 DEF TypeOK
  <2>1. Head(toMain) \in ToSet(toMain) /\ Head(toMain) \in Post
    BY <2>0, SetOfTail
  <2> QED BY <1>2, <2>1 DEF EventCalls, Post
<1> HIDE DEF c, e
<1>5. answer[c] = None
  BY <1>4 DEF FlightInv
<1>6. ASSUME NEW b \in Call, answer'[b] # None PROVE b \notin Reads' \cup EventCalls'
  <2>1. CASE b # c
    <3>1. answer'[b] = answer[b]
      BY <1>1, <2>1 DEF TypeOK
    <3> QED BY <1>3, <1>6, <3>1 DEF FlightInv
  <2>2. CASE b = c
    <3>1. b \notin ToSet(waiters') \cup DueCalls'
      BY <1>1, <1>2, <1>3, <2>2
    <3> QED BY <1>2, <2>2, <3>1, Flying
  <2> QED BY <2>1, <2>2
<1> QED BY <1>1, <1>2, <1>3, <1>5, <1>6 DEF FlightInv, c

LEMMA FlightKept ==
    ASSUME SharedChannelAssumption, TypeOK, TypeOK', StackInv, CallInv, FlightInv, [Next]_vars
    PROVE  FlightInv'
<1>1. ASSUME UNCHANGED <<waiters, due, toMain, answer>> PROVE FlightInv'
  BY <1>1 DEF FlightInv, DueCalls, Reads, EventCalls
<1>2. CASE ReceiveResponse
  <2>1. Received("response") /\ UNCHANGED <<waiters, due, answer>>
    BY <1>2 DEF ReceiveResponse
  <2>2. Reads' \subseteq Reads /\ EventCalls' \subseteq EventCalls /\ DueCalls' = DueCalls
    BY <1>2, <2>1, OutsideCalls DEF MainStep, DueCalls
  <2> QED BY <2>1, <2>2, ReceivedFlight DEF FlightInv
<1>3. CASE RequestInterrupt
  <2>1. waiters' = <<>> /\ UNCHANGED <<due, toMain, answer>>
    BY <1>3 DEF RequestInterrupt
  <2>2. Reads' \subseteq Reads /\ EventCalls' \subseteq EventCalls /\ DueCalls' = DueCalls
    BY <1>3, <2>1, OutsideCalls DEF UserStep, DueCalls
  <2>3. ToSet(waiters') = {} /\ Len(waiters') = 0
    BY <2>1 DEF ToSet
  <2> QED BY <2>1, <2>2, <2>3 DEF FlightInv
<1>4. ASSUME NEW m \in Message, Write(m) PROVE FlightInv'
  BY <1>4, PutFlight DEF Write
<1>5. ASSUME NEW r \in Request, RequestClosed(r) PROVE FlightInv'
  BY <1>1, <1>5 DEF RequestClosed
<1>6. ASSUME NEW e \in Event, Emit(e) PROVE FlightInv'
  BY <1>1, <1>6 DEF Emit
<1>7. CASE Close
  BY <1>1, <1>7 DEF Close
<1>8. CASE UNCHANGED vars
  BY <1>1, <1>8 DEF vars, mainVars
<1>9. CASE MainStep
  BY <1>2, <1>9, ResumeFlight, ReceiveReadFlight, ReceiveEventFlight DEF MainStep
<1>10. CASE UserStep
  BY <1>3, <1>4, <1>5, <1>6, <1>7, <1>10 DEF UserStep
<1> QED BY <1>8, <1>9, <1>10, Steps, WorkerFlight

LEMMA InitFlight == Init => FlightInv
<1> SUFFICES ASSUME Init PROVE FlightInv
  OBVIOUS
<1>1. ToSet(<<>>) = {}
  BY DEF ToSet
<1> QED BY <1>1 DEF Init, FlightInv, DueCalls

(* The requests being evaluated, the responses on their way, what has not  *)
(* been read yet and what nobody will read.                                *)
Items == {stack[i].item : i \in 1 .. Len(stack)} \cap Request
Responses == {p.request : p \in {q \in ToSet(toMain) : q.type = "response"}}
Ahead == Answered \cup DueMessages \cup ToSet(inputQueue)
Discarded == dropped \cup lost

(* Frames have calls and requests of their own, and a request is answered  *)
(* once.                                                                   *)
CallsOnce ==
    \A i, j \in 1 .. Len(stack) :
        stack[i].call = stack[j].call /\ stack[i].call # None => i = j
ItemsOnce ==
    \A i, j \in 1 .. Len(stack) :
        stack[i].item = stack[j].item /\ stack[i].item \in Request => i = j
ResponsesOnce ==
    \A i, j \in 1 .. Len(toMain) :
        toMain[i] = toMain[j] /\ toMain[i].type = "response" => i = j

(* A written request whose promise is open is read later, evaluated,       *)
(* answered or discarded, and no two of these.                             *)
Accounts ==
    /\ Items \cup Responses \subseteq ToSet(consumed)
    /\ Items \cap Responses = {}
    /\ Discarded \cap Message \subseteq ToSet(written)
    /\ Discarded \cap (Items \cup Responses \cup Ahead) = {}
    /\ parked \cap ToSet(written) = Request \cap (Ahead \cup Items \cup Responses \cup Discarded)
AccountInv == CallsOnce /\ ItemsOnce /\ ResponsesOnce /\ Accounts

LEMMA FramesCalls ==
    ASSUME stack \in Seq(Frame), CallsOnce, NEW k \in Nat, NEW n \in Nat, Keeps(k, n), NEW c,
           c # None => \A i \in 1 .. k : stack[i].call # c,
           \A i \in k + 1 .. k + n : stack'[i].call = None \/ (stack'[i].call = c /\ i = k + n)
    PROVE  CallsOnce'
<1>1. /\ Len(stack') = k + n /\ k <= Len(stack) /\ Len(stack) \in Nat
      /\ \A i \in 1 .. k : stack'[i] = stack[i]
  BY DEF Keeps
<1>2. ASSUME NEW i \in 1 .. Len(stack'), NEW j \in 1 .. Len(stack'),
             stack'[i].call = stack'[j].call, stack'[i].call # None
      PROVE  i = j
  <2>1. CASE i \in 1 .. k /\ j \in 1 .. k
    BY <1>1, <1>2, <2>1 DEF CallsOnce
  <2>2. CASE i \in k + 1 .. k + n /\ j \in k + 1 .. k + n
    BY <1>2, <2>2
  <2>3. CASE i \in 1 .. k /\ j \in k + 1 .. k + n
    BY <1>1, <1>2, <2>3
  <2>4. CASE i \in k + 1 .. k + n /\ j \in 1 .. k
    BY <1>1, <1>2, <2>4
  <2> QED BY <1>1, <2>1, <2>2, <2>3, <2>4
<1> QED BY <1>2 DEF CallsOnce

LEMMA FramesItems ==
    ASSUME stack \in Seq(Frame), ItemsOnce, NEW k \in Nat, NEW n \in Nat, Keeps(k, n),
           \A i \in k + 1 .. k + n : stack'[i].item \notin Request
    PROVE  ItemsOnce' /\ Items' = {stack[i].item : i \in 1 .. k} \cap Request
<1>1. /\ Len(stack') = k + n /\ k <= Len(stack) /\ Len(stack) \in Nat
      /\ \A i \in 1 .. k : stack'[i] = stack[i]
  BY DEF Keeps
<1>2. \A i \in 1 .. Len(stack') : stack'[i].item \in Request => i \in 1 .. k
  BY <1>1
<1>3. \A i \in 1 .. k : i \in 1 .. Len(stack') /\ i \in 1 .. Len(stack)
  BY <1>1
<1>4. ItemsOnce'
  BY <1>1, <1>2, <1>3 DEF ItemsOnce
<1>5. Items' = {stack'[i].item : i \in 1 .. Len(stack')} \cap Request
  BY DEF Items
<1>6. Items' = {stack[i].item : i \in 1 .. k} \cap Request
  BY <1>1, <1>2, <1>3, <1>5
<1> QED BY <1>4, <1>6

LEMMA ItemsBelow ==
    ASSUME stack \in Seq(Frame), NEW k \in 0 .. Len(stack),
           \A i \in k + 1 .. Len(stack) : stack[i].item \notin Request
    PROVE  Items = {stack[i].item : i \in 1 .. k} \cap Request
<1>1. \A i \in 1 .. Len(stack) : stack[i].item \in Request => i \in 1 .. k
  OBVIOUS
<1>2. \A i \in 1 .. k : i \in 1 .. Len(stack)
  OBVIOUS
<1> QED BY <1>1, <1>2 DEF Items

(* The frames that a step puts have no request, and those that it takes    *)
(* none.                                                                   *)
LEMMA SameItems ==
    ASSUME stack \in Seq(Frame), ItemsOnce, NEW k \in Nat, NEW n \in Nat, Keeps(k, n),
           \A i \in k + 1 .. k + n : stack'[i].item \notin Request,
           \A i \in k + 1 .. Len(stack) : stack[i].item \notin Request
    PROVE  ItemsOnce' /\ Items' = Items
<1>1. k \in 0 .. Len(stack)
  BY DEF Keeps
<1> QED BY <1>1, FramesItems, ItemsBelow

LEMMA ResponsesPosted ==
    ASSUME TypeOK, ResponsesOnce, NEW R, Posts(R),
           \A i, j \in 1 .. Len(R) : R[i] = R[j] => i = j,
           \A i \in 1 .. Len(R) : R[i].request \notin Responses
    PROVE  ResponsesOnce' /\ Responses' = Responses \cup {R[i].request : i \in 1 .. Len(R)}
<1> DEFINE L == Len(toMain)
           n == Len(R)
           q == toMain \o R
<1>1. /\ toMain \in Seq(Post) /\ R \in Seq(Post) /\ \A i \in 1 .. n : ~ Asks(R[i])
      /\ ToSet(toMain) = {toMain[i] : i \in 1 .. L}
  BY SetOfSeq DEF Posts, Responds, TypeOK
<1>2. /\ L \in Nat /\ n \in Nat /\ Len(q) = L + n /\ q \in Seq(Post)
      /\ \A i \in 1 .. L : q[i] = toMain[i]
      /\ \A i \in L + 1 .. L + n : q[i] = R[i - L] /\ i - L \in 1 .. n
      /\ ToSet(q) = ToSet(toMain) \cup ToSet(R)
  BY <1>1, ConcatAt, SetOfConcat
<1>3. \A i \in 1 .. L : toMain[i].type = "response" => toMain[i].request \in Responses
  BY <1>1 DEF Responses
<1>4. ToSet(R) = {R[i] : i \in 1 .. n} /\ \A x \in ToSet(R) : x.type = "response"
  BY <1>1, SetOfSeq DEF Asks
<1>5. {p.request : p \in {x \in ToSet(q) : x.type = "response"}}
          = Responses \cup {R[i].request : i \in 1 .. n}
  <2>1. {x \in ToSet(q) : x.type = "response"}
            = {x \in ToSet(toMain) : x.type = "response"} \cup ToSet(R)
    BY <1>2, <1>4
  <2>2. {p.request : p \in ToSet(R)} = {R[i].request : i \in 1 .. n}
    BY <1>4
  <2> DEFINE A == {x \in ToSet(toMain) : x.type = "response"}
             B == ToSet(R)
  <2>3. Responses = {p.request : p \in A}
    BY DEF Responses
  <2> HIDE DEF q, n, A, B
  <2>4. {p.request : p \in A \cup B} = {p.request : p \in A} \cup {p.request : p \in B}
    OBVIOUS
  <2> QED BY <2>1, <2>2, <2>3, <2>4 DEF A, B
<1> HIDE DEF q, L, n
<1>6. ASSUME NEW i \in 1 .. L + n, NEW j \in 1 .. L + n, q[i] = q[j], q[i].type = "response"
      PROVE  i = j
  <2>1. CASE i \in 1 .. L /\ j \in 1 .. L
    BY <1>2, <1>6, <2>1 DEF ResponsesOnce, L
  <2>2. CASE i \in L + 1 .. L + n /\ j \in L + 1 .. L + n
    <3>1. i - L = j - L
      BY <1>2, <1>6, <2>2 DEF n
    <3> QED BY <1>2, <3>1
  <2>3. CASE i \in 1 .. L /\ j \in L + 1 .. L + n
    <3>1. q[i].request \in Responses
      BY <1>2, <1>3, <1>6, <2>3
    <3>2. j - L \in 1 .. Len(R) /\ q[j] = R[j - L]
      BY <1>2, <2>3 DEF n
    <3> QED BY <1>6, <3>1, <3>2
  <2>4. CASE i \in L + 1 .. L + n /\ j \in 1 .. L
    <3>1. q[j].request \in Responses
      BY <1>2, <1>3, <1>6, <2>4
    <3>2. i - L \in 1 .. Len(R) /\ q[i] = R[i - L]
      BY <1>2, <2>4 DEF n
    <3> QED BY <1>6, <3>1, <3>2
  <2> QED BY <1>2, <2>1, <2>2, <2>3, <2>4
<1>7. CASE toMain' = q
  <2>1. ResponsesOnce'
    BY <1>2, <1>6, <1>7 DEF ResponsesOnce
  <2>2. Responses' = {p.request : p \in {x \in ToSet(q) : x.type = "response"}}
    BY <1>7 DEF Responses
  <2> QED BY <1>5, <2>1, <2>2 DEF n
<1>8. ASSUME NEW type \in {"read", "event"}, NEW c \in Call, Ask(type, c, R)
      PROVE  ResponsesOnce' /\ Responses' = Responses \cup {R[i].request : i \in 1 .. Len(R)}
  <2> DEFINE p == [type |-> type, call |-> c]
  <2>1. p.type # "response" /\ p \in Post
    BY DEF Post
  <2>2. toMain' = toMain \o R \o <<p>>
    BY <1>8 DEF Ask
  <2> HIDE DEF p
  <2>3. toMain' = Append(q, p)
    BY <1>1, <2>1, <2>2 DEF q
  <2>4. /\ Len(toMain') = L + n + 1 /\ toMain'[L + n + 1] = p
        /\ \A i \in 1 .. L + n : toMain'[i] = q[i]
        /\ ToSet(toMain') = ToSet(q) \cup {p}
    BY <1>2, <2>3, AppendAt, SetOfAppend
  <2>5. \A i \in 1 .. Len(toMain') : toMain'[i].type = "response" =>
           i \in 1 .. L + n /\ toMain'[i] = q[i]
    BY <1>2, <2>1, <2>4
  <2>6. ResponsesOnce'
    BY <1>6, <2>5 DEF ResponsesOnce
  <2>7. Responses' = {x.request : x \in {y \in ToSet(q) : y.type = "response"}}
    BY <2>1, <2>4 DEF Responses
  <2> QED BY <1>5, <2>6, <2>7 DEF n
<1> QED BY <1>7, <1>8 DEF Posts, q

(* Nothing is posted, or a call alone.                                     *)
LEMMA NoneResponded ==
    ASSUME TypeOK, ResponsesOnce, Posts(<<>>)
    PROVE  ResponsesOnce' /\ Responses' = Responses
<1>1. PICK R : R = <<>>
  OBVIOUS
<1>2. Posts(R) /\ Len(R) = 0
  BY <1>1
<1>3. \A i \in 1 .. Len(R) : FALSE
  BY <1>2
<1>4. ResponsesOnce' /\ Responses' = Responses \cup {R[i].request : i \in 1 .. Len(R)}
  BY <1>2, <1>3, ResponsesPosted
<1> QED BY <1>3, <1>4

(* An interrupt answers every request that it unwinds, once: the frames    *)
(* that it unwinds are met in turn, innermost first, and as often as there *)
(* are of them.                                                            *)
LEMMA AllUnwound ==
    ASSUME TypeOK, NEW k \in Nat, NEW u \in Unwindings(k)
    PROVE  LET evals == {i \in k + 1 .. Len(stack) : stack[i].item \in Request}
           IN  /\ Len(AnswerUnwound(u)) \in Nat
               /\ \A i, j \in 1 .. Len(AnswerUnwound(u)) : u[i] = u[j] => i = j
               /\ \A i \in 1 .. Len(AnswerUnwound(u)) :
                      /\ u[i] \in evals
                      /\ AnswerUnwound(u)[i] = Response(stack[u[i]].item)
               /\ \A e \in evals : \E i \in 1 .. Len(AnswerUnwound(u)) : u[i] = e
<1> DEFINE evals == {i \in k + 1 .. Len(stack) : stack[i].item \in Request}
           n == Cardinality(evals)
<1>1. Len(stack) \in Nat
  BY DEF TypeOK
<1>2. IsFiniteSet(evals) /\ n \in Nat
  <2>1. IsFiniteSet(k + 1 .. Len(stack))
    BY <1>1, FS_Interval
  <2>2. evals \in SUBSET (k + 1 .. Len(stack))
    OBVIOUS
  <2>3. IsFiniteSet(evals)
    BY <2>1, <2>2, FS_Subset
  <2> QED BY <2>3, FS_CardinalityType
<1>3. u \in [1 .. n -> evals] /\ \A i, j \in 1 .. n : i < j => u[i] > u[j]
  BY DEF Unwindings
<1>4. \A e \in evals : e \in Int
  BY <1>1
<1> HIDE DEF evals, n
<1>5. \A i \in 1 .. n : u[i] \in evals /\ u[i] \in Int
  BY <1>3, <1>4
<1>6. ASSUME NEW i \in 1 .. n, NEW j \in 1 .. n, u[i] = u[j] PROVE i = j
  <2>1. ~ (u[i] > u[j]) /\ ~ (u[j] > u[i])
    BY <1>5, <1>6
  <2>2. ~ (i < j) /\ ~ (j < i)
    BY <1>3, <2>1
  <2> QED BY <1>2, <2>2
<1>7. u \in Injection(1 .. n, evals)
  BY <1>3, <1>6 DEF Injection, IsInjective
<1>8. Cardinality(1 .. n) = n /\ IsFiniteSet(1 .. n)
  BY <1>2, FS_Interval
<1>9. u \in Surjection(1 .. n, evals)
  <2>1. Cardinality(1 .. n) = Cardinality(evals)
    BY <1>8 DEF n
  <2> QED BY <1>2, <1>7, <2>1, FS_Injection
<1>10. \A e \in evals : \E i \in 1 .. n : u[i] = e
  BY <1>9 DEF Surjection
<1>11. Len(u) = n
  BY <1>2, <1>3
<1>12. AnswerUnwound(u) = [i \in 1 .. n |-> Response(stack[u[i]].item)]
  BY <1>11 DEF AnswerUnwound
<1>13. Len(AnswerUnwound(u)) = n /\ \A i \in 1 .. n : AnswerUnwound(u)[i] = Response(stack[u[i]].item)
  BY <1>2, <1>12
<1> QED BY <1>2, <1>5, <1>6, <1>10, <1>13 DEF evals

(* The messages that are ahead are nowhere twice, and have not been        *)
(* consumed.                                                               *)
LEMMA Apart ==
    ASSUME TypeOK, OrderInv
    PROVE  /\ \A x : ~ Precedes(written, x, x)
           /\ Answered \cap DueMessages = {} /\ Answered \cap ToSet(inputQueue) = {}
           /\ DueMessages \cap ToSet(inputQueue) = {} /\ ToSet(consumed) \cap Ahead = {}
           /\ \A i, j \in 1 .. Len(due) : due[i].message = due[j].message => i = j
           /\ \A i, j \in 1 .. Len(inputQueue) : inputQueue[i] = inputQueue[j] => i = j
           /\ Ahead \cup ToSet(consumed) \subseteq ToSet(written)
<1>1. \A x : ~ Precedes(written, x, x)
  <2>1. \A i, j \in 1 .. Len(written) : i < j => written[i] # written[j]
    <3>1. Len(written) \in Nat
      BY DEF TypeOK
    <3> QED BY <3>1 DEF OrderInv
  <2> QED BY <2>1 DEF Precedes
<1>2. /\ Answered \cap DueMessages = {} /\ Answered \cap ToSet(inputQueue) = {}
      /\ DueMessages \cap ToSet(inputQueue) = {} /\ ToSet(consumed) \cap Ahead = {}
  BY <1>1 DEF OrderInv, AllPrecede, Ahead
<1>3. Len(due) \in Nat /\ Len(inputQueue) \in Nat
  BY DEF TypeOK
<1>4. ASSUME NEW i \in 1 .. Len(due), NEW j \in 1 .. Len(due), due[i].message = due[j].message PROVE i = j
  <2>1. ~ (i < j) /\ ~ (j < i)
    BY <1>1, <1>4 DEF OrderInv, DueInOrder
  <2> QED BY <1>3, <2>1
<1>5. ASSUME NEW i \in 1 .. Len(inputQueue), NEW j \in 1 .. Len(inputQueue), inputQueue[i] = inputQueue[j] PROVE i = j
  <2>1. ~ (i < j) /\ ~ (j < i)
    BY <1>1, <1>5 DEF OrderInv, InOrder
  <2> QED BY <1>3, <2>1
<1> QED BY <1>1, <1>2, <1>4, <1>5 DEF OrderInv, Ahead

LEMMA SameStack ==
    ASSUME CallsOnce, ItemsOnce, UNCHANGED stack
    PROVE  CallsOnce' /\ ItemsOnce' /\ Items' = Items
BY DEF CallsOnce, ItemsOnce, Items

LEMMA SamePosts ==
    ASSUME ResponsesOnce, UNCHANGED toMain
    PROVE  ResponsesOnce' /\ Responses' = Responses
BY DEF ResponsesOnce, Responses

LEMMA ReceivedResponses ==
    ASSUME TypeOK, ResponsesOnce, NEW type \in {"read", "event", "response"}, Received(type)
    PROVE  /\ ResponsesOnce'
           /\ type # "response" => Responses' = Responses
           /\ type = "response" => /\ Head(toMain).request \in Responses
                                   /\ Responses' = Responses \ {Head(toMain).request}
<1>1. toMain # <<>> /\ Head(toMain).type = type /\ toMain' = Tail(toMain)
  BY DEF Received
<1>2. /\ Len(toMain) \in Nat /\ Len(toMain) >= 1 /\ Head(toMain) = toMain[1]
      /\ Len(toMain') = Len(toMain) - 1
      /\ \A i \in 1 .. Len(toMain) - 1 : toMain'[i] = toMain[i + 1] /\ i + 1 \in 2 .. Len(toMain)
  BY <1>1, TailAt DEF TypeOK
<1>3. /\ ToSet(toMain) = ToSet(toMain') \cup {Head(toMain)} /\ ToSet(toMain) \subseteq Post
      /\ Head(toMain) \in Post /\ toMain' \in Seq(Post)
  BY <1>1, SetOfTail DEF TypeOK
<1>4. /\ 1 \in 1 .. Len(toMain)
      /\ \A i \in 1 .. Len(toMain') : /\ i + 1 \in 1 .. Len(toMain) /\ toMain'[i] = toMain[i + 1]
                                      /\ i + 1 # 1 /\ i \in Int
  BY <1>2
<1>5. ASSUME NEW i \in 1 .. Len(toMain'), NEW j \in 1 .. Len(toMain'),
             toMain'[i] = toMain'[j], toMain'[i].type = "response"
      PROVE  i = j
  <2>1. i + 1 = j + 1
    BY <1>4, <1>5 DEF ResponsesOnce
  <2> QED BY <1>4, <2>1
<1>6. ASSUME type # "response" PROVE Responses' = Responses
  BY <1>1, <1>3, <1>6 DEF Responses
<1>7. ASSUME type = "response"
      PROVE  /\ Head(toMain).request \in Responses
             /\ Responses' = Responses \ {Head(toMain).request}
  <2>1. Responses = Responses' \cup {Head(toMain).request}
    BY <1>1, <1>3, <1>7 DEF Responses
  <2>2. ASSUME Head(toMain).request \in Responses' PROVE FALSE
    <3>1. PICK p \in ToSet(toMain') : p.type = "response" /\ p.request = Head(toMain).request
      BY <2>2 DEF Responses
    <3>2. p \in Post /\ Head(toMain) \in Post
      BY <1>3, <3>1
    <3>3. p = Head(toMain)
      BY <1>1, <1>7, <3>1, <3>2 DEF Post
    <3>4. PICK i \in 1 .. Len(toMain') : p = toMain'[i]
      BY <1>3, <3>1, SetOfSeq
    <3> QED BY <1>1, <1>2, <1>4, <1>7, <3>3, <3>4 DEF ResponsesOnce
  <2> QED BY <2>1, <2>2
<1> QED BY <1>5, <1>6, <1>7 DEF ResponsesOnce

(* What each step does to the accounts.                                    *)
LEMMA PutAhead ==
    ASSUME TypeOK, NEW m \in Message, Put(m), UNCHANGED answer
    PROVE  Ahead' = Ahead \cup {m}
<1>1. Answered' = Answered
  BY DEF Answered
<1>2. CASE inputQueue' = Append(inputQueue, m) /\ UNCHANGED due
  <2>1. ToSet(inputQueue') = ToSet(inputQueue) \cup {m} /\ DueMessages' = DueMessages
    BY <1>2, SetOfAppend DEF TypeOK, DueMessages
  <2> QED BY <1>1, <2>1 DEF Ahead
<1>3. CASE due' = Append(due, [call |-> Head(waiters), message |-> m]) /\ UNCHANGED inputQueue
  <2> DEFINE d == [call |-> Head(waiters), message |-> m]
  <2>1. due' = Append(due, d) /\ d.message = m
    BY <1>3
  <2> HIDE DEF d
  <2>2. ToSet(due') = ToSet(due) \cup {d}
    BY <2>1, SetOfAppend DEF TypeOK
  <2>3. DueMessages' = DueMessages \cup {m}
    BY <2>1, <2>2 DEF DueMessages
  <2> QED BY <1>1, <1>3, <2>3 DEF Ahead
<1> QED BY <1>2, <1>3 DEF Put, Store

LEMMA UserAccount ==
    ASSUME SharedChannelAssumption, TypeOK, OrderInv, AccountInv, UserStep
    PROVE  AccountInv'
<1>0. UNCHANGED <<stack, toMain, answer, consumed, lost>>
  BY DEF UserStep, Write, RequestClosed, Emit, RequestInterrupt, Close, history
<1>1. /\ CallsOnce' /\ ItemsOnce' /\ Items' = Items /\ ResponsesOnce' /\ Responses' = Responses
      /\ Answered' = Answered
  BY <1>0, SameStack, SamePosts DEF AccountInv, Answered
<1>2. ASSUME UNCHANGED <<inputQueue, due, written, parked, dropped>> PROVE Accounts'
  BY <1>0, <1>1, <1>2 DEF AccountInv, Accounts, Discarded, Ahead, DueMessages
<1>3. ASSUME NEW m \in Message, Write(m) PROVE Accounts'
  <2>1. /\ Ahead' = Ahead \cup {m} /\ ToSet(written') = ToSet(written) \cup {m} /\ m \notin ToSet(written)
        /\ parked' = parked \cup ({m} \cap Request) /\ UNCHANGED dropped
    BY <1>3, PutAhead, SetOfAppend DEF Write, TypeOK
  <2>2. Discarded' = Discarded
    BY <1>0, <2>1 DEF Discarded
  <2>3. Items \cup Responses \cup Ahead \cup ToSet(consumed) \subseteq ToSet(written)
    BY Apart DEF AccountInv, Accounts
  <2>4. parked \subseteq Request
    BY DEF TypeOK
  <2> DEFINE X == Items \cup Responses
             W == ToSet(written)
  <2>5. /\ Discarded \cap Message \subseteq W /\ Discarded \cap (X \cup Ahead) = {}
        /\ parked \cap W = Request \cap (Ahead \cup X \cup Discarded)
    BY DEF AccountInv, Accounts
  <2>6. m \notin Discarded
    BY <2>1, <2>5
  <2>7. Discarded \cap Message \subseteq W \cup {m} /\ Discarded \cap (X \cup Ahead \cup {m}) = {}
    BY <2>5, <2>6
  <2>8. (parked \cup ({m} \cap Request)) \cap (W \cup {m})
            = Request \cap (Ahead \cup {m} \cup X \cup Discarded)
    <3>1. Ahead \cup X \cup (Discarded \cap Request) \subseteq W
      BY <2>3, <2>5 DEF Message
    <3> HIDE DEF X, W
    <3> QED BY <2>1, <2>4, <2>5, <3>1
  <2> QED BY <1>0, <1>1, <2>1, <2>2, <2>7, <2>8 DEF AccountInv, Accounts
<1>4. ASSUME NEW r \in Request, RequestClosed(r) PROVE Accounts'
  <2>1. /\ r \notin ToSet(written) /\ parked' = parked \cup {r} /\ UNCHANGED <<inputQueue, due, written, dropped>>
    BY <1>4 DEF RequestClosed, history
  <2> QED BY <1>0, <1>1, <2>1 DEF AccountInv, Accounts, Discarded, Ahead, DueMessages
<1>5. ASSUME NEW e \in Event, Emit(e) PROVE Accounts'
  BY <1>2, <1>5 DEF Emit, history
<1>6. ASSUME Close PROVE Accounts'
  BY <1>2, <1>6 DEF Close, history
<1>7. ASSUME RequestInterrupt PROVE Accounts'
  <2>1. /\ inputQueue' = <<>> /\ dropped' = dropped \cup ToSet(inputQueue) /\ UNCHANGED <<due, written, parked>>
    BY <1>7 DEF RequestInterrupt
  <2>2. Ahead' = Ahead \ ToSet(inputQueue)
    <3>1. ToSet(inputQueue') = {}
      BY <2>1 DEF ToSet
    <3>2. (Answered \cup DueMessages) \cap ToSet(inputQueue) = {}
      BY Apart
    <3> QED BY <1>1, <2>1, <3>1, <3>2 DEF Ahead, DueMessages
  <2>3. Discarded' = Discarded \cup ToSet(inputQueue)
    BY <1>0, <2>1 DEF Discarded
  <2>4. /\ ToSet(inputQueue) \subseteq Ahead /\ Ahead \cap ToSet(consumed) = {}
        /\ ToSet(inputQueue) \subseteq ToSet(written)
    BY Apart DEF Ahead
  <2> QED BY <1>0, <1>1, <2>1, <2>2, <2>3, <2>4 DEF AccountInv, Accounts
<1> QED BY <1>1, <1>3, <1>4, <1>5, <1>6, <1>7 DEF UserStep, AccountInv

LEMMA ResumeAccount ==
    ASSUME SharedChannelAssumption, TypeOK, TypeOK', OrderInv, FlightInv, AccountInv, ResumeRead
    PROVE  AccountInv'
<1> DEFINE d == Head(due)
           m == Head(due).message
<1>1. /\ due # <<>> /\ due' = Tail(due)
      /\ UNCHANGED <<inputQueue, stack, toMain, consumed, written, dropped, parked>>
      /\ \/ answer' = [answer EXCEPT ![d.call] = m] /\ UNCHANGED lost
         \/ lost' = lost \cup {m} /\ UNCHANGED answer
  BY DEF ResumeRead
<1>2. /\ CallsOnce' /\ ItemsOnce' /\ Items' = Items /\ ResponsesOnce' /\ Responses' = Responses
  BY <1>1, SameStack, SamePosts DEF AccountInv
<1>3. /\ Len(due) \in Nat /\ Len(due) >= 1 /\ d = due[1] /\ Len(due') = Len(due) - 1
      /\ \A i \in 1 .. Len(due) - 1 : due'[i] = due[i + 1] /\ i + 1 \in 2 .. Len(due)
      /\ ToSet(due) = ToSet(due') \cup {d}
  BY <1>1, TailAt, SetOfTail DEF TypeOK
<1>4. 1 \in 1 .. Len(due) /\ d.call \in Call /\ m \in Message
  BY <1>3, DueOf
<1>5. answer[d.call] = None
  BY ResumeFlight
<1>6. DueMessages = DueMessages' \cup {m} /\ m \notin DueMessages'
  <2>1. DueMessages = DueMessages' \cup {m}
    BY <1>3 DEF DueMessages
  <2>2. ASSUME m \in DueMessages' PROVE FALSE
    <3>1. PICK x \in ToSet(due') : x.message = m
      BY <2>2 DEF DueMessages
    <3>0. due' \in Seq([call : Call, message : Message])
      BY DEF TypeOK
    <3>2. PICK i \in 1 .. Len(due') : x = due'[i]
      BY <3>0, <3>1, SetOfSeq
    <3>3. i + 1 \in 1 .. Len(due) /\ due[i + 1].message = due[1].message /\ i + 1 # 1
      BY <1>3, <3>1, <3>2
    <3> QED BY <1>4, <3>3, Apart
  <2> QED BY <2>1, <2>2
<1> HIDE DEF d, m
<1>7. CASE answer' = [answer EXCEPT ![d.call] = m] /\ UNCHANGED lost
  <2>1. Answered' = Answered \cup {m}
    <3>1. None \notin Message
      BY DEF Message, SharedChannelAssumption
    <3>2. answer'[d.call] = m /\ \A c \in Call : c # d.call => answer'[c] = answer[c]
      BY <1>4, <1>7 DEF TypeOK
    <3> QED BY <1>4, <1>5, <3>1, <3>2 DEF Answered
  <2>2. Ahead' = Ahead
    BY <1>1, <1>6, <2>1 DEF Ahead
  <2> QED BY <1>1, <1>2, <1>7, <2>2 DEF AccountInv, Accounts, Discarded
<1>8. CASE lost' = lost \cup {m} /\ UNCHANGED answer
  <2>1. Answered' = Answered
    BY <1>8 DEF Answered
  <2>2. Ahead' = Ahead \ {m} /\ m \in Ahead /\ m \notin ToSet(consumed) /\ m \in ToSet(written)
    BY <1>1, <1>6, <2>1, Apart DEF Ahead
  <2>3. Discarded' = Discarded \cup {m}
    BY <1>1, <1>8 DEF Discarded
  <2> QED BY <1>1, <1>2, <2>2, <2>3 DEF AccountInv, Accounts
<1> QED BY <1>1, <1>7, <1>8

LEMMA ReceiveReadAccount ==
    ASSUME SharedChannelAssumption, TypeOK, OrderInv, AccountInv, ReceiveRead
    PROVE  AccountInv'
<1>1. /\ Received("read")
      /\ UNCHANGED <<stack, answer, consumed, written, dropped, lost, parked>>
  BY DEF ReceiveRead, history
<1>2. /\ CallsOnce' /\ ItemsOnce' /\ Items' = Items /\ ResponsesOnce' /\ Responses' = Responses
      /\ Answered' = Answered /\ Discarded' = Discarded
  BY <1>1, SameStack, ReceivedResponses DEF AccountInv, Answered, Discarded
<1>3. Ahead' = Ahead
  <2>1. CASE UNCHANGED <<inputQueue, due>>
    BY <1>2, <2>1 DEF Ahead, DueMessages
  <2> DEFINE d == [call |-> Head(toMain).call, message |-> Head(inputQueue)]
  <2>2. CASE inputQueue # <<>> /\ due' = Append(due, d) /\ inputQueue' = Tail(inputQueue)
    <3>1. d.message = Head(inputQueue)
      OBVIOUS
    <3> HIDE DEF d
    <3>2. ToSet(due') = ToSet(due) \cup {d} /\ ToSet(inputQueue) = ToSet(inputQueue') \cup {Head(inputQueue)}
      BY <2>2, SetOfAppend, SetOfTail DEF TypeOK
    <3>3. DueMessages' = DueMessages \cup {Head(inputQueue)}
      BY <3>1, <3>2 DEF DueMessages
    <3> QED BY <1>2, <3>2, <3>3 DEF Ahead
  <2> QED BY <2>1, <2>2 DEF ReceiveRead
<1> QED BY <1>1, <1>2, <1>3 DEF AccountInv, Accounts

LEMMA ReceiveEventAccount ==
    ASSUME SharedChannelAssumption, TypeOK, TypeOK', FlightInv, AccountInv, ReceiveEvent
    PROVE  AccountInv'
<1> DEFINE c == Head(toMain).call
           e == IF eventQueue = <<>> THEN NoEvent ELSE Head(eventQueue)
<1>1. /\ Received("event")
      /\ UNCHANGED <<stack, inputQueue, due, consumed, written, dropped, parked>>
      /\ UNCHANGED answer \/ answer' = [answer EXCEPT ![c] = e]
      /\ lost' = lost \/ lost' = lost \cup ({e} \ {NoEvent})
  BY DEF ReceiveEvent
<1>2. /\ CallsOnce' /\ ItemsOnce' /\ Items' = Items /\ ResponsesOnce' /\ Responses' = Responses
      /\ DueMessages' = DueMessages
  BY <1>1, SameStack, ReceivedResponses DEF AccountInv, DueMessages
<1>3. e \notin Message
  <2>0. eventQueue \in Seq(Event \cup {Interrupt})
    BY DEF TypeOK
  <2>1. e \in Event \cup {Interrupt, NoEvent}
    BY <2>0
  <2> HIDE DEF e
  <2> QED BY <2>1 DEF Message, SharedChannelAssumption
<1>4. answer[c] = None /\ None \notin Message
  BY ReceiveEventFlight DEF Message, SharedChannelAssumption
<1> HIDE DEF c, e
<1>5. Answered' = Answered
  <2>1. answer \in [Call -> Answer]
    BY DEF TypeOK
  <2>2. UNCHANGED answer \/ answer' = [answer EXCEPT ![c] = e]
    BY <1>1
  <2>3. \A x \in Call : answer'[x] = answer[x] \/ (answer[x] \notin Message /\ answer'[x] \notin Message)
    BY <1>3, <1>4, <2>1, <2>2
  <2> QED BY <2>3 DEF Answered
<1>6. Ahead' = Ahead
  BY <1>1, <1>2, <1>5 DEF Ahead
<1>7. Discarded' \cap Message = Discarded \cap Message
  BY <1>1, <1>3 DEF Discarded
<1>8. Items \subseteq Message /\ Responses \subseteq Message /\ Ahead \subseteq Message
  <2>1. ToSet(consumed) \subseteq Message
    BY SetOfSeq DEF TypeOK
  <2>2. Items \cup Responses \subseteq Message
    BY <2>1 DEF AccountInv, Accounts
  <2>3. DueMessages \subseteq Message /\ ToSet(inputQueue) \subseteq Message
    <3>1. DueMessages \subseteq Message
      BY DueOf
    <3> QED BY <3>1, SetOfSeq DEF TypeOK
  <2> QED BY <2>2, <2>3 DEF Ahead, Answered
<1>9. Accounts'
  <2>1. Discarded' \cap (Items \cup Responses \cup Ahead) = {}
    BY <1>7, <1>8 DEF AccountInv, Accounts
  <2>2. Request \cap Discarded' = Request \cap Discarded
    BY <1>7 DEF Message
  <2>3. parked \cap ToSet(written) = Request \cap (Ahead \cup Items \cup Responses \cup Discarded')
    BY <2>2 DEF AccountInv, Accounts
  <2> QED BY <1>1, <1>2, <1>6, <1>7, <2>1, <2>3 DEF AccountInv, Accounts
<1> QED BY <1>2, <1>9 DEF AccountInv

LEMMA ReceiveResponseAccount ==
    ASSUME SharedChannelAssumption, TypeOK, OrderInv, AccountInv, ReceiveResponse
    PROVE  AccountInv'
<1> DEFINE r == Head(toMain).request
<1>1. /\ Received("response") /\ parked' = parked \ {r}
      /\ UNCHANGED <<stack, answer, inputQueue, due, consumed, written, dropped, lost>>
  BY DEF ReceiveResponse
<1>2. /\ CallsOnce' /\ ItemsOnce' /\ Items' = Items /\ ResponsesOnce'
      /\ r \in Responses /\ Responses' = Responses \ {r}
      /\ Ahead' = Ahead /\ Discarded' = Discarded
  BY <1>1, SameStack, ReceivedResponses DEF AccountInv, Answered, Discarded, Ahead, DueMessages
<1>3. r \notin Items /\ r \notin Ahead /\ r \notin Discarded
  BY <1>2, Apart DEF AccountInv, Accounts
<1> HIDE DEF r
<1> QED BY <1>1, <1>2, <1>3 DEF AccountInv, Accounts

(* A frame that gets its answer has no other message, and nobody else has  *)
(* one then.                                                               *)
LEMMA AnswerLeaves ==
    ASSUME SharedChannelAssumption, TypeOK, StackInv, CallInv, stack # <<>>, NEW m, Got(m), Taken
    PROVE  /\ Answered' = Answered \ {m}
           /\ m \in Message => m \in Answered
           /\ Top \in Frame /\ Top.call \in Call /\ answer[Top.call] = m
<1> DEFINE c == Top.call
<1>1. Top \in Frame /\ c \in Call /\ answer[c] = m
  <2>1. Top \in Frame
    BY TopFacts DEF TypeOK
  <2>2. Top.call \in Call \cup {None}
    BY <2>1 DEF Frame
  <2> QED BY <2>1, <2>2 DEF Got
<1>2. answer' = [answer EXCEPT ![c] = None]
  BY DEF Taken
<1> HIDE DEF c
<1>3. None \notin Message
  BY DEF Message, SharedChannelAssumption
<1>4. answer'[c] = None /\ \A b \in Call : b # c => answer'[b] = answer[b]
  BY <1>1, <1>2 DEF TypeOK
<1>5. \A b \in Call : answer[b] = m /\ m \in Message => b = c
  BY <1>1, OneAnswer
<1>6. Answered' = Answered \ {m}
  BY <1>1, <1>3, <1>4, <1>5 DEF Answered
<1> QED BY <1>1, <1>6 DEF Answered, c

LEMMA QuietAccount ==
    ASSUME TypeOK, AccountInv, CallsOnce', ItemsOnce', Items' = Items, Posts(<<>>),
           Answered' = Answered,
           UNCHANGED <<inputQueue, due, parked, written, consumed, dropped, lost>>
    PROVE  AccountInv'
<1>1. ResponsesOnce' /\ Responses' = Responses
  BY NoneResponded DEF AccountInv
<1>2. Ahead' = Ahead /\ Discarded' = Discarded
  BY DEF Ahead, Discarded, DueMessages
<1> QED BY <1>1, <1>2 DEF AccountInv, Accounts

LEMMA AskAccount ==
    ASSUME SharedChannelAssumption, TypeOK, StackInv, AccountInv, NEW c \in Call,
           ReadConsole(c) \/ StartEvents(c)
    PROVE  AccountInv'
<1>1. /\ Posts(<<>>) /\ NewCall(c)
      /\ UNCHANGED <<inputQueue, due, parked, answer, written, consumed, dropped, lost>>
  BY NoResponse DEF ReadConsole, StartEvents, Ask, Posts, mainVars, history
<1>2. /\ Keeps(Len(stack), 1) /\ Len(stack) \in Nat /\ stack \in Seq(Frame)
      /\ stack'[Len(stack) + 1] \in {Prompt(c), Events(c)}
  BY Shapes DEF TypeOK
<1> DEFINE f == stack'[Len(stack) + 1]
<1>3. f.call = c /\ f.item \notin Request
  BY <1>2, NewFrames
<1>4. \A i \in Len(stack) + 1 .. Len(stack) + 1 : stack'[i] = f
  BY <1>2
<1> HIDE DEF f
<1>5. CallsOnce'
  <2>0. PICK k, n : k = Len(stack) /\ n = 1
    OBVIOUS
  <2>1. \A i \in 1 .. k : stack[i].call # c
    BY <1>1, <2>0, FreshCall
  <2>2. \A i \in k + 1 .. k + n : stack'[i].call = None \/ (stack'[i].call = c /\ i = k + n)
    BY <1>2, <1>3, <1>4, <2>0
  <2>3. k \in Nat /\ n \in Nat /\ Keeps(k, n) /\ stack \in Seq(Frame) /\ CallsOnce
    BY <1>2, <2>0 DEF AccountInv
  <2> QED BY <2>1, <2>2, <2>3, FramesCalls
<1>6. ItemsOnce' /\ Items' = Items
  <2>1. \A i \in Len(stack) + 1 .. Len(stack) : stack[i].item \notin Request
    BY <1>2
  <2> QED BY <1>2, <1>3, <1>4, <2>1, SameItems DEF AccountInv
<1> QED BY <1>1, <1>5, <1>6, QuietAccount DEF Answered

(* The innermost frame leaves; it has evaluated no request.                *)
LEMMA TopLeaves ==
    ASSUME SharedChannelAssumption, TypeOK, StackInv, AccountInv, stack # <<>>,
           Top.item \notin Request, NEW n \in {0, 1}, Keeps(Len(stack) - 1, n),
           NEW c, c # None => \A i \in 1 .. Len(stack) - 1 : stack[i].call # c,
           n = 1 => /\ stack'[Len(stack)].item \notin Request
                    /\ stack'[Len(stack)].call \in {None, c}
    PROVE  CallsOnce' /\ ItemsOnce' /\ Items' = Items
<1>1. Len(stack) \in Nat /\ Len(stack) >= 1 /\ Top = stack[Len(stack)] /\ stack \in Seq(Frame)
  BY TopFacts DEF TypeOK
<1> DEFINE k == Len(stack) - 1
<1>2. k \in Nat /\ k + 1 = Len(stack) /\ Keeps(k, n) /\ n \in Nat
  BY <1>1
<1>3. \A i \in k + 1 .. k + n : i = Len(stack) /\ n = 1 /\ i = k + n
  BY <1>1
<1>4. \A i \in k + 1 .. Len(stack) : stack[i].item \notin Request
  BY <1>1
<1>5. \A i \in k + 1 .. k + n : /\ stack'[i].item \notin Request
                                /\ stack'[i].call = None \/ (stack'[i].call = c /\ i = k + n)
  BY <1>3
<1>6. c # None => \A i \in 1 .. k : stack[i].call # c
  OBVIOUS
<1> HIDE DEF k
<1>7. CallsOnce /\ ItemsOnce
  BY DEF AccountInv
<1>8. CallsOnce'
  <2>1. stack \in Seq(Frame)
    BY <1>1
  <2>2. \A i \in k + 1 .. k + n : stack'[i].call = None \/ (stack'[i].call = c /\ i = k + n)
    BY <1>5
  <2>3. k \in Nat /\ n \in Nat /\ Keeps(k, n)
    BY <1>2
  <2> QED BY <1>6, <1>7, <2>1, <2>2, <2>3, FramesCalls
<1>9. ItemsOnce' /\ Items' = Items
  <2>1. \A i \in k + 1 .. k + n : stack'[i].item \notin Request
    BY <1>5
  <2> QED BY <1>1, <1>2, <1>4, <1>7, <2>1, SameItems
<1> QED BY <1>8, <1>9

(* Of a prompt and of an event handler.                                    *)
LEMMA NothingEvaluated ==
    ASSUME SharedChannelAssumption, TypeOK, StackInv, stack # <<>>, Top.kind \in {"prompt", "events"}
    PROVE  Top.item \notin Request
<1>1. Len(stack) \in 1 .. Len(stack) /\ Top = stack[Len(stack)]
  BY TopFacts DEF TypeOK
<1>2. Top.item = None
  BY <1>1 DEF StackInv, WellFormed
<1> QED BY <1>2 DEF SharedChannelAssumption

LEMMA FinishLineAccount ==
    ASSUME SharedChannelAssumption, TypeOK, StackInv, AccountInv, FinishLine
    PROVE  AccountInv'
<1>1. /\ stack # <<>> /\ Top.item \notin Request /\ Posts(<<>>)
      /\ UNCHANGED <<inputQueue, due, parked, answer, written, consumed, dropped, lost>>
  BY NoResponse DEF FinishLine, TopIs, Posts, mainVars, history, SharedChannelAssumption
<1>2. Keeps(Len(stack) - 1, 0)
  BY Shapes DEF TypeOK
<1>3. CallsOnce' /\ ItemsOnce' /\ Items' = Items
  <2>1. None = None /\ 0 \in {0, 1}
    OBVIOUS
  <2> QED BY <1>1, <1>2, <2>1, TopLeaves
<1> QED BY <1>1, <1>3, QuietAccount DEF Answered

LEMMA EventsAccount ==
    ASSUME SharedChannelAssumption, TypeOK, StackInv, CallInv, AccountInv,
           EndEvents \/ \E e \in Event, c \in Call : HandleEvent(e, c)
    PROVE  AccountInv'
<1>1. CASE EndEvents
  <2>1. /\ stack # <<>> /\ Top.kind = "events" /\ Got(NoEvent) /\ Taken /\ Posts(<<>>)
        /\ UNCHANGED <<inputQueue, due, parked, written, consumed, dropped, lost>>
    BY <1>1, NoResponse DEF EndEvents, TopIs, Posts, mainVars, history
  <2>2. Keeps(Len(stack) - 1, 0)
    BY <1>1, Shapes DEF TypeOK
  <2>3. CallsOnce' /\ ItemsOnce' /\ Items' = Items
    <3>1. None = None /\ 0 \in {0, 1} /\ Top.item \notin Request
      BY <2>1, NothingEvaluated
    <3> QED BY <2>1, <2>2, <3>1, TopLeaves
  <2>4. Answered' = Answered
    <3>1. NoEvent \notin Message
      BY DEF Message, SharedChannelAssumption
    <3> QED BY <2>1, <3>1, AnswerLeaves DEF Answered
  <2> QED BY <2>1, <2>3, <2>4, QuietAccount
<1>2. ASSUME NEW e \in Event, NEW c \in Call, HandleEvent(e, c) PROVE AccountInv'
  <2>1. /\ stack # <<>> /\ Top.kind = "events" /\ Got(e) /\ Taken /\ Posts(<<>>) /\ NewCall(c)
        /\ UNCHANGED <<inputQueue, due, parked, written, consumed, dropped, lost>>
    BY <1>2, NoResponse DEF HandleEvent, Ask, TopIs, Posts, mainVars
  <2>2. Keeps(Len(stack) - 1, 1) /\ stack'[Len(stack)] = Events(c)
    BY <1>2, Shapes DEF TypeOK
  <2>3. CallsOnce' /\ ItemsOnce' /\ Items' = Items
    <3>1. 1 \in {0, 1} /\ Top.item \notin Request
      BY <2>1, NothingEvaluated
    <3>2. Events(c).item \notin Request /\ Events(c).call \in {None, c}
      BY NewFrames
    <3>3. \A i \in 1 .. Len(stack) - 1 : stack[i].call # c
      <4>1. \A i \in 1 .. Len(stack) : stack[i].call # c
        BY <2>1, FreshCall
      <4>2. Len(stack) \in Nat
        BY DEF TypeOK
      <4> QED BY <4>1, <4>2
    <3> QED BY <2>1, <2>2, <3>1, <3>2, <3>3, TopLeaves
  <2>4. Answered' = Answered
    <3>1. e \notin Message
      BY DEF Message, SharedChannelAssumption
    <3> QED BY <2>1, <3>1, AnswerLeaves DEF Answered
  <2> QED BY <2>1, <2>3, <2>4, QuietAccount
<1> QED BY <1>1, <1>2

(* What the worker gets was ahead and is consumed.                         *)
LEMMA GotMessage ==
    ASSUME SharedChannelAssumption, TypeOK, StackInv, CallInv, OrderInv, AccountInv,
           NEW m \in Message, GetLine(m) \/ GetRequest(m)
    PROVE  /\ stack # <<>> /\ Top.kind = "prompt" /\ Top.item \notin Request /\ Posts(<<>>)
           /\ m \in Ahead /\ Ahead' = Ahead \ {m}
           /\ m \notin ToSet(consumed) /\ ToSet(consumed') = ToSet(consumed) \cup {m}
           /\ m \notin Items \cup Responses \cup Discarded
           /\ ResponsesOnce' /\ Responses' = Responses /\ Discarded' = Discarded
           /\ UNCHANGED <<written, parked>>
<1>1. /\ stack # <<>> /\ Top.kind = "prompt" /\ Got(m) /\ Taken /\ Posts(<<>>)
      /\ consumed' = Append(consumed, m)
      /\ UNCHANGED <<inputQueue, due, parked, written, dropped, lost>>
  BY NoResponse DEF GetLine, GetRequest, TopIs, Posts, mainVars
<1>2. Top.item \notin Request
  BY <1>1, NothingEvaluated
<1>3. m \in Answered /\ Answered' = Answered \ {m}
  BY <1>1, AnswerLeaves
<1>4. m \in Ahead /\ Ahead' = Ahead \ {m} /\ m \notin ToSet(consumed)
  <2>1. DueMessages' = DueMessages
    BY <1>1 DEF DueMessages
  <2> QED BY <1>1, <1>3, <2>1, Apart DEF Ahead
<1>5. ToSet(consumed') = ToSet(consumed) \cup {m}
  BY <1>1, SetOfAppend DEF TypeOK
<1>6. m \notin Items \cup Responses \cup Discarded
  BY <1>4 DEF AccountInv, Accounts
<1>7. ResponsesOnce' /\ Responses' = Responses /\ Discarded' = Discarded
  BY <1>1, NoneResponded DEF AccountInv, Discarded
<1> QED BY <1>1, <1>2, <1>4, <1>5, <1>6, <1>7

LEMMA GetLineAccount ==
    ASSUME SharedChannelAssumption, TypeOK, StackInv, CallInv, OrderInv, AccountInv,
           NEW m \in Message, GetLine(m)
    PROVE  AccountInv'
<1>1. /\ stack # <<>> /\ Top.item \notin Request
      /\ m \in Ahead /\ Ahead' = Ahead \ {m}
      /\ m \notin ToSet(consumed) /\ ToSet(consumed') = ToSet(consumed) \cup {m}
      /\ m \notin Items \cup Responses \cup Discarded
      /\ ResponsesOnce' /\ Responses' = Responses /\ Discarded' = Discarded
      /\ UNCHANGED <<written, parked>>
  BY GotMessage
<1>2. m \notin Request
  BY DEF GetLine, SharedChannelAssumption
<1>3. CallsOnce' /\ ItemsOnce' /\ Items' = Items
  <2>1. 0 \in {0, 1} /\ 1 \in {0, 1} /\ None = None
    OBVIOUS
  <2>2. CASE Keeps(Len(stack) - 1, 0)
    BY <1>1, <2>1, <2>2, TopLeaves
  <2>3. CASE Keeps(Len(stack) - 1, 1) /\ stack'[Len(stack)] = Eval(m)
    <3>1. Eval(m).item \notin Request /\ Eval(m).call \in {None}
      BY <1>2, NewDispatch
    <3> QED BY <1>1, <2>1, <2>3, <3>1, TopLeaves
  <2> QED BY <2>2, <2>3, Shapes DEF TypeOK
<1> QED BY <1>1, <1>2, <1>3 DEF AccountInv, Accounts

LEMMA GetRequestAccount ==
    ASSUME SharedChannelAssumption, TypeOK, StackInv, CallInv, OrderInv, AccountInv,
           NEW m \in Message, GetRequest(m)
    PROVE  AccountInv'
<1>1. /\ stack # <<>> /\ Top.item \notin Request
      /\ m \in Ahead /\ Ahead' = Ahead \ {m}
      /\ m \notin ToSet(consumed) /\ ToSet(consumed') = ToSet(consumed) \cup {m}
      /\ m \notin Items \cup Responses \cup Discarded
      /\ ResponsesOnce' /\ Responses' = Responses /\ Discarded' = Discarded
      /\ UNCHANGED <<written, parked>>
  BY GotMessage
<1>2. m \in Request
  BY DEF GetRequest
<1>3. /\ Keeps(Len(stack) - 1, 2)
      /\ stack'[Len(stack)] = Prompt(None) /\ stack'[Len(stack) + 1] = Eval(m)
  BY Shapes DEF TypeOK
<1>4. Len(stack) \in Nat /\ Len(stack) >= 1 /\ Top = stack[Len(stack)] /\ stack \in Seq(Frame)
  BY <1>1, TopFacts DEF TypeOK
<1>5. /\ Prompt(None).item \notin Request /\ Prompt(None).call = None
      /\ Eval(m).item = m /\ Eval(m).call = None
  BY NewDispatch
<1> DEFINE L == Len(stack)
<1>6. /\ Len(stack') = L + 1 /\ \A i \in 1 .. L - 1 : stack'[i] = stack[i]
      /\ L - 1 \in Nat /\ L - 1 \in 0 .. Len(stack) /\ Keeps(L - 1, 2)
  BY <1>3, <1>4 DEF Keeps
<1>7. Items = {stack[i].item : i \in 1 .. L - 1} \cap Request
  <2>1. \A i \in L - 1 + 1 .. Len(stack) : stack[i].item \notin Request
    BY <1>1, <1>4
  <2> QED BY <1>4, <1>6, <2>1, ItemsBelow
<1>8. CallsOnce'
  <2>1. \A i \in L - 1 + 1 .. L - 1 + 2 : stack'[i].call = None
    BY <1>3, <1>4, <1>5
  <2>2. None # None => \A i \in 1 .. L - 1 : stack[i].call # None
    OBVIOUS
  <2> QED BY <1>4, <1>6, <2>1, <2>2, FramesCalls DEF AccountInv
<1>9. \A i \in 1 .. L + 1 : \/ i \in 1 .. L - 1 /\ stack'[i] = stack[i] /\ i \in 1 .. Len(stack)
                            \/ i = L /\ stack'[i].item \notin Request
                            \/ i = L + 1 /\ stack'[i].item = m
  BY <1>3, <1>4, <1>5, <1>6
<1>10. \A i \in 1 .. L - 1 : i \in 1 .. Len(stack') /\ stack'[i] = stack[i] /\ stack[i].item # m
  <2>1. \A i \in 1 .. L - 1 : stack[i].item \in Request => stack[i].item \in Items
    BY <1>7
  <2> QED BY <1>1, <1>2, <1>4, <1>6, <2>1
<1>11. L + 1 \in 1 .. Len(stack') /\ stack'[L + 1].item = m
  BY <1>3, <1>4, <1>5, <1>6
<1> HIDE DEF L
<1>12. ItemsOnce'
  BY <1>6, <1>9, <1>10 DEF AccountInv, ItemsOnce
<1>13. Items' = Items \cup {m}
  <2>1. Items' = {stack'[i].item : i \in 1 .. Len(stack')} \cap Request
    BY DEF Items
  <2> QED BY <1>2, <1>6, <1>7, <1>9, <1>10, <1>11, <2>1
<1> QED BY <1>1, <1>2, <1>8, <1>12, <1>13 DEF AccountInv, Accounts

LEMMA FinishRequestAccount ==
    ASSUME SharedChannelAssumption, TypeOK, StackInv, AccountInv, NEW c \in Call, FinishRequest(c)
    PROVE  AccountInv'
<1>1. /\ stack # <<>> /\ Top.item \in Request /\ Ask("read", c, <<Response(Top.item)>>)
      /\ UNCHANGED <<inputQueue, due, parked, answer, written, consumed, dropped, lost>>
  BY DEF FinishRequest, TopIs, mainVars, history
<1>2. PICK r \in Request : r = Top.item
  BY <1>1
<1>3. /\ Len(stack) > 1 /\ stack[Len(stack) - 1] = Prompt(None)
      /\ Keeps(Len(stack) - 2, 1) /\ stack'[Len(stack) - 1] = Prompt(c)
  BY Shapes DEF TypeOK
<1>4. Len(stack) \in Nat /\ Top = stack[Len(stack)] /\ stack \in Seq(Frame)
  BY <1>1, TopFacts DEF TypeOK
<1>5. /\ Prompt(None).item \notin Request /\ Prompt(c).item \notin Request /\ Prompt(c).call = c
  BY NewFrames
<1> DEFINE L == Len(stack)
           k == Len(stack) - 2
<1>6. /\ k \in Nat /\ Keeps(k, 1) /\ k + 1 = L - 1 /\ L = Len(stack)
      /\ \A i \in k + 1 .. k + 1 : i = L - 1 /\ stack'[i] = Prompt(c)
      /\ \A i \in 1 .. L : i \in 1 .. k \/ i = L - 1 \/ i = L
      /\ \A i \in 1 .. k : i \in 1 .. L /\ i # L
      /\ L \in 1 .. L
  BY <1>3, <1>4
<1>7. CallsOnce'
  <2>1. \A i \in 1 .. L : stack[i].call # c
    BY <1>1, FreshCall DEF Ask
  <2>2. /\ \A i \in 1 .. k : stack[i].call # c
        /\ \A i \in k + 1 .. k + 1 : stack'[i].call = None \/ (stack'[i].call = c /\ i = k + 1)
    BY <1>5, <1>6, <2>1
  <2> HIDE DEF k
  <2> QED BY <1>4, <1>6, <2>2, FramesCalls DEF AccountInv
<1> HIDE DEF L, k
<1>8. ItemsOnce' /\ Items' = {stack[i].item : i \in 1 .. k} \cap Request
  <2>1. \A i \in k + 1 .. k + 1 : stack'[i].item \notin Request
    BY <1>5, <1>6
  <2> QED BY <1>4, <1>6, <2>1, FramesItems DEF AccountInv
<1>9. stack[L].item = r /\ stack[L - 1].item \notin Request
  BY <1>2, <1>3, <1>4, <1>5 DEF L
<1>10. Items' = Items \ {r} /\ r \in Items
  <2>1. \A i \in 1 .. k : stack[i].item # r
    BY <1>6, <1>9 DEF AccountInv, ItemsOnce
  <2>2. Items = {stack[i].item : i \in 1 .. L} \cap Request
    BY <1>6 DEF Items
  <2> QED BY <1>6, <1>8, <1>9, <2>1, <2>2
<1>12. r \notin Responses
  BY <1>10 DEF AccountInv, Accounts
<1>13. PICK R : R = <<Response(r)>>
  OBVIOUS
<1>14. /\ Posts(R) /\ Len(R) = 1 /\ R[1] = Response(r) /\ Response(r).request = r
  <2>1. Ask("read", c, R)
    BY <1>1, <1>2, <1>13
  <2> QED BY <1>13, <2>1, OneResponse DEF Posts
<1>15. ResponsesOnce' /\ Responses' = Responses \cup {r}
  <2>1. \A i \in 1 .. Len(R) : i = 1 /\ R[i].request = r
    BY <1>14
  <2>2. {R[i].request : i \in 1 .. Len(R)} = {r}
    BY <1>14, <2>1
  <2> QED BY <1>12, <1>14, <2>1, <2>2, ResponsesPosted DEF AccountInv
<1>16. Ahead' = Ahead /\ Discarded' = Discarded
  BY <1>1 DEF Ahead, Answered, DueMessages, Discarded
<1> QED BY <1>1, <1>7, <1>8, <1>10, <1>15, <1>16 DEF AccountInv, Accounts

(* What an interrupt does to the answers: those of the frames that it      *)
(* unwinds are given up, the messages among them for good.                 *)
LEMMA UnwoundAnswers ==
    ASSUME SharedChannelAssumption, TypeOK, StackInv, CallInv, NEW k \in 0 .. MaxDepth, HandleInterrupt(k)
    PROVE  LET G == {answer[c] : c \in Gone(k)}
           IN  /\ k \in 0 .. Len(stack) /\ Gone(k) \subseteq Call /\ Top.call \in Gone(k)
               /\ answer[Top.call] = Interrupt
               /\ lost' = lost \cup ({answer[c] : c \in Gone(k) \ {Top.call}} \ {None, NoEvent})
               /\ answer' = [c \in Call |-> IF c \in Gone(k) THEN None ELSE answer[c]]
               /\ Answered' = Answered \ G
               /\ lost' \cap Message = (lost \cup G) \cap Message
<1>1. /\ lost' = lost \cup ({answer[c] : c \in Gone(k) \ {Top.call}} \ {None, NoEvent})
      /\ answer' = [c \in Call |-> IF c \in Gone(k) THEN None ELSE answer[c]]
      /\ stack # <<>> /\ Got(Interrupt)
  BY DEF HandleInterrupt, Gone, TopIs
<1>2. k \in 0 .. Len(stack) /\ k < Len(stack) /\ Len(stack) \in Nat
  BY Shapes DEF TypeOK, Keeps
<1>3. /\ Gone(k) \subseteq Call
      /\ \A i \in k + 1 .. Len(stack) : stack[i].call # None => stack[i].call \in Gone(k)
  BY <1>2, GoneCalls DEF TypeOK
<1>4. Top.call \in Gone(k) /\ answer[Top.call] = Interrupt
  <2>1. Top = stack[Len(stack)] /\ Len(stack) \in k + 1 .. Len(stack)
    BY <1>1, <1>2, TopFacts DEF TypeOK
  <2> QED BY <1>1, <1>3, <2>1 DEF Got
<1>5. Interrupt \notin Message /\ None \notin Message /\ NoEvent \notin Message
  BY DEF Message, SharedChannelAssumption
<1> DEFINE G == {answer[c] : c \in Gone(k)}
<1>6. Answered' = Answered \ G
  <2>1. \A c \in Call \ Gone(k) : answer[c] \in Message => answer[c] \notin G
    BY <1>3, OneAnswer
  <2>2. \A c \in Call : answer'[c] = IF c \in Gone(k) THEN None ELSE answer[c]
    BY <1>1
  <2>3. ASSUME NEW m \in Answered' PROVE m \in Answered \ G
    <3>1. PICK c \in Call : m = answer'[c] /\ m \in Message
      BY DEF Answered
    <3>2. c \notin Gone(k) /\ m = answer[c]
      BY <1>5, <2>2, <3>1
    <3> QED BY <2>1, <3>1, <3>2 DEF Answered
  <2>4. ASSUME NEW m \in Answered \ G PROVE m \in Answered'
    <3>1. PICK c \in Call : m = answer[c] /\ m \in Message
      BY DEF Answered
    <3>2. c \notin Gone(k)
      BY <2>4, <3>1
    <3>3. answer'[c] = m
      BY <2>2, <3>1, <3>2
    <3> QED BY <3>1, <3>3 DEF Answered
  <2> QED BY <2>3, <2>4
<1>7. lost' \cap Message = (lost \cup G) \cap Message
  BY <1>1, <1>4, <1>5
<1> QED BY <1>1, <1>2, <1>3, <1>4, <1>6, <1>7

LEMMA InterruptAccount ==
    ASSUME SharedChannelAssumption, TypeOK, TypeOK', StackInv, CallInv, OrderInv, AccountInv,
           NEW k \in 0 .. MaxDepth, HandleInterrupt(k)
    PROVE  AccountInv'
<1> DEFINE evals == {i \in k + 1 .. Len(stack) : stack[i].item \in Request}
           Under == {stack[i].item : i \in evals}
           G == {answer[c] : c \in Gone(k)}
<1>1. PICK u \in Unwindings(k) : toMain' = toMain \o AnswerUnwound(u)
  BY DEF HandleInterrupt
<1>2. UNCHANGED <<inputQueue, due, parked, written, consumed, dropped>>
  BY DEF HandleInterrupt, mainVars
<1>3. /\ Keeps(k, 0) /\ k \in Nat /\ k <= Len(stack) /\ Len(stack) \in Nat /\ stack \in Seq(Frame)
      /\ 0 \in Nat
  <2>1. Len(stack) \in Nat /\ stack \in Seq(Frame) /\ k \in Nat
    BY DEF TypeOK, SharedChannelAssumption
  <2>2. Keeps(k, 0) /\ k < Len(stack)
    BY <2>1, Shapes
  <2> QED BY <2>1, <2>2
<1>4. CallsOnce' /\ ItemsOnce' /\ Items' = {stack[i].item : i \in 1 .. k} \cap Request
  <2>1. \A i \in k + 1 .. k + 0 : FALSE
    BY <1>3
  <2> QED BY <1>3, <2>1, FramesCalls, FramesItems DEF AccountInv
<1>5. Items = Items' \cup Under /\ Items' \cap Under = {}
  <2>1. \A i \in 1 .. Len(stack) : i \in 1 .. k \/ i \in k + 1 .. Len(stack)
    BY <1>3
  <2>2. /\ \A i \in 1 .. k : i \in 1 .. Len(stack) /\ ~ (i \in k + 1 .. Len(stack))
        /\ \A i \in k + 1 .. Len(stack) : i \in 1 .. Len(stack)
    BY <1>3
  <2>3. Items = Items' \cup Under
    BY <1>4, <2>1, <2>2 DEF Items
  <2>4. Items' \cap Under = {}
    BY <1>4, <2>2 DEF AccountInv, ItemsOnce
  <2> QED BY <2>3, <2>4
<1>6. PICK R : R = AnswerUnwound(u)
  OBVIOUS
<1>7. /\ Posts(R) /\ Len(R) \in Nat
      /\ \A i, j \in 1 .. Len(R) : u[i] = u[j] => i = j
      /\ \A i \in 1 .. Len(R) : u[i] \in evals /\ R[i] = Response(stack[u[i]].item)
      /\ \A e \in evals : \E i \in 1 .. Len(R) : u[i] = e
  <2>1. Responds(R)
    BY <1>3, <1>6, UnwoundTypes DEF Responds, Asks
  <2>2. Posts(R)
    BY <1>1, <1>6, <2>1 DEF Posts
  <2> QED BY <1>3, <1>6, <2>2, AllUnwound
<1>8. /\ \A i \in 1 .. Len(R) : /\ u[i] \in evals /\ R[i].request = stack[u[i]].item
                                /\ R[i].request \in Under
      /\ {R[i].request : i \in 1 .. Len(R)} = Under
  <2> HIDE DEF evals
  <2>1. \A i \in 1 .. Len(R) : R[i].request = stack[u[i]].item
    <3>1. \A x : Response(x).request = x
      BY DEF Response
    <3> QED BY <1>7, <3>1
  <2> QED BY <1>7, <2>1
<1>9. \A i, j \in 1 .. Len(R) : R[i] = R[j] => i = j
  <2>1. \A i, j \in evals : stack[i].item = stack[j].item => i = j
    <3>1. \A i \in evals : i \in 1 .. Len(stack) /\ stack[i].item \in Request
      BY <1>3
    <3> QED BY <3>1 DEF AccountInv, ItemsOnce
  <2> HIDE DEF evals
  <2>2. ASSUME NEW i \in 1 .. Len(R), NEW j \in 1 .. Len(R), R[i] = R[j] PROVE i = j
    <3>1. stack[u[i]].item = stack[u[j]].item
      BY <1>8, <2>2
    <3>2. u[i] = u[j]
      BY <1>8, <2>1, <3>1
    <3> QED BY <1>7, <3>2
  <2> QED BY <2>2
<1> HIDE DEF Under, evals
<1>10. ResponsesOnce' /\ Responses' = Responses \cup Under
  <2>1. Under \cap Responses = {}
    BY <1>5 DEF AccountInv, Accounts
  <2>2. \A i \in 1 .. Len(R) : R[i].request \notin Responses
    BY <1>8, <2>1
  <2> QED BY <1>7, <1>8, <1>9, <2>2, ResponsesPosted DEF AccountInv
<1>11. /\ Answered' = Answered \ G
       /\ lost' \cap Message = (lost \cup G) \cap Message
  BY UnwoundAnswers
<1>12. G \cap Message \subseteq Answered
  <2>1. Gone(k) \subseteq Call
    BY UnwoundAnswers
  <2> QED BY <2>1 DEF Answered
<1> HIDE DEF G
<1>13. DueMessages' = DueMessages
  BY <1>2 DEF DueMessages
<1>14. Ahead' = Ahead \ (G \cap Message) /\ G \cap Message \subseteq Ahead /\ Ahead \subseteq Message
  <2>1. Answered \cap DueMessages = {} /\ Answered \cap ToSet(inputQueue) = {}
    BY Apart
  <2>2. Ahead \subseteq Message
    <3>1. ToSet(inputQueue) \subseteq Message
      BY SetOfSeq DEF TypeOK
    <3>2. DueMessages \subseteq Message
      BY DueOf
    <3> QED BY <3>1, <3>2 DEF Ahead, Answered
  <2>3. Ahead' = (Answered \ G) \cup DueMessages \cup ToSet(inputQueue)
    BY <1>2, <1>11, <1>13 DEF Ahead
  <2> QED BY <1>12, <2>1, <2>2, <2>3 DEF Ahead
<1> DEFINE M == G \cap Message
<1>15. Discarded' \cap Message = (Discarded \cap Message) \cup M
  BY <1>2, <1>11 DEF Discarded
<1>16. /\ M \subseteq Ahead /\ Ahead' = Ahead \ M /\ Ahead \subseteq Message
       /\ Ahead \cap ToSet(consumed) = {} /\ Ahead \subseteq ToSet(written)
  BY <1>14, Apart
<1> HIDE DEF M
<1>17. /\ Items \cup Responses \subseteq ToSet(consumed) /\ Items \cap Responses = {}
       /\ Discarded \cap Message \subseteq ToSet(written)
       /\ Discarded \cap (Items \cup Responses \cup Ahead) = {}
       /\ parked \cap ToSet(written) = Request \cap (Ahead \cup Items \cup Responses \cup Discarded)
       /\ ToSet(consumed) \subseteq Message /\ Request \subseteq Message
  BY SetOfSeq DEF AccountInv, Accounts, TypeOK, Message
<1>18. Items' \cup Responses' = Items \cup Responses /\ Items' \cap Responses' = {}
  BY <1>5, <1>10, <1>17
<1>19. Discarded' \cap (Items' \cup Responses' \cup Ahead') = {}
  <2>1. Items' \cup Responses' \cup Ahead' \subseteq Message
    BY <1>16, <1>17, <1>18
  <2> QED BY <1>15, <1>16, <1>17, <1>18, <2>1
<1>20. parked \cap ToSet(written) = Request \cap (Ahead' \cup Items' \cup Responses' \cup Discarded')
  <2>1. Request \cap Discarded' = Request \cap (Discarded \cup M)
    BY <1>15, <1>17
  <2>2. Ahead' \cup M = Ahead
    BY <1>16
  <2> QED BY <1>17, <1>18, <2>1, <2>2
<1>21. Discarded' \cap Message \subseteq ToSet(written)
  BY <1>15, <1>16, <1>17
<1> QED BY <1>2, <1>4, <1>10, <1>17, <1>18, <1>19, <1>20, <1>21 DEF AccountInv, Accounts

LEMMA AccountKept ==
    ASSUME SharedChannelAssumption, TypeOK, TypeOK', StackInv, CallInv, OrderInv, FlightInv,
           AccountInv, [Next]_vars
    PROVE  AccountInv'
<1>1. CASE UNCHANGED vars
  <2>1. UNCHANGED <<stack, toMain, answer, inputQueue, due, parked, written, consumed, dropped, lost>>
    BY <1>1 DEF vars, mainVars, history
  <2>2. /\ CallsOnce' /\ ItemsOnce' /\ Items' = Items /\ ResponsesOnce' /\ Responses' = Responses
    BY <2>1, SameStack, SamePosts DEF AccountInv
  <2>3. Ahead' = Ahead /\ Discarded' = Discarded
    BY <2>1 DEF Ahead, Answered, DueMessages, Discarded
  <2> QED BY <2>1, <2>2, <2>3 DEF AccountInv, Accounts
<1>2. CASE MainStep
  BY <1>2, ResumeAccount, ReceiveReadAccount, ReceiveEventAccount, ReceiveResponseAccount DEF MainStep
<1>3. CASE WorkerMoves
  <2>1. ASSUME NEW m \in Message, GetLine(m) \/ GetRequest(m) PROVE AccountInv'
    BY <2>1, GetLineAccount, GetRequestAccount
  <2>2. ASSUME NEW c \in Call, ReadConsole(c) \/ StartEvents(c) PROVE AccountInv'
    BY <2>2, AskAccount
  <2>3. ASSUME NEW c \in Call, FinishRequest(c) PROVE AccountInv'
    BY <2>3, FinishRequestAccount
  <2>4. ASSUME NEW k \in 0 .. MaxDepth, HandleInterrupt(k) PROVE AccountInv'
    BY <2>4, InterruptAccount
  <2> QED BY <1>3, <2>1, <2>2, <2>3, <2>4, FinishLineAccount, EventsAccount DEF WorkerMoves, WorkerStep
<1> QED BY <1>1, <1>2, <1>3, Steps, UserAccount

LEMMA InitAccount == SharedChannelAssumption /\ Init => AccountInv
<1> SUFFICES ASSUME SharedChannelAssumption, Init PROVE AccountInv
  OBVIOUS
<1>1. ToSet(<<>>) = {} /\ Len(<<>>) = 0
  BY DEF ToSet
<1>2. None \notin Message
  BY DEF Message, SharedChannelAssumption
<1>3. Answered = {} /\ DueMessages = {} /\ Responses = {} /\ Items = {} /\ Discarded = {} /\ Ahead = {}
  BY <1>1, <1>2 DEF Init, Answered, DueMessages, Responses, Items, Discarded, Ahead
<1> QED BY <1>1, <1>3 DEF Init, AccountInv, Accounts, CallsOnce, ItemsOnce, ResponsesOnce

LEMMA OnlyOne ==
    ASSUME NEW S, \A p, q \in S : p = q
    PROVE  Cardinality(S) = IF S = {} THEN 0 ELSE 1
<1>1. CASE S = {}
  BY <1>1, FS_EmptySet
<1>2. CASE S # {}
  <2>1. PICK p \in S : S = {p}
    BY <1>2
  <2> QED BY <1>2, <2>1, FS_Singleton
<1> QED BY <1>1, <1>2

LEMMA Tagged ==
    ASSUME NEW t, NEW S
    PROVE  {t} \X S = {} <=> S = {}
<1>1. ASSUME NEW x \in S PROVE <<t, x>> \in {t} \X S
  OBVIOUS
<1>2. ASSUME NEW p \in {t} \X S PROVE S # {}
  OBVIOUS
<1> QED BY <1>1, <1>2

(* An answer waits in one frame.                                           *)
LEMMA OfferedOnce ==
    ASSUME SharedChannelAssumption, TypeOK, StackInv, CallInv, CallsOnce, NEW x, x # None,
           \A b, c \in Call : answer[b] = x /\ answer[c] = x => b = c
    PROVE  /\ \A i, j \in Offered(x) : i = j
           /\ Offered(x) # {} <=> \E c \in Call : answer[c] = x
<1>1. \A i \in 1 .. Len(stack) : stack[i].call \in Call \cup {None}
  <2>1. \A i \in 1 .. Len(stack) : stack[i] \in Frame
    BY DEF TypeOK
  <2>2. \A f \in Frame : f.call \in Call \cup {None}
    BY DEF Frame
  <2> QED BY <2>1, <2>2
<1>2. \A i, j \in Offered(x) : i = j
  BY <1>1 DEF Offered, CallsOnce
<1>3. Offered(x) # {} => \E c \in Call : answer[c] = x
  BY <1>1 DEF Offered
<1>4. ASSUME NEW c \in Call, answer[c] = x PROVE Offered(x) # {}
  <2>1. PICK i \in 1 .. Len(stack) : stack[i].call = c
    BY <1>4 DEF CallInv
  <2>2. i \in Offered(x)
    BY <1>4, <2>1 DEF Offered, SharedChannelAssumption
  <2> QED BY <2>2
<1> QED BY <1>2, <1>3, <1>4

LEMMA AccountTold ==
    ASSUME SharedChannelAssumption, TypeOK, StackInv, CallInv, OrderInv, AccountInv
    PROVE  RequestAccounted
<1> SUFFICES ASSUME NEW r \in ToSet(written) \cap Request
             PROVE  Cardinality(RequestPlaces(r)) = IF r \in parked THEN 1 ELSE 0
  BY DEF RequestAccounted
<1> DEFINE A == At(inputQueue, r)
           B == Due(r)
           C == Offered(r)
           D == Evaluated(r)
           E == At(toMain, Response(r))
           F == {r} \cap (dropped \cup lost)
<1>0. r \in Message /\ r # None
  BY DEF Message, SharedChannelAssumption
<1>1. (\A x, y \in A : x = y) /\ (A # {} <=> r \in ToSet(inputQueue))
  <2>1. ToSet(inputQueue) = {inputQueue[i] : i \in 1 .. Len(inputQueue)}
    BY SetOfSeq DEF TypeOK
  <2> QED BY <2>1, Apart DEF At
<1>2. (\A x, y \in B : x = y) /\ (B # {} <=> r \in DueMessages)
  <2>1. DueMessages = {due[i].message : i \in 1 .. Len(due)}
    BY DueOf
  <2> QED BY <2>1, Apart DEF Due
<1>3. (\A x, y \in C : x = y) /\ (C # {} <=> r \in Answered)
  <2>1. \A b, c \in Call : answer[b] = r /\ answer[c] = r => b = c
    BY <1>0, OneAnswer
  <2>2. (\A x, y \in C : x = y) /\ (C # {} <=> \E c \in Call : answer[c] = r)
    BY <1>0, <2>1, OfferedOnce DEF AccountInv
  <2> QED BY <1>0, <2>2 DEF Answered
<1>4. (\A x, y \in D : x = y) /\ (D # {} <=> r \in Items)
  BY DEF AccountInv, ItemsOnce, Items, Evaluated
<1>5. (\A x, y \in E : x = y) /\ (E # {} <=> r \in Responses)
  <2>1. ToSet(toMain) = {toMain[i] : i \in 1 .. Len(toMain)} /\ ToSet(toMain) \subseteq Post
    BY SetOfSeq DEF TypeOK
  <2>2. \A x, y \in E : x = y
    BY DEF AccountInv, ResponsesOnce, At, Response
  <2>3. \A p \in Post : p.type = "response" /\ p.request = r <=> p = Response(r)
    BY DEF Post, Response
  <2>4. r \in Responses <=> \E i \in 1 .. Len(toMain) : toMain[i] = Response(r)
    BY <2>1, <2>3 DEF Responses
  <2> QED BY <2>2, <2>4 DEF At
<1>6. (\A x, y \in F : x = y) /\ (F # {} <=> r \in Discarded)
  BY DEF Discarded
<1> HIDE DEF A, B, C, D, E, F
<1>7. /\ Answered \cap DueMessages = {} /\ Answered \cap ToSet(inputQueue) = {}
      /\ DueMessages \cap ToSet(inputQueue) = {} /\ ToSet(consumed) \cap Ahead = {}
  BY Apart
<1>8. /\ Items \cup Responses \subseteq ToSet(consumed) /\ Items \cap Responses = {}
      /\ Discarded \cap (Items \cup Responses \cup Ahead) = {}
      /\ r \in parked <=> r \in Ahead \cup Items \cup Responses \cup Discarded
  BY DEF AccountInv, Accounts
<1>9. RequestPlaces(r) = ({"stored"} \X A) \cup ({"due"} \X B) \cup ({"offered"} \X C)
          \cup ({"evaluated"} \X D) \cup ({"answered"} \X E) \cup ({"discarded"} \X F)
  BY DEF RequestPlaces, A, B, C, D, E, F
<1>10. /\ A = {} \/ (B = {} /\ C = {} /\ D = {} /\ E = {} /\ F = {})
       /\ B = {} \/ (A = {} /\ C = {} /\ D = {} /\ E = {} /\ F = {})
       /\ C = {} \/ (A = {} /\ B = {} /\ D = {} /\ E = {} /\ F = {})
       /\ D = {} \/ (A = {} /\ B = {} /\ C = {} /\ E = {} /\ F = {})
       /\ E = {} \/ (A = {} /\ B = {} /\ C = {} /\ D = {} /\ F = {})
       /\ F = {} \/ (A = {} /\ B = {} /\ C = {} /\ D = {} /\ E = {})
       /\ r \in parked <=> (A # {} \/ B # {} \/ C # {} \/ D # {} \/ E # {} \/ F # {})
  BY <1>1, <1>2, <1>3, <1>4, <1>5, <1>6, <1>7, <1>8 DEF Ahead
<1>11. \A p, q \in RequestPlaces(r) : p = q
  BY <1>1, <1>2, <1>3, <1>4, <1>5, <1>6, <1>9, <1>10
<1>12. RequestPlaces(r) = {} <=> r \notin parked
  <2>1. /\ {"stored"} \X A = {} <=> A = {}
        /\ {"due"} \X B = {} <=> B = {}
        /\ {"offered"} \X C = {} <=> C = {}
        /\ {"evaluated"} \X D = {} <=> D = {}
        /\ {"answered"} \X E = {} <=> E = {}
        /\ {"discarded"} \X F = {} <=> F = {}
    BY Tagged
  <2>2. RequestPlaces(r) = {} <=> A = {} /\ B = {} /\ C = {} /\ D = {} /\ E = {} /\ F = {}
    BY <1>9, <2>1, Zenon
  <2> QED BY <1>10, <2>2
<1> QED BY <1>11, <1>12, OnlyOne

(* A request whose promise is open is stored, on its way to a read, being  *)
(* evaluated, answered or discarded by an interrupt, and only one of       *)
(* these; a settled one is nowhere (request(), put() and reset() of the    *)
(* input queue, inputOrDispatch(), dispatch(), resolveResponse()).         *)
THEOREM RequestsAccounted == Spec => []RequestAccounted
<1> DEFINE I == TypeOK /\ StackInv /\ CallInv /\ OrderInv /\ FlightInv /\ AccountInv
<1>1. Init => I
  BY InitTypes, InitCalls, InitOrder, InitFlight, InitAccount, SharedChannelAssumption
<1>2. I /\ [Next]_vars => I'
  BY TypesKept, CallsKept, OrderKept, FlightKept, AccountKept, SharedChannelAssumption
<1>3. I => RequestAccounted
  BY AccountTold, SharedChannelAssumption
<1> HIDE DEF I
<1> QED BY <1>1, <1>2, <1>3, PTL DEF Spec

-----------------------------------------------------------------------------
(* The events.                                                             *)

Offers == {answer[c] : c \in Call} \cap Event
Queued == ToSet(eventQueue) \cap Event

(* An event is in one place of the queue, of the answers, of what has been *)
(* handled and of what is lost.                                            *)
QueuedOnce ==
    \A i, j \in 1 .. Len(eventQueue) :
        eventQueue[i] = eventQueue[j] /\ eventQueue[i] \in Event => i = j
OffersOnce == \A b, c \in Call : answer[b] = answer[c] /\ answer[b] \in Event => b = c
HandledOnce == \A i, j \in 1 .. Len(handled) : handled[i] = handled[j] => i = j
EventsApart ==
    /\ Queued \cap Offers = {} /\ Queued \cap ToSet(handled) = {} /\ Queued \cap lost = {}
    /\ Offers \cap ToSet(handled) = {} /\ Offers \cap lost = {} /\ ToSet(handled) \cap lost = {}
EventInv == QueuedOnce /\ OffersOnce /\ HandledOnce /\ EventsApart

(* No event is a message or another answer.                                *)
LEMMA NoEvents ==
    ASSUME SharedChannelAssumption
    PROVE  /\ \A m \in Message : m \notin Event
           /\ None \notin Event /\ NoEvent \notin Event /\ Interrupt \notin Event
BY DEF SharedChannelAssumption, Message

(* Answers are only given up.                                              *)
LEMMA FewerOffers ==
    ASSUME SharedChannelAssumption, OffersOnce,
           \A c \in Call : answer'[c] # answer[c] => answer'[c] \notin Event
    PROVE  OffersOnce' /\ Offers' \subseteq Offers
BY DEF OffersOnce, Offers

LEMMA EventQueued ==
    ASSUME TypeOK, QueuedOnce, NEW e \in Event \cup {Interrupt}, eventQueue' = Append(eventQueue, e),
           e \in Event => e \notin Queued
    PROVE  QueuedOnce' /\ Queued' = Queued \cup ({e} \cap Event)
<1>1. eventQueue \in Seq(Event \cup {Interrupt})
  BY DEF TypeOK
<1>2. /\ Len(eventQueue) \in Nat /\ Len(eventQueue') = Len(eventQueue) + 1
      /\ \A i \in 1 .. Len(eventQueue) : eventQueue'[i] = eventQueue[i]
      /\ eventQueue'[Len(eventQueue) + 1] = e
      /\ ToSet(eventQueue') = ToSet(eventQueue) \cup {e}
      /\ ToSet(eventQueue) = {eventQueue[i] : i \in 1 .. Len(eventQueue)}
  BY <1>1, AppendAt, SetOfAppend, SetOfSeq
<1>3. \A i \in 1 .. Len(eventQueue') : i \in 1 .. Len(eventQueue) \/ i = Len(eventQueue) + 1
  BY <1>2
<1>4. \A i \in 1 .. Len(eventQueue) : eventQueue[i] = e => e \notin Event
  BY <1>2 DEF Queued
<1>5. QueuedOnce'
  BY <1>2, <1>3, <1>4 DEF QueuedOnce
<1> QED BY <1>2, <1>5 DEF Queued

LEMMA EventShifted ==
    ASSUME TypeOK, QueuedOnce, eventQueue # <<>>, eventQueue' = Tail(eventQueue)
    PROVE  /\ QueuedOnce' /\ Head(eventQueue) \in Event \cup {Interrupt}
           /\ Queued = Queued' \cup ({Head(eventQueue)} \cap Event)
           /\ Head(eventQueue) \notin Queued'
<1>1. eventQueue \in Seq(Event \cup {Interrupt})
  BY DEF TypeOK
<1>2. /\ Len(eventQueue) \in Nat /\ Len(eventQueue) >= 1 /\ Head(eventQueue) = eventQueue[1]
      /\ Len(eventQueue') = Len(eventQueue) - 1
      /\ \A i \in 1 .. Len(eventQueue) - 1 :
             eventQueue'[i] = eventQueue[i + 1] /\ i + 1 \in 2 .. Len(eventQueue)
  BY <1>1, TailAt
<1>3. /\ ToSet(eventQueue) = ToSet(eventQueue') \cup {Head(eventQueue)}
      /\ Head(eventQueue) \in Event \cup {Interrupt} /\ eventQueue' \in Seq(Event \cup {Interrupt})
  BY <1>1, SetOfTail
<1>4. /\ 1 \in 1 .. Len(eventQueue)
      /\ \A i \in 1 .. Len(eventQueue') :
             /\ i + 1 \in 1 .. Len(eventQueue) /\ eventQueue'[i] = eventQueue[i + 1]
             /\ i + 1 # 1 /\ i \in Int
  BY <1>2
<1>5. ASSUME NEW i \in 1 .. Len(eventQueue'), NEW j \in 1 .. Len(eventQueue'),
             eventQueue'[i] = eventQueue'[j], eventQueue'[i] \in Event
      PROVE  i = j
  <2>1. i + 1 = j + 1
    BY <1>4, <1>5 DEF QueuedOnce
  <2> QED BY <1>4, <2>1
<1>6. Head(eventQueue) \notin Queued'
  <2> SUFFICES ASSUME Head(eventQueue) \in Queued' PROVE FALSE
    OBVIOUS
  <2>1. PICK i \in 1 .. Len(eventQueue') : eventQueue'[i] = Head(eventQueue)
    BY <1>3, SetOfSeq DEF Queued
  <2>2. eventQueue[i + 1] = eventQueue[1] /\ eventQueue[i + 1] \in Event
    BY <1>2, <1>4, <2>1 DEF Queued
  <2> QED BY <1>4, <2>2 DEF QueuedOnce
<1> QED BY <1>3, <1>5, <1>6 DEF QueuedOnce, Queued

LEMMA ReceiveEventEvents ==
    ASSUME SharedChannelAssumption, TypeOK, EventInv, ReceiveEvent
    PROVE  EventInv'
<1> DEFINE c == Head(toMain).call
           e == IF eventQueue = <<>> THEN NoEvent ELSE Head(eventQueue)
<1>1. /\ UNCHANGED handled
      /\ \/ answer' = [answer EXCEPT ![c] = e] /\ UNCHANGED lost
         \/ UNCHANGED answer /\ lost' = lost \cup ({e} \ {NoEvent})
      /\ eventQueue' = ShiftEvents
  BY DEF ReceiveEvent
<1>2. QueuedOnce' /\ Queued = Queued' \cup ({e} \cap Event) /\ e \notin Queued'
  <2>1. CASE eventQueue = <<>>
    <3>1. eventQueue' = eventQueue /\ e = NoEvent
      BY <1>1, <2>1 DEF ShiftEvents
    <3> QED BY <3>1, NoEvents DEF EventInv, QueuedOnce, Queued
  <2>2. CASE eventQueue # <<>>
    <3>1. eventQueue' = Tail(eventQueue) /\ e = Head(eventQueue)
      BY <1>1, <2>2 DEF ShiftEvents
    <3> QED BY <2>2, <3>1, EventShifted DEF EventInv
  <2> QED BY <2>1, <2>2
<1> HIDE DEF c, e
<1>3. HandledOnce'
  BY <1>1 DEF EventInv, HandledOnce
<1>4. CASE answer' = [answer EXCEPT ![c] = e] /\ UNCHANGED lost
  <2>1. /\ \A b \in Call : b # c => answer'[b] = answer[b]
        /\ c \in Call => answer'[c] = e
    BY <1>4 DEF TypeOK
  <2>2. \A b \in Call : answer[b] = e => e \notin Event
    BY <1>2 DEF EventInv, EventsApart, Offers
  <2>3. OffersOnce'
    BY <2>1, <2>2 DEF EventInv, OffersOnce
  <2>4. Offers' \subseteq Offers \cup ({e} \cap Event)
    BY <2>1 DEF Offers
  <2> QED BY <1>1, <1>2, <1>3, <1>4, <2>3, <2>4 DEF EventInv, EventsApart
<1>5. CASE UNCHANGED answer /\ lost' = lost \cup ({e} \ {NoEvent})
  <2>1. OffersOnce' /\ Offers' = Offers
    BY <1>5 DEF EventInv, OffersOnce, Offers
  <2>2. ToSet(handled) \subseteq Event /\ Offers \subseteq Event
    BY SetOfSeq DEF TypeOK, Offers
  <2> QED BY <1>1, <1>2, <1>3, <1>5, <2>1, <2>2 DEF EventInv, EventsApart
<1> QED BY <1>1, <1>4, <1>5

LEMMA EventsLeft ==
    ASSUME SharedChannelAssumption, TypeOK, EventInv, UNCHANGED <<eventQueue, handled>>,
           \A c \in Call : answer'[c] # answer[c] => answer'[c] \notin Event,
           lost' \cap Event = lost \cap Event
    PROVE  EventInv'
<1>1. OffersOnce' /\ Offers' \subseteq Offers
  BY FewerOffers DEF EventInv
<1>2. QueuedOnce' /\ Queued' = Queued /\ HandledOnce'
  BY DEF EventInv, QueuedOnce, Queued, HandledOnce
<1>3. Offers \subseteq Event /\ Queued \subseteq Event /\ ToSet(handled) \subseteq Event
  BY SetOfSeq DEF Offers, Queued, TypeOK
<1> QED BY <1>1, <1>2, <1>3 DEF EventInv, EventsApart

LEMMA EmitEvents ==
    ASSUME SharedChannelAssumption, TypeOK, CallInv, EventInv, NEW e \in Event, Emit(e)
    PROVE  EventInv'
<1>1. /\ eventQueue' = Append(eventQueue, e) /\ UNCHANGED <<answer, lost, handled>>
      /\ e \notin ToSet(eventQueue) \cup ToSet(handled) \cup lost
  BY DEF Emit, EmitEvent, history
<1>2. e \notin Offers
  <2> SUFFICES ASSUME NEW c \in Call, answer[c] = e PROVE FALSE
    BY DEF Offers
  <2>1. c \in LiveCalls
    <3>1. e # None /\ c # None
      BY NoEvents DEF SharedChannelAssumption
    <3>2. PICK i \in 1 .. Len(stack) : stack[i].call = c
      BY <3>1 DEF CallInv
    <3>3. stack[i] \in ToSet(stack)
      BY SetOfSeq DEF TypeOK
    <3> QED BY <3>1, <3>2, <3>3 DEF LiveCalls
  <2> QED BY <2>1 DEF Emit
<1>3. QueuedOnce' /\ Queued' = Queued \cup {e}
  BY <1>1, EventQueued DEF EventInv, Queued
<1>4. OffersOnce' /\ Offers' = Offers /\ HandledOnce'
  BY <1>1 DEF EventInv, OffersOnce, Offers, HandledOnce
<1> QED BY <1>1, <1>2, <1>3, <1>4 DEF EventInv, EventsApart

LEMMA UserEvents ==
    ASSUME SharedChannelAssumption, TypeOK, CallInv, EventInv, UserStep
    PROVE  EventInv'
<1>1. ASSUME \/ \E m \in Message : Write(m)
             \/ \E r \in Request : RequestClosed(r)
             \/ Close
      PROVE  EventInv'
  <2>1. UNCHANGED <<eventQueue, handled, answer, lost>>
    BY <1>1 DEF Write, RequestClosed, Close, history
  <2> QED BY <2>1, EventsLeft
<1>2. ASSUME RequestInterrupt PROVE EventInv'
  <2>1. eventQueue' = Append(eventQueue, Interrupt) /\ UNCHANGED <<answer, lost, handled>>
    BY <1>2 DEF RequestInterrupt, EmitEvent
  <2>2. QueuedOnce' /\ Queued' = Queued
    BY <2>1, EventQueued, NoEvents DEF EventInv
  <2>3. OffersOnce' /\ Offers' = Offers /\ HandledOnce'
    BY <2>1 DEF EventInv, OffersOnce, Offers, HandledOnce
  <2> QED BY <2>1, <2>2, <2>3 DEF EventInv, EventsApart
<1> QED BY <1>1, <1>2, EmitEvents DEF UserStep

LEMMA ResumeEvents ==
    ASSUME SharedChannelAssumption, TypeOK, EventInv, ResumeRead
    PROVE  EventInv'
<1> DEFINE d == Head(due)
<1>1. /\ due # <<>> /\ UNCHANGED <<eventQueue, handled>>
      /\ \/ answer' = [answer EXCEPT ![d.call] = d.message] /\ UNCHANGED lost
         \/ lost' = lost \cup {d.message} /\ UNCHANGED answer
  BY DEF ResumeRead
<1>2. d.message \notin Event
  <2>1. /\ d = due[1] /\ 1 \in 1 .. Len(due)
    BY <1>1 DEF TypeOK
  <2> QED BY <2>1, DueOf, NoEvents
<1> HIDE DEF d
<1>3. \A c \in Call : answer'[c] # answer[c] => answer'[c] \notin Event
  BY <1>1, <1>2 DEF TypeOK
<1>4. lost' \cap Event = lost \cap Event
  BY <1>1, <1>2
<1> QED BY <1>1, <1>3, <1>4, EventsLeft

LEMMA HandleEventEvents ==
    ASSUME SharedChannelAssumption, TypeOK, StackInv, CallInv, EventInv,
           NEW e \in Event, NEW c \in Call, HandleEvent(e, c)
    PROVE  EventInv'
<1>1. /\ stack # <<>> /\ Got(e) /\ Taken /\ handled' = Append(handled, e)
      /\ UNCHANGED <<eventQueue, lost>>
  BY DEF HandleEvent, TopIs, mainVars
<1>2. Top.call \in Call /\ answer[Top.call] = e
  BY <1>1, AnswerLeaves
<1>3. \A b \in Call : answer'[b] = IF b = Top.call THEN None ELSE answer[b]
  BY <1>1, <1>2 DEF Taken, TypeOK
<1>4. None \notin Event /\ e \in Offers
  BY <1>2, NoEvents DEF Offers
<1>5. OffersOnce' /\ Offers' \subseteq Offers \ {e}
  <2>1. \A b \in Call : b # Top.call => answer[b] # e
    BY <1>2 DEF EventInv, OffersOnce
  <2>2. \A b \in Call : answer'[b] \in Event => b # Top.call /\ answer'[b] = answer[b]
    BY <1>3, <1>4
  <2>3. OffersOnce'
    BY <2>2 DEF EventInv, OffersOnce
  <2>4. Offers' \subseteq Offers \ {e}
    BY <2>1, <2>2 DEF Offers
  <2> QED BY <2>3, <2>4
<1>6. HandledOnce' /\ ToSet(handled') = ToSet(handled) \cup {e}
  <2>1. handled \in Seq(Event)
    BY DEF TypeOK
  <2>2. /\ Len(handled) \in Nat /\ Len(handled') = Len(handled) + 1
        /\ \A i \in 1 .. Len(handled) : handled'[i] = handled[i]
        /\ handled'[Len(handled) + 1] = e
        /\ ToSet(handled') = ToSet(handled) \cup {e}
        /\ ToSet(handled) = {handled[i] : i \in 1 .. Len(handled)}
    BY <1>1, <2>1, AppendAt, SetOfAppend, SetOfSeq
  <2>3. \A i \in 1 .. Len(handled') : i \in 1 .. Len(handled) \/ i = Len(handled) + 1
    BY <2>2
  <2>4. \A i \in 1 .. Len(handled) : handled[i] # e
    BY <1>4, <2>2 DEF EventInv, EventsApart
  <2>5. HandledOnce'
    BY <2>2, <2>3, <2>4 DEF EventInv, HandledOnce
  <2> QED BY <2>2, <2>5
<1>7. QueuedOnce' /\ Queued' = Queued
  BY <1>1 DEF EventInv, QueuedOnce, Queued
<1> QED BY <1>1, <1>4, <1>5, <1>6, <1>7 DEF EventInv, EventsApart

LEMMA InterruptEvents ==
    ASSUME SharedChannelAssumption, TypeOK, StackInv, CallInv, EventInv,
           NEW k \in 0 .. MaxDepth, HandleInterrupt(k)
    PROVE  EventInv'
<1> DEFINE G == {answer[c] : c \in Gone(k) \ {Top.call}}
<1>1. /\ Gone(k) \subseteq Call /\ Top.call \in Gone(k)
      /\ lost' = lost \cup (G \ {None, NoEvent})
      /\ answer' = [c \in Call |-> IF c \in Gone(k) THEN None ELSE answer[c]]
      /\ UNCHANGED <<eventQueue, handled>>
  BY UnwoundAnswers DEF HandleInterrupt, mainVars
<1>2. \A c \in Call : answer'[c] = IF c \in Gone(k) THEN None ELSE answer[c]
  BY <1>1
<1>3. OffersOnce' /\ Offers' \subseteq Offers
  BY <1>2, FewerOffers, NoEvents DEF EventInv
<1>4. G \cap Event \subseteq Offers
  BY <1>1 DEF Offers
<1>5. Offers' \cap G = {}
  <2> SUFFICES ASSUME NEW b \in Call, answer'[b] \in Event, NEW c \in Gone(k), answer[c] = answer'[b]
               PROVE  FALSE
    BY DEF Offers
  <2>1. b \notin Gone(k) /\ answer'[b] = answer[b]
    BY <1>2, NoEvents
  <2> QED BY <1>1, <2>1 DEF EventInv, OffersOnce
<1>6. QueuedOnce' /\ Queued' = Queued /\ HandledOnce' /\ ToSet(handled') = ToSet(handled)
  BY <1>1 DEF EventInv, QueuedOnce, Queued, HandledOnce
<1>7. ToSet(handled) \subseteq Event /\ Offers \subseteq Event /\ Queued \subseteq Event
  BY SetOfSeq DEF Offers, Queued, TypeOK
<1> HIDE DEF G
<1>8. lost' \cap Event = (lost \cup G) \cap Event
  BY <1>1, NoEvents
<1> QED BY <1>3, <1>4, <1>5, <1>6, <1>7, <1>8 DEF EventInv, EventsApart

LEMMA EventsKept ==
    ASSUME SharedChannelAssumption, TypeOK, StackInv, CallInv, EventInv, [Next]_vars
    PROVE  EventInv'
<1>1. CASE UNCHANGED vars
  <2>1. UNCHANGED <<eventQueue, handled, answer, lost>>
    BY <1>1 DEF vars, mainVars, history
  <2> QED BY <2>1, EventsLeft
<1>2. CASE MainStep
  <2>1. ASSUME ReceiveRead \/ ReceiveResponse PROVE EventInv'
    <3>1. UNCHANGED <<eventQueue, handled, answer, lost>>
      BY <2>1 DEF ReceiveRead, ReceiveResponse, history
    <3> QED BY <3>1, EventsLeft
  <2> QED BY <1>2, <2>1, ResumeEvents, ReceiveEventEvents DEF MainStep
<1>3. CASE WorkerMoves
  <2>1. ASSUME \/ \E m \in Message : GetLine(m) \/ GetRequest(m)
               \/ \E c \in Call : FinishRequest(c) \/ ReadConsole(c) \/ StartEvents(c)
               \/ FinishLine \/ EndEvents
        PROVE  EventInv'
    <3>1. UNCHANGED <<eventQueue, handled, lost>>
      BY <2>1 DEF GetLine, GetRequest, FinishRequest, ReadConsole, StartEvents, FinishLine,
                  EndEvents, mainVars, history
    <3>2. Taken \/ UNCHANGED answer
      BY <2>1 DEF GetLine, GetRequest, FinishRequest, ReadConsole, StartEvents, FinishLine, EndEvents
    <3>3. \A c \in Call : answer'[c] # answer[c] => answer'[c] \notin Event
      BY <3>2, AnswerTaken, NoEvents
    <3> QED BY <3>1, <3>3, EventsLeft
  <2>2. ASSUME NEW e \in Event, NEW c \in Call, HandleEvent(e, c) PROVE EventInv'
    BY <2>2, HandleEventEvents
  <2>3. ASSUME NEW k \in 0 .. MaxDepth, HandleInterrupt(k) PROVE EventInv'
    BY <2>3, InterruptEvents
  <2> QED BY <1>3, <2>1, <2>2, <2>3 DEF WorkerMoves, WorkerStep
<1> QED BY <1>1, <1>2, <1>3, Steps, UserEvents

LEMMA InitEvents == SharedChannelAssumption /\ Init => EventInv
<1> SUFFICES ASSUME SharedChannelAssumption, Init PROVE EventInv
  OBVIOUS
<1>1. ToSet(<<>>) = {} /\ Len(<<>>) = 0
  BY DEF ToSet
<1>2. Offers = {} /\ Queued = {}
  BY <1>1, NoEvents DEF Init, Offers, Queued
<1> QED BY <1>1, <1>2, NoEvents DEF Init, EventInv, QueuedOnce, OffersOnce, HandledOnce, EventsApart

LEMMA EventTold ==
    ASSUME SharedChannelAssumption, TypeOK, StackInv, CallInv, AccountInv, EventInv
    PROVE  EventAccounted
<1> SUFFICES ASSUME NEW e \in Event
             PROVE  Cardinality(EventPlaces(e)) <= 1
  BY DEF EventAccounted
<1> DEFINE A == At(eventQueue, e)
           B == Offered(e)
           C == At(handled, e)
           D == {e} \cap lost
<1>0. e # None
  BY NoEvents
<1>1. (\A x, y \in A : x = y) /\ (A # {} => e \in Queued)
  <2>1. ToSet(eventQueue) = {eventQueue[i] : i \in 1 .. Len(eventQueue)}
    BY SetOfSeq DEF TypeOK
  <2> QED BY <2>1 DEF At, EventInv, QueuedOnce, Queued
<1>2. (\A x, y \in B : x = y) /\ (B # {} => e \in Offers)
  <2>1. \A b, c \in Call : answer[b] = e /\ answer[c] = e => b = c
    BY DEF EventInv, OffersOnce
  <2>2. (\A x, y \in B : x = y) /\ (B # {} <=> \E c \in Call : answer[c] = e)
    BY <1>0, <2>1, OfferedOnce DEF AccountInv
  <2> QED BY <2>2 DEF Offers
<1>3. (\A x, y \in C : x = y) /\ (C # {} => e \in ToSet(handled))
  <2>1. ToSet(handled) = {handled[i] : i \in 1 .. Len(handled)}
    BY SetOfSeq DEF TypeOK
  <2> QED BY <2>1 DEF At, EventInv, HandledOnce
<1>4. (\A x, y \in D : x = y) /\ (D # {} => e \in lost)
  OBVIOUS
<1> HIDE DEF A, B, C, D
<1>5. EventPlaces(e) = ({"queued"} \X A) \cup ({"offered"} \X B) \cup ({"handled"} \X C)
          \cup ({"discarded"} \X D)
  BY DEF EventPlaces, A, B, C, D
<1>6. /\ A = {} \/ (B = {} /\ C = {} /\ D = {})
      /\ B = {} \/ (A = {} /\ C = {} /\ D = {})
      /\ C = {} \/ (A = {} /\ B = {} /\ D = {})
      /\ D = {} \/ (A = {} /\ B = {} /\ C = {})
  BY <1>1, <1>2, <1>3, <1>4 DEF EventInv, EventsApart
<1>7. \A p, q \in EventPlaces(e) : p = q
  BY <1>1, <1>2, <1>3, <1>4, <1>5, <1>6
<1> QED BY <1>7, OnlyOne

(* An event is queued, offered to a handler, handled or lost, and only one *)
(* of these; it is handled once (emit(), the event queue and               *)
(* handleEvents(), channel-shared.ts).                                     *)
THEOREM EventsAccounted == Spec => []EventAccounted
<1> DEFINE I == TypeOK /\ StackInv /\ CallInv /\ OrderInv /\ FlightInv /\ AccountInv /\ EventInv
<1>1. Init => I
  BY InitTypes, InitCalls, InitOrder, InitFlight, InitAccount, InitEvents, SharedChannelAssumption
<1>2. I /\ [Next]_vars => I'
  BY TypesKept, CallsKept, OrderKept, FlightKept, AccountKept, EventsKept, SharedChannelAssumption
<1>3. I => EventAccounted
  BY EventTold, SharedChannelAssumption
<1> HIDE DEF I
<1> QED BY <1>1, <1>2, <1>3, PTL DEF Spec
====
