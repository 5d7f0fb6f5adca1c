---- MODULE EvaluationProofs ----
(***************************************************************************)
(* Evaluation for any number of requests, nested in any depth: the objects *)
(* in R's heap, and the session that captureR() leaves behind.             *)
(*                                                                         *)
(* EvalInv is inductive. FramesInv says only that there are frames.         *)
(* TypedInv looks at the code that each frame still has to run: that of a  *)
(* constructor, a method or a request (Straight), captureR() before its    *)
(* `finally' (Trying) and in it (Finishing).                               *)
(* SessionInv says for each thing captureR() changed in the session which  *)
(* frame is still going to restore it.                                     *)
(***************************************************************************)
EXTENDS Evaluation, SequenceTheorems, FiniteSetTheorems, TLAPS, WellFoundedInduction, NaturalsInduction

(* A frame, whatever its code and its variables are. *)
Framed(f) ==
    /\ f \in [fn : {f.fn}, code : {f.code}, fin : {f.fin}, env : {f.env}, to : {f.to},
              request : BOOLEAN, n : {f.n}, prot : {f.prot}, base : {f.base},
              device : {f.device}, old : {f.old}, before : {f.before}, mine : {f.mine}]

(* The frames are those of a request and the functions it called, perhaps  *)
(* below those of another, and an exception leaves one of them.            *)
FramesInv ==
    /\ frames \in Seq(ToSet(frames))
    /\ \A i \in 1 .. Len(frames) : Framed(frames[i])
    /\ frames # <<>> => IsRequest(frames[1])
    /\ thrown # "none" => frames # <<>>

-----------------------------------------------------------------------------
(* Frames.                                                                 *)

(* A frame that went on.                                                   *)
Like(f, g) == Framed(f) /\ f.request = g.request

LEMMA Edited ==
    ASSUME NEW f, NEW g, Like(f, g)
    PROVE  /\ \A c : Like([f EXCEPT !.code = c], g)
           /\ \A e : Like([f EXCEPT !.fin = e], g)
           /\ \A e : Like([f EXCEPT !.env = e], g)
           /\ \A x, v : Like([f EXCEPT !.env[x] = v], g)
           /\ \A d, o, b : Like([f EXCEPT !.device = d, !.old = o, !.before = b], g)
           /\ \A m : Like([f EXCEPT !.mine = m], g)
           /\ \A m : Like([f EXCEPT !.n = m], g)
           /\ \A k : Like([f EXCEPT !.prot = k], g)
<1>1. ASSUME NEW h, h \in [fn : {h.fn}, code : {h.code}, fin : {h.fin}, env : {h.env}, to : {h.to},
              request : BOOLEAN, n : {h.n}, prot : {h.prot}, base : {h.base},
              device : {h.device}, old : {h.old}, before : {h.before}, mine : {h.mine}]
      PROVE  Framed(h)
  BY <1>1 DEF Framed
<1>2. \A c : Like([f EXCEPT !.code = c], g)
  BY <1>1 DEF Like, Framed
<1>3. \A e : Like([f EXCEPT !.fin = e], g)
  BY <1>1 DEF Like, Framed
<1>4. \A e : Like([f EXCEPT !.env = e], g)
  BY <1>1 DEF Like, Framed
<1>5. \A x, v : Like([f EXCEPT !.env[x] = v], g)
  BY <1>4
<1>6. ASSUME NEW d, NEW o, NEW b PROVE Like([f EXCEPT !.device = d, !.old = o, !.before = b], g)
  <2>1. PICK h : h = [f EXCEPT !.device = d, !.old = o, !.before = b]
    OBVIOUS
  <2>2. h = [fn |-> f.fn, code |-> f.code, fin |-> f.fin, env |-> f.env, to |-> f.to,
             request |-> f.request, n |-> f.n, prot |-> f.prot, base |-> f.base,
             device |-> d, old |-> o, before |-> b, mine |-> f.mine]
    BY <2>1 DEF Like, Framed
  <2>3. f.request \in BOOLEAN
    BY DEF Like, Framed
  <2>4. Framed(h) /\ h.request = f.request
    BY <2>2, <2>3 DEF Framed
  <2> QED BY <2>1, <2>4 DEF Like
<1>7. \A m : Like([f EXCEPT !.mine = m], g)
  BY <1>1 DEF Like, Framed
<1>8. \A m : Like([f EXCEPT !.n = m], g)
  BY <1>1 DEF Like, Framed
<1>9. \A k : Like([f EXCEPT !.prot = k], g)
  BY <1>1 DEF Like, Framed
<1> QED BY <1>2, <1>3, <1>4, <1>5, <1>6, <1>7, <1>8, <1>9

LEMMA OwnSeq ==
    ASSUME NEW S, NEW q \in Seq(S)
    PROVE  q \in Seq(ToSet(q))
BY DEF ToSet

LEMMA TopFacts ==
    ASSUME NEW S, NEW q \in Seq(S), q # <<>>
    PROVE  /\ Len(q) \in Nat /\ Len(q) >= 1 /\ Last(q) = q[Len(q)]
           /\ Front(q) \in Seq(S) /\ Len(Front(q)) = Len(q) - 1
           /\ \A i \in 1 .. Len(q) - 1 : Front(q)[i] = q[i]
<1>1. \A i \in 1 .. Len(q) - 1 : q[i] \in S
  OBVIOUS
<1>2. Len(q) \in Nat /\ Len(q) >= 1
  OBVIOUS
<1> DEFINE n == Len(q) - 1
<1>3. n \in Int /\ 1 \in Int /\ \A i \in 1 .. n : q[i] \in S
  BY <1>1, <1>2
<1> HIDE DEF n
<1>4. /\ SubSeq(q, 1, n) \in Seq(S) /\ Len(SubSeq(q, 1, n)) = IF 1 <= n THEN n - 1 + 1 ELSE 0
      /\ \A i \in 1 .. n - 1 + 1 : SubSeq(q, 1, n)[i] = q[1 + i - 1]
  BY <1>3, SubSeqProperties
<1>5. Front(q) = SubSeq(q, 1, n) /\ Last(q) = q[Len(q)]
  BY DEF Front, Last, n
<1>6. n - 1 + 1 = n /\ \A i \in 1 .. n : 1 + i - 1 = i
  BY <1>3
<1>7. Len(Front(q)) = n
  BY <1>2, <1>4, <1>5, <1>6 DEF n
<1>8. \A i \in 1 .. n : Front(q)[i] = q[i]
  BY <1>4, <1>5, <1>6
<1> QED BY <1>2, <1>4, <1>5, <1>7, <1>8 DEF n

(* The frames up to k go on, n are new.                                    *)
Keeps(k, n) ==
    /\ k \in 0 .. Len(frames) /\ n \in Nat
    /\ frames' \in Seq(ToSet(frames')) /\ Len(frames') = k + n
    /\ \A i \in 1 .. k : Like(frames'[i], frames[i])
    /\ \A i \in k + 1 .. k + n : Framed(frames'[i])

Works ==
    /\ frames # <<>> /\ Keeps(Len(frames) - 1, 1)
    /\ frames'[Len(frames)].request = frames[Len(frames)].request
Begins(q) == Keeps(Len(frames), 1) /\ frames'[Len(frames) + 1].request = q
Ends == frames # <<>> /\ Keeps(Len(frames) - 1, 0)

LEMMA TopReplaced ==
    ASSUME FramesInv, frames # <<>>, NEW f, Framed(f), frames' = Append(Front(frames), f)
    PROVE  Keeps(Len(frames) - 1, 1) /\ frames'[Len(frames)] = f
<1>1. /\ Len(frames) \in Nat /\ Len(frames) >= 1
      /\ Front(frames) \in Seq(ToSet(frames)) /\ Len(Front(frames)) = Len(frames) - 1
      /\ \A i \in 1 .. Len(frames) - 1 : Front(frames)[i] = frames[i]
  BY TopFacts DEF FramesInv
<1>2. /\ frames' \in Seq(ToSet(frames) \cup {f}) /\ Len(frames') = Len(frames)
      /\ \A i \in 1 .. Len(frames) - 1 : frames'[i] = frames[i]
      /\ frames'[Len(frames)] = f
  BY <1>1
<1>3. frames' \in Seq(ToSet(frames'))
  BY <1>2, OwnSeq
<1>4. \A i \in 1 .. Len(frames) - 1 : Like(frames'[i], frames[i])
  BY <1>1, <1>2 DEF FramesInv, Like
<1>5. \A i \in Len(frames) .. Len(frames) : Framed(frames'[i])
  BY <1>1, <1>2
<1> QED BY <1>1, <1>2, <1>3, <1>4, <1>5 DEF Keeps

LEMMA TopGoesOn ==
    ASSUME FramesInv, frames # <<>>, NEW f, Like(f, Top), NEW c, frames' = Goto(f, c)
    PROVE  Works
<1>1. PICK g : g = [f EXCEPT !.code = c]
  OBVIOUS
<1>2. Like(g, Top) /\ frames' = Append(Front(frames), g)
  BY <1>1, Edited DEF Goto
<1>3. Keeps(Len(frames) - 1, 1) /\ frames'[Len(frames)] = g
  BY <1>2, TopReplaced DEF Like
<1>4. Top = frames[Len(frames)] /\ Len(frames) \in Nat /\ Len(frames) >= 1
  BY TopFacts DEF FramesInv, Top
<1> QED BY <1>2, <1>3, <1>4 DEF Works, Like

LEMMA FrameBegins ==
    ASSUME FramesInv, NEW f, Framed(f),
           \/ frames' = Append(frames, f)
           \/ frames # <<>> /\ \E g : Like(g, Top) /\ frames' = Append(Append(Front(frames), g), f)
    PROVE  Begins(f.request)
<1>0. frames \in Seq(ToSet(frames)) /\ Len(frames) \in Nat
  BY DEF FramesInv
<1>1. CASE frames' = Append(frames, f)
  <2>1. /\ frames' \in Seq(ToSet(frames) \cup {f}) /\ Len(frames') = Len(frames) + 1
        /\ \A i \in 1 .. Len(frames) : frames'[i] = frames[i]
        /\ frames'[Len(frames) + 1] = f
    BY <1>0, <1>1
  <2>2. \A i \in 1 .. Len(frames) : Like(frames'[i], frames[i])
    BY <2>1 DEF FramesInv, Like
  <2>3. \A i \in Len(frames) + 1 .. Len(frames) + 1 : Framed(frames'[i])
    BY <1>0, <2>1
  <2> QED BY <1>0, <2>1, <2>2, <2>3, OwnSeq DEF Begins, Keeps
<1>2. ASSUME frames # <<>>, NEW g, Like(g, Top), frames' = Append(Append(Front(frames), g), f)
      PROVE  Begins(f.request)
  <2>1. /\ Len(frames) >= 1 /\ Top = frames[Len(frames)]
        /\ Front(frames) \in Seq(ToSet(frames)) /\ Len(Front(frames)) = Len(frames) - 1
        /\ \A i \in 1 .. Len(frames) - 1 : Front(frames)[i] = frames[i]
    BY <1>0, <1>2, TopFacts DEF Top
  <2>2. PICK q : q = Append(Front(frames), g)
    OBVIOUS
  <2>3. /\ q \in Seq(ToSet(frames) \cup {g}) /\ Len(q) = Len(frames)
        /\ \A i \in 1 .. Len(frames) - 1 : q[i] = frames[i]
        /\ q[Len(frames)] = g
    BY <1>0, <2>1, <2>2
  <2>4. /\ frames' \in Seq(ToSet(frames) \cup {g, f}) /\ Len(frames') = Len(frames) + 1
        /\ \A i \in 1 .. Len(frames) : frames'[i] = q[i]
        /\ frames'[Len(frames) + 1] = f
    BY <1>0, <1>2, <2>2, <2>3
  <2>5. ASSUME NEW i \in 1 .. Len(frames) PROVE Like(frames'[i], frames[i])
    <3>1. CASE i = Len(frames)
      BY <1>2, <2>1, <2>3, <2>4, <3>1
    <3>2. CASE i # Len(frames)
      <4>1. i \in 1 .. Len(frames) - 1
        BY <1>0, <2>5, <3>2
      <4> QED BY <2>3, <2>4, <4>1 DEF FramesInv, Like
    <3> QED BY <3>1, <3>2
  <2>6. \A i \in Len(frames) + 1 .. Len(frames) + 1 : Framed(frames'[i])
    BY <1>0, <2>4
  <2> QED BY <1>0, <2>4, <2>5, <2>6, OwnSeq DEF Begins, Keeps
<1> QED BY <1>1, <1>2

-----------------------------------------------------------------------------
(* The steps.                                                              *)

(* The innermost function goes on.                                         *)
GoesOn ==
    /\ frames # <<>>
    /\ UNCHANGED frames \/ \E f, c : Like(f, Top) /\ frames' = Goto(f, c)

LEMMA Running ==
    ASSUME FramesInv, frames # <<>>
    PROVE  /\ Len(frames) \in Nat /\ Len(frames) >= 1 /\ Top = frames[Len(frames)]
           /\ Framed(Top) /\ Like(Top, Top)
           /\ Top.request \in BOOLEAN
<1>1. Len(frames) \in Nat /\ Len(frames) >= 1 /\ Top = frames[Len(frames)]
  BY TopFacts DEF FramesInv, Top
<1>2. Framed(Top)
  BY <1>1 DEF FramesInv
<1> QED BY <1>1, <1>2 DEF Like, Framed

LEMMA Advances ==
    ASSUME FramesInv, frames # <<>>, NEW f, Like(f, Top), frames' = Advance(f)
    PROVE  GoesOn
BY DEF Advance, GoesOn

LEMMA Binds ==
    ASSUME FramesInv, frames # <<>>, NEW x, NEW v
    PROVE  Like(Bind(x, v), Top)
BY Running, Edited DEF Bind

LEMMA HeapSteps ==
    ASSUME FramesInv,
           Allocate \/ AddField \/ Read \/ Evaluate \/ Branch \/ FinishUser \/ KeepObject
    PROVE  GoesOn
<1>1. CASE Allocate
  <2>1. frames # <<>>
    BY <1>1 DEF Allocate, At
  <2>2. frames' = Advance(Bind(Step.to, Len(heap) + 1))
    BY <1>1 DEF Allocate
  <2> QED BY <2>1, <2>2, Advances, Binds
<1>2. CASE AddField
  <2>1. frames # <<>> /\ frames' = Advance(Top)
    BY <1>2 DEF AddField, At
  <2> QED BY <2>1, Advances, Running
<1>3. CASE Read
  <2>1. frames # <<>>
    BY <1>3 DEF Read, At
  <2>2. frames' = Advance(Top) \/ \E v : frames' = Advance(Bind(Step.to, v))
    BY <1>3 DEF Read
  <2> QED BY <2>1, <2>2, Advances, Running, Binds
<1>4. CASE Evaluate
  <2>1. frames # <<>>
    BY <1>4 DEF Evaluate, At
  <2>2. UNCHANGED frames \/ \E v : frames' = Advance(Bind(Step.to, v))
    BY <1>4 DEF Evaluate
  <2>3. CASE UNCHANGED frames
    BY <2>1, <2>3 DEF GoesOn
  <2> QED BY <2>1, <2>2, <2>3, Advances, Binds
<1>5. CASE Branch
  <2>1. frames # <<>>
    BY <1>5 DEF Branch, At
  <2>2. \E c : frames' = Goto(Top, c)
    BY <1>5 DEF Branch
  <2> QED BY <2>1, <2>2, Running DEF GoesOn
<1>6. CASE FinishUser
  <2>1. frames # <<>>
    BY <1>6 DEF FinishUser, At
  <2>2. UNCHANGED frames \/ \E c, v : frames' = Goto(Bind("ptr", v), c)
    BY <1>6 DEF FinishUser
  <2> QED BY <2>1, <2>2, Binds DEF GoesOn
<1>7. CASE KeepObject
  <2>1. frames # <<>> /\ frames' = Advance(Top)
    BY <1>7 DEF KeepObject, At
  <2> QED BY <2>1, Advances, Running
<1> QED BY <1>1, <1>2, <1>3, <1>4, <1>5, <1>6, <1>7

LEMMA SessionSteps ==
    ASSUME FramesInv,
           \/ RaiseException \/ SetInteractive \/ OpenDevice \/ NewPlots \/ CloseDevice
           \/ DestroyPlots \/ Plot
    PROVE  GoesOn
<1>1. CASE RaiseException
  <2>1. frames # <<>>
    BY <1>1 DEF RaiseException, At
  <2>2. UNCHANGED frames \/ frames' = Advance(Top)
    BY <1>1 DEF RaiseException
  <2>3. CASE UNCHANGED frames
    BY <2>1, <2>3 DEF GoesOn
  <2> QED BY <2>1, <2>2, <2>3, Advances, Running
<1>2. CASE SetInteractive \/ CloseDevice \/ DestroyPlots
  <2>1. frames # <<>> /\ frames' = Advance(Top)
    BY <1>2 DEF SetInteractive, CloseDevice, DestroyPlots, At
  <2> QED BY <2>1, Advances, Running
<1>3. CASE OpenDevice
  <2>1. frames # <<>>
    BY <1>3 DEF OpenDevice, At
  <2>2. frames' = Advance([Top EXCEPT !.device = NewDevice, !.old = current, !.before = cache])
    BY <1>3 DEF OpenDevice
  <2>3. Like([Top EXCEPT !.device = NewDevice, !.old = current, !.before = cache], Top)
    BY <2>1, Running, Edited
  <2> QED BY <2>1, <2>2, <2>3, Advances
<1>4. CASE NewPlots
  <2>1. frames # <<>>
    BY <1>4 DEF NewPlots, At
  <2>2. frames' = Advance([Top EXCEPT !.mine = cache \ Top.before])
    BY <1>4 DEF NewPlots
  <2>3. Like([Top EXCEPT !.mine = cache \ Top.before], Top)
    BY <2>1, Running, Edited
  <2> QED BY <2>1, <2>2, <2>3, Advances
<1>5. CASE Plot
  BY <1>5 DEF Plot, At, GoesOn
<1> QED BY <1>1, <1>2, <1>3, <1>4, <1>5

(* The call of a function, by the innermost one.                           *)
LEMMA Called ==
    ASSUME FramesInv, frames # <<>>, NEW fn, NEW code, NEW fin, NEW env, NEW to,
           frames' = Append(Advance(Top), Frame(fn, code, fin, env, to))
    PROVE  Begins(FALSE)
<1>1. PICK f : f = Frame(fn, code, fin, env, to)
  OBVIOUS
<1>2. Framed(f) /\ f.request = FALSE
  BY <1>1 DEF Frame, Framed
<1>3. PICK g : g = [Top EXCEPT !.code = Tail(Top.code)]
  OBVIOUS
<1>4. Like(g, Top)
  BY <1>3, Running, Edited
<1>5. frames' = Append(Append(Front(frames), g), f)
  BY <1>1, <1>3 DEF Advance, Goto
<1> QED BY <1>2, <1>4, <1>5, FrameBegins

LEMMA Calls ==
    ASSUME FramesInv, Construct \/ CallMethod
    PROVE  GoesOn \/ (Begins(FALSE) /\ frames # <<>>)
<1>1. CASE Construct
  <2>1. frames # <<>>
    BY <1>1 DEF Construct, At
  <2>2. \/ \E v : frames' = Advance(Bind(Step.to, v))
        \/ \E fn, code, fin, env, to :
               frames' = Append(Advance(Top), Frame(fn, code, fin, env, to))
    BY <1>1 DEF Construct
  <2> QED BY <2>1, <2>2, Advances, Binds, Called
<1>2. CASE CallMethod
  <2>1. frames # <<>>
    BY <1>2 DEF CallMethod, At
  <2>2. \E fn, code, fin, env, to :
            frames' = Append(Advance(Top), Frame(fn, code, fin, env, to))
    BY <1>2 DEF CallMethod
  <2> QED BY <2>1, <2>2, Called
<1> QED BY <1>1, <1>2

Dispatched == RequestEvaluation \/ RequestObject \/ RequestMethod \/ RequestPlain

LEMMA Dispatches ==
    ASSUME FramesInv, Dispatched
    PROVE  Begins(TRUE) /\ thrown = "none" /\ UNCHANGED <<thrown, stack>>
<1>1. PICK fn, code, this : Dispatch(fn, code, this)
  BY DEF Dispatched, RequestEvaluation, RequestObject, RequestMethod, RequestPlain
<1>2. PICK h : h = Frame(fn, code, <<>>, [NoLocals EXCEPT !["this"] = this], "this")
  OBVIOUS
<1>3. PICK f : f = [h EXCEPT !.request = TRUE]
  OBVIOUS
<1>5. Framed(f) /\ f.request = TRUE
  <2>1. PICK env : h = Frame(fn, code, <<>>, env, "this")
    BY <1>2
  <2> QED BY <1>3, <2>1 DEF Frame, Framed
<1>6. UNCHANGED <<stack, thrown>> /\ thrown = "none"
  BY <1>1 DEF Dispatch, rVars
<1>7. frames' = Append(frames, f)
  BY <1>1, <1>2, <1>3 DEF Dispatch
<1>8. Begins(f.request)
  BY <1>5, <1>7, FrameBegins
<1> QED BY <1>5, <1>6, <1>8

LEMMA StackSteps ==
    ASSUME FramesInv, ProtectObject \/ ReprotectObject \/ EnterTry \/ Unprotect
    PROVE  GoesOn
<1>1. frames # <<>>
  BY DEF ProtectObject, ReprotectObject, EnterTry, Unprotect, At
<1>2. PICK t : t = Top
  OBVIOUS
<1>3. Like(t, Top)
  BY <1>1, <1>2, Running
<1>4. ASSUME NEW m, NEW p, frames' = Advance([t EXCEPT !.n = m, !.prot = p]) PROVE GoesOn
  <2>1. PICK h : h = [t EXCEPT !.n = m]
    OBVIOUS
  <2>2. Like(h, Top)
    BY <1>3, <2>1, Edited
  <2>3. PICK g : g = [h EXCEPT !.prot = p]
    OBVIOUS
  <2>4. Like(g, Top)
    BY <2>2, <2>3, Edited
  <2>5. frames' = Advance(g)
    BY <1>4, <2>1, <2>3
  <2> QED BY <1>1, <2>4, <2>5, Advances
<1>5. CASE ProtectObject
  <2>1. \E m, p : frames' = Advance([t EXCEPT !.n = m, !.prot = p])
    BY <1>2, <1>5 DEF ProtectObject
  <2> QED BY <1>4, <2>1
<1>6. CASE ReprotectObject
  <2>1. frames' = Advance(Top)
    BY <1>6 DEF ReprotectObject
  <2> QED BY <1>1, <1>3, <2>1, Advances, Running
<1>7. CASE EnterTry
  <2>1. PICK p, g : frames' = Advance(g) /\ g = [t EXCEPT !.prot = p]
    BY <1>2, <1>7 DEF EnterTry
  <2>2. Like(g, Top)
    BY <1>3, <2>1, Edited
  <2> QED BY <1>1, <2>1, <2>2, Advances
<1>8. CASE Unprotect
  <2>1. \E m, p : frames' = Advance([t EXCEPT !.n = m, !.prot = p])
    BY <1>2, <1>8 DEF Unprotect
  <2> QED BY <1>4, <2>1
<1> QED BY <1>5, <1>6, <1>7, <1>8

(* A frame that is left.                                                   *)
LEMMA FrontFrames ==
    ASSUME FramesInv, frames # <<>>, frames' = Front(frames)
    PROVE  Keeps(Len(frames) - 1, 0)
<1>1. /\ Len(frames) \in Nat /\ Len(frames) >= 1
      /\ frames' \in Seq(ToSet(frames)) /\ Len(frames') = Len(frames) - 1
      /\ \A i \in 1 .. Len(frames) - 1 : frames'[i] = frames[i]
  BY TopFacts DEF FramesInv
<1>2. \A i \in 1 .. Len(frames) - 1 : Like(frames'[i], frames[i])
  BY <1>1 DEF FramesInv, Like
<1>3. frames' \in Seq(ToSet(frames'))
  BY <1>1, OwnSeq
<1> QED BY <1>1, <1>2, <1>3 DEF Keeps

LEMMA Returns ==
    ASSUME FramesInv, Leave
    PROVE  /\ thrown = "none" /\ UNCHANGED thrown
           /\ GoesOn \/ (Ends /\ Len(frames) >= 2)
<1>1. /\ frames # <<>> /\ thrown = "none" /\ UNCHANGED thrown /\ ~ IsRequest(Top)
  BY DEF Leave, At
<1>2. /\ Len(frames) \in Nat /\ Len(frames) >= 1 /\ Top = frames[Len(frames)] /\ Like(Top, Top)
  BY <1>1, Running
<1>3. Len(frames) >= 2
  BY <1>1, <1>2 DEF FramesInv
<1>4. CASE Top.fin # <<>>
  <2>1. frames' = Goto([Top EXCEPT !.fin = <<>>], Top.fin \o Top.code)
    BY <1>4 DEF Leave
  <2>2. Like([Top EXCEPT !.fin = <<>>], Top)
    BY <1>2, Edited
  <2> QED BY <1>1, <2>1, <2>2 DEF GoesOn
<1>5. CASE Top.fin = <<>>
  <2>1. PICK env : frames' = Append(Front(Front(frames)), [frames[Len(frames) - 1] EXCEPT !.env = env])
    BY <1>5 DEF Leave
  <2>2. PICK g : g = [frames[Len(frames) - 1] EXCEPT !.env = env]
    OBVIOUS
  <2>3. Like(g, frames[Len(frames) - 1])
    <3>1. Framed(frames[Len(frames) - 1])
      BY <1>2, <1>3 DEF FramesInv
    <3>2. Like(frames[Len(frames) - 1], frames[Len(frames) - 1])
      BY <3>1 DEF Like
    <3> QED BY <2>2, <3>2, Edited
  <2>4. PICK q : q = Front(frames)
    OBVIOUS
  <2>5. /\ q \in Seq(ToSet(frames)) /\ Len(q) = Len(frames) - 1 /\ q # <<>>
        /\ \A i \in 1 .. Len(frames) - 1 : q[i] = frames[i]
    BY <1>1, <1>3, <2>4, TopFacts DEF FramesInv
  <2>6. /\ Front(q) \in Seq(ToSet(frames)) /\ Len(Front(q)) = Len(frames) - 2
        /\ \A i \in 1 .. Len(frames) - 2 : Front(q)[i] = q[i]
    <3>1. /\ Front(q) \in Seq(ToSet(frames)) /\ Len(Front(q)) = Len(q) - 1
          /\ \A i \in 1 .. Len(q) - 1 : Front(q)[i] = q[i]
      BY <2>5, TopFacts
    <3>2. Len(q) - 1 = Len(frames) - 2
      BY <1>2, <2>5
    <3> QED BY <3>1, <3>2
  <2>7. /\ frames' \in Seq(ToSet(frames) \cup {g}) /\ Len(frames') = Len(frames) - 1
        /\ \A i \in 1 .. Len(frames) - 2 : frames'[i] = Front(q)[i]
        /\ frames'[Len(frames) - 1] = g
    <3>1. frames' = Append(Front(q), g)
      BY <2>1, <2>2, <2>4
    <3> QED BY <1>2, <1>3, <2>6, <3>1
  <2>8. ASSUME NEW i \in 1 .. Len(frames) - 1 PROVE Like(frames'[i], frames[i])
    <3>1. CASE i = Len(frames) - 1
      BY <2>3, <2>7, <3>1
    <3>2. CASE i # Len(frames) - 1
      <4>1. i \in 1 .. Len(frames) - 2 /\ i \in 1 .. Len(frames)
        BY <1>2, <2>8, <3>2
      <4>2. frames'[i] = frames[i]
        BY <2>5, <2>6, <2>7, <4>1
      <4> QED BY <4>1, <4>2 DEF FramesInv, Like
    <3> QED BY <3>1, <3>2
  <2>9. frames' \in Seq(ToSet(frames'))
    BY <2>7, OwnSeq
  <2>10. Keeps(Len(frames) - 1, 0)
    BY <1>2, <2>7, <2>8, <2>9 DEF Keeps
  <2> QED BY <1>1, <1>3, <2>1, <2>10 DEF Ends
<1> QED BY <1>1, <1>4, <1>5

LEMMA Finished ==
    ASSUME FramesInv, AnswerRequest
    PROVE  Ends /\ thrown = "none" /\ UNCHANGED thrown
<1>1. frames # <<>> /\ frames' = Front(frames) /\ UNCHANGED thrown /\ thrown = "none"
  BY DEF AnswerRequest, At
<1> QED BY <1>1, FrontFrames DEF Ends

LEMMA Unwinds ==
    ASSUME FramesInv, Unwind
    PROVE  GoesOn \/ (Ends /\ (thrown' # "none" => Len(frames) >= 2))
<1>1. frames # <<>> /\ thrown # "none"
  BY DEF Unwind, FramesInv
<1>2. /\ Len(frames) \in Nat /\ Len(frames) >= 1 /\ Top = frames[Len(frames)] /\ Like(Top, Top)
  BY <1>1, Running
<1>3. CASE Top.fin # <<>>
  <2>1. frames' = Goto([Top EXCEPT !.fin = <<>>], Append(Top.fin, Throw(thrown)))
    BY <1>3 DEF Unwind
  <2>2. Like([Top EXCEPT !.fin = <<>>], Top)
    BY <1>2, Edited
  <2> QED BY <1>1, <2>1, <2>2 DEF GoesOn
<1>4. CASE Top.fin = <<>>
  <2>1. /\ frames' = Front(frames)
        /\ thrown' = IF IsRequest(Top) /\ (thrown = "error" \/ Len(frames) = 1) THEN "none" ELSE thrown
    BY <1>4 DEF Unwind
  <2>2. Len(frames) = 1 => IsRequest(Top)
    BY <1>1, <1>2 DEF FramesInv
  <2>3. thrown' # "none" => Len(frames) >= 2
    <3>1. CASE Len(frames) = 1
      <4>1. thrown' = "none"
        BY <2>1, <2>2, <3>1, Zenon
      <4> QED BY <4>1
    <3>2. Len(frames) = 1 \/ Len(frames) >= 2
      BY <1>2
    <3> QED BY <3>1, <3>2, Zenon
  <2> QED BY <1>1, <2>1, <2>3, FrontFrames DEF Ends
<1> QED BY <1>3, <1>4

-----------------------------------------------------------------------------
(* The frames.                                                             *)

LEMMA FramesGo == ASSUME FramesInv, Works PROVE FramesInv'
<1>1. /\ Len(frames) \in Nat /\ Len(frames) >= 1 /\ Len(frames') = Len(frames)
      /\ frames' \in Seq(ToSet(frames'))
      /\ \A i \in 1 .. Len(frames) - 1 : Like(frames'[i], frames[i])
      /\ Framed(frames'[Len(frames)])
      /\ frames # <<>>
  BY Running DEF Works, Keeps
<1>2. frames'[Len(frames)].request = frames[Len(frames)].request
  BY DEF Works
<1>3. frames' # <<>>
  BY <1>1
<1>4. ASSUME NEW i \in 1 .. Len(frames)
      PROVE  Framed(frames'[i]) /\ frames'[i].request = frames[i].request
  <2>1. CASE i = Len(frames)
    BY <1>1, <1>2, <2>1
  <2>2. CASE i # Len(frames)
    <3>1. i \in 1 .. Len(frames) - 1
      BY <1>1, <2>2
    <3> QED BY <1>1, <3>1 DEF Like
  <2> QED BY <2>1, <2>2
<1>5. IsRequest(frames'[1])
  BY <1>1, <1>4 DEF FramesInv, IsRequest
<1> QED BY <1>1, <1>3, <1>4, <1>5 DEF FramesInv, IsRequest

LEMMA FramesBegin ==
    ASSUME FramesInv, NEW q \in BOOLEAN, Begins(q), q \/ frames # <<>>
    PROVE  FramesInv'
<1>1. /\ Len(frames) \in Nat /\ Len(frames') = Len(frames) + 1
      /\ frames' \in Seq(ToSet(frames'))
      /\ \A i \in 1 .. Len(frames) : Like(frames'[i], frames[i])
      /\ Framed(frames'[Len(frames) + 1])
      /\ frames'[Len(frames) + 1].request = q
  BY DEF Begins, Keeps, FramesInv
<1>2. frames # <<>> => 1 \in 1 .. Len(frames)
  BY <1>1 DEF FramesInv
<1>3. \A i \in 1 .. Len(frames') : Framed(frames'[i])
  <2>1. \A i \in 1 .. Len(frames') : i \in 1 .. Len(frames) \/ i = Len(frames) + 1
    BY <1>1
  <2> QED BY <1>1, <2>1 DEF Like
<1>4. frames' # <<>>
  BY <1>1
<1>5. IsRequest(frames'[1])
  <2>1. CASE frames = <<>>
    <3>1. Len(frames) + 1 = 1 /\ q
      BY <2>1
    <3>2. frames'[1].request
      BY <1>1, <3>1
    <3> QED BY <3>2 DEF IsRequest
  <2>2. CASE frames # <<>>
    <3>1. Like(frames'[1], frames[1])
      BY <1>1, <1>2, <2>2
    <3> QED BY <2>2, <3>1 DEF FramesInv, IsRequest, Like
  <2> QED BY <2>1, <2>2
<1> QED BY <1>1, <1>3, <1>4, <1>5 DEF FramesInv, IsRequest

LEMMA FramesEnd ==
    ASSUME FramesInv, Ends, thrown' # "none" => Len(frames) >= 2
    PROVE  FramesInv'
<1>1. /\ Len(frames) \in Nat /\ Len(frames) >= 1 /\ Len(frames') = Len(frames) - 1
      /\ frames' \in Seq(ToSet(frames'))
      /\ \A i \in 1 .. Len(frames) - 1 : Like(frames'[i], frames[i])
      /\ frames # <<>>
  BY Running DEF Ends, Keeps
<1>2. frames' = <<>> <=> Len(frames) = 1
  BY <1>1
<1>3. frames' # <<>> => 1 \in 1 .. Len(frames) - 1
  BY <1>1, <1>2
<1>4. frames' # <<>> => IsRequest(frames'[1])
  BY <1>1, <1>3 DEF FramesInv, IsRequest, Like
<1>5. thrown' # "none" => frames' # <<>>
  BY <1>1, <1>2
<1> QED BY <1>1, <1>4, <1>5 DEF FramesInv, IsRequest, Like

LEMMA FramesKept == ASSUME FramesInv, [EvalNext]_evalVars PROVE FramesInv'
<1>1. ASSUME GoesOn PROVE FramesInv'
  <2>1. CASE UNCHANGED frames
    BY <1>1, <2>1 DEF FramesInv, GoesOn
  <2>2. CASE Works
    BY <2>2, FramesGo
  <2> QED BY <1>1, <2>1, <2>2, TopGoesOn DEF GoesOn
<1>2. CASE \/ Allocate \/ AddField \/ Read \/ Evaluate \/ Branch \/ FinishUser \/ KeepObject
           \/ RaiseException \/ SetInteractive \/ OpenDevice \/ NewPlots \/ CloseDevice
           \/ DestroyPlots \/ Plot
  BY <1>1, <1>2, HeapSteps, SessionSteps
<1>3. CASE ProtectObject \/ ReprotectObject \/ EnterTry \/ Unprotect
  BY <1>1, <1>3, StackSteps
<1>4. CASE Construct \/ CallMethod
  BY <1>1, <1>4, Calls, FramesBegin
<1>5. CASE Leave
  BY <1>1, <1>5, Returns, FramesEnd
<1>6. CASE Unwind
  BY <1>1, <1>6, Unwinds, FramesEnd
<1>7. CASE AnswerRequest
  BY <1>7, Finished, FramesEnd
<1>8. CASE Dispatched
  BY <1>8, Dispatches, FramesBegin
<1>9. CASE UNCHANGED evalVars
  BY <1>9 DEF evalVars, FramesInv
<1> QED BY <1>2, <1>3, <1>4, <1>5, <1>6, <1>7, <1>8, <1>9 DEF EvalNext, Dispatched

LEMMA InitFrames == EvalInit => FramesInv
BY DEF EvalInit, FramesInv

(***************************************************************************)
(* Data and steps of the types that go with n objects in R's heap.         *)
(***************************************************************************)
DatumKind == {"RVectorAtomic", "RCharacter", "RPairlist", "RCall", "RList", "REnvironment", "array",
         "RDataFrame", "object", "local", "any", "frame"}

DatumMark == Local \cup {"", "sure", "misnamed", "internal", "graphics", "badenv", "unhandled",
                    "unthrown"}

MethodKind == {"slice", "pluck", "set", "detectMissing", "toArray", "toString", "names", "toJs",
           "exec", "deparse", "isNa", "parseEvalBare", "bind", "isDataFrame", "evalR", "captureR"}

(* Those that look at the parts of what they get.                          *)
Parted == {"pluck", "bind", "evalR", "captureR"}

Fits(d, n) ==
    /\ d.is = "local" => d.at \in Local
    /\ d.is = "object" => d.obj <= n

Leaf(n) ==
    {d \in [is : DatumKind, parts : {<<>>}, named : BOOLEAN, at : DatumMark, obj : Nat] : Fits(d, n)}

Flat(n) ==
    {d \in [is : DatumKind, parts : Seq(Leaf(n)), named : BOOLEAN, at : DatumMark, obj : Nat] :
       Fits(d, n)}

Datum(n) ==
    {d \in [is : DatumKind, parts : Seq(Flat(n)), named : BOOLEAN, at : DatumMark, obj : Nat] :
       Fits(d, n)}

MethodCalls(n) ==
    {s \in [op : {"method"}, to : Local, fn : MethodKind, of : Local, data : Datum(n)] :
       s.fn \in Parted => s.data.parts # <<>>}

Simple(n) ==
    [op : {"alloc"}, to : Local, of : Seq(Local)]
    \cup [op : {"attach", "link"}, to : Local, of : Local]
    \cup [op : {"field"}, to : Local, of : Local, at : Nat]
    \cup [op : {"use", "protect", "protectInc", "reprotect", "keep", "return"}, of : Local]
    \cup [op : {"try"}, count : Nat]
    \cup [op : {"eval"}, to : Local, of : Local, at : Nat, sure : BOOLEAN]
    \cup [op : {"new"}, to : Local, data : Datum(n)]
    \cup MethodCalls(n)
    \cup [op : {"answer"}, of : Seq(Local)]
    \cup [op : {"convert"}] \cup [op : {"throw"}, what : {"error", "unwind"}]

Inner(n) == Simple(n) \cup [op : {"ifany"}, of : Local, then : Seq(Simple(n))]

Plain(n) == Simple(n) \cup [op : {"ifany"}, of : Local, then : Seq(Inner(n))]

Special(n) ==
    [op : {"quiet", "open", "newplots", "restore", "close", "destroy", "unprotect"}]
    \cup [op : {"user"}, to : {"ptr"}, data : Datum(n)]

Steps(n) == Plain(n) \cup Special(n)

LEMMA LocalsAre ==
    /\ "this" \in Local /\ "arg" \in Local /\ "ptr" \in Local /\ "idx" \in Local
    /\ "call" \in Local /\ "out" \in Local /\ "v1" \in Local /\ "v2" \in Local
    /\ "v3" \in Local /\ "dev" \in Local /\ "plots" \in Local /\ "result" \in Local
    /\ "output" \in Local
    /\ \A i : V(i) \in Local
<1>1. \A i : V(i) \in Local
  BY DEF V, Local
<1> QED BY <1>1 DEF Local

LEMMA SeqWidens ==
    ASSUME NEW S, NEW T, S \subseteq T
    PROVE  Seq(S) \subseteq Seq(T)
OBVIOUS

LEMMA Levels ==
    ASSUME NEW n \in Nat
    PROVE  /\ Leaf(n) \subseteq Flat(n) /\ Flat(n) \subseteq Datum(n)
           /\ Seq(Leaf(n)) \subseteq Seq(Flat(n)) /\ Seq(Flat(n)) \subseteq Seq(Datum(n))
<1>1. Leaf(n) \subseteq Flat(n)
  <2>1. PICK S : S = Leaf(n)
    OBVIOUS
  <2>2. <<>> \in Seq(S)
    OBVIOUS
  <2> QED BY <2>1, <2>2 DEF Leaf, Flat
<1>2. Seq(Leaf(n)) \subseteq Seq(Flat(n))
  BY <1>1, SeqWidens
<1>3. Flat(n) \subseteq Datum(n)
  <2>1. PICK S, T, U : S = Seq(Leaf(n)) /\ T = Seq(Flat(n)) /\ S \subseteq T
    BY <1>2
  <2> QED BY <2>1 DEF Flat, Datum
<1> QED BY <1>1, <1>2, <1>3, SeqWidens

DatumOf(k, p, b, a, i) == [is |-> k, parts |-> p, named |-> b, at |-> a, obj |-> i]

LEMMA DatumOfIs ==
    ASSUME NEW k, NEW p, NEW b, NEW a, NEW i
    PROVE  /\ DatumOf(k, p, b, a, i).is = k /\ DatumOf(k, p, b, a, i).parts = p
           /\ DatumOf(k, p, b, a, i).named = b /\ DatumOf(k, p, b, a, i).at = a
           /\ DatumOf(k, p, b, a, i).obj = i
BY DEF DatumOf

LEMMA DTold ==
    ASSUME NEW k, NEW p, NEW b
    PROVE  D(k, p, b) = DatumOf(k, p, b, "", 0)
BY DEF D, DatumOf

LEMMA DatumIs ==
    ASSUME NEW n \in Nat, NEW k \in DatumKind, NEW b \in BOOLEAN, NEW a \in DatumMark, NEW i \in Nat, NEW p,
           k = "local" => a \in Local, k = "object" => i <= n
    PROVE  /\ p = <<>> => DatumOf(k, p, b, a, i) \in Leaf(n)
           /\ p \in Seq(Leaf(n)) => DatumOf(k, p, b, a, i) \in Flat(n)
           /\ p \in Seq(Flat(n)) => DatumOf(k, p, b, a, i) \in Datum(n)
BY DEF Leaf, Flat, Datum, Fits, DatumOf

LEMMA NamesAre ==
    /\ "" \in DatumMark /\ "sure" \in DatumMark /\ "internal" \in DatumMark
    /\ "RVectorAtomic" \in DatumKind /\ "RCharacter" \in DatumKind /\ "object" \in DatumKind
    /\ "local" \in DatumKind /\ "RCall" \in DatumKind /\ "RList" \in DatumKind /\ "REnvironment" \in DatumKind
    /\ "any" \in DatumKind /\ "frame" \in DatumKind
    /\ Local \subseteq DatumMark
<1>1. Local \subseteq DatumMark
  BY DEF DatumMark
<1>2. "" \in DatumMark /\ "sure" \in DatumMark /\ "internal" \in DatumMark
  BY DEF DatumMark
<1> QED BY <1>1, <1>2 DEF DatumKind

LEMMA SomeData ==
    ASSUME NEW n \in Nat
    PROVE  /\ Atom \in Leaf(n) /\ Strings \in Leaf(n) /\ Symbol \in Leaf(n)
           /\ \A x \in Local : Here(x) \in Leaf(n)
           /\ \A i \in Nat : Index(i) \in Leaf(n) /\ Sure(i) \in Leaf(n)
           /\ \A i, j \in Nat : Path(i, j) \in Datum(n) /\ Path(i, j).parts # <<>>
<1>0. 0 \in Nat /\ 0 <= n /\ FALSE \in BOOLEAN
  OBVIOUS
<1>1. /\ Atom = DatumOf("RVectorAtomic", <<>>, FALSE, "", 0)
      /\ Strings = DatumOf("RCharacter", <<>>, FALSE, "", 0)
      /\ Symbol = DatumOf("object", <<>>, FALSE, "", 0)
  BY DTold DEF Atom, Strings, Symbol
<1>2. Atom \in Leaf(n) /\ Strings \in Leaf(n) /\ Symbol \in Leaf(n)
  BY <1>0, <1>1, NamesAre, DatumIs
<1>3. ASSUME NEW x \in Local PROVE Here(x) \in Leaf(n)
  <2>1. PICK h, d : h = Here(x) /\ d = D("local", <<>>, FALSE)
    OBVIOUS
  <2>2. d = DatumOf("local", <<>>, FALSE, "", 0) /\ h = [d EXCEPT !.at = x]
    BY <2>1, DTold DEF Here
  <2>3. h = DatumOf("local", <<>>, FALSE, x, 0)
    BY <2>2 DEF DatumOf
  <2> QED BY <1>0, <2>1, <2>3, NamesAre, DatumIs
<1>4. ASSUME NEW i \in Nat
      PROVE  /\ Index(i) = DatumOf("RVectorAtomic", <<>>, FALSE, "", i) /\ Index(i) \in Leaf(n)
             /\ Sure(i) = DatumOf("RVectorAtomic", <<>>, FALSE, "sure", i) /\ Sure(i) \in Leaf(n)
  <2>0. PICK a, h, s : a = Atom /\ h = Index(i) /\ s = Sure(i)
    OBVIOUS
  <2>1. a = DatumOf("RVectorAtomic", <<>>, FALSE, "", 0) /\ h = [a EXCEPT !.obj = i] /\ s = [h EXCEPT !.at = "sure"]
    BY <1>1, <2>0 DEF Index, Sure
  <2>2. h = DatumOf("RVectorAtomic", <<>>, FALSE, "", i)
    BY <2>1 DEF DatumOf
  <2>3. s = DatumOf("RVectorAtomic", <<>>, FALSE, "sure", i)
    BY <2>1, <2>2 DEF DatumOf
  <2>4. "RVectorAtomic" \in DatumKind /\ "" \in DatumMark /\ "sure" \in DatumMark
    BY NamesAre
  <2>5. h \in Leaf(n)
    BY <1>0, <2>2, <2>4, DatumIs
  <2>6. s \in Leaf(n)
    BY <1>0, <2>3, <2>4, DatumIs
  <2> QED BY ONLY <2>0, <2>2, <2>3, <2>5, <2>6
<1>5. ASSUME NEW i \in Nat, NEW j \in Nat PROVE Path(i, j) \in Datum(n) /\ Path(i, j).parts # <<>>
  <2>1. PICK q, h, d, e : q = <<e>> /\ h = Path(i, j) /\ d = Sure(i) /\ e = Sure(j)
    OBVIOUS
  <2>2. q \in Seq(Flat(n)) /\ q # <<>>
    <3>1. e \in Flat(n)
      BY <1>4, <2>1, Levels
    <3> QED BY <2>1, <3>1
  <2>3. h = [d EXCEPT !.parts = q] /\ d = DatumOf("RVectorAtomic", <<>>, FALSE, "sure", i)
    BY <1>4, <2>1 DEF Path
  <2>4. h = DatumOf("RVectorAtomic", q, FALSE, "sure", i)
    BY <2>3 DEF DatumOf
  <2>5. DatumOf("RVectorAtomic", q, FALSE, "sure", i) \in Datum(n)
    <3>1. PICK k, a : k = "RVectorAtomic" /\ a = "sure"
      OBVIOUS
    <3>2. k \in DatumKind /\ a \in DatumMark /\ k # "local" /\ k # "object"
      BY <3>1, NamesAre
    <3> QED BY <1>0, <2>2, <3>1, <3>2, DatumIs
  <2>6. h.parts = q
    BY <2>4 DEF DatumOf
  <2> QED BY <2>1, <2>2, <2>4, <2>5, <2>6
<1> QED BY <1>2, <1>3, <1>4, <1>5

LEMMA StepSets ==
    ASSUME NEW n \in Nat
    PROVE  /\ Simple(n) \subseteq Inner(n) /\ Inner(n) \subseteq Plain(n)
           /\ Simple(n) \subseteq Plain(n)
           /\ Plain(n) \subseteq Steps(n) /\ Special(n) \subseteq Steps(n)
           /\ Seq(Simple(n)) \subseteq Seq(Inner(n)) /\ Seq(Inner(n)) \subseteq Seq(Plain(n))
           /\ Seq(Simple(n)) \subseteq Seq(Plain(n)) /\ Seq(Plain(n)) \subseteq Seq(Steps(n))
<1>1. Simple(n) \subseteq Inner(n) /\ Simple(n) \subseteq Plain(n)
  BY DEF Inner, Plain
<1>2. Seq(Simple(n)) \subseteq Seq(Inner(n)) /\ Seq(Simple(n)) \subseteq Seq(Plain(n))
  BY <1>1, SeqWidens
<1>3. Inner(n) \subseteq Plain(n)
  <2>1. PICK S, T, U : S = Seq(Simple(n)) /\ T = Seq(Inner(n)) /\ S \subseteq T /\ U = Simple(n)
    BY <1>2
  <2>2. [op : {"ifany"}, of : Local, then : S] \subseteq [op : {"ifany"}, of : Local, then : T]
    BY <2>1
  <2> QED BY <2>1, <2>2 DEF Inner, Plain
<1>4. Plain(n) \subseteq Steps(n) /\ Special(n) \subseteq Steps(n)
  BY DEF Steps
<1> QED BY <1>1, <1>2, <1>3, <1>4, SeqWidens

LEMMA SomeSteps ==
    ASSUME NEW n \in Nat, NEW x \in Local, NEW y \in Local
    PROVE  /\ \A of \in Seq(Local) : Alloc(x, of) \in Simple(n) /\ Answer(of) \in Simple(n)
           /\ Attach(x, y) \in Simple(n) /\ Link(x, y) \in Simple(n)
           /\ \A i \in Nat : Field(x, y, i) \in Simple(n)
           /\ \A i \in Nat, b \in BOOLEAN : SafeEval(x, y, i, b) \in Simple(n)
           /\ Use(x) \in Simple(n) /\ Protect(x) \in Simple(n) /\ ProtectInc(x) \in Simple(n)
           /\ Reprotect(x) \in Simple(n) /\ \A k \in Nat : Try(k) \in Simple(n)
           /\ Keep(x) \in Simple(n) /\ Return(x) \in Simple(n)
           /\ \A d \in Datum(n) : New(x, d) \in Simple(n)
           /\ Do("convert") \in Simple(n) /\ Throw("error") \in Simple(n) /\ Throw("unwind") \in Simple(n)
           /\ \A q \in Seq(Simple(n)) : IfAny(x, q) \in Inner(n)
           /\ \A q \in Seq(Inner(n)) : IfAny(x, q) \in Plain(n)
<1>1. ASSUME NEW of \in Seq(Local) PROVE Alloc(x, of) \in Simple(n) /\ Answer(of) \in Simple(n)
  BY DEF Alloc, Answer, Simple
<1>2. Attach(x, y) \in Simple(n) /\ Link(x, y) \in Simple(n)
  BY DEF Attach, Link, Simple
<1>3. ASSUME NEW i \in Nat PROVE Field(x, y, i) \in Simple(n)
  BY DEF Field, Simple
<1>4. ASSUME NEW i \in Nat, NEW b \in BOOLEAN PROVE SafeEval(x, y, i, b) \in Simple(n)
  BY DEF SafeEval, Simple
<1>5. Use(x) \in Simple(n) /\ Protect(x) \in Simple(n)
  BY DEF Use, Protect, Simple
<1>11. ProtectInc(x) \in Simple(n) /\ Reprotect(x) \in Simple(n)
  BY DEF ProtectInc, Reprotect, Simple
<1>12. ASSUME NEW k \in Nat PROVE Try(k) \in Simple(n)
  BY DEF Try, Simple
<1>6. Keep(x) \in Simple(n) /\ Return(x) \in Simple(n)
  BY DEF Keep, Return, Simple
<1>7. ASSUME NEW d \in Datum(n) PROVE New(x, d) \in Simple(n)
  BY DEF New, Simple
<1>8. Do("convert") \in Simple(n) /\ Throw("error") \in Simple(n) /\ Throw("unwind") \in Simple(n)
  BY DEF Do, Throw, Simple
<1>9. ASSUME NEW q \in Seq(Simple(n)) PROVE IfAny(x, q) \in Inner(n)
  BY DEF IfAny, Inner
<1>10. ASSUME NEW q \in Seq(Inner(n)) PROVE IfAny(x, q) \in Plain(n)
  BY DEF IfAny, Plain
<1> QED BY <1>1, <1>2, <1>3, <1>4, <1>5, <1>6, <1>7, <1>8, <1>9, <1>10, <1>11, <1>12

LEMMA SomeCalls ==
    ASSUME NEW n \in Nat, NEW x \in Local, NEW y \in Local, NEW d \in Datum(n), NEW fn \in MethodKind
    PROVE  fn \notin Parted \/ d.parts # <<>> => Call(x, fn, y, d) \in Simple(n)
<1>1. Call(x, fn, y, d) \in [op : {"method"}, to : Local, fn : MethodKind, of : Local, data : Datum(n)]
  BY DEF Call
<1>2. Call(x, fn, y, d).fn = fn /\ Call(x, fn, y, d).data = d
  BY DEF Call
<1> QED BY <1>1, <1>2 DEF MethodCalls, Simple

LEMMA MoreSteps ==
    ASSUME NEW n \in Nat
    PROVE  /\ Do("quiet") \in Special(n) /\ Do("open") \in Special(n) /\ Do("newplots") \in Special(n)
           /\ Do("restore") \in Special(n) /\ Do("close") \in Special(n) /\ Do("destroy") \in Special(n)
           /\ Do("unprotect") \in Special(n)
           /\ \A d \in Datum(n) : [op |-> "user", to |-> "ptr", data |-> d] \in Special(n)
BY DEF Do, Special

(* A sequence of steps that ends the function.                             *)
Ended(c) == c # <<>> /\ c[Len(c)].op \in {"return", "throw", "answer"}

Code(c, n) == c \in Seq(Plain(n)) /\ Ended(c)

LEMMA EndsWith ==
    ASSUME NEW S, NEW c \in Seq(S), NEW s \in S, s.op \in {"return", "throw", "answer"}
    PROVE  c \o <<s>> \in Seq(S) /\ Ended(c \o <<s>>)
<1>1. PICK q : q = c \o <<s>>
  OBVIOUS
<1>2. q \in Seq(S) /\ Len(q) = Len(c) + 1 /\ q[Len(q)] = s /\ Len(c) \in Nat
  BY <1>1
<1>3. q # <<>>
  BY <1>2
<1> QED BY <1>1, <1>2, <1>3 DEF Ended

LEMMA LastSteps ==
    /\ \A x : Return(x).op = "return" /\ Answer(x).op = "answer" /\ Throw(x).op = "throw"
BY DEF Return, Answer, Throw

LEMMA EndsPlainly ==
    ASSUME NEW n \in Nat, NEW c \in Seq(Simple(n))
    PROVE  /\ \A x \in Local : Code(c \o <<Return(x)>>, n)
           /\ \A x \in Seq(Local) : Code(c \o <<Answer(x)>>, n)
           /\ Code(c \o <<Throw("error")>>, n)
<1>1. ASSUME NEW s \in Simple(n), s.op \in {"return", "throw", "answer"}
      PROVE  Code(c \o <<s>>, n)
  <2>1. c \in Seq(Plain(n)) /\ s \in Plain(n)
    BY StepSets
  <2> QED BY <1>1, <2>1, EndsWith DEF Code
<1>2. ASSUME NEW x \in Local PROVE Code(c \o <<Return(x)>>, n)
  BY <1>1, SomeSteps, LastSteps
<1>3. ASSUME NEW x \in Seq(Local) PROVE Code(c \o <<Answer(x)>>, n)
  BY <1>1, SomeSteps, LastSteps, LocalsAre
<1>4. Code(c \o <<Throw("error")>>, n)
  BY <1>1, SomeSteps, LastSteps, LocalsAre
<1> QED BY <1>2, <1>3, <1>4

LEMMA FunctionSeq ==
    ASSUME NEW S, NEW m \in Nat, NEW q \in [1 .. m -> S]
    PROVE  q \in Seq(S) /\ Len(q) = m
OBVIOUS

LEMMA Halves ==
    ASSUME NEW m \in Nat, NEW k \in 1 .. 2 * m
    PROVE  /\ k % 2 = 1 => (k + 1) \div 2 \in 1 .. m
           /\ k % 2 # 1 => k \div 2 \in 1 .. m
OBVIOUS

LEMMA WithIs ==
    ASSUME NEW n \in Nat, NEW e \in Flat(n)
    PROVE  With(e) \in Datum(n) /\ With(e).parts # <<>>
<1>1. PICK p, k : p = <<e>> /\ k = "RVectorAtomic"
  OBVIOUS
<1>2. p \in Seq(Flat(n)) /\ p # <<>>
  BY <1>1
<1>3. k \in DatumKind /\ k # "local" /\ k # "object" /\ "" \in DatumMark /\ 0 \in Nat /\ FALSE \in BOOLEAN
  BY <1>1, NamesAre
<1>4. DatumOf(k, p, FALSE, "", 0) \in Datum(n)
  BY <1>2, <1>3, DatumIs
<1>5. DatumOf(k, p, FALSE, "", 0).parts = p
  BY DEF DatumOf
<1>6. With(e) = DatumOf(k, p, FALSE, "", 0)
  BY <1>1, DTold DEF With
<1> QED BY <1>2, <1>4, <1>5, <1>6

(* Steps for each part.                                                    *)
LEMMA PartSteps ==
    ASSUME NEW n \in Nat, NEW p \in Seq(Flat(n))
    PROVE  /\ One(p, LAMBDA i : New(V(i), p[i])) \in Seq(Simple(n))
           /\ One(p, LAMBDA i : Link("ptr", V(i))) \in Seq(Simple(n))
           /\ Each(p, LAMBDA i : New(V(i), p[i]), LAMBDA i : ProtectInc(V(i))) \in Seq(Simple(n))
           /\ Each(p, LAMBDA i : New("v1", p[i]), LAMBDA i : Link("ptr", "v1")) \in Seq(Simple(n))
           /\ One(p, LAMBDA i : Call("ptr", "bind", "ptr", With(p[i]))) \in Seq(Simple(n))
<1>0. Len(p) \in Nat /\ \A i \in 1 .. Len(p) : p[i] \in Datum(n)
  BY Levels
<1>1. ASSUME NEW i \in 1 .. Len(p) PROVE New(V(i), p[i]) \in Simple(n) /\ New("v1", p[i]) \in Simple(n)
  BY <1>0, LocalsAre, SomeSteps
<1>2. ASSUME NEW i
      PROVE  /\ Link("ptr", V(i)) \in Simple(n) /\ ProtectInc(V(i)) \in Simple(n)
             /\ Link("ptr", "v1") \in Simple(n)
  BY LocalsAre, SomeSteps
<1>3. One(p, LAMBDA i : New(V(i), p[i])) \in Seq(Simple(n))
  <2>1. PICK q : q = [i \in 1 .. Len(p) |-> New(V(i), p[i])]
    OBVIOUS
  <2>2. q \in [1 .. Len(p) -> Simple(n)]
    BY <1>1, <2>1
  <2>3. q \in Seq(Simple(n))
    BY <1>0, <2>2, FunctionSeq
  <2> QED BY <2>1, <2>3 DEF One
<1>4. One(p, LAMBDA i : Link("ptr", V(i))) \in Seq(Simple(n))
  <2>1. PICK q : q = [i \in 1 .. Len(p) |-> Link("ptr", V(i))]
    OBVIOUS
  <2>2. q \in [1 .. Len(p) -> Simple(n)]
    BY <1>2, <2>1
  <2>3. q \in Seq(Simple(n))
    BY <1>0, <2>2, FunctionSeq
  <2> QED BY <2>1, <2>3 DEF One
<1>5. 2 * Len(p) \in Nat
  BY <1>0
<1>6. Each(p, LAMBDA i : New(V(i), p[i]), LAMBDA i : ProtectInc(V(i))) \in Seq(Simple(n))
  <2>1. PICK q : q = [k \in 1 .. 2 * Len(p) |-> IF k % 2 = 1 THEN New(V((k + 1) \div 2), p[(k + 1) \div 2])
                                                ELSE ProtectInc(V(k \div 2))]
    OBVIOUS
  <2>2. ASSUME NEW k \in 1 .. 2 * Len(p) PROVE q[k] \in Simple(n)
    <3>1. CASE k % 2 = 1
      BY <1>0, <1>1, <2>1, <3>1, Halves
    <3>2. CASE k % 2 # 1
      BY <1>2, <2>1, <3>2
    <3> QED BY <3>1, <3>2
  <2>3. q \in [1 .. 2 * Len(p) -> Simple(n)]
    BY <2>1, <2>2
  <2>4. q \in Seq(Simple(n))
    BY <1>5, <2>3, FunctionSeq
  <2> QED BY <2>1, <2>4 DEF Each
<1>7. Each(p, LAMBDA i : New("v1", p[i]), LAMBDA i : Link("ptr", "v1")) \in Seq(Simple(n))
  <2>1. PICK q : q = [k \in 1 .. 2 * Len(p) |-> IF k % 2 = 1 THEN New("v1", p[(k + 1) \div 2])
                                                ELSE Link("ptr", "v1")]
    OBVIOUS
  <2>2. ASSUME NEW k \in 1 .. 2 * Len(p) PROVE q[k] \in Simple(n)
    <3>1. CASE k % 2 = 1
      BY <1>0, <1>1, <2>1, <3>1, Halves
    <3>2. CASE k % 2 # 1
      BY <1>2, <2>1, <3>2
    <3> QED BY <3>1, <3>2
  <2>3. q \in [1 .. 2 * Len(p) -> Simple(n)]
    BY <2>1, <2>2
  <2>4. q \in Seq(Simple(n))
    BY <1>5, <2>3, FunctionSeq
  <2> QED BY <2>1, <2>4 DEF Each
<1>8. One(p, LAMBDA i : Call("ptr", "bind", "ptr", With(p[i]))) \in Seq(Simple(n))
  <2>1. PICK q : q = [i \in 1 .. Len(p) |-> Call("ptr", "bind", "ptr", With(p[i]))]
    OBVIOUS
  <2>2. ASSUME NEW i \in 1 .. Len(p) PROVE Call("ptr", "bind", "ptr", With(p[i])) \in Simple(n)
    <3>1. "bind" \in MethodKind
      BY DEF MethodKind
    <3>2. With(p[i]) \in Datum(n) /\ With(p[i]).parts # <<>>
      BY WithIs
    <3> QED BY <3>1, <3>2, LocalsAre, SomeCalls
  <2>3. q \in [1 .. Len(p) -> Simple(n)]
    BY <2>1, <2>2
  <2>4. q \in Seq(Simple(n))
    BY <1>0, <2>3, FunctionSeq
  <2> QED BY <2>1, <2>4 DEF One
<1> QED BY <1>3, <1>4, <1>6, <1>7, <1>8

LEMMA CodeOfTwo ==
    ASSUME NEW n \in Nat, NEW a \in Plain(n),
           NEW z \in Plain(n), z.op \in {"return", "throw", "answer"}
    PROVE  Code(<<a, z>>, n)
BY DEF Code, Ended

LEMMA CodeOfThree ==
    ASSUME NEW n \in Nat, NEW a \in Plain(n), NEW b \in Plain(n),
           NEW z \in Plain(n), z.op \in {"return", "throw", "answer"}
    PROVE  Code(<<a, b, z>>, n)
BY DEF Code, Ended

LEMMA CodeOfFour ==
    ASSUME NEW n \in Nat, NEW a \in Plain(n), NEW b \in Plain(n), NEW c \in Plain(n),
           NEW z \in Plain(n), z.op \in {"return", "throw", "answer"}
    PROVE  Code(<<a, b, c, z>>, n)
BY DEF Code, Ended

LEMMA CodeOfFive ==
    ASSUME NEW n \in Nat, NEW a \in Plain(n), NEW b \in Plain(n), NEW c \in Plain(n),
           NEW d \in Plain(n),
           NEW z \in Plain(n), z.op \in {"return", "throw", "answer"}
    PROVE  Code(<<a, b, c, d, z>>, n)
BY DEF Code, Ended

LEMMA CodeOfSix ==
    ASSUME NEW n \in Nat, NEW a \in Plain(n), NEW b \in Plain(n), NEW c \in Plain(n),
           NEW d \in Plain(n), NEW e \in Plain(n),
           NEW z \in Plain(n), z.op \in {"return", "throw", "answer"}
    PROVE  Code(<<a, b, c, d, e, z>>, n)
BY DEF Code, Ended

LEMMA CodeOfSeven ==
    ASSUME NEW n \in Nat, NEW a \in Plain(n), NEW b \in Plain(n), NEW c \in Plain(n),
           NEW d \in Plain(n), NEW e \in Plain(n), NEW f \in Plain(n),
           NEW z \in Plain(n), z.op \in {"return", "throw", "answer"}
    PROVE  Code(<<a, b, c, d, e, f, z>>, n)
BY DEF Code, Ended

LEMMA CodeOfEight ==
    ASSUME NEW n \in Nat, NEW a \in Plain(n), NEW b \in Plain(n), NEW c \in Plain(n),
           NEW d \in Plain(n), NEW e \in Plain(n), NEW f \in Plain(n), NEW g \in Plain(n),
           NEW z \in Plain(n), z.op \in {"return", "throw", "answer"}
    PROVE  Code(<<a, b, c, d, e, f, g, z>>, n)
BY DEF Code, Ended

LEMMA DataKinds ==
    ASSUME NEW n \in Nat, NEW p \in Seq(Flat(n)), NEW b \in BOOLEAN,
           NEW k \in {"RCall", "REnvironment", "RList"}
    PROVE  D(k, p, b) \in Datum(n)
<1>1. k \in DatumKind /\ k # "local" /\ k # "object" /\ "" \in DatumMark /\ 0 \in Nat
  BY NamesAre
<1>2. DatumOf(k, p, b, "", 0) \in Datum(n)
  BY <1>1, DatumIs
<1> QED BY <1>2, DTold

LEMMA ExprIs ==
    ASSUME NEW n \in Nat, NEW k \in {"any", "frame"}, NEW a \in DatumMark
    PROVE  Expr(k, a) \in Datum(n) /\ Expr(k, a).parts # <<>>
<1>1. PICK h, d, e, p : h = Expr(k, a) /\ e = Here("this") /\ p = <<e>> /\ d = D(k, p, FALSE)
  OBVIOUS
<1>2. e \in Flat(n)
  BY <1>1, SomeData, LocalsAre, Levels
<1>3. p \in Seq(Flat(n)) /\ p # <<>>
  BY <1>1, <1>2
<1>4. h = [d EXCEPT !.at = a] /\ d = DatumOf(k, p, FALSE, "", 0)
  BY <1>1, DTold DEF Expr
<1>5. h = DatumOf(k, p, FALSE, a, 0) /\ h.parts = p
  BY <1>4 DEF DatumOf
<1>6. k \in DatumKind /\ k # "local" /\ k # "object" /\ 0 \in Nat /\ FALSE \in BOOLEAN
  BY NamesAre
<1>7. DatumOf(k, p, FALSE, a, 0) \in Datum(n)
  BY <1>3, <1>6, DatumIs
<1> QED BY <1>1, <1>3, <1>5, <1>7

LEMMA AtomsAre ==
    ASSUME NEW n \in Nat
    PROVE  /\ Atom \in Datum(n) /\ Strings \in Datum(n) /\ Atom \in Flat(n) /\ Strings \in Flat(n)
           /\ \A i \in Nat : Index(i) \in Datum(n) /\ Sure(i) \in Datum(n)
           /\ \A x \in Local : Here(x) \in Flat(n) /\ Here(x) \in Datum(n)
BY SomeData, Levels

LEMMA DatumFields ==
    ASSUME NEW n \in Nat, NEW d \in Datum(n)
    PROVE  /\ d.parts \in Seq(Flat(n)) /\ d.named \in BOOLEAN /\ d.obj \in Nat
           /\ \A i \in 1 .. Len(d.parts) : d.parts[i] \in Flat(n) /\ d.parts[i] \in Datum(n)
<1>1. d.parts \in Seq(Flat(n)) /\ d.named \in BOOLEAN /\ d.obj \in Nat
  BY DEF Datum
<1> QED BY <1>1, Levels

LEMMA NamesSet ==
    ASSUME NEW n \in Nat, NEW d \in Datum(n)
    PROVE  setNames("ptr", d) \in Seq(Simple(n))
<1>1. New("arg", Strings) \in Simple(n) /\ Attach("ptr", "arg") \in Simple(n)
  BY AtomsAre, LocalsAre, SomeSteps
<1> QED BY <1>1 DEF setNames

(* Constructors.                                                           *)
LEMMA AtomCode ==
    ASSUME NEW n \in Nat, NEW d \in Datum(n)
    PROVE  Code(RVectorAtomic(d), n)
<1>1. /\ Alloc("ptr", <<>>) \in Simple(n) /\ ProtectInc("ptr") \in Simple(n)
      /\ Alloc("v1", <<>>) \in Simple(n) /\ Link("ptr", "v1") \in Simple(n)
  <2>1. <<>> \in Seq(Local)
    OBVIOUS
  <2> QED BY <2>1, LocalsAre, SomeSteps
<1>2. PICK c : c = <<Alloc("ptr", <<>>), ProtectInc("ptr")>>
                   \o (IF d.is = "RCharacter" THEN <<Alloc("v1", <<>>), Link("ptr", "v1")>> ELSE <<>>)
                   \o setNames("ptr", d)
  OBVIOUS
<1>3. c \in Seq(Simple(n))
  BY <1>1, <1>2, NamesSet
<1>4. RVectorAtomic(d) = c \o <<Return("ptr")>>
  BY <1>2 DEF RVectorAtomic
<1> QED BY <1>3, <1>4, EndsPlainly, LocalsAre

LEMMA ListCode ==
    ASSUME NEW n \in Nat, NEW d \in Datum(n)
    PROVE  Code(RPairlist(d), n) /\ Code(RList(d), n) /\ Code(REnvironment(d), n)
<1>1. Alloc("ptr", <<>>) \in Simple(n) /\ ProtectInc("ptr") \in Simple(n) /\ Throw("error") \in Simple(n)
  <2>1. <<>> \in Seq(Local)
    OBVIOUS
  <2> QED BY <2>1, LocalsAre, SomeSteps
<1>2. d.parts \in Seq(Flat(n))
  BY DatumFields
<1>3. PICK a, b : /\ a = Each(d.parts, LAMBDA i : New("v1", d.parts[i]), LAMBDA i : Link("ptr", "v1"))
                  /\ b = One(d.parts, LAMBDA i : Call("ptr", "bind", "ptr", With(d.parts[i])))
  OBVIOUS
<1>4. a \in Seq(Simple(n)) /\ b \in Seq(Simple(n))
  BY <1>2, <1>3, PartSteps
<1>5. PICK s : s = setNames("ptr", d) /\ s \in Seq(Simple(n))
  BY NamesSet
<1>6. Code(RPairlist(d), n)
  <2>1. PICK c : c = <<Alloc("ptr", <<>>), ProtectInc("ptr")>> \o a \o s
    OBVIOUS
  <2>2. c \in Seq(Simple(n))
    BY <1>1, <1>4, <1>5, <2>1
  <2>3. RPairlist(d) = c \o <<Return("ptr")>>
    BY <1>3, <1>5, <2>1 DEF RPairlist
  <2> QED BY <2>2, <2>3, EndsPlainly, LocalsAre
<1>7. Code(RList(d), n)
  <2>1. PICK c : c = <<Alloc("ptr", <<>>), ProtectInc("ptr")>> \o a
                     \o (IF d.at = "misnamed" THEN <<Throw("error")>> ELSE s)
    OBVIOUS
  <2>2. c \in Seq(Simple(n))
    BY <1>1, <1>4, <1>5, <2>1
  <2>3. RList(d) = c \o <<Return("ptr")>>
    BY <1>3, <1>5, <2>1 DEF RList
  <2> QED BY <2>2, <2>3, EndsPlainly, LocalsAre
<1>8. Code(REnvironment(d), n)
  <2>1. PICK c : c = <<Alloc("ptr", <<>>), ProtectInc("ptr")>>
                     \o (IF d.named THEN b ELSE IF d.parts # <<>> THEN <<Throw("error")>> ELSE <<>>)
    OBVIOUS
  <2>2. c \in Seq(Simple(n))
    BY <1>1, <1>4, <2>1
  <2>3. REnvironment(d) = c \o <<Return("ptr")>>
    BY <1>3, <2>1 DEF REnvironment
  <2> QED BY <2>2, <2>3, EndsPlainly, LocalsAre
<1> QED BY <1>6, <1>7, <1>8

LEMMA CallCode ==
    ASSUME NEW n \in Nat, NEW d \in Datum(n)
    PROVE  Code(RCall(d), n)
<1>1. Alloc("ptr", <<>>) \in Simple(n) /\ ProtectInc("ptr") \in Simple(n)
  <2>1. <<>> \in Seq(Local)
    OBVIOUS
  <2> QED BY <2>1, LocalsAre, SomeSteps
<1>2. d.parts \in Seq(Flat(n))
  BY DatumFields
<1>3. PICK a, b : /\ a = Each(d.parts, LAMBDA i : New(V(i), d.parts[i]), LAMBDA i : ProtectInc(V(i)))
                  /\ b = One(d.parts, LAMBDA i : Link("ptr", V(i)))
  OBVIOUS
<1>4. a \in Seq(Simple(n)) /\ b \in Seq(Simple(n))
  BY <1>2, <1>3, PartSteps
<1>5. PICK c : c = a \o <<Alloc("ptr", <<>>), ProtectInc("ptr")>> \o b
  OBVIOUS
<1>6. c \in Seq(Simple(n))
  BY <1>1, <1>4, <1>5
<1>7. RCall(d) = c \o <<Return("ptr")>>
  BY <1>3, <1>5 DEF RCall
<1> QED BY <1>6, <1>7, EndsPlainly, LocalsAre

LEMMA ArrayCode ==
    ASSUME NEW n \in Nat, NEW d \in Datum(n)
    PROVE  Code(newObjectFromArray(d), n)
<1>1. D("RCall", d.parts, FALSE) \in Datum(n)
  BY DatumFields, DataKinds
<1>2. New("call", D("RCall", d.parts, FALSE)) \in Simple(n) /\ ProtectInc("call") \in Simple(n)
  BY <1>1, LocalsAre, SomeSteps
<1>3. Call("out", "evalR", "call", Expr("any", "internal")) \in Simple(n)
  <2>1. "evalR" \in MethodKind
    BY DEF MethodKind
  <2> QED BY <2>1, ExprIs, NamesAre, LocalsAre, SomeCalls
<1>4. Return("out") \in Simple(n) /\ Return("out").op = "return"
  BY SomeSteps, LastSteps, LocalsAre
<1> QED BY <1>2, <1>3, <1>4, StepSets, CodeOfFour DEF newObjectFromArray

LEMMA FrameCode ==
    ASSUME NEW n \in Nat, NEW d \in Datum(n)
    PROVE  Code(fromObject(d), n)
<1>1. CASE ~ d.named
  <2>1. <<>> \in Seq(Simple(n)) /\ fromObject(d) = <<>> \o <<Throw("error")>>
    BY <1>1 DEF fromObject
  <2> QED BY <2>1, EndsPlainly
<1>2. CASE d.named
  <2>1. PICK e, h, a, p : /\ e = D("RList", p, TRUE) /\ p = [i \in 1 .. Len(d.parts) |-> Here(V(i))]
                          /\ h = D("RCall", <<Here("out")>>, FALSE)
                          /\ a = One(d.parts, LAMBDA i : New(V(i), d.parts[i]))
    OBVIOUS
  <2>2. d.parts \in Seq(Flat(n)) /\ Len(d.parts) \in Nat
    BY DatumFields
  <2>3. a \in Seq(Simple(n))
    BY <2>1, <2>2, PartSteps
  <2>4. p \in Seq(Flat(n))
    <3>1. p \in [1 .. Len(d.parts) -> Flat(n)]
      BY <2>1, AtomsAre, LocalsAre
    <3> QED BY <2>2, <3>1, FunctionSeq
  <2>5. e \in Datum(n)
    BY <2>1, <2>4, DataKinds
  <2>6. h \in Datum(n)
    <3>1. <<Here("out")>> \in Seq(Flat(n))
      BY AtomsAre, LocalsAre
    <3> QED BY <2>1, <3>1, DataKinds
  <2>7. /\ New("out", e) \in Simple(n) /\ ProtectInc("out") \in Simple(n) /\ New("call", h) \in Simple(n)
        /\ ProtectInc("call") \in Simple(n) /\ Use("ptr") \in Simple(n)
    BY <2>5, <2>6, LocalsAre, SomeSteps
  <2>8. /\ Call("ptr", "evalR", "call", Expr("frame", "internal")) \in Simple(n)
        /\ Call("out", "isDataFrame", "ptr", Atom) \in Simple(n)
    <3>1. "evalR" \in MethodKind /\ "isDataFrame" \in MethodKind
      BY DEF MethodKind
    <3>2. Call("ptr", "evalR", "call", Expr("frame", "internal")) \in Simple(n)
      BY <3>1, ExprIs, NamesAre, LocalsAre, SomeCalls
    <3>3. Call("out", "isDataFrame", "ptr", Atom) \in Simple(n)
      <4>1. PICK fn : fn = "isDataFrame" /\ fn \notin Parted /\ fn \in MethodKind
        BY <3>1 DEF Parted
      <4> QED BY <4>1, AtomsAre, LocalsAre, SomeCalls
    <3> QED BY <3>2, <3>3
  <2>9. PICK b : b = <<New("out", e), ProtectInc("out"), New("call", h), ProtectInc("call"),
                       Call("ptr", "evalR", "call", Expr("frame", "internal")),
                       Call("out", "isDataFrame", "ptr", Atom), Use("ptr")>>
    OBVIOUS
  <2>10. b \in Seq(Simple(n))
    BY <2>7, <2>8, <2>9
  <2>11. a \o b \in Seq(Simple(n))
    BY <2>3, <2>10
  <2>12. fromObject(d) = (a \o b) \o <<Return("ptr")>>
    <3>1. PICK r : r = <<New("out", e), ProtectInc("out"), New("call", h), ProtectInc("call"),
                         Call("ptr", "evalR", "call", Expr("frame", "internal")),
                         Call("out", "isDataFrame", "ptr", Atom), Use("ptr"), Return("ptr")>>
      OBVIOUS
    <3>2. fromObject(d) = a \o r
      BY <1>2, <2>1, <3>1 DEF fromObject
    <3>3. r = b \o <<Return("ptr")>>
      BY <2>9, <3>1
    <3>4. Return("ptr") \in Simple(n)
      BY LocalsAre, SomeSteps
    <3>5. PICK t, x : t = <<x>> /\ x = Return("ptr") /\ x \in Simple(n)
      BY <3>4
    <3>7. t \in Seq(Simple(n))
      BY <3>5
    <3>6. a \o (b \o t) = (a \o b) \o t
      BY <2>3, <2>10, <3>7
    <3> QED BY <3>2, <3>3, <3>5, <3>6
  <2> QED BY <2>11, <2>12, EndsPlainly, LocalsAre
<1> QED BY <1>1, <1>2, DatumFields

LEMMA Thrown == ASSUME NEW n \in Nat PROVE Code(<<Throw("error")>>, n)
<1>1. <<>> \in Seq(Simple(n)) /\ <<Throw("error")>> = <<>> \o <<Throw("error")>>
  OBVIOUS
<1> QED BY <1>1, EndsPlainly

LEMMA ConstructorCode ==
    ASSUME NEW n \in Nat, NEW d \in Datum(n)
    PROVE  Code(Constructor(d), n)
<1>1. Constructor(d) \in {RVectorAtomic(d), RPairlist(d), RCall(d), RList(d), REnvironment(d),
                          newObjectFromArray(d), fromObject(d), <<Throw("error")>>}
  BY DEF Constructor
<1> QED BY <1>1, AtomCode, ListCode, CallCode, ArrayCode, FrameCode, Thrown

LEMMA MethodNames ==
    /\ "slice" \in MethodKind /\ "pluck" \in MethodKind /\ "set" \in MethodKind
    /\ "detectMissing" \in MethodKind
    /\ "toArray" \in MethodKind /\ "toString" \in MethodKind
    /\ "names" \in MethodKind /\ "toJs" \in MethodKind
    /\ "exec" \in MethodKind /\ "deparse" \in MethodKind
    /\ "isNa" \in MethodKind /\ "isDataFrame" \in MethodKind
    /\ "parseEvalBare" \in MethodKind /\ "bind" \in MethodKind
    /\ "evalR" \in MethodKind /\ "captureR" \in MethodKind
BY DEF MethodKind

(* The calls that functions make of each other.                            *)
LEMMA Calling ==
    ASSUME NEW n \in Nat, NEW x \in Local, NEW y \in Local
    PROVE  /\ \A i \in Nat : Call(x, "slice", y, Sure(i)) \in Simple(n)
           /\ \A d \in Datum(n) : Call(x, "slice", y, d) \in Simple(n)
           /\ \A i, j \in Nat : Call(x, "pluck", y, Path(i, j)) \in Simple(n)
           /\ Call(x, "toArray", y, Atom) \in Simple(n)
           /\ Call(x, "toString", y, Atom) \in Simple(n)
           /\ Call(x, "detectMissing", y, Atom) \in Simple(n)
           /\ Call(x, "deparse", y, Atom) \in Simple(n)
           /\ Call(x, "names", y, Atom) \in Simple(n)
           /\ Call(x, "parseEvalBare", y, Atom) \in Simple(n)
<1>1. ASSUME NEW d \in Datum(n),
             NEW fn \in {"slice", "toArray", "toString", "detectMissing", "deparse", "names",
                     "parseEvalBare"}
      PROVE  Call(x, fn, y, d) \in Simple(n)
  <2>1. fn \in MethodKind /\ fn \notin Parted
    BY MethodNames DEF Parted
  <2> QED BY <2>1, SomeCalls
<1>2. ASSUME NEW i \in Nat, NEW j \in Nat PROVE Call(x, "pluck", y, Path(i, j)) \in Simple(n)
  BY SomeData, MethodNames, SomeCalls
<1> QED BY <1>1, <1>2, AtomsAre

LEMMA Returning ==
    ASSUME NEW n \in Nat, NEW x \in Local
    PROVE  Return(x) \in Plain(n) /\ Return(x).op = "return"
BY SomeSteps, LastSteps, StepSets

LEMMA Pairs ==
    /\ <<"this">> \in Seq(Local) /\ <<"this", "idx">> \in Seq(Local)
    /\ <<"this", "idx", "v1">> \in Seq(Local) /\ <<"arg">> \in Seq(Local)
    /\ <<"v1">> \in Seq(Local) /\ <<>> \in Seq(Local)
BY LocalsAre

LEMMA SliceCode ==
    ASSUME NEW n \in Nat, NEW d \in Datum(n)
    PROVE  Code(slice(d), n)
<1>1. /\ New("idx", Atom) \in Simple(n) /\ ProtectInc("idx") \in Simple(n) /\ ProtectInc("call") \in Simple(n)
      /\ Alloc("call", <<"this", "idx">>) \in Simple(n)
  BY AtomsAre, Pairs, LocalsAre, SomeSteps
<1>2. SafeEval("out", "this", d.obj, d.at = "sure") \in Simple(n)
  <2>1. d.obj \in Nat /\ (d.at = "sure") \in BOOLEAN
    BY DatumFields
  <2> QED BY <2>1, LocalsAre, SomeSteps
<1> QED BY <1>1, <1>2, LocalsAre, Returning, StepSets, CodeOfSix DEF slice

LEMMA PluckCode ==
    ASSUME NEW n \in Nat, NEW d \in Datum(n), d.parts # <<>>
    PROVE  Code(pluck(d), n)
<1>1. d.parts[1] \in Datum(n)
  BY DatumFields
<1>2. /\ Call("out", "slice", "this", d) \in Simple(n)
      /\ Call("out", "slice", "out", d.parts[1]) \in Simple(n)
  BY <1>1, LocalsAre, Calling
<1>3. Protect("out") \in Simple(n) /\ Reprotect("out") \in Simple(n) /\ Try(1) \in Simple(n)
  BY LocalsAre, SomeSteps
<1> QED BY <1>2, <1>3, LocalsAre, Returning, StepSets, CodeOfSeven DEF pluck

LEMMA SetCode ==
    ASSUME NEW n \in Nat, NEW d
    PROVE  Code(set(d), n)
<1>1. /\ New("idx", Atom) \in Simple(n) /\ ProtectInc("idx") \in Simple(n) /\ ProtectInc("call") \in Simple(n)
      /\ New("v1", Strings) \in Simple(n) /\ ProtectInc("v1") \in Simple(n)
      /\ Alloc("call", <<"this", "idx", "v1">>) \in Simple(n)
  BY AtomsAre, Pairs, LocalsAre, SomeSteps
<1>2. SafeEval("out", "call", 0, FALSE) \in Simple(n)
  BY LocalsAre, SomeSteps
<1> QED BY <1>1, <1>2, LocalsAre, Returning, StepSets, CodeOfEight DEF set

LEMMA ReadCode ==
    ASSUME NEW n \in Nat
    PROVE  Code(detectMissing, n) /\ Code(toArray, n) /\ Code(toString, n) /\ Code(names, n)
<1>1. /\ Alloc("call", <<"this">>) \in Simple(n) /\ Alloc("arg", <<"this">>) \in Simple(n)
      /\ ProtectInc("call") \in Simple(n) /\ ProtectInc("out") \in Simple(n)
      /\ Use("out") \in Simple(n) /\ Use("this") \in Simple(n)
  BY Pairs, LocalsAre, SomeSteps
<1>2. SafeEval("out", "call", 0, TRUE) \in Simple(n)
  BY LocalsAre, SomeSteps
<1>3. Code(detectMissing, n)
  BY <1>1, <1>2, LocalsAre, Returning, StepSets, CodeOfSix DEF detectMissing
<1>4. Code(toArray, n)
  BY <1>1, LocalsAre, Calling, Returning, StepSets, CodeOfThree DEF toArray
<1>5. Code(toString, n)
  BY <1>1, LocalsAre, Calling, Returning, StepSets, CodeOfFour DEF toString
<1>6. Code(names, n)
  BY <1>1, LocalsAre, Calling, Returning, StepSets, CodeOfThree DEF names
<1> QED BY <1>3, <1>4, <1>5, <1>6

LEMMA MoreReadCode ==
    ASSUME NEW n \in Nat
    PROVE  Code(toJs, n) /\ Code(deparse, n) /\ Code(isNa, n) /\ Code(parseEvalBare, n)
           /\ Code(isDataFrame, n)
<1>1. Code(toJs, n)
  <2>1. <<Call("v1", "slice", "this", Sure(1)), Call("v2", "slice", "this", Sure(1)), Use("v1")>>
          \in Seq(Simple(n))
    BY LocalsAre, Calling, SomeSteps
  <2>2. IfAny("this", <<Call("v1", "slice", "this", Sure(1)), Call("v2", "slice", "this", Sure(1)),
                        Use("v1")>>) \in Plain(n)
    BY <2>1, LocalsAre, SomeSteps, StepSets
  <2> QED BY <2>2, LocalsAre, Calling, Returning, StepSets, CodeOfFour DEF toJs
<1>2. Code(deparse, n)
  <2>1. /\ Alloc("call", <<"this">>) \in Simple(n)
        /\ ProtectInc("call") \in Simple(n) /\ ProtectInc("out") \in Simple(n)
    BY Pairs, LocalsAre, SomeSteps
  <2>2. SafeEval("out", "call", 0, TRUE) \in Simple(n)
    BY LocalsAre, SomeSteps
  <2> QED BY <2>1, <2>2, LocalsAre, Calling, Returning, StepSets, CodeOfSix DEF deparse
<1>3. Code(isNa, n)
  <2>1. Try(1) \in Simple(n) /\ Protect("out") \in Simple(n)
    BY LocalsAre, SomeSteps
  <2> QED BY <2>1, LocalsAre, Calling, Returning, StepSets, CodeOfFive DEF isNa
<1>5. Code(parseEvalBare, n)
  <2>1. PICK p, d : p = <<Here("this")>> /\ d = D("REnvironment", p, TRUE)
    OBVIOUS
  <2>2. p \in Seq(Flat(n))
    BY <2>1, AtomsAre, LocalsAre
  <2>3. d \in Datum(n)
    BY <2>1, <2>2, DataKinds
  <2>4. New("arg", d) \in Simple(n) /\ ProtectInc("arg") \in Simple(n)
    BY <2>3, LocalsAre, SomeSteps
  <2>5. SafeEval("out", "arg", 0, TRUE) \in Simple(n)
    BY LocalsAre, SomeSteps
  <2> QED BY <2>1, <2>4, <2>5, LocalsAre, Returning, StepSets, CodeOfFour DEF parseEvalBare
<1>4. Code(isDataFrame, n)
  <2>1. Field("arg", "this", 1) \in Simple(n)
    BY LocalsAre, SomeSteps
  <2> QED BY <2>1, LocalsAre, Calling, Returning, StepSets, CodeOfFour DEF isDataFrame
<1> QED BY <1>1, <1>2, <1>3, <1>4, <1>5

LEMMA ExecCode ==
    ASSUME NEW n \in Nat, NEW d \in Datum(n)
    PROVE  Code(exec(d), n)
<1>1. PICK p, q, h : q = <<Here("this")>> /\ p = q \o d.parts /\ h = D("RCall", p, FALSE)
  OBVIOUS
<1>2. q \in Seq(Flat(n))
  BY <1>1, AtomsAre, LocalsAre
<1>3. p \in Seq(Flat(n))
  BY <1>1, <1>2, DatumFields
<1>4. h \in Datum(n)
  BY <1>1, <1>3, DataKinds
<1>5. New("call", h) \in Simple(n) /\ ProtectInc("call") \in Simple(n)
  BY <1>4, LocalsAre, SomeSteps
<1>6. Call("out", "evalR", "call", Expr("any", "")) \in Simple(n)
  BY ExprIs, NamesAre, LocalsAre, MethodNames, SomeCalls
<1> QED BY <1>1, <1>5, <1>6, LocalsAre, Returning, StepSets, CodeOfFour DEF exec

LEMMA MessageCode ==
    ASSUME NEW n \in Nat, NEW i
    PROVE  Message(i) \in Seq(Inner(n))
<1>1. PICK c : c = <<Call("v2", "pluck", "v1", Path(2, 1))>>
  OBVIOUS
<1>2. c \in Seq(Simple(n))
  BY <1>1, LocalsAre, Calling
<1>3. IfAny("v2", c) \in Inner(n)
  BY <1>2, LocalsAre, SomeSteps
<1>4. PICK a, b, e, f, g :
        /\ a = Call("v1", "slice", "output", Sure(1)) /\ b = Call("v2", "slice", "v1", Sure(1))
        /\ e = Call("v2", "toString", "v2", Atom) /\ f = Call("v2", "slice", "v1", Sure(2))
        /\ g = IfAny("v2", c)
  OBVIOUS
<1>5. a \in Inner(n) /\ b \in Inner(n) /\ e \in Inner(n) /\ f \in Inner(n) /\ g \in Inner(n)
  BY <1>3, <1>4, LocalsAre, Calling, StepSets
<1>6. <<a, b, e, f, g, e>> \in Seq(Inner(n))
  BY <1>5
<1> QED BY <1>1, <1>4, <1>6 DEF Message

LEMMA EvalCode ==
    ASSUME NEW n \in Nat, NEW d \in Datum(n), d.parts # <<>>
    PROVE  Code(evalR(d), n)
<1>1. IfAny("output", Message(1)) \in Plain(n)
  BY MessageCode, LocalsAre, SomeSteps
<1>2. Call("result", "captureR", "this", d) \in Simple(n)
  BY LocalsAre, MethodNames, SomeCalls
<1>3. ProtectInc("output") \in Simple(n) /\ ProtectInc("result") \in Simple(n)
  BY LocalsAre, SomeSteps
<1> QED BY <1>1, <1>2, <1>3, LocalsAre, Returning, StepSets, CodeOfFive DEF evalR

LEMMA BindCode ==
    ASSUME NEW n \in Nat, NEW d \in Datum(n), d.parts # <<>>
    PROVE  Code(bind(d), n)
<1>1. d.parts[1] \in Datum(n)
  BY DatumFields
<1>2. New("v1", d.parts[1]) \in Simple(n) /\ Attach("this", "v1") \in Simple(n)
  BY <1>1, LocalsAre, SomeSteps
<1>3. Protect("v1") \in Simple(n) /\ Try(1) \in Simple(n)
  BY LocalsAre, SomeSteps
<1> QED BY <1>2, <1>3, LocalsAre, Returning, StepSets, CodeOfFive DEF bind

LEMMA MethodCode ==
    ASSUME NEW n \in Nat, NEW d \in Datum(n), NEW fn \in MethodKind, fn # "captureR",
           fn \in Parted => d.parts # <<>>
    PROVE  Code(Method(fn, d), n)
<1>1. CASE fn = "pluck"
  BY <1>1, PluckCode DEF Method, Parted
<1>2. CASE fn = "evalR"
  BY <1>2, EvalCode DEF Method, Parted
<1>4. CASE fn = "bind"
  BY <1>4, BindCode DEF Method, Parted
<1>3. CASE fn \notin {"pluck", "evalR", "bind"}
  <2>1. Method(fn, d) \in {slice(d), set(d), detectMissing, toArray, toString, names, toJs, exec(d),
                           deparse, isNa, parseEvalBare, isDataFrame, <<Throw("error")>>}
    BY <1>3 DEF Method
  <2> QED BY <2>1, SliceCode, SetCode, ReadCode, MoreReadCode, ExecCode, Thrown
<1> QED BY <1>1, <1>2, <1>3, <1>4

LEMMA OneOf ==
    ASSUME NEW S, NEW s \in S
    PROVE  <<s>> \in Seq(S) /\ <<s>> # <<>>
OBVIOUS

(* Requests.                                                               *)
LEMMA OptionsAre ==
    ASSUME NEW n \in Nat, NEW d \in Options
    PROVE  d \in Datum(n) /\ d.parts # <<>>
<1>1. PICK o \in {"", "graphics", "badenv", "unhandled", "unthrown"} :
        d = [D("any", <<Strings>>, FALSE) EXCEPT !.at = o]
  BY DEF Options
<1>2. PICK p, e, s : s = Strings /\ p = <<s>> /\ e = D("any", p, FALSE)
  OBVIOUS
<1>3. p \in Seq(Flat(n)) /\ p # <<>>
  <2>1. s \in Flat(n) /\ p = <<s>>
    BY <1>2, AtomsAre
  <2> QED BY <2>1, OneOf
<1>4. d = [e EXCEPT !.at = o] /\ e = DatumOf("any", p, FALSE, "", 0)
  BY <1>1, <1>2, DTold
<1>5. d = DatumOf("any", p, FALSE, o, 0) /\ d.parts = p
  BY <1>4 DEF DatumOf
<1>6. o \in DatumMark
  BY DEF DatumMark
<1>7. PICK k : k = "any"
  OBVIOUS
<1>8. k \in DatumKind /\ k # "local" /\ k # "object" /\ 0 \in Nat /\ FALSE \in BOOLEAN
  BY <1>7, NamesAre
<1>9. DatumOf(k, p, FALSE, o, 0) \in Datum(n)
  BY <1>3, <1>6, <1>8, DatumIs
<1> QED BY <1>3, <1>5, <1>7, <1>9

LEMMA OfData ==
    ASSUME NEW n \in Nat, NEW p, NEW b \in BOOLEAN,
           NEW k \in {"RPairlist", "RList", "RCall", "REnvironment", "array", "RDataFrame", "RCharacter"},
           NEW a \in {"", "misnamed"}
    PROVE  /\ p \in Seq(Leaf(n)) => DatumOf(k, p, b, a, 0) \in Flat(n)
           /\ p \in Seq(Flat(n)) => DatumOf(k, p, b, a, 0) \in Datum(n)
<1>1. k \in DatumKind /\ k # "local" /\ k # "object"
  BY DEF DatumKind
<1>2. a \in DatumMark /\ 0 \in Nat
  BY DEF DatumMark
<1> QED BY <1>1, <1>2, DatumIs

LEMMA DataAre ==
    ASSUME NEW n \in Nat, NEW d \in Data
    PROVE  d \in Datum(n)
<1>0. PICK at, st, sy : at = Atom /\ st = Strings /\ sy = Symbol
  OBVIOUS
<1>1. at \in Leaf(n) /\ at \in Flat(n) /\ st \in Flat(n) /\ sy \in Flat(n)
  BY <1>0, SomeData, Levels
<1>2. PICK p : p = <<at>> /\ p \in Seq(Leaf(n)) /\ p \in Seq(Flat(n))
  <2>1. <<at>> \in Seq(Leaf(n)) /\ <<at>> \in Seq(Flat(n))
    BY <1>1
  <2> QED BY <2>1
<1>3. PICK e : e = D("RList", p, TRUE) /\ e \in Flat(n)
  <2>1. DatumOf("RList", p, TRUE, "", 0) \in Flat(n)
    BY <1>2, OfData
  <2> QED BY <2>1, DTold
<1>4. ASSUME NEW q \in Seq(Flat(n)), NEW b \in BOOLEAN,
             NEW k \in {"RPairlist", "RList", "RCall", "REnvironment", "array", "RDataFrame"}
      PROVE  D(k, q, b) \in Datum(n)
  <2>1. DatumOf(k, q, b, "", 0) \in Datum(n)
    BY OfData
  <2> QED BY <2>1, DTold
<1>5. /\ <<at, st>> \in Seq(Flat(n)) /\ <<e, st>> \in Seq(Flat(n)) /\ <<sy, st, at>> \in Seq(Flat(n))
      /\ <<st, at>> \in Seq(Flat(n)) /\ <<st, e>> \in Seq(Flat(n)) /\ p \in Seq(Flat(n))
  <2>1. e \in Flat(n) /\ p \in Seq(Flat(n))
    BY <1>2, <1>3
  <2> QED BY <1>1, <2>1
<1>6. ASSUME NEW h, h = [st EXCEPT !.named = TRUE] PROVE h \in Datum(n)
  <2>1. st = DatumOf("RCharacter", <<>>, FALSE, "", 0)
    BY <1>0, DTold DEF Strings
  <2>2. h = DatumOf("RCharacter", <<>>, TRUE, "", 0)
    BY <1>6, <2>1 DEF DatumOf
  <2>3. <<>> \in Seq(Flat(n))
    OBVIOUS
  <2> QED BY <2>2, <2>3, OfData
<1>7. ASSUME NEW h, NEW g, g = D("RList", p, TRUE), h = [g EXCEPT !.at = "misnamed"] PROVE h \in Datum(n)
  <2>1. g = DatumOf("RList", p, TRUE, "", 0)
    BY <1>7, DTold
  <2>2. PICK a, b : a = "misnamed" /\ b = TRUE
    OBVIOUS
  <2>3. g = DatumOf("RList", p, b, "", 0) /\ h = [g EXCEPT !.at = a]
    BY <1>7, <2>1, <2>2
  <2>4. h = DatumOf("RList", p, b, a, 0)
    BY <2>3 DEF DatumOf
  <2> QED BY <1>5, <2>2, <2>4, OfData
<1>8. \/ d = [st EXCEPT !.named = TRUE]
      \/ d = D("RPairlist", <<at, st>>, TRUE)
      \/ d = D("RList", <<e, st>>, TRUE)
      \/ d = [D("RList", p, TRUE) EXCEPT !.at = "misnamed"]
      \/ d = D("RCall", <<sy, st, at>>, FALSE)
      \/ d = D("REnvironment", <<st, at>>, TRUE)
      \/ d = D("REnvironment", p, FALSE)
      \/ d = D("array", <<st, e>>, FALSE)
      \/ d = D("RDataFrame", <<st, at>>, TRUE)
      \/ d = D("RDataFrame", p, FALSE)
  BY <1>0, <1>2, <1>3 DEF Data
<1>9. CASE d = [st EXCEPT !.named = TRUE]
  BY <1>6, <1>9
<1>10. CASE d = [D("RList", p, TRUE) EXCEPT !.at = "misnamed"]
  BY <1>7, <1>10
<1>11. CASE \/ d = D("RPairlist", <<at, st>>, TRUE)
            \/ d = D("RList", <<e, st>>, TRUE)
            \/ d = D("RCall", <<sy, st, at>>, FALSE)
            \/ d = D("REnvironment", <<st, at>>, TRUE)
            \/ d = D("REnvironment", p, FALSE)
            \/ d = D("array", <<st, e>>, FALSE)
            \/ d = D("RDataFrame", <<st, at>>, TRUE)
            \/ d = D("RDataFrame", p, FALSE)
  BY <1>4, <1>5, <1>11
<1> QED BY <1>8, <1>9, <1>10, <1>11

LEMMA MethodData ==
    ASSUME NEW n \in Nat, NEW d, d = [Index(1) EXCEPT !.parts = <<Index(1)>>]
    PROVE  d \in Datum(n) /\ d.parts # <<>>
<1>1. PICK h, e, p : h = Index(1) /\ p = <<h>> /\ e = Atom
  OBVIOUS
<1>2. p \in Seq(Flat(n)) /\ p # <<>>
  <2>1. h \in Flat(n)
    BY <1>1, SomeData, Levels
  <2> QED BY <1>1, <2>1
<1>6. PICK k, a, i : k = "RVectorAtomic" /\ a = "" /\ i = 1
  OBVIOUS
<1>3. e = DatumOf(k, <<>>, FALSE, a, 0) /\ h = [e EXCEPT !.obj = i]
  BY <1>1, <1>6, DTold DEF Index, Atom
<1>4. h = DatumOf(k, <<>>, FALSE, a, i)
  BY <1>3 DEF DatumOf
<1>9. d = [h EXCEPT !.parts = p]
  BY <1>1
<1>5. d = DatumOf(k, p, FALSE, a, i) /\ d.parts = p
  BY <1>4, <1>9 DEF DatumOf
<1>7. k \in DatumKind /\ a \in DatumMark /\ k # "local" /\ k # "object" /\ i \in Nat /\ FALSE \in BOOLEAN
  BY <1>6, NamesAre
<1>8. DatumOf(k, p, FALSE, a, i) \in Datum(n)
  BY <1>2, <1>7, DatumIs
<1> QED BY <1>2, <1>5, <1>6, <1>8

LEMMA Answering ==
    ASSUME NEW n \in Nat, NEW x \in Seq(Local)
    PROVE  Answer(x) \in Plain(n) /\ Answer(x).op = "answer"
BY SomeSteps, LastSteps, LocalsAre, StepSets

LEMMA RequestCode ==
    ASSUME NEW n \in Nat, NEW d \in Datum(n)
    PROVE  /\ d.parts # <<>> => /\ Code(CaptureRequest(d), n) /\ Code(EvalRequest(d), n)
                                /\ Code(RawRequest(d), n)
           /\ Code(NewRequest(d), n) /\ Code(PlainRequest, n)
           /\ \A fn \in MethodKind : d.parts # <<>> => Code(MethodRequest(fn, d), n)
<1>0. /\ <<"result", "v2">> \in Seq(Local) /\ <<"result">> \in Seq(Local) /\ <<>> \in Seq(Local)
  BY LocalsAre
<1>1. /\ Protect("result") \in Simple(n) /\ Try(1) \in Simple(n)
      /\ ProtectInc("result") \in Simple(n) /\ ProtectInc("output") \in Simple(n) /\ Keep("result") \in Simple(n)
      /\ Keep("v2") \in Simple(n) /\ Do("convert") \in Simple(n) /\ New("result", d) \in Simple(n)
  BY LocalsAre, SomeSteps
<1>2. ASSUME d.parts # <<>> PROVE Code(CaptureRequest(d), n)
  <2>1. PICK q : q = <<Call("v1", "slice", "output", Sure(1)), Call("v2", "pluck", "v1", Path(1, 1)),
                       Call("arg", "toString", "v2", Atom), Call("v2", "slice", "v1", Sure(2)),
                       Keep("v2")>>
    OBVIOUS
  <2>2. q \in Seq(Simple(n))
    <3>1. PICK a, b, c, e, f :
            /\ a = Call("v1", "slice", "output", Sure(1)) /\ b = Call("v2", "pluck", "v1", Path(1, 1))
            /\ c = Call("arg", "toString", "v2", Atom) /\ e = Call("v2", "slice", "v1", Sure(2))
            /\ f = Keep("v2")
      OBVIOUS
    <3>2. a \in Simple(n) /\ b \in Simple(n) /\ c \in Simple(n) /\ e \in Simple(n) /\ f \in Simple(n)
      BY <1>1, <3>1, LocalsAre, Calling
    <3>3. <<a, b, c, e, f>> \in Seq(Simple(n))
      BY <3>2
    <3> QED BY <2>1, <3>1, <3>3
  <2>3. IfAny("output", q) \in Plain(n)
    BY <2>2, LocalsAre, SomeSteps, StepSets
  <2>4. Call("result", "captureR", "this", d) \in Simple(n)
    BY <1>2, LocalsAre, MethodNames, SomeCalls
  <2>5. Code(<<Call("result", "captureR", "this", d), ProtectInc("result"), ProtectInc("output"),
               Keep("result"), IfAny("output", q), Answer(<<"result", "v2">>)>>, n)
    BY <1>0, <1>1, <2>3, <2>4, Answering, StepSets, CodeOfSix
  <2> QED BY <2>1, <2>5 DEF CaptureRequest
<1>3. ASSUME d.parts # <<>> PROVE Code(EvalRequest(d), n) /\ Code(RawRequest(d), n)
  <2>1. Call("result", "evalR", "this", d) \in Simple(n)
    BY <1>3, LocalsAre, MethodNames, SomeCalls
  <2>2. Call("out", "toArray", "result", Atom) \in Simple(n)
    BY LocalsAre, Calling
  <2>3. Code(EvalRequest(d), n)
    BY <1>0, <1>1, <2>1, Answering, StepSets, CodeOfThree DEF EvalRequest
  <2>4. Code(RawRequest(d), n)
    BY <1>0, <1>1, <2>1, <2>2, Answering, StepSets, CodeOfSix DEF RawRequest
  <2> QED BY <2>3, <2>4
<1>4. Code(NewRequest(d), n)
  BY <1>0, <1>1, Answering, StepSets, CodeOfThree DEF NewRequest
<1>5. Code(PlainRequest, n)
  BY <1>0, <1>1, Answering, StepSets, CodeOfTwo DEF PlainRequest
<1>6. ASSUME NEW fn \in MethodKind, d.parts # <<>> PROVE Code(MethodRequest(fn, d), n)
  <2>1. Call("result", fn, "this", d) \in Simple(n)
    BY <1>6, LocalsAre, SomeCalls
  <2>2. PICK x : x = (IF fn \in GivesObject THEN <<"result">> ELSE <<>>) /\ x \in Seq(Local)
    BY <1>0
  <2>3. Code(<<Call("result", fn, "this", d), Answer(x)>>, n)
    BY <2>1, <2>2, Answering, StepSets, CodeOfTwo
  <2> QED BY <2>2, <2>3 DEF MethodRequest
<1> QED BY <1>2, <1>3, <1>4, <1>5, <1>6

(* Steps that R cannot fail, and that call functions of such steps only.   *)
CalmStep(s) ==
    \/ s.op \in {"alloc", "protectInc", "use", "return"}
    \/ s.op = "new" /\ s.data = Atom
    \/ s.op = "eval" /\ s.sure
    \/ s.op = "method" /\ s.fn \in {"toArray", "detectMissing"}
    \/ s.op = "method" /\ s.fn = "slice" /\ s.data.at = "sure"

Calm(c) == \A i \in 1 .. Len(c) : CalmStep(c[i])

Has(c, ops) == \E i \in 1 .. Len(c) : c[i].op \in ops

(* captureR() before its `finally': a step, and what is left after it.     *)
Fit(s, t) ==
    /\ s.op \notin {"restore", "close", "destroy", "unprotect", "answer", "ifany"}
    /\ s.op = "return" => t = <<>>
    /\ s.op = "open" => Has(t, {"newplots"}) /\ ~ Has(t, {"open"})
    /\ s.op = "newplots" => Calm(t)
    /\ s.op \in {"new", "method"} /\ ~ CalmStep(s) => Has(t, {"user", "throw"})
    /\ s.op = "user" => Len(t) > 2 /\ CalmStep(t[1]) /\ CalmStep(t[2])

After(c, i) == [k \in 1 .. Len(c) - i |-> c[k + i]]

Trial(c) == \A i \in 1 .. Len(c) : Fit(c[i], After(c, i))

LEMMA HeadTail ==
    ASSUME NEW S, NEW c \in Seq(S), c # <<>>
    PROVE  /\ Head(c) = c[1] /\ Head(c) \in S /\ Tail(c) \in Seq(S)
           /\ Len(c) \in Nat /\ Len(c) >= 1 /\ Len(Tail(c)) = Len(c) - 1
           /\ \A i \in 1 .. Len(c) - 1 : Tail(c)[i] = c[i + 1]
OBVIOUS

LEMMA TailHas ==
    ASSUME NEW S, NEW c \in Seq(S), c # <<>>
    PROVE  /\ \A O : Has(c, O) <=> Head(c).op \in O \/ Has(Tail(c), O)
           /\ Calm(c) <=> CalmStep(Head(c)) /\ Calm(Tail(c))
<1>1. \A i \in 1 .. Len(c) - 1 : Tail(c)[i] = c[i + 1]
  BY HeadTail
<1>2. \A i : i \in 1 .. Len(c) <=> i = 1 \/ (i - 1 \in 1 .. Len(c) - 1 /\ i \in Int)
  BY HeadTail
<1>3. \A i \in 1 .. Len(c) - 1 : i + 1 \in 1 .. Len(c) /\ i + 1 - 1 = i
  BY HeadTail
<1>4. Head(c) = c[1] /\ Len(Tail(c)) = Len(c) - 1
  BY HeadTail
<1>5. ASSUME NEW O PROVE Has(c, O) <=> Head(c).op \in O \/ Has(Tail(c), O)
  <2>1. ASSUME Has(c, O) PROVE Head(c).op \in O \/ Has(Tail(c), O)
    <3>1. PICK i \in 1 .. Len(c) : c[i].op \in O
      BY <2>1 DEF Has
    <3>2. CASE i = 1
      BY <1>4, <3>1, <3>2
    <3>3. CASE i # 1
      <4>1. i - 1 \in 1 .. Len(c) - 1 /\ i - 1 + 1 = i
        BY <1>2, <3>3
      <4>2. Tail(c)[i - 1].op \in O
        BY <1>1, <3>1, <4>1
      <4> QED BY <1>4, <4>1, <4>2 DEF Has
    <3> QED BY <3>2, <3>3
  <2>2. ASSUME Head(c).op \in O PROVE Has(c, O)
    BY <1>2, <1>4, <2>2 DEF Has
  <2>3. ASSUME Has(Tail(c), O) PROVE Has(c, O)
    BY <1>1, <1>3, <1>4, <2>3 DEF Has
  <2> QED BY <2>1, <2>2, <2>3
<1>6. Calm(c) <=> CalmStep(Head(c)) /\ Calm(Tail(c))
  <2>1. ASSUME Calm(c) PROVE CalmStep(Head(c)) /\ Calm(Tail(c))
    BY <1>1, <1>2, <1>3, <1>4, <2>1 DEF Calm
  <2>2. ASSUME CalmStep(Head(c)), Calm(Tail(c)) PROVE Calm(c)
    <3> SUFFICES ASSUME NEW i \in 1 .. Len(c) PROVE CalmStep(c[i])
      BY DEF Calm
    <3>1. CASE i = 1
      BY <1>4, <2>2, <3>1
    <3>2. CASE i # 1
      <4>1. i - 1 \in 1 .. Len(c) - 1 /\ i - 1 + 1 = i
        BY <1>2, <3>2
      <4>2. CalmStep(Tail(c)[i - 1])
        BY <1>4, <2>2, <4>1 DEF Calm
      <4> QED BY <1>1, <4>1, <4>2
    <3> QED BY <3>1, <3>2
  <2> QED BY <2>1, <2>2
<1> QED BY <1>5, <1>6

LEMMA JoinHas ==
    ASSUME NEW S, NEW c \in Seq(S), NEW d \in Seq(S)
    PROVE  /\ c \o d \in Seq(S) /\ Len(c \o d) = Len(c) + Len(d)
           /\ \A O : Has(c \o d, O) <=> Has(c, O) \/ Has(d, O)
           /\ Calm(c \o d) <=> Calm(c) /\ Calm(d)
<1>1. PICK q : q = c \o d
  OBVIOUS
<1>2. /\ q \in Seq(S) /\ Len(q) = Len(c) + Len(d) /\ Len(c) \in Nat /\ Len(d) \in Nat
      /\ \A i \in 1 .. Len(c) : q[i] = c[i]
      /\ \A i \in 1 .. Len(d) : q[i + Len(c)] = d[i]
  BY <1>1
<1>3. /\ \A i \in 1 .. Len(c) : i \in 1 .. Len(q)
      /\ \A i \in 1 .. Len(d) : i + Len(c) \in 1 .. Len(q)
      /\ \A i \in 1 .. Len(q) : i \in 1 .. Len(c) \/ (i - Len(c) \in 1 .. Len(d) /\ i - Len(c) + Len(c) = i)
  BY <1>2
<1>4. ASSUME NEW O PROVE Has(q, O) <=> Has(c, O) \/ Has(d, O)
  <2>1. ASSUME Has(q, O) PROVE Has(c, O) \/ Has(d, O)
    <3>1. PICK i \in 1 .. Len(q) : q[i].op \in O
      BY <2>1 DEF Has
    <3>2. CASE i \in 1 .. Len(c)
      BY <1>2, <3>1, <3>2 DEF Has
    <3>3. CASE i - Len(c) \in 1 .. Len(d) /\ i - Len(c) + Len(c) = i
      <4>1. d[i - Len(c)] = q[i]
        BY <1>2, <3>3
      <4> QED BY <3>1, <3>3, <4>1 DEF Has
    <3> QED BY <1>3, <3>2, <3>3
  <2>2. ASSUME Has(c, O) PROVE Has(q, O)
    BY <1>2, <1>3, <2>2 DEF Has
  <2>3. ASSUME Has(d, O) PROVE Has(q, O)
    BY <1>2, <1>3, <2>3 DEF Has
  <2> QED BY <2>1, <2>2, <2>3
<1>5. Calm(q) <=> Calm(c) /\ Calm(d)
  <2>1. ASSUME Calm(q) PROVE Calm(c) /\ Calm(d)
    <3>1. ASSUME NEW i \in 1 .. Len(c) PROVE CalmStep(c[i])
      BY <1>2, <1>3, <2>1 DEF Calm
    <3>2. ASSUME NEW i \in 1 .. Len(d) PROVE CalmStep(d[i])
      <4>1. CalmStep(q[i + Len(c)])
        BY <1>3, <2>1 DEF Calm
      <4> QED BY <1>2, <4>1
    <3> QED BY <3>1, <3>2 DEF Calm
  <2>2. ASSUME Calm(c), Calm(d) PROVE Calm(q)
    <3> SUFFICES ASSUME NEW i \in 1 .. Len(q) PROVE CalmStep(q[i])
      BY DEF Calm
    <3>1. CASE i \in 1 .. Len(c)
      BY <1>2, <2>2, <3>1 DEF Calm
    <3>2. CASE i - Len(c) \in 1 .. Len(d) /\ i - Len(c) + Len(c) = i
      <4>1. d[i - Len(c)] = q[i]
        BY <1>2, <3>2
      <4>2. CalmStep(d[i - Len(c)])
        BY <2>2, <3>2 DEF Calm
      <4> QED BY <4>1, <4>2
    <3> QED BY <1>3, <3>1, <3>2
  <2> QED BY <2>1, <2>2
<1> QED BY <1>1, <1>2, <1>4, <1>5

LEMMA AfterIs ==
    ASSUME NEW S, NEW c \in Seq(S), NEW i \in 0 .. Len(c)
    PROVE  /\ After(c, i) \in Seq(S) /\ Len(After(c, i)) = Len(c) - i
           /\ \A k \in 1 .. Len(c) - i : After(c, i)[k] = c[k + i]
<1>1. Len(c) \in Nat /\ Len(c) - i \in Nat
  OBVIOUS
<1>2. PICK a : a = After(c, i)
  OBVIOUS
<1>3. a \in [1 .. Len(c) - i -> S]
  BY <1>1, <1>2 DEF After
<1>4. a \in Seq(S) /\ Len(a) = Len(c) - i
  BY <1>1, <1>3, FunctionSeq
<1> QED BY <1>2, <1>4 DEF After

LEMMA SeqsEqual ==
    ASSUME NEW S, NEW a \in Seq(S), NEW b \in Seq(S), Len(a) = Len(b),
           \A k \in 1 .. Len(a) : a[k] = b[k]
    PROVE  a = b
OBVIOUS

(* Of two sequences joined, what is left after a step of the second.       *)
LEMMA AfterJoined ==
    ASSUME NEW S, NEW c \in Seq(S), NEW d \in Seq(S)
    PROVE  /\ \A i \in 1 .. Len(d) : After(c \o d, Len(c) + i) = After(d, i)
           /\ \A i \in 1 .. Len(c) : \A O : Has(d, O) => Has(After(c \o d, i), O)
<1>1. PICK q : q = c \o d
  OBVIOUS
<1>2. /\ q \in Seq(S) /\ Len(q) = Len(c) + Len(d) /\ Len(c) \in Nat /\ Len(d) \in Nat
      /\ \A i \in 1 .. Len(d) : q[i + Len(c)] = d[i]
  BY <1>1
<1>3. ASSUME NEW i \in 1 .. Len(d) PROVE After(q, Len(c) + i) = After(d, i)
  <2>1. PICK m : m = Len(c) + i
    OBVIOUS
  <2>2. m \in 0 .. Len(q) /\ i \in 0 .. Len(d) /\ Len(q) - m = Len(d) - i
    BY <1>2, <2>1
  <2>3. /\ After(q, m) \in Seq(S) /\ Len(After(q, m)) = Len(q) - m
        /\ \A k \in 1 .. Len(q) - m : After(q, m)[k] = q[k + m]
    BY <1>2, <2>2, AfterIs
  <2>4. /\ After(d, i) \in Seq(S) /\ Len(After(d, i)) = Len(d) - i
        /\ \A k \in 1 .. Len(d) - i : After(d, i)[k] = d[k + i]
    BY <2>2, AfterIs
  <2>5. ASSUME NEW k \in 1 .. Len(d) - i PROVE q[k + m] = d[k + i]
    <3>1. k + i \in 1 .. Len(d) /\ k + m = k + i + Len(c)
      BY <1>2, <2>1
    <3> QED BY <1>2, <3>1
  <2>6. After(q, m) = After(d, i)
    BY <2>2, <2>3, <2>4, <2>5, SeqsEqual
  <2> QED BY <2>1, <2>6
<1>4. ASSUME NEW i \in 1 .. Len(c), NEW O, Has(d, O) PROVE Has(After(q, i), O)
  <2>1. PICK k \in 1 .. Len(d) : d[k].op \in O
    BY <1>4 DEF Has
  <2>2. PICK m : m = k + Len(c) - i
    OBVIOUS
  <2>3. i \in 0 .. Len(q) /\ m \in 1 .. Len(q) - i /\ m + i = k + Len(c)
    BY <1>2, <2>2
  <2>4. Len(After(q, i)) = Len(q) - i /\ After(q, i)[m] = q[m + i]
    BY <1>2, <2>3, AfterIs
  <2>5. After(q, i)[m] = d[k]
    BY <1>2, <2>3, <2>4
  <2> QED BY <2>1, <2>3, <2>4, <2>5 DEF Has
<1> QED BY <1>1, <1>3, <1>4

LEMMA TrialTail ==
    ASSUME NEW S, NEW c \in Seq(S), c # <<>>, Trial(c)
    PROVE  Fit(Head(c), Tail(c)) /\ Trial(Tail(c))
<1>1. 1 \in 1 .. Len(c) /\ 1 \in 0 .. Len(c)
  BY HeadTail
<1>2. After(c, 1) = Tail(c)
  <2>1. /\ After(c, 1) \in Seq(S) /\ Len(After(c, 1)) = Len(c) - 1
        /\ \A k \in 1 .. Len(c) - 1 : After(c, 1)[k] = c[k + 1]
    BY <1>1, AfterIs
  <2> QED BY <2>1, HeadTail, SeqsEqual
<1>3. ASSUME NEW i \in 1 .. Len(Tail(c)) PROVE Fit(Tail(c)[i], After(Tail(c), i))
  <2>1. i + 1 \in 1 .. Len(c) /\ i + 1 \in 0 .. Len(c) /\ i \in 0 .. Len(Tail(c))
        /\ i \in 1 .. Len(c) - 1
    BY HeadTail
  <2>2. Fit(c[i + 1], After(c, i + 1)) /\ Tail(c)[i] = c[i + 1]
    BY <2>1, HeadTail DEF Trial
  <2>3. After(Tail(c), i) = After(c, i + 1)
    <3>1. PICK t, m : t = Tail(c) /\ m = i + 1
      OBVIOUS
    <3>2. /\ t \in Seq(S) /\ Len(t) = Len(c) - 1 /\ \A k \in 1 .. Len(c) - 1 : t[k] = c[k + 1]
          /\ i \in 0 .. Len(t) /\ m \in 0 .. Len(c) /\ Len(c) \in Nat
      BY <2>1, <3>1, HeadTail
    <3>3. /\ After(t, i) \in Seq(S) /\ Len(After(t, i)) = Len(t) - i
          /\ \A k \in 1 .. Len(t) - i : After(t, i)[k] = t[k + i]
      BY <3>2, AfterIs
    <3>4. /\ After(c, m) \in Seq(S) /\ Len(After(c, m)) = Len(c) - m
          /\ \A k \in 1 .. Len(c) - m : After(c, m)[k] = c[k + m]
      BY <3>2, AfterIs
    <3>5. Len(t) - i = Len(c) - m
      BY <3>1, <3>2
    <3>6. ASSUME NEW k \in 1 .. Len(t) - i PROVE t[k + i] = c[k + m]
      <4>1. k + i \in 1 .. Len(c) - 1 /\ k + i + 1 = k + m
        BY <2>1, <3>1, <3>2
      <4> QED BY <3>2, <4>1
    <3>7. After(t, i) = After(c, m)
      BY <3>3, <3>4, <3>5, <3>6, SeqsEqual
    <3> QED BY <3>1, <3>7
  <2> QED BY <2>2, <2>3
<1> QED BY <1>1, <1>2, <1>3, HeadTail DEF Trial

Neutral(s) ==
    \/ s.op \in {"alloc", "attach", "eval", "protectInc", "use", "quiet", "throw"}
    \/ s.op \in {"new", "method"} /\ CalmStep(s)

LEMMA NeutralFits ==
    ASSUME NEW s, NEW t
    PROVE  /\ Neutral(s) => Fit(s, t)
           /\ s.op \in {"new", "method"} /\ Has(t, {"user", "throw"}) => Fit(s, t)
BY DEF Neutral, Fit

LEMMA TrialJoined ==
    ASSUME NEW S, NEW c \in Seq(S), NEW d \in Seq(S), Trial(d),
           \A i \in 1 .. Len(c) : \/ Neutral(c[i])
                                  \/ c[i].op \in {"new", "method"} /\ Has(d, {"user", "throw"})
    PROVE  Trial(c \o d)
<1>1. PICK q : q = c \o d
  OBVIOUS
<1>2. /\ q \in Seq(S) /\ Len(q) = Len(c) + Len(d) /\ Len(c) \in Nat /\ Len(d) \in Nat
      /\ \A i \in 1 .. Len(c) : q[i] = c[i]
      /\ \A i \in 1 .. Len(d) : q[i + Len(c)] = d[i]
  BY <1>1
<1>3. ASSUME NEW i \in 1 .. Len(c) PROVE Fit(q[i], After(q, i))
  <2>1. CASE Neutral(c[i])
    BY <1>2, <2>1, NeutralFits
  <2>2. CASE c[i].op \in {"new", "method"} /\ Has(d, {"user", "throw"})
    <3>1. Has(After(q, i), {"user", "throw"})
      BY <1>1, <2>2, AfterJoined
    <3> QED BY <1>2, <2>2, <3>1, NeutralFits
  <2> QED BY <2>1, <2>2
<1>4. ASSUME NEW i \in 1 .. Len(d) PROVE Fit(q[Len(c) + i], After(q, Len(c) + i))
  <2>1. After(q, Len(c) + i) = After(d, i)
    BY <1>1, AfterJoined
  <2>2. Fit(d[i], After(d, i))
    BY DEF Trial
  <2>3. q[Len(c) + i] = d[i]
    <3>1. Len(c) + i = i + Len(c)
      BY <1>2
    <3> QED BY <1>2, <3>1
  <2> QED BY <2>1, <2>2, <2>3
<1>5. ASSUME NEW i \in 1 .. Len(q), i \notin 1 .. Len(c)
      PROVE  i - Len(c) \in 1 .. Len(d) /\ Len(c) + (i - Len(c)) = i
  BY <1>2, <1>5
<1>6. ASSUME NEW i \in 1 .. Len(q) PROVE Fit(q[i], After(q, i))
  <2>1. CASE i \in 1 .. Len(c)
    BY <1>3, <2>1
  <2>2. CASE i \notin 1 .. Len(c)
    <3>1. PICK k : k = i - Len(c)
      OBVIOUS
    <3>2. k \in 1 .. Len(d) /\ Len(c) + k = i
      BY <1>5, <2>2, <3>1
    <3> QED BY <1>4, <3>2
  <2> QED BY <2>1, <2>2
<1> QED BY <1>1, <1>6 DEF Trial

LEMMA TrialBegun ==
    ASSUME NEW S, NEW s \in S, NEW d \in Seq(S), Trial(d), Fit(s, d)
    PROVE  Trial(<<s>> \o d)
<1>1. PICK c, q : c = <<s>> /\ q = c \o d
  OBVIOUS
<1>2. c \in Seq(S) /\ Len(c) = 1
  BY <1>1
<1>3. /\ q \in Seq(S) /\ Len(q) = 1 + Len(d) /\ Len(d) \in Nat /\ q[1] = s
      /\ \A i \in 1 .. Len(d) : q[i + 1] = d[i]
  BY <1>1
<1>4. After(q, 1) = d
  <2>1. PICK m : m = 1
    OBVIOUS
  <2>2. m \in 0 .. Len(q)
    BY <1>3, <2>1
  <2>3. Len(q) - m = Len(d)
    BY <1>3, <2>1
  <2>4. /\ After(q, m) \in Seq(S) /\ Len(After(q, m)) = Len(q) - m
        /\ \A k \in 1 .. Len(q) - m : After(q, m)[k] = q[k + m]
    BY <1>3, <2>2, AfterIs
  <2>5. ASSUME NEW k \in 1 .. Len(d) PROVE q[k + m] = d[k]
    BY <1>3, <2>1
  <2>6. After(q, m) = d
    BY <2>3, <2>4, <2>5, SeqsEqual
  <2> QED BY <2>1, <2>6
<1>5. ASSUME NEW i \in 1 .. Len(d) PROVE Fit(q[1 + i], After(q, 1 + i))
  <2>1. After(q, 1 + i) = After(d, i)
    <3>1. PICK m : m = 1
      OBVIOUS
    <3>2. \A j \in 1 .. Len(d) : After(c \o d, Len(c) + j) = After(d, j)
      BY <1>2, AfterJoined
    <3>3. After(q, m + i) = After(d, i)
      BY <1>1, <1>2, <3>1, <3>2
    <3> QED BY <3>1, <3>3
  <2>2. q[1 + i] = d[i]
    BY <1>3
  <2> QED BY <2>1, <2>2 DEF Trial
<1>6. ASSUME NEW i \in 1 .. Len(q) PROVE Fit(q[i], After(q, i))
  <2>1. CASE i = 1
    BY <1>3, <1>4, <2>1
  <2>2. CASE i # 1
    <3>1. PICK k : k = i - 1
      OBVIOUS
    <3>2. k \in 1 .. Len(d) /\ 1 + k = i
      BY <1>3, <2>2, <3>1
    <3> QED BY <1>5, <3>2
  <2> QED BY <2>1, <2>2
<1> QED BY <1>1, <1>6 DEF Trial

LEMMA TrialCalm ==
    ASSUME NEW S, NEW c \in Seq(S), Calm(c), \A i \in 1 .. Len(c) : c[i].op # "return",
           NEW z \in S, z.op = "return"
    PROVE  Trial(c \o <<z>>) /\ Calm(c \o <<z>>)
<1>1. PICK q : q = <<z>>
  OBVIOUS
<1>2. q \in Seq(S) /\ Len(q) = 1 /\ q[1] = z
  BY <1>1
<1>3. Trial(q)
  <2>1. PICK m : m = 1
    OBVIOUS
  <2>2. After(q, m) = <<>>
    <3>1. m \in 0 .. Len(q) /\ Len(q) - m = 0
      BY <1>2, <2>1
    <3>2. After(q, m) \in Seq(S) /\ Len(After(q, m)) = 0
      BY <1>2, <3>1, AfterIs
    <3> QED BY <3>2
  <2>3. Fit(z, <<>>)
    BY DEF Fit
  <2>4. \A i \in 1 .. Len(q) : i = m /\ q[i] = z
    BY <1>2, <2>1
  <2> QED BY <2>2, <2>3, <2>4 DEF Trial
<1>4. Calm(q)
  <2>1. CalmStep(z)
    BY DEF CalmStep
  <2> QED BY <1>2, <2>1 DEF Calm
<1>5. \A i \in 1 .. Len(c) : Neutral(c[i])
  BY DEF Calm, CalmStep, Neutral
<1>6. Trial(c \o q)
  BY <1>2, <1>3, <1>5, TrialJoined
<1>7. Calm(c \o q)
  BY <1>2, <1>4, JoinHas
<1> QED BY <1>1, <1>6, <1>7

LEMMA Ops ==
    ASSUME NEW x, NEW y, NEW d
    PROVE  /\ Alloc(x, y).op = "alloc" /\ Attach(x, y).op = "attach" /\ Link(x, y).op = "link"
           /\ ProtectInc(x).op = "protectInc" /\ Use(x).op = "use" /\ Do(x).op = x
           /\ New(x, d).op = "new" /\ New(x, d).data = d
           /\ Throw(x).op = "throw" /\ Return(x).op = "return"
           /\ \A i, b : SafeEval(x, y, i, b).op = "eval" /\ SafeEval(x, y, i, b).sure = b
BY DEF Alloc, Attach, Link, ProtectInc, Use, Do, New, Throw, Return, SafeEval

LEMMA CallIs ==
    ASSUME NEW x, NEW f, NEW y, NEW d
    PROVE  Call(x, f, y, d).op = "method" /\ Call(x, f, y, d).fn = f /\ Call(x, f, y, d).data = d
BY DEF Call

LEMMA SureAt == ASSUME NEW i PROVE Sure(i).at = "sure"
<1>1. PICK h, a : h = Index(i) /\ a = DatumOf("RVectorAtomic", <<>>, FALSE, "", 0)
  OBVIOUS
<1>2. h = [a EXCEPT !.obj = i] /\ Sure(i) = [h EXCEPT !.at = "sure"]
  BY <1>1, DTold DEF Index, Sure, Atom
<1>3. h = DatumOf("RVectorAtomic", <<>>, FALSE, "", i)
  BY <1>1, <1>2 DEF DatumOf
<1> QED BY <1>2, <1>3 DEF DatumOf

LEMMA CalmCalls ==
    ASSUME NEW x, NEW y, NEW i
    PROVE  /\ CalmStep(Call(x, "slice", y, Sure(i))) /\ CalmStep(Call(x, "toArray", y, Atom))
           /\ CalmStep(Alloc(x, y)) /\ CalmStep(ProtectInc(x)) /\ CalmStep(Return(x))
<1>1. CalmStep(Call(x, "slice", y, Sure(i)))
  <2>1. /\ Call(x, "slice", y, Sure(i)).op = "method" /\ Call(x, "slice", y, Sure(i)).fn = "slice"
        /\ Call(x, "slice", y, Sure(i)).data.at = "sure"
    BY CallIs, SureAt
  <2> QED BY <2>1 DEF CalmStep
<1>2. CalmStep(Call(x, "toArray", y, Atom))
  BY CallIs DEF CalmStep
<1>3. CalmStep(Alloc(x, y)) /\ CalmStep(ProtectInc(x)) /\ CalmStep(Return(x))
  BY Ops DEF CalmStep
<1> QED BY <1>1, <1>2, <1>3

(* The parts of captureR().                                                *)
OpeningSteps == <<New("dev", D("REnvironment", <<>>, TRUE)), ProtectInc("dev"), Do("quiet")>>

RefusedSteps(d) == IF d.at = "badenv" THEN <<Throw("error")>> ELSE <<>>

DeviceSteps(d) ==
    IF d.at = "graphics"
    THEN <<Call("dev", "bind", "dev", With(D("RList", <<Atom>>, TRUE))), Do("open")>>
    ELSE <<>>

UserCall(d) ==
    <<New("v1", d.parts[1]), ProtectInc("v1"), Alloc("arg", <<"v1">>), Alloc("call", <<"arg">>), ProtectInc("call")>>

UserStep(d) == [op |-> "user", to |-> "ptr", data |-> d]

OutputSteps == <<ProtectInc("ptr"), Call("output", "slice", "ptr", Sure(2))>>

PlotSteps(d) ==
    IF d.at = "graphics"
    THEN <<Alloc("plots", <<>>), Do("newplots"), ProtectInc("plots"),
           Call("arg", "toArray", "plots", Atom)>>
    ELSE <<>>

ResultSteps == <<Call("result", "slice", "ptr", Sure(1)), Call("output", "slice", "ptr", Sure(2)),
             Return("result")>>

Groups(a, b, c) == (a \o b) \o c = a \o (b \o c)

LEMMA Assoc ==
    ASSUME NEW S, NEW a \in Seq(S), NEW b \in Seq(S), NEW c \in Seq(S)
    PROVE  Groups(a, b, c)
<1>1. PICK p, q, u, v : p = a \o b /\ q = b \o c /\ u = p \o c /\ v = a \o q
  OBVIOUS
<1>2. /\ p \in Seq(S) /\ q \in Seq(S) /\ u \in Seq(S) /\ v \in Seq(S)
      /\ Len(p) = Len(a) + Len(b) /\ Len(q) = Len(b) + Len(c)
      /\ Len(u) = Len(p) + Len(c) /\ Len(v) = Len(a) + Len(q)
      /\ Len(a) \in Nat /\ Len(b) \in Nat /\ Len(c) \in Nat
  BY <1>1
<1>3. Len(u) = Len(v)
  BY <1>2
<1>4. \A k \in 1 .. Len(a) : p[k] = a[k] /\ v[k] = a[k]
  BY <1>1
<1>5. \A k \in 1 .. Len(b) : p[k + Len(a)] = b[k] /\ q[k] = b[k]
  BY <1>1
<1>6. \A k \in 1 .. Len(c) : u[k + Len(p)] = c[k] /\ q[k + Len(b)] = c[k]
  BY <1>1
<1>7. \A k \in 1 .. Len(p) : u[k] = p[k]
  BY <1>1, <1>2
<1>8. \A k \in 1 .. Len(q) : v[k + Len(a)] = q[k]
  BY <1>1, <1>2
<1>9. ASSUME NEW k \in 1 .. Len(u) PROVE u[k] = v[k]
  <2>1. CASE k \in 1 .. Len(a)
    <3>1. k \in 1 .. Len(p)
      BY <1>2, <2>1
    <3> QED BY <1>4, <1>7, <2>1, <3>1
  <2>2. CASE k \in Len(a) + 1 .. Len(a) + Len(b)
    <3>1. PICK j : j = k - Len(a)
      OBVIOUS
    <3>2. j \in 1 .. Len(b) /\ j + Len(a) = k /\ k \in 1 .. Len(p) /\ j \in 1 .. Len(q)
      BY <1>2, <2>2, <3>1
    <3> QED BY <1>5, <1>7, <1>8, <3>2
  <2>3. CASE k \in Len(a) + Len(b) + 1 .. Len(u)
    <3>1. PICK j, m : j = k - Len(p) /\ m = k - Len(a)
      OBVIOUS
    <3>2. j \in 1 .. Len(c) /\ j + Len(p) = k /\ m \in 1 .. Len(q) /\ m + Len(a) = k /\ j + Len(b) = m
      BY <1>2, <2>3, <3>1
    <3> QED BY <1>6, <1>8, <3>2
  <2> QED BY <1>2, <2>1, <2>2, <2>3
<1>10. u = v
  BY <1>2, <1>3, <1>9, SeqsEqual
<1> QED BY <1>1, <1>10 DEF Groups

LEMMA Prefixed ==
    ASSUME NEW S, NEW a \in S, NEW q \in Seq(S), NEW m \in Nat, Len(q) = m
    PROVE  /\ <<a>> \o q \in Seq(S) /\ Len(<<a>> \o q) = m + 1 /\ (<<a>> \o q)[1] = a
           /\ \A i \in 2 .. m + 1 : (<<a>> \o q)[i] = q[i - 1]
<1>1. PICK p, r : p = <<a>> /\ r = p \o q
  OBVIOUS
<1>2. p \in Seq(S) /\ Len(p) = 1 /\ p[1] = a
  BY <1>1
<1>3. r \in Seq(S) /\ Len(r) = m + 1 /\ r[1] = a
  BY <1>1, <1>2
<1>4. \A i \in 2 .. m + 1 : r[i] = q[i - 1]
  BY <1>1, <1>2
<1> QED BY <1>1, <1>3, <1>4

LEMMA PrefixedOne ==
    ASSUME NEW S, NEW a \in S, NEW b \in S
    PROVE <<a>> \o <<b>> = <<a, b>>
<1>1. PICK q, r, s : q = <<b>> /\ s = <<a, b>> /\ r = <<a>> \o q
  OBVIOUS
<1>2. q \in Seq(S) /\ Len(q) = 1 /\ q[1] = b /\ s \in Seq(S) /\ Len(s) = 2 /\ s[1] = a /\ s[2] = b
  BY <1>1
<1>3. r \in Seq(S) /\ Len(r) = 1 + 1 /\ r[1] = a /\ \A i \in 2 .. 1 + 1 : r[i] = q[i - 1]
  BY <1>1, <1>2, Prefixed
<1>4. \A i \in 1 .. 2 : s[i] = r[i]
  <2>1. r[2] = q[2 - 1] /\ 2 - 1 = 1
    BY <1>3
  <2> QED BY <1>2, <1>3, <2>1
<1>5. r = s
  BY <1>2, <1>3, <1>4, SeqsEqual
<1> QED BY <1>1, <1>5

LEMMA PrefixedPair ==
    ASSUME NEW S, NEW a \in S, NEW b \in S, NEW c \in S
    PROVE <<a>> \o <<b, c>> = <<a, b, c>>
<1>1. PICK q, r, s : q = <<b, c>> /\ s = <<a, b, c>> /\ r = <<a>> \o q
  OBVIOUS
<1>2. /\ q \in Seq(S) /\ Len(q) = 2 /\ q[1] = b /\ q[2] = c
      /\ s \in Seq(S) /\ Len(s) = 3 /\ s[1] = a /\ s[2] = b /\ s[3] = c
  BY <1>1
<1>3. r \in Seq(S) /\ Len(r) = 2 + 1 /\ r[1] = a /\ \A i \in 2 .. 2 + 1 : r[i] = q[i - 1]
  BY <1>1, <1>2, Prefixed
<1>4. \A i \in 1 .. 3 : s[i] = r[i]
  <2>1. r[2] = q[2 - 1] /\ 2 - 1 = 1 /\ r[3] = q[3 - 1] /\ 3 - 1 = 2
    BY <1>3
  <2> QED BY <1>2, <1>3, <2>1
<1>5. r = s
  BY <1>2, <1>3, <1>4, SeqsEqual
<1> QED BY <1>1, <1>5

LEMMA PrefixedTriple ==
    ASSUME NEW S, NEW a \in S, NEW b \in S, NEW c \in S, NEW d \in S
    PROVE <<a>> \o <<b, c, d>> = <<a, b, c, d>>
<1>1. PICK q, r, s : q = <<b, c, d>> /\ s = <<a, b, c, d>> /\ r = <<a>> \o q
  OBVIOUS
<1>2. /\ q \in Seq(S) /\ Len(q) = 3 /\ q[1] = b /\ q[2] = c /\ q[3] = d
      /\ s \in Seq(S) /\ Len(s) = 4 /\ s[1] = a /\ s[2] = b /\ s[3] = c /\ s[4] = d
  BY <1>1
<1>3. r \in Seq(S) /\ Len(r) = 3 + 1 /\ r[1] = a /\ \A i \in 2 .. 3 + 1 : r[i] = q[i - 1]
  BY <1>1, <1>2, Prefixed
<1>4. \A i \in 1 .. 4 : s[i] = r[i]
  <2>1. r[2] = q[2 - 1] /\ 2 - 1 = 1 /\ r[3] = q[3 - 1] /\ 3 - 1 = 2 /\ r[4] = q[4 - 1] /\ 4 - 1 = 3
    BY <1>3
  <2> QED BY <1>2, <1>3, <2>1
<1>5. r = s
  BY <1>2, <1>3, <1>4, SeqsEqual
<1> QED BY <1>1, <1>5

LEMMA TripleOf ==
    ASSUME NEW S, NEW a \in S, NEW b \in S, NEW c \in S
    PROVE  <<a, b, c>> \in Seq(S) /\ Len(<<a, b, c>>) = 3
           /\ \A i \in 1 .. 3 : <<a, b, c>>[i] \in {a, b, c}
OBVIOUS

LEMMA PairOf ==
    ASSUME NEW S, NEW a \in S, NEW b \in S
    PROVE  <<a, b>> \in Seq(S) /\ Len(<<a, b>>) = 2 /\ <<a, b>>[1] = a /\ <<a, b>>[2] = b
           /\ \A i \in 1 .. 2 : <<a, b>>[i] \in {a, b}
OBVIOUS

LEMMA FiveOf ==
    ASSUME NEW S, NEW a \in S, NEW b \in S, NEW c \in S, NEW d \in S, NEW e \in S
    PROVE  <<a, b, c, d, e>> \in Seq(S) /\ Len(<<a, b, c, d, e>>) = 5
           /\ \A i \in 1 .. 5 : <<a, b, c, d, e>>[i] \in {a, b, c, d, e}
OBVIOUS

LEMMA PrefixedTwice ==
    ASSUME NEW S, NEW a \in S, NEW b \in S, NEW c \in S, NEW d \in S,
           NEW e, e = <<c, d>>, NEW g, g = <<a, b, c, d>>
    PROVE  g = <<a>> \o (<<b>> \o e)
<1>1. <<b>> \o <<c, d>> = <<b, c, d>>
  BY PrefixedPair
<1>2. <<a>> \o <<b, c, d>> = <<a, b, c, d>>
  BY PrefixedTriple
<1> QED BY <1>1, <1>2

LEMMA Appended ==
    ASSUME NEW S, NEW a \in S, NEW b \in S, NEW c \in S
    PROVE  <<a, b>> \o <<c>> = <<a, b, c>>
<1>1. PICK p, q, r : p = <<a>> /\ q = <<b>> /\ r = <<c>>
  OBVIOUS
<1>2. p \in Seq(S) /\ q \in Seq(S) /\ r \in Seq(S)
  BY <1>1, OneOf
<1>3. (p \o q) \o r = p \o (q \o r)
  <2>1. Groups(p, q, r)
    BY ONLY <1>2, Assoc
  <2> QED BY ONLY <2>1 DEF Groups
<1>4. p \o q = <<a, b>> /\ q \o r = <<b, c>>
  BY <1>1, PrefixedOne
<1>5. p \o <<b, c>> = <<a, b, c>>
  BY <1>1, PrefixedPair
<1> QED BY <1>1, <1>3, <1>4, <1>5

LEMMA ResultsAre ==
    ASSUME NEW n \in Nat
    PROVE  /\ ResultSteps \in Seq(Steps(n)) /\ Trial(ResultSteps) /\ Calm(ResultSteps)
           /\ ~ Has(ResultSteps, {"open"}) /\ Ended(ResultSteps)
<1>1. PICK a, b, z : /\ a = Call("result", "slice", "ptr", Sure(1))
                     /\ b = Call("output", "slice", "ptr", Sure(2)) /\ z = Return("result")
  OBVIOUS
<1>2. a \in Steps(n) /\ b \in Steps(n) /\ z \in Steps(n)
  BY <1>1, LocalsAre, Calling, SomeSteps, StepSets
<1>3. a.op = "method" /\ b.op = "method" /\ z.op = "return" /\ CalmStep(a) /\ CalmStep(b)
  <2>1. CalmStep(a) /\ CalmStep(b)
    BY <1>1, CalmCalls
  <2>2. a.op = "method" /\ b.op = "method"
    BY <1>1, CallIs
  <2>3. z.op = "return"
    BY <1>1, Ops
  <2> QED BY <2>1, <2>2, <2>3
<1>4. PICK c : c = <<a, b>>
  OBVIOUS
<1>5. c \in Seq(Steps(n)) /\ Len(c) = 2 /\ \A i \in 1 .. 2 : c[i] \in {a, b}
  BY <1>2, <1>4, PairOf
<1>6. Calm(c) /\ \A i \in 1 .. Len(c) : c[i].op # "return"
  BY <1>3, <1>5 DEF Calm
<1>7. Trial(c \o <<z>>) /\ Calm(c \o <<z>>)
  BY <1>2, <1>3, <1>5, <1>6, TrialCalm
<1>8. PICK q : q = <<a, b, z>>
  OBVIOUS
<1>9. q \in Seq(Steps(n)) /\ Len(q) = 3 /\ q[1] = a /\ q[2] = b /\ q[3] = z
  BY <1>2, <1>8
<1>10. c \o <<z>> = q
  BY <1>2, <1>4, <1>8, Appended
<1>11. Ended(q)
  <2>1. q # <<>> /\ q[Len(q)] = z
    BY <1>9
  <2> QED BY <1>3, <2>1 DEF Ended
<1>12. ~ Has(q, {"open"})
  BY <1>3, <1>9 DEF Has
<1>13. ResultSteps = q
  BY <1>1, <1>8 DEF ResultSteps
<1> QED BY <1>7, <1>9, <1>10, <1>11, <1>12, <1>13

(* Joined in front of a trial.                                             *)
LEMMA Ahead ==
    ASSUME NEW n \in Nat, NEW c \in Seq(Steps(n)), NEW d \in Seq(Steps(n)), Trial(d), Ended(d),
           \A i \in 1 .. Len(c) : \/ Neutral(c[i])
                                  \/ c[i].op \in {"new", "method"} /\ Has(d, {"user", "throw"})
    PROVE  /\ c \o d \in Seq(Steps(n)) /\ Trial(c \o d) /\ Ended(c \o d)
           /\ Len(c \o d) = Len(c) + Len(d)
           /\ \A O : Has(d, O) => Has(c \o d, O)
           /\ \A O : Has(c \o d, O) <=> Has(c, O) \/ Has(d, O)
           /\ Calm(c \o d) <=> Calm(c) /\ Calm(d)
<1>1. PICK q : q = c \o d
  OBVIOUS
<1>2. /\ q \in Seq(Steps(n)) /\ Len(q) = Len(c) + Len(d) /\ Len(c) \in Nat /\ Len(d) \in Nat
      /\ \A i \in 1 .. Len(d) : q[i + Len(c)] = d[i]
  BY <1>1
<1>3. Ended(q)
  <2>1. d # <<>> /\ Len(d) \in 1 .. Len(d)
    BY <1>2 DEF Ended
  <2>2. q[Len(q)] = d[Len(d)] /\ q # <<>>
    <3>1. Len(q) = Len(d) + Len(c)
      BY <1>2
    <3>2. q[Len(d) + Len(c)] = d[Len(d)]
      BY <1>2, <2>1
    <3>3. Len(q) # 0
      BY <1>2, <2>1
    <3> QED BY <3>1, <3>2, <3>3
  <2> QED BY <2>2 DEF Ended
<1>4. Trial(q)
  BY <1>1, TrialJoined
<1>5. (\A O : Has(q, O) <=> Has(c, O) \/ Has(d, O)) /\ (Calm(q) <=> Calm(c) /\ Calm(d))
  BY <1>1, JoinHas
<1> QED BY <1>1, <1>2, <1>3, <1>4, <1>5

LEMMA AheadOne ==
    ASSUME NEW n \in Nat, NEW s \in Steps(n), NEW d \in Seq(Steps(n)), Trial(d), Ended(d), Fit(s, d)
    PROVE  /\ <<s>> \o d \in Seq(Steps(n)) /\ Trial(<<s>> \o d) /\ Ended(<<s>> \o d)
           /\ Len(<<s>> \o d) = Len(d) + 1
           /\ \A O : Has(<<s>> \o d, O) <=> s.op \in O \/ Has(d, O)
<1>1. PICK q, c : q = <<s>> \o d /\ c = <<s>>
  OBVIOUS
<1>2. /\ q \in Seq(Steps(n)) /\ Len(q) = 1 + Len(d) /\ Len(d) \in Nat
      /\ \A i \in 1 .. Len(d) : q[i + 1] = d[i]
      /\ c \in Seq(Steps(n)) /\ Len(c) = 1 /\ c[1] = s
  BY <1>1
<1>3. Ended(q)
  <2>1. d # <<>> /\ Len(d) \in 1 .. Len(d)
    BY <1>2 DEF Ended
  <2>2. q[Len(q)] = d[Len(d)] /\ q # <<>>
    <3>1. Len(q) = Len(d) + 1
      BY <1>2
    <3>2. q[Len(d) + 1] = d[Len(d)]
      BY <1>2, <2>1
    <3>3. Len(q) # 0
      BY <1>2, <2>1
    <3> QED BY <3>1, <3>2, <3>3
  <2> QED BY <2>2 DEF Ended
<1>4. Trial(q)
  BY <1>1, TrialBegun
<1>5. \A O : Has(q, O) <=> Has(c, O) \/ Has(d, O)
  BY <1>1, <1>2, JoinHas
<1>6. \A O : Has(c, O) <=> s.op \in O
  BY <1>2 DEF Has
<1> QED BY <1>1, <1>2, <1>3, <1>4, <1>5, <1>6

LEMMA NeutralSteps ==
    ASSUME NEW x, NEW y, NEW i
    PROVE  /\ Neutral(Alloc(x, y)) /\ Neutral(Attach(x, y)) /\ Neutral(ProtectInc(x))
           /\ Neutral(Do("quiet")) /\ Neutral(Throw(x))
           /\ Neutral(Call(x, "slice", y, Sure(i))) /\ Neutral(Call(x, "toArray", y, Atom))
<1>1. /\ Neutral(Alloc(x, y)) /\ Neutral(Attach(x, y)) /\ Neutral(ProtectInc(x))
      /\ Neutral(Do("quiet")) /\ Neutral(Throw(x))
  <2>1. /\ Alloc(x, y).op = "alloc" /\ Attach(x, y).op = "attach" /\ ProtectInc(x).op = "protectInc"
        /\ Throw(x).op = "throw"
    BY Ops
  <2>2. Do("quiet").op = "quiet"
    BY Ops
  <2> QED BY <2>1, <2>2 DEF Neutral
<1>2. Neutral(Call(x, "slice", y, Sure(i))) /\ Neutral(Call(x, "toArray", y, Atom))
  BY CallIs, CalmCalls DEF Neutral
<1> QED BY <1>1, <1>2

LEMMA PlotsAre ==
    ASSUME NEW n \in Nat, NEW d
    PROVE  /\ PlotSteps(d) \o ResultSteps \in Seq(Steps(n)) /\ Trial(PlotSteps(d) \o ResultSteps)
           /\ Ended(PlotSteps(d) \o ResultSteps) /\ ~ Has(PlotSteps(d) \o ResultSteps, {"open"})
           /\ Len(PlotSteps(d) \o ResultSteps) >= 3 /\ PlotSteps(d) \in Seq(Steps(n))
           /\ d.at = "graphics" => Has(PlotSteps(d) \o ResultSteps, {"newplots"})
<1>1. PICK r : r = ResultSteps
  OBVIOUS
<1>2. /\ r \in Seq(Steps(n)) /\ Trial(r) /\ Calm(r) /\ ~ Has(r, {"open"}) /\ Ended(r)
  BY <1>1, ResultsAre
<1>3. Len(r) = 3
  BY <1>1 DEF ResultSteps
<1>4. CASE d.at # "graphics"
  <2>1. PICK t, u : t = PlotSteps(d) /\ u = t \o r
    OBVIOUS
  <2>2. t = <<>> /\ <<>> \o r = r /\ <<>> \in Seq(Steps(n))
    BY <1>2, <1>4, <2>1 DEF PlotSteps
  <2>3. u = r /\ t \in Seq(Steps(n))
    BY <2>1, <2>2
  <2>4. u \in Seq(Steps(n)) /\ Trial(u) /\ Ended(u) /\ ~ Has(u, {"open"})
    BY <1>2, <2>3, Zenon
  <2>6. Len(u) >= 3
    BY <1>3, <2>3
  <2>5. u = PlotSteps(d) \o ResultSteps /\ t = PlotSteps(d)
    BY <1>1, <2>1
  <2> QED BY <1>4, <2>3, <2>4, <2>5, <2>6
<1>5. CASE d.at = "graphics"
  <2>1. PICK a, b, p, t : /\ a = Alloc("plots", <<>>) /\ b = Do("newplots") /\ p = ProtectInc("plots")
                          /\ t = Call("arg", "toArray", "plots", Atom)
    OBVIOUS
  <2>2. a \in Steps(n) /\ b \in Steps(n) /\ p \in Steps(n) /\ t \in Steps(n)
    <3>1. <<>> \in Seq(Local)
      OBVIOUS
    <3>2. a \in Simple(n) /\ p \in Simple(n) /\ t \in Simple(n)
      BY <2>1, <3>1, LocalsAre, SomeSteps, Calling
    <3>3. b \in Special(n)
      BY <2>1, MoreSteps
    <3> QED BY <3>2, <3>3, StepSets
  <2>3. PICK e : e = <<p, t>>
    OBVIOUS
  <2>4. /\ e \in Seq(Steps(n)) /\ Len(e) = 2 /\ \A i \in 1 .. 2 : e[i] \in {p, t}
    BY <2>2, <2>3, PairOf
  <2>5. /\ Neutral(p) /\ Neutral(t) /\ Neutral(a) /\ CalmStep(p) /\ CalmStep(t)
        /\ p.op = "protectInc" /\ t.op = "method" /\ a.op = "alloc" /\ b.op = "newplots"
    <3>1. Neutral(p) /\ Neutral(t) /\ Neutral(a)
      BY <2>1, NeutralSteps
    <3>2. CalmStep(p) /\ CalmStep(t)
      BY <2>1, CalmCalls
    <3>3. t.op = "method"
      BY <2>1, CallIs
    <3>4. p.op = "protectInc"
      BY <2>1, Ops
    <3>5. a.op = "alloc"
      BY <2>1 DEF Alloc
    <3>6. b.op = "newplots"
      BY <2>1, Ops
    <3> QED BY <3>1, <3>2, <3>3, <3>4, <3>5, <3>6
  <2>6. Calm(e) /\ (\A i \in 1 .. Len(e) : Neutral(e[i])) /\ ~ Has(e, {"open"})
    BY <2>4, <2>5 DEF Calm, Has
  <2>7. PICK u : u = e \o r
    OBVIOUS
  <2>8. u \in Seq(Steps(n)) /\ Trial(u) /\ Ended(u) /\ Calm(u) /\ ~ Has(u, {"open"}) /\ Len(u) = 5
    <3>1. /\ u \in Seq(Steps(n)) /\ Trial(u) /\ Ended(u) /\ (Calm(u) <=> Calm(e) /\ Calm(r))
          /\ \A O : Has(u, O) <=> Has(e, O) \/ Has(r, O)
          /\ Len(u) = Len(e) + Len(r)
      BY <1>2, <2>4, <2>6, <2>7, Ahead
    <3> QED BY <1>2, <1>3, <2>4, <2>6, <3>1
  <2>9. Fit(b, u)
    BY <2>5, <2>8 DEF Fit
  <2>10. PICK v : v = <<b>> \o u
    OBVIOUS
  <2>11. v \in Seq(Steps(n)) /\ Trial(v) /\ Ended(v) /\ ~ Has(v, {"open"}) /\ Has(v, {"newplots"}) /\ Len(v) = 6
    <3>1. /\ v \in Seq(Steps(n)) /\ Trial(v) /\ Ended(v) /\ Len(v) = Len(u) + 1
          /\ \A O : Has(v, O) <=> b.op \in O \/ Has(u, O)
      BY <2>2, <2>8, <2>9, <2>10, AheadOne
    <3> QED BY <2>5, <2>8, <3>1
  <2>12. Fit(a, v)
    BY <2>5, NeutralFits
  <2>13. PICK w : w = <<a>> \o v
    OBVIOUS
  <2>14. w \in Seq(Steps(n)) /\ Trial(w) /\ Ended(w) /\ ~ Has(w, {"open"}) /\ Has(w, {"newplots"}) /\ Len(w) = 7
    <3>1. /\ w \in Seq(Steps(n)) /\ Trial(w) /\ Ended(w) /\ Len(w) = Len(v) + 1
          /\ \A O : Has(w, O) <=> a.op \in O \/ Has(v, O)
      BY <2>2, <2>11, <2>12, <2>13, AheadOne
    <3> QED BY <2>5, <2>11, <3>1
  <2>15. PICK g : g = <<a, b, p, t>>
    OBVIOUS
  <2>16. g \in Seq(Steps(n))
    BY <2>2, <2>15
  <2>17. g = <<a>> \o (<<b>> \o e)
    BY <2>2, <2>3, <2>15, PrefixedTwice
  <2>18. w = g \o r
    <3>1. PICK x, y, z : x = <<a>> /\ y = <<b>> /\ z = y \o e
      OBVIOUS
    <3>2. x \in Seq(Steps(n)) /\ y \in Seq(Steps(n)) /\ z \in Seq(Steps(n))
      <4>1. x \in Seq(Steps(n)) /\ y \in Seq(Steps(n))
        BY <2>2, <3>1, OneOf
      <4> QED BY <2>4, <3>1, <4>1, JoinHas
    <3>3. z \o r = y \o u
      <4>1. Groups(y, e, r)
        BY <1>2, <2>4, <3>2, Assoc
      <4> QED BY <2>7, <3>1, <4>1 DEF Groups
    <3>4. (x \o z) \o r = x \o (z \o r)
      <4>1. r \in Seq(Steps(n))
        BY <1>2
      <4>2. Groups(x, z, r)
        BY ONLY <3>2, <4>1, Assoc
      <4> QED BY ONLY <4>2 DEF Groups
    <3> QED BY <2>10, <2>13, <2>17, <3>1, <3>3, <3>4
  <2>19. PlotSteps(d) = g
    BY <1>5, <2>1, <2>15 DEF PlotSteps
  <2> QED BY <1>1, <2>14, <2>16, <2>18, <2>19
<1> QED BY <1>4, <1>5

LEMMA Joined ==
    ASSUME NEW S, NEW p \in Seq(S), NEW q \in Seq(S), NEW l \in Nat, NEW m \in Nat, Len(p) = l, Len(q) = m
    PROVE  /\ p \o q \in Seq(S) /\ Len(p \o q) = l + m
           /\ \A i \in 1 .. l : (p \o q)[i] = p[i]
           /\ \A i \in l + 1 .. l + m : (p \o q)[i] = q[i - l]
OBVIOUS

LEMMA EightSteps ==
    ASSUME NEW S, NEW a \in S, NEW b \in S, NEW c \in S, NEW d \in S, NEW e \in S, NEW f \in S,
           NEW g \in S, NEW h \in S,
           NEW p, p = <<a, b, c, d, e>>, NEW o, o = <<g, h>>,
           NEW s, s = <<a, b, c, d, e, f, g, h>>
    PROVE  s = p \o (<<f>> \o o)
<1>1. <<f>> \o <<g, h>> = <<f, g, h>>
  BY PrefixedPair
<1>2. PICK q, r : q = <<f, g, h>> /\ r = p \o q
  OBVIOUS
<1>3. /\ q \in Seq(S) /\ Len(q) = 3 /\ q[1] = f /\ q[2] = g /\ q[3] = h
  BY <1>2
<1>4. /\ p \in Seq(S) /\ Len(p) = 5 /\ p[1] = a /\ p[2] = b /\ p[3] = c /\ p[4] = d /\ p[5] = e
  OBVIOUS
<1>5. /\ s \in Seq(S) /\ Len(s) = 8 /\ s[1] = a /\ s[2] = b /\ s[3] = c /\ s[4] = d /\ s[5] = e
      /\ s[6] = f /\ s[7] = g /\ s[8] = h
  OBVIOUS
<1>6. /\ r \in Seq(S) /\ Len(r) = 5 + 3 /\ \A i \in 1 .. 5 : r[i] = p[i]
      /\ \A i \in 5 + 1 .. 5 + 3 : r[i] = q[i - 5]
  BY <1>2, <1>3, <1>4, Joined
<1>7. \A i \in 1 .. 8 : s[i] = r[i]
  <2>1. r[6] = q[6 - 5] /\ 6 - 5 = 1 /\ r[7] = q[7 - 5] /\ 7 - 5 = 2 /\ r[8] = q[8 - 5] /\ 8 - 5 = 3
    BY <1>6
  <2> QED BY <1>3, <1>4, <1>5, <1>6, <2>1
<1>8. s = r
  BY <1>5, <1>6, <1>7, SeqsEqual
<1> QED BY <1>1, <1>2, <1>8

(* From the evaluation on.                                                 *)
LEMMA UserOn ==
    ASSUME NEW n \in Nat, NEW d \in Datum(n)
    PROVE  \E y, w : /\ y = OutputSteps \o (PlotSteps(d) \o ResultSteps) /\ w = <<UserStep(d)>> \o y
                     /\ OutputSteps \in Seq(Steps(n)) /\ UserStep(d) \in Steps(n)
                     /\ y \in Seq(Steps(n)) /\ w \in Seq(Steps(n)) /\ Trial(w) /\ Ended(w)
                     /\ Has(w, {"user", "throw"}) /\ ~ Has(w, {"open"})
                     /\ d.at = "graphics" => Has(w, {"newplots"})
<1>1. PICK x, y, w, o, u :
        x = PlotSteps(d) \o ResultSteps /\ o = OutputSteps /\ y = o \o x /\ u = UserStep(d) /\ w = <<u>> \o y
  OBVIOUS
<1>2. /\ x \in Seq(Steps(n)) /\ Trial(x) /\ Ended(x) /\ ~ Has(x, {"open"}) /\ Len(x) >= 3
      /\ d.at = "graphics" => Has(x, {"newplots"})
  BY <1>1, PlotsAre
<1>3. PICK p, t : p = ProtectInc("ptr") /\ t = Call("output", "slice", "ptr", Sure(2))
  OBVIOUS
<1>4. p \in Steps(n) /\ t \in Steps(n)
  <2>1. p \in Simple(n) /\ t \in Simple(n)
    BY <1>3, LocalsAre, SomeSteps, Calling
  <2> QED BY <2>1, StepSets
<1>5. Neutral(p) /\ Neutral(t) /\ CalmStep(p) /\ CalmStep(t)
  <2>1. Neutral(p) /\ Neutral(t)
    BY <1>3, NeutralSteps
  <2> QED BY <1>3, <2>1, CalmCalls
<1>6. p.op = "protectInc" /\ t.op = "method"
  <2>1. p.op = "protectInc"
    BY <1>3, Ops
  <2> QED BY <1>3, <2>1, CallIs
<1>7. o \in Seq(Steps(n)) /\ Len(o) = 2 /\ o[1] = p /\ o[2] = t /\ \A i \in 1 .. 2 : o[i] \in {p, t}
  BY <1>1, <1>3, <1>4, PairOf DEF OutputSteps
<1>8. \A i \in 1 .. Len(o) : Neutral(o[i])
  BY <1>5, <1>7
<1>9. ~ Has(o, {"open"})
  BY <1>6, <1>7 DEF Has
<1>10. /\ y \in Seq(Steps(n)) /\ Trial(y) /\ Ended(y) /\ Len(y) = Len(o) + Len(x)
       /\ \A O : Has(y, O) <=> Has(o, O) \/ Has(x, O)
  BY <1>1, <1>2, <1>7, <1>8, Ahead
<1>11. Len(y) > 2 /\ y[1] = p /\ y[2] = t
  <2>1. x \in Seq(Steps(n)) /\ o \in Seq(Steps(n))
    BY <1>2, <1>7
  <2>2. \A i \in 1 .. Len(o) : (o \o x)[i] = o[i]
    BY <2>1
  <2>3. \A i \in 1 .. 2 : y[i] = o[i]
    BY <1>1, <1>7, <2>2
  <2> QED BY <1>2, <1>7, <1>10, <2>3
<1>12. u.op = "user"
  BY <1>1 DEF UserStep
<1>13. Fit(u, y)
  BY <1>5, <1>11, <1>12 DEF Fit
<1>14. u \in Steps(n)
  BY <1>1, MoreSteps, StepSets DEF UserStep
<1>15. /\ w \in Seq(Steps(n)) /\ Trial(w) /\ Ended(w)
       /\ \A O : Has(w, O) <=> u.op \in O \/ Has(y, O)
  BY <1>1, <1>10, <1>13, <1>14, AheadOne
<1>16. Has(w, {"user", "throw"})
  BY <1>12, <1>15
<1>17. ~ Has(w, {"open"})
  BY <1>2, <1>9, <1>10, <1>12, <1>15
<1>18. d.at = "graphics" => Has(w, {"newplots"})
  BY <1>2, <1>10, <1>15
<1> QED BY <1>1, <1>7, <1>10, <1>14, <1>15, <1>16, <1>17, <1>18

(* From the arguments of the evaluation on.                                *)
LEMMA CallingOn ==
    ASSUME NEW n \in Nat, NEW d \in Datum(n), d.parts # <<>>, NEW w \in Seq(Steps(n)),
           Trial(w), Ended(w), Has(w, {"user", "throw"}), ~ Has(w, {"open"}),
           d.at = "graphics" => Has(w, {"newplots"})
    PROVE  /\ UserCall(d) \in Seq(Steps(n)) /\ UserCall(d) \o w \in Seq(Steps(n))
           /\ Trial(UserCall(d) \o w) /\ Ended(UserCall(d) \o w)
           /\ Has(UserCall(d) \o w, {"user", "throw"}) /\ ~ Has(UserCall(d) \o w, {"open"})
           /\ d.at = "graphics" => Has(UserCall(d) \o w, {"newplots"})
<1>1. PICK a, b, c, e, f, k : /\ a = New("v1", d.parts[1]) /\ b = ProtectInc("v1") /\ c = Alloc("arg", <<"v1">>)
                              /\ e = Alloc("call", <<"arg">>) /\ f = ProtectInc("call") /\ k = UserCall(d)
  OBVIOUS
<1>2. d.parts[1] \in Datum(n)
  <2>1. d.parts \in Seq(Flat(n))
    BY DatumFields
  <2>2. 1 \in 1 .. Len(d.parts)
    BY <2>1
  <2> QED BY <2>2, DatumFields
<1>3. /\ a \in Steps(n) /\ b \in Steps(n) /\ c \in Steps(n) /\ e \in Steps(n) /\ f \in Steps(n)
  <2>1. <<"v1">> \in Seq(Local) /\ <<"arg">> \in Seq(Local)
    BY LocalsAre, OneOf
  <2>2. a \in Simple(n) /\ b \in Simple(n) /\ f \in Simple(n)
    BY <1>1, <1>2, LocalsAre, SomeSteps
  <2>3. c \in Simple(n) /\ e \in Simple(n)
    BY <1>1, <2>1, LocalsAre, SomeSteps
  <2> QED BY <2>2, <2>3, StepSets
<1>4. k \in Seq(Steps(n)) /\ Len(k) = 5 /\ \A i \in 1 .. 5 : k[i] \in {a, b, c, e, f}
  BY <1>1, <1>3, FiveOf DEF UserCall
<1>5. a.op = "new" /\ b.op = "protectInc" /\ f.op = "protectInc"
  BY <1>1 DEF New, ProtectInc
<1>6. c.op = "alloc" /\ e.op = "alloc"
  BY <1>1 DEF Alloc
<1>7. Neutral(b) /\ Neutral(c) /\ Neutral(e) /\ Neutral(f)
  BY <1>5, <1>6 DEF Neutral
<1>8. \A i \in 1 .. Len(k) : Neutral(k[i]) \/ (k[i].op \in {"new", "method"} /\ Has(w, {"user", "throw"}))
  BY <1>4, <1>5, <1>7
<1>9. ~ Has(k, {"open"})
  BY <1>4, <1>5, <1>6 DEF Has
<1>10. /\ k \o w \in Seq(Steps(n)) /\ Trial(k \o w) /\ Ended(k \o w)
       /\ \A O : Has(k \o w, O) <=> Has(k, O) \/ Has(w, O)
  BY <1>4, <1>8, Ahead
<1> QED BY <1>1, <1>4, <1>9, <1>10

(* From the device on.                                                     *)
LEMMA DeviceOn ==
    ASSUME NEW n \in Nat, NEW d \in Datum(n), NEW w \in Seq(Steps(n)),
           Trial(w), Ended(w), Has(w, {"user", "throw"}), ~ Has(w, {"open"}),
           d.at = "graphics" => Has(w, {"newplots"})
    PROVE  /\ DeviceSteps(d) \in Seq(Steps(n)) /\ DeviceSteps(d) \o w \in Seq(Steps(n))
           /\ Trial(DeviceSteps(d) \o w) /\ Ended(DeviceSteps(d) \o w)
           /\ Has(DeviceSteps(d) \o w, {"user", "throw"})
<1>1. CASE d.at # "graphics"
  <2>1. DeviceSteps(d) = <<>> /\ <<>> \o w = w
    BY <1>1 DEF DeviceSteps
  <2> QED BY <1>1, <2>1
<1>2. CASE d.at = "graphics"
  <2>1. PICK a, o, g, e : /\ e = D("RList", <<Atom>>, TRUE) /\ a = Call("dev", "bind", "dev", With(e))
                          /\ o = Do("open") /\ g = DeviceSteps(d)
    OBVIOUS
  <2>2. a \in Steps(n) /\ o \in Steps(n)
    <3>1. PICK p : p = <<Atom>> /\ p \in Seq(Leaf(n))
      BY SomeData, OneOf
    <3>2. e \in Flat(n)
      <4>1. PICK k : k = "RList"
        OBVIOUS
      <4>2. k \in DatumKind /\ k # "local" /\ k # "object" /\ "" \in DatumMark /\ 0 \in Nat /\ TRUE \in BOOLEAN
        BY <4>1, NamesAre
      <4>3. DatumOf(k, p, TRUE, "", 0) \in Flat(n)
        BY <3>1, <4>2, DatumIs
      <4> QED BY <2>1, <3>1, <4>1, <4>3, DTold
    <3>3. a \in Simple(n)
      BY <2>1, <3>2, WithIs, LocalsAre, MethodNames, SomeCalls
    <3>4. o \in Special(n)
      BY <2>1, MoreSteps
    <3> QED BY <3>3, <3>4, StepSets
  <2>3. o.op = "open"
    BY <2>1 DEF Do
  <2>4. a.op = "method"
    BY <2>1 DEF Call
  <2>5. Fit(o, w)
    BY <1>2, <2>3 DEF Fit
  <2>6. PICK v : v = <<o>> \o w
    OBVIOUS
  <2>7. /\ v \in Seq(Steps(n)) /\ Trial(v) /\ Ended(v) /\ Has(v, {"user", "throw"})
    <3>1. /\ v \in Seq(Steps(n)) /\ Trial(v) /\ Ended(v)
          /\ \A O : Has(v, O) <=> o.op \in O \/ Has(w, O)
      BY <2>2, <2>5, <2>6, AheadOne
    <3> QED BY <3>1
  <2>8. Fit(a, v)
    BY <2>4, <2>7, NeutralFits
  <2>9. PICK u : u = <<a>> \o v
    OBVIOUS
  <2>10. /\ u \in Seq(Steps(n)) /\ Trial(u) /\ Ended(u) /\ Has(u, {"user", "throw"})
    <3>1. /\ u \in Seq(Steps(n)) /\ Trial(u) /\ Ended(u)
          /\ \A O : Has(u, O) <=> a.op \in O \/ Has(v, O)
      BY <2>2, <2>7, <2>8, <2>9, AheadOne
    <3> QED BY <2>7, <3>1
  <2>11. g = <<a, o>>
    BY <1>2, <2>1 DEF DeviceSteps
  <2>12. g \in Seq(Steps(n))
    BY <2>2, <2>11, PairOf
  <2>13. u = g \o w
    <3>1. PICK y, z : y = <<a>> /\ z = <<o>> /\ y \in Seq(Steps(n)) /\ z \in Seq(Steps(n))
      BY <2>2, OneOf
    <3>2. (y \o z) \o w = y \o (z \o w)
      <4>1. Groups(y, z, w)
        BY <3>1, Assoc
      <4> QED BY ONLY <4>1 DEF Groups
    <3>3. y \o z = g
      BY <2>2, <2>11, <3>1, PrefixedOne
    <3> QED BY <2>6, <2>9, <3>1, <3>2, <3>3
  <2> QED BY <2>1, <2>10, <2>12, <2>13
<1> QED BY <1>1, <1>2

GroupedLeft(a, b, c, z) == ((a \o b) \o c) \o z

GroupedMid(a, b, c, z) == (a \o (b \o c)) \o z

GroupedRight(a, b, c, z) == a \o (b \o (c \o z))

LEMMA Regrouped ==
    ASSUME NEW S, NEW a \in Seq(S), NEW b \in Seq(S), NEW c \in Seq(S), NEW z \in Seq(S)
    PROVE  /\ GroupedLeft(a, b, c, z) = GroupedRight(a, b, c, z)
           /\ GroupedMid(a, b, c, z) = GroupedRight(a, b, c, z)
<1>1. a \o b \in Seq(S) /\ c \o z \in Seq(S) /\ b \o c \in Seq(S)
  OBVIOUS
<1>2. /\ Groups(a \o b, c, z) /\ Groups(a, b, c \o z)
      /\ Groups(a, b \o c, z) /\ Groups(b, c, z)
  BY <1>1, Assoc
<1>3. ((a \o b) \o c) \o z = (a \o b) \o (c \o z) /\ (a \o b) \o (c \o z) = a \o (b \o (c \o z))
  BY ONLY <1>2 DEF Groups
<1>4. (a \o (b \o c)) \o z = a \o ((b \o c) \o z) /\ (b \o c) \o z = b \o (c \o z)
  BY ONLY <1>2 DEF Groups
<1>6. GroupedLeft(a, b, c, z) = GroupedRight(a, b, c, z)
  BY ONLY <1>3 DEF GroupedLeft, GroupedRight
<1>7. GroupedMid(a, b, c, z) = GroupedRight(a, b, c, z)
  BY ONLY <1>4 DEF GroupedMid, GroupedRight
<1> QED BY <1>6, <1>7

LEMMA CaptureCode ==
    ASSUME NEW n \in Nat, NEW d \in Datum(n), d.parts # <<>>
    PROVE  captureR(d) \in Seq(Steps(n)) /\ Trial(captureR(d)) /\ Ended(captureR(d))
<1>1. PICK x, y, w : /\ x = PlotSteps(d) \o ResultSteps /\ y = OutputSteps \o x /\ w = <<UserStep(d)>> \o y
                     /\ OutputSteps \in Seq(Steps(n)) /\ UserStep(d) \in Steps(n)
                     /\ y \in Seq(Steps(n)) /\ w \in Seq(Steps(n)) /\ Trial(w) /\ Ended(w)
                     /\ Has(w, {"user", "throw"}) /\ ~ Has(w, {"open"})
                     /\ d.at = "graphics" => Has(w, {"newplots"})
  BY UserOn
<1>2. PICK k, z : k = UserCall(d) /\ z = k \o w
  OBVIOUS
<1>3. /\ k \in Seq(Steps(n)) /\ z \in Seq(Steps(n)) /\ Trial(z) /\ Ended(z)
      /\ Has(z, {"user", "throw"}) /\ ~ Has(z, {"open"})
      /\ d.at = "graphics" => Has(z, {"newplots"})
  BY <1>1, <1>2, CallingOn
<1>4. PICK g, v : g = DeviceSteps(d) /\ v = g \o z
  OBVIOUS
<1>5. /\ g \in Seq(Steps(n)) /\ v \in Seq(Steps(n)) /\ Trial(v) /\ Ended(v) /\ Has(v, {"user", "throw"})
  BY <1>3, <1>4, DeviceOn
<1>6. PICK r, t : r = RefusedSteps(d) /\ t = r \o v
  OBVIOUS
<1>7. /\ r \in Seq(Steps(n)) /\ \A i \in 1 .. Len(r) : Neutral(r[i])
  <2>1. CASE d.at = "badenv"
    <3>1. PICK e : e = Throw("error")
      OBVIOUS
    <3>2. r = <<e>>
      BY <1>6, <2>1, <3>1 DEF RefusedSteps
    <3>3. e \in Steps(n) /\ Neutral(e)
      BY <3>1, LocalsAre, SomeSteps, StepSets, NeutralSteps
    <3> QED BY <3>2, <3>3
  <2>2. CASE d.at # "badenv"
    BY <1>6, <2>2 DEF RefusedSteps
  <2> QED BY <2>1, <2>2
<1>8. t \in Seq(Steps(n)) /\ Trial(t) /\ Ended(t) /\ Has(t, {"user", "throw"})
  BY <1>5, <1>6, <1>7, Ahead
<1>9. PICK a, b, c, o : a = New("dev", D("REnvironment", <<>>, TRUE)) /\ b = ProtectInc("dev") /\ c = Do("quiet")
                        /\ o = OpeningSteps
  OBVIOUS
<1>10. a \in Steps(n) /\ b \in Steps(n) /\ c \in Steps(n)
  <2>1. PICK p : p = <<>> /\ p \in Seq(Flat(n))
    <3>1. <<>> \in Seq(Flat(n))
      OBVIOUS
    <3> QED BY <3>1
  <2>2. D("REnvironment", p, TRUE) \in Datum(n)
    BY <2>1, DataKinds
  <2>3. a \in Simple(n) /\ b \in Simple(n)
    BY <1>9, <2>1, <2>2, LocalsAre, SomeSteps
  <2>4. c \in Special(n)
    BY <1>9, MoreSteps
  <2> QED BY <2>3, <2>4, StepSets
<1>11. a.op = "new" /\ Neutral(b) /\ Neutral(c)
  <2>1. a.op = "new"
    BY <1>9 DEF New
  <2> QED BY <1>9, <2>1, NeutralSteps
<1>12. o \in Seq(Steps(n)) /\ Len(o) = 3 /\ \A i \in 1 .. 3 : o[i] \in {a, b, c}
  BY <1>9, <1>10, TripleOf DEF OpeningSteps
<1>13. o \o t \in Seq(Steps(n)) /\ Trial(o \o t) /\ Ended(o \o t)
  <2>1. \A i \in 1 .. Len(o) : Neutral(o[i]) \/ (o[i].op \in {"new", "method"} /\ Has(t, {"user", "throw"}))
    BY <1>8, <1>11, <1>12
  <2> QED BY <1>8, <1>12, <2>1, Ahead
<1>14. PICK u, q, p, l : u = <<UserStep(d)>> /\ q = OutputSteps /\ p = PlotSteps(d) /\ l = ResultSteps
  OBVIOUS
<1>15. u \in Seq(Steps(n)) /\ q \in Seq(Steps(n)) /\ p \in Seq(Steps(n)) /\ l \in Seq(Steps(n))
  <2>1. u \in Seq(Steps(n))
    BY <1>1, <1>14, OneOf
  <2>2. q \in Seq(Steps(n))
    BY <1>1, <1>14
  <2>3. p \in Seq(Steps(n))
    BY <1>14, PlotsAre
  <2>4. l \in Seq(Steps(n))
    BY <1>14, ResultsAre
  <2> QED BY <2>1, <2>2, <2>3, <2>4
<1>16. ((((o \o r) \o g) \o (k \o (u \o q))) \o p) \o l = o \o t
  <2>1. PICK m, e, x2 : m = (o \o r) \o g /\ e = k \o (u \o q) /\ x2 = p \o l
    OBVIOUS
  <2>2. x2 = x /\ x2 \in Seq(Steps(n))
    BY <1>1, <1>14, <1>15, <2>1, JoinHas
  <2>3. o \o r \in Seq(Steps(n)) /\ u \o q \in Seq(Steps(n))
    BY <1>7, <1>12, <1>15, JoinHas
  <2>4. m \in Seq(Steps(n)) /\ e \in Seq(Steps(n))
    BY <1>3, <1>5, <2>1, <2>3, JoinHas
  <2>5. GroupedLeft(m, e, p, l) = GroupedRight(m, e, p, l)
    BY <1>15, <2>4, Regrouped
  <2>6. GroupedMid(k, u, q, x2) = GroupedRight(k, u, q, x2)
    BY <1>3, <1>15, <2>2, Regrouped
  <2>7. GroupedLeft(o, r, g, z) = GroupedRight(o, r, g, z)
    BY <1>3, <1>5, <1>7, <1>12, Regrouped
  <2>8. ((m \o e) \o p) \o l = m \o (e \o x2)
    BY <2>1, <2>5 DEF GroupedLeft, GroupedRight
  <2>9. e \o x2 = k \o (u \o (q \o x2))
    BY <2>1, <2>6 DEF GroupedMid, GroupedRight
  <2>10. m \o z = o \o (r \o (g \o z))
    BY <2>1, <2>7 DEF GroupedLeft, GroupedRight
  <2>11. k \o (u \o (q \o x2)) = z
    BY <1>1, <1>2, <1>14, <2>2
  <2> QED BY <1>4, <1>6, <2>1, <2>8, <2>9, <2>10, <2>11
<1>17. captureR(d) = ((((o \o r) \o g) \o (k \o (u \o q))) \o p) \o l
  <2>1. PICK s : s = <<New("v1", d.parts[1]), ProtectInc("v1"), Alloc("arg", <<"v1">>),
                       Alloc("call", <<"arg">>), ProtectInc("call"), UserStep(d), ProtectInc("ptr"),
                       Call("output", "slice", "ptr", Sure(2))>>
    OBVIOUS
  <2>2. s = k \o (u \o q)
    BY <1>2, <1>14, <2>1, EightSteps DEF UserCall, OutputSteps
  <2> QED BY <1>4, <1>6, <1>9, <1>14, <2>1, <2>2
      DEF captureR, OpeningSteps, RefusedSteps, DeviceSteps, PlotSteps, ResultSteps, UserStep
<1> QED BY <1>13, <1>16, <1>17

(* The exception that takes the place of what is left of captureR().       *)
LEMMA TrialThrown ==
    ASSUME NEW S, NEW c \in Seq(S), c # <<>>, c[Len(c)].op = "throw",
           \A i \in 1 .. Len(c) - 1 : c[i].op = "method"
    PROVE  Trial(c) /\ Ended(c) /\ Has(c, {"newplots", "throw"}) /\ ~ Has(c, {"open", "newplots"})
<1>1. Len(c) \in Nat /\ Len(c) >= 1
  OBVIOUS
<1>2. ASSUME NEW i \in 1 .. Len(c) PROVE Fit(c[i], After(c, i))
  <2>1. CASE i = Len(c)
    <3>1. Neutral(c[i])
      BY <2>1 DEF Neutral
    <3> QED BY <3>1, NeutralFits
  <2>2. CASE i # Len(c)
    <3>1. c[i].op = "method"
      BY <1>1, <2>2
    <3>2. PICK k : k = Len(c) - i
      OBVIOUS
    <3>3. k \in 1 .. Len(c) - i /\ k + i = Len(c) /\ i \in 0 .. Len(c)
      BY <1>1, <2>2, <3>2
    <3>4. Len(After(c, i)) = Len(c) - i /\ After(c, i)[k] = c[k + i]
      BY <3>3, AfterIs
    <3>5. Has(After(c, i), {"user", "throw"})
      BY <3>3, <3>4 DEF Has
    <3> QED BY <3>1, <3>5, NeutralFits
  <2> QED BY <2>1, <2>2
<1>3. Ended(c)
  BY DEF Ended
<1>4. Has(c, {"newplots", "throw"})
  BY <1>1 DEF Has
<1>5. ~ Has(c, {"open", "newplots"})
  <2>1. \A i \in 1 .. Len(c) : i \in 1 .. Len(c) - 1 \/ i = Len(c)
    BY <1>1
  <2> QED BY <2>1 DEF Has
<1> QED BY <1>2, <1>3, <1>4, <1>5 DEF Trial

LEMMA EightOf ==
    ASSUME NEW S, NEW a \in S, NEW b \in S, NEW c \in S, NEW d \in S, NEW e \in S, NEW f \in S,
           NEW g \in S, NEW h \in S, NEW s, s = <<a, b, c, d, e, f, g, h>>
    PROVE  s \in Seq(S) /\ Len(s) = 8 /\ s # <<>> /\ s[8] = h
           /\ \A i \in 1 .. 7 : s[i] \in {a, b, c, d, e, f, g}
<1>1. s \in Seq(S) /\ Len(s) = 8 /\ s # <<>> /\ s[8] = h
  OBVIOUS
<1>2. s[1] = a /\ s[2] = b /\ s[3] = c /\ s[4] = d /\ s[5] = e /\ s[6] = f /\ s[7] = g
  OBVIOUS
<1>3. \A i \in 1 .. 7 : i = 1 \/ i = 2 \/ i = 3 \/ i = 4 \/ i = 5 \/ i = 6 \/ i = 7
  OBVIOUS
<1> QED BY <1>1, <1>2, <1>3

LEMMA RaiseCode ==
    ASSUME NEW n \in Nat
    PROVE  /\ RaiseError \in Seq(Steps(n)) /\ Trial(RaiseError) /\ Ended(RaiseError)
           /\ Has(RaiseError, {"newplots", "throw"}) /\ ~ Has(RaiseError, {"open", "newplots"})
<1>1. PICK a, b, c, d, e, f, g, h :
         /\ a = Call("v1", "slice", "output", Sure(1)) /\ b = Call("v2", "slice", "v1", Sure(1))
         /\ c = Call("v2", "toString", "v2", Atom) /\ d = Call("v2", "pluck", "v1", Path(2, 2))
         /\ e = Call("v2", "deparse", "v2", Atom) /\ f = Call("v2", "pluck", "v1", Path(2, 1))
         /\ g = Call("v2", "toString", "v2", Atom) /\ h = Throw("error")
  OBVIOUS
<1>2. a \in Simple(n) /\ b \in Simple(n)
  BY <1>1, LocalsAre, Calling
<1>3. d \in Simple(n) /\ f \in Simple(n)
  BY <1>1, LocalsAre, Calling
<1>4. c \in Simple(n) /\ e \in Simple(n) /\ g \in Simple(n)
  BY <1>1, LocalsAre, Calling
<1>5. h \in Simple(n)
  BY <1>1, LocalsAre, SomeSteps
<1>6. /\ a \in Steps(n) /\ b \in Steps(n) /\ c \in Steps(n) /\ d \in Steps(n)
      /\ e \in Steps(n) /\ f \in Steps(n) /\ g \in Steps(n) /\ h \in Steps(n)
  BY <1>2, <1>3, <1>4, <1>5, StepSets
<1>7. a.op = "method" /\ b.op = "method" /\ c.op = "method" /\ d.op = "method"
  BY <1>1, CallIs
<1>8. e.op = "method" /\ f.op = "method" /\ g.op = "method"
  BY <1>1, CallIs
<1>9. h.op = "throw"
  BY <1>1 DEF Throw
<1>10. PICK s : s = <<a, b, c, d, e, f, g, h>>
  OBVIOUS
<1>11. s \in Seq(Steps(n)) /\ Len(s) = 8 /\ s # <<>> /\ s[8] = h
       /\ \A i \in 1 .. 7 : s[i] \in {a, b, c, d, e, f, g}
  BY <1>6, <1>10, EightOf
<1>12. \A i \in 1 .. Len(s) - 1 : s[i].op = "method"
  BY <1>7, <1>8, <1>11
<1>13. s[Len(s)].op = "throw"
  BY <1>9, <1>11
<1>14. Trial(s) /\ Ended(s) /\ Has(s, {"newplots", "throw"}) /\ ~ Has(s, {"open", "newplots"})
  BY <1>11, <1>12, <1>13, TrialThrown
<1>15. s = RaiseError
  BY <1>1, <1>10 DEF RaiseError
<1> QED BY <1>11, <1>14, <1>15

PlainOps == {"alloc", "attach", "link", "field", "use", "protect", "protectInc", "reprotect", "keep",
             "return", "try", "eval", "new", "method", "answer", "convert", "throw", "ifany"}

SpecialOps == {"quiet", "open", "newplots", "restore", "close", "destroy", "unprotect", "user"}

(* What a step has, by its operation.                                      *)
Fields(s, n) ==
    /\ s.op = "alloc" => s.to \in Local /\ s.of \in Seq(Local)
    /\ s.op \in {"attach", "link"} => s.to \in Local /\ s.of \in Local
    /\ s.op = "field" => s.to \in Local /\ s.of \in Local /\ s.at \in Nat
    /\ s.op \in {"use", "protect", "protectInc", "reprotect", "keep", "return"} => s.of \in Local
    /\ s.op = "try" => s.count \in Nat
    /\ s.op = "eval" => s.to \in Local /\ s.of \in Local /\ s.at \in Nat /\ s.sure \in BOOLEAN
    /\ s.op = "new" => s.to \in Local /\ s.data \in Datum(n)
    /\ s.op = "method" => /\ s.to \in Local /\ s.of \in Local /\ s.data \in Datum(n)
                          /\ s.fn \in MethodKind
                          /\ s.fn \in Parted => s.data.parts # <<>>
    /\ s.op = "answer" => s.of \in Seq(Local)
    /\ s.op = "throw" => s.what \in {"error", "unwind"}
    /\ s.op = "ifany" => s.of \in Local /\ s.then \in Seq(Plain(n))
    /\ s.op = "user" => s.data \in Datum(n)

LEMMA SimpleIs ==
    ASSUME NEW n \in Nat, NEW s \in Simple(n)
    PROVE  Fields(s, n) /\ s.op \in PlainOps
<1>1. CASE s \in [op : {"alloc"}, to : Local, of : Seq(Local)]
  <2>1. s.op = "alloc" /\ s.to \in Local /\ s.of \in Seq(Local)
    BY <1>1
  <2> QED BY <2>1 DEF Fields, PlainOps
<1>2. CASE s \in [op : {"attach", "link"}, to : Local, of : Local]
  <2>1. s.op \in {"attach", "link"} /\ s.to \in Local /\ s.of \in Local
    BY <1>2
  <2> QED BY <2>1 DEF Fields, PlainOps
<1>3. CASE s \in [op : {"field"}, to : Local, of : Local, at : Nat]
  <2>1. s.op = "field" /\ s.to \in Local /\ s.of \in Local /\ s.at \in Nat
    BY <1>3
  <2> QED BY <2>1 DEF Fields, PlainOps
<1>4. CASE s \in [op : {"use", "protect", "protectInc", "reprotect", "keep", "return"}, of : Local]
  <2>1. s.op \in {"use", "protect", "protectInc", "reprotect", "keep", "return"} /\ s.of \in Local
    BY <1>4
  <2> QED BY <2>1 DEF Fields, PlainOps
<1>5. CASE s \in [op : {"eval"}, to : Local, of : Local, at : Nat, sure : BOOLEAN]
  <2>1. s.op = "eval" /\ s.to \in Local /\ s.of \in Local /\ s.at \in Nat /\ s.sure \in BOOLEAN
    BY <1>5
  <2> QED BY <2>1 DEF Fields, PlainOps
<1>6. CASE s \in [op : {"new"}, to : Local, data : Datum(n)]
  <2>1. s.op = "new" /\ s.to \in Local /\ s.data \in Datum(n)
    BY <1>6
  <2> QED BY <2>1 DEF Fields, PlainOps
<1>7. CASE s \in MethodCalls(n)
  <2>1. /\ s.op = "method" /\ s.to \in Local /\ s.of \in Local /\ s.data \in Datum(n) /\ s.fn \in MethodKind
        /\ s.fn \in Parted => s.data.parts # <<>>
    BY <1>7 DEF MethodCalls
  <2> QED BY <2>1 DEF Fields, PlainOps
<1>8. CASE s \in [op : {"answer"}, of : Seq(Local)]
  <2>1. s.op = "answer" /\ s.of \in Seq(Local)
    BY <1>8
  <2> QED BY <2>1 DEF Fields, PlainOps
<1>9. CASE s \in [op : {"convert"}]
  <2>1. s.op = "convert"
    BY <1>9
  <2> QED BY <2>1 DEF Fields, PlainOps
<1>10. CASE s \in [op : {"throw"}, what : {"error", "unwind"}]
  <2>1. s.op = "throw" /\ s.what \in {"error", "unwind"}
    BY <1>10
  <2> QED BY <2>1 DEF Fields, PlainOps
<1>11. CASE s \in [op : {"try"}, count : Nat]
  <2>1. s.op = "try" /\ s.count \in Nat
    BY <1>11
  <2> QED BY <2>1 DEF Fields, PlainOps
<1> QED BY <1>11, <1>1, <1>2, <1>3, <1>4, <1>5, <1>6, <1>7, <1>8, <1>9, <1>10 DEF Simple

LEMMA PlainIs ==
    ASSUME NEW n \in Nat, NEW s \in Plain(n)
    PROVE  Fields(s, n) /\ s.op \in PlainOps
<1>1. CASE s \in Simple(n)
  BY <1>1, SimpleIs
<1>2. CASE s \in [op : {"ifany"}, of : Local, then : Seq(Inner(n))]
  <2>1. s.op = "ifany" /\ s.of \in Local /\ s.then \in Seq(Inner(n))
    BY <1>2
  <2>2. s.then \in Seq(Plain(n))
    BY <2>1, StepSets
  <2> QED BY <2>1, <2>2 DEF Fields, PlainOps
<1> QED BY <1>1, <1>2 DEF Plain

LEMMA StepIs ==
    ASSUME NEW n \in Nat, NEW s \in Steps(n)
    PROVE  Fields(s, n) /\ s.op \in PlainOps \cup SpecialOps
<1>1. CASE s \in Plain(n)
  BY <1>1, PlainIs
<1>2. CASE s \in [op : {"quiet", "open", "newplots", "restore", "close", "destroy", "unprotect"}]
  <2>1. s.op \in {"quiet", "open", "newplots", "restore", "close", "destroy", "unprotect"}
    BY <1>2
  <2> QED BY <2>1 DEF Fields, SpecialOps
<1>3. CASE s \in [op : {"user"}, to : {"ptr"}, data : Datum(n)]
  <2>1. s.op = "user" /\ s.data \in Datum(n)
    BY <1>3
  <2> QED BY <2>1 DEF Fields, SpecialOps
<1> QED BY <1>1, <1>2, <1>3 DEF Steps, Special

(* What goes with n objects goes with more.                                *)
LEMMA DatumWidens ==
    ASSUME NEW n \in Nat, NEW m \in Nat, n <= m
    PROVE  Datum(n) \subseteq Datum(m)
<1>1. \A d : Fits(d, n) /\ d.obj \in Nat => Fits(d, m)
  BY DEF Fits
<1>2. Leaf(n) \subseteq Leaf(m)
  <2> SUFFICES ASSUME NEW d \in Leaf(n) PROVE d \in Leaf(m)
    OBVIOUS
  <2>1. d \in [is : DatumKind, parts : {<<>>}, named : BOOLEAN, at : DatumMark, obj : Nat] /\ Fits(d, n)
    BY DEF Leaf
  <2>2. d.obj \in Nat
    BY <2>1
  <2> QED BY <1>1, <2>1, <2>2 DEF Leaf
<1>3. Flat(n) \subseteq Flat(m)
  <2> SUFFICES ASSUME NEW d \in Flat(n) PROVE d \in Flat(m)
    OBVIOUS
  <2>1. PICK S, T : S = Seq(Leaf(n)) /\ T = Seq(Leaf(m)) /\ S \subseteq T
    BY <1>2, SeqWidens
  <2>2. d \in [is : DatumKind, parts : S, named : BOOLEAN, at : DatumMark, obj : Nat] /\ Fits(d, n)
    BY <2>1 DEF Flat
  <2>3. d \in [is : DatumKind, parts : T, named : BOOLEAN, at : DatumMark, obj : Nat] /\ d.obj \in Nat
    BY <2>1, <2>2
  <2> QED BY <1>1, <2>1, <2>2, <2>3 DEF Flat
<1>4. Datum(n) \subseteq Datum(m)
  <2> SUFFICES ASSUME NEW d \in Datum(n) PROVE d \in Datum(m)
    OBVIOUS
  <2>1. PICK S, T : S = Seq(Flat(n)) /\ T = Seq(Flat(m)) /\ S \subseteq T
    BY <1>3, SeqWidens
  <2>2. d \in [is : DatumKind, parts : S, named : BOOLEAN, at : DatumMark, obj : Nat] /\ Fits(d, n)
    BY <2>1 DEF Datum
  <2>3. d \in [is : DatumKind, parts : T, named : BOOLEAN, at : DatumMark, obj : Nat] /\ d.obj \in Nat
    BY <2>1, <2>2
  <2> QED BY <1>1, <2>1, <2>2, <2>3 DEF Datum
<1> QED BY <1>4

LEMMA StepsWiden ==
    ASSUME NEW n \in Nat, NEW m \in Nat, n <= m
    PROVE  /\ Plain(n) \subseteq Plain(m) /\ Steps(n) \subseteq Steps(m)
           /\ Seq(Plain(n)) \subseteq Seq(Plain(m)) /\ Seq(Steps(n)) \subseteq Seq(Steps(m))
<1>1. PICK S, T : S = Datum(n) /\ T = Datum(m) /\ S \subseteq T
  BY DatumWidens
<1>2. MethodCalls(n) \subseteq MethodCalls(m)
  <2> SUFFICES ASSUME NEW s \in MethodCalls(n) PROVE s \in MethodCalls(m)
    OBVIOUS
  <2>1. /\ s \in [op : {"method"}, to : Local, fn : MethodKind, of : Local, data : S]
        /\ s.fn \in Parted => s.data.parts # <<>>
    BY <1>1 DEF MethodCalls
  <2>2. s \in [op : {"method"}, to : Local, fn : MethodKind, of : Local, data : T]
    BY <1>1, <2>1
  <2> QED BY <1>1, <2>1, <2>2 DEF MethodCalls
<1>3. [op : {"new"}, to : Local, data : S] \subseteq [op : {"new"}, to : Local, data : T]
  BY <1>1
<1>4. Simple(n) \subseteq Simple(m)
  BY <1>1, <1>2, <1>3, Zenon DEF Simple
<1>5. Inner(n) \subseteq Inner(m)
  <2>1. PICK P, Q : P = Seq(Simple(n)) /\ Q = Seq(Simple(m)) /\ P \subseteq Q
    BY <1>4, SeqWidens
  <2>2. [op : {"ifany"}, of : Local, then : P] \subseteq [op : {"ifany"}, of : Local, then : Q]
    BY <2>1
  <2> QED BY <1>4, <2>1, <2>2, Zenon DEF Inner
<1>6. Plain(n) \subseteq Plain(m)
  <2>1. PICK P, Q : P = Seq(Inner(n)) /\ Q = Seq(Inner(m)) /\ P \subseteq Q
    BY <1>5, SeqWidens
  <2>2. [op : {"ifany"}, of : Local, then : P] \subseteq [op : {"ifany"}, of : Local, then : Q]
    BY <2>1
  <2> QED BY <1>4, <2>1, <2>2, Zenon DEF Plain
<1>7. Steps(n) \subseteq Steps(m)
  <2>1. [op : {"user"}, to : {"ptr"}, data : S] \subseteq [op : {"user"}, to : {"ptr"}, data : T]
    BY <1>1
  <2> QED BY <1>1, <1>6, <2>1, Zenon DEF Steps, Special
<1> QED BY <1>6, <1>7, SeqWidens

LEMMA PlainHas ==
    ASSUME NEW n \in Nat, NEW c \in Seq(Plain(n))
    PROVE  ~ Has(c, SpecialOps)
<1>1. \A i \in 1 .. Len(c) : c[i].op \in PlainOps
  BY PlainIs
<1> QED BY <1>1 DEF Has, PlainOps, SpecialOps

(* captureR() in its `finally', which returns or throws.                   *)
Devoff == Call("v2", "slice", "dev", Sure(9))

Closing(c) ==
    \E z \in {Return(x) : x \in Local} \cup {Throw("error"), Throw("unwind")} :
        \/ c = <<Do("restore"), Devoff, Do("close"), Do("destroy"), Do("unprotect"), z>>
        \/ c = <<Devoff, Do("close"), Do("destroy"), Do("unprotect"), z>>
        \/ c = <<Do("close"), Do("destroy"), Do("unprotect"), z>>
        \/ c = <<Do("destroy"), Do("unprotect"), z>>
        \/ c = <<Do("unprotect"), z>>
        \/ c = <<z>>

LEMMA TailOf ==
    ASSUME NEW S, NEW a \in S, NEW b \in S, NEW c \in S, NEW d \in S, NEW e \in S, NEW z \in S
    PROVE  /\ Tail(<<a, b, c, d, e, z>>) = <<b, c, d, e, z>>
           /\ Tail(<<b, c, d, e, z>>) = <<c, d, e, z>>
           /\ Tail(<<c, d, e, z>>) = <<d, e, z>>
           /\ Tail(<<d, e, z>>) = <<e, z>> /\ Tail(<<e, z>>) = <<z>>
<1>1. Tail(<<a, b, c, d, e, z>>) = <<b, c, d, e, z>>
  OBVIOUS
<1>2. Tail(<<b, c, d, e, z>>) = <<c, d, e, z>>
  OBVIOUS
<1>3. Tail(<<c, d, e, z>>) = <<d, e, z>>
  OBVIOUS
<1>4. Tail(<<d, e, z>>) = <<e, z>>
  OBVIOUS
<1>5. Tail(<<e, z>>) = <<z>>
  OBVIOUS
<1> QED BY <1>1, <1>2, <1>3, <1>4, <1>5

LEMMA ClosingSteps ==
    ASSUME NEW n \in Nat
    PROVE  /\ Do("restore") \in Steps(n) /\ Devoff \in Steps(n) /\ Do("close") \in Steps(n)
           /\ Do("destroy") \in Steps(n) /\ Do("unprotect") \in Steps(n)
           /\ \A z \in {Return(x) : x \in Local} \cup {Throw("error"), Throw("unwind")} :
                 z \in Steps(n) /\ z.op \in {"return", "throw"}
           /\ Do("restore").op = "restore" /\ Devoff.op = "method" /\ Do("close").op = "close"
           /\ Do("destroy").op = "destroy" /\ Do("unprotect").op = "unprotect" /\ CalmStep(Devoff)
<1>1. /\ Do("restore") \in Steps(n) /\ Do("close") \in Steps(n) /\ Do("destroy") \in Steps(n)
      /\ Do("unprotect") \in Steps(n)
  BY MoreSteps, StepSets
<1>2. Devoff \in Steps(n)
  BY LocalsAre, Calling, StepSets DEF Devoff
<1>3. /\ Do("restore").op = "restore" /\ Do("close").op = "close" /\ Do("destroy").op = "destroy"
      /\ Do("unprotect").op = "unprotect"
  BY DEF Do
<1>4. Devoff.op = "method" /\ CalmStep(Devoff)
  BY CallIs, CalmCalls DEF Devoff
<1>5. ASSUME NEW x \in Local PROVE Return(x) \in Steps(n) /\ Return(x).op = "return"
  BY Returning, StepSets
<1>6. /\ Throw("error") \in Steps(n) /\ Throw("unwind") \in Steps(n)
  BY LocalsAre, SomeSteps, StepSets
<1>7. Throw("error").op = "throw" /\ Throw("unwind").op = "throw"
  BY DEF Throw
<1> QED BY <1>1, <1>2, <1>3, <1>4, <1>5, <1>6, <1>7

LEMMA Without ==
    ASSUME NEW S, NEW q \in Seq(S), NEW O,
           \/ Len(q) = 1 /\ q[1].op \notin O
           \/ Len(q) = 2 /\ q[1].op \notin O /\ q[2].op \notin O
           \/ Len(q) = 3 /\ q[1].op \notin O /\ q[2].op \notin O /\ q[3].op \notin O
           \/ Len(q) = 4 /\ q[1].op \notin O /\ q[2].op \notin O /\ q[3].op \notin O /\ q[4].op \notin O
           \/ Len(q) = 5 /\ q[1].op \notin O /\ q[2].op \notin O /\ q[3].op \notin O /\ q[4].op \notin O
              /\ q[5].op \notin O
           \/ Len(q) = 6 /\ q[1].op \notin O /\ q[2].op \notin O /\ q[3].op \notin O /\ q[4].op \notin O
              /\ q[5].op \notin O /\ q[6].op \notin O
    PROVE  ~ Has(q, O)
<1> SUFFICES ASSUME NEW i \in DOMAIN q PROVE q[i].op \notin O
  BY DEF Has
<1>1. i \in 1 .. Len(q)
  OBVIOUS
<1>2. i = 1 \/ i = 2 \/ i = 3 \/ i = 4 \/ i = 5 \/ i = 6
  BY <1>1
<1>3. i <= Len(q)
  BY <1>1
<1> QED BY <1>2, <1>3

LEMMA ClosingIs ==
    ASSUME NEW n \in Nat, NEW c, Closing(c)
    PROVE  /\ c \in Seq(Steps(n)) /\ c # <<>> /\ Ended(c)
           /\ \/ Head(c).op \in {"restore", "close", "destroy", "unprotect", "return", "throw"}
              \/ Head(c) = Devoff
           /\ Head(c).op \in {"unprotect", "return", "throw"} => ~ Has(c, {"restore", "close", "destroy"})
           /\ Head(c).op \notin {"return", "throw"} => Closing(Tail(c))
           /\ Head(c).op = "close" => ~ Has(Tail(c), {"close"})
           /\ ~ Has(c, {"newplots", "open", "user", "answer", "ifany"})
<1>0. PICK a, b, d, e, u : /\ a = Do("restore") /\ b = Devoff /\ d = Do("close") /\ e = Do("destroy")
                           /\ u = Do("unprotect")
  OBVIOUS
<1>1. PICK z \in {Return(x) : x \in Local} \cup {Throw("error"), Throw("unwind")} :
        \/ c = <<a, b, d, e, u, z>> \/ c = <<b, d, e, u, z>> \/ c = <<d, e, u, z>> \/ c = <<e, u, z>>
        \/ c = <<u, z>> \/ c = <<z>>
  BY <1>0 DEF Closing
<1>2. /\ a \in Steps(n) /\ b \in Steps(n) /\ d \in Steps(n) /\ e \in Steps(n) /\ u \in Steps(n)
      /\ z \in Steps(n)
      /\ a.op = "restore" /\ b.op = "method" /\ d.op = "close" /\ e.op = "destroy" /\ u.op = "unprotect"
      /\ z.op \in {"return", "throw"}
  BY <1>0, ClosingSteps
<1>3. /\ Closing(<<b, d, e, u, z>>) /\ Closing(<<d, e, u, z>>) /\ Closing(<<e, u, z>>)
      /\ Closing(<<u, z>>) /\ Closing(<<z>>)
  BY <1>0 DEF Closing
<1>4. PICK S : S = Steps(n)
  OBVIOUS
<1>5. a \in S /\ b \in S /\ d \in S /\ e \in S /\ u \in S /\ z \in S
  BY <1>2, <1>4
<1>6. CASE c = <<a, b, d, e, u, z>>
  <2>1. /\ c \in Seq(S) /\ c # <<>> /\ Head(c) = a /\ Len(c) = 6
        /\ c[1] = a /\ c[2] = b /\ c[3] = d /\ c[4] = e /\ c[5] = u /\ c[6] = z
    BY <1>5, <1>6
  <2>2. Tail(c) = <<b, d, e, u, z>>
    BY <1>5, <1>6, TailOf
  <2>3. Ended(c)
    BY <1>2, <2>1 DEF Ended
  <2>4. ~ Has(c, {"newplots", "open", "user", "answer", "ifany"})
    BY <1>2, <2>1, Without
  <2> QED BY <1>0, <1>2, <1>3, <1>4, <2>1, <2>2, <2>3, <2>4
<1>7. CASE c = <<b, d, e, u, z>>
  <2>1. /\ c \in Seq(S) /\ c # <<>> /\ Head(c) = b /\ Len(c) = 5
        /\ c[1] = b /\ c[2] = d /\ c[3] = e /\ c[4] = u /\ c[5] = z
    BY <1>5, <1>7
  <2>2. Tail(c) = <<d, e, u, z>>
    BY <1>5, <1>7, TailOf
  <2>3. Ended(c)
    BY <1>2, <2>1 DEF Ended
  <2>4. ~ Has(c, {"newplots", "open", "user", "answer", "ifany"})
    BY <1>2, <2>1, Without
  <2> QED BY <1>0, <1>2, <1>3, <1>4, <2>1, <2>2, <2>3, <2>4
<1>8. CASE c = <<d, e, u, z>>
  <2>1. /\ c \in Seq(S) /\ c # <<>> /\ Head(c) = d /\ Len(c) = 4
        /\ c[1] = d /\ c[2] = e /\ c[3] = u /\ c[4] = z
    BY <1>5, <1>8
  <2>2. Tail(c) = <<e, u, z>>
    BY <1>5, <1>8, TailOf
  <2>3. Ended(c)
    BY <1>2, <2>1 DEF Ended
  <2>4. ~ Has(c, {"newplots", "open", "user", "answer", "ifany"})
    BY <1>2, <2>1, Without
  <2>6. PICK q : q = <<e, u, z>>
    OBVIOUS
  <2>7. q \in Seq(S) /\ Len(q) = 3 /\ q[1] = e /\ q[2] = u /\ q[3] = z
    BY <1>5, <2>6
  <2>8. ~ Has(q, {"close"})
    BY <1>2, <2>7, Without
  <2>5. ~ Has(Tail(c), {"close"})
    BY <2>2, <2>6, <2>8
  <2> QED BY <1>0, <1>2, <1>3, <1>4, <2>1, <2>2, <2>3, <2>4, <2>5
<1>9. CASE c = <<e, u, z>>
  <2>1. /\ c \in Seq(S) /\ c # <<>> /\ Head(c) = e /\ Len(c) = 3
        /\ c[1] = e /\ c[2] = u /\ c[3] = z
    BY <1>5, <1>9
  <2>2. Tail(c) = <<u, z>>
    BY <1>5, <1>9, TailOf
  <2>3. Ended(c)
    BY <1>2, <2>1 DEF Ended
  <2>4. ~ Has(c, {"newplots", "open", "user", "answer", "ifany"})
    BY <1>2, <2>1, Without
  <2> QED BY <1>0, <1>2, <1>3, <1>4, <2>1, <2>2, <2>3, <2>4
<1>10. CASE c = <<u, z>>
  <2>1. /\ c \in Seq(S) /\ c # <<>> /\ Head(c) = u /\ Len(c) = 2
        /\ c[1] = u /\ c[2] = z
    BY <1>5, <1>10
  <2>2. Tail(c) = <<z>>
    BY <1>5, <1>10, TailOf
  <2>3. Ended(c)
    BY <1>2, <2>1 DEF Ended
  <2>4. ~ Has(c, {"newplots", "open", "user", "answer", "ifany"})
    BY <1>2, <2>1, Without
  <2>5. ~ Has(c, {"restore", "close", "destroy"})
    BY <1>2, <2>1, Without
  <2> QED BY <1>0, <1>2, <1>3, <1>4, <2>1, <2>2, <2>3, <2>4, <2>5
<1>11. CASE c = <<z>>
  <2>1. /\ c \in Seq(S) /\ c # <<>> /\ Head(c) = z /\ Len(c) = 1
        /\ c[1] = z
    BY <1>5, <1>11
  <2>3. Ended(c)
    BY <1>2, <2>1 DEF Ended
  <2>4. ~ Has(c, {"newplots", "open", "user", "answer", "ifany"})
    BY <1>2, <2>1, Without
  <2>5. ~ Has(c, {"restore", "close", "destroy"})
    BY <1>2, <2>1, Without
  <2> QED BY <1>0, <1>2, <1>3, <1>4, <2>1, <2>3, <2>4, <2>5
<1> QED BY <1>1, <1>6, <1>7, <1>8, <1>9, <1>10, <1>11

LEMMA AppendIs ==
    ASSUME NEW S, NEW q \in Seq(S), NEW z \in S
    PROVE  /\ Append(q, z) \in Seq(S) /\ Len(Append(q, z)) = Len(q) + 1
           /\ Append(q, z)[Len(q) + 1] = z /\ \A i \in 1 .. Len(q) : Append(q, z)[i] = q[i]
           /\ Append(q, z) = q \o <<z>>
<1>1. /\ Append(q, z) \in Seq(S) /\ Len(Append(q, z)) = Len(q) + 1
      /\ Append(q, z)[Len(q) + 1] = z /\ \A i \in 1 .. Len(q) : Append(q, z)[i] = q[i]
  OBVIOUS
<1>2. Append(q, z) = q \o <<z>>
  OBVIOUS
<1> QED BY <1>1, <1>2

LEMMA AppendFive ==
    ASSUME NEW S, NEW a \in S, NEW b \in S, NEW d \in S, NEW e \in S, NEW u \in S, NEW z \in S
    PROVE  Append(<<a, b, d, e, u>>, z) = <<a, b, d, e, u, z>>
<1>3. PICK q, r : q = <<a, b, d, e, u>> /\ r = <<a, b, d, e, u, z>>
  OBVIOUS
<1>4. q \in Seq(S) /\ Len(q) = 5 /\ q[1] = a /\ q[2] = b /\ q[3] = d /\ q[4] = e /\ q[5] = u
  BY <1>3
<1>5. /\ r \in Seq(S) /\ Len(r) = 6 /\ r[1] = a /\ r[2] = b /\ r[3] = d /\ r[4] = e /\ r[5] = u
      /\ r[6] = z
  BY <1>3
<1>6. PICK t : t = Append(q, z)
  OBVIOUS
<1>7. t \in Seq(S) /\ Len(t) = 5 + 1 /\ t[5 + 1] = z /\ \A i \in 1 .. 5 : t[i] = q[i]
  <2>1. q \in Seq(S)
    BY <1>4
  <2>2. /\ t \in Seq(S) /\ Len(t) = Len(q) + 1
        /\ t[Len(q) + 1] = z /\ \A i \in 1 .. Len(q) : t[i] = q[i]
    BY <1>6, <2>1, AppendIs
  <2>3. Len(q) = 5
    BY <1>4
  <2> QED BY <2>2, <2>3
<1>8. \A i \in 1 .. 6 : i \in 1 .. 5 \/ i = 6
  OBVIOUS
<1>9. \A i \in 1 .. 5 : i = 1 \/ i = 2 \/ i = 3 \/ i = 4 \/ i = 5
  OBVIOUS
<1>10. \A i \in 1 .. 6 : t[i] = r[i]
  BY <1>4, <1>5, <1>7, <1>8, <1>9
<1>11. t = r
  BY <1>5, <1>7, <1>10, SeqsEqual
<1> QED BY <1>3, <1>6, <1>11

(* The function is about to run its `finally'.                             *)
LEMMA FinallyRuns ==
    ASSUME NEW z \in {Return(x) : x \in Local} \cup {Throw("error"), Throw("unwind")}, NEW n \in Nat
    PROVE  /\ CaptureFinally \o <<z>>
                = <<Do("restore"), Devoff, Do("close"), Do("destroy"), Do("unprotect"), z>>
           /\ Append(CaptureFinally, z) = CaptureFinally \o <<z>>
           /\ Closing(CaptureFinally \o <<z>>)
           /\ Has(CaptureFinally \o <<z>>, {"restore"}) /\ Has(CaptureFinally \o <<z>>, {"close"})
           /\ Has(CaptureFinally \o <<z>>, {"destroy"}) /\ CaptureFinally # <<>>
<1>0. PICK a, b, d, e, u : /\ a = Do("restore") /\ b = Devoff /\ d = Do("close") /\ e = Do("destroy")
                           /\ u = Do("unprotect")
  OBVIOUS
<1>1. PICK S : S = Steps(n)
  OBVIOUS
<1>2. /\ a \in S /\ b \in S /\ d \in S /\ e \in S /\ u \in S /\ z \in S
      /\ a.op = "restore" /\ b.op = "method" /\ d.op = "close" /\ e.op = "destroy"
  BY <1>0, <1>1, ClosingSteps
<1>3. PICK q, r : q = <<a, b, d, e, u>> /\ r = <<a, b, d, e, u, z>>
  OBVIOUS
<1>4. q = CaptureFinally
  BY <1>0, <1>3 DEF CaptureFinally, Devoff
<1>5. /\ q \in Seq(S) /\ Len(q) = 5 /\ q # <<>>
      /\ r \in Seq(S) /\ Len(r) = 6 /\ r[1] = a /\ r[2] = b /\ r[3] = d /\ r[4] = e /\ r[5] = u
      /\ r[6] = z
  BY <1>2, <1>3
<1>6. Append(q, z) = r
  BY <1>2, <1>3, AppendFive
<1>7. Append(q, z) = q \o <<z>>
  BY <1>2, <1>5, AppendIs
<1>8. Closing(r)
  BY <1>0, <1>3 DEF Closing
<1>9. Has(r, {"restore"}) /\ Has(r, {"close"}) /\ Has(r, {"destroy"})
  BY <1>2, <1>5 DEF Has
<1> QED BY <1>0, <1>3, <1>4, <1>5, <1>6, <1>7, <1>8, <1>9

(***************************************************************************)
(* Frames, with what goes on in them.                                      *)
(***************************************************************************)
FrameFields == {"fn", "code", "fin", "env", "to", "request", "n", "prot", "base", "device", "old",
                "before", "mine"}

Alike(f, g, X) == \A x \in FrameFields \ X : g[x] = f[x]

(* A constructor, a method or a request; captureR(), before and in its     *)
(* `finally'.                                                              *)
Straight(f, n) == f.fin = <<>> /\ f.code \in Seq(Plain(n))

Trying(f) ==
    /\ f.fin = CaptureFinally /\ Trial(f.code)
    /\ Has(f.code, {"open"}) => f.device = 1
    /\ Has(f.code, {"newplots"}) => f.mine = {}
    /\ f.device # 1 => Has(f.code, {"newplots", "throw"}) \/ Calm(f.code)

Finishing(f) == f.fin = <<>> /\ Closing(f.code)

Shaped(f, n) ==
    /\ f.code \in Seq(Steps(n)) /\ Ended(f.code)
    /\ Straight(f, n) \/ Trying(f) \/ Finishing(f)

Good(f, n) ==
    /\ f.env \in [Local -> 0 .. n] /\ f.to \in Local
    /\ f.device \in Nat /\ f.device >= 1 /\ f.prot \in Nat
    /\ Shaped(f, n)

(* What the frame still has to do in the session.                          *)
Quiets(f) == f.fin # <<>> \/ Has(f.code, {"restore"})

Opened(f) == f.device # 1 /\ (f.fin # <<>> \/ Has(f.code, {"close"}))

Due(f) == f.fin # <<>> /\ f.device # 1 /\ Has(f.code, {"newplots", "throw"})

Holds(f) == f.fin # <<>> \/ Has(f.code, {"destroy"})

Restoring(f) == f.fin = <<>> /\ Has(f.code, {"restore", "close", "destroy"})

Late(f) == Restoring(f) \/ (f.fin # <<>> /\ Calm(f.code))

Clear(f) == f.fin = <<>> /\ ~ Has(f.code, {"restore", "close", "destroy"})

LEMMA Fixed ==
    ASSUME NEW f, Framed(f)
    PROVE  /\ \A c : Alike(f, [f EXCEPT !.code = c], {"code"}) /\ [f EXCEPT !.code = c].code = c
           /\ \A c : Alike(f, [f EXCEPT !.fin = c], {"fin"}) /\ [f EXCEPT !.fin = c].fin = c
           /\ \A c : Alike(f, [f EXCEPT !.env = c], {"env"}) /\ [f EXCEPT !.env = c].env = c
           /\ \A c : Alike(f, [f EXCEPT !.mine = c], {"mine"}) /\ [f EXCEPT !.mine = c].mine = c
           /\ \A c : Alike(f, [f EXCEPT !.n = c], {"n"}) /\ [f EXCEPT !.n = c].n = c
           /\ \A c : Alike(f, [f EXCEPT !.prot = c], {"prot"}) /\ [f EXCEPT !.prot = c].prot = c
<1>1. \A c : Alike(f, [f EXCEPT !.code = c], {"code"}) /\ [f EXCEPT !.code = c].code = c
  BY DEF Framed, Alike, FrameFields
<1>2. \A c : Alike(f, [f EXCEPT !.fin = c], {"fin"}) /\ [f EXCEPT !.fin = c].fin = c
  BY DEF Framed, Alike, FrameFields
<1>3. \A c : Alike(f, [f EXCEPT !.env = c], {"env"}) /\ [f EXCEPT !.env = c].env = c
  BY DEF Framed, Alike, FrameFields
<1>4. \A c : Alike(f, [f EXCEPT !.mine = c], {"mine"}) /\ [f EXCEPT !.mine = c].mine = c
  BY DEF Framed, Alike, FrameFields
<1>5. \A c : Alike(f, [f EXCEPT !.n = c], {"n"}) /\ [f EXCEPT !.n = c].n = c
  BY DEF Framed, Alike, FrameFields
<1>6. \A c : Alike(f, [f EXCEPT !.prot = c], {"prot"}) /\ [f EXCEPT !.prot = c].prot = c
  BY DEF Framed, Alike, FrameFields
<1> QED BY <1>1, <1>2, <1>3, <1>4, <1>5, <1>6

LEMMA AlikeFields ==
    ASSUME NEW f, NEW g, NEW X, Alike(f, g, X)
    PROVE  /\ "code" \notin X => g.code = f.code
           /\ "fin" \notin X => g.fin = f.fin
           /\ "env" \notin X => g.env = f.env
           /\ "to" \notin X => g.to = f.to
           /\ "device" \notin X => g.device = f.device
           /\ "old" \notin X => g.old = f.old
           /\ "before" \notin X => g.before = f.before
           /\ "mine" \notin X => g.mine = f.mine
           /\ "prot" \notin X => g.prot = f.prot
BY DEF Alike, FrameFields

(* Which function has a step like this.                                    *)
LEMMA ShapeAt ==
    ASSUME NEW n \in Nat, NEW f, Shaped(f, n)
    PROVE  /\ f.code # <<>> /\ Head(f.code) \in Steps(n) /\ Fields(Head(f.code), n)
           /\ Head(f.code).op \in PlainOps \cup SpecialOps
           /\ Tail(f.code) \in Seq(Steps(n))
           /\ Head(f.code).op \in {"quiet", "open", "newplots", "user"} => Trying(f)
           /\ Head(f.code).op \in {"restore", "close", "destroy", "unprotect"} => Finishing(f)
           /\ Head(f.code).op \in {"answer", "ifany"} => Straight(f, n)
<1>1. f.code \in Seq(Steps(n)) /\ f.code # <<>>
  BY DEF Shaped, Ended
<1>2. Head(f.code) \in Steps(n) /\ Tail(f.code) \in Seq(Steps(n))
  BY <1>1, HeadTail
<1>3. Fields(Head(f.code), n) /\ Head(f.code).op \in PlainOps \cup SpecialOps
  BY <1>2, StepIs
<1>4. ASSUME Straight(f, n) PROVE Head(f.code).op \notin SpecialOps
  <2>1. f.code \in Seq(Plain(n))
    BY <1>4 DEF Straight
  <2>2. ~ Has(f.code, SpecialOps)
    BY <2>1, PlainHas
  <2> QED BY <1>1, <2>2, TailHas
<1>5. ASSUME Trying(f) PROVE Head(f.code).op \notin {"restore", "close", "destroy", "unprotect", "answer", "ifany"}
  <2>1. Fit(Head(f.code), Tail(f.code))
    BY <1>1, <1>5, TrialTail DEF Trying
  <2> QED BY <2>1 DEF Fit
<1>6. ASSUME Finishing(f)
      PROVE  Head(f.code).op \notin {"quiet", "open", "newplots", "user", "answer", "ifany"}
  <2>1. \/ Head(f.code).op \in {"restore", "close", "destroy", "unprotect", "return", "throw"}
        \/ Head(f.code) = Devoff
    BY <1>6, ClosingIs DEF Finishing
  <2>2. Devoff.op = "method"
    BY ClosingSteps
  <2> QED BY <2>1, <2>2
<1>7. Straight(f, n) \/ Trying(f) \/ Finishing(f)
  BY DEF Shaped
<1> QED BY <1>1, <1>2, <1>3, <1>4, <1>5, <1>6, <1>7 DEF SpecialOps

(* The step before the last of a function.                                 *)
LEMMA EndedTail ==
    ASSUME NEW S, NEW c \in Seq(S), Ended(c), Head(c).op \notin {"return", "throw", "answer"}
    PROVE  Ended(Tail(c))
<1>1. /\ c # <<>> /\ Head(c) = c[1] /\ Tail(c) \in Seq(S) /\ Len(c) \in Nat /\ Len(c) >= 1
      /\ Len(Tail(c)) = Len(c) - 1 /\ \A i \in 1 .. Len(c) - 1 : Tail(c)[i] = c[i + 1]
  BY HeadTail DEF Ended
<1>2. Len(c) # 1
  BY <1>1 DEF Ended
<1>3. Len(c) - 1 \in 1 .. Len(c) - 1 /\ Len(c) - 1 + 1 = Len(c)
  BY <1>1, <1>2
<1>4. Tail(c)[Len(Tail(c))] = c[Len(c)]
  BY <1>1, <1>3
<1>5. Tail(c) # <<>>
  BY <1>1, <1>3
<1> QED BY <1>4, <1>5 DEF Ended

Carries(f, g) ==
    /\ g.device = f.device /\ g.old = f.old /\ g.before = f.before /\ g.mine = f.mine
    /\ Quiets(f) => Quiets(g)
    /\ Opened(f) <=> Opened(g)
    /\ Due(f) => Due(g)
    /\ Holds(f) => Holds(g)

(* A function that goes on with its next step.                             *)
LEMMA GoneOn ==
    ASSUME NEW n \in Nat, NEW f, NEW g, Shaped(f, n),
           Head(f.code).op \notin {"return", "throw", "answer", "open", "newplots"},
           g.code = Tail(f.code), g.fin = f.fin, g.device = f.device, g.mine = f.mine
    PROVE  Shaped(g, n)
<1>1. /\ f.code \in Seq(Steps(n)) /\ f.code # <<>> /\ Ended(f.code)
      /\ Tail(f.code) \in Seq(Steps(n))
  BY ShapeAt DEF Shaped
<1>2. Ended(g.code) /\ g.code \in Seq(Steps(n))
  BY <1>1, EndedTail
<1>3. /\ \A O : Has(f.code, O) <=> Head(f.code).op \in O \/ Has(g.code, O)
      /\ Calm(f.code) => Calm(g.code)
  BY <1>1, TailHas
<1>4. ASSUME Straight(f, n) PROVE Straight(g, n)
  <2>1. f.code \in Seq(Plain(n))
    BY <1>4 DEF Straight
  <2>2. Tail(f.code) \in Seq(Plain(n))
    BY <1>1, <2>1, HeadTail
  <2> QED BY <1>4, <2>2 DEF Straight
<1>5. ASSUME Trying(f) PROVE Trying(g)
  <2>1. Trial(g.code)
    BY <1>1, <1>5, TrialTail DEF Trying
  <2>2. Has(g.code, {"open"}) => Has(f.code, {"open"})
    BY <1>3
  <2>3. Has(g.code, {"newplots"}) => Has(f.code, {"newplots"})
    BY <1>3
  <2>4. Has(f.code, {"newplots", "throw"}) => Has(g.code, {"newplots", "throw"})
    BY <1>3
  <2> QED BY <1>3, <1>5, <2>1, <2>2, <2>3, <2>4 DEF Trying
<1>6. ASSUME Finishing(f) PROVE Finishing(g)
  BY <1>6, ClosingIs DEF Finishing
<1> QED BY <1>2, <1>4, <1>5, <1>6 DEF Shaped

LEMMA CarriedOn ==
    ASSUME NEW n \in Nat, NEW f, NEW g, Shaped(f, n),
           Head(f.code).op \notin {"restore", "close", "destroy", "newplots", "throw"},
           g.code = Tail(f.code), g.fin = f.fin, g.device = f.device, g.mine = f.mine,
           g.old = f.old, g.before = f.before
    PROVE  Carries(f, g)
<1>1. f.code \in Seq(Steps(n)) /\ f.code # <<>>
  BY ShapeAt DEF Shaped
<1>2. \A O : Has(f.code, O) <=> Head(f.code).op \in O \/ Has(g.code, O)
  BY <1>1, TailHas
<1>3. Has(f.code, {"restore"}) <=> Has(g.code, {"restore"})
  BY <1>2
<1>4. Has(f.code, {"close"}) <=> Has(g.code, {"close"})
  BY <1>2
<1>5. Has(f.code, {"destroy"}) <=> Has(g.code, {"destroy"})
  BY <1>2
<1>6. Has(f.code, {"newplots", "throw"}) <=> Has(g.code, {"newplots", "throw"})
  BY <1>2
<1> QED BY <1>3, <1>4, <1>5, <1>6 DEF Carries, Quiets, Opened, Due, Holds

LEMMA CarriedSame ==
    ASSUME NEW f, NEW g, g.code = f.code, g.fin = f.fin, g.device = f.device, g.mine = f.mine,
           g.old = f.old, g.before = f.before
    PROVE  Carries(f, g)
BY DEF Carries, Quiets, Opened, Due, Holds

(* In the `finally', and in what is calm.                                  *)
LEMMA LateSteps ==
    ASSUME NEW n \in Nat, NEW f, Shaped(f, n), Late(f)
    PROVE  /\ CalmStep(Head(f.code)) \/ Head(f.code).op \in {"restore", "close", "destroy"}
           /\ f.fin # <<>> => CalmStep(Head(f.code)) /\ Calm(Tail(f.code))
           /\ f.fin = <<>> => Finishing(f)
<1>1. f.code \in Seq(Steps(n)) /\ f.code # <<>>
  BY ShapeAt DEF Shaped
<1>2. CASE f.fin # <<>>
  <2>1. Calm(f.code)
    BY <1>2 DEF Late, Restoring
  <2>2. CalmStep(Head(f.code)) /\ Calm(Tail(f.code))
    BY <1>1, <2>1, TailHas
  <2> QED BY <1>2, <2>2
<1>3. CASE f.fin = <<>>
  <2>1. Has(f.code, {"restore", "close", "destroy"})
    BY <1>3 DEF Late, Restoring
  <2>2. ~ Straight(f, n)
    <3>1. ASSUME Straight(f, n) PROVE FALSE
      <4>1. f.code \in Seq(Plain(n))
        BY <3>1 DEF Straight
      <4>2. ~ Has(f.code, SpecialOps)
        BY <4>1, PlainHas
      <4> QED BY <2>1, <4>2 DEF Has, SpecialOps
    <3> QED BY <3>1
  <2>3. ~ Trying(f)
    <3>1. CaptureFinally # <<>>
      BY FinallyRuns, LocalsAre
    <3> QED BY <1>3, <3>1 DEF Trying
  <2>4. Finishing(f)
    BY <2>2, <2>3 DEF Shaped
  <2>5. /\ \/ Head(f.code).op \in {"restore", "close", "destroy", "unprotect", "return", "throw"}
           \/ Head(f.code) = Devoff
        /\ Head(f.code).op \in {"unprotect", "return", "throw"} => ~ Has(f.code, {"restore", "close", "destroy"})
    BY <2>4, ClosingIs DEF Finishing
  <2>6. CalmStep(Devoff)
    BY ClosingSteps
  <2>7. Head(f.code).op \in {"restore", "close", "destroy"} \/ Head(f.code) = Devoff
    BY <2>1, <2>5
  <2> QED BY <1>3, <2>4, <2>6, <2>7
<1> QED BY <1>2, <1>3

LEMMA LateStepIs ==
    ASSUME NEW n \in Nat, NEW f, Shaped(f, n), Late(f)
    PROVE  /\ Head(f.code).op \notin {"convert", "throw", "user", "ifany", "unprotect", "answer", "open", "newplots"}
           /\ Head(f.code).op = "eval" => Head(f.code).sure
<1>1. CalmStep(Head(f.code)) \/ Head(f.code).op \in {"restore", "close", "destroy"}
  BY LateSteps
<1> QED BY <1>1 DEF CalmStep

(* The last call before the calm.                                          *)
LEMMA LateAfter ==
    ASSUME NEW n \in Nat, NEW f, NEW g, Shaped(f, n), Late(g), Head(f.code).op \in {"new", "method"},
           g.code = Tail(f.code), g.fin = f.fin
    PROVE  CalmStep(Head(f.code))
<1>1. f.code \in Seq(Steps(n)) /\ f.code # <<>> /\ Tail(f.code) \in Seq(Steps(n))
  BY ShapeAt DEF Shaped
<1>2. CASE f.fin = <<>>
  <2>1. Has(g.code, {"restore", "close", "destroy"})
    BY <1>2 DEF Late, Restoring
  <2>2. Has(f.code, {"restore", "close", "destroy"})
    BY <1>1, <2>1, TailHas
  <2>3. Late(f)
    BY <1>2, <2>2 DEF Late, Restoring
  <2>4. CalmStep(Head(f.code)) \/ Head(f.code).op \in {"restore", "close", "destroy"}
    BY <2>3, LateSteps
  <2> QED BY <2>4
<1>3. CASE f.fin # <<>>
  <2>1. Calm(g.code)
    BY <1>3 DEF Late, Restoring
  <2>2. Trying(f)
    BY <1>3 DEF Shaped, Straight, Finishing
  <2>3. Fit(Head(f.code), Tail(f.code))
    BY <1>1, <2>2, TrialTail DEF Trying
  <2>4. ~ Has(g.code, {"user", "throw"})
    BY <2>1 DEF Calm, CalmStep, Has
  <2> QED BY <2>3, <2>4 DEF Fit
<1> QED BY <1>2, <1>3

LEMMA StraightClear ==
    ASSUME NEW n \in Nat, NEW f, Straight(f, n)
    PROVE  Clear(f)
<1>1. ~ Has(f.code, SpecialOps)
  BY PlainHas DEF Straight
<1>2. ~ Has(f.code, {"restore", "close", "destroy"})
  BY <1>1 DEF Has, SpecialOps
<1> QED BY <1>2 DEF Clear, Straight

LEMMA EndClear ==
    ASSUME NEW n \in Nat, NEW f, Shaped(f, n), f.fin = <<>>,
           Head(f.code).op \in {"return", "throw", "answer"}
    PROVE  Clear(f)
<1>1. CASE Straight(f, n)
  BY <1>1, StraightClear
<1>2. CASE Trying(f)
  <2>1. CaptureFinally # <<>>
    BY FinallyRuns, LocalsAre
  <2> QED BY <1>2, <2>1 DEF Trying
<1>3. CASE Finishing(f)
  <2>1. Head(f.code).op \in {"return", "throw"}
    BY <1>3, ShapeAt, ClosingIs, ClosingSteps DEF Finishing
  <2>2. ~ Has(f.code, {"restore", "close", "destroy"})
    BY <1>3, <2>1, ClosingIs DEF Finishing
  <2> QED BY <2>2 DEF Clear
<1> QED BY <1>1, <1>2, <1>3 DEF Shaped

LEMMA ClearIs ==
    ASSUME NEW f, Clear(f)
    PROVE  ~ Quiets(f) /\ ~ Opened(f) /\ ~ Due(f) /\ ~ Holds(f) /\ ~ Restoring(f) /\ ~ Late(f)
<1>1. ~ Has(f.code, {"restore"}) /\ ~ Has(f.code, {"close"}) /\ ~ Has(f.code, {"destroy"})
  BY DEF Clear, Has
<1> QED BY <1>1 DEF Clear, Quiets, Opened, Due, Holds, Restoring, Late

LEMMA NotLateClear ==
    ASSUME NEW f, f.fin = <<>>, ~ Restoring(f)
    PROVE  Clear(f)
BY DEF Clear, Restoring

LEMMA ReturnIs ==
    ASSUME NEW n \in Nat, NEW s \in Steps(n), s.op = "return"
    PROVE  s = Return(s.of) /\ s.of \in Local
<1>1. s \notin Special(n)
  <2>1. s \notin [op : {"quiet", "open", "newplots", "restore", "close", "destroy", "unprotect"}]
    OBVIOUS
  <2>2. s \notin [op : {"user"}, to : {"ptr"}, data : Datum(n)]
    OBVIOUS
  <2> QED BY <2>1, <2>2 DEF Special
<1>2. s \notin [op : {"ifany"}, of : Local, then : Seq(Inner(n))]
  OBVIOUS
<1>3. s \in Simple(n)
  BY <1>1, <1>2 DEF Steps, Plain
<1>4. /\ s \notin [op : {"alloc"}, to : Local, of : Seq(Local)]
      /\ s \notin [op : {"attach", "link"}, to : Local, of : Local]
      /\ s \notin [op : {"field"}, to : Local, of : Local, at : Nat]
  OBVIOUS
<1>5. /\ s \notin [op : {"eval"}, to : Local, of : Local, at : Nat, sure : BOOLEAN]
      /\ s \notin [op : {"new"}, to : Local, data : Datum(n)]
      /\ s \notin [op : {"answer"}, of : Seq(Local)]
  OBVIOUS
<1>6. /\ s \notin [op : {"convert"}] /\ s \notin [op : {"try"}, count : Nat]
      /\ s \notin [op : {"throw"}, what : {"error", "unwind"}]
  OBVIOUS
<1>7. s \notin MethodCalls(n)
  <2>1. s \notin [op : {"method"}, to : Local, fn : MethodKind, of : Local, data : Datum(n)]
    OBVIOUS
  <2> QED BY <2>1 DEF MethodCalls
<1>8. s \in [op : {"use", "protect", "protectInc", "reprotect", "keep", "return"}, of : Local]
  BY <1>3, <1>4, <1>5, <1>6, <1>7, Zenon DEF Simple
<1>9. s = [op |-> "return", of |-> s.of] /\ s.of \in Local
  BY <1>8
<1> QED BY <1>9 DEF Return

(* The `finally' of captureR() begins.                                     *)
LEMMA FinallyBegun ==
    ASSUME NEW n \in Nat, NEW f, NEW g, Shaped(f, n), f.fin # <<>>,
           NEW z \in {Return(x) : x \in Local} \cup {Throw("error"), Throw("unwind")},
           g.code = CaptureFinally \o <<z>>, g.fin = <<>>, g.device = f.device
    PROVE  /\ f.fin = CaptureFinally /\ Shaped(g, n) /\ Quiets(g) /\ Holds(g)
           /\ Opened(f) <=> Opened(g)
           /\ g.old = f.old /\ g.before = f.before /\ g.mine = f.mine
              /\ ~ Has(f.code, {"newplots", "throw"}) => Carries(f, g)
<1>1. f.fin = CaptureFinally
  BY DEF Shaped, Straight, Finishing, Trying
<1>2. /\ Closing(g.code) /\ Has(g.code, {"restore"}) /\ Has(g.code, {"close"})
      /\ Has(g.code, {"destroy"})
  BY FinallyRuns
<1>3. g.code \in Seq(Steps(n)) /\ Ended(g.code)
  BY <1>2, ClosingIs
<1>4. Shaped(g, n)
  BY <1>2, <1>3 DEF Shaped, Finishing
<1>5. Quiets(g) /\ Holds(g) /\ (Opened(f) <=> Opened(g))
  BY <1>2 DEF Quiets, Holds, Opened
<1> QED BY <1>1, <1>4, <1>5 DEF Carries, Due

LEMMA OneLeft ==
    ASSUME NEW S, NEW c \in Seq(S), c # <<>>, Tail(c) = <<>>
    PROVE  c = <<Head(c)>>
<1>1. /\ Head(c) = c[1] /\ Head(c) \in S /\ Len(c) \in Nat /\ Len(Tail(c)) = Len(c) - 1
  BY HeadTail
<1>2. Len(c) = 1
  <2>1. PICK t : t = Tail(c)
    OBVIOUS
  <2>2. t = <<>> /\ Len(<<>>) = 0
    BY <2>1, EmptySeq
  <2>3. Len(t) = Len(c) - 1
    BY <1>1, <2>1
  <2>4. Len(t) = 0
    BY <2>2
  <2>5. Len(c) \in Nat
    BY <1>1
  <2> QED BY <2>3, <2>4, <2>5
<1>3. PICK h, q : h = Head(c) /\ q = <<h>>
  OBVIOUS
<1>4. q \in Seq(S) /\ Len(q) = 1 /\ q[1] = h
  BY <1>1, <1>3
<1>5. c = q
  BY <1>1, <1>2, <1>3, <1>4, SeqsEqual
<1> QED BY <1>3, <1>5

LEMMA ReturnCode ==
    ASSUME NEW n \in Nat, NEW f, Shaped(f, n), f.fin # <<>>, Head(f.code).op = "return"
    PROVE  /\ \E z \in {Return(x) : x \in Local} : f.code = <<z>>
           /\ ~ Has(f.code, {"newplots", "throw"})
<1>1. f.code \in Seq(Steps(n)) /\ f.code # <<>> /\ Head(f.code) \in Steps(n)
  BY ShapeAt DEF Shaped
<1>2. Trying(f)
  BY DEF Shaped, Straight, Finishing
<1>3. Fit(Head(f.code), Tail(f.code))
  BY <1>1, <1>2, TrialTail DEF Trying
<1>4. Tail(f.code) = <<>>
  BY <1>3 DEF Fit
<1>0. PICK c : c = f.code
  OBVIOUS
<1>9. c \in Seq(Steps(n)) /\ c # <<>> /\ Tail(c) = <<>>
  BY <1>0, <1>1, <1>4
<1>5. f.code = <<Head(f.code)>>
  BY <1>0, <1>9, OneLeft
<1>6. Head(f.code) \in {Return(x) : x \in Local}
  BY <1>1, ReturnIs
<1>7. ~ Has(Tail(f.code), {"newplots", "throw"})
  <2>1. PICK t : t = Tail(f.code)
    OBVIOUS
  <2>2. Len(t) = 0
    BY <1>4, <2>1
  <2>3. ~ Has(t, {"newplots", "throw"})
    BY <2>2 DEF Has
  <2> QED BY <2>1, <2>3
<1>8. ~ Has(f.code, {"newplots", "throw"})
  BY <1>1, <1>7, TailHas
<1> QED BY <1>5, <1>6, <1>8

(* The device of captureR().                                               *)
LEMMA DeviceOpened ==
    ASSUME NEW n \in Nat, NEW f, NEW g, Shaped(f, n), Head(f.code).op = "open",
           g.code = Tail(f.code), g.fin = f.fin, g.mine = f.mine, g.device # 1
    PROVE  /\ Shaped(g, n) /\ f.device = 1 /\ f.fin # <<>> /\ ~ Opened(f) /\ ~ Due(f)
           /\ Opened(g) /\ Quiets(g) /\ Holds(g)
<1>1. /\ f.code \in Seq(Steps(n)) /\ f.code # <<>> /\ Ended(f.code) /\ Trying(f)
      /\ Tail(f.code) \in Seq(Steps(n))
  BY ShapeAt DEF Shaped
<1>2. f.fin # <<>>
  BY <1>1, FinallyRuns, LocalsAre DEF Trying
<1>3. Has(f.code, {"open"})
  BY <1>1, TailHas
<1>4. f.device = 1
  BY <1>1, <1>3 DEF Trying
<1>5. Fit(Head(f.code), Tail(f.code)) /\ Trial(g.code)
  BY <1>1, TrialTail DEF Trying
<1>6. Has(g.code, {"newplots"}) /\ ~ Has(g.code, {"open"})
  BY <1>5 DEF Fit
<1>7. Has(f.code, {"newplots"})
  BY <1>1, <1>6, TailHas
<1>8. Has(g.code, {"newplots", "throw"})
  BY <1>6 DEF Has
<1>9. Trying(g)
  BY <1>1, <1>5, <1>6, <1>7, <1>8 DEF Trying
<1>10. Ended(g.code)
  BY <1>1, EndedTail
<1> QED BY <1>1, <1>2, <1>4, <1>9, <1>10 DEF Shaped, Opened, Due, Quiets, Holds

LEMMA PlotsFound ==
    ASSUME NEW n \in Nat, NEW f, NEW g, Shaped(f, n), Head(f.code).op = "newplots",
           g.code = Tail(f.code), g.fin = f.fin, g.device = f.device
    PROVE  /\ Shaped(g, n) /\ f.mine = {} /\ f.fin # <<>> /\ (Opened(f) <=> Opened(g))
           /\ Quiets(g) /\ Holds(g) /\ ~ Due(g)
<1>1. /\ f.code \in Seq(Steps(n)) /\ f.code # <<>> /\ Ended(f.code) /\ Trying(f)
      /\ Tail(f.code) \in Seq(Steps(n))
  BY ShapeAt DEF Shaped
<1>2. f.fin # <<>>
  BY <1>1, FinallyRuns, LocalsAre DEF Trying
<1>3. Has(f.code, {"newplots"})
  BY <1>1, TailHas
<1>4. f.mine = {}
  BY <1>1, <1>3 DEF Trying
<1>5. Fit(Head(f.code), Tail(f.code)) /\ Trial(g.code)
  BY <1>1, TrialTail DEF Trying
<1>6. Calm(g.code)
  BY <1>5 DEF Fit
<1>7. ~ Has(g.code, {"newplots"}) /\ ~ Has(g.code, {"open"}) /\ ~ Has(g.code, {"newplots", "throw"})
  BY <1>6 DEF Calm, CalmStep, Has
<1>8. Trying(g)
  BY <1>1, <1>5, <1>6, <1>7 DEF Trying
<1>9. Ended(g.code)
  BY <1>1, EndedTail
<1> QED BY <1>1, <1>2, <1>4, <1>7, <1>8, <1>9 DEF Shaped, Opened, Due, Quiets, Holds

(* The error that the code under evaluation ended with.                    *)
LEMMA FirstTwo ==
    ASSUME NEW S, NEW q \in Seq(S), Len(q) > 2
    PROVE  /\ SubSeq(q, 1, 2) \in Seq(S) /\ Len(SubSeq(q, 1, 2)) = 2
           /\ \A i \in 1 .. 2 : SubSeq(q, 1, 2)[i] = q[i]
<1>1. 1 \in Int /\ 2 \in Int /\ \A i \in 1 .. 2 : q[i] \in S
  OBVIOUS
<1>2. /\ SubSeq(q, 1, 2) \in Seq(S) /\ Len(SubSeq(q, 1, 2)) = IF 1 <= 2 THEN 2 - 1 + 1 ELSE 0
      /\ \A i \in 1 .. 2 - 1 + 1 : SubSeq(q, 1, 2)[i] = q[1 + i - 1]
  BY <1>1, SubSeqProperties
<1>3. 2 - 1 + 1 = 2 /\ 1 <= 2 /\ \A i \in 1 .. 2 : 1 + i - 1 = i
  OBVIOUS
<1> QED BY <1>2, <1>3

LEMMA ErrorRaised ==
    ASSUME NEW n \in Nat, NEW f, NEW g, Shaped(f, n), Head(f.code).op = "user",
           g.code = SubSeq(Tail(f.code), 1, 2) \o RaiseError, g.fin = f.fin,
           g.device = f.device, g.mine = f.mine, g.old = f.old, g.before = f.before
    PROVE  Shaped(g, n) /\ Carries(f, g)
<1>0. PICK t : t = Tail(f.code)
  OBVIOUS
<1>1. /\ f.code \in Seq(Steps(n)) /\ f.code # <<>> /\ Ended(f.code) /\ Trying(f)
      /\ t \in Seq(Steps(n))
  BY <1>0, ShapeAt DEF Shaped
<1>2. f.fin # <<>>
  BY <1>1, FinallyRuns, LocalsAre DEF Trying
<1>3. Fit(Head(f.code), t) /\ Trial(t)
  BY <1>0, <1>1, TrialTail DEF Trying
<1>4. Len(t) > 2 /\ CalmStep(t[1]) /\ CalmStep(t[2]) /\ Len(t) \in Nat
  BY <1>1, <1>3 DEF Fit
<1>5. ASSUME NEW i \in 1 .. 2 PROVE Neutral(t[i])
  <2>1. CalmStep(t[i])
    <3>1. i = 1 \/ i = 2
      OBVIOUS
    <3> QED BY <1>4, <3>1
  <2>2. i \in 1 .. Len(t) /\ i \in 0 .. Len(t) /\ Len(t) - i > 0
    BY <1>4
  <2>3. Fit(t[i], After(t, i))
    BY <1>3, <2>2 DEF Trial
  <2>4. Len(After(t, i)) = Len(t) - i
    BY <1>1, <2>2, AfterIs
  <2>5. After(t, i) # <<>>
    BY <2>2, <2>4
  <2>6. t[i].op # "return"
    BY <2>3, <2>5 DEF Fit
  <2> QED BY <2>1, <2>6 DEF CalmStep, Neutral
<1>6. PICK c : c = SubSeq(t, 1, 2)
  OBVIOUS
<1>7. c \in Seq(Steps(n)) /\ Len(c) = 2 /\ \A i \in 1 .. 2 : c[i] = t[i]
  BY <1>1, <1>4, <1>6, FirstTwo
<1>8. \A i \in 1 .. Len(c) : Neutral(c[i])
  BY <1>5, <1>7
<1>9. PICK r : r = RaiseError
  OBVIOUS
<1>10. /\ r \in Seq(Steps(n)) /\ Trial(r) /\ Ended(r)
       /\ Has(r, {"newplots", "throw"}) /\ ~ Has(r, {"open", "newplots"})
  BY <1>9, RaiseCode
<1>11. /\ c \o r \in Seq(Steps(n)) /\ Trial(c \o r) /\ Ended(c \o r)
       /\ \A O : Has(r, O) => Has(c \o r, O)
       /\ \A O : Has(c \o r, O) <=> Has(c, O) \/ Has(r, O)
  BY <1>7, <1>8, <1>10, Ahead
<1>12. g.code = c \o r
  BY <1>0, <1>6, <1>9
<1>13. ~ Has(c, {"open", "newplots"})
  <2>1. \A i \in 1 .. Len(c) : c[i].op \notin {"open", "newplots"}
    BY <1>8 DEF Neutral
  <2> QED BY <2>1 DEF Has
<1>14. ~ Has(g.code, {"open", "newplots"}) /\ Has(g.code, {"newplots", "throw"})
  BY <1>10, <1>11, <1>12, <1>13
<1>15. ~ Has(g.code, {"open"}) /\ ~ Has(g.code, {"newplots"})
  BY <1>14 DEF Has
<1>16. Trying(g)
  BY <1>1, <1>11, <1>12, <1>14, <1>15 DEF Trying
<1>17. Shaped(g, n)
  BY <1>11, <1>12, <1>16 DEF Shaped
<1> QED BY <1>2, <1>14, <1>17 DEF Carries, Quiets, Opened, Due, Holds

(* Calls that are calm.                                                    *)
LEMMA CalmSix ==
    ASSUME NEW a, NEW b, NEW c, NEW d, NEW e, NEW f,
           CalmStep(a), CalmStep(b), CalmStep(c), CalmStep(d), CalmStep(e), CalmStep(f)
    PROVE  /\ Calm(<<a, b, c, d, e, f>>) /\ Calm(<<a, b, c>>)
<1>1. PICK q : q = <<a, b, c, d, e, f>>
  OBVIOUS
<1>2. /\ Len(q) = 6 /\ q[1] = a /\ q[2] = b /\ q[3] = c /\ q[4] = d /\ q[5] = e /\ q[6] = f
  BY <1>1
<1>3. \A i \in 1 .. 6 : i = 1 \/ i = 2 \/ i = 3 \/ i = 4 \/ i = 5 \/ i = 6
  OBVIOUS
<1>4. Calm(q)
  BY <1>2, <1>3 DEF Calm
<1>5. PICK r : r = <<a, b, c>>
  OBVIOUS
<1>6. Len(r) = 3 /\ r[1] = a /\ r[2] = b /\ r[3] = c
  BY <1>5
<1>7. \A i \in 1 .. 3 : i = 1 \/ i = 2 \/ i = 3
  OBVIOUS
<1>8. Calm(r)
  BY <1>6, <1>7 DEF Calm
<1> QED BY <1>1, <1>4, <1>5, <1>8

LEMMA CalmMethods ==
    ASSUME NEW fn, NEW d,
           fn \in {"toArray", "detectMissing"} \/ (fn = "slice" /\ d.at = "sure")
    PROVE  Calm(Method(fn, d)) /\ fn # "captureR"
<1>1. \A x, y : /\ CalmStep(Alloc(x, y)) /\ CalmStep(ProtectInc(x)) /\ CalmStep(Return(x))
                /\ CalmStep(Use(x)) /\ CalmStep(New(x, Atom))
                /\ \A i : CalmStep(SafeEval(x, y, i, TRUE))
  <2> SUFFICES ASSUME NEW x, NEW y
               PROVE  /\ CalmStep(Alloc(x, y)) /\ CalmStep(ProtectInc(x)) /\ CalmStep(Return(x))
                      /\ CalmStep(Use(x)) /\ CalmStep(New(x, Atom))
                      /\ \A i : CalmStep(SafeEval(x, y, i, TRUE))
    OBVIOUS
  <2>1. CalmStep(Alloc(x, y)) /\ CalmStep(ProtectInc(x)) /\ CalmStep(Return(x))
    BY CalmCalls
  <2>2. CalmStep(Use(x))
    BY DEF Use, CalmStep
  <2>3. CalmStep(New(x, Atom))
    <3>1. New(x, Atom).op = "new" /\ New(x, Atom).data = Atom
      BY Ops
    <3> QED BY <3>1 DEF CalmStep
  <2>4. ASSUME NEW i PROVE CalmStep(SafeEval(x, y, i, TRUE))
    BY DEF SafeEval, CalmStep
  <2> QED BY <2>1, <2>2, <2>3, <2>4
<1>2. CASE fn = "toArray"
  <2>1. CalmStep(Call("out", "detectMissing", "this", Atom))
    BY CallIs DEF CalmStep
  <2>2. Calm(toArray)
    BY <1>1, <2>1, CalmSix DEF toArray
  <2> QED BY <1>2, <2>2 DEF Method
<1>3. CASE fn = "detectMissing"
  <2>1. Calm(detectMissing)
    BY <1>1, CalmSix DEF detectMissing
  <2> QED BY <1>3, <2>1 DEF Method
<1>4. CASE fn = "slice" /\ d.at = "sure"
  <2>1. PICK b : b = (d.at = "sure")
    OBVIOUS
  <2>2. b = TRUE
    BY <1>4, <2>1
  <2>3. CalmStep(SafeEval("out", "this", d.obj, b))
    BY <1>1, <2>2
  <2>4. Calm(slice(d))
    BY <1>1, <2>1, <2>3, CalmSix DEF slice
  <2> QED BY <1>4, <2>4 DEF Method
<1> QED BY <1>2, <1>3, <1>4

LEMMA CalmConstructor ==
    ASSUME NEW d, d.is = "RVectorAtomic", d.named = FALSE
    PROVE  Calm(Constructor(d))
<1>1. Constructor(d) = RVectorAtomic(d)
  BY DEF Constructor
<1>2. PICK a, b, z, e : /\ a = Alloc("ptr", <<>>) /\ b = ProtectInc("ptr") /\ z = Return("ptr") /\ e = <<>>
  OBVIOUS
<1>3. CalmStep(a) /\ CalmStep(b) /\ CalmStep(z)
  BY <1>2, CalmCalls
<1>4. PICK S : S = {a, b, z}
  OBVIOUS
<1>5. a \in S /\ b \in S /\ z \in S
  BY <1>4
<1>6. RVectorAtomic(d) = <<a, b>> \o e \o e \o <<z>>
  BY <1>2 DEF RVectorAtomic, setNames
<1>7. PICK q : q = <<a, b>>
  OBVIOUS
<1>8. q \in Seq(S)
  BY <1>5, <1>7
<1>9. q \o e = q
  BY <1>2, <1>8, ConcatEmptySeq
<1>10. RVectorAtomic(d) = <<a, b>> \o <<z>>
  BY <1>6, <1>7, <1>9
<1>11. <<a, b>> \o <<z>> = <<a, b, z>>
  BY <1>5, Appended
<1> QED BY <1>1, <1>3, <1>10, <1>11, CalmSix

(* Frames that functions and requests begin with.                          *)
LEMMA NewFrame ==
    ASSUME NEW n \in Nat, NEW fn, NEW c, NEW fin, NEW env \in [Local -> 0 .. n], NEW to \in Local,
           NEW f, f = Frame(fn, c, fin, env, to), fin = <<>> /\ Code(c, n)
    PROVE  /\ Good(f, n) /\ Straight(f, n) /\ Clear(f) /\ f.before = {} /\ f.device = 1
           /\ f.fin = <<>> /\ f.code = c
<1>1. /\ f.code = c /\ f.fin = <<>> /\ f.env = env /\ f.to = to /\ f.device = 1 /\ f.before = {}
      /\ f.prot = 0
  BY DEF Frame
<1>2. c \in Seq(Plain(n)) /\ Ended(c)
  BY DEF Code
<1>3. c \in Seq(Steps(n))
  BY <1>2, StepSets
<1>4. Straight(f, n)
  BY <1>1, <1>2 DEF Straight
<1>5. Shaped(f, n)
  BY <1>1, <1>2, <1>3, <1>4 DEF Shaped
<1> QED BY <1>1, <1>4, <1>5, StraightClear DEF Good

LEMMA NewCapture ==
    ASSUME NEW n \in Nat, NEW d \in Datum(n), d.parts # <<>>, NEW env \in [Local -> 0 .. n],
           NEW to \in Local, NEW f, f = Frame("captureR", captureR(d), CaptureFinally, env, to)
    PROVE  Good(f, n) /\ Trying(f) /\ ~ Opened(f) /\ ~ Due(f) /\ f.before = {} /\ f.mine = {} /\ f.device = 1
<1>1. /\ f.code = captureR(d) /\ f.fin = CaptureFinally /\ f.env = env /\ f.to = to /\ f.device = 1
      /\ f.before = {} /\ f.mine = {} /\ f.prot = 0
  BY DEF Frame
<1>2. f.code \in Seq(Steps(n)) /\ Trial(f.code) /\ Ended(f.code)
  BY <1>1, CaptureCode
<1>3. Trying(f)
  BY <1>1, <1>2 DEF Trying
<1>4. Shaped(f, n)
  BY <1>2, <1>3 DEF Shaped
<1> QED BY <1>1, <1>3, <1>4 DEF Good, Opened, Due

(***************************************************************************)
(* R's heap.                                                               *)
(***************************************************************************)
Cell(n) == [alive : BOOLEAN, fields : Seq(0 .. n)]

HeapInv ==
    /\ heap \in Seq(Cell(Len(heap)))
    /\ stack \in Seq(0 .. Len(heap))
    /\ precious \subseteq 1 .. Len(heap) /\ held \subseteq 1 .. Len(heap)
    /\ \A o \in precious : heap[o].alive

LEMMA LargestElement ==
    ASSUME NEW b \in Nat, NEW S \in SUBSET (0 .. b), S # {}
    PROVE  Max(S) \in S /\ \A x \in S : x <= Max(S)
<1>1. PICK x \in S : \A y \in S : ~ (b - y < b - x)
  <2>1. PICK T : T = {b - y : y \in S}
    OBVIOUS
  <2>2. T # {} /\ T \in SUBSET Nat
    <3>1. PICK z : z \in S
      OBVIOUS
    <3>2. b - z \in T
      BY <2>1, <3>1
    <3>3. \A y \in S : b - y \in Nat
      OBVIOUS
    <3>4. \A t \in T : t \in Nat
      BY <2>1, <3>3
    <3> QED BY <3>2, <3>4
  <2>3. IsWellFoundedOn(OpToRel(<, Nat), Nat)
    BY NatLessThanWellFounded
  <2>4. \E m \in T : \A y \in Nat : <<y, m>> \in OpToRel(<, Nat) => y \notin T
    BY <2>2, <2>3, WFMin, Zenon
  <2>5. PICK m \in T : \A y \in T : <<y, m>> \notin OpToRel(<, Nat)
    BY <2>2, <2>4
  <2>6. \A y \in T : ~ (y < m)
    BY <2>2, <2>5 DEF OpToRel
  <2> QED BY <2>1, <2>6
<1>2. \A y \in S : x >= y
  <2> SUFFICES ASSUME NEW y \in S PROVE x >= y
    OBVIOUS
  <2>1. x \in 0 .. b /\ y \in 0 .. b
    OBVIOUS
  <2> QED BY <1>1, <2>1
<1>3. Max(S) \in S /\ \A y \in S : Max(S) >= y
  BY <1>2 DEF Max
<1> QED BY <1>3

LEMMA CellsWiden ==
    ASSUME NEW n \in Nat, NEW m \in Nat, n <= m
    PROVE  Cell(n) \subseteq Cell(m) /\ Seq(Cell(n)) \subseteq Seq(Cell(m))
           /\ Seq(0 .. n) \subseteq Seq(0 .. m)
<1>1. Seq(0 .. n) \subseteq Seq(0 .. m)
  BY SeqWidens
<1>2. Cell(n) \subseteq Cell(m)
  <2>1. PICK S, T : S = Seq(0 .. n) /\ T = Seq(0 .. m) /\ S \subseteq T
    BY <1>1
  <2> QED BY <2>1 DEF Cell
<1> QED BY <1>1, <1>2, SeqWidens

LEMMA GrownIs ==
    ASSUME NEW n \in Nat, n = Len(heap), heap \in Seq(Cell(n)), NEW S, S \subseteq 0 .. n
    PROVE  /\ S \subseteq Grown(S) /\ Grown(S) \subseteq 0 .. n
           /\ \A o \in S \ {0} : \A i \in 1 .. Len(heap[o].fields) : heap[o].fields[i] \in Grown(S)
<1>1. S \subseteq Grown(S)
  BY DEF Grown
<1>2. ASSUME NEW o \in S \ {0} PROVE heap[o].fields \in Seq(0 .. n)
  <2>1. o \in 1 .. Len(heap)
    OBVIOUS
  <2>2. heap[o] \in Cell(n)
    BY <2>1
  <2> QED BY <2>2 DEF Cell
<1>3. ASSUME NEW o \in S \ {0} PROVE ToSet(heap[o].fields) \subseteq 0 .. n
  BY <1>2 DEF ToSet
<1>4. Grown(S) \subseteq 0 .. n
  BY <1>3 DEF Grown
<1>5. ASSUME NEW o \in S \ {0}, NEW i \in 1 .. Len(heap[o].fields)
      PROVE  heap[o].fields[i] \in Grown(S)
  <2>1. heap[o].fields[i] \in ToSet(heap[o].fields)
    BY <1>2 DEF ToSet
  <2> QED BY <2>1 DEF Grown
<1> QED BY <1>1, <1>4, <1>5

LEMMA ReachIs ==
    ASSUME NEW n \in Nat, n = Len(heap), heap \in Seq(Cell(n)), NEW S, S \subseteq 0 .. n
    PROVE  S \ {0} \subseteq Reach(S) /\ Reach(S) \subseteq 1 .. n
<1>1. \A T : T \subseteq 0 .. n => T \subseteq Grown(T) /\ Grown(T) \subseteq 0 .. n
  BY GrownIs
<1>2. PICK A1, A2, A3, A4, A5, A6 :
        /\ A1 = Grown(S) /\ A2 = Grown(A1) /\ A3 = Grown(A2) /\ A4 = Grown(A3)
        /\ A5 = Grown(A4) /\ A6 = Grown(A5)
  OBVIOUS
<1>3. S \subseteq A1 /\ A1 \subseteq 0 .. n
  BY <1>1, <1>2
<1>4. A1 \subseteq A2 /\ A2 \subseteq 0 .. n
  BY <1>1, <1>2, <1>3
<1>5. A2 \subseteq A3 /\ A3 \subseteq 0 .. n
  BY <1>1, <1>2, <1>4
<1>6. A3 \subseteq A4 /\ A4 \subseteq 0 .. n
  BY <1>1, <1>2, <1>5
<1>7. A4 \subseteq A5 /\ A5 \subseteq 0 .. n
  BY <1>1, <1>2, <1>6
<1>8. A5 \subseteq A6 /\ A6 \subseteq 0 .. n
  BY <1>1, <1>2, <1>7
<1>9. Reach(S) = A6 \ {0}
  BY <1>2 DEF Reach
<1>10. S \subseteq A6
  BY <1>3, <1>4, <1>5, <1>6, <1>7, <1>8
<1>11. \A x \in 0 .. n : x # 0 => x \in 1 .. n
  OBVIOUS
<1> QED BY <1>8, <1>9, <1>10, <1>11

(* A heap as large as before, with what R keeps and what was used alive.   *)
Holding(h, used) ==
    /\ h \in Seq(Cell(Len(heap))) /\ Len(h) = Len(heap)
    /\ \A o \in precious : h[o].alive
    /\ \A o \in used \ {0} : h[o].alive

LEMMA HeapIs ==
    ASSUME HeapInv
    PROVE  Len(heap) \in Nat /\ heap \in Seq(Cell(Len(heap)))
           /\ precious \subseteq 0 .. Len(heap) /\ ToSet(stack) \subseteq 0 .. Len(heap)
           /\ \A o \in 1 .. Len(heap) : heap[o] \in Cell(Len(heap))
<1>1. heap \in Seq(Cell(Len(heap))) /\ Len(heap) \in Nat
  BY DEF HeapInv
<1>2. precious \subseteq 0 .. Len(heap)
  BY <1>1 DEF HeapInv
<1>3. ToSet(stack) \subseteq 0 .. Len(heap)
  BY DEF HeapInv, ToSet
<1>4. \A o \in 1 .. Len(heap) : heap[o] \in Cell(Len(heap))
  BY <1>1
<1> QED BY <1>1, <1>2, <1>3, <1>4

LEMMA Marked ==
    ASSUME NEW n \in Nat, NEW c \in Cell(n), NEW b \in BOOLEAN
    PROVE  [c EXCEPT !.alive = b] \in Cell(n) /\ [c EXCEPT !.alive = b].alive = b
           /\ c.alive \in BOOLEAN /\ c.fields \in Seq(0 .. n)
BY DEF Cell

LEMMA MarkedHeap ==
    ASSUME HeapInv, NEW h, NEW own, NEW used, used \subseteq 0 .. Len(heap), used \ {0} \subseteq own,
           NEW kept, precious \subseteq kept,
           h = [o \in DOMAIN heap |-> [heap[o] EXCEPT !.alive = (@ /\ o \in kept) \/ o \in own]]
    PROVE  Holding(h, used)
<1>1. PICK n : n = Len(heap)
  OBVIOUS
<1>2. n \in Nat /\ heap \in Seq(Cell(n)) /\ DOMAIN heap = 1 .. n /\ \A o \in 1 .. n : heap[o] \in Cell(n)
  BY <1>1, HeapIs
<1>3. ASSUME NEW o \in 1 .. n
      PROVE  /\ h[o] \in Cell(n)
             /\ h[o].alive = ((heap[o].alive /\ o \in kept) \/ o \in own)
  <2>1. PICK b : b = ((heap[o].alive /\ o \in kept) \/ o \in own)
    OBVIOUS
  <2>2. b \in BOOLEAN
    BY <2>1
  <2>3. h[o] = [heap[o] EXCEPT !.alive = b]
    BY <1>2, <2>1
  <2>4. PICK c : c = heap[o]
    OBVIOUS
  <2>5. c \in Cell(n) /\ n \in Nat /\ h[o] = [c EXCEPT !.alive = b]
    BY <1>2, <2>3, <2>4
  <2>6. h[o] \in Cell(n) /\ h[o].alive = b
    BY <2>2, <2>5, Marked
  <2> QED BY <2>1, <2>6
<1>4. h \in [1 .. n -> Cell(n)]
  BY <1>2, <1>3
<1>5. h \in Seq(Cell(n)) /\ Len(h) = n
  BY <1>2, <1>4, FunctionSeq
<1>6. \A o \in precious : h[o].alive
  <2> SUFFICES ASSUME NEW o \in precious PROVE h[o].alive
    OBVIOUS
  <2>1. o \in 1 .. n /\ heap[o].alive /\ o \in kept
    BY <1>1 DEF HeapInv
  <2> QED BY <1>3, <2>1
<1>7. \A o \in used \ {0} : h[o].alive
  <2> SUFFICES ASSUME NEW o \in used \ {0} PROVE h[o].alive
    OBVIOUS
  <2>1. o \in 0 .. n /\ o # 0 /\ o \in own
    BY <1>1
  <2>2. o \in 1 .. n
    BY <1>2, <2>1
  <2> QED BY <1>3, <2>1, <2>2
<1> QED BY <1>1, <1>5, <1>6, <1>7 DEF Holding

LEMMA HeapKept ==
    ASSUME HeapInv, NEW used, used \subseteq 0 .. Len(heap)
    PROVE  Holding(Collected(used), used) /\ Holding(Revived(used), used)
<1>1. PICK own, roots, k : /\ own = Reach(used) /\ roots = Roots
                           /\ k = own \cup Reach(roots)
  OBVIOUS
<1>2. used \ {0} \subseteq own
  BY <1>1, HeapIs, ReachIs
<1>3. precious \subseteq k
  <2>1. roots \subseteq 0 .. Len(heap)
    BY <1>1, HeapIs DEF Roots
  <2>2. roots \ {0} \subseteq Reach(roots)
    BY <2>1, HeapIs, ReachIs
  <2>3. precious \subseteq 1 .. Len(heap)
    BY DEF HeapInv
  <2>4. 0 \notin precious
    BY <2>3, HeapIs
  <2>5. precious \subseteq roots \ {0}
    BY <1>1, <2>4 DEF Roots
  <2> QED BY <1>1, <2>2, <2>5
<1>4. Collected(used) = [o \in DOMAIN heap |-> [heap[o] EXCEPT !.alive = (@ /\ o \in k) \/ o \in own]]
  BY <1>1 DEF Collected
<1>5. Holding(Collected(used), used)
  BY <1>2, <1>3, <1>4, MarkedHeap
<1>6. PICK d : d = DOMAIN heap \cup precious
  OBVIOUS
<1>7. Revived(used) = [o \in DOMAIN heap |-> [heap[o] EXCEPT !.alive = (@ /\ o \in d) \/ o \in own]]
  <2>1. \A o \in DOMAIN heap : (heap[o].alive /\ o \in d) = heap[o].alive
    <3> SUFFICES ASSUME NEW o \in DOMAIN heap PROVE (heap[o].alive /\ o \in d) = heap[o].alive
      OBVIOUS
    <3>1. o \in 1 .. Len(heap) /\ o \in d
      BY <1>6, HeapIs
    <3>2. heap[o] \in Cell(Len(heap))
      BY <3>1, HeapIs
    <3>3. heap[o].alive \in BOOLEAN
      BY <3>2 DEF Cell
    <3> QED BY <3>1, <3>3
  <2>2. Revived(used) = [o \in DOMAIN heap |-> [heap[o] EXCEPT !.alive = heap[o].alive \/ o \in own]]
    BY <1>1 DEF Revived
  <2> QED BY <2>1, <2>2
<1>8. Holding(Revived(used), used)
  <2>1. PICK h : h = Revived(used)
    OBVIOUS
  <2>2. h = [o \in DOMAIN heap |-> [heap[o] EXCEPT !.alive = (@ /\ o \in d) \/ o \in own]]
    BY <1>7, <2>1
  <2>3. precious \subseteq d
    BY <1>6
  <2>4. Holding(h, used)
    BY <1>2, <2>2, <2>3, MarkedHeap
  <2> QED BY <2>1, <2>4
<1> QED BY <1>5, <1>8

(* What is left of the heap between requests.                              *)
LEMMA SeqNarrows ==
    ASSUME NEW S, NEW T, NEW q \in Seq(S), \A i \in 1 .. Len(q) : q[i] \in T
    PROVE  q \in Seq(T)
<1>1. Len(q) \in Nat /\ q \in [1 .. Len(q) -> T]
  OBVIOUS
<1> QED BY <1>1, FunctionSeq

LEMMA NamedIs ==
    ASSUME HeapInv, NEW S, S \subseteq 1 .. Len(heap), NEW h, h = Named(S)
    PROVE  /\ h \in Seq(Cell(Len(h))) /\ S \subseteq 1 .. Len(h)
           /\ \A o \in S : h[o] = heap[o]
<1>1. PICK n, own, m : n = Len(heap) /\ own = Reach(S) /\ m = Max(Grown(own) \cup {0})
  OBVIOUS
<1>2. n \in Nat /\ heap \in Seq(Cell(n)) /\ \A o \in 1 .. n : heap[o] \in Cell(n)
  BY <1>1, HeapIs
<1>3. S \ {0} = S /\ S \subseteq 0 .. n
  BY <1>1, <1>2
<1>4. S \subseteq own /\ own \subseteq 1 .. n
  BY <1>1, <1>2, <1>3, ReachIs
<1>5. own \subseteq 0 .. n /\ 0 \notin own
  BY <1>2, <1>4
<1>6. /\ own \subseteq Grown(own) /\ Grown(own) \subseteq 0 .. n
      /\ \A o \in own \ {0} : \A i \in 1 .. Len(heap[o].fields) : heap[o].fields[i] \in Grown(own)
  BY <1>1, <1>2, <1>5, GrownIs
<1>7. PICK T : T = Grown(own) \cup {0}
  OBVIOUS
<1>8. T \in SUBSET (0 .. n) /\ T # {}
  BY <1>2, <1>6, <1>7
<1>9. m \in T /\ \A x \in T : x <= m
  BY <1>1, <1>2, <1>7, <1>8, LargestElement
<1>10. m \in Nat /\ T \subseteq 0 .. m
  <2>1. \A x \in T : x \in Nat
    BY <1>8
  <2> QED BY <1>9, <2>1
<1>11. PICK e : e = [alive |-> FALSE, fields |-> <<>>]
  OBVIOUS
<1>12. h = [o \in 1 .. m |-> IF o \in own THEN heap[o] ELSE e]
  BY <1>1, <1>11 DEF Named
<1>13. e \in Cell(m)
  <2>1. <<>> \in Seq(0 .. m)
    OBVIOUS
  <2> QED BY <1>11, <2>1 DEF Cell
<1>14. ASSUME NEW o \in own PROVE heap[o] \in Cell(m)
  <2>1. heap[o] \in Cell(n)
    BY <1>2, <1>4
  <2>2. PICK q : q = heap[o].fields
    OBVIOUS
  <2>3. q \in Seq(0 .. n) /\ \A i \in 1 .. Len(q) : q[i] \in 0 .. m
    BY <1>5, <1>6, <1>7, <1>10, <2>1, <2>2 DEF Cell
  <2>4. q \in Seq(0 .. m)
    BY <2>3, SeqNarrows
  <2>5. heap[o] = [alive |-> heap[o].alive, fields |-> q] /\ heap[o].alive \in BOOLEAN
    BY <2>1, <2>2 DEF Cell
  <2> QED BY <2>4, <2>5 DEF Cell
<1>15. h \in [1 .. m -> Cell(m)]
  BY <1>12, <1>13, <1>14
<1>16. h \in Seq(Cell(m)) /\ Len(h) = m
  BY <1>10, <1>15, FunctionSeq
<1>17. own \subseteq 1 .. m
  <2> SUFFICES ASSUME NEW o \in own PROVE o \in 1 .. m
    OBVIOUS
  <2>1. o \in 1 .. n /\ o \in 0 .. m
    BY <1>4, <1>6, <1>7, <1>10
  <2> QED BY <1>2, <1>10, <2>1
<1>18. \A o \in S : h[o] = heap[o]
  BY <1>4, <1>12, <1>17
<1> QED BY <1>4, <1>16, <1>17, <1>18

(* Each function in progress is of one of the shapes.                      *)
FunctionsInv == \A i \in 1 .. Len(frames) : Good(frames[i], Len(heap))

LEMMA TopIs ==
    ASSUME FramesInv, HeapInv, FunctionsInv, frames # <<>>
    PROVE  /\ Good(Top, Len(heap)) /\ Shaped(Top, Len(heap)) /\ Top.env \in [Local -> 0 .. Len(heap)]
           /\ Top.to \in Local /\ Framed(Top) /\ Len(heap) \in Nat
           /\ Fields(Step, Len(heap)) /\ Step = Head(Top.code)
           /\ Step.op \in PlainOps \cup SpecialOps /\ Top.prot \in Nat
<1>1. Top = frames[Len(frames)] /\ Framed(Top) /\ Len(frames) \in 1 .. Len(frames)
  BY Running
<1>2. Good(Top, Len(heap)) /\ Len(heap) \in Nat
  BY <1>1 DEF FunctionsInv, HeapInv
<1>3. Shaped(Top, Len(heap)) /\ Top.env \in [Local -> 0 .. Len(heap)] /\ Top.to \in Local /\ Top.prot \in Nat
  BY <1>2 DEF Good
<1>4. Fields(Head(Top.code), Len(heap)) /\ Head(Top.code).op \in PlainOps \cup SpecialOps
  BY <1>2, <1>3, ShapeAt
<1> QED BY <1>1, <1>2, <1>3, <1>4 DEF Step

LEMMA ValuesAre ==
    ASSUME NEW n \in Nat, Top.env \in [Local -> 0 .. n]
    PROVE  /\ \A s \in Seq(Local) : Values(s) \subseteq 0 .. n
           /\ \A x \in Local : Top.env[x] \in 0 .. n
           /\ \A x, y \in Local : Values(<<x, y>>) \subseteq 0 .. n
           /\ \A x \in Local : Values(<<x>>) \subseteq 0 .. n
<1>1. \A x \in Local : Last(frames).env[x] \in 0 .. n
  BY DEF Top
<1>2. ASSUME NEW s \in Seq(Local) PROVE Values(s) \subseteq 0 .. n
  <2>1. \A x \in ToSet(s) : x \in Local
    BY DEF ToSet
  <2> QED BY <1>1, <2>1 DEF Values
<1>3. ASSUME NEW x \in Local, NEW y \in Local PROVE <<x, y>> \in Seq(Local) /\ <<x>> \in Seq(Local)
  OBVIOUS
<1> QED BY <1>1, <1>2, <1>3 DEF Top

LEMMA AlikeThrough ==
    ASSUME NEW f, NEW g, NEW h, NEW X, NEW Y, Alike(f, g, X), Alike(g, h, Y)
    PROVE  Alike(f, h, X \cup Y)
BY DEF Alike

LEMMA AlikeMore ==
    ASSUME NEW f, NEW g, NEW X, NEW Y, Alike(f, g, X), X \subseteq Y
    PROVE  Alike(f, g, Y)
BY DEF Alike

LEMMA AlikeSelf == \A f, X : Alike(f, f, X)
BY DEF Alike

LEMMA Bound ==
    ASSUME FramesInv, frames # <<>>, NEW n \in Nat, NEW m \in Nat, n <= m,
           Top.env \in [Local -> 0 .. n], NEW x \in Local, NEW v \in 0 .. m
    PROVE  /\ Framed(Bind(x, v)) /\ Alike(Top, Bind(x, v), {"env"})
           /\ Bind(x, v).env \in [Local -> 0 .. m] /\ Bind(x, v).prot = Top.prot
<1>1. PICK e, f : e = [Top.env EXCEPT ![x] = v] /\ f = [Top EXCEPT !.env = e]
  OBVIOUS
<1>2. e \in [Local -> 0 .. m]
  BY <1>1
<1>3. Framed(Top)
  BY Running
<1>4. Alike(Top, f, {"env"}) /\ f.env = e
  <2>1. PICK t : t = Top
    OBVIOUS
  <2>2. Framed(t) /\ f = [t EXCEPT !.env = e]
    BY <1>1, <1>3, <2>1
  <2>3. Alike(t, f, {"env"}) /\ f.env = e
    BY <2>2, Fixed
  <2> QED BY <2>1, <2>3
<1>5. f = Bind(x, v)
  BY <1>1 DEF Bind
<1>6. Framed(Bind(x, v))
  BY Binds DEF Like
<1>7. f.prot = Top.prot
  BY <1>4, AlikeFields
<1> QED BY <1>2, <1>4, <1>5, <1>6, <1>7

(* The function on top goes on to its next step.                           *)
Onwards ==
    \E g : /\ frames' = Append(Front(frames), g) /\ Alike(Top, g, {"code", "env", "n", "prot"})
           /\ g.code = Tail(Top.code) /\ g.env \in [Local -> 0 .. Len(heap')] /\ g.prot \in Nat

Coded(f, c) == [f EXCEPT !.code = c]

LEMMA GoingTo ==
    ASSUME NEW f, Framed(f), NEW X, Alike(Top, f, X), NEW c
    PROVE  /\ Goto(f, c) = Append(Front(frames), Coded(f, c))
           /\ Alike(Top, Coded(f, c), X \cup {"code"})
           /\ Coded(f, c).code = c /\ Coded(f, c).env = f.env /\ Coded(f, c).prot = f.prot
<1>1. PICK g : g = [f EXCEPT !.code = c]
  OBVIOUS
<1>2. Alike(f, g, {"code"}) /\ g.code = c
  BY <1>1, Fixed
<1>3. g.env = f.env /\ g.prot = f.prot
  BY <1>2, AlikeFields
<1>4. Alike(Top, g, X \cup {"code"})
  BY <1>2, AlikeThrough
<1> QED BY <1>1, <1>2, <1>3, <1>4 DEF Goto, Coded

LEMMA Advanced ==
    ASSUME NEW f, Framed(f), Alike(Top, f, {"env", "n", "prot"}), f.env \in [Local -> 0 .. Len(heap')],
           f.prot \in Nat, frames' = Advance(f)
    PROVE  Onwards
<1>1. f.code = Top.code
  BY AlikeFields
<1>2. PICK c : c = Tail(Top.code)
  OBVIOUS
<1>3. frames' = Goto(f, c)
  BY <1>1, <1>2 DEF Advance
<1>4. /\ Goto(f, c) = Append(Front(frames), Coded(f, c))
      /\ Alike(Top, Coded(f, c), {"env", "n", "prot"} \cup {"code"})
      /\ Coded(f, c).code = c /\ Coded(f, c).env = f.env /\ Coded(f, c).prot = f.prot
  BY GoingTo
<1>5. {"env", "n", "prot"} \cup {"code"} = {"code", "env", "n", "prot"}
  OBVIOUS
<1>6. Alike(Top, Coded(f, c), {"code", "env", "n", "prot"})
  BY <1>4, <1>5
<1> QED BY <1>2, <1>3, <1>4, <1>6 DEF Onwards

LEMMA AdvancedTop ==
    ASSUME FramesInv, HeapInv, FunctionsInv, frames # <<>>, frames' = Advance(Top),
           Len(heap') \in Nat, Len(heap) <= Len(heap')
    PROVE  Onwards
<1>1. Framed(Top) /\ Top.env \in [Local -> 0 .. Len(heap)] /\ Len(heap) \in Nat /\ Top.prot \in Nat
  BY TopIs
<1>2. Top.env \in [Local -> 0 .. Len(heap')]
  BY <1>1
<1> QED BY <1>1, <1>2, Advanced, AlikeSelf

(* The heap after a step.                                                  *)
HeapMoves ==
    /\ HeapInv' /\ Len(heap') \in Nat
    /\ Len(heap) <= Len(heap') \/ frames' = <<>>

Extended(h, k, q) ==
    /\ h \o q \in Seq(Cell(Len(heap) + k)) /\ Len(h \o q) = Len(heap) + k
    /\ \A o \in precious : (h \o q)[o].alive

LEMMA HeapExtended ==
    ASSUME HeapInv, NEW used, NEW h, Holding(h, used), NEW k \in Nat,
           NEW q \in Seq(Cell(Len(heap) + k)), Len(q) = k
    PROVE  Extended(h, k, q)
<1>1. PICK n, m : n = Len(heap) /\ m = Len(heap) + k
  OBVIOUS
<1>2. n \in Nat /\ m \in Nat /\ n <= m /\ m = n + k
  BY <1>1, HeapIs
<1>3. h \in Seq(Cell(m)) /\ Len(h) = n
  BY <1>1, <1>2, CellsWiden DEF Holding
<1>4. q \in Seq(Cell(m)) /\ Len(q) = k
  BY <1>1
<1>5. /\ h \o q \in Seq(Cell(m)) /\ Len(h \o q) = n + k /\ \A i \in 1 .. n : (h \o q)[i] = h[i]
  BY <1>2, <1>3, <1>4, Joined
<1>6. \A o \in precious : o \in 1 .. n /\ h[o].alive
  BY <1>1 DEF Holding, HeapInv
<1> QED BY <1>1, <1>2, <1>5, <1>6 DEF Extended

LEMMA ObjectsAre ==
    ASSUME NEW m \in Nat
    PROVE  /\ \A q \in Seq(0 .. m) : Object(q) \in Cell(m)
           /\ Object(<<>>) \in Cell(m)
           /\ \A a \in 0 .. m : Object(<<a>>) \in Cell(m)
           /\ \A a, b \in 0 .. m : Object(<<a, b>>) \in Cell(m)
<1>1. \A q \in Seq(0 .. m) : Object(q) \in Cell(m)
  BY DEF Object, Cell
<1>2. <<>> \in Seq(0 .. m) /\ \A a, b \in 0 .. m : <<a>> \in Seq(0 .. m) /\ <<a, b>> \in Seq(0 .. m)
  OBVIOUS
<1> QED BY <1>1, <1>2

LEMMA CapturedIs ==
    ASSUME NEW n \in Nat, NEW frame \in BOOLEAN, NEW item \in {"none", "stdout", "condition", "error"}
    PROVE  \E k \in Nat : /\ k >= 1 /\ Captured(n + 1, frame, item) \in Seq(Cell(n + k))
                          /\ Len(Captured(n + 1, frame, item)) = k
<1>1. PICK lv, li, k, m, i :
        /\ lv = (IF frame THEN 3 ELSE 1) /\ li = (IF item = "none" THEN 0 ELSE IF item = "stdout" THEN 3 ELSE 5)
        /\ k = 2 + lv + li /\ m = n + k /\ i = n + 1 + 2 + lv
  OBVIOUS
<1>2. /\ lv \in {1, 3} /\ li \in {0, 3, 5} /\ k \in Nat /\ k >= 1 /\ m \in Nat /\ i \in Nat
      /\ (li # 0 => i <= m) /\ n + 1 + 2 \in 0 .. m /\ n + 1 + 1 \in 0 .. m
      /\ n + 1 + 2 + lv - 1 \in 0 .. m
  BY <1>1
<1>3. PICK v : v = ValueObjects(n + 1 + 2, frame)
  OBVIOUS
<1>4. v \in Seq(Cell(m)) /\ Len(v) = lv
  <2>1. CASE frame
    <3>1. n + 1 + 2 + 1 \in 0 .. m /\ n + 1 + 2 + 2 \in 0 .. m
      BY <1>1, <1>2, <2>1
    <3>2. PICK a, b, c : /\ a = Object(<<n + 1 + 2 + 1>>) /\ b = Object(<<n + 1 + 2 + 2>>)
                         /\ c = Object(<<>>)
      OBVIOUS
    <3>3. a \in Cell(m) /\ b \in Cell(m) /\ c \in Cell(m)
      BY <1>2, <3>1, <3>2, ObjectsAre
    <3>4. v = <<a, b, c>>
      BY <1>3, <2>1, <3>2 DEF ValueObjects
    <3> QED BY <1>1, <2>1, <3>3, <3>4, TripleOf
  <2>2. CASE ~ frame
    <3>1. PICK c : c = Object(<<>>)
      OBVIOUS
    <3>2. c \in Cell(m) /\ v = <<c>>
      BY <1>2, <1>3, <2>2, <3>1, ObjectsAre DEF ValueObjects
    <3> QED BY <1>1, <2>2, <3>2
  <2> QED BY <2>1, <2>2
<1>5. PICK r : r = (IF item = "none" THEN <<>> ELSE IF item = "stdout" THEN Line(i) ELSE Item(i))
  OBVIOUS
<1>6. r \in Seq(Cell(m)) /\ Len(r) = li
  <2>1. CASE item = "none"
    <3>1. r = <<>>
      BY <1>5, <2>1
    <3> QED BY <1>1, <2>1, <3>1
  <2>2. CASE item = "stdout"
    <3>1. i + 1 \in 0 .. m /\ i + 2 \in 0 .. m
      BY <1>1, <1>2, <2>2
    <3>2. PICK a, b : a = Object(<<i + 1, i + 2>>) /\ b = Object(<<>>)
      OBVIOUS
    <3>3. a \in Cell(m) /\ b \in Cell(m)
      BY <1>2, <3>1, <3>2, ObjectsAre
    <3>4. r = <<a, b, b>>
      BY <1>5, <2>2, <3>2 DEF Line
    <3> QED BY <1>1, <2>2, <3>3, <3>4, TripleOf
  <2>3. CASE item # "none" /\ item # "stdout"
    <3>1. i + 1 \in 0 .. m /\ i + 2 \in 0 .. m /\ i + 3 \in 0 .. m /\ i + 4 \in 0 .. m
      BY <1>1, <1>2, <2>3
    <3>2. PICK a, b, c : a = Object(<<i + 1, i + 2>>) /\ b = Object(<<>>) /\ c = Object(<<i + 3, i + 4>>)
      OBVIOUS
    <3>3. a \in Cell(m) /\ b \in Cell(m) /\ c \in Cell(m)
      BY <1>2, <3>1, <3>2, ObjectsAre
    <3>4. r = <<a, b, c, b, b>>
      BY <1>5, <2>3, <3>2 DEF Item
    <3> QED BY <1>1, <2>3, <3>3, <3>4, FiveOf
  <2> QED BY <2>1, <2>2, <2>3
<1>7. PICK a, b : /\ a = Object(<<n + 1 + 2, n + 1 + 1>>)
                  /\ b = Object(IF item = "none" THEN <<>> ELSE <<i>>)
  OBVIOUS
<1>8. a \in Cell(m) /\ b \in Cell(m)
  <2>1. a \in Cell(m)
    BY <1>2, <1>7, ObjectsAre
  <2>2. item # "none" => i \in 0 .. m
    BY <1>1, <1>2
  <2>3. b = Object(<<>>) \/ (i \in 0 .. m /\ b = Object(<<i>>))
    BY <1>7, <2>2
  <2>4. b \in Cell(m)
    BY <1>2, <2>3, ObjectsAre
  <2> QED BY <2>1, <2>4
<1>9. PICK p : p = <<a, b>>
  OBVIOUS
<1>10. p \in Seq(Cell(m)) /\ Len(p) = 2
  BY <1>8, <1>9, PairOf
<1>11. p \o v \in Seq(Cell(m)) /\ Len(p \o v) = 2 + lv
  <2>1. PICK l : l = 2
    OBVIOUS
  <2>2. l \in Nat /\ lv \in Nat /\ Len(p) = l /\ p \in Seq(Cell(m))
    BY <1>2, <1>10, <2>1
  <2>3. p \o v \in Seq(Cell(m)) /\ Len(p \o v) = l + lv
    BY <1>4, <2>2, Joined
  <2> QED BY <2>1, <2>3
<1>12. PICK w : w = p \o v
  OBVIOUS
<1>13. w \in Seq(Cell(m)) /\ Len(w) = 2 + lv /\ 2 + lv \in Nat /\ li \in Nat
  BY <1>2, <1>11, <1>12
<1>14. w \o r \in Seq(Cell(m)) /\ Len(w \o r) = 2 + lv + li
  BY <1>6, <1>13, Joined
<1>15. n + 1 + 2 + Len(v) = i
  BY <1>1, <1>4
<1>16. Captured(n + 1, frame, item) = w \o r
  BY <1>3, <1>5, <1>7, <1>9, <1>12, <1>15 DEF Captured
<1> QED BY <1>1, <1>2, <1>14, <1>16

HeapGrows == HeapInv' /\ Len(heap') \in Nat /\ Len(heap) <= Len(heap')

LEMMA HeapStays ==
    ASSUME HeapInv, UNCHANGED <<heap, stack, precious, held>>
    PROVE  HeapGrows
BY HeapIs DEF HeapInv, HeapGrows

LEMMA HeapChanged ==
    ASSUME HeapInv, UNCHANGED <<stack, precious, held>>, NEW n \in Nat, n = Len(heap'),
           Len(heap) <= n, heap' \in Seq(Cell(n)), \A o \in precious : heap'[o].alive
    PROVE  HeapGrows
<1>1. stack' \in Seq(0 .. n)
  <2>1. stack \in Seq(0 .. Len(heap)) /\ Len(heap) \in Nat
    BY HeapIs DEF HeapInv
  <2>2. stack \in Seq(0 .. n)
    BY <2>1, CellsWiden
  <2> QED BY <2>2
<1>2. precious' \subseteq 1 .. n /\ held' \subseteq 1 .. n
  <2>1. \A x \in 1 .. Len(heap) : x \in 1 .. n
    BY HeapIs
  <2> QED BY <2>1 DEF HeapInv
<1>3. HeapInv'
  BY <1>1, <1>2 DEF HeapInv
<1> QED BY <1>3 DEF HeapGrows

LEMMA HeapHeld ==
    ASSUME HeapInv, UNCHANGED <<stack, precious, held>>, NEW used, Holding(heap', used)
    PROVE  HeapGrows
<1>1. PICK n : n = Len(heap)
  OBVIOUS
<1>2. n \in Nat /\ Len(heap') = n /\ heap' \in Seq(Cell(n)) /\ \A o \in precious : heap'[o].alive
  BY <1>1, HeapIs DEF Holding
<1> QED BY <1>1, <1>2, HeapChanged

LEMMA Allocates ==
    ASSUME FramesInv, HeapInv, FunctionsInv, Allocate
    PROVE  HeapGrows /\ Onwards
<1>1. frames # <<>> /\ Step.op = "alloc" /\ UNCHANGED <<stack, precious, held>>
  BY DEF Allocate, At, Step, historyVars
<1>2. PICK n : n = Len(heap)
  OBVIOUS
<1>3. /\ n \in Nat /\ Top.env \in [Local -> 0 .. n] /\ Step.to \in Local /\ Step.of \in Seq(Local)
      /\ Top.prot \in Nat
  BY <1>1, <1>2, TopIs DEF Fields
<1>4. PICK used, h, q : /\ used = Values(Step.of) /\ h = Collected(used)
                        /\ q = [i \in DOMAIN Step.of |-> Top.env[Step.of[i]]]
  OBVIOUS
<1>5. used \subseteq 0 .. n
  BY <1>3, <1>4, ValuesAre
<1>6. Holding(h, used)
  BY <1>2, <1>4, <1>5, HeapKept
<1>7. q \in Seq(0 .. n)
  <2>1. Len(Step.of) \in Nat /\ DOMAIN Step.of = 1 .. Len(Step.of)
        /\ \A i \in 1 .. Len(Step.of) : Step.of[i] \in Local
    BY <1>3
  <2>2. q \in [1 .. Len(Step.of) -> 0 .. n]
    BY <1>3, <1>4, <2>1
  <2> QED BY <2>1, <2>2, FunctionSeq
<1>8. PICK c : c = Object(q)
  OBVIOUS
<1>9. n + 1 \in Nat /\ n <= n + 1
  BY <1>3
<1>10. c \in Cell(n + 1)
  <2>1. q \in Seq(0 .. n + 1)
    BY <1>3, <1>7, <1>9, CellsWiden
  <2> QED BY <1>8, <1>9, <2>1, ObjectsAre
<1>11. h \in Seq(Cell(n + 1))
  BY <1>2, <1>3, <1>6, <1>9, CellsWiden DEF Holding
<1>12. heap' = h \o <<c>>
  <2>1. heap' = Append(h, c)
    BY <1>4, <1>8 DEF Allocate
  <2>2. Append(h, c) = h \o <<c>>
    BY <1>10, <1>11, AppendIs
  <2> QED BY <2>1, <2>2
<1>13. PICK s, k : s = <<c>> /\ k = 1
  OBVIOUS
<1>14. s \in Seq(Cell(n + k)) /\ Len(s) = k /\ k \in Nat
  BY <1>10, <1>13
<1>15. /\ heap' \in Seq(Cell(n + k)) /\ Len(heap') = n + k
       /\ \A o \in precious : heap'[o].alive
  <2>1. Holding(h, used) /\ k \in Nat /\ Len(s) = k
    BY <1>6, <1>14
  <2>2. s \in Seq(Cell(Len(heap) + k))
    BY <1>2, <1>14
  <2>3. /\ h \o s \in Seq(Cell(Len(heap) + k)) /\ Len(h \o s) = Len(heap) + k
        /\ \A o \in precious : (h \o s)[o].alive
    <3>1. Extended(h, k, s)
      BY <2>1, <2>2, HeapExtended
    <3> QED BY <3>1 DEF Extended
  <2>4. heap' = h \o s
    BY <1>12, <1>13
  <2> QED BY <1>2, <2>3, <2>4
<1>16. HeapGrows
  <2>1. n + k \in Nat /\ n <= n + k
    BY <1>3, <1>14
  <2> QED BY <1>1, <1>2, <1>15, <2>1, HeapChanged
<1>17. Len(heap') = n + 1 /\ n + 1 \in 0 .. n + 1
  BY <1>3, <1>13, <1>15
<1>18. frames' = Advance(Bind(Step.to, n + 1))
  BY <1>2 DEF Allocate
<1>19. PICK f : f = Bind(Step.to, n + 1)
  OBVIOUS
<1>20. Framed(f) /\ Alike(Top, f, {"env"}) /\ f.env \in [Local -> 0 .. n + 1] /\ f.prot \in Nat
  BY <1>1, <1>3, <1>9, <1>17, <1>19, Bound
<1>21. Alike(Top, f, {"env", "n", "prot"})
  BY <1>20, AlikeMore
<1>22. Onwards
  BY <1>17, <1>18, <1>19, <1>20, <1>21, Advanced
<1> QED BY <1>16, <1>22

Fielded(h, k, v) == [h EXCEPT ![k].fields = Append(@, v)]

LEMMA FieldAdded ==
    ASSUME NEW n \in Nat, NEW h \in Seq(Cell(n)), Len(h) = n, NEW k, NEW v \in 0 .. n
    PROVE  /\ Fielded(h, k, v) \in Seq(Cell(n)) /\ Len(Fielded(h, k, v)) = n
           /\ \A o \in 1 .. n : Fielded(h, k, v)[o].alive <=> h[o].alive
<1>6. PICK g : g = Fielded(h, k, v)
  OBVIOUS
<1>0. DOMAIN h = 1 .. n
  OBVIOUS
<1>4. PICK w : w = [h[k] EXCEPT !.fields = Append(h[k].fields, v)]
  OBVIOUS
<1>5. g = [h EXCEPT ![k] = w]
  BY <1>4, <1>6 DEF Fielded
<1>1. DOMAIN g = 1 .. n /\ g = [o \in 1 .. n |-> g[o]] /\ \A o \in 1 .. n : g[o] = IF o = k THEN w ELSE h[o]
  BY <1>0, <1>5
<1>2. ASSUME NEW o \in 1 .. n PROVE g[o] \in Cell(n) /\ (g[o].alive <=> h[o].alive)
  <2>1. h[o] \in Cell(n)
    OBVIOUS
  <2>2. CASE o = k
    <3>1. PICK c, q : c = h[o] /\ q = Append(c.fields, v)
      OBVIOUS
    <3>2. c.fields \in Seq(0 .. n) /\ c \in Cell(n)
      BY <2>1, <3>1 DEF Cell
    <3>3. q \in Seq(0 .. n)
      BY <3>1, <3>2
    <3>4. g[o] = [c EXCEPT !.fields = q]
      BY <1>1, <1>4, <2>2, <3>1
    <3>5. g[o] = [alive |-> c.alive, fields |-> q]
      BY <3>2, <3>4 DEF Cell
    <3>6. c.alive \in BOOLEAN
      BY <3>2 DEF Cell
    <3>7. g[o] \in Cell(n)
      BY <3>3, <3>5, <3>6 DEF Cell
    <3>8. g[o].alive = c.alive
      <4>1. PICK r : r = [alive |-> c.alive, fields |-> q]
        OBVIOUS
      <4>2. r.alive = c.alive
        BY <4>1
      <4> QED BY <3>5, <4>1, <4>2
    <3> QED BY <3>1, <3>7, <3>8
  <2>3. CASE o # k
    <3>1. g[o] = h[o]
      BY <1>1, <2>3
    <3> QED BY <2>1, <3>1
  <2> QED BY <2>2, <2>3
<1>3. g \in [1 .. n -> Cell(n)]
  BY <1>1, <1>2
<1> QED BY <1>2, <1>3, <1>6, FunctionSeq

LEMMA AddsField ==
    ASSUME FramesInv, HeapInv, FunctionsInv, AddField
    PROVE  HeapGrows /\ Onwards
<1>1. frames # <<>> /\ Step.op \in {"attach", "link"} /\ UNCHANGED <<stack, precious, held>>
      /\ frames' = Advance(Top)
  BY DEF AddField, At, Step, historyVars
<1>2. PICK n : n = Len(heap)
  OBVIOUS
<1>3. /\ n \in Nat /\ Top.env \in [Local -> 0 .. n] /\ Step.to \in Local /\ Step.of \in Local
  BY <1>1, <1>2, TopIs DEF Fields
<1>4. PICK used, h, k, v :
        /\ used = Values(<<Step.to, Step.of>>)
        /\ h = (IF Step.op = "attach" THEN Collected(used) ELSE Revived(used))
        /\ k = Top.env[Step.to] /\ v = Top.env[Step.of]
  OBVIOUS
<1>5. used \subseteq 0 .. n /\ v \in 0 .. n
  BY <1>3, <1>4, ValuesAre
<1>6. Holding(h, used)
  <2>1. Holding(Collected(used), used) /\ Holding(Revived(used), used)
    BY <1>2, <1>5, HeapKept
  <2> QED BY <1>4, <2>1
<1>7. heap' = [h EXCEPT ![k].fields = Append(@, v)]
  BY <1>4 DEF AddField
<1>8. h \in Seq(Cell(n)) /\ Len(h) = n /\ \A o \in precious : h[o].alive
  BY <1>2, <1>6 DEF Holding
<1>9. PICK g : g = heap'
  OBVIOUS
<1>10. g \in Seq(Cell(n)) /\ Len(g) = n /\ \A o \in 1 .. n : g[o].alive <=> h[o].alive
  <2>1. g = Fielded(h, k, v)
    BY <1>7, <1>9 DEF Fielded
  <2> QED BY <1>3, <1>5, <1>8, <2>1, FieldAdded
<1>11. \A o \in precious : g[o].alive
  BY <1>2, <1>8, <1>10 DEF HeapInv
<1>12. HeapGrows
  BY <1>1, <1>2, <1>3, <1>9, <1>10, <1>11, HeapChanged
<1> QED BY <1>1, <1>12, AdvancedTop DEF HeapGrows

LEMMA ElementIs ==
    ASSUME NEW S, NEW q \in Seq(S), NEW i \in DOMAIN q
    PROVE  q[i] \in S
OBVIOUS

LEMMA FieldValue ==
    ASSUME HeapInv, NEW o \in 0 .. Len(heap), NEW i, HasField(o, i)
    PROVE  heap[o].fields[i] \in 0 .. Len(heap)
<1>1. o \in 1 .. Len(heap) /\ Len(heap) \in Nat
  BY HeapIs DEF HasField
<1>2. PICK c, n : c = heap[o] /\ n = Len(heap)
  OBVIOUS
<1>3. c.fields \in Seq(0 .. n) /\ i \in DOMAIN c.fields
  BY <1>1, <1>2, HeapIs DEF HasField, Cell
<1>4. c.fields[i] \in 0 .. n
  <2>1. PICK q : q = c.fields
    OBVIOUS
  <2>2. q \in Seq(0 .. n) /\ i \in DOMAIN q
    BY <1>3, <2>1
  <2>3. q[i] \in 0 .. n
    BY <2>2, ElementIs, Zenon
  <2> QED BY <2>1, <2>3
<1> QED BY <1>2, <1>4

LEMMA Reads ==
    ASSUME FramesInv, HeapInv, FunctionsInv, Read
    PROVE  HeapGrows /\ Onwards
<1>1. frames # <<>> /\ Step.op \in {"use", "field"} /\ UNCHANGED <<stack, precious, held>>
  BY DEF Read, At, Step, historyVars
<1>2. PICK n : n = Len(heap)
  OBVIOUS
<1>3. /\ n \in Nat /\ Top.env \in [Local -> 0 .. n] /\ Step.of \in Local
      /\ Top.prot \in Nat
      /\ Step.op = "field" => Step.to \in Local
  BY <1>1, <1>2, TopIs DEF Fields
<1>4. PICK o, used : o = Top.env[Step.of] /\ used = {o}
  OBVIOUS
<1>5. o \in 0 .. n /\ used \subseteq 0 .. n
  BY <1>3, <1>4
<1>6. Holding(heap', used)
  <2>1. heap' = Revived(used)
    BY <1>4 DEF Read
  <2> QED BY <1>2, <1>5, <2>1, HeapKept
<1>7. HeapGrows /\ Len(heap') = n
  BY <1>1, <1>2, <1>6, HeapHeld DEF Holding
<1>8. CASE Step.op = "use"
  <2>1. frames' = Advance(Top)
    BY <1>8 DEF Read
  <2> QED BY <1>1, <1>7, <2>1, AdvancedTop DEF HeapGrows
<1>9. CASE Step.op # "use"
  <2>1. PICK v : v = (IF HasField(o, Step.at) THEN heap[o].fields[Step.at] ELSE 0)
    OBVIOUS
  <2>2. v \in 0 .. n
    <3>1. HasField(o, Step.at) => heap[o].fields[Step.at] \in 0 .. n
      BY <1>2, <1>5, FieldValue
    <3> QED BY <1>3, <2>1, <3>1
  <2>3. frames' = Advance(Bind(Step.to, v))
    BY <1>4, <1>9, <2>1 DEF Read
  <2>4. PICK f : f = Bind(Step.to, v)
    OBVIOUS
  <2>5. Step.to \in Local /\ n <= n
    BY <1>1, <1>3, <1>9
  <2>6. Framed(f) /\ Alike(Top, f, {"env"}) /\ f.env \in [Local -> 0 .. n] /\ f.prot \in Nat
    BY <1>1, <1>3, <2>2, <2>4, <2>5, Bound
  <2>7. Alike(Top, f, {"env", "n", "prot"})
    BY <2>6, AlikeMore
  <2> QED BY <1>7, <2>3, <2>4, <2>6, <2>7, Advanced
<1> QED BY <1>8, <1>9

Slotted(q, k, v) == [q EXCEPT ![k] = v]

LEMMA StackSet ==
    ASSUME NEW S, NEW q \in Seq(S), NEW v \in S, NEW k
    PROVE  Append(q, v) \in Seq(S) /\ Slotted(q, k, v) \in Seq(S)
<1>1. Append(q, v) \in Seq(S)
  OBVIOUS
<1>2. PICK m, g : m = Len(q) /\ g = Slotted(q, k, v)
  OBVIOUS
<1>3. m \in Nat /\ q \in [1 .. m -> S]
  BY <1>2
<1>4. g \in [1 .. m -> S]
  BY <1>2, <1>3 DEF Slotted
<1>5. g \in Seq(S)
  BY <1>3, <1>4, FunctionSeq
<1> QED BY <1>1, <1>2, <1>5

LEMMA StackChanged ==
    ASSUME HeapInv, UNCHANGED <<precious, held>>, NEW used, Holding(heap', used),
           stack' \in Seq(0 .. Len(heap))
    PROVE  HeapGrows
<1>1. Len(heap') = Len(heap) /\ Len(heap) \in Nat
  BY HeapIs DEF Holding
<1>2. heap' \in Seq(Cell(Len(heap'))) /\ stack' \in Seq(0 .. Len(heap'))
  BY <1>1 DEF Holding
<1>3. \A o \in precious : heap'[o].alive
  BY DEF Holding
<1>4. precious' \subseteq 1 .. Len(heap') /\ held' \subseteq 1 .. Len(heap')
  BY <1>1 DEF HeapInv
<1>5. HeapInv'
  BY <1>2, <1>3, <1>4 DEF HeapInv
<1> QED BY <1>1, <1>5 DEF HeapGrows

(* The innermost function counts again what it unprotects.                 *)
LEMMA Recounted ==
    ASSUME FramesInv, HeapInv, FunctionsInv, frames # <<>>, HeapGrows,
           NEW m, NEW h, h = Top \/ h = [Top EXCEPT !.n = m], NEW k \in Nat,
           NEW f, f = [h EXCEPT !.prot = k], frames' = Advance(f)
    PROVE  Onwards
<1>1. PICK t : t = Top
  OBVIOUS
<1>2. Framed(t) /\ Like(t, t) /\ t.env \in [Local -> 0 .. Len(heap)] /\ Len(heap) \in Nat
  BY <1>1, Running, TopIs DEF Like
<1>3. Alike(t, h, {"n"}) /\ Like(h, t)
  <2>1. CASE h = Top
    BY <1>1, <1>2, <2>1, AlikeSelf
  <2>2. CASE h = [Top EXCEPT !.n = m]
    BY <1>1, <1>2, <2>2, Fixed, Edited
  <2> QED BY <2>1, <2>2
<1>4. Alike(h, f, {"prot"}) /\ f.prot = k /\ Like(f, t)
  <2>1. Framed(h)
    BY <1>3 DEF Like
  <2>2. Alike(h, f, {"prot"}) /\ f.prot = k
    BY <2>1, Fixed
  <2>3. Like(f, t)
    BY <1>3, Edited
  <2> QED BY <2>2, <2>3
<1>5. Alike(t, f, {"n"} \cup {"prot"})
  BY <1>3, <1>4, AlikeThrough
<1>6. Alike(t, f, {"env", "n", "prot"})
  BY <1>5, AlikeMore
<1>7. f.env = t.env
  <2>1. Alike(t, f, {"n", "prot"})
    BY <1>5, AlikeMore
  <2>2. "env" \notin {"n", "prot"}
    OBVIOUS
  <2> QED BY <2>1, <2>2, AlikeFields
<1>8. f.env \in [Local -> 0 .. Len(heap')]
  <2>1. \A x \in 0 .. Len(heap) : x \in 0 .. Len(heap')
    BY <1>2 DEF HeapGrows
  <2> QED BY <1>2, <1>7, <2>1
<1>9. Framed(f)
  BY <1>4 DEF Like
<1> QED BY <1>1, <1>4, <1>6, <1>8, <1>9, Advanced

LEMMA StackDrops ==
    ASSUME FramesInv, HeapInv, FunctionsInv, frames # <<>>
    PROVE  Popped(Top) \in Seq(0 .. Len(heap))
<1>1. PICK S, q, m : S = 0 .. Len(heap) /\ q = stack /\ m = Len(stack) - Top.prot
  OBVIOUS
<1>2. q \in Seq(S) /\ Len(q) \in Nat /\ Top.prot \in Nat
  BY <1>1, TopIs DEF HeapInv
<1>3. m \in Int /\ m <= Len(q)
  BY <1>1, <1>2
<1>4. 1 \in Int /\ \A i \in 1 .. m : q[i] \in S
  <2>1. \A i \in 1 .. m : i \in 1 .. Len(q)
    BY <1>2, <1>3
  <2> QED BY <1>2, <2>1
<1>5. SubSeq(q, 1, m) \in Seq(S)
  BY <1>3, <1>4, SubSeqProperties
<1> QED BY <1>1, <1>5 DEF Popped

LEMMA ProtectsHeap ==
    ASSUME FramesInv, HeapInv, FunctionsInv, ProtectObject \/ ReprotectObject
    PROVE  HeapGrows /\ Onwards
<1>1. /\ frames # <<>> /\ Step.op \in {"protect", "protectInc", "reprotect"} /\ UNCHANGED <<precious, held>>
      /\ heap' = Revived(Values(<<Step.of>>))
  BY DEF ProtectObject, ReprotectObject, At, Step, historyVars
<1>2. PICK n : n = Len(heap)
  OBVIOUS
<1>3. n \in Nat /\ Top.env \in [Local -> 0 .. n] /\ Step.of \in Local
  BY <1>1, <1>2, TopIs DEF Fields
<1>4. PICK v, used : v = Top.env[Step.of] /\ used = Values(<<Step.of>>)
  OBVIOUS
<1>5. v \in 0 .. n /\ used \subseteq 0 .. n
  BY <1>3, <1>4, ValuesAre
<1>6. Holding(heap', used)
  BY <1>1, <1>2, <1>4, <1>5, HeapKept
<1>7. stack' \in Seq(0 .. n)
  <2>1. stack \in Seq(0 .. n)
    BY <1>2 DEF HeapInv
  <2>2. stack' = Append(stack, v) \/ \E k : stack' = Slotted(stack, k, v)
    BY <1>4 DEF ProtectObject, ReprotectObject, Slotted
  <2> QED BY <1>5, <2>1, <2>2, StackSet
<1>8. HeapGrows /\ Len(heap') = n
  BY <1>1, <1>2, <1>6, <1>7, StackChanged DEF Holding
<1>9. CASE ProtectObject
  <2>1. PICK t, m, k, h, f : /\ t = Top /\ m = t.n + 1 /\ h = [t EXCEPT !.n = m]
                             /\ k = (IF Step.op = "protectInc" THEN t.prot + 1 ELSE t.prot)
                             /\ f = [h EXCEPT !.prot = k]
    OBVIOUS
  <2>2. frames' = Advance(f)
    <3>1. frames' = Advance([t EXCEPT !.n = m, !.prot = k])
      BY <1>9, <2>1 DEF ProtectObject
    <3>2. [t EXCEPT !.n = m, !.prot = k] = f
      BY <2>1
    <3> QED BY <3>1, <3>2
  <2>3. k \in Nat
    BY <1>1, <2>1, TopIs
  <2>4. h = [Top EXCEPT !.n = m]
    BY <2>1
  <2> QED BY <1>1, <1>8, <2>1, <2>2, <2>3, <2>4, Recounted
<1>10. CASE ReprotectObject
  <2>1. frames' = Advance(Top)
    BY <1>10 DEF ReprotectObject
  <2> QED BY <1>1, <1>8, <2>1, AdvancedTop DEF HeapGrows
<1> QED BY <1>9, <1>10

LEMMA Unprotects ==
    ASSUME FramesInv, HeapInv, FunctionsInv, EnterTry \/ Unprotect
    PROVE  HeapGrows /\ Onwards
<1>1. /\ frames # <<>> /\ Step.op \in {"try", "unprotect"} /\ UNCHANGED <<heap, precious, held>>
  BY DEF EnterTry, Unprotect, At, Step, rVars, historyVars
<1>2. CASE EnterTry
  <2>1. HeapGrows
    BY <1>1, <1>2, HeapStays DEF EnterTry, rVars
  <2>2. PICK h, k, f : h = Top /\ k = h.prot + Step.count /\ f = [h EXCEPT !.prot = k]
    OBVIOUS
  <2>3. frames' = Advance(f)
    BY <1>2, <2>2 DEF EnterTry
  <2>4. k \in Nat
    <3>1. Step.op = "try"
      BY <1>2 DEF EnterTry, At, Step
    <3>2. h.prot \in Nat /\ Step.count \in Nat
      BY <1>1, <2>2, <3>1, TopIs DEF Fields
    <3> QED BY <2>2, <3>2
  <2> QED BY <1>1, <2>1, <2>2, <2>3, <2>4, Recounted
<1>3. CASE Unprotect
  <2>1. stack' \in Seq(0 .. Len(heap))
    BY <1>1, <1>3, StackDrops DEF Unprotect
  <2>2. HeapGrows
    <3>1. HeapInv'
      BY <1>1, <2>1 DEF HeapInv
    <3> QED BY <1>1, <3>1, HeapIs DEF HeapGrows
  <2>3. PICK t, m, k, h, f : /\ t = Top /\ m = t.n - t.prot /\ h = [t EXCEPT !.n = m]
                             /\ k = 0 /\ f = [h EXCEPT !.prot = k]
    OBVIOUS
  <2>4. frames' = Advance(f)
    <3>1. frames' = Advance([t EXCEPT !.n = m, !.prot = k])
      BY <1>3, <2>3 DEF Unprotect
    <3>2. [t EXCEPT !.n = m, !.prot = k] = f
      BY <2>3
    <3> QED BY <3>1, <3>2
  <2>5. h = [Top EXCEPT !.n = m] /\ k \in Nat
    BY <2>3
  <2> QED BY <1>1, <2>2, <2>3, <2>4, <2>5, Recounted
<1> QED BY <1>2, <1>3

LEMMA KeepsObject ==
    ASSUME FramesInv, HeapInv, FunctionsInv, KeepObject
    PROVE  HeapGrows /\ Onwards
<1>1. /\ frames # <<>> /\ Step.op = "keep" /\ UNCHANGED <<stack, held>> /\ frames' = Advance(Top)
  BY DEF KeepObject, At, Step, historyVars
<1>2. PICK n : n = Len(heap)
  OBVIOUS
<1>3. n \in Nat /\ Top.env \in [Local -> 0 .. n] /\ Step.of \in Local
  BY <1>1, <1>2, TopIs DEF Fields
<1>4. PICK o, used : o = Top.env[Step.of] /\ used = {o}
  OBVIOUS
<1>5. o \in 0 .. n /\ used \subseteq 0 .. n
  BY <1>3, <1>4
<1>6. heap' = Collected(used) /\ precious' = precious \cup (used \ {0})
  BY <1>4 DEF KeepObject
<1>7. Holding(heap', used)
  BY <1>2, <1>5, <1>6, HeapKept
<1>8. Len(heap') = n /\ heap' \in Seq(Cell(n)) /\ \A x \in precious' : heap'[x].alive
  BY <1>2, <1>6, <1>7 DEF Holding
<1>9. precious' \subseteq 1 .. n
  <2>1. precious \subseteq 1 .. n
    BY <1>2 DEF HeapInv
  <2>2. used \ {0} \subseteq 1 .. n
    BY <1>3, <1>4, <1>5
  <2> QED BY <1>6, <2>1, <2>2
<1>10. HeapInv'
  BY <1>1, <1>2, <1>8, <1>9 DEF HeapInv
<1>11. HeapGrows
  BY <1>2, <1>3, <1>8, <1>10 DEF HeapGrows
<1> QED BY <1>1, <1>11, AdvancedTop DEF HeapGrows

(* The code under evaluation ends with an error.                           *)
Raises ==
    \E g : /\ frames' = Append(Front(frames), g) /\ Alike(Top, g, {"code", "env", "n", "prot"})
           /\ g.code = SubSeq(Tail(Top.code), 1, 2) \o RaiseError
           /\ g.env \in [Local -> 0 .. Len(heap')] /\ g.prot \in Nat

Fails == UNCHANGED frames /\ thrown' = "unwind"

LEMMA HeapJoined ==
    ASSUME HeapInv, UNCHANGED <<stack, precious, held>>, NEW used, NEW h, Holding(h, used), NEW k \in Nat,
           NEW q \in Seq(Cell(Len(heap) + k)), Len(q) = k, heap' = h \o q
    PROVE  HeapGrows /\ Len(heap') = Len(heap) + k
<1>1. /\ h \o q \in Seq(Cell(Len(heap) + k)) /\ Len(h \o q) = Len(heap) + k
      /\ \A o \in precious : (h \o q)[o].alive
  <2>1. Extended(h, k, q)
    BY HeapExtended
  <2> QED BY <2>1 DEF Extended
<1>2. PICK n, m : n = Len(heap) /\ m = n + k
  OBVIOUS
<1>3. n \in Nat /\ m \in Nat /\ n <= m
  BY <1>2, HeapIs
<1>4. heap' \in Seq(Cell(m)) /\ Len(heap') = m /\ \A o \in precious : heap'[o].alive
  BY <1>1, <1>2
<1> QED BY <1>2, <1>3, <1>4, HeapChanged

LEMMA Evaluates ==
    ASSUME FramesInv, HeapInv, FunctionsInv, Evaluate
    PROVE  HeapGrows /\ ((Onwards /\ UNCHANGED thrown) \/ (Fails /\ ~ Step.sure))
<1>1. frames # <<>> /\ Step.op = "eval" /\ UNCHANGED <<stack, precious, held>>
  BY DEF Evaluate, At, Step, historyVars
<1>2. PICK n : n = Len(heap)
  OBVIOUS
<1>3. n \in Nat /\ Top.env \in [Local -> 0 .. n] /\ Step.of \in Local /\ Step.to \in Local
      /\ Top.prot \in Nat
  BY <1>1, <1>2, TopIs DEF Fields
<1>4. PICK o, used, h : o = Top.env[Step.of] /\ used = Values(<<"call", Step.of>>) /\ h = Collected(used)
  OBVIOUS
<1>5. o \in 0 .. n /\ used \subseteq 0 .. n
  BY <1>3, <1>4, ValuesAre, LocalsAre
<1>6. Holding(h, used)
  BY <1>2, <1>4, <1>5, HeapKept
<1>7. PICK own : own = HasField(o, Step.at)
  OBVIOUS
<1>8. PICK q, v : /\ q = (IF own THEN <<>> ELSE <<Object(<<>>)>>)
                  /\ v = (IF own THEN heap[o].fields[Step.at] ELSE Len(heap) + 1)
  OBVIOUS
<1>9. \/ heap' = h \o q /\ frames' = Advance(Bind(Step.to, v)) /\ UNCHANGED thrown
      \/ ~ Step.sure /\ heap' = h /\ thrown' = "unwind" /\ UNCHANGED frames
  BY <1>4, <1>7, <1>8 DEF Evaluate
<1>10. CASE ~ Step.sure /\ heap' = h /\ thrown' = "unwind" /\ UNCHANGED frames
  <2>1. HeapGrows
    BY <1>1, <1>6, <1>10, HeapHeld
  <2> QED BY <1>10, <2>1 DEF Fails
<1>11. CASE heap' = h \o q /\ frames' = Advance(Bind(Step.to, v)) /\ UNCHANGED thrown
  <2>1. PICK k \in Nat : k = (IF own THEN 0 ELSE 1)
    OBVIOUS
  <2>2. q \in Seq(Cell(n + k)) /\ Len(q) = k
    <3>1. CASE own
      <4>1. q = <<>>
        BY <1>8, <3>1
      <4> QED BY <2>1, <3>1, <4>1
    <3>2. CASE ~ own
      <4>1. PICK c : c = Object(<<>>)
        OBVIOUS
      <4>2. q = <<c>> /\ n + k \in Nat
        BY <1>3, <1>8, <3>2, <4>1
      <4>3. c \in Cell(n + k)
        BY <4>1, <4>2, ObjectsAre
      <4> QED BY <2>1, <3>2, <4>2, <4>3
    <3> QED BY <3>1, <3>2
  <2>3. HeapGrows /\ Len(heap') = n + k
    <3>1. q \in Seq(Cell(Len(heap) + k)) /\ Len(q) = k
      BY <1>2, <2>2
    <3>2. heap' = h \o q
      BY <1>11
    <3>3. HeapGrows /\ Len(heap') = Len(heap) + k
      BY <1>1, <1>6, <2>1, <3>1, <3>2, HeapJoined
    <3> QED BY <1>2, <3>3
  <2>4. v \in 0 .. n + k
    <3>1. own => heap[o].fields[Step.at] \in 0 .. n
      BY <1>2, <1>5, <1>7, FieldValue
    <3>2. own => v \in 0 .. n
      BY <1>8, <3>1
    <3>3. ~ own => v = n + 1 /\ k = 1
      BY <1>2, <1>8, <2>1
    <3> QED BY <1>3, <2>1, <3>2, <3>3
  <2>5. PICK f : f = Bind(Step.to, v)
    OBVIOUS
  <2>6. n + k \in Nat /\ n <= n + k
    BY <1>3, <2>1
  <2>7. Framed(f) /\ Alike(Top, f, {"env"}) /\ f.env \in [Local -> 0 .. n + k] /\ f.prot \in Nat
    BY <1>1, <1>3, <2>4, <2>5, <2>6, Bound
  <2>8. Alike(Top, f, {"env", "n", "prot"})
    BY <2>7, AlikeMore
  <2>9. Onwards
    BY <1>11, <2>3, <2>5, <2>7, <2>8, Advanced
  <2> QED BY <1>11, <2>3, <2>9
<1> QED BY <1>9, <1>10, <1>11

LEMMA Finishes ==
    ASSUME FramesInv, HeapInv, FunctionsInv, FinishUser
    PROVE  HeapGrows /\ (((Onwards \/ Raises) /\ UNCHANGED thrown) \/ Fails)
<1>1. frames # <<>> /\ Step.op = "user" /\ UNCHANGED <<stack, precious, held>>
  BY DEF FinishUser, At, Step, historyVars
<1>2. PICK n : n = Len(heap)
  OBVIOUS
<1>3. n \in Nat /\ Top.env \in [Local -> 0 .. n] /\ Top.prot \in Nat
  BY <1>1, <1>2, TopIs
<1>4. PICK used, h, frame : /\ used = Values(<<"call">>) /\ h = Collected(used)
                            /\ frame = (Step.data.is = "frame")
  OBVIOUS
<1>5. used \subseteq 0 .. n /\ frame \in BOOLEAN
  BY <1>3, <1>4, ValuesAre, LocalsAre
<1>6. Holding(h, used)
  BY <1>2, <1>4, <1>5, HeapKept
<1>7. \/ \E item \in {"none", "stdout", "condition", "error"} : \E c :
           /\ heap' = h \o Captured(n + 1, frame, item)
           /\ frames' = Goto(Bind("ptr", n + 1), c) /\ UNCHANGED thrown
           /\ c = Tail(Top.code) \/ c = SubSeq(Tail(Top.code), 1, 2) \o RaiseError
      \/ heap' = h /\ thrown' = "unwind" /\ UNCHANGED frames
  BY <1>2, <1>4 DEF FinishUser
<1>8. CASE heap' = h /\ thrown' = "unwind" /\ UNCHANGED frames
  <2>1. HeapGrows
    BY <1>1, <1>6, <1>8, HeapHeld
  <2> QED BY <1>8, <2>1 DEF Fails
<1>9. ASSUME NEW item \in {"none", "stdout", "condition", "error"}, NEW c,
             heap' = h \o Captured(n + 1, frame, item),
             frames' = Goto(Bind("ptr", n + 1), c), UNCHANGED thrown,
             c = Tail(Top.code) \/ c = SubSeq(Tail(Top.code), 1, 2) \o RaiseError
      PROVE  HeapGrows /\ (Onwards \/ Raises)
  <2>1. PICK q : q = Captured(n + 1, frame, item)
    OBVIOUS
  <2>2. PICK k \in Nat : k >= 1 /\ q \in Seq(Cell(n + k)) /\ Len(q) = k
    BY <1>3, <1>5, <2>1, CapturedIs
  <2>3. HeapGrows /\ Len(heap') = n + k
    <3>1. q \in Seq(Cell(Len(heap) + k)) /\ Len(q) = k
      BY <1>2, <2>2
    <3>2. heap' = h \o q
      BY <1>9, <2>1
    <3>3. HeapGrows /\ Len(heap') = Len(heap) + k
      BY <1>1, <1>6, <2>2, <3>1, <3>2, HeapJoined
    <3> QED BY <1>2, <3>3
  <2>4. n + 1 \in 0 .. n + k /\ n + k \in Nat /\ n <= n + k
    BY <1>3, <2>2
  <2>5. PICK f : f = Bind("ptr", n + 1)
    OBVIOUS
  <2>6. Framed(f) /\ Alike(Top, f, {"env"}) /\ f.env \in [Local -> 0 .. n + k] /\ f.prot \in Nat
    BY <1>1, <1>3, <2>4, <2>5, Bound, LocalsAre
  <2>7. /\ Goto(f, c) = Append(Front(frames), Coded(f, c))
        /\ Alike(Top, Coded(f, c), {"env"} \cup {"code"})
        /\ Coded(f, c).code = c /\ Coded(f, c).env = f.env /\ Coded(f, c).prot = f.prot
    BY <2>6, GoingTo
  <2>8. PICK g : g = Coded(f, c)
    OBVIOUS
  <2>9. {"env"} \cup {"code"} \subseteq {"code", "env", "n", "prot"}
    OBVIOUS
  <2>10. Alike(Top, g, {"code", "env", "n", "prot"})
    BY <2>7, <2>8, <2>9, AlikeMore
  <2>11. /\ frames' = Append(Front(frames), g) /\ g.code = c /\ g.env \in [Local -> 0 .. Len(heap')] /\ g.prot \in Nat
    BY <1>9, <2>3, <2>5, <2>6, <2>7, <2>8
  <2>12. Onwards \/ Raises
    BY <1>9, <2>10, <2>11 DEF Onwards, Raises
  <2> QED BY <2>3, <2>12
<1> QED BY <1>7, <1>8, <1>9

(* What runs above a `finally', or above what is left before it, is calm.  *)
CalmInv ==
    \A i, j \in 1 .. Len(frames) :
        i < j /\ Late(frames[i]) => frames[j].fin = <<>> /\ Calm(frames[j].code)

ThrownInv ==
    /\ thrown \in {"none", "error", "unwind"}
    /\ thrown # "none" => \A i \in 1 .. Len(frames) : ~ Restoring(frames[i])

Quiet(f) == f.fin = <<>> /\ Calm(f.code)

(* The session's part of the frames is handed on.                          *)
Passing ==
    /\ \A i \in 1 .. Len(frames) :
          /\ i <= Len(frames') => Carries(frames[i], frames'[i])
          /\ i > Len(frames') => Clear(frames[i])
    /\ \A i \in 1 .. Len(frames') :
          i > Len(frames) => ~ Opened(frames'[i]) /\ frames'[i].before = {}

LEMMA CarriesSelf == \A f : Carries(f, f)
BY DEF Carries

LEMMA GoodWidens ==
    ASSUME NEW n \in Nat, NEW m \in Nat, n <= m, NEW f, Good(f, n)
    PROVE  Good(f, m)
<1>1. f.env \in [Local -> 0 .. m]
  <2>1. \A x \in 0 .. n : x \in 0 .. m
    OBVIOUS
  <2> QED BY <2>1 DEF Good
<1>2. Seq(Plain(n)) \subseteq Seq(Plain(m)) /\ Seq(Steps(n)) \subseteq Seq(Steps(m))
  BY StepsWiden
<1>3. Straight(f, n) => Straight(f, m)
  BY <1>2 DEF Straight
<1>4. Shaped(f, m)
  BY <1>2, <1>3 DEF Good, Shaped
<1> QED BY <1>1, <1>4 DEF Good

(* Sequences of frames.                                                    *)
LEMMA LastChanged ==
    ASSUME NEW S, NEW q \in Seq(S), q # <<>>, NEW g, NEW p, p = Append(Front(q), g)
    PROVE  /\ Len(q) \in Nat /\ Len(q) >= 1 /\ Len(p) = Len(q) /\ p[Len(q)] = g /\ Last(q) = q[Len(q)]
           /\ \A i \in 1 .. Len(q) - 1 : p[i] = q[i]
<1>1. PICK T, f, n : T = S \cup {g} /\ f = Front(q) /\ n = Len(q)
  OBVIOUS
<1>2. /\ n \in Nat /\ n >= 1 /\ f \in Seq(S) /\ Len(f) = n - 1 /\ \A i \in 1 .. n - 1 : f[i] = q[i]
      /\ Last(q) = q[n]
  BY <1>1, TopFacts
<1>3. f \in Seq(T) /\ g \in T
  BY <1>1, <1>2, SeqWidens
<1>4. /\ Len(Append(f, g)) = Len(f) + 1 /\ Append(f, g)[Len(f) + 1] = g
      /\ \A i \in 1 .. Len(f) : Append(f, g)[i] = f[i]
  BY <1>3, AppendIs
<1>5. Len(f) + 1 = n /\ p = Append(f, g)
  BY <1>1, <1>2
<1> QED BY <1>1, <1>2, <1>4, <1>5

LEMMA EndChanged ==
    ASSUME NEW S, NEW q \in Seq(S), q # <<>>, NEW g
    PROVE  /\ Len(Append(Front(q), g)) = Len(q) /\ Append(Front(q), g)[Len(q)] = g
           /\ \A i \in 1 .. Len(q) - 1 : Append(Front(q), g)[i] = q[i]
<1>1. PICK p : p = Append(Front(q), g)
  OBVIOUS
<1>2. Len(p) = Len(q) /\ p[Len(q)] = g /\ \A i \in 1 .. Len(q) - 1 : p[i] = q[i]
  BY <1>1, LastChanged
<1> QED BY <1>1, <1>2

LEMMA OneMore ==
    ASSUME NEW S, NEW q \in Seq(S), NEW g, NEW p, p = Append(q, g)
    PROVE  /\ Len(q) \in Nat /\ Len(p) = Len(q) + 1 /\ p[Len(q) + 1] = g
           /\ \A i \in 1 .. Len(q) : p[i] = q[i]
           /\ p \in Seq(S \cup {g})
<1>1. PICK T : T = S \cup {g}
  OBVIOUS
<1>2. q \in Seq(T) /\ g \in T /\ Len(q) \in Nat
  BY <1>1, SeqWidens
<1>3. /\ Len(Append(q, g)) = Len(q) + 1 /\ Append(q, g)[Len(q) + 1] = g
      /\ \A i \in 1 .. Len(q) : Append(q, g)[i] = q[i] /\ Append(q, g) \in Seq(T)
  BY <1>2, AppendIs
<1>4. Append(q, g) \in Seq(T)
  BY <1>2, AppendIs
<1> QED BY <1>1, <1>2, <1>3, <1>4

LEMMA GoodKept ==
    ASSUME HeapInv, FunctionsInv, HeapGrows, NEW i \in 1 .. Len(frames)
    PROVE  Good(frames[i], Len(heap'))
<1>1. Len(heap) \in Nat /\ Len(heap') \in Nat /\ Len(heap) <= Len(heap') /\ Good(frames[i], Len(heap))
  BY HeapIs DEF HeapGrows, FunctionsInv
<1> QED BY <1>1, GoodWidens

LEMMA Proceeded ==
    ASSUME FramesInv, HeapInv, FunctionsInv, CalmInv, HeapGrows, frames # <<>>,
           NEW g, frames' = Append(Front(frames), g), Good(g, Len(heap')), Quiet(Top) => Quiet(g)
    PROVE  /\ FunctionsInv' /\ CalmInv' /\ (Carries(Top, g) => Passing)
           /\ Len(frames') = Len(frames) /\ Len(frames) \in Nat /\ Len(frames) >= 1
           /\ frames'[Len(frames)] = g /\ Top = frames[Len(frames)]
           /\ \A i \in 1 .. Len(frames) - 1 : frames'[i] = frames[i]
<1>1. PICK k : k = Len(frames)
  OBVIOUS
<1>2. frames \in Seq(ToSet(frames))
  BY DEF FramesInv
<1>3. /\ k \in Nat /\ k >= 1 /\ Len(frames') = k /\ frames'[k] = g /\ Top = frames[k]
      /\ \A i \in 1 .. k - 1 : frames'[i] = frames[i]
  BY <1>1, <1>2, LastChanged DEF Top
<1>4. \A i \in 1 .. k : i \in 1 .. k - 1 \/ i = k
  BY <1>3
<1>5. ASSUME NEW i \in 1 .. k PROVE Good(frames'[i], Len(heap'))
  BY <1>1, <1>3, <1>4, GoodKept
<1>6. FunctionsInv'
  BY <1>3, <1>5 DEF FunctionsInv
<1>7. ASSUME NEW i \in 1 .. k, NEW j \in 1 .. k, i < j, Late(frames'[i])
      PROVE  Quiet(frames'[j])
  <2>1. i \in 1 .. k - 1
    BY <1>3, <1>7
  <2>2. Quiet(frames[j])
    BY <1>1, <1>3, <1>7, <2>1 DEF CalmInv, Quiet
  <2> QED BY <1>3, <1>4, <2>2
<1>8. CalmInv'
  BY <1>3, <1>7 DEF CalmInv, Quiet
<1>9. ASSUME Carries(Top, g) PROVE Passing
  <2>1. \A i \in 1 .. k : Carries(frames[i], frames'[i])
    BY <1>3, <1>4, <1>9, CarriesSelf
  <2> QED BY <1>1, <1>3, <2>1 DEF Passing
<1> QED BY <1>1, <1>3, <1>6, <1>8, <1>9

LEMMA Entered ==
    ASSUME FramesInv, HeapInv, FunctionsInv, CalmInv, HeapGrows, frames # <<>>,
           NEW g, NEW f, frames' = Append(Append(Front(frames), g), f),
           Good(g, Len(heap')), Good(f, Len(heap')), Carries(Top, g), ~ Opened(f), f.before = {},
           Quiet(Top) => Quiet(g) /\ Quiet(f), Late(g) => Quiet(f)
    PROVE  FunctionsInv' /\ CalmInv' /\ Passing
<1>1. PICK k, p : k = Len(frames) /\ p = Append(Front(frames), g)
  OBVIOUS
<1>2. frames \in Seq(ToSet(frames))
  BY DEF FramesInv
<1>3. /\ k \in Nat /\ k >= 1 /\ Len(p) = k /\ p[k] = g /\ Top = frames[k]
      /\ \A i \in 1 .. k - 1 : p[i] = frames[i]
  <2>1. /\ Len(frames) \in Nat /\ Len(frames) >= 1 /\ Len(p) = Len(frames) /\ p[Len(frames)] = g
        /\ Last(frames) = frames[Len(frames)] /\ \A i \in 1 .. Len(frames) - 1 : p[i] = frames[i]
    <3>1. PICK S, q : S = ToSet(frames) /\ q = frames
      OBVIOUS
    <3>2. q \in Seq(S) /\ q # <<>> /\ p = Append(Front(q), g)
      BY <1>1, <1>2, <3>1
    <3>3. /\ Len(q) \in Nat /\ Len(q) >= 1 /\ Len(p) = Len(q) /\ p[Len(q)] = g /\ Last(q) = q[Len(q)]
          /\ \A i \in 1 .. Len(q) - 1 : p[i] = q[i]
      BY ONLY <3>2, LastChanged
    <3> QED BY <3>1, <3>3
  <2> QED BY <1>1, <2>1 DEF Top
<1>4. PICK S : p \in Seq(S)
  <2>1. Front(frames) \in Seq(ToSet(frames))
    BY <1>2, TopFacts
  <2>2. p \in Seq(ToSet(frames) \cup {g})
    BY <1>1, <2>1, OneMore
  <2> QED BY <2>2
<1>5. Len(frames') = k + 1 /\ frames'[k + 1] = f /\ \A i \in 1 .. k : frames'[i] = p[i]
  BY <1>1, <1>3, <1>4, OneMore
<1>6. \A i \in 1 .. k + 1 : i \in 1 .. k - 1 \/ i = k \/ i = k + 1
  BY <1>3
<1>7. frames'[k] = g /\ \A i \in 1 .. k - 1 : frames'[i] = frames[i]
  BY <1>3, <1>5
<1>8. ASSUME NEW i \in 1 .. k + 1 PROVE Good(frames'[i], Len(heap'))
  BY <1>1, <1>3, <1>5, <1>6, <1>7, GoodKept
<1>9. FunctionsInv'
  BY <1>3, <1>5, <1>8 DEF FunctionsInv
<1>10. ASSUME NEW i \in 1 .. k + 1, NEW j \in 1 .. k + 1, i < j, Late(frames'[i])
       PROVE  Quiet(frames'[j])
  <2>1. CASE i = k
    BY <1>3, <1>5, <1>6, <1>7, <1>10, <2>1
  <2>2. CASE i \in 1 .. k - 1
    <3>5. i \in 1 .. k /\ k \in 1 .. k /\ i < k
      BY <1>3, <2>2
    <3>6. frames'[i] = frames[i]
      BY <1>7, <2>2
    <3>7. Late(frames[i])
      BY <1>10, <3>6
    <3>1. Late(frames[i]) /\ i \in 1 .. k /\ k \in 1 .. k /\ i < k
      BY <3>5, <3>7
    <3>2. \A l \in 1 .. k : i < l => Quiet(frames[l])
      BY <1>1, <3>1 DEF CalmInv, Quiet
    <3>3. Quiet(g) /\ Quiet(f)
      BY <1>3, <3>1, <3>2
    <3>4. j \in 1 .. k - 1 => Quiet(frames[j])
      BY <1>3, <1>10, <3>2
    <3> QED BY <1>5, <1>6, <1>7, <3>3, <3>4
  <2>3. i # k + 1
    BY <1>3, <1>10
  <2> QED BY <1>6, <2>1, <2>2, <2>3
<1>11. CalmInv'
  BY <1>3, <1>5, <1>10 DEF CalmInv, Quiet
<1>12. ASSUME NEW i \in 1 .. k PROVE Carries(frames[i], frames'[i])
  <2>1. i \in 1 .. k - 1 \/ i = k
    BY <1>3
  <2>2. CASE i \in 1 .. k - 1
    <3>1. frames'[i] = frames[i]
      BY <1>7, <2>2
    <3> QED BY <3>1, CarriesSelf
  <2>3. CASE i = k
    BY <1>3, <1>7, <2>3
  <2> QED BY <2>1, <2>2, <2>3
<1>13. Passing
  BY <1>1, <1>3, <1>5, <1>6, <1>12 DEF Passing
<1> QED BY <1>9, <1>11, <1>13

LEMMA Started ==
    ASSUME FramesInv, HeapInv, FunctionsInv, CalmInv, HeapGrows,
           \A i \in 1 .. Len(frames) : ~ Late(frames[i]),
           NEW f, frames' = Append(frames, f), Good(f, Len(heap')), ~ Opened(f), f.before = {}
    PROVE  FunctionsInv' /\ CalmInv' /\ Passing
<1>1. PICK k : k = Len(frames)
  OBVIOUS
<1>2. frames \in Seq(ToSet(frames))
  BY DEF FramesInv
<1>3. /\ k \in Nat /\ Len(frames') = k + 1 /\ frames'[k + 1] = f
      /\ \A i \in 1 .. k : frames'[i] = frames[i]
  BY <1>1, <1>2, OneMore
<1>4. \A i \in 1 .. k + 1 : i \in 1 .. k \/ i = k + 1
  BY <1>3
<1>5. ASSUME NEW i \in 1 .. k + 1 PROVE Good(frames'[i], Len(heap'))
  BY <1>1, <1>3, <1>4, GoodKept
<1>6. FunctionsInv'
  BY <1>3, <1>5 DEF FunctionsInv
<1>7. ASSUME NEW i \in 1 .. k + 1, NEW j \in 1 .. k + 1, i < j PROVE ~ Late(frames'[i])
  <2>1. i \in 1 .. k
    BY <1>3, <1>7
  <2> QED BY <1>1, <1>3, <2>1
<1>8. CalmInv'
  BY <1>3, <1>7 DEF CalmInv
<1>9. Passing
  BY <1>1, <1>3, <1>4, CarriesSelf DEF Passing
<1> QED BY <1>6, <1>8, <1>9

LEMMA Exited ==
    ASSUME FramesInv, HeapInv, FunctionsInv, CalmInv, HeapGrows, Len(frames) >= 2, Clear(Top),
           NEW g, frames' = Append(Front(Front(frames)), g), Good(g, Len(heap')),
           NEW f, f = frames[Len(frames) - 1], Alike(f, g, {"env"})
    PROVE  FunctionsInv' /\ CalmInv' /\ Passing
<1>1. PICK k, p : k = Len(frames) /\ p = Front(frames)
  OBVIOUS
<1>2. frames \in Seq(ToSet(frames)) /\ frames # <<>>
  BY DEF FramesInv
<1>3. /\ k \in Nat /\ k >= 2 /\ p \in Seq(ToSet(frames)) /\ Len(p) = k - 1 /\ Top = frames[k]
      /\ \A i \in 1 .. k - 1 : p[i] = frames[i]
  BY <1>1, <1>2, TopFacts DEF Top
<1>4. p # <<>>
  BY <1>3
<1>5. /\ Len(frames') = k - 1 /\ frames'[k - 1] = g /\ \A i \in 1 .. k - 1 - 1 : frames'[i] = p[i]
  <2>1. PICK q : q = frames'
    OBVIOUS
  <2>2. p \in Seq(ToSet(frames)) /\ q = Append(Front(p), g)
    BY <1>1, <1>3, <2>1
  <2>3. /\ Len(q) = Len(p) /\ q[Len(p)] = g /\ \A i \in 1 .. Len(p) - 1 : q[i] = p[i]
    BY <1>4, <2>2, EndChanged
  <2> QED BY <1>3, <2>1, <2>3
<1>6. /\ \A i \in 1 .. k - 2 : frames'[i] = frames[i]
      /\ \A i \in 1 .. k - 1 : i \in 1 .. k - 2 \/ i = k - 1
      /\ \A i \in 1 .. k : i \in 1 .. k - 1 \/ i = k
      /\ f = frames[k - 1] /\ k - 1 \in Nat /\ k - 1 \in 1 .. k - 1
  <2>1. ASSUME NEW i \in 1 .. k - 2 PROVE frames'[i] = frames[i]
    <3>1. i \in 1 .. k - 1 /\ i \in 1 .. k - 1 - 1
      BY <1>3
    <3> QED BY <1>3, <1>5, <3>1
  <2>2. /\ \A i \in 1 .. k - 1 : i \in 1 .. k - 2 \/ i = k - 1
        /\ \A i \in 1 .. k : i \in 1 .. k - 1 \/ i = k
        /\ k - 1 \in Nat /\ k - 1 \in 1 .. k - 1
    BY <1>3
  <2>3. f = frames[k - 1]
    BY <1>1
  <2> QED BY <2>1, <2>2, <2>3
<1>7. ASSUME NEW i \in 1 .. k - 1 PROVE Good(frames'[i], Len(heap'))
  BY <1>1, <1>3, <1>5, <1>6, GoodKept
<1>8. FunctionsInv'
  BY <1>5, <1>7 DEF FunctionsInv
<1>9. /\ g.code = f.code /\ g.fin = f.fin /\ g.device = f.device /\ g.mine = f.mine
      /\ g.old = f.old /\ g.before = f.before
  BY AlikeFields
<1>10. Carries(f, g) /\ (Late(f) <=> Late(g)) /\ (Quiet(f) <=> Quiet(g))
  BY <1>9, CarriedSame DEF Late, Restoring, Quiet
<1>11. ASSUME NEW i \in 1 .. k - 1
       PROVE  /\ Carries(frames[i], frames'[i]) /\ (Late(frames[i]) <=> Late(frames'[i]))
              /\ (Quiet(frames[i]) <=> Quiet(frames'[i]))
  BY <1>5, <1>6, <1>10, CarriesSelf
<1>12. CalmInv'
  <2>1. ASSUME NEW i \in 1 .. k - 1, NEW j \in 1 .. k - 1, i < j, Late(frames'[i])
        PROVE  Quiet(frames'[j])
    <3>1. i \in 1 .. k /\ j \in 1 .. k
      BY <1>3
    <3> QED BY <1>1, <1>11, <2>1, <3>1 DEF CalmInv, Quiet
  <2> QED BY <1>5, <2>1 DEF CalmInv, Quiet
<1>13. Passing
  <2>1. ASSUME NEW i \in 1 .. k
        PROVE  (i <= k - 1 => Carries(frames[i], frames'[i])) /\ (i > k - 1 => Clear(frames[i]))
    <3>1. CASE i \in 1 .. k - 1
      <4>1. ~ i > k - 1
        BY <1>3, <3>1
      <4> QED BY <1>11, <3>1, <4>1
    <3>2. CASE i = k
      <4>1. ~ i <= k - 1
        BY <1>3, <3>2
      <4> QED BY <1>3, <3>2, <4>1
    <3>3. i \in 1 .. k - 1 \/ i = k
      BY <1>3
    <3> QED BY <3>1, <3>2, <3>3
  <2>2. \A i \in 1 .. k - 1 : ~ i > k
    BY <1>3
  <2> QED BY <1>1, <1>5, <2>1, <2>2 DEF Passing
<1> QED BY <1>8, <1>12, <1>13

LEMMA Dropped ==
    ASSUME FramesInv, HeapInv, FunctionsInv, CalmInv, HeapMoves, frames # <<>>, Clear(Top),
           frames' = Front(frames)
    PROVE  FunctionsInv' /\ CalmInv' /\ Passing
<1>1. PICK k : k = Len(frames)
  OBVIOUS
<1>2. frames \in Seq(ToSet(frames))
  BY DEF FramesInv
<1>3. /\ k \in Nat /\ k >= 1 /\ Len(frames') = k - 1 /\ Top = frames[k]
      /\ \A i \in 1 .. k - 1 : frames'[i] = frames[i]
  BY <1>1, <1>2, TopFacts DEF Top
<1>4. \A i \in 1 .. k : i \in 1 .. k - 1 \/ i = k
  BY <1>3
<1>5. FunctionsInv'
  <2>1. CASE frames' = <<>>
    <3>1. Len(frames') = 0
      BY <2>1
    <3> QED BY <3>1 DEF FunctionsInv
  <2>2. CASE frames' # <<>>
    <3>1. HeapGrows
      BY <2>2 DEF HeapMoves, HeapGrows
    <3>2. ASSUME NEW i \in 1 .. k - 1 PROVE Good(frames'[i], Len(heap'))
      <4>1. i \in 1 .. k
        BY <1>3
      <4> QED BY <1>1, <1>3, <3>1, <4>1, GoodKept
    <3> QED BY <1>3, <3>2 DEF FunctionsInv
  <2> QED BY <2>1, <2>2
<1>6. CalmInv'
  <2>1. \A i \in 1 .. k - 1 : i \in 1 .. k
    BY <1>3
  <2> QED BY <1>1, <1>3, <2>1 DEF CalmInv
<1>7. Passing
  <2>1. ASSUME NEW i \in 1 .. k
        PROVE  (i <= k - 1 => Carries(frames[i], frames'[i])) /\ (i > k - 1 => Clear(frames[i]))
    BY <1>3, <1>4, CarriesSelf
  <2>2. \A i \in 1 .. k - 1 : ~ i > k
    BY <1>3
  <2> QED BY <1>1, <1>3, <2>1, <2>2 DEF Passing
<1> QED BY <1>5, <1>6, <1>7

TypedInv == HeapInv /\ FunctionsInv /\ CalmInv /\ ThrownInv

Changed(g) ==
    /\ Len(frames') = Len(frames) /\ frames'[Len(frames)] = g
    /\ \A i \in 1 .. Len(frames) - 1 : frames'[i] = frames[i]

LEMMA QuietHead ==
    ASSUME NEW n \in Nat, NEW f, Shaped(f, n), Quiet(f)
    PROVE  CalmStep(Head(f.code)) /\ Calm(Tail(f.code))
<1>1. f.code \in Seq(Steps(n)) /\ f.code # <<>>
  BY ShapeAt DEF Shaped
<1> QED BY <1>1, TailHas DEF Quiet

LEMMA NoneLate ==
    ASSUME FramesInv, HeapInv, FunctionsInv, CalmInv, frames # <<>>,
           Step.op \in {"convert", "throw", "user"} \/ (Step.op = "eval" /\ ~ Step.sure)
    PROVE  /\ \A i \in 1 .. Len(frames) : ~ Late(frames[i]) /\ ~ Restoring(frames[i])
           /\ ~ Quiet(Top)
<1>1. PICK n, k : n = Len(heap) /\ k = Len(frames)
  OBVIOUS
<1>2. n \in Nat /\ Shaped(Top, n) /\ Step = Head(Top.code)
  BY <1>1, TopIs
<1>3. k \in Nat /\ k >= 1 /\ Top = frames[k]
  BY <1>1, Running
<1>4. ~ Quiet(Top)
  <2>1. ~ CalmStep(Step)
    BY DEF CalmStep
  <2> QED BY <1>2, <2>1, QuietHead
<1>5. ~ Late(Top)
  BY <1>2, LateStepIs
<1>6. ASSUME NEW i \in 1 .. k, Late(frames[i]) PROVE FALSE
  <2>1. CASE i = k
    BY <1>3, <1>5, <1>6, <2>1
  <2>2. CASE i < k
    <3>1. k \in 1 .. k
      BY <1>3
    <3>2. Quiet(frames[k])
      BY <1>1, <1>6, <2>2, <3>1 DEF CalmInv, Quiet
    <3> QED BY <1>3, <1>4, <3>2
  <2> QED BY <1>3, <2>1, <2>2
<1> QED BY <1>1, <1>4, <1>6 DEF Late

LEMMA FramesStay ==
    ASSUME HeapInv, FunctionsInv, CalmInv, HeapGrows, UNCHANGED frames, Len(frames) \in Nat
    PROVE  FunctionsInv' /\ CalmInv' /\ Passing
<1>1. \A i \in 1 .. Len(frames) : Good(frames[i], Len(heap'))
  BY GoodKept
<1>2. FunctionsInv'
  BY <1>1 DEF FunctionsInv
<1>3. CalmInv'
  BY DEF CalmInv
<1>4. \A i \in 1 .. Len(frames) : i <= Len(frames) /\ ~ i > Len(frames)
  OBVIOUS
<1>5. Passing
  BY <1>4, CarriesSelf DEF Passing
<1> QED BY <1>2, <1>3, <1>5

LEMMA OnwardsKept ==
    ASSUME FramesInv, HeapInv, FunctionsInv, CalmInv, HeapGrows, frames # <<>>, Onwards,
           Step.op \notin {"return", "throw", "answer", "open", "newplots"}
    PROVE  /\ FunctionsInv' /\ CalmInv'
           /\ Step.op \notin {"restore", "close", "destroy"} => Passing
           /\ \E g : Changed(g) /\ Alike(Top, g, {"code", "env", "n", "prot"}) /\ g.code = Tail(Top.code)
<1>1. PICK g : /\ frames' = Append(Front(frames), g) /\ Alike(Top, g, {"code", "env", "n", "prot"})
               /\ g.code = Tail(Top.code) /\ g.env \in [Local -> 0 .. Len(heap')] /\ g.prot \in Nat
  BY DEF Onwards
<1>2. /\ g.fin = Top.fin /\ g.to = Top.to /\ g.device = Top.device /\ g.old = Top.old
      /\ g.before = Top.before /\ g.mine = Top.mine
  BY <1>1, AlikeFields
<1>3. PICK n, m : n = Len(heap) /\ m = Len(heap')
  OBVIOUS
<1>4. n \in Nat /\ m \in Nat /\ n <= m /\ Good(Top, n) /\ Step = Head(Top.code)
  BY <1>3, TopIs DEF HeapGrows
<1>5. Good(Top, m)
  BY <1>4, GoodWidens
<1>6. Shaped(Top, m)
  BY <1>5 DEF Good
<1>7. Shaped(g, m)
  BY <1>1, <1>2, <1>4, <1>6, GoneOn
<1>8. Good(g, m)
  BY <1>1, <1>2, <1>3, <1>5, <1>7 DEF Good
<1>9. Quiet(Top) => Quiet(g)
  <2>1. Quiet(Top) => Calm(Tail(Top.code))
    BY <1>4, <1>6, QuietHead
  <2> QED BY <1>1, <1>2, <2>1 DEF Quiet
<1>10. /\ FunctionsInv' /\ CalmInv' /\ (Carries(Top, g) => Passing)
       /\ Len(frames') = Len(frames) /\ Len(frames) \in Nat /\ Len(frames) >= 1
       /\ frames'[Len(frames)] = g /\ Top = frames[Len(frames)]
       /\ \A i \in 1 .. Len(frames) - 1 : frames'[i] = frames[i]
  BY <1>1, <1>3, <1>8, <1>9, Proceeded
<1>11. Changed(g)
  BY <1>10 DEF Changed
<1>12. Step.op \notin {"restore", "close", "destroy"} => Carries(Top, g)
  BY <1>1, <1>2, <1>4, <1>6, CarriedOn
<1> QED BY <1>1, <1>10, <1>11, <1>12

LEMMA RaisesKept ==
    ASSUME FramesInv, HeapInv, FunctionsInv, CalmInv, HeapGrows, frames # <<>>, Raises, Step.op = "user"
    PROVE  FunctionsInv' /\ CalmInv' /\ Passing
<1>1. PICK g : /\ frames' = Append(Front(frames), g) /\ Alike(Top, g, {"code", "env", "n", "prot"})
               /\ g.code = SubSeq(Tail(Top.code), 1, 2) \o RaiseError
               /\ g.env \in [Local -> 0 .. Len(heap')] /\ g.prot \in Nat
  BY DEF Raises
<1>2. /\ g.fin = Top.fin /\ g.to = Top.to /\ g.device = Top.device /\ g.old = Top.old
      /\ g.before = Top.before /\ g.mine = Top.mine
  <2>1. Alike(Top, g, {"code", "env", "n", "prot"})
    BY <1>1
  <2> QED BY <2>1, AlikeFields
<1>3. PICK n, m : n = Len(heap) /\ m = Len(heap')
  OBVIOUS
<1>4. n \in Nat /\ m \in Nat /\ n <= m /\ Good(Top, n) /\ Step = Head(Top.code)
  BY <1>3, TopIs DEF HeapGrows
<1>5. Good(Top, m)
  BY <1>4, GoodWidens
<1>6. Shaped(Top, m)
  BY <1>5 DEF Good
<1>7. Shaped(g, m) /\ Carries(Top, g)
  BY <1>1, <1>2, <1>4, <1>6, ErrorRaised
<1>8. Good(g, m)
  BY <1>1, <1>2, <1>3, <1>5, <1>7 DEF Good
<1>9. ~ Quiet(Top)
  BY NoneLate
<1> QED BY <1>1, <1>3, <1>7, <1>8, <1>9, Proceeded

(* Steps of a function that leave the session alone.                       *)
LEMMA Ordinary ==
    ASSUME FramesInv, TypedInv,
           \/ Allocate \/ AddField \/ Read \/ ProtectObject \/ ReprotectObject \/ EnterTry \/ Unprotect \/ Evaluate
           \/ FinishUser \/ KeepObject \/ RaiseException
    PROVE  TypedInv' /\ Passing /\ UNCHANGED <<sessionVars, leftover, plotted>>
<1>1. frames # <<>> /\ thrown = "none"
  BY DEF Allocate, AddField, Read, ProtectObject, ReprotectObject, EnterTry, Unprotect, Evaluate,
         FinishUser, KeepObject, RaiseException, At
<1>2. UNCHANGED <<sessionVars, leftover, plotted>>
  BY DEF Allocate, AddField, Read, ProtectObject, ReprotectObject, EnterTry, Unprotect, Evaluate,
         FinishUser, KeepObject, RaiseException, historyVars
<1>3. HeapInv /\ FunctionsInv /\ CalmInv
  BY DEF TypedInv
<1>4. Len(frames) \in Nat
  BY <1>1, Running
<1>5. ASSUME UNCHANGED thrown PROVE ThrownInv'
  BY <1>1, <1>5 DEF ThrownInv
<1>6. ASSUME UNCHANGED frames, thrown' \in {"error", "unwind"},
             Step.op \in {"convert", "throw", "user"} \/ (Step.op = "eval" /\ ~ Step.sure)
      PROVE  ThrownInv'
  <2>1. \A i \in 1 .. Len(frames) : ~ Restoring(frames[i])
    BY <1>1, <1>3, <1>6, NoneLate
  <2> QED BY <1>6, <2>1 DEF ThrownInv
<1>7. CASE Allocate \/ AddField \/ Read \/ ProtectObject \/ ReprotectObject \/ EnterTry \/ Unprotect \/ KeepObject
  <2>1. HeapGrows /\ Onwards
    BY <1>3, <1>7, Allocates, AddsField, Reads, ProtectsHeap, Unprotects, KeepsObject
  <2>2. Step.op \in {"alloc", "attach", "link", "use", "field", "protect", "protectInc",
                   "reprotect", "try", "unprotect", "keep"}
        /\ UNCHANGED thrown
    BY <1>7 DEF Allocate, AddField, Read, ProtectObject, ReprotectObject, EnterTry, Unprotect,
       KeepObject, At, Step
  <2>3. FunctionsInv' /\ CalmInv' /\ Passing
    BY <1>1, <1>3, <2>1, <2>2, OnwardsKept
  <2> QED BY <1>2, <1>5, <2>1, <2>2, <2>3 DEF TypedInv, HeapGrows
<1>8. CASE Evaluate
  <2>1. HeapGrows /\ ((Onwards /\ UNCHANGED thrown) \/ (Fails /\ ~ Step.sure))
    BY <1>3, <1>8, Evaluates
  <2>2. Step.op = "eval"
    BY <1>8 DEF Evaluate, At, Step
  <2>3. CASE Onwards /\ UNCHANGED thrown
    <3>1. FunctionsInv' /\ CalmInv' /\ Passing
      BY <1>1, <1>3, <2>1, <2>2, <2>3, OnwardsKept
    <3> QED BY <1>2, <1>5, <2>1, <2>3, <3>1 DEF TypedInv, HeapGrows
  <2>4. CASE Fails /\ ~ Step.sure
    <3>1. FunctionsInv' /\ CalmInv' /\ Passing
      BY <1>3, <1>4, <2>1, <2>4, FramesStay DEF Fails
    <3>2. ThrownInv'
      BY <1>6, <2>2, <2>4 DEF Fails
    <3> QED BY <1>2, <2>1, <3>1, <3>2 DEF TypedInv, HeapGrows
  <2> QED BY <2>1, <2>3, <2>4
<1>9. CASE FinishUser
  <2>1. HeapGrows /\ (((Onwards \/ Raises) /\ UNCHANGED thrown) \/ Fails)
    BY <1>3, <1>9, Finishes
  <2>2. Step.op = "user"
    BY <1>9 DEF FinishUser, At, Step
  <2>3. CASE (Onwards \/ Raises) /\ UNCHANGED thrown
    <3>1. FunctionsInv' /\ CalmInv' /\ Passing
      BY <1>1, <1>3, <2>1, <2>2, <2>3, OnwardsKept, RaisesKept
    <3> QED BY <1>2, <1>5, <2>1, <2>3, <3>1 DEF TypedInv, HeapGrows
  <2>4. CASE Fails
    <3>1. FunctionsInv' /\ CalmInv' /\ Passing
      BY <1>3, <1>4, <2>1, <2>4, FramesStay DEF Fails
    <3>2. ThrownInv'
      BY <1>6, <2>2, <2>4 DEF Fails
    <3> QED BY <1>2, <2>1, <3>1, <3>2 DEF TypedInv, HeapGrows
  <2> QED BY <2>1, <2>3, <2>4
<1>10. CASE RaiseException
  <2>1. HeapGrows
    BY <1>3, <1>10, HeapStays DEF RaiseException, rVars, historyVars
  <2>2. \/ Step.op = "throw" /\ thrown' = Step.what /\ UNCHANGED frames
        \/ Step.op = "convert" /\ thrown' = "error" /\ UNCHANGED frames
        \/ Step.op = "convert" /\ UNCHANGED thrown /\ frames' = Advance(Top)
    BY <1>10 DEF RaiseException, At, Step
  <2>3. CASE Step.op = "convert" /\ UNCHANGED thrown /\ frames' = Advance(Top)
    <3>1. Onwards
      BY <1>1, <1>3, <2>1, <2>3, AdvancedTop DEF HeapGrows
    <3>2. FunctionsInv' /\ CalmInv' /\ Passing
      BY <1>1, <1>3, <2>1, <2>3, <3>1, OnwardsKept
    <3> QED BY <1>2, <1>5, <2>1, <2>3, <3>2 DEF TypedInv, HeapGrows
  <2>4. CASE ~ (Step.op = "convert" /\ UNCHANGED thrown /\ frames' = Advance(Top))
    <3>1. Step.op = "throw" => Step.what \in {"error", "unwind"}
      BY <1>1, <1>3, TopIs DEF Fields
    <3>2. UNCHANGED frames /\ thrown' \in {"error", "unwind"} /\ Step.op \in {"convert", "throw"}
      BY <2>2, <2>4, <3>1
    <3>3. FunctionsInv' /\ CalmInv' /\ Passing
      BY <1>3, <1>4, <2>1, <3>2, FramesStay
    <3>4. ThrownInv'
      BY <1>6, <3>2
    <3> QED BY <1>2, <2>1, <3>3, <3>4 DEF TypedInv, HeapGrows
  <2> QED BY <2>2, <2>3, <2>4
<1> QED BY <1>7, <1>8, <1>9, <1>10

LEMMA DatumOfSame ==
    ASSUME NEW d, d \in [is : {d.is}, parts : {d.parts}, named : {d.named}, at : {d.at}, obj : {d.obj}]
    PROVE  /\ d = DatumOf(d.is, d.parts, d.named, d.at, d.obj)
           /\ \A k, v : [d EXCEPT !.is = k, !.obj = v] = DatumOf(k, d.parts, d.named, d.at, v)
           /\ \A p : [d EXCEPT !.parts = p] = DatumOf(d.is, p, d.named, d.at, d.obj)
<1>1. d = DatumOf(d.is, d.parts, d.named, d.at, d.obj)
  BY DEF DatumOf
<1>2. ASSUME NEW k, NEW v PROVE [d EXCEPT !.is = k, !.obj = v] = DatumOf(k, d.parts, d.named, d.at, v)
  <2>1. PICK e : e = [d EXCEPT !.is = k]
    OBVIOUS
  <2>2. e = DatumOf(k, d.parts, d.named, d.at, d.obj)
    BY <2>1 DEF DatumOf
  <2>3. PICK g : g = [e EXCEPT !.obj = v]
    OBVIOUS
  <2>4. g = DatumOf(k, d.parts, d.named, d.at, v)
    BY <2>2, <2>3 DEF DatumOf
  <2>5. g = [d EXCEPT !.is = k, !.obj = v]
    BY <2>1, <2>3
  <2> QED BY <2>4, <2>5
<1>3. ASSUME NEW p PROVE [d EXCEPT !.parts = p] = DatumOf(d.is, p, d.named, d.at, d.obj)
  BY DEF DatumOf
<1> QED BY <1>1, <1>2, <1>3

LEMMA DatumParts ==
    ASSUME NEW n \in Nat, NEW d, d \in Datum(n) \/ d \in Flat(n)
    PROVE  /\ d \in [is : {d.is}, parts : {d.parts}, named : {d.named}, at : {d.at}, obj : {d.obj}]
           /\ d.is \in DatumKind /\ d.named \in BOOLEAN /\ d.at \in DatumMark /\ d.obj \in Nat /\ Fits(d, n)
           /\ d \in Datum(n) => d.parts \in Seq(Flat(n))
           /\ d \in Flat(n) => d.parts \in Seq(Leaf(n))
<1>1. CASE d \in Datum(n)
  <2>1. PICK S : /\ S = Seq(Flat(n)) /\ Fits(d, n)
                 /\ d \in [is : DatumKind, parts : S, named : BOOLEAN, at : DatumMark, obj : Nat]
    BY <1>1 DEF Datum
  <2>2. /\ d \in [is : {d.is}, parts : {d.parts}, named : {d.named}, at : {d.at}, obj : {d.obj}]
        /\ d.is \in DatumKind /\ d.named \in BOOLEAN /\ d.at \in DatumMark /\ d.obj \in Nat /\ d.parts \in S
    BY <2>1
  <2>3. d \in Flat(n) => d.parts \in Seq(Leaf(n))
    BY DEF Flat
  <2> QED BY <2>1, <2>2, <2>3
<1>2. CASE d \in Flat(n)
  <2>1. PICK S : /\ S = Seq(Leaf(n)) /\ Fits(d, n)
                 /\ d \in [is : DatumKind, parts : S, named : BOOLEAN, at : DatumMark, obj : Nat]
    BY <1>2 DEF Flat
  <2>2. /\ d \in [is : {d.is}, parts : {d.parts}, named : {d.named}, at : {d.at}, obj : {d.obj}]
        /\ d.is \in DatumKind /\ d.named \in BOOLEAN /\ d.at \in DatumMark /\ d.obj \in Nat /\ d.parts \in S
    BY <2>1
  <2>3. d \in Datum(n) => d.parts \in Seq(Flat(n))
    BY DEF Datum
  <2> QED BY <2>1, <2>2, <2>3
<1> QED BY <1>1, <1>2

LEMMA ResolvedIs ==
    ASSUME NEW n \in Nat, Top.env \in [Local -> 0 .. n], NEW d
    PROVE  /\ d \in Datum(n) => Resolved(d) \in Datum(n) /\ Resolved(d).parts = d.parts
           /\ d \in Flat(n) => Resolved(d) \in Flat(n)
           /\ d.is # "local" => Resolved(d) = d
<1>1. d.is # "local" => Resolved(d) = d
  BY DEF Resolved
<1>2. CASE d.is = "local" /\ (d \in Datum(n) \/ d \in Flat(n))
  <2>1. /\ d \in [is : {d.is}, parts : {d.parts}, named : {d.named}, at : {d.at}, obj : {d.obj}]
        /\ d.named \in BOOLEAN /\ d.at \in DatumMark /\ d.at \in Local
        /\ d \in Datum(n) => d.parts \in Seq(Flat(n))
        /\ d \in Flat(n) => d.parts \in Seq(Leaf(n))
    BY <1>2, DatumParts DEF Fits
  <2>2. PICK v : v = Top.env[d.at]
    OBVIOUS
  <2>3. v \in Nat /\ v <= n
    BY <2>1, <2>2
  <2>4. PICK k : k = "object"
    OBVIOUS
  <2>5. Resolved(d) = [d EXCEPT !.is = k, !.obj = v]
    BY <1>2, <2>2, <2>4 DEF Resolved
  <2>6. Resolved(d) = DatumOf(k, d.parts, d.named, d.at, v)
    BY <2>1, <2>5, DatumOfSame
  <2>7. k \in DatumKind /\ k # "local"
    BY <2>4, NamesAre
  <2>8. /\ d.parts \in Seq(Leaf(n)) => DatumOf(k, d.parts, d.named, d.at, v) \in Flat(n)
        /\ d.parts \in Seq(Flat(n)) => DatumOf(k, d.parts, d.named, d.at, v) \in Datum(n)
    BY <2>1, <2>3, <2>7, DatumIs
  <2>9. Resolved(d).parts = d.parts
    BY <2>6, DatumOfIs
  <2> QED BY <1>2, <2>1, <2>6, <2>8, <2>9
<1> QED BY <1>1, <1>2

LEMMA PartsResolved ==
    ASSUME NEW n \in Nat, Top.env \in [Local -> 0 .. n], NEW d \in Datum(n),
           NEW e, e = [d EXCEPT !.parts = [i \in DOMAIN d.parts |-> Resolved(d.parts[i])]]
    PROVE  e \in Datum(n) /\ e.is = d.is /\ e.named = d.named
<1>1. /\ d \in [is : {d.is}, parts : {d.parts}, named : {d.named}, at : {d.at}, obj : {d.obj}]
      /\ d.is \in DatumKind /\ d.named \in BOOLEAN /\ d.at \in DatumMark /\ d.obj \in Nat /\ Fits(d, n)
      /\ d.parts \in Seq(Flat(n))
  BY DatumParts
<1>2. PICK p, q : p = d.parts /\ q = [i \in DOMAIN p |-> Resolved(p[i])]
  OBVIOUS
<1>3. q \in Seq(Flat(n))
  <2>1. p \in Seq(Flat(n))
    BY <1>1, <1>2
  <2>2. Len(p) \in Nat /\ DOMAIN p = 1 .. Len(p) /\ \A i \in 1 .. Len(p) : p[i] \in Flat(n)
    BY <2>1
  <2>3. \A i \in 1 .. Len(p) : Resolved(p[i]) \in Flat(n)
    BY <2>2, ResolvedIs
  <2>4. q \in [1 .. Len(p) -> Flat(n)]
    BY <1>2, <2>2, <2>3
  <2> QED BY <2>2, <2>4, FunctionSeq
<1>4. e = [d EXCEPT !.parts = q]
  BY <1>2
<1>5. e = DatumOf(d.is, q, d.named, d.at, d.obj)
  BY <1>1, <1>4, DatumOfSame
<1>6. d.is = "local" => d.at \in Local
  BY <1>1 DEF Fits
<1>7. d.is = "object" => d.obj <= n
  BY <1>1 DEF Fits
<1>8. DatumOf(d.is, q, d.named, d.at, d.obj) \in Datum(n)
  BY <1>1, <1>3, <1>6, <1>7, DatumIs
<1> QED BY <1>5, <1>8, DatumOfIs

(* A call of another function.                                             *)
LEMMA CallPushed ==
    ASSUME FramesInv, HeapInv, FunctionsInv, CalmInv, HeapGrows, UNCHANGED heap, frames # <<>>,
           Step.op \in {"new", "method"},
           NEW f, frames' = Append(Advance(Top), f),
           Good(f, Len(heap)), ~ Opened(f), f.before = {}, CalmStep(Step) => Quiet(f)
    PROVE  FunctionsInv' /\ CalmInv' /\ Passing
<1>1. PICK n, c : n = Len(heap) /\ c = Tail(Top.code)
  OBVIOUS
<1>2. n \in Nat /\ Good(Top, n) /\ Shaped(Top, n) /\ Framed(Top) /\ Step = Head(Top.code)
      /\ Top.env \in [Local -> 0 .. n]
  BY <1>1, TopIs
<1>3. PICK t, g : t = Top /\ g = [t EXCEPT !.code = c]
  OBVIOUS
<1>4. Framed(t)
  BY <1>2, <1>3
<1>5. Alike(t, g, {"code"}) /\ g.code = c
  <2>1. Framed(t) /\ g = [t EXCEPT !.code = c]
    BY <1>3, <1>4
  <2> QED BY <2>1, Fixed
<1>6. /\ g.fin = t.fin /\ g.to = t.to /\ g.env = t.env /\ g.device = t.device /\ g.old = t.old
      /\ g.before = t.before /\ g.mine = t.mine /\ g.prot = t.prot
  BY <1>5, AlikeFields
<1>7. Shaped(t, n) /\ g.code = Tail(t.code) /\ Head(t.code) = Step
  BY <1>1, <1>2, <1>3, <1>5
<1>8. Shaped(g, n)
  BY <1>2, <1>6, <1>7, GoneOn
<1>9. Good(g, n)
  BY <1>2, <1>3, <1>6, <1>8 DEF Good
<1>10. Carries(t, g)
  BY <1>2, <1>6, <1>7, CarriedOn
<1>11. Quiet(t) => Quiet(g) /\ CalmStep(Step)
  <2>1. Quiet(t) => CalmStep(Head(t.code)) /\ Calm(Tail(t.code))
    BY <1>2, <1>7, QuietHead
  <2> QED BY <1>6, <1>7, <2>1 DEF Quiet
<1>12. Late(g) => CalmStep(Step)
  BY <1>2, <1>6, <1>7, LateAfter
<1>13. frames' = Append(Append(Front(frames), g), f)
  BY <1>1, <1>3 DEF Advance, Goto
<1>14. Good(f, Len(heap')) /\ Good(g, Len(heap'))
  BY <1>1, <1>9
<1>15. Carries(Top, g) /\ (Quiet(Top) => Quiet(g) /\ Quiet(f)) /\ (Late(g) => Quiet(f))
  BY <1>3, <1>10, <1>11, <1>12
<1> QED BY <1>13, <1>14, <1>15, Entered

LEMMA Constructs ==
    ASSUME FramesInv, TypedInv, Construct
    PROVE  TypedInv' /\ Passing /\ UNCHANGED <<sessionVars, leftover, plotted>>
<1>1. /\ frames # <<>> /\ thrown = "none" /\ Step.op = "new"
      /\ UNCHANGED <<heap, stack, precious, held, thrown, sessionVars, leftover, plotted>>
  BY DEF Construct, At, Step, rVars, historyVars
<1>2. HeapInv /\ FunctionsInv /\ CalmInv
  BY DEF TypedInv
<1>3. HeapGrows
  BY <1>1, <1>2, HeapStays
<1>4. ThrownInv'
  BY <1>1 DEF ThrownInv
<1>5. PICK n : n = Len(heap)
  OBVIOUS
<1>6. n \in Nat /\ Top.env \in [Local -> 0 .. n] /\ Step.to \in Local /\ Step.data \in Datum(n)
      /\ Top.prot \in Nat
  BY <1>1, <1>2, <1>5, TopIs DEF Fields
<1>7. PICK d : d = Resolved(Step.data)
  OBVIOUS
<1>8. d \in Datum(n)
  BY <1>6, <1>7, ResolvedIs
<1>9. CASE d.is = "object"
  <2>1. frames' = Advance(Bind(Step.to, d.obj))
    BY <1>7, <1>9 DEF Construct
  <2>2. d.obj \in 0 .. n
    BY <1>6, <1>8, <1>9, DatumParts DEF Fits
  <2>3. PICK f : f = Bind(Step.to, d.obj)
    OBVIOUS
  <2>4. n <= n
    BY <1>6
  <2>5. Framed(f) /\ Alike(Top, f, {"env"}) /\ f.env \in [Local -> 0 .. n] /\ f.prot \in Nat
    BY <1>1, <1>6, <2>2, <2>3, <2>4, Bound
  <2>6. Alike(Top, f, {"env", "n", "prot"}) /\ f.env \in [Local -> 0 .. Len(heap')]
    BY <1>1, <1>5, <2>5, AlikeMore
  <2>7. Onwards
    BY <2>1, <2>3, <2>5, <2>6, Advanced
  <2>8. FunctionsInv' /\ CalmInv' /\ Passing
    BY <1>1, <1>2, <1>3, <2>7, OnwardsKept
  <2> QED BY <1>1, <1>3, <1>4, <2>8 DEF TypedInv, HeapGrows
<1>10. CASE d.is # "object"
  <2>1. PICK e : e = [d EXCEPT !.parts = [i \in DOMAIN d.parts |-> Resolved(d.parts[i])]]
    OBVIOUS
  <2>2. e \in Datum(n) /\ e.is = d.is /\ e.named = d.named
    BY <1>6, <1>8, <2>1, PartsResolved
  <2>3. PICK f, c, fin : f = Frame(d.is, c, fin, NoLocals, Step.to) /\ c = Constructor(e) /\ fin = <<>>
    OBVIOUS
  <2>4. frames' = Append(Advance(Top), f)
    BY <1>7, <1>10, <2>1, <2>3 DEF Construct
  <2>5. NoLocals \in [Local -> 0 .. n]
    BY <1>6 DEF NoLocals
  <2>6. Code(c, n)
    BY <1>6, <2>2, <2>3, ConstructorCode
  <2>7. Good(f, n) /\ Clear(f) /\ f.before = {} /\ f.fin = <<>> /\ f.code = c
    <3>1. PICK fn, env, to : fn = d.is /\ env = NoLocals /\ to = Step.to
      OBVIOUS
    <3>2. n \in Nat /\ to \in Local
      BY <1>6, <3>1
    <3>3. f = Frame(fn, c, fin, env, to) /\ fin = <<>> /\ Code(c, n)
      BY <2>3, <2>6, <3>1
    <3>4. env \in [Local -> 0 .. n]
      BY <2>5, <3>1
    <3> QED BY ONLY <3>2, <3>3, <3>4, NewFrame
  <2>8. CalmStep(Step) => Quiet(f)
    <3>1. ASSUME CalmStep(Step) PROVE Quiet(f)
      <4>1. Step.data = Atom
        BY <1>1, <3>1 DEF CalmStep
      <4>2. PICK a : a = DatumOf("RVectorAtomic", <<>>, FALSE, "", 0)
        OBVIOUS
      <4>3. Atom.is = "RVectorAtomic" /\ Atom.named = FALSE
        <5>1. a.is = "RVectorAtomic" /\ a.named = FALSE
          BY <4>2 DEF DatumOf
        <5>2. Atom = a
          BY <4>2, DTold DEF Atom
        <5> QED BY <5>1, <5>2
      <4>4. d = Atom
        BY <1>6, <1>7, <4>1, <4>3, ResolvedIs
      <4>5. e.is = "RVectorAtomic" /\ e.named = FALSE
        BY <2>2, <4>3, <4>4
      <4>6. Calm(c)
        BY <2>3, <4>5, CalmConstructor
      <4> QED BY <2>7, <4>6 DEF Quiet
    <3> QED BY <3>1
  <2>9. ~ Opened(f)
    BY <2>7, ClearIs
  <2>10. FunctionsInv' /\ CalmInv' /\ Passing
    BY <1>1, <1>2, <1>3, <1>5, <2>4, <2>7, <2>8, <2>9, CallPushed
  <2> QED BY <1>1, <1>3, <1>4, <2>10 DEF TypedInv, HeapGrows
<1> QED BY <1>9, <1>10

LEMMA CallsMethod ==
    ASSUME FramesInv, TypedInv, CallMethod
    PROVE  TypedInv' /\ Passing /\ UNCHANGED <<sessionVars, leftover, plotted>>
<1>1. /\ frames # <<>> /\ thrown = "none" /\ Step.op = "method"
      /\ UNCHANGED <<heap, stack, precious, held, thrown, sessionVars, leftover, plotted>>
  BY DEF CallMethod, At, Step, rVars, historyVars
<1>2. HeapInv /\ FunctionsInv /\ CalmInv
  BY DEF TypedInv
<1>3. HeapGrows
  BY <1>1, <1>2, HeapStays
<1>4. ThrownInv'
  BY <1>1 DEF ThrownInv
<1>5. PICK n, fn, d : n = Len(heap) /\ fn = Step.fn /\ d = Step.data
  OBVIOUS
<1>6. /\ n \in Nat /\ Top.env \in [Local -> 0 .. n] /\ Step.to \in Local /\ Step.of \in Local
      /\ d \in Datum(n) /\ fn \in MethodKind /\ (fn \in Parted => d.parts # <<>>)
  BY <1>1, <1>2, <1>5, TopIs DEF Fields
<1>7. PICK env, fin, c, f :
        /\ env = [NoLocals EXCEPT !["this"] = Top.env[Step.of]]
        /\ fin = (IF fn = "captureR" THEN CaptureFinally ELSE <<>>)
        /\ c = Method(fn, d) /\ f = Frame(fn, c, fin, env, Step.to)
  OBVIOUS
<1>8. frames' = Append(Advance(Top), f)
  BY <1>5, <1>7 DEF CallMethod
<1>9. env \in [Local -> 0 .. n]
  <2>1. NoLocals \in [Local -> 0 .. n] /\ Top.env[Step.of] \in 0 .. n
    BY <1>6 DEF NoLocals
  <2> QED BY <1>7, <2>1
<1>10. CASE fn = "captureR"
  <2>1. c = captureR(d)
    BY <1>7, <1>10 DEF Method
  <2>2. f = Frame("captureR", captureR(d), CaptureFinally, env, Step.to) /\ d.parts # <<>>
    BY <1>6, <1>7, <1>10, <2>1 DEF Parted
  <2>3. Good(f, n) /\ ~ Opened(f) /\ f.before = {}
    BY <1>6, <1>9, <2>2, NewCapture
  <2>4. ~ CalmStep(Step)
    BY <1>1, <1>5, <1>10 DEF CalmStep
  <2>5. FunctionsInv' /\ CalmInv' /\ Passing
    BY <1>1, <1>2, <1>3, <1>5, <1>8, <2>3, <2>4, CallPushed
  <2> QED BY <1>1, <1>3, <1>4, <2>5 DEF TypedInv, HeapGrows
<1>11. CASE fn # "captureR"
  <2>1. fin = <<>> /\ Code(c, n)
    BY <1>6, <1>7, <1>11, MethodCode
  <2>2. Good(f, n) /\ Clear(f) /\ f.before = {} /\ f.fin = <<>> /\ f.code = c
    <3>1. PICK to : to = Step.to
      OBVIOUS
    <3>2. n \in Nat /\ to \in Local
      BY <1>6, <3>1
    <3>3. f = Frame(fn, c, fin, env, to) /\ fin = <<>> /\ Code(c, n)
      BY <1>7, <2>1, <3>1
    <3>4. env \in [Local -> 0 .. n]
      BY <1>9
    <3> QED BY ONLY <3>2, <3>3, <3>4, NewFrame
  <2>3. CalmStep(Step) => Quiet(f)
    <3>1. ASSUME CalmStep(Step) PROVE Quiet(f)
      <4>1. fn \in {"toArray", "detectMissing"} \/ (fn = "slice" /\ d.at = "sure")
        BY <1>1, <1>5, <3>1 DEF CalmStep
      <4>2. Calm(c)
        BY <1>7, <4>1, CalmMethods
      <4> QED BY <2>2, <4>2 DEF Quiet
    <3> QED BY <3>1
  <2>4. ~ Opened(f)
    BY <2>2, ClearIs
  <2>5. FunctionsInv' /\ CalmInv' /\ Passing
    BY <1>1, <1>2, <1>3, <1>5, <1>8, <2>2, <2>3, <2>4, CallPushed
  <2> QED BY <1>1, <1>3, <1>4, <2>5 DEF TypedInv, HeapGrows
<1> QED BY <1>10, <1>11

LEMMA JoinEnded ==
    ASSUME NEW S, NEW p \in Seq(S), NEW q \in Seq(S), Ended(q)
    PROVE  p \o q \in Seq(S) /\ Ended(p \o q)
<1>1. PICK l, m, r : l = Len(p) /\ m = Len(q) /\ r = p \o q
  OBVIOUS
<1>2. l \in Nat /\ m \in Nat /\ m >= 1 /\ q[m].op \in {"return", "throw", "answer"}
  BY <1>1 DEF Ended
<1>3. r \in Seq(S) /\ Len(r) = l + m /\ \A i \in l + 1 .. l + m : r[i] = q[i - l]
  BY <1>1, <1>2, Joined
<1>4. l + m \in l + 1 .. l + m /\ l + m - l = m /\ l + m # 0
  BY <1>2
<1>5. r[Len(r)] = q[m]
  <2>1. PICK k : k = l + m
    OBVIOUS
  <2>2. k \in l + 1 .. l + m /\ k - l = m /\ Len(r) = k
    BY <1>2, <1>3, <2>1
  <2>3. r[k] = q[k - l]
    BY <1>3, <2>2
  <2> QED BY <2>2, <2>3
<1>6. r # <<>>
  BY <1>3, <1>4
<1> QED BY <1>1, <1>2, <1>3, <1>5, <1>6 DEF Ended

LEMMA Branches ==
    ASSUME FramesInv, TypedInv, Branch
    PROVE  TypedInv' /\ Passing /\ UNCHANGED <<sessionVars, leftover, plotted>>
<1>1. /\ frames # <<>> /\ thrown = "none" /\ Step.op = "ifany"
      /\ UNCHANGED <<heap, stack, precious, held, thrown, sessionVars, leftover, plotted>>
  BY DEF Branch, At, Step, rVars, historyVars
<1>2. HeapInv /\ FunctionsInv /\ CalmInv
  BY DEF TypedInv
<1>3. HeapGrows
  BY <1>1, <1>2, HeapStays
<1>4. ThrownInv'
  BY <1>1 DEF ThrownInv
<1>5. PICK n : n = Len(heap)
  OBVIOUS
<1>6. /\ n \in Nat /\ Good(Top, n) /\ Shaped(Top, n) /\ Framed(Top) /\ Step = Head(Top.code)
      /\ Step.then \in Seq(Plain(n))
  BY <1>1, <1>2, <1>5, TopIs DEF Fields
<1>7. Straight(Top, n) /\ Top.code # <<>> /\ Ended(Top.code)
  BY <1>1, <1>6, ShapeAt DEF Shaped
<1>8. PICK p, q, c : /\ q = Tail(Top.code) /\ c = p \o q /\ (p = Step.then \/ p = <<>>)
                     /\ frames' = Goto(Top, c)
  BY DEF Branch
<1>9. p \in Seq(Plain(n))
  <2>1. <<>> \in Seq(Plain(n))
    OBVIOUS
  <2>2. Step.then \in Seq(Plain(n)) /\ (p = Step.then \/ p = <<>>)
    BY <1>6, <1>8
  <2> QED BY <2>1, <2>2, Zenon
<1>10. q \in Seq(Plain(n)) /\ Ended(q)
  <2>1. Top.code \in Seq(Plain(n))
    BY <1>7 DEF Straight
  <2>2. q \in Seq(Plain(n))
    BY <1>7, <1>8, <2>1, HeadTail
  <2>3. Head(Top.code).op \notin {"return", "throw", "answer"}
    BY <1>1, <1>6
  <2>4. Ended(Tail(Top.code))
    BY <1>7, <2>1, <2>3, EndedTail
  <2> QED BY <1>8, <2>2, <2>4
<1>11. c \in Seq(Plain(n)) /\ Ended(c)
  BY <1>8, <1>9, <1>10, JoinEnded
<1>12. PICK g : g = Coded(Top, c)
  OBVIOUS
<1>13. frames' = Append(Front(frames), g) /\ Alike(Top, g, {} \cup {"code"}) /\ g.code = c /\ g.env = Top.env
  BY <1>6, <1>8, <1>12, AlikeSelf, GoingTo
<1>14. Alike(Top, g, {"code"})
  BY <1>13, AlikeMore
<1>15. /\ g.fin = Top.fin /\ g.to = Top.to /\ g.device = Top.device /\ g.old = Top.old
       /\ g.before = Top.before /\ g.mine = Top.mine /\ g.prot = Top.prot
  BY <1>14, AlikeFields
<1>16. Straight(g, n)
  BY <1>7, <1>11, <1>13, <1>15 DEF Straight
<1>17. c \in Seq(Steps(n))
  <2>1. Plain(n) \subseteq Steps(n)
    BY DEF Steps
  <2> QED BY <1>11, <2>1, SeqWidens
<1>18. Good(g, n)
  BY <1>6, <1>11, <1>13, <1>15, <1>16, <1>17 DEF Good, Shaped
<1>19. Carries(Top, g)
  <2>1. Clear(Top) /\ Clear(g)
    BY <1>6, <1>7, <1>16, StraightClear
  <2> QED BY <1>15, <2>1, ClearIs DEF Carries
<1>20. ~ Quiet(Top)
  <2>1. ~ CalmStep(Step)
    BY <1>1 DEF CalmStep
  <2> QED BY <1>6, <2>1, QuietHead
<1>21. Good(g, Len(heap'))
  BY <1>1, <1>5, <1>18
<1>22. FunctionsInv' /\ CalmInv' /\ Passing
  BY <1>1, <1>2, <1>3, <1>13, <1>19, <1>20, <1>21, Proceeded
<1> QED BY <1>1, <1>3, <1>4, <1>22 DEF TypedInv, HeapGrows

(* captureR() runs its `finally'.                                          *)
LEMMA Finalizes ==
    ASSUME FramesInv, HeapInv, FunctionsInv, CalmInv, HeapGrows, frames # <<>>, Top.fin # <<>>,
           NEW z \in {Return(x) : x \in Local} \cup {Throw("error"), Throw("unwind")},
           NEW c, c = CaptureFinally \o <<z>>,
           frames' = Goto([Top EXCEPT !.fin = <<>>], c)
    PROVE  /\ FunctionsInv' /\ CalmInv'
           /\ ~ Has(Top.code, {"newplots", "throw"}) => Passing
           /\ \E g : /\ Changed(g) /\ Alike(Top, g, {"code", "fin"}) /\ Quiets(g) /\ Holds(g)
                     /\ Opened(Top) <=> Opened(g)
<1>1. PICK n, m : n = Len(heap) /\ m = Len(heap')
  OBVIOUS
<1>2. n \in Nat /\ m \in Nat /\ n <= m /\ Good(Top, n) /\ Framed(Top)
  BY <1>1, TopIs DEF HeapGrows
<1>3. Good(Top, m)
  BY <1>2, GoodWidens
<1>4. PICK t, e, h : t = Top /\ e = <<>> /\ h = [t EXCEPT !.fin = e]
  OBVIOUS
<1>5. Framed(t)
  BY <1>2, <1>4
<1>6. Alike(t, h, {"fin"}) /\ h.fin = e
  <2>1. Framed(t) /\ h = [t EXCEPT !.fin = e]
    BY <1>4, <1>5
  <2> QED BY <2>1, Fixed
<1>7. Framed(h)
  <2>1. Like(t, t) /\ h = [t EXCEPT !.fin = e]
    BY <1>4, <1>5 DEF Like
  <2>2. Like(h, t)
    BY <2>1, Edited
  <2> QED BY <2>2 DEF Like
<1>8. PICK g : g = Coded(h, c)
  OBVIOUS
<1>9. frames' = Goto(h, c)
  BY <1>4
<1>10. Alike(Top, h, {"fin"})
  BY <1>4, <1>6
<1>11. frames' = Append(Front(frames), g) /\ Alike(Top, g, {"fin"} \cup {"code"}) /\ g.code = c
       /\ Alike(h, g, {"code"})
  <2>1. /\ Goto(h, c) = Append(Front(frames), Coded(h, c))
        /\ Alike(Top, Coded(h, c), {"fin"} \cup {"code"})
        /\ Coded(h, c).code = c
    BY <1>7, <1>10, GoingTo
  <2>2. g = [h EXCEPT !.code = c]
    BY <1>8 DEF Coded
  <2>3. Alike(h, g, {"code"})
    BY <1>7, <2>2, Fixed
  <2> QED BY <1>8, <1>9, <2>1, <2>3
<1>12. Alike(Top, g, {"code", "fin"})
  BY <1>11, AlikeMore
<1>13. g.fin = <<>>
  <2>1. g.fin = h.fin
    BY <1>11, AlikeFields
  <2> QED BY <1>4, <1>6, <2>1
<1>14. /\ g.to = Top.to /\ g.env = Top.env /\ g.device = Top.device /\ g.old = Top.old
       /\ g.before = Top.before /\ g.mine = Top.mine /\ g.prot = Top.prot
  BY <1>12, AlikeFields
<1>15. Shaped(Top, m) /\ g.code = CaptureFinally \o <<z>>
  BY <1>3, <1>11 DEF Good
<1>16. /\ Shaped(g, m) /\ Quiets(g) /\ Holds(g) /\ (Opened(Top) <=> Opened(g))
       /\ g.old = Top.old /\ g.before = Top.before /\ g.mine = Top.mine
           /\ ~ Has(Top.code, {"newplots", "throw"}) => Carries(Top, g)
  BY <1>2, <1>13, <1>14, <1>15, FinallyBegun
<1>17. Good(g, m)
  BY <1>3, <1>14, <1>16 DEF Good
<1>18. ~ Quiet(Top)
  BY DEF Quiet
<1>19. Good(g, Len(heap'))
  BY <1>1, <1>17
<1>20. /\ FunctionsInv' /\ CalmInv' /\ (Carries(Top, g) => Passing)
       /\ Len(frames') = Len(frames)
       /\ frames'[Len(frames)] = g
       /\ \A i \in 1 .. Len(frames) - 1 : frames'[i] = frames[i]
  BY <1>11, <1>18, <1>19, Proceeded
<1>21. Changed(g)
  BY <1>20 DEF Changed
<1>22. ~ Has(Top.code, {"newplots", "throw"}) => Passing
  BY <1>14, <1>16, <1>20
<1> QED BY <1>12, <1>16, <1>20, <1>21, <1>22

LEMMA HeapDrops ==
    ASSUME FramesInv, HeapInv, FunctionsInv, frames # <<>>, frames' = Front(frames),
           stack' = Popped(Top), UNCHANGED precious, held' \subseteq 1 .. Len(heap),
           heap' = IF frames' = <<>> THEN Named(held' \cup Roots') ELSE heap
    PROVE  HeapMoves
<1>1. stack' \in Seq(0 .. Len(heap))
  BY StackDrops
<1>2. Len(heap) \in Nat
  BY HeapIs
<1>3. CASE frames' # <<>>
  <2>1. heap' = heap
    BY <1>3
  <2>2. HeapInv'
    BY <1>1, <2>1 DEF HeapInv
  <2> QED BY <1>2, <2>1, <2>2 DEF HeapMoves
<1>4. CASE frames' = <<>>
  <2>1. PICK S, h, q : S = held' \cup Roots' /\ h = Named(S) /\ q = stack'
    OBVIOUS
  <2>2. Roots' = (ToSet(stack') \cup precious') \ {0}
    BY DEF Roots
  <2>3. /\ q \in Seq(0 .. Len(heap)) /\ \A i \in 1 .. Len(q) : q[i] \in 0 .. Len(heap)
        /\ ToSet(q) = {q[i] : i \in 1 .. Len(q)}
    BY <1>1, <2>1 DEF ToSet
  <2>4. S \subseteq 1 .. Len(heap)
    <3>1. \A x \in 0 .. Len(heap) : x # 0 => x \in 1 .. Len(heap)
      BY <1>2
    <3>2. ToSet(q) \ {0} \subseteq 1 .. Len(heap)
      BY <2>3, <3>1
    <3>3. precious \subseteq 1 .. Len(heap)
      BY DEF HeapInv
    <3> QED BY <2>1, <2>2, <3>2, <3>3
  <2>5. precious \subseteq S
    <3>1. precious \subseteq 1 .. Len(heap) /\ 0 \notin precious
      BY <1>2 DEF HeapInv
    <3> QED BY <2>1, <2>2, <3>1
  <2>6. h \in Seq(Cell(Len(h))) /\ S \subseteq 1 .. Len(h) /\ \A o \in S : h[o] = heap[o]
    BY <2>1, <2>4, NamedIs
  <2>7. heap' = h
    BY <1>4, <2>1
  <2>8. Len(heap') \in Nat /\ heap' \in Seq(Cell(Len(heap')))
    BY <2>6, <2>7
  <2>9. stack' \in Seq(0 .. Len(heap'))
    <3>1. PICK T, U : T = 0 .. Len(heap) /\ U = 0 .. Len(h)
      OBVIOUS
    <3>2. 0 \in U /\ \A x \in S : x \in U
      BY <2>6, <3>1
    <3>3. ASSUME NEW i \in 1 .. Len(q) PROVE q[i] \in U
      <4>1. q[i] \in ToSet(q)
        BY <2>3
      <4>2. q[i] = 0 \/ q[i] \in S
        BY <2>1, <2>2, <4>1
      <4> QED BY <3>2, <4>2
    <3>4. q \in Seq(T)
      BY <2>3, <3>1
    <3>5. q \in Seq(U)
      BY <3>3, <3>4, SeqNarrows
    <3> QED BY <2>1, <2>7, <3>1, <3>5
  <2>10. precious' \subseteq 1 .. Len(heap') /\ held' \subseteq 1 .. Len(heap')
    BY <2>1, <2>5, <2>6, <2>7
  <2>11. \A o \in precious' : heap'[o].alive
    BY <2>5, <2>6, <2>7 DEF HeapInv
  <2>12. HeapInv'
    BY <2>8, <2>9, <2>10, <2>11 DEF HeapInv
  <2> QED BY <1>4, <2>8, <2>12 DEF HeapMoves
<1> QED BY <1>3, <1>4

LEMMA Leaves ==
    ASSUME FramesInv, TypedInv, Leave
    PROVE  TypedInv' /\ Passing /\ UNCHANGED <<sessionVars, leftover, plotted>>
<1>1. /\ frames # <<>> /\ thrown = "none" /\ Step.op = "return" /\ ~ IsRequest(Top)
      /\ UNCHANGED <<heap, precious, held, thrown, sessionVars, leftover, plotted>>
  BY DEF Leave, At, Step, historyVars
<1>2. HeapInv /\ FunctionsInv /\ CalmInv
  BY DEF TypedInv
<1>3. ThrownInv'
  BY <1>1 DEF ThrownInv
<1>4. PICK n : n = Len(heap)
  OBVIOUS
<1>5. /\ n \in Nat /\ Good(Top, n) /\ Shaped(Top, n) /\ Framed(Top) /\ Step = Head(Top.code)
      /\ Step.of \in Local /\ Top.env \in [Local -> 0 .. n] /\ Top.to \in Local
  BY <1>1, <1>2, <1>4, TopIs DEF Fields
<1>6. CASE Top.fin # <<>>
  <2>1. UNCHANGED stack /\ frames' = Goto([Top EXCEPT !.fin = <<>>], Top.fin \o Top.code)
    BY <1>6 DEF Leave
  <2>2. HeapGrows
    BY <1>1, <1>2, <2>1, HeapStays
  <2>3. /\ \E z \in {Return(x) : x \in Local} : Top.code = <<z>>
        /\ ~ Has(Top.code, {"newplots", "throw"})
    BY <1>1, <1>5, <1>6, ReturnCode
  <2>4. PICK z \in {Return(x) : x \in Local} : Top.code = <<z>>
    BY <2>3
  <2>5. Top.fin = CaptureFinally
    BY <1>5, <1>6 DEF Shaped, Straight, Finishing, Trying
  <2>6. PICK c : c = CaptureFinally \o <<z>>
    OBVIOUS
  <2>7. frames' = Goto([Top EXCEPT !.fin = <<>>], c)
    BY <2>1, <2>4, <2>5, <2>6
  <2>8. z \in {Return(x) : x \in Local} \cup {Throw("error"), Throw("unwind")}
    OBVIOUS
  <2>9. /\ FunctionsInv' /\ CalmInv'
        /\ ~ Has(Top.code, {"newplots", "throw"}) => Passing
    BY <1>1, <1>2, <1>6, <2>2, <2>6, <2>7, <2>8, Finalizes
  <2> QED BY <1>1, <1>3, <2>2, <2>3, <2>9 DEF TypedInv, HeapGrows
<1>7. CASE Top.fin = <<>>
  <2>1. PICK f, v, e : /\ f = frames[Len(frames) - 1] /\ v = Top.env[Step.of]
                       /\ e = [f.env EXCEPT ![Top.to] = v]
    OBVIOUS
  <2>2. PICK w, env : /\ w = (IF Top.fn = "captureR" THEN Top.env["output"] ELSE e["output"])
                      /\ env = [e EXCEPT !["output"] = w]
    OBVIOUS
  <2>3. stack' = Popped(Top) /\ frames' = Append(Front(Front(frames)), [f EXCEPT !.env = env])
    BY <1>7, <2>1, <2>2 DEF Leave
  <2>4. Len(frames) \in Nat /\ Len(frames) >= 1 /\ Top = frames[Len(frames)]
    BY <1>1, Running
  <2>5. Len(frames) >= 2
    BY <1>1, <2>4 DEF FramesInv
  <2>6. Len(frames) - 1 \in 1 .. Len(frames)
    BY <2>4, <2>5
  <2>7. Framed(f) /\ Good(f, n)
    BY <1>2, <1>4, <2>1, <2>6 DEF FramesInv, FunctionsInv
  <2>8. env \in [Local -> 0 .. n]
    <3>1. f.env \in [Local -> 0 .. n] /\ v \in 0 .. n
      BY <1>5, <2>1, <2>7 DEF Good
    <3>2. e \in [Local -> 0 .. n]
      BY <2>1, <3>1
    <3>3. w \in 0 .. n
      BY <1>5, <2>2, <3>2, LocalsAre
    <3> QED BY <2>2, <3>2, <3>3
  <2>9. PICK g : g = [f EXCEPT !.env = env]
    OBVIOUS
  <2>10. Alike(f, g, {"env"}) /\ g.env = env
    BY <2>7, <2>9, Fixed
  <2>11. /\ g.code = f.code /\ g.fin = f.fin /\ g.to = f.to /\ g.device = f.device
         /\ g.mine = f.mine /\ g.prot = f.prot
    BY <2>10, AlikeFields
  <2>12. Shaped(g, n)
    BY <2>7, <2>11 DEF Good, Shaped, Straight, Trying, Finishing
  <2>13. Good(g, n)
    BY <2>7, <2>8, <2>10, <2>11, <2>12 DEF Good
  <2>14. Popped(Top) \in Seq(0 .. Len(heap))
    BY <1>1, <1>2, StackDrops
  <2>15. HeapGrows
    <3>1. stack' \in Seq(0 .. Len(heap'))
      BY <1>1, <2>3, <2>14
    <3>2. HeapInv'
      BY <1>1, <1>2, <3>1 DEF HeapInv
    <3> QED BY <1>1, <1>4, <1>5, <3>2 DEF HeapGrows
  <2>16. Clear(Top)
    BY <1>1, <1>5, <1>7, EndClear
  <2>17. frames' = Append(Front(Front(frames)), g) /\ Good(g, Len(heap'))
    BY <1>1, <1>4, <2>3, <2>9, <2>13
  <2>18. FunctionsInv' /\ CalmInv' /\ Passing
    BY <1>2, <2>1, <2>5, <2>10, <2>15, <2>16, <2>17, Exited
  <2> QED BY <1>1, <1>3, <2>15, <2>18 DEF TypedInv, HeapGrows
<1> QED BY <1>6, <1>7

LEMMA Answered ==
    ASSUME FramesInv, TypedInv, AnswerRequest
    PROVE  TypedInv' /\ Passing /\ UNCHANGED <<sessionVars, leftover, plotted>>
<1>1. /\ frames # <<>> /\ thrown = "none" /\ Step.op = "answer"
      /\ stack' = Popped(Top) /\ frames' = Front(frames)
      /\ UNCHANGED <<precious, thrown, sessionVars, leftover, plotted>>
      /\ held' = held \cup (Values(Step.of) \ {0})
      /\ heap' = IF frames' = <<>> THEN Named(held' \cup Roots') ELSE heap
  BY DEF AnswerRequest, At, Step
<1>2. HeapInv /\ FunctionsInv /\ CalmInv
  BY DEF TypedInv
<1>3. ThrownInv'
  BY <1>1 DEF ThrownInv
<1>4. PICK n : n = Len(heap)
  OBVIOUS
<1>5. /\ n \in Nat /\ Shaped(Top, n) /\ Step = Head(Top.code)
      /\ Step.of \in Seq(Local) /\ Top.env \in [Local -> 0 .. n]
  BY <1>1, <1>2, <1>4, TopIs DEF Fields
<1>6. Values(Step.of) \subseteq 0 .. n
  BY <1>5, ValuesAre
<1>7. held' \subseteq 1 .. Len(heap)
  <2>1. held \subseteq 1 .. n /\ 1 .. n = (0 .. n) \ {0}
    BY <1>2, <1>4, <1>5 DEF HeapInv
  <2>2. held' = held \cup (Values(Step.of) \ {0})
    BY <1>1
  <2> QED BY <1>4, <1>6, <2>1, <2>2
<1>8. HeapMoves
  BY <1>1, <1>2, <1>7, HeapDrops
<1>9. Clear(Top)
  <2>1. Straight(Top, n)
    BY <1>1, <1>5, ShapeAt
  <2> QED BY <1>5, <2>1, StraightClear
<1>10. FunctionsInv' /\ CalmInv' /\ Passing
  BY <1>1, <1>2, <1>8, <1>9, Dropped
<1> QED BY <1>1, <1>3, <1>8, <1>10 DEF TypedInv, HeapMoves

(* An exception leaves a function.                                         *)
LEMMA Unwound ==
    ASSUME FramesInv, TypedInv, Unwind, Top.fin = <<>>
    PROVE  TypedInv' /\ Passing /\ UNCHANGED <<sessionVars, leftover, plotted>>
<1>1. /\ frames # <<>> /\ thrown # "none"
      /\ stack' = Popped(Top) /\ frames' = Front(frames)
      /\ UNCHANGED <<precious, held, sessionVars, leftover, plotted>>
      /\ heap' = IF frames' = <<>> THEN Named(held' \cup Roots') ELSE heap
      /\ thrown' = "none" \/ thrown' = thrown
  BY DEF Unwind, FramesInv
<1>2. HeapInv /\ FunctionsInv /\ CalmInv /\ ThrownInv
  BY DEF TypedInv
<1>3. held' \subseteq 1 .. Len(heap)
  BY <1>1, <1>2 DEF HeapInv
<1>4. HeapMoves
  BY <1>1, <1>2, <1>3, HeapDrops
<1>5. Len(frames) \in Nat /\ Len(frames) >= 1 /\ Top = frames[Len(frames)]
  BY <1>1, Running
<1>6. Clear(Top)
  <2>1. Len(frames) \in 1 .. Len(frames)
    BY <1>5
  <2>2. ~ Restoring(Top)
    BY <1>1, <1>2, <1>5, <2>1 DEF ThrownInv
  <2> QED BY <2>2, NotLateClear
<1>7. FunctionsInv' /\ CalmInv' /\ Passing
  BY <1>1, <1>2, <1>4, <1>6, Dropped
<1>8. ThrownInv'
  <2>1. /\ Len(frames') = Len(frames) - 1
        /\ \A i \in 1 .. Len(frames) - 1 : frames'[i] = frames[i]
    BY <1>1, TopFacts DEF FramesInv
  <2>2. \A i \in 1 .. Len(frames) - 1 : i \in 1 .. Len(frames)
    BY <1>5
  <2>3. \A i \in 1 .. Len(frames') : ~ Restoring(frames'[i])
    BY <1>1, <1>2, <2>1, <2>2 DEF ThrownInv
  <2> QED BY <1>1, <1>2, <2>3 DEF ThrownInv
<1> QED BY <1>1, <1>4, <1>7, <1>8 DEF TypedInv, HeapMoves

(* Requests.                                                               *)
LEMMA RequestIs ==
    ASSUME HeapInv, Dispatched
    PROVE  \E fn, c, this : Dispatch(fn, c, this) /\ Code(c, Len(heap)) /\ this \in 0 .. Len(heap)
<1>1. PICK n : n = Len(heap)
  OBVIOUS
<1>2. n \in Nat /\ 0 \in 0 .. n
  BY <1>1, HeapIs
<1>3. CASE RequestEvaluation
  <2>1. PICK d \in Options : \/ Dispatch("captureR request", CaptureRequest(d), 0)
                             \/ Dispatch("evalR request", EvalRequest(d), 0)
                             \/ Dispatch("evalRRaw request", RawRequest(d), 0)
    BY <1>3 DEF RequestEvaluation
  <2>2. d \in Datum(n) /\ d.parts # <<>>
    BY <1>2, OptionsAre
  <2>3. Code(CaptureRequest(d), n) /\ Code(EvalRequest(d), n) /\ Code(RawRequest(d), n)
    BY <1>2, <2>2, RequestCode
  <2> QED BY <1>1, <1>2, <2>1, <2>3
<1>4. CASE RequestObject
  <2>1. PICK d \in Data : Dispatch("newRObject request", NewRequest(d), 0)
    BY <1>4 DEF RequestObject
  <2>2. d \in Datum(n)
    BY <1>2, DataAre
  <2>3. Code(NewRequest(d), n)
    BY <1>2, <2>2, RequestCode
  <2> QED BY <1>1, <1>2, <2>1, <2>3
<1>5. PICK d : d = [Index(1) EXCEPT !.parts = <<Index(1)>>]
  OBVIOUS
<1>6. d \in Datum(n) /\ d.parts # <<>>
  BY <1>2, <1>5, MethodData
<1>7. CASE RequestMethod
  <2>1. PICK fn \in Methods, o \in held : Dispatch("callRObjectMethod request", MethodRequest(fn, d), o)
    BY <1>5, <1>7 DEF RequestMethod
  <2>2. fn \in MethodKind /\ o \in 0 .. n
    BY <1>1 DEF Methods, MethodKind, HeapInv
  <2>3. Code(MethodRequest(fn, d), n)
    BY <1>2, <1>6, <2>2, RequestCode
  <2> QED BY <1>1, <2>1, <2>2, <2>3
<1>8. CASE RequestPlain
  <2>1. Code(PlainRequest, n)
    BY <1>2, <1>6, RequestCode
  <2> QED BY <1>1, <1>2, <1>8, <2>1 DEF RequestPlain
<1> QED BY <1>3, <1>4, <1>7, <1>8 DEF Dispatched

LEMMA Dispatching ==
    ASSUME FramesInv, TypedInv, Dispatched
    PROVE  TypedInv' /\ Passing /\ UNCHANGED <<sessionVars, leftover, plotted>>
<1>1. HeapInv /\ FunctionsInv /\ CalmInv
  BY DEF TypedInv
<1>2. PICK fn, c, this : Dispatch(fn, c, this) /\ Code(c, Len(heap)) /\ this \in 0 .. Len(heap)
  BY <1>1, RequestIs
<1>3. /\ thrown = "none" /\ Prompt
      /\ UNCHANGED <<heap, stack, precious, held, thrown, sessionVars, leftover, plotted>>
  BY <1>2 DEF Dispatch, rVars
<1>4. HeapGrows
  BY <1>1, <1>3, HeapStays
<1>5. ThrownInv'
  BY <1>3 DEF ThrownInv
<1>6. \A i \in 1 .. Len(frames) : ~ Late(frames[i])
  <2>1. CASE frames = <<>>
    <3>1. Len(frames) = 0
      BY <2>1
    <3> QED BY <3>1
  <2>2. CASE frames # <<>>
    <3>1. Step.op = "user"
      BY <1>3, <2>2 DEF Prompt, At, Step
    <3> QED BY <1>1, <2>2, <3>1, NoneLate
  <2> QED BY <2>1, <2>2
<1>7. PICK n, env, to, fin : /\ n = Len(heap) /\ env = [NoLocals EXCEPT !["this"] = this]
                             /\ to = "this" /\ fin = <<>>
  OBVIOUS
<1>8. n \in Nat /\ to \in Local /\ Code(c, n) /\ this \in 0 .. n
  BY <1>1, <1>2, <1>7, HeapIs, LocalsAre
<1>9. env \in [Local -> 0 .. n]
  <2>1. NoLocals \in [Local -> 0 .. n]
    BY <1>8 DEF NoLocals
  <2> QED BY <1>7, <1>8, <2>1
<1>10. PICK h : h = Frame(fn, c, fin, env, to)
  OBVIOUS
<1>11. Good(h, n) /\ Straight(h, n) /\ h.before = {} /\ h.device = 1
  <2>1. h = Frame(fn, c, fin, env, to) /\ fin = <<>> /\ Code(c, n)
    BY <1>7, <1>8, <1>10
  <2>2. n \in Nat /\ to \in Local
    BY <1>8
  <2> QED BY <1>9, <2>1, <2>2, NewFrame
<1>12. PICK f : f = [h EXCEPT !.request = TRUE]
  OBVIOUS
<1>13. /\ f.env = h.env /\ f.to = h.to /\ f.code = h.code /\ f.fin = h.fin /\ f.device = h.device
       /\ f.mine = h.mine /\ f.before = h.before /\ f.prot = h.prot
  BY <1>10, <1>12 DEF Frame
<1>14. Straight(f, n) /\ Shaped(f, n) /\ Good(f, n)
  BY <1>11, <1>13 DEF Straight, Shaped, Good
<1>15. ~ Opened(f) /\ f.before = {}
  BY <1>11, <1>13 DEF Opened
<1>16. frames' = Append(frames, f)
  BY <1>2, <1>7, <1>10, <1>12 DEF Dispatch
<1>17. Good(f, Len(heap'))
  BY <1>3, <1>7, <1>14
<1>18. FunctionsInv' /\ CalmInv' /\ Passing
  BY <1>1, <1>4, <1>6, <1>15, <1>16, <1>17, Started
<1> QED BY <1>3, <1>4, <1>5, <1>18 DEF TypedInv, HeapGrows

(***************************************************************************)
(* The session.                                                            *)
(***************************************************************************)
QuietInv ==
    /\ interactive \in BOOLEAN
    /\ interactive = Interactive \/ \E i \in 1 .. Len(frames) : Quiets(frames[i])

(* Each device but the default one is that of a captureR() in progress,    *)
(* which closes it; devices of captureR() called inside have larger        *)
(* numbers.                                                                *)
DeviceInv ==
    /\ \E b \in Nat : devices \subseteq 0 .. b
    /\ current \in devices \cup {1}
    /\ \A d \in devices : \/ d = 0
                          \/ \E i \in 1 .. Len(frames) : Opened(frames[i]) /\ frames[i].device = d
    /\ \A i \in 1 .. Len(frames) : Opened(frames[i]) =>
          /\ frames[i].device \in devices /\ frames[i].old \in devices \cup {1}
          /\ frames[i].old < frames[i].device
    /\ \A i, j \in 1 .. Len(frames) :
          i < j /\ Opened(frames[i]) /\ Opened(frames[j]) => frames[i].device < frames[j].device

(* Each plot in the cache is that of a captureR() in progress, which       *)
(* destroys it, or was left there by one that failed.                      *)
PlotInv ==
    /\ plotted \in Nat /\ cache \subseteq 1 .. plotted
    /\ \A i \in 1 .. Len(frames) : frames[i].before \subseteq 1 .. plotted
    /\ \A p \in cache :
          \/ p \in leftover
          \/ \E i \in 1 .. Len(frames) : Due(frames[i]) /\ p \notin frames[i].before
          \/ \E i \in 1 .. Len(frames) : Holds(frames[i]) /\ p \in frames[i].mine

(* What the frames have to do is handed on.                                *)
QuietsOn ==
    \A i \in 1 .. Len(frames) : Quiets(frames[i]) => i \in 1 .. Len(frames') /\ Quiets(frames'[i])

DevicesOn ==
    /\ \A i \in 1 .. Len(frames) : Opened(frames[i]) => i \in 1 .. Len(frames') /\ Opened(frames'[i])
    /\ \A i \in 1 .. Len(frames') : Opened(frames'[i]) =>
          /\ i \in 1 .. Len(frames) /\ Opened(frames[i])
          /\ frames'[i].device = frames[i].device /\ frames'[i].old = frames[i].old

PlotsOn ==
    /\ \A i \in 1 .. Len(frames) : Due(frames[i]) =>
          i \in 1 .. Len(frames') /\ Due(frames'[i]) /\ frames'[i].before = frames[i].before
    /\ \A i \in 1 .. Len(frames) : Holds(frames[i]) =>
          i \in 1 .. Len(frames') /\ Holds(frames'[i]) /\ frames'[i].mine = frames[i].mine

BeforeOn ==
    \A i \in 1 .. Len(frames') :
        \/ frames'[i].before \subseteq cache
        \/ i \in 1 .. Len(frames) /\ frames'[i].before = frames[i].before

LEMMA PassedOn ==
    ASSUME Passing, Len(frames) \in Nat, Len(frames') \in Nat
    PROVE  QuietsOn /\ DevicesOn /\ PlotsOn /\ BeforeOn
<1>1. PICK k, m : k = Len(frames) /\ m = Len(frames')
  OBVIOUS
<1>2. k \in Nat /\ m \in Nat
  BY <1>1
<1>3. ASSUME NEW i \in 1 .. k
      PROVE  \/ i \in 1 .. m /\ Carries(frames[i], frames'[i])
             \/ Clear(frames[i])
  <2>1. i <= m \/ i > m
    BY <1>2
  <2>2. i <= m => i \in 1 .. m
    BY <1>2
  <2> QED BY <1>1, <2>1, <2>2 DEF Passing
<1>4. ASSUME NEW i \in 1 .. m
      PROVE  \/ i \in 1 .. k /\ Carries(frames[i], frames'[i])
             \/ ~ Opened(frames'[i]) /\ frames'[i].before = {}
  <2>1. i <= k \/ i > k
    BY <1>2
  <2>2. i <= k => i \in 1 .. k /\ i <= m
    BY <1>2
  <2> QED BY <1>1, <2>1, <2>2 DEF Passing
<1>5. QuietsOn
  BY <1>1, <1>3, ClearIs DEF QuietsOn, Carries
<1>6. DevicesOn
  <2>1. ASSUME NEW i \in 1 .. k, Opened(frames[i]) PROVE i \in 1 .. m /\ Opened(frames'[i])
    BY <1>3, <2>1, ClearIs DEF Carries
  <2>2. ASSUME NEW i \in 1 .. m, Opened(frames'[i])
        PROVE  /\ i \in 1 .. k /\ Opened(frames[i])
               /\ frames'[i].device = frames[i].device /\ frames'[i].old = frames[i].old
    BY <1>4, <2>2 DEF Carries
  <2> QED BY <1>1, <2>1, <2>2 DEF DevicesOn
<1>7. PlotsOn
  <2>1. ASSUME NEW i \in 1 .. k, Due(frames[i])
        PROVE  i \in 1 .. m /\ Due(frames'[i]) /\ frames'[i].before = frames[i].before
    BY <1>3, <2>1, ClearIs DEF Carries
  <2>2. ASSUME NEW i \in 1 .. k, Holds(frames[i])
        PROVE  i \in 1 .. m /\ Holds(frames'[i]) /\ frames'[i].mine = frames[i].mine
    BY <1>3, <2>2, ClearIs DEF Carries
  <2> QED BY <1>1, <2>1, <2>2 DEF PlotsOn
<1>8. BeforeOn
  <2>1. ASSUME NEW i \in 1 .. m
        PROVE  \/ frames'[i].before \subseteq cache
               \/ i \in 1 .. k /\ frames'[i].before = frames[i].before
    BY <1>4 DEF Carries
  <2> QED BY <1>1, <2>1 DEF BeforeOn
<1> QED BY <1>5, <1>6, <1>7, <1>8

LEMMA QuietKept ==
    ASSUME QuietInv, QuietsOn, UNCHANGED interactive
    PROVE  QuietInv'
<1>1. CASE interactive = Interactive
  BY <1>1 DEF QuietInv
<1>2. CASE interactive # Interactive
  <2>1. PICK i \in 1 .. Len(frames) : Quiets(frames[i])
    BY <1>2 DEF QuietInv
  <2>2. i \in 1 .. Len(frames') /\ Quiets(frames'[i])
    BY <2>1 DEF QuietsOn
  <2> QED BY <2>2 DEF QuietInv
<1> QED BY <1>1, <1>2

LEMMA DevicesKept ==
    ASSUME DeviceInv, DevicesOn, UNCHANGED <<devices, current>>
    PROVE  DeviceInv'
<1>1. (\E b \in Nat : devices \subseteq 0 .. b)' /\ (current \in devices \cup {1})'
  BY DEF DeviceInv
<1>2. ASSUME NEW d \in devices, d # 0
      PROVE  \E i \in 1 .. Len(frames') : Opened(frames'[i]) /\ frames'[i].device = d
  <2>1. PICK i \in 1 .. Len(frames) : Opened(frames[i]) /\ frames[i].device = d
    BY <1>2 DEF DeviceInv
  <2>2. i \in 1 .. Len(frames') /\ Opened(frames'[i])
    BY <2>1 DEF DevicesOn
  <2>3. frames'[i].device = frames[i].device
    BY <2>2 DEF DevicesOn
  <2> QED BY <2>1, <2>2, <2>3
<1>3. ASSUME NEW i \in 1 .. Len(frames'), Opened(frames'[i])
      PROVE  /\ frames'[i].device \in devices /\ frames'[i].old \in devices \cup {1}
             /\ frames'[i].old < frames'[i].device
  <2>1. /\ i \in 1 .. Len(frames) /\ Opened(frames[i])
        /\ frames'[i].device = frames[i].device /\ frames'[i].old = frames[i].old
    BY <1>3 DEF DevicesOn
  <2> QED BY <2>1 DEF DeviceInv
<1>4. ASSUME NEW i \in 1 .. Len(frames'), NEW j \in 1 .. Len(frames'), i < j,
             Opened(frames'[i]), Opened(frames'[j])
      PROVE  frames'[i].device < frames'[j].device
  <2>1. /\ i \in 1 .. Len(frames) /\ Opened(frames[i]) /\ frames'[i].device = frames[i].device
        /\ j \in 1 .. Len(frames) /\ Opened(frames[j]) /\ frames'[j].device = frames[j].device
    BY <1>4 DEF DevicesOn
  <2> QED BY <1>4, <2>1 DEF DeviceInv
<1> QED BY <1>1, <1>2, <1>3, <1>4 DEF DeviceInv

LEMMA BeforeKept ==
    ASSUME PlotInv, BeforeOn, plotted' \in Nat, plotted <= plotted'
    PROVE  \A i \in 1 .. Len(frames') : frames'[i].before \subseteq 1 .. plotted'
<1>1. \A x \in 1 .. plotted : x \in 1 .. plotted'
  BY DEF PlotInv
<1>2. cache \subseteq 1 .. plotted' /\ \A i \in 1 .. Len(frames) : frames[i].before \subseteq 1 .. plotted'
  BY <1>1 DEF PlotInv
<1> QED BY <1>2 DEF BeforeOn

LEMMA PlotsKept ==
    ASSUME PlotInv, PlotsOn, BeforeOn, UNCHANGED <<cache, plotted, leftover>>
    PROVE  PlotInv'
<1>1. plotted' \in Nat /\ plotted <= plotted' /\ cache' \subseteq 1 .. plotted'
  BY DEF PlotInv
<1>2. \A i \in 1 .. Len(frames') : frames'[i].before \subseteq 1 .. plotted'
  BY <1>1, BeforeKept
<1>3. ASSUME NEW p \in cache, p \notin leftover
      PROVE  \/ \E i \in 1 .. Len(frames') : Due(frames'[i]) /\ p \notin frames'[i].before
             \/ \E i \in 1 .. Len(frames') : Holds(frames'[i]) /\ p \in frames'[i].mine
  <2>1. CASE \E i \in 1 .. Len(frames) : Due(frames[i]) /\ p \notin frames[i].before
    <3>1. PICK i \in 1 .. Len(frames) : Due(frames[i]) /\ p \notin frames[i].before
      BY <2>1
    <3>2. i \in 1 .. Len(frames') /\ Due(frames'[i]) /\ frames'[i].before = frames[i].before
      BY <3>1 DEF PlotsOn
    <3> QED BY <3>1, <3>2
  <2>2. CASE \E i \in 1 .. Len(frames) : Holds(frames[i]) /\ p \in frames[i].mine
    <3>1. PICK i \in 1 .. Len(frames) : Holds(frames[i]) /\ p \in frames[i].mine
      BY <2>2
    <3>2. i \in 1 .. Len(frames') /\ Holds(frames'[i]) /\ frames'[i].mine = frames[i].mine
      BY <3>1 DEF PlotsOn
    <3> QED BY <3>1, <3>2
  <2> QED BY <1>3, <2>1, <2>2 DEF PlotInv
<1> QED BY <1>1, <1>2, <1>3 DEF PlotInv

SessionInv == QuietInv /\ DeviceInv /\ PlotInv

LEMMA SessionPassed ==
    ASSUME SessionInv, Passing, UNCHANGED <<sessionVars, leftover, plotted>>,
           Len(frames) \in Nat, Len(frames') \in Nat
    PROVE  SessionInv'
<1>1. QuietsOn /\ DevicesOn /\ PlotsOn /\ BeforeOn
  BY PassedOn
<1>2. UNCHANGED <<interactive, devices, current, cache, leftover, plotted>>
  BY DEF sessionVars
<1>3. QuietInv' /\ DeviceInv' /\ PlotInv'
  BY <1>1, <1>2, QuietKept, DevicesKept, PlotsKept DEF SessionInv
<1> QED BY <1>3 DEF SessionInv

(* The frame on top changes.                                               *)
LEMMA ChangedIndex ==
    ASSUME NEW g, Changed(g), Len(frames) \in Nat, Len(frames) >= 1, Top = frames[Len(frames)]
    PROVE  /\ Len(frames') = Len(frames) /\ Len(frames) \in 1 .. Len(frames')
           /\ \A i \in 1 .. Len(frames) :
                 \/ i = Len(frames) /\ frames[i] = Top /\ frames'[i] = g
                 \/ i < Len(frames) /\ frames'[i] = frames[i]
<1>1. \A i \in 1 .. Len(frames) : i = Len(frames) \/ (i < Len(frames) /\ i \in 1 .. Len(frames) - 1)
  OBVIOUS
<1> QED BY <1>1 DEF Changed

LEMMA ChangedQuiets ==
    ASSUME NEW g, Changed(g), Len(frames) \in Nat, Len(frames) >= 1, Top = frames[Len(frames)],
           Quiets(Top) => Quiets(g)
    PROVE  QuietsOn
<1>1. /\ Len(frames') = Len(frames)
      /\ \A i \in 1 .. Len(frames) :
            \/ i = Len(frames) /\ frames[i] = Top /\ frames'[i] = g
            \/ i < Len(frames) /\ frames'[i] = frames[i]
  BY ChangedIndex
<1> QED BY <1>1 DEF QuietsOn

LEMMA ChangedDevices ==
    ASSUME NEW g, Changed(g), Len(frames) \in Nat, Len(frames) >= 1, Top = frames[Len(frames)],
           Opened(Top) <=> Opened(g), g.device = Top.device, g.old = Top.old
    PROVE  DevicesOn
<1>1. /\ Len(frames') = Len(frames)
      /\ \A i \in 1 .. Len(frames) :
            \/ i = Len(frames) /\ frames[i] = Top /\ frames'[i] = g
            \/ i < Len(frames) /\ frames'[i] = frames[i]
  BY ChangedIndex
<1> QED BY <1>1 DEF DevicesOn

LEMMA ChangedPlots ==
    ASSUME NEW g, Changed(g), Len(frames) \in Nat, Len(frames) >= 1, Top = frames[Len(frames)],
           Due(Top) => Due(g) /\ g.before = Top.before,
           Holds(Top) => Holds(g) /\ g.mine = Top.mine
    PROVE  PlotsOn
<1>1. /\ Len(frames') = Len(frames)
      /\ \A i \in 1 .. Len(frames) :
            \/ i = Len(frames) /\ frames[i] = Top /\ frames'[i] = g
            \/ i < Len(frames) /\ frames'[i] = frames[i]
  BY ChangedIndex
<1> QED BY <1>1 DEF PlotsOn

LEMMA ChangedBefore ==
    ASSUME NEW g, Changed(g), Len(frames) \in Nat, Len(frames) >= 1, Top = frames[Len(frames)],
           g.before \subseteq cache \/ g.before = Top.before
    PROVE  BeforeOn
<1>1. /\ Len(frames') = Len(frames)
      /\ \A i \in 1 .. Len(frames) :
            \/ i = Len(frames) /\ frames[i] = Top /\ frames'[i] = g
            \/ i < Len(frames) /\ frames'[i] = frames[i]
  BY ChangedIndex
<1> QED BY <1>1 DEF BeforeOn

LEMMA Reworked ==
    ASSUME NEW h, Framed(h), NEW X, Alike(Top, h, X), "code" \notin X, frames' = Advance(h)
    PROVE  \E g : /\ frames' = Append(Front(frames), g) /\ Alike(h, g, {"code"})
                  /\ Alike(Top, g, X \cup {"code"}) /\ g.code = Tail(Top.code)
<1>1. PICK c : c = Tail(Top.code)
  OBVIOUS
<1>2. h.code = Top.code
  BY AlikeFields
<1>3. frames' = Goto(h, c)
  BY <1>1, <1>2 DEF Advance
<1>4. /\ Goto(h, c) = Append(Front(frames), Coded(h, c))
      /\ Alike(Top, Coded(h, c), X \cup {"code"})
      /\ Coded(h, c).code = c
  BY GoingTo
<1>5. PICK g : g = [h EXCEPT !.code = c]
  OBVIOUS
<1>6. Alike(h, g, {"code"}) /\ g = Coded(h, c)
  BY <1>5, Fixed DEF Coded
<1> QED BY <1>1, <1>3, <1>4, <1>6

(* What the next steps share.                                              *)
LEMMA InSession ==
    ASSUME FramesInv, TypedInv, frames # <<>>, UNCHANGED <<heap, stack, precious, held>>
    PROVE  /\ HeapGrows /\ HeapInv /\ FunctionsInv /\ CalmInv
           /\ Len(frames) \in Nat /\ Len(frames) >= 1 /\ Top = frames[Len(frames)]
           /\ Len(frames) \in 1 .. Len(frames)
           /\ Framed(Top) /\ Good(Top, Len(heap)) /\ Shaped(Top, Len(heap)) /\ Len(heap) \in Nat
           /\ Step = Head(Top.code)
           /\ frames' = Advance(Top) => Onwards
<1>1. HeapInv /\ FunctionsInv /\ CalmInv
  BY DEF TypedInv
<1>2. HeapGrows
  BY <1>1, HeapStays
<1>3. Len(frames) \in Nat /\ Len(frames) >= 1 /\ Top = frames[Len(frames)]
  BY Running
<1>4. Framed(Top) /\ Good(Top, Len(heap)) /\ Shaped(Top, Len(heap)) /\ Len(heap) \in Nat
      /\ Step = Head(Top.code)
  BY <1>1, TopIs
<1>5. frames' = Advance(Top) => Onwards
  BY <1>1, <1>2, AdvancedTop DEF HeapGrows
<1> QED BY <1>1, <1>2, <1>3, <1>4, <1>5

LEMMA SetsInteractive ==
    ASSUME FramesInv, TypedInv, SessionInv, SetInteractive
    PROVE  TypedInv' /\ SessionInv'
<1>1. /\ frames # <<>> /\ thrown = "none" /\ frames' = Advance(Top)
      /\ UNCHANGED <<heap, stack, precious, held, thrown, devices, current, cache, leftover, plotted>>
      /\ \/ Step.op = "quiet" /\ interactive' = FALSE
         \/ Step.op = "restore" /\ interactive' = Interactive
  BY DEF SetInteractive, At, Step, rVars, historyVars
<1>2. /\ HeapGrows /\ HeapInv /\ FunctionsInv /\ CalmInv
      /\ Len(frames) \in Nat /\ Len(frames) >= 1 /\ Top = frames[Len(frames)]
      /\ Shaped(Top, Len(heap)) /\ Len(heap) \in Nat /\ Step = Head(Top.code) /\ Onwards
  BY <1>1, InSession
<1>3. ThrownInv'
  BY <1>1 DEF ThrownInv
<1>4. /\ FunctionsInv' /\ CalmInv'
      /\ Step.op \notin {"restore", "close", "destroy"} => Passing
      /\ \E g : Changed(g) /\ Alike(Top, g, {"code", "env", "n", "prot"}) /\ g.code = Tail(Top.code)
  BY <1>1, <1>2, OnwardsKept
<1>5. PICK g : Changed(g) /\ Alike(Top, g, {"code", "env", "n", "prot"}) /\ g.code = Tail(Top.code)
  BY <1>4
<1>6. /\ g.fin = Top.fin /\ g.device = Top.device /\ g.old = Top.old
      /\ g.before = Top.before /\ g.mine = Top.mine
  BY <1>5, AlikeFields
<1>7. TypedInv'
  BY <1>2, <1>3, <1>4 DEF TypedInv, HeapGrows
<1>8. \A O : Has(Top.code, O) <=> Step.op \in O \/ Has(g.code, O)
  <2>1. Top.code \in Seq(Steps(Len(heap))) /\ Top.code # <<>>
    BY <1>2, ShapeAt DEF Shaped
  <2> QED BY <1>2, <1>5, <2>1, TailHas
<1>9. /\ Has(Top.code, {"close"}) <=> Has(g.code, {"close"})
      /\ Has(Top.code, {"newplots", "throw"}) <=> Has(g.code, {"newplots", "throw"})
      /\ Has(Top.code, {"destroy"}) <=> Has(g.code, {"destroy"})
  BY <1>1, <1>8
<1>10. DevicesOn
  <2>1. Opened(Top) <=> Opened(g)
    BY <1>6, <1>9 DEF Opened
  <2> QED BY <1>2, <1>5, <1>6, <2>1, ChangedDevices
<1>11. PlotsOn /\ BeforeOn
  <2>1. (Due(Top) => Due(g)) /\ (Holds(Top) => Holds(g))
    BY <1>6, <1>9 DEF Due, Holds
  <2> QED BY <1>2, <1>5, <1>6, <2>1, ChangedPlots, ChangedBefore
<1>12. DeviceInv' /\ PlotInv'
  BY <1>1, <1>10, <1>11, DevicesKept, PlotsKept DEF SessionInv
<1>13. QuietInv'
  <2>1. CASE Step.op = "restore" /\ interactive' = Interactive
    BY <2>1, EvaluationAssumption DEF QuietInv
  <2>2. CASE Step.op = "quiet" /\ interactive' = FALSE
    <3>1. Trying(Top)
      BY <1>2, <2>2, ShapeAt
    <3>2. Top.fin # <<>>
      BY <3>1, FinallyRuns, LocalsAre DEF Trying
    <3>3. Quiets(g)
      BY <1>6, <3>2 DEF Quiets
    <3>4. Len(frames) \in 1 .. Len(frames') /\ frames'[Len(frames)] = g
      BY <1>2, <1>5 DEF Changed
    <3> QED BY <2>2, <3>3, <3>4 DEF QuietInv
  <2> QED BY <1>1, <2>1, <2>2
<1> QED BY <1>7, <1>12, <1>13 DEF SessionInv

LEMMA DestroysPlots ==
    ASSUME FramesInv, TypedInv, SessionInv, DestroyPlots
    PROVE  TypedInv' /\ SessionInv'
<1>1. /\ frames # <<>> /\ thrown = "none" /\ frames' = Advance(Top) /\ Step.op = "destroy"
      /\ UNCHANGED <<heap, stack, precious, held, thrown, interactive, devices, current, leftover, plotted>>
      /\ cache' = cache \ Top.mine
  BY DEF DestroyPlots, At, Step, rVars, historyVars
<1>2. /\ HeapGrows /\ HeapInv /\ FunctionsInv /\ CalmInv
      /\ Len(frames) \in Nat /\ Len(frames) >= 1 /\ Top = frames[Len(frames)]
      /\ Shaped(Top, Len(heap)) /\ Len(heap) \in Nat /\ Step = Head(Top.code) /\ Onwards
  BY <1>1, InSession
<1>3. ThrownInv'
  BY <1>1 DEF ThrownInv
<1>4. /\ FunctionsInv' /\ CalmInv'
      /\ \E g : Changed(g) /\ Alike(Top, g, {"code", "env", "n", "prot"}) /\ g.code = Tail(Top.code)
  BY <1>1, <1>2, OnwardsKept
<1>5. PICK g : Changed(g) /\ Alike(Top, g, {"code", "env", "n", "prot"}) /\ g.code = Tail(Top.code)
  BY <1>4
<1>6. /\ g.fin = Top.fin /\ g.device = Top.device /\ g.old = Top.old
      /\ g.before = Top.before /\ g.mine = Top.mine
  BY <1>5, AlikeFields
<1>7. TypedInv'
  BY <1>2, <1>3, <1>4 DEF TypedInv, HeapGrows
<1>8. \A O : Has(Top.code, O) <=> Step.op \in O \/ Has(g.code, O)
  <2>1. Top.code \in Seq(Steps(Len(heap))) /\ Top.code # <<>>
    BY <1>2, ShapeAt DEF Shaped
  <2> QED BY <1>2, <1>5, <2>1, TailHas
<1>9. /\ Has(Top.code, {"close"}) <=> Has(g.code, {"close"})
      /\ Has(Top.code, {"restore"}) <=> Has(g.code, {"restore"})
  BY <1>1, <1>8
<1>10. QuietsOn /\ DevicesOn
  <2>1. (Opened(Top) <=> Opened(g)) /\ (Quiets(Top) => Quiets(g))
    BY <1>6, <1>9 DEF Opened, Quiets
  <2> QED BY <1>2, <1>5, <1>6, <2>1, ChangedQuiets, ChangedDevices
<1>11. QuietInv' /\ DeviceInv'
  BY <1>1, <1>10, QuietKept, DevicesKept DEF SessionInv
<1>12. BeforeOn
  BY <1>2, <1>5, <1>6, ChangedBefore
<1>13. /\ plotted' \in Nat /\ plotted <= plotted' /\ cache' \subseteq 1 .. plotted'
  <2>1. plotted' = plotted /\ cache' \subseteq cache
    BY <1>1
  <2>2. plotted \in Nat /\ cache \subseteq 1 .. plotted
    BY DEF SessionInv, PlotInv
  <2> QED BY <2>1, <2>2
<1>14. \A i \in 1 .. Len(frames') : frames'[i].before \subseteq 1 .. plotted'
  BY <1>12, <1>13, BeforeKept DEF SessionInv
<1>15. Top.fin = <<>>
  <2>1. Finishing(Top)
    BY <1>1, <1>2, ShapeAt
  <2> QED BY <2>1 DEF Finishing
<1>16. /\ Len(frames') = Len(frames)
       /\ \A i \in 1 .. Len(frames) :
             \/ i = Len(frames) /\ frames[i] = Top /\ frames'[i] = g
             \/ i < Len(frames) /\ frames'[i] = frames[i]
  BY <1>2, <1>5, ChangedIndex
<1>17. ASSUME NEW p \in cache', p \notin leftover
       PROVE  \/ \E i \in 1 .. Len(frames') : Due(frames'[i]) /\ p \notin frames'[i].before
              \/ \E i \in 1 .. Len(frames') : Holds(frames'[i]) /\ p \in frames'[i].mine
  <2>1. p \in cache /\ p \notin Top.mine
    BY <1>1, <1>17
  <2>2. ~ Due(Top)
    BY <1>15 DEF Due
  <2>3. \/ \E i \in 1 .. Len(frames) : Due(frames[i]) /\ p \notin frames[i].before
        \/ \E i \in 1 .. Len(frames) : Holds(frames[i]) /\ p \in frames[i].mine
    BY <1>17, <2>1 DEF SessionInv, PlotInv
  <2> QED BY <1>16, <2>1, <2>2, <2>3
<1>18. PlotInv'
  BY <1>1, <1>13, <1>14, <1>17 DEF PlotInv
<1> QED BY <1>7, <1>11, <1>18 DEF SessionInv

LEMMA ClosesDevice ==
    ASSUME FramesInv, TypedInv, SessionInv, CloseDevice
    PROVE  TypedInv' /\ SessionInv'
<1>1. /\ frames # <<>> /\ thrown = "none" /\ frames' = Advance(Top) /\ Step.op = "close"
      /\ UNCHANGED <<heap, stack, precious, held, thrown, interactive, cache, leftover, plotted>>
  BY DEF CloseDevice, At, Step, rVars, historyVars
<1>2. /\ HeapGrows /\ HeapInv /\ FunctionsInv /\ CalmInv
      /\ Len(frames) \in Nat /\ Len(frames) >= 1 /\ Top = frames[Len(frames)]
      /\ Shaped(Top, Len(heap)) /\ Len(heap) \in Nat /\ Step = Head(Top.code) /\ Onwards
  BY <1>1, InSession
<1>3. ThrownInv'
  BY <1>1 DEF ThrownInv
<1>4. /\ FunctionsInv' /\ CalmInv'
      /\ \E g : Changed(g) /\ Alike(Top, g, {"code", "env", "n", "prot"}) /\ g.code = Tail(Top.code)
  BY <1>1, <1>2, OnwardsKept
<1>5. PICK g : Changed(g) /\ Alike(Top, g, {"code", "env", "n", "prot"}) /\ g.code = Tail(Top.code)
  BY <1>4
<1>6. /\ g.fin = Top.fin /\ g.device = Top.device /\ g.old = Top.old
      /\ g.before = Top.before /\ g.mine = Top.mine
  BY <1>5, AlikeFields
<1>7. TypedInv'
  BY <1>2, <1>3, <1>4 DEF TypedInv, HeapGrows
<1>8. \A O : Has(Top.code, O) <=> Step.op \in O \/ Has(g.code, O)
  <2>1. Top.code \in Seq(Steps(Len(heap))) /\ Top.code # <<>>
    BY <1>2, ShapeAt DEF Shaped
  <2> QED BY <1>2, <1>5, <2>1, TailHas
<1>9. Finishing(Top)
  BY <1>1, <1>2, ShapeAt
<1>10. Top.fin = <<>> /\ ~ Has(g.code, {"close"}) /\ Has(Top.code, {"close"})
       /\ (Has(Top.code, {"restore"}) <=> Has(g.code, {"restore"}))
       /\ (Has(Top.code, {"destroy"}) <=> Has(g.code, {"destroy"}))
  <2>1. Closing(Top.code) /\ Top.fin = <<>>
    BY <1>9 DEF Finishing
  <2>2. ~ Has(Tail(Top.code), {"close"})
    BY <1>1, <1>2, <2>1, ClosingIs
  <2>3. Has(Top.code, {"close"}) /\ (Has(Top.code, {"restore"}) <=> Has(g.code, {"restore"}))
        /\ (Has(Top.code, {"destroy"}) <=> Has(g.code, {"destroy"}))
    BY <1>1, <1>8
  <2> QED BY <1>5, <2>1, <2>2, <2>3
<1>11. QuietInv' /\ PlotInv'
  <2>1. (Quiets(Top) => Quiets(g)) /\ (Due(Top) => Due(g)) /\ (Holds(Top) => Holds(g))
    BY <1>6, <1>10 DEF Quiets, Due, Holds
  <2>2. QuietsOn /\ PlotsOn /\ BeforeOn
    BY <1>2, <1>5, <1>6, <2>1, ChangedQuiets, ChangedPlots, ChangedBefore
  <2> QED BY <1>1, <2>2, QuietKept, PlotsKept DEF SessionInv
<1>12. ~ Opened(g) /\ (Opened(Top) <=> Top.device # 1)
  BY <1>6, <1>10 DEF Opened
<1>13. CASE Top.device = 1
  <2>1. UNCHANGED <<devices, current>>
    BY <1>13 DEF CloseDevice, NullDevice
  <2>2. DevicesOn
    BY <1>2, <1>5, <1>6, <1>12, <1>13, ChangedDevices
  <2>3. DeviceInv'
    BY <2>1, <2>2, DevicesKept DEF SessionInv
  <2> QED BY <1>7, <1>11, <2>3 DEF SessionInv
<1>14. CASE Top.device # 1
  <2>1. PICK k, x, rest : k = Len(frames) /\ x = Top.device /\ rest = devices \ {x}
    OBVIOUS
  <2>2. \/ Top.old = 1 /\ rest = {} /\ devices' = {0} /\ current' = 0
        \/ devices' = rest /\ current' = Top.old
    BY <1>14, <2>1 DEF CloseDevice, NullDevice, DefaultDevice, DeviceBefore
  <2>3. DeviceInv
    BY DEF SessionInv
  <2>4. PICK b \in Nat : devices \subseteq 0 .. b
    BY <2>3 DEF DeviceInv
  <2>5. k \in 1 .. k /\ k \in Nat
    BY <1>2, <2>1
  <2>15. \A y \in devices \cup {1} : y \in Nat
    BY <2>4
  <2>6. x \in devices /\ Top.old \in devices \cup {1} /\ Top.old < x
    BY <1>2, <1>12, <1>14, <2>1, <2>3, <2>5 DEF DeviceInv
  <2>7. /\ Len(frames') = k
        /\ \A i \in 1 .. k :
              \/ i = k /\ frames[i] = Top /\ frames'[i] = g
              \/ i < k /\ frames'[i] = frames[i]
    BY <1>2, <1>5, <2>1, ChangedIndex
  <2>8. ASSUME NEW i \in 1 .. k, Opened(frames'[i])
        PROVE  /\ i < k /\ frames'[i] = frames[i] /\ frames[i].device \in rest
               /\ frames[i].old \in rest \cup {1} /\ frames[i].old < frames[i].device
    <3>1. i < k /\ frames'[i] = frames[i]
      BY <1>12, <2>7, <2>8
    <3>2. Opened(frames[i]) /\ Opened(frames[k]) /\ frames[k].device = x
      BY <1>2, <1>12, <1>14, <2>1, <2>8, <3>1
    <3>3. frames[i].device < x /\ frames[i].device \in devices
          /\ frames[i].old \in devices \cup {1} /\ frames[i].old < frames[i].device
      BY <2>1, <2>3, <2>5, <3>1, <3>2 DEF DeviceInv
    <3>4. frames[i].device # x /\ frames[i].old # x
      <4>1. PICK p, q : p = frames[i].device /\ q = frames[i].old
        OBVIOUS
      <4>2. p \in Nat /\ q \in Nat /\ x \in Nat
        BY <2>6, <2>15, <3>3, <4>1
      <4>3. p < x /\ q < p
        BY <3>3, <4>1
      <4> QED BY <4>1, <4>2, <4>3
    <3> QED BY <2>1, <3>1, <3>3, <3>4
  <2>9. ASSUME NEW i \in 1 .. k, NEW j \in 1 .. k, i < j, Opened(frames'[i]), Opened(frames'[j])
        PROVE  frames'[i].device < frames'[j].device
    BY <2>1, <2>3, <2>8, <2>9 DEF DeviceInv
  <2>10. ASSUME NEW d \in rest, d # 0
         PROVE  \E i \in 1 .. k : Opened(frames'[i]) /\ frames'[i].device = d
    <3>1. PICK i \in 1 .. k : Opened(frames[i]) /\ frames[i].device = d
      BY <2>1, <2>3, <2>10 DEF DeviceInv
    <3>2. i < k
      BY <2>1, <2>7, <2>10, <3>1
    <3> QED BY <2>7, <3>1, <3>2
  <2>11. CASE devices' = {0} /\ current' = 0 /\ rest = {}
    <3>1. \A i \in 1 .. k : ~ Opened(frames'[i])
      BY <2>8, <2>11
    <3>2. {0} \subseteq 0 .. 0 /\ 0 \in Nat
      OBVIOUS
    <3>3. \E a \in Nat : devices' \subseteq 0 .. a
      BY <2>11, <3>2
    <3>4. DeviceInv'
      BY <2>7, <2>11, <3>1, <3>3 DEF DeviceInv
    <3> QED BY <1>7, <1>11, <3>4 DEF SessionInv
  <2>12. CASE devices' = rest /\ current' = Top.old
    <3>1. \E a \in Nat : devices' \subseteq 0 .. a
      BY <2>1, <2>4, <2>12
    <3>2. current' \in devices' \cup {1}
      <4>1. Top.old # x
        <5>1. PICK q : q = Top.old
          OBVIOUS
        <5>2. q \in Nat /\ x \in Nat
          BY <2>6, <2>15, <5>1
        <5>3. q < x
          BY <2>6, <5>1
        <5> QED BY <5>1, <5>2, <5>3
      <4> QED BY <2>1, <2>6, <2>12, <4>1
    <3>3. DeviceInv'
      BY <2>7, <2>8, <2>9, <2>10, <2>12, <3>1, <3>2 DEF DeviceInv
    <3> QED BY <1>7, <1>11, <3>3 DEF SessionInv
  <2> QED BY <2>2, <2>11, <2>12
<1> QED BY <1>13, <1>14

OnDevice(f, d, o, b) == [f EXCEPT !.device = d, !.old = o, !.before = b]

LEMMA OnDeviceIs ==
    ASSUME NEW f, Framed(f), NEW d, NEW o, NEW b
    PROVE  /\ Alike(f, OnDevice(f, d, o, b), {"device", "old", "before"})
           /\ OnDevice(f, d, o, b).device = d /\ OnDevice(f, d, o, b).old = o
           /\ OnDevice(f, d, o, b).before = b
<1>1. PICK g : g = [f EXCEPT !.device = d, !.old = o, !.before = b]
  OBVIOUS
<1>2. g = [fn |-> f.fn, code |-> f.code, fin |-> f.fin, env |-> f.env, to |-> f.to,
             request |-> f.request, n |-> f.n, prot |-> f.prot, base |-> f.base,
             device |-> d, old |-> o, before |-> b, mine |-> f.mine]
  BY <1>1 DEF Framed
<1>3. Alike(f, g, {"device", "old", "before"}) /\ g.device = d /\ g.old = o /\ g.before = b
  BY <1>2 DEF Alike, FrameFields
<1> QED BY <1>1, <1>3 DEF OnDevice

LEMMA NewestDevice ==
    ASSUME DeviceInv
    PROVE  /\ NewDevice \in Nat /\ NewDevice > 1 /\ \A d \in devices : d \in Nat /\ d < NewDevice
           /\ \E b \in Nat : devices \cup {NewDevice} \subseteq 0 .. b
           /\ current \in Nat /\ current < NewDevice
<1>1. PICK b \in Nat : devices \subseteq 0 .. b
  BY DEF DeviceInv
<1>2. PICK c, S : c = b + 1 /\ S = devices \cup {1}
  OBVIOUS
<1>3. c \in Nat /\ S \in SUBSET (0 .. c) /\ S # {} /\ 1 \in S
  BY <1>1, <1>2
<1>4. PICK m : m = Max(S)
  OBVIOUS
<1>5. m \in S /\ \A x \in S : x <= m
  BY <1>3, <1>4, LargestElement
<1>6. m \in Nat /\ 1 <= m /\ m <= c
  BY <1>3, <1>5
<1>7. NewDevice = m + 1
  BY <1>2, <1>4 DEF NewDevice, NullDevice
<1>8. \A x \in S : x \in Nat /\ x <= m /\ x <= c
  BY <1>3, <1>5
<1>9. m + 1 \in Nat /\ m + 1 > 1 /\ \A x \in S : x \in Nat /\ x < m + 1
  BY <1>6, <1>8
<1>10. current \in S
  BY <1>2 DEF DeviceInv
<1>11. devices \cup {m + 1} \subseteq 0 .. m + 1
  <2>1. \A x \in devices : x \in Nat /\ x < m + 1
    BY <1>2, <1>9
  <2> QED BY <1>6, <2>1
<1> QED BY <1>2, <1>7, <1>9, <1>10, <1>11

LEMMA OpensDevice ==
    ASSUME FramesInv, TypedInv, SessionInv, OpenDevice
    PROVE  TypedInv' /\ SessionInv'
<1>1. PICK d, o, b, t, h : /\ d = NewDevice /\ o = current /\ b = cache /\ t = Top
                           /\ h = [t EXCEPT !.device = d, !.old = o, !.before = b]
  OBVIOUS
<1>2. /\ frames # <<>> /\ thrown = "none" /\ frames' = Advance(h) /\ Step.op = "open"
      /\ devices' = devices \cup {d} /\ current' = d
      /\ UNCHANGED <<heap, stack, precious, held, thrown, interactive, cache, leftover, plotted>>
  BY <1>1 DEF OpenDevice, At, Step, rVars, historyVars
<1>3. /\ HeapGrows /\ HeapInv /\ FunctionsInv /\ CalmInv
      /\ Len(frames) \in Nat /\ Len(frames) >= 1 /\ Top = frames[Len(frames)]
      /\ Framed(Top) /\ Good(Top, Len(heap)) /\ Shaped(Top, Len(heap)) /\ Len(heap) \in Nat
      /\ Step = Head(Top.code)
  BY <1>2, InSession
<1>4. ThrownInv'
  BY <1>2 DEF ThrownInv
<1>5. DeviceInv
  BY DEF SessionInv
<1>6. /\ d \in Nat /\ d > 1 /\ \A x \in devices : x \in Nat /\ x < d
      /\ \E a \in Nat : devices \cup {d} \subseteq 0 .. a
      /\ o \in Nat /\ o < d
  BY <1>1, <1>5, NewestDevice
<1>7. PICK X : X = {"device", "old", "before"}
  OBVIOUS
<1>8. Alike(t, h, X) /\ h.device = d /\ h.old = o /\ h.before = b
  <2>1. Framed(t) /\ h = OnDevice(t, d, o, b)
    BY <1>1, <1>3 DEF OnDevice
  <2>2. Alike(t, h, {"device", "old", "before"}) /\ h.device = d /\ h.old = o /\ h.before = b
    BY <2>1, OnDeviceIs
  <2> QED BY <1>7, <2>2
<1>9. Framed(h)
  <2>1. Like(t, t)
    BY <1>1, <1>3 DEF Like
  <2>2. Like(h, t)
    BY <1>1, <2>1, Edited
  <2> QED BY <2>2 DEF Like
<1>10. PICK g : /\ frames' = Append(Front(frames), g) /\ Alike(h, g, {"code"})
                /\ Alike(Top, g, X \cup {"code"}) /\ g.code = Tail(Top.code)
  <2>1. Alike(Top, h, X) /\ "code" \notin X
    BY <1>1, <1>7, <1>8
  <2> QED BY <1>2, <1>9, <2>1, Reworked
<1>11. g.device = d /\ g.old = o /\ g.before = b
  BY <1>8, <1>10, AlikeFields
<1>12. g.fin = Top.fin /\ g.env = Top.env /\ g.to = Top.to /\ g.mine = Top.mine /\ g.prot = Top.prot
  BY <1>7, <1>10, AlikeFields
<1>13. d # 1
  BY <1>6
<1>14. /\ Shaped(g, Len(heap)) /\ Top.device = 1 /\ Top.fin # <<>> /\ ~ Opened(Top) /\ ~ Due(Top)
       /\ Opened(g) /\ Quiets(g) /\ Holds(g)
  BY <1>2, <1>3, <1>10, <1>11, <1>12, <1>13, DeviceOpened
<1>15. Good(g, Len(heap'))
  <2>1. g.device \in Nat /\ g.device >= 1
    BY <1>6, <1>11
  <2> QED BY <1>2, <1>3, <1>12, <1>14, <2>1 DEF Good
<1>16. ~ Quiet(Top)
  BY <1>14 DEF Quiet
<1>17. /\ FunctionsInv' /\ CalmInv'
       /\ Len(frames') = Len(frames) /\ frames'[Len(frames)] = g
       /\ \A i \in 1 .. Len(frames) - 1 : frames'[i] = frames[i]
  BY <1>2, <1>3, <1>10, <1>15, <1>16, Proceeded
<1>18. Changed(g)
  BY <1>17 DEF Changed
<1>19. TypedInv'
  BY <1>3, <1>4, <1>17 DEF TypedInv, HeapGrows
<1>20. QuietInv' /\ PlotInv'
  <2>1. QuietsOn /\ PlotsOn
    BY <1>3, <1>12, <1>14, <1>18, ChangedQuiets, ChangedPlots
  <2>2. g.before \subseteq cache
    BY <1>1, <1>11
  <2>3. BeforeOn
    BY <1>3, <1>18, <2>2, ChangedBefore
  <2> QED BY <1>2, <2>1, <2>3, QuietKept, PlotsKept DEF SessionInv
<1>21. PICK k : k = Len(frames)
  OBVIOUS
<1>22. /\ Len(frames') = k /\ k \in 1 .. k /\ k \in Nat /\ frames[k] = Top
       /\ \A i \in 1 .. k :
             \/ i = k /\ frames[i] = Top /\ frames'[i] = g
             \/ i < k /\ frames'[i] = frames[i]
  BY <1>3, <1>18, <1>21, ChangedIndex
<1>23. ASSUME NEW x \in devices \cup {d}, x # 0
       PROVE  \E i \in 1 .. k : Opened(frames'[i]) /\ frames'[i].device = x
  <2>1. CASE x = d
    <3>1. frames'[k] = g
      BY <1>22
    <3> QED BY <1>11, <1>14, <1>22, <2>1, <3>1
  <2>2. CASE x \in devices
    <3>1. PICK i \in 1 .. k : Opened(frames[i]) /\ frames[i].device = x
      BY <1>5, <1>21, <1>23, <2>2 DEF DeviceInv
    <3>2. frames'[i] = frames[i]
      BY <1>14, <1>22, <3>1
    <3> QED BY <3>1, <3>2
  <2> QED BY <1>23, <2>1, <2>2
<1>24. ASSUME NEW i \in 1 .. k, Opened(frames'[i]), i # k
       PROVE  /\ Opened(frames[i]) /\ frames'[i] = frames[i]
              /\ frames[i].device \in devices /\ frames[i].old \in devices \cup {1}
              /\ frames[i].old < frames[i].device
  <2>1. Opened(frames[i]) /\ frames'[i] = frames[i]
    BY <1>22, <1>24
  <2> QED BY <1>5, <1>21, <2>1 DEF DeviceInv
<1>25. ASSUME NEW i \in 1 .. k, Opened(frames'[i])
       PROVE  /\ frames'[i].device \in devices \cup {d} /\ frames'[i].old \in devices \cup {d} \cup {1}
              /\ frames'[i].old < frames'[i].device
  <2>1. CASE i = k
    <3>1. frames'[i] = g
      BY <1>22, <2>1
    <3>2. o \in devices \cup {1}
      BY <1>1, <1>5 DEF DeviceInv
    <3> QED BY <1>6, <1>11, <3>1, <3>2
  <2>2. CASE i # k
    BY <1>24, <1>25, <2>2
  <2> QED BY <2>1, <2>2
<1>26. ASSUME NEW i \in 1 .. k, NEW j \in 1 .. k, i < j, Opened(frames'[i]), Opened(frames'[j])
       PROVE  frames'[i].device < frames'[j].device
  <2>1. i # k
    BY <1>22, <1>26
  <2>2. Opened(frames[i]) /\ frames'[i] = frames[i] /\ frames[i].device \in devices
    BY <1>24, <1>26, <2>1
  <2>3. CASE j = k
    <3>1. frames'[j] = g
      BY <1>22, <2>3
    <3> QED BY <1>6, <1>11, <2>2, <3>1
  <2>4. CASE j # k
    <3>1. Opened(frames[j]) /\ frames'[j] = frames[j]
      BY <1>24, <1>26, <2>4
    <3>2. frames[i].device < frames[j].device
      BY <1>5, <1>21, <1>26, <2>2, <3>1 DEF DeviceInv
    <3> QED BY <2>2, <3>1, <3>2
  <2> QED BY <2>3, <2>4
<1>27. DeviceInv'
  <2>1. current' \in devices' \cup {1} /\ \E a \in Nat : devices' \subseteq 0 .. a
    BY <1>2, <1>6
  <2> QED BY <1>2, <1>22, <1>23, <1>25, <1>26, <2>1 DEF DeviceInv
<1> QED BY <1>19, <1>20, <1>27 DEF SessionInv

LEMMA FindsPlots ==
    ASSUME FramesInv, TypedInv, SessionInv, NewPlots
    PROVE  TypedInv' /\ SessionInv'
<1>1. PICK m, t, h : m = cache \ Top.before /\ t = Top /\ h = [t EXCEPT !.mine = m]
  OBVIOUS
<1>2. /\ frames # <<>> /\ thrown = "none" /\ frames' = Advance(h) /\ Step.op = "newplots"
      /\ UNCHANGED <<heap, stack, precious, held, thrown, interactive, devices, current, cache, leftover, plotted>>
  BY <1>1 DEF NewPlots, At, Step, rVars, sessionVars, historyVars
<1>3. /\ HeapGrows /\ HeapInv /\ FunctionsInv /\ CalmInv
      /\ Len(frames) \in Nat /\ Len(frames) >= 1 /\ Top = frames[Len(frames)]
      /\ Framed(Top) /\ Good(Top, Len(heap)) /\ Shaped(Top, Len(heap)) /\ Len(heap) \in Nat
      /\ Step = Head(Top.code)
  BY <1>2, InSession
<1>4. ThrownInv'
  BY <1>2 DEF ThrownInv
<1>5. Alike(t, h, {"mine"}) /\ h.mine = m
  <2>1. Framed(t) /\ h = [t EXCEPT !.mine = m]
    BY <1>1, <1>3
  <2> QED BY <2>1, Fixed
<1>6. Framed(h)
  <2>1. Like(t, t)
    BY <1>1, <1>3 DEF Like
  <2>2. Like(h, t)
    BY <1>1, <2>1, Edited
  <2> QED BY <2>2 DEF Like
<1>7. PICK g : /\ frames' = Append(Front(frames), g) /\ Alike(h, g, {"code"})
               /\ Alike(Top, g, {"mine"} \cup {"code"}) /\ g.code = Tail(Top.code)
  <2>1. Alike(Top, h, {"mine"}) /\ "code" \notin {"mine"}
    BY <1>1, <1>5
  <2> QED BY <1>2, <1>6, <2>1, Reworked
<1>8. g.mine = m
  BY <1>5, <1>7, AlikeFields
<1>9. /\ g.fin = Top.fin /\ g.env = Top.env /\ g.to = Top.to /\ g.device = Top.device
      /\ g.old = Top.old /\ g.before = Top.before /\ g.prot = Top.prot
  BY <1>7, AlikeFields
<1>10. /\ Shaped(g, Len(heap)) /\ Top.mine = {} /\ Top.fin # <<>> /\ (Opened(Top) <=> Opened(g))
       /\ Quiets(g) /\ Holds(g)
  BY <1>2, <1>3, <1>7, <1>9, PlotsFound
<1>11. Good(g, Len(heap'))
  BY <1>2, <1>3, <1>9, <1>10 DEF Good
<1>12. ~ Quiet(Top)
  BY <1>10 DEF Quiet
<1>13. /\ FunctionsInv' /\ CalmInv'
       /\ Len(frames') = Len(frames) /\ frames'[Len(frames)] = g
       /\ \A i \in 1 .. Len(frames) - 1 : frames'[i] = frames[i]
  BY <1>2, <1>3, <1>7, <1>11, <1>12, Proceeded
<1>14. Changed(g)
  BY <1>13 DEF Changed
<1>15. TypedInv'
  BY <1>3, <1>4, <1>13 DEF TypedInv, HeapGrows
<1>16. QuietInv' /\ DeviceInv'
  <2>1. QuietsOn /\ DevicesOn
    BY <1>3, <1>9, <1>10, <1>14, ChangedQuiets, ChangedDevices
  <2> QED BY <1>2, <2>1, QuietKept, DevicesKept DEF SessionInv
<1>17. BeforeOn
  BY <1>3, <1>9, <1>14, ChangedBefore
<1>18. plotted' \in Nat /\ plotted <= plotted' /\ cache' \subseteq 1 .. plotted'
  <2>1. plotted \in Nat /\ cache \subseteq 1 .. plotted
    BY DEF SessionInv, PlotInv
  <2> QED BY <1>2, <2>1
<1>19. \A i \in 1 .. Len(frames') : frames'[i].before \subseteq 1 .. plotted'
  BY <1>17, <1>18, BeforeKept DEF SessionInv
<1>20. /\ Len(frames') = Len(frames) /\ Len(frames) \in 1 .. Len(frames')
       /\ \A i \in 1 .. Len(frames) :
             \/ i = Len(frames) /\ frames[i] = Top /\ frames'[i] = g
             \/ i < Len(frames) /\ frames'[i] = frames[i]
  BY <1>3, <1>14, ChangedIndex
<1>21. ASSUME NEW p \in cache, p \notin leftover
       PROVE  \/ \E i \in 1 .. Len(frames') : Due(frames'[i]) /\ p \notin frames'[i].before
              \/ \E i \in 1 .. Len(frames') : Holds(frames'[i]) /\ p \in frames'[i].mine
  <2>1. CASE p \in g.mine
    <3>1. frames'[Len(frames)] = g
      BY <1>13
    <3> QED BY <1>10, <1>20, <2>1, <3>1
  <2>2. CASE p \notin g.mine
    <3>1. p \in Top.before /\ p \notin Top.mine
      BY <1>1, <1>8, <1>10, <1>21, <2>2
    <3>2. \/ \E i \in 1 .. Len(frames) : Due(frames[i]) /\ p \notin frames[i].before
          \/ \E i \in 1 .. Len(frames) : Holds(frames[i]) /\ p \in frames[i].mine
      BY <1>21 DEF SessionInv, PlotInv
    <3> QED BY <1>20, <3>1, <3>2
  <2> QED BY <2>1, <2>2
<1>22. PlotInv'
  BY <1>2, <1>18, <1>19, <1>21 DEF PlotInv
<1> QED BY <1>15, <1>16, <1>22 DEF SessionInv

(* A plot is drawn on the device of a captureR() that will look for it.    *)
LEMMA DrawsPlot ==
    ASSUME FramesInv, TypedInv, SessionInv, Plot
    PROVE  TypedInv' /\ SessionInv'
<1>1. /\ frames # <<>> /\ thrown = "none" /\ Step.op = "user" /\ current > 1
      /\ cache' = cache \cup {plotted + 1} /\ plotted' = plotted + 1
      /\ UNCHANGED <<heap, stack, precious, held, thrown, interactive, devices, current, frames, leftover>>
  BY DEF Plot, At, Step, rVars, NullDevice
<1>2. HeapGrows /\ HeapInv /\ FunctionsInv /\ CalmInv /\ Len(frames) \in Nat
  BY <1>1, InSession
<1>3. FunctionsInv' /\ CalmInv' /\ Passing
  BY <1>1, <1>2, FramesStay
<1>4. ThrownInv'
  BY <1>1 DEF ThrownInv
<1>5. TypedInv'
  BY <1>2, <1>3, <1>4 DEF TypedInv, HeapGrows
<1>6. QuietInv' /\ DeviceInv'
  <2>1. QuietsOn /\ DevicesOn
    BY <1>1, <1>2, <1>3, PassedOn
  <2> QED BY <1>1, <2>1, QuietKept, DevicesKept DEF SessionInv
<1>7. PICK i \in 1 .. Len(frames) : Opened(frames[i]) /\ frames[i].device = current
  <2>1. current # 1 /\ current # 0
    BY <1>1
  <2> QED BY <2>1 DEF SessionInv, DeviceInv
<1>8. Due(frames[i])
  <2>1. PICK f, n : f = frames[i] /\ n = Len(heap)
    OBVIOUS
  <2>2. ~ Late(f) /\ ~ Restoring(f)
    BY <1>1, <1>2, <2>1, NoneLate
  <2>3. Shaped(f, n)
    BY <1>2, <2>1 DEF FunctionsInv, Good
  <2>4. Opened(f) /\ f.device # 1
    BY <1>7, <2>1 DEF Opened
  <2>5. f.fin # <<>>
    <3>1. Has(f.code, {"close"}) => Has(f.code, {"restore", "close", "destroy"})
      BY DEF Has
    <3> QED BY <2>2, <2>4, <3>1 DEF Opened, Restoring
  <2>6. ~ Calm(f.code)
    BY <2>2, <2>5 DEF Late
  <2>7. Trying(f)
    BY <2>3, <2>5 DEF Shaped, Straight, Finishing
  <2>8. Has(f.code, {"newplots", "throw"})
    BY <2>4, <2>6, <2>7 DEF Trying
  <2> QED BY <2>1, <2>4, <2>5, <2>8 DEF Due
<1>9. plotted \in Nat /\ cache \subseteq 1 .. plotted
      /\ \A j \in 1 .. Len(frames) : frames[j].before \subseteq 1 .. plotted
  BY DEF SessionInv, PlotInv
<1>10. PICK p : p = plotted + 1
  OBVIOUS
<1>11. p \in Nat /\ p \in 1 .. p /\ p \notin 1 .. plotted /\ \A x \in 1 .. plotted : x \in 1 .. p
  BY <1>9, <1>10
<1>12. p \notin frames[i].before
  BY <1>9, <1>11
<1>13. ASSUME NEW q \in cache', q \notin leftover
       PROVE  \/ \E j \in 1 .. Len(frames) : Due(frames[j]) /\ q \notin frames[j].before
              \/ \E j \in 1 .. Len(frames) : Holds(frames[j]) /\ q \in frames[j].mine
  <2>1. CASE q = p
    BY <1>8, <1>12, <2>1
  <2>2. CASE q \in cache
    BY <1>13, <2>2 DEF SessionInv, PlotInv
  <2> QED BY <1>1, <1>10, <2>1, <2>2
<1>14. plotted' \in Nat /\ cache' \subseteq 1 .. plotted'
       /\ \A j \in 1 .. Len(frames') : frames'[j].before \subseteq 1 .. plotted'
  BY <1>1, <1>9, <1>10, <1>11
<1>15. PlotInv'
  BY <1>1, <1>13, <1>14 DEF PlotInv
<1> QED BY <1>5, <1>6, <1>15 DEF SessionInv

(* An exception runs the `finally' of captureR().                          *)
LEMMA UnwindsInto ==
    ASSUME FramesInv, TypedInv, SessionInv, Unwind, Top.fin # <<>>
    PROVE  TypedInv' /\ SessionInv'
<1>1. /\ frames # <<>> /\ thrown # "none" /\ thrown' = "none"
      /\ frames' = Goto([Top EXCEPT !.fin = <<>>], Append(Top.fin, Throw(thrown)))
      /\ leftover' = leftover \cup (IF Top.device = 1 THEN {} ELSE cache \ Top.before)
      /\ UNCHANGED <<heap, stack, precious, held, interactive, devices, current, cache, plotted>>
  BY DEF Unwind, FramesInv, sessionVars
<1>2. /\ HeapGrows /\ HeapInv /\ FunctionsInv /\ CalmInv
      /\ Len(frames) \in Nat /\ Len(frames) >= 1 /\ Top = frames[Len(frames)]
      /\ Shaped(Top, Len(heap)) /\ Len(heap) \in Nat
  BY <1>1, InSession
<1>3. ThrownInv'
  BY <1>1 DEF ThrownInv
<1>4. PICK z, c : z = Throw(thrown) /\ c = CaptureFinally \o <<z>>
  OBVIOUS
<1>5. z \in {Return(x) : x \in Local} \cup {Throw("error"), Throw("unwind")}
  <2>1. thrown = "error" \/ thrown = "unwind"
    BY <1>1 DEF TypedInv, ThrownInv
  <2> QED BY <1>4, <2>1
<1>6. Top.fin = CaptureFinally
  BY <1>2 DEF Shaped, Straight, Finishing, Trying
<1>7. Append(CaptureFinally, z) = c
  BY <1>2, <1>4, <1>5, FinallyRuns
<1>8. frames' = Goto([Top EXCEPT !.fin = <<>>], c)
  BY <1>1, <1>4, <1>6, <1>7
<1>9. /\ FunctionsInv' /\ CalmInv'
      /\ \E g : /\ Changed(g) /\ Alike(Top, g, {"code", "fin"}) /\ Quiets(g) /\ Holds(g)
                /\ Opened(Top) <=> Opened(g)
  BY <1>1, <1>2, <1>4, <1>5, <1>8, Finalizes
<1>10. PICK g : /\ Changed(g) /\ Alike(Top, g, {"code", "fin"}) /\ Quiets(g) /\ Holds(g)
                /\ Opened(Top) <=> Opened(g)
  BY <1>9
<1>11. g.device = Top.device /\ g.old = Top.old /\ g.before = Top.before /\ g.mine = Top.mine
  BY <1>10, AlikeFields
<1>12. TypedInv'
  BY <1>2, <1>3, <1>9 DEF TypedInv, HeapGrows
<1>13. QuietInv' /\ DeviceInv'
  <2>1. QuietsOn /\ DevicesOn
    BY <1>2, <1>10, <1>11, ChangedQuiets, ChangedDevices
  <2> QED BY <1>1, <2>1, QuietKept, DevicesKept DEF SessionInv
<1>14. BeforeOn
  BY <1>2, <1>10, <1>11, ChangedBefore
<1>15. plotted' \in Nat /\ plotted <= plotted' /\ cache' \subseteq 1 .. plotted'
  <2>1. plotted \in Nat /\ cache \subseteq 1 .. plotted
    BY DEF SessionInv, PlotInv
  <2> QED BY <1>1, <2>1
<1>16. \A i \in 1 .. Len(frames') : frames'[i].before \subseteq 1 .. plotted'
  BY <1>14, <1>15, BeforeKept DEF SessionInv
<1>17. /\ Len(frames') = Len(frames) /\ Len(frames) \in 1 .. Len(frames')
       /\ \A i \in 1 .. Len(frames) :
             \/ i = Len(frames) /\ frames[i] = Top /\ frames'[i] = g
             \/ i < Len(frames) /\ frames'[i] = frames[i]
  BY <1>2, <1>10, ChangedIndex
<1>18. ASSUME NEW p \in cache, p \notin leftover'
       PROVE  \/ \E i \in 1 .. Len(frames') : Due(frames'[i]) /\ p \notin frames'[i].before
              \/ \E i \in 1 .. Len(frames') : Holds(frames'[i]) /\ p \in frames'[i].mine
  <2>1. p \notin leftover /\ (Top.device = 1 \/ p \in Top.before)
    BY <1>1, <1>18
  <2>2. Due(Top) => p \in Top.before
    BY <2>1 DEF Due
  <2>3. CASE \E i \in 1 .. Len(frames) : Due(frames[i]) /\ p \notin frames[i].before
    <3>1. PICK i \in 1 .. Len(frames) : Due(frames[i]) /\ p \notin frames[i].before
      BY <2>3
    <3> QED BY <1>17, <2>2, <3>1
  <2>4. CASE \E i \in 1 .. Len(frames) : Holds(frames[i]) /\ p \in frames[i].mine
    <3>1. PICK i \in 1 .. Len(frames) : Holds(frames[i]) /\ p \in frames[i].mine
      BY <2>4
    <3> QED BY <1>10, <1>11, <1>17, <3>1
  <2> QED BY <1>18, <2>1, <2>3, <2>4 DEF SessionInv, PlotInv
<1>19. PlotInv'
  BY <1>1, <1>15, <1>16, <1>18 DEF PlotInv
<1> QED BY <1>12, <1>13, <1>19 DEF SessionInv

(* Steps that leave the session, and what is to be done in it, alone.      *)
PassesOver ==
    \/ Allocate \/ AddField \/ Read \/ ProtectObject \/ ReprotectObject \/ EnterTry \/ Unprotect
    \/ Evaluate \/ FinishUser \/ KeepObject \/ RaiseException
    \/ Construct \/ CallMethod \/ Branch
    \/ Leave \/ AnswerRequest \/ Dispatched
    \/ (Unwind /\ Top.fin = <<>>)

LEMMA Passes ==
    ASSUME FramesInv, TypedInv, PassesOver
    PROVE  TypedInv' /\ Passing /\ UNCHANGED <<sessionVars, leftover, plotted>>
<1>1. CASE \/ Allocate \/ AddField \/ Read \/ ProtectObject \/ ReprotectObject \/ EnterTry \/ Unprotect \/ Evaluate
           \/ FinishUser \/ KeepObject \/ RaiseException
  BY <1>1, Ordinary
<1>2. CASE Construct \/ CallMethod \/ Branch
  BY <1>2, Constructs, CallsMethod, Branches
<1>3. CASE Leave \/ AnswerRequest \/ Dispatched
  BY <1>3, Leaves, Answered, Dispatching
<1>4. CASE Unwind /\ Top.fin = <<>>
  BY <1>4, Unwound
<1> QED BY <1>1, <1>2, <1>3, <1>4 DEF PassesOver

LEMMA Stutters ==
    ASSUME TypedInv, SessionInv, UNCHANGED evalVars
    PROVE  TypedInv' /\ SessionInv'
<1>1. /\ UNCHANGED <<heap, stack, precious, held, frames, thrown>>
      /\ UNCHANGED <<interactive, devices, current, cache, plotted, leftover>>
  BY DEF evalVars, rVars, sessionVars, historyVars
<1>2. HeapInv' /\ FunctionsInv' /\ CalmInv' /\ ThrownInv'
  BY <1>1 DEF TypedInv, HeapInv, FunctionsInv, CalmInv, ThrownInv
<1>3. QuietInv' /\ DeviceInv' /\ PlotInv'
  BY <1>1 DEF SessionInv, QuietInv, DeviceInv, PlotInv
<1> QED BY <1>2, <1>3 DEF TypedInv, SessionInv

LEMMA SessionGoes ==
    ASSUME FramesInv, TypedInv, SessionInv, [EvalNext]_evalVars
    PROVE  TypedInv' /\ SessionInv'
<1>1. Len(frames) \in Nat /\ Len(frames') \in Nat
  BY FramesKept DEF FramesInv
<1>2. CASE PassesOver
  <2>1. TypedInv' /\ Passing /\ UNCHANGED <<sessionVars, leftover, plotted>>
    BY <1>2, Passes
  <2> QED BY <1>1, <2>1, SessionPassed
<1>3. CASE SetInteractive \/ OpenDevice \/ NewPlots \/ CloseDevice \/ DestroyPlots \/ Plot
  BY <1>3, SetsInteractive, OpensDevice, FindsPlots, ClosesDevice, DestroysPlots, DrawsPlot
<1>4. CASE Unwind /\ Top.fin # <<>>
  BY <1>4, UnwindsInto
<1>5. CASE UNCHANGED evalVars
  BY <1>5, Stutters
<1>6. EvalNext => \/ PassesOver \/ (Unwind /\ Top.fin # <<>>)
                  \/ SetInteractive \/ OpenDevice \/ NewPlots \/ CloseDevice \/ DestroyPlots \/ Plot
  BY DEF EvalNext, Dispatched, PassesOver
<1> QED BY <1>2, <1>3, <1>4, <1>5, <1>6

LEMMA InitSession == EvalInit => TypedInv /\ SessionInv
<1> SUFFICES ASSUME EvalInit PROVE TypedInv /\ SessionInv
  OBVIOUS
<1>1. /\ heap = <<>> /\ stack = <<>> /\ precious = {} /\ held = {} /\ frames = <<>> /\ thrown = "none"
      /\ interactive = Interactive /\ devices = {} /\ current = 1 /\ cache = {} /\ plotted = 0
  BY DEF EvalInit, NullDevice
<1>2. Len(frames) = 0 /\ Len(heap) = 0
  BY <1>1
<1>3. HeapInv
  <2>1. heap \in Seq(Cell(Len(heap)))
    BY <1>1, EmptySeq
  <2>2. stack \in Seq(0 .. Len(heap))
    BY <1>1, EmptySeq
  <2> QED BY <1>1, <2>1, <2>2 DEF HeapInv
<1>4. FunctionsInv /\ CalmInv /\ ThrownInv
  BY <1>1, <1>2 DEF FunctionsInv, CalmInv, ThrownInv
<1>5. QuietInv /\ DeviceInv /\ PlotInv
  <2>1. QuietInv
    BY <1>1, EvaluationAssumption DEF QuietInv
  <2>2. DeviceInv
    <3>1. 0 \in Nat /\ devices \subseteq 0 .. 0
      BY <1>1
    <3> QED BY <1>1, <1>2, <3>1 DEF DeviceInv
  <2>3. PlotInv
    BY <1>1, <1>2 DEF PlotInv
  <2> QED BY <2>1, <2>2, <2>3
<1> QED BY <1>3, <1>4, <1>5 DEF TypedInv, SessionInv

EvalInv == FramesInv /\ TypedInv /\ SessionInv

LEMMA EvalInvariant == EvalSpec => []EvalInv
<1>1. EvalInit => EvalInv
  BY InitFrames, InitSession DEF EvalInv
<1>2. EvalInv /\ [EvalNext]_evalVars => EvalInv'
  <2> SUFFICES ASSUME EvalInv, [EvalNext]_evalVars PROVE EvalInv'
    OBVIOUS
  <2>1. FramesInv /\ TypedInv /\ SessionInv
    BY DEF EvalInv
  <2>2. FramesInv'
    BY <2>1, FramesKept
  <2>3. TypedInv' /\ SessionInv'
    BY <2>1, SessionGoes
  <2> QED BY <2>2, <2>3 DEF EvalInv
<1> QED BY <1>1, <1>2, PTL DEF EvalSpec

(* Every object that R, a local of a function in progress or the main      *)
(* thread refers to is one that R allocated, those on the precious list    *)
(* are not collected, and R's current device is open                       *)
(* (robj-worker.ts, utils-r.ts, captureR() of webr-worker.ts).             *)
THEOREM EvalTyped == EvalSpec => []EvalTypeOK
<1>1. EvalInv => EvalTypeOK
  <2> SUFFICES ASSUME EvalInv PROVE EvalTypeOK
    OBVIOUS
  <2>1. HeapInv /\ ThrownInv /\ QuietInv /\ DeviceInv
    BY DEF EvalInv, TypedInv, SessionInv
  <2>2. heap \in Seq([alive : BOOLEAN, fields : Seq(0 .. Len(heap))]) /\ DOMAIN heap = 1 .. Len(heap)
    BY <2>1 DEF HeapInv, Cell
  <2>3. ToSet(stack) \subseteq 0 .. Len(heap)
    <3>1. stack \in Seq(0 .. Len(heap))
      BY <2>1 DEF HeapInv
    <3>2. DOMAIN stack = 1 .. Len(stack) /\ \A i \in 1 .. Len(stack) : stack[i] \in 0 .. Len(heap)
      BY <3>1
    <3> QED BY <3>2 DEF ToSet
  <2>4. precious \subseteq DOMAIN heap /\ held \subseteq DOMAIN heap /\ \A o \in precious : heap[o].alive
    BY <2>1, <2>2 DEF HeapInv
  <2>5. interactive \in BOOLEAN /\ current \in devices \cup {NullDevice}
    BY <2>1 DEF QuietInv, DeviceInv, NullDevice
  <2>6. thrown \in {"none", "error", "unwind"}
    BY <2>1 DEF ThrownInv
  <2> QED BY <2>2, <2>3, <2>4, <2>5, <2>6 DEF EvalTypeOK
<1> QED BY <1>1, EvalInvariant, PTL

(* Whatever evaluations and requests were nested, and however they ended,  *)
(* when none is in progress the session is as it was: interactive as       *)
(* configured, every device of captureR() closed, and no plot left in the  *)
(* cache but those of evaluations that failed (captureR(), webr-worker.ts).*)
THEOREM SessionKept == EvalSpec => []SessionRestored
<1>1. EvalInv => SessionRestored
  <2> SUFFICES ASSUME EvalInv, frames = <<>>
               PROVE  /\ interactive = Interactive /\ devices \subseteq {DefaultDevice}
                      /\ cache \subseteq leftover
    BY DEF SessionRestored, Idle
  <2>1. QuietInv /\ DeviceInv /\ PlotInv
    BY DEF EvalInv, SessionInv
  <2>2. Len(frames) = 0
    OBVIOUS
  <2>3. \A i \in 1 .. Len(frames) : FALSE
    BY <2>2
  <2>4. interactive = Interactive
    BY <2>1, <2>3 DEF QuietInv
  <2>5. devices \subseteq {0}
    BY <2>1, <2>3 DEF DeviceInv
  <2>6. cache \subseteq leftover
    BY <2>1, <2>3 DEF PlotInv
  <2> QED BY <2>4, <2>5, <2>6 DEF DefaultDevice
<1> QED BY <1>1, EvalInvariant, PTL
====
