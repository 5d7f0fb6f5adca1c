---- MODULE Evaluation ----
(***************************************************************************)
(* R objects in the hands of JavaScript: the constructors and methods of   *)
(* src/webR/robj-worker.ts, the protection helpers of utils-r.ts, and      *)
(* captureR(), evalR() and the requests that use them in webr-worker.ts.   *)
(*                                                                         *)
(* A JavaScript function is a sequence of steps: the R API calls it makes, *)
(* the functions it calls and what it does in its `finally'.  Calls push a *)
(* frame.  R collects, at every allocation, everything it may: all objects *)
(* not reachable from its protect stack, its precious list or the          *)
(* arguments of the call, which R protects itself.  Requests are           *)
(* dispatched from the console prompt, and from the prompts that the R     *)
(* code of an evaluation opens while it runs.                              *)
(***************************************************************************)
EXTENDS Integers, Sequences, FiniteSets, SequencesExt, FiniteSetsExt

CONSTANTS
    MaxRequests,   \* bound on the requests dispatched
    MaxNest,       \* bound on the requests in progress
    MaxPlots,      \* bound on the plots drawn
    Interactive    \* the `interactive' option of the session

ASSUME EvaluationAssumption ==
    /\ MaxRequests \in Nat /\ MaxNest \in Nat /\ MaxPlots \in Nat /\ Interactive \in BOOLEAN

VARIABLES
    heap,          \* R: objects, in the order of their allocation
    stack,         \* R: protect stack
    precious,      \* R: objects on the precious list
    interactive,   \* R: R_Interactive
    devices,       \* R: numbers of the open graphics devices
    current,       \* R: number of the current device, 1 for the null device
    cache,         \* Module.webr.canvas: plots drawn and not destroyed
    frames,        \* worker: JavaScript functions in progress, innermost last
    thrown,        \* worker: exception on its way: none, error or unwind
    held,          \* main: objects it has references to
    dispatched,    \* history: number of requests dispatched
    plotted,       \* history: number of plots drawn
    leftover,      \* history: plots of evaluations that failed
    stale          \* history: functions that used an object R had freed

rVars == <<heap, stack, precious>>
sessionVars == <<interactive, devices, current, cache>>
historyVars == <<held, dispatched, plotted, leftover>>
evalVars == <<rVars, sessionVars, frames, thrown, historyVars, stale>>

Local == {"this", "arg", "ptr", "idx", "call", "out", "v1", "v2", "v3", "dev", "plots",
          "result", "output"}
NoLocals == [x \in Local |-> 0]      \* object 0: NULL, a symbol, the base environment

-----------------------------------------------------------------------------
(* The steps functions are made of.                                        *)

Alloc(x, of) == [op |-> "alloc", to |-> x, of |-> of]   \* allocate, with these fields
Attach(x, y) == [op |-> "attach", to |-> x, of |-> y]   \* setAttrib(), defineVar()
Link(x, y) == [op |-> "link", to |-> x, of |-> y]       \* SETCAR, SET_VECTOR_ELT
Field(x, y, i) == [op |-> "field", to |-> x, of |-> y, at |-> i]
Use(x) == [op |-> "use", of |-> x]
Protect(x) == [op |-> "protect", of |-> x]
ProtectInc(x) == [op |-> "protectInc", of |-> x]        \* and counted by the function
Try(k) == [op |-> "try", count |-> k]                   \* try ... finally { unprotect(k) }
Reprotect(x) == [op |-> "reprotect", of |-> x]
SafeEval(x, y, i, sure) == [op |-> "eval", to |-> x, of |-> y, at |-> i, sure |-> sure]
IfAny(x, steps) == [op |-> "ifany", of |-> x, then |-> steps]   \* if it has elements
New(x, d) == [op |-> "new", to |-> x, data |-> d]       \* new RObject(d)
Call(x, fn, y, d) == [op |-> "method", to |-> x, fn |-> fn, of |-> y, data |-> d]
Return(x) == [op |-> "return", of |-> x]
Do(op) == [op |-> op]
Throw(what) == [op |-> "throw", what |-> what]

(* Data: what constructors get.  `at' is a local or an index. *)
D(is, parts, named) == [is |-> is, parts |-> parts, named |-> named, at |-> "", obj |-> 0]
Atom == D("RVectorAtomic", <<>>, FALSE)
Strings == D("RCharacter", <<>>, FALSE)
Symbol == D("object", <<>>, FALSE)
Here(x) == [D("local", <<>>, FALSE) EXCEPT !.at = x]
Expr(value, at) == [D(value, <<Here("this")>>, FALSE) EXCEPT !.at = at]
With(part) == D("RVectorAtomic", <<part>>, FALSE)
One(parts, F(_)) == [i \in 1 .. Len(parts) |-> F(i)]      \* a step for each part
Each(parts, F(_), G(_)) ==                                \* and two
    [k \in 1 .. 2 * Len(parts) |-> IF k % 2 = 1 THEN F((k + 1) \div 2) ELSE G(k \div 2)]
V(i) == CASE i = 1 -> "v1" [] i = 2 -> "v2" [] OTHER -> "v3"

-----------------------------------------------------------------------------
(* Constructors.                                                           *)

setNames(x, d) == IF d.named THEN <<New("arg", Strings), Attach(x, "arg")>> ELSE <<>>

RVectorAtomic(d) ==
    <<Alloc("ptr", <<>>), ProtectInc("ptr")>>
    \o (IF d.is = "RCharacter" THEN <<Alloc("v1", <<>>), Link("ptr", "v1")>> ELSE <<>>)
    \o setNames("ptr", d) \o <<Return("ptr")>>

RPairlist(d) ==
    <<Alloc("ptr", <<>>), ProtectInc("ptr")>>
    \o Each(d.parts, LAMBDA i : New("v1", d.parts[i]), LAMBDA i : Link("ptr", "v1"))
    \o setNames("ptr", d) \o <<Return("ptr")>>

(* Broken variant: values that are not protected while the next are made.  *)
RCallUnprotected(d) ==
    One(d.parts, LAMBDA i : New(V(i), d.parts[i]))
    \o <<Alloc("ptr", <<>>), ProtectInc("ptr")>>
    \o One(d.parts, LAMBDA i : Link("ptr", V(i))) \o <<Return("ptr")>>

RCall(d) ==
    Each(d.parts, LAMBDA i : New(V(i), d.parts[i]), LAMBDA i : ProtectInc(V(i)))
    \o <<Alloc("ptr", <<>>), ProtectInc("ptr")>>
    \o One(d.parts, LAMBDA i : Link("ptr", V(i))) \o <<Return("ptr")>>

(* names can be of another length than the values. *)
RList(d) ==
    <<Alloc("ptr", <<>>), ProtectInc("ptr")>>
    \o Each(d.parts, LAMBDA i : New("v1", d.parts[i]), LAMBDA i : Link("ptr", "v1"))
    \o (IF d.at = "misnamed" THEN <<Throw("error")>> ELSE setNames("ptr", d)) \o <<Return("ptr")>>

(* A value without a name ends it; each value is protected while it is     *)
(* bound to its name, as bind() does.                                      *)
REnvironment(d) ==
    <<Alloc("ptr", <<>>), ProtectInc("ptr")>>
    \o (IF d.named
        THEN One(d.parts, LAMBDA i : Call("ptr", "bind", "ptr", With(d.parts[i])))
        ELSE IF d.parts # <<>> THEN <<Throw("error")>> ELSE <<>>)
    \o <<Return("ptr")>>

bind(d) ==
    <<New("v1", d.parts[1]), Protect("v1"), Try(1), Attach("this", "v1"), Return("this")>>

(* newObjectFromArray() of mixed values: they are passed to c(). *)
newObjectFromArray(d) ==
    <<New("call", D("RCall", d.parts, FALSE)), ProtectInc("call"),
      Call("out", "evalR", "call", Expr("any", "internal")), Return("out")>>

(* fromObject(), whose columns are not protected. *)
fromObject(d) ==
    IF ~ d.named THEN <<Throw("error")>>
    ELSE One(d.parts, LAMBDA i : New(V(i), d.parts[i]))
         \o <<New("out", D("RList", [i \in 1 .. Len(d.parts) |-> Here(V(i))], TRUE)),
              ProtectInc("out"), New("call", D("RCall", <<Here("out")>>, FALSE)), ProtectInc("call"),
              Call("ptr", "evalR", "call", Expr("frame", "internal")),
              Call("out", "isDataFrame", "ptr", Atom), Use("ptr"), Return("ptr")>>

Constructor(d) ==
    CASE d.is \in {"RVectorAtomic", "RCharacter"} -> RVectorAtomic(d)
      [] d.is = "RPairlist" -> RPairlist(d)
      [] d.is = "RCall" -> RCall(d)
      [] d.is = "RList" -> RList(d)
      [] d.is = "REnvironment" -> REnvironment(d)
      [] d.is = "array" -> newObjectFromArray(d)
      [] d.is = "RDataFrame" -> fromObject(d)
      [] OTHER -> <<Throw("error")>>

-----------------------------------------------------------------------------
(* Methods.  A subset or an element is taken by R, at the index d.at of    *)
(* the object, and is a new object when the object has no such field.  R   *)
(* may find no such element when the index comes from the application.     *)

Index(i) == [Atom EXCEPT !.obj = i]
Sure(i) == [Index(i) EXCEPT !.at = "sure"]

slice(d) ==
    <<New("idx", Atom), ProtectInc("idx"), Alloc("call", <<"this", "idx">>), ProtectInc("call"),
      SafeEval("out", "this", d.obj, d.at = "sure"), Return("out")>>

(* pluck(i, j): the element is protected, in the place of NULL, while its   *)
(* own element is taken.                                                   *)
Path(i, j) == [Sure(i) EXCEPT !.parts = <<Sure(j)>>]
pluck(d) ==
    <<Protect("out"), Try(1), Call("out", "slice", "this", d), Reprotect("out"),
      Call("out", "slice", "out", d.parts[1]), Reprotect("out"), Return("out")>>

set(d) ==
    <<New("idx", Atom), ProtectInc("idx"), New("v1", Strings), ProtectInc("v1"),
      Alloc("call", <<"this", "idx", "v1">>), ProtectInc("call"),
      SafeEval("out", "call", 0, FALSE), Return("out")>>

detectMissing ==
    <<Alloc("call", <<"this">>), ProtectInc("call"), SafeEval("out", "call", 0, TRUE),
      ProtectInc("out"), Use("out"), Return("out")>>

toArray == <<Call("out", "detectMissing", "this", Atom), Use("this"), Return("out")>>

toString == <<Use("this"), Call("out", "slice", "this", Sure(1)),
              Call("out", "toArray", "out", Atom), Return("out")>>

(* names(): the attribute is made for the call when the object is a        *)
(* pairlist or an environment.                                             *)
names == <<Alloc("arg", <<"this">>), Call("out", "toArray", "arg", Atom), Return("out")>>

(* toJs(), and with it toArray(), entries() and toObject(): the elements of *)
(* a list are taken one by one, and are the list's own.                    *)
toJs == <<Call("idx", "names", "this", Atom), Call("out", "toArray", "this", Atom),
          IfAny("this", <<Call("v1", "slice", "this", Sure(1)),
                          Call("v2", "slice", "this", Sure(1)), Use("v1")>>), Return("v2")>>

(* class(), and exec() of a function with one argument. *)
exec(d) ==
    <<New("call", D("RCall", <<Here("this")>> \o d.parts, FALSE)), ProtectInc("call"),
      Call("out", "evalR", "call", Expr("any", "")), Return("out")>>

deparse ==
    <<Alloc("call", <<"this">>), ProtectInc("call"), SafeEval("out", "call", 0, TRUE),
      ProtectInc("out"), Call("out", "toString", "out", Atom), Return("out")>>

(* parseEvalBare(), of webR's own code, that gives a value; isNa(), whose   *)
(* `finally' unprotects one object from the start.                         *)
parseEvalBare ==
    <<New("arg", D("REnvironment", <<Here("this")>>, TRUE)), ProtectInc("arg"),
      SafeEval("out", "arg", 0, TRUE), Return("out")>>

(* Broken variant: the result is not protected.                            *)
isNaBare ==
    <<Try(1), Call("out", "parseEvalBare", "this", Atom), Call("out", "toArray", "out", Atom),
      Return("out")>>
isNa ==
    <<Try(1), Call("out", "parseEvalBare", "this", Atom), Protect("out"),
      Call("out", "toArray", "out", Atom), Return("out")>>

isDataFrame ==
    <<Field("arg", "this", 1), Call("out", "slice", "arg", Sure(1)),
      Call("out", "toArray", "out", Atom), Return("out")>>

-----------------------------------------------------------------------------
(* captureR() and evalR().                                                 *)

(* eval_r() gives a list of a result and an output, and the output is a    *)
(* list of items of a type and data.  With an error in the output, its     *)
(* call and message are taken for the exception.                           *)
RaiseError ==
    <<Call("v1", "slice", "output", Sure(1)), Call("v2", "slice", "v1", Sure(1)),
      Call("v2", "toString", "v2", Atom), Call("v2", "pluck", "v1", Path(2, 2)),
      Call("v2", "deparse", "v2", Atom), Call("v2", "pluck", "v1", Path(2, 1)),
      Call("v2", "toString", "v2", Atom), Throw("error")>>

(* The options: "badenv" with an object that is no environment, "graphics" *)
(* with a device, "unhandled" without handlers for conditions, "unthrown"  *)
(* where an R error is not thrown.                                         *)
captureR(d) ==
    <<New("dev", D("REnvironment", <<>>, TRUE)), ProtectInc("dev"), Do("quiet")>>
    \o (IF d.at = "badenv" THEN <<Throw("error")>> ELSE <<>>)
    \o (IF d.at = "graphics"
        THEN <<Call("dev", "bind", "dev", With(D("RList", <<Atom>>, TRUE))), Do("open")>>
        ELSE <<>>)
    \o <<New("v1", d.parts[1]), ProtectInc("v1"), Alloc("arg", <<"v1">>), Alloc("call", <<"arg">>), ProtectInc("call"),
         [op |-> "user", to |-> "ptr", data |-> d], ProtectInc("ptr"),
         Call("output", "slice", "ptr", Sure(2))>>
    \o (IF d.at = "graphics"
        THEN <<Alloc("plots", <<>>), Do("newplots"), ProtectInc("plots"),
               Call("arg", "toArray", "plots", Atom)>>
        ELSE <<>>)
    \o <<Call("result", "slice", "ptr", Sure(1)), Call("output", "slice", "ptr", Sure(2)),
         Return("result")>>

(* Broken variants: plots stay in the cache, the device stays open.        *)
NoDestroy ==
    <<Do("restore"), Call("v2", "slice", "dev", Sure(9)), Do("close"), Do("unprotect")>>

CaptureFinally ==
    <<Do("restore"), Call("v2", "slice", "dev", Sure(9)), Do("close"), Do("destroy"),
      Do("unprotect")>>

(* evalR() sends captured output to the JavaScript console. *)
Message(item) ==
    <<Call("v1", "slice", "output", Sure(1)), Call("v2", "slice", "v1", Sure(1)),
      Call("v2", "toString", "v2", Atom), Call("v2", "slice", "v1", Sure(2)),
      IfAny("v2", <<Call("v2", "pluck", "v1", Path(2, 1))>>),
      Call("v2", "toString", "v2", Atom)>>

evalR(d) ==
    <<Call("result", "captureR", "this", d), ProtectInc("output"), ProtectInc("result"),
      IfAny("output", Message(1)), Return("result")>>

Method(fn, d) ==
    CASE fn = "slice" -> slice(d)
      [] fn = "pluck" -> pluck(d)
      [] fn = "set" -> set(d)
      [] fn = "detectMissing" -> detectMissing
      [] fn = "toArray" -> toArray
      [] fn = "toString" -> toString
      [] fn = "names" -> names
      [] fn = "toJs" -> toJs
      [] fn = "exec" -> exec(d)
      [] fn = "deparse" -> deparse
      [] fn = "isNa" -> isNa
      [] fn = "parseEvalBare" -> parseEvalBare
      [] fn = "bind" -> bind(d)
      [] fn = "isDataFrame" -> isDataFrame
      [] fn = "evalR" -> evalR(d)
      [] fn = "captureR" -> captureR(d)
      [] OTHER -> <<Throw("error")>>

-----------------------------------------------------------------------------
(* Requests.                                                               *)

Answer(locals) == [op |-> "answer", of |-> locals]
Keep(x) == [op |-> "keep", of |-> x]

(* 'captureR' gives references to the result and to the conditions, and    *)
(* the text of standard output.                                            *)
CaptureRequest(d) ==
    <<Call("result", "captureR", "this", d), ProtectInc("result"), ProtectInc("output"),
      Keep("result"),
      IfAny("output",
        <<Call("v1", "slice", "output", Sure(1)), Call("v2", "pluck", "v1", Path(1, 1)),
          Call("arg", "toString", "v2", Atom), Call("v2", "slice", "v1", Sure(2)),
          Keep("v2")>>),
      Answer(<<"result", "v2">>)>>

EvalRequest(d) == <<Call("result", "evalR", "this", d), Keep("result"), Answer(<<"result">>)>>

(* 'evalRRaw' throws when the value is not of the type asked for. *)
RawRequest(d) ==
    <<Call("result", "evalR", "this", d), Protect("result"), Try(1), Do("convert"),
      Call("out", "toArray", "result", Atom), Answer(<<>>)>>

NewRequest(d) == <<New("result", d), Keep("result"), Answer(<<"result">>)>>

(* 'callRObjectMethod': what comes back is a raw value that may have       *)
(* references in it, so nothing is kept.                                   *)
GivesObject == {"slice", "pluck", "set", "exec"}
MethodRequest(fn, d) ==
    <<Call("result", fn, "this", d),
      Answer(IF fn \in GivesObject THEN <<"result">> ELSE <<>>)>>

(* Requests on the virtual file system and others that touch no R object:  *)
(* one call, which throws or not.  'syncfs', which is answered later from a *)
(* callback, is not among them.                                            *)
PlainRequest == <<Do("convert"), Answer(<<>>)>>

Options == {[D("any", <<Strings>>, FALSE) EXCEPT !.at = o] : o \in {"", "graphics", "badenv", "unhandled", "unthrown"}}
Data == {[Strings EXCEPT !.named = TRUE],
         D("RPairlist", <<Atom, Strings>>, TRUE),
         D("RList", <<D("RList", <<Atom>>, TRUE), Strings>>, TRUE),
         [D("RList", <<Atom>>, TRUE) EXCEPT !.at = "misnamed"],
         D("RCall", <<Symbol, Strings, Atom>>, FALSE),
         D("REnvironment", <<Strings, Atom>>, TRUE),
         D("REnvironment", <<Atom>>, FALSE),
         D("array", <<Strings, D("RList", <<Atom>>, TRUE)>>, FALSE),
         D("RDataFrame", <<Strings, Atom>>, TRUE),
         D("RDataFrame", <<Atom>>, FALSE)}
Methods == {"slice", "pluck", "set", "toArray", "toString", "names", "toJs", "exec",
            "deparse", "isNa"}

-----------------------------------------------------------------------------
(* The heap.                                                               *)

Grown(objects) == objects \cup UNION {ToSet(heap[o].fields) : o \in objects \ {0}}
Reach(roots) ==      \* no object is nested deeper
    Grown(Grown(Grown(Grown(Grown(Grown(roots)))))) \ {0}
HasField(o, i) == o # 0 /\ i \in DOMAIN heap[o].fields
Values(locals) == {Last(frames).env[x] : x \in ToSet(locals)}
Freed(used) == {o \in used \ {0} : ~ heap[o].alive}

Roots == (ToSet(stack) \cup precious) \ {0}     \* what R keeps

(* What a function reads.  When it was freed, the run goes on as if R had  *)
(* not collected it, and the first function that held it is noted.         *)
Holder(o) ==
    frames[Min({i \in DOMAIN frames : \E x \in Local : frames[i].env[x] = o})].fn
Used(used) ==
    /\ stale' = stale \cup {Holder(o) : o \in Freed(used)}
Collected(used) ==
    LET own == Reach(used)
        kept == own \cup Reach(Roots)
    IN  [o \in DOMAIN heap |-> [heap[o] EXCEPT !.alive = (@ /\ o \in kept) \/ o \in own]]
Revived(used) ==
    LET own == Reach(used)
    IN  [o \in DOMAIN heap |-> [heap[o] EXCEPT !.alive = @ \/ o \in own]]
Object(fields) == [alive |-> TRUE, fields |-> fields]

(* Between requests, only objects R keeps or the main thread can name matter. *)
Named(objects) ==
    LET own == Reach(objects)
    IN  [o \in 1 .. Max(Grown(own) \cup {0}) |->
           IF o \in own THEN heap[o] ELSE [alive |-> FALSE, fields |-> <<>>]]

-----------------------------------------------------------------------------
(* Running functions.                                                      *)

Top == Last(frames)
At(op) == thrown = "none" /\ frames # <<>> /\ Head(Top.code).op = op
Step == Head(Top.code)
Frame(fn, code, fin, env, to) ==
    [fn |-> fn, code |-> code, fin |-> fin, env |-> env, to |-> to, request |-> FALSE,
     n |-> 0, prot |-> 0, base |-> Len(stack), device |-> 1, old |-> 1, before |-> {}, mine |-> {}]
IsRequest(f) == f.request
Goto(f, code) == Append(Front(frames), [f EXCEPT !.code = code])
Advance(f) == Goto(f, Tail(f.code))
Bind(x, v) == [Top EXCEPT !.env[x] = v]
Push(frame) == frames' = Append(Advance(Top), frame)

Allocate ==
    /\ At("alloc")
    /\ LET used == Values(Step.of)
       IN  /\ Used(used)
           /\ heap' = Append(Collected(used), Object([i \in DOMAIN Step.of |-> Top.env[Step.of[i]]]))
           /\ frames' = Advance(Bind(Step.to, Len(heap) + 1))
    /\ UNCHANGED <<stack, precious, sessionVars, thrown, historyVars>>

(* An allocation, or none, and a new field of the object. *)
AddField ==
    /\ At("attach") \/ At("link")
    /\ LET used == Values(<<Step.to, Step.of>>)
           h == IF Step.op = "attach" THEN Collected(used) ELSE Revived(used)
       IN  /\ Used(used)
           /\ heap' = [h EXCEPT ![Top.env[Step.to]].fields = Append(@, Top.env[Step.of])]
           /\ frames' = Advance(Top)
    /\ UNCHANGED <<stack, precious, sessionVars, thrown, historyVars>>

(* An attribute that the object does not have is NULL. *)
Read ==
    /\ At("use") \/ At("field")
    /\ LET o == Top.env[Step.of]
       IN  /\ Used({o})
           /\ heap' = Revived({o})
           /\ frames' = Advance(IF Step.op = "use" THEN Top
                                ELSE Bind(Step.to, IF HasField(o, Step.at)
                                                   THEN heap[o].fields[Step.at] ELSE 0))
    /\ UNCHANGED <<stack, precious, sessionVars, thrown, historyVars>>

(* A frame has protected n objects and unprotects prot of them when it ends, *)
(* the number its code counts up and writes in its `finally' blocks.       *)
ProtectObject ==
    /\ At("protect") \/ At("protectInc")
    /\ Used(Values(<<Step.of>>)) /\ heap' = Revived(Values(<<Step.of>>))
    /\ stack' = Append(stack, Top.env[Step.of])
    /\ frames' = Advance([Top EXCEPT !.n = @ + 1,
                                     !.prot = IF Step.op = "protectInc" THEN @ + 1 ELSE @])
    /\ UNCHANGED <<precious, sessionVars, thrown, historyVars>>

ReprotectObject ==
    /\ At("reprotect")
    /\ Used(Values(<<Step.of>>)) /\ heap' = Revived(Values(<<Step.of>>))
    /\ stack' = [stack EXCEPT ![Top.base + 1] = Top.env[Step.of]]
    /\ frames' = Advance(Top)
    /\ UNCHANGED <<precious, sessionVars, thrown, historyVars>>

(* R evaluates a call that takes an element of an object: the element, or  *)
(* a new object.  An error of R comes out of ffi_safe_eval() as an         *)
(* exception. *)
Evaluate ==
    /\ At("eval")
    /\ LET o == Top.env[Step.of]
           used == Values(<<"call", Step.of>>)
           own == HasField(o, Step.at)
       IN  /\ Used(used)
           /\ \/ /\ heap' = Collected(used) \o (IF own THEN <<>> ELSE <<Object(<<>>)>>)
                 /\ frames' = Advance(Bind(Step.to, IF own THEN heap[o].fields[Step.at]
                                                    ELSE Len(heap) + 1))
                 /\ UNCHANGED thrown
              \/ /\ ~ Step.sure
                 /\ heap' = Collected(used) /\ thrown' = "unwind" /\ UNCHANGED frames
    /\ UNCHANGED <<stack, precious, sessionVars, historyVars>>

(* new RObject(): the same object for one that exists. *)
Resolved(d) ==
    IF d.is = "local" THEN [d EXCEPT !.is = "object", !.obj = Top.env[d.at]] ELSE d
Construct ==
    /\ At("new")
    /\ LET d == Resolved(Step.data)
           parts == [i \in DOMAIN d.parts |-> Resolved(d.parts[i])]
       IN  IF d.is = "object"
           THEN frames' = Advance(Bind(Step.to, d.obj))
           ELSE frames' = Append(Advance(Top),
                                 Frame(d.is, Constructor([d EXCEPT !.parts = parts]), <<>>,
                                       NoLocals, Step.to))
    /\ UNCHANGED <<rVars, sessionVars, thrown, historyVars, stale>>

CallMethod ==
    /\ At("method")
    /\ frames' = Append(Advance(Top),
                        Frame(Step.fn, Method(Step.fn, Step.data),
                              IF Step.fn = "captureR" THEN CaptureFinally ELSE <<>>,
                              [NoLocals EXCEPT !["this"] = Top.env[Step.of]], Step.to))
    /\ UNCHANGED <<rVars, sessionVars, thrown, historyVars, stale>>

Branch ==
    /\ At("ifany")
    /\ LET o == Top.env[Step.of]
       IN  frames' = Goto(Top, (IF o # 0 /\ heap[o].fields # <<>> THEN Step.then ELSE <<>>)
                               \o Tail(Top.code))
    /\ UNCHANGED <<rVars, sessionVars, thrown, historyVars, stale>>

Popped(f) == SubSeq(stack, 1, Len(stack) - f.prot)

EnterTry ==
    /\ At("try")
    /\ frames' = Advance([Top EXCEPT !.prot = @ + Step.count])
    /\ UNCHANGED <<rVars, sessionVars, thrown, historyVars, stale>>

Unprotect ==
    /\ At("unprotect")
    /\ stack' = Popped(Top)
    /\ frames' = Advance([Top EXCEPT !.n = @ - Top.prot, !.prot = 0])
    /\ UNCHANGED <<heap, precious, sessionVars, thrown, historyVars, stale>>

(* A function that dispatch() did not call returns, after its `finally';   *)
(* captureR() gives its output along with its result.                      *)
Leave ==
    /\ At("return") /\ ~ IsRequest(Top)
    /\ IF Top.fin # <<>>
       THEN frames' = Goto([Top EXCEPT !.fin = <<>>], Top.fin \o Top.code) /\ UNCHANGED stack
       ELSE LET caller == frames[Len(frames) - 1]
                env == [caller.env EXCEPT
                          ![Top.to] = Top.env[Step.of],
                          !["output"] = IF Top.fn = "captureR" THEN Top.env["output"] ELSE @]
            IN  /\ stack' = Popped(Top)
                /\ frames' = Append(Front(Front(frames)), [caller EXCEPT !.env = env])
    /\ UNCHANGED <<heap, precious, sessionVars, thrown, historyVars, stale>>

RaiseException ==
    /\ \/ At("throw") /\ thrown' = Step.what /\ UNCHANGED frames
       \/ At("convert") /\ thrown' = "error" /\ UNCHANGED frames
       \/ At("convert") /\ UNCHANGED thrown /\ frames' = Advance(Top)
    /\ UNCHANGED <<rVars, sessionVars, historyVars, stale>>

(* An exception runs the `finally' of the function, and leaves it.  What   *)
(* dispatch() catches is answered; R's own jump then goes on, and comes    *)
(* out of the evaluation around it, if there is one.                       *)
Unwind ==
    /\ thrown # "none"
    /\ IF Top.fin # <<>>
       THEN /\ frames' = Goto([Top EXCEPT !.fin = <<>>], Append(Top.fin, Throw(thrown)))
            /\ thrown' = "none"
            /\ leftover' = leftover \cup (IF Top.device = 1 THEN {} ELSE cache \ Top.before)
            /\ UNCHANGED <<heap, stack, precious>>
       ELSE /\ frames' = Front(frames)
            /\ stack' = Popped(Top) /\ UNCHANGED precious
            /\ heap' = IF frames' = <<>> THEN Named(held \cup Roots') ELSE heap
            /\ thrown' = IF IsRequest(Top) /\ (thrown = "error" \/ Len(frames) = 1)
                         THEN "none" ELSE thrown
            /\ UNCHANGED leftover
    /\ UNCHANGED <<sessionVars, held, dispatched, plotted, stale>>

-----------------------------------------------------------------------------
(* The R session around an evaluation.                                     *)

NullDevice == 1
DefaultDevice == 0     \* what R opens when it needs a device and has none
NewDevice == Max(devices \cup {NullDevice}) + 1

(* R_Interactive, and the device, of captureR(). *)
SetInteractive ==
    /\ \/ At("quiet") /\ interactive' = FALSE
       \/ At("restore") /\ interactive' = Interactive
    /\ frames' = Advance(Top)
    /\ UNCHANGED <<rVars, devices, current, cache, thrown, historyVars, stale>>

OpenDevice ==
    /\ At("open")
    /\ devices' = devices \cup {NewDevice} /\ current' = NewDevice
    /\ frames' = Advance([Top EXCEPT !.device = NewDevice, !.old = current, !.before = cache])
    /\ UNCHANGED <<rVars, interactive, cache, thrown, historyVars, stale>>

NewPlots ==
    /\ At("newplots")
    /\ frames' = Advance([Top EXCEPT !.mine = cache \ Top.before])
    /\ UNCHANGED <<rVars, sessionVars, thrown, historyVars, stale>>

(* Broken variant: dev.set() is left out.                                  *)
StayCurrent == current
DeviceBefore == Top.old

(* dev.off() and dev.set(), which opens R's default device when it is      *)
(* given the null device and there is no other.                            *)
CloseDevice ==
    /\ At("close")
    /\ LET rest == devices \ {Top.device}
       IN  IF Top.device = NullDevice THEN UNCHANGED <<devices, current>>
           ELSE IF Top.old = NullDevice /\ rest = {}
           THEN devices' = {DefaultDevice} /\ current' = DefaultDevice
           ELSE devices' = rest /\ current' = DeviceBefore
    /\ frames' = Advance(Top)
    /\ UNCHANGED <<rVars, interactive, cache, thrown, historyVars, stale>>

DestroyPlots ==
    /\ At("destroy")
    /\ cache' = cache \ Top.mine
    /\ frames' = Advance(Top)
    /\ UNCHANGED <<rVars, interactive, devices, current, thrown, historyVars, stale>>

-----------------------------------------------------------------------------
(* The code under evaluation.                                              *)

(* It draws on the current device. *)
Plot ==
    /\ At("user") /\ plotted < MaxPlots /\ current > NullDevice
    /\ cache' = cache \cup {plotted + 1} /\ plotted' = plotted + 1
    /\ UNCHANGED <<rVars, interactive, devices, current, frames, thrown, held, dispatched,
                   leftover, stale>>

(* The objects of a value, with a class attribute when it is a data frame, *)
(* and of what eval_r() makes of it, from the object numbered n.           *)
ValueObjects(n, frame) ==
    IF frame THEN <<Object(<<n + 1>>), Object(<<n + 2>>), Object(<<>>)>> ELSE <<Object(<<>>)>>
Item(n) ==       \* type, data, message, call
    <<Object(<<n + 1, n + 2>>), Object(<<>>), Object(<<n + 3, n + 4>>), Object(<<>>), Object(<<>>)>>
Line(n) == <<Object(<<n + 1, n + 2>>), Object(<<>>), Object(<<>>)>>
Captured(n, frame, item) ==
    LET v == ValueObjects(n + 2, frame)
        i == n + 2 + Len(v)
    IN  <<Object(<<n + 2, n + 1>>), Object(IF item = "none" THEN <<>> ELSE <<i>>)>> \o v
        \o (IF item = "none" THEN <<>> ELSE IF item = "stdout" THEN Line(i) ELSE Item(i))

(* It ends with a value, output, a condition or an error, which is not     *)
(* captured without handlers.  A call made by webR itself gives a value.   *)
FinishUser ==
    /\ At("user")
    /\ LET n == Len(heap) + 1
           used == Values(<<"call">>)
           rest == Tail(Top.code)
           raises(item) == item = "error" /\ Step.data.at # "unthrown"
       IN  /\ Used(used)
           /\ \/ \E item \in {"none", "stdout", "condition", "error"} :
                   /\ Step.data.at = "internal" => item = "none"
                   /\ Step.data.at = "unhandled" => item # "error"
                   /\ heap' = Collected(used) \o Captured(n, Step.data.is = "frame", item)
                   /\ frames' = Goto(Bind("ptr", n), IF raises(item)
                                                     THEN SubSeq(rest, 1, 2) \o RaiseError
                                                     ELSE rest)
                   /\ UNCHANGED thrown
              \/ /\ Step.data.at = "unhandled"
                 /\ heap' = Collected(used) /\ thrown' = "unwind" /\ UNCHANGED frames
    /\ UNCHANGED <<stack, precious, sessionVars, historyVars>>

-----------------------------------------------------------------------------
(* dispatch().                                                             *)

KeepObject ==
    /\ At("keep")
    /\ LET o == Top.env[Step.of]
       IN  /\ Used({o})
           /\ heap' = Collected({o})
           /\ precious' = precious \cup ({o} \ {0})
    /\ frames' = Advance(Top)
    /\ UNCHANGED <<stack, sessionVars, thrown, historyVars>>

AnswerRequest ==
    /\ At("answer") /\ IsRequest(Top)
    /\ held' = held \cup (Values(Step.of) \ {0})
    /\ stack' = Popped(Top)
    /\ frames' = Front(frames)
    /\ UNCHANGED precious
    /\ heap' = IF frames' = <<>> THEN Named(held' \cup Roots') ELSE heap
    /\ UNCHANGED <<sessionVars, thrown, dispatched, plotted, leftover, stale>>

(* A request is dispatched at the prompt, or at one the code under         *)
(* evaluation opens.  A call through a reference to an object that was     *)
(* freed is undefined, and not modelled.                                   *)
Prompt == frames = <<>> \/ (At("user") /\ Step.data.at # "internal")
Dispatch(fn, code, this) ==
    /\ thrown = "none" /\ Prompt
    /\ dispatched < MaxRequests
    /\ Cardinality({i \in DOMAIN frames : IsRequest(frames[i])}) < MaxNest
    /\ dispatched' = dispatched + 1
    /\ LET handler == Frame(fn, code, <<>>, [NoLocals EXCEPT !["this"] = this], "this")
       IN  frames' = Append(frames, [handler EXCEPT !.request = TRUE])
    /\ UNCHANGED <<rVars, sessionVars, thrown, held, plotted, leftover, stale>>

RequestEvaluation ==
    \E d \in Options :
        \/ Dispatch("captureR request", CaptureRequest(d), 0)
        \/ d.at \in {"", "unhandled"} /\ Dispatch("evalR request", EvalRequest(d), 0)
        \/ d.at = "" /\ Dispatch("evalRRaw request", RawRequest(d), 0)
RequestObject == \E d \in Data : Dispatch("newRObject request", NewRequest(d), 0)
RequestMethod ==
    \E fn \in Methods, o \in held :
        /\ heap[o].alive
        /\ Dispatch("callRObjectMethod request", MethodRequest(fn, [Index(1) EXCEPT !.parts = <<Index(1)>>]), o)
RequestPlain == Dispatch("plain request", PlainRequest, 0)

EvalInit ==
    /\ heap = <<>> /\ stack = <<>> /\ precious = {}
    /\ interactive = Interactive /\ devices = {} /\ current = NullDevice /\ cache = {}
    /\ frames = <<>> /\ thrown = "none"
    /\ held = {} /\ dispatched = 0 /\ plotted = 0 /\ leftover = {}
    /\ stale = {}

EvalNext ==
    \/ Allocate \/ AddField \/ Read \/ ProtectObject \/ ReprotectObject \/ Evaluate
    \/ EnterTry \/ Unprotect
    \/ Construct \/ CallMethod \/ Branch \/ Leave \/ RaiseException \/ Unwind
    \/ SetInteractive \/ OpenDevice \/ NewPlots \/ CloseDevice \/ DestroyPlots
    \/ Plot \/ FinishUser \/ KeepObject \/ AnswerRequest
    \/ RequestEvaluation \/ RequestObject \/ RequestMethod \/ RequestPlain

EvalSpec == EvalInit /\ [][EvalNext]_evalVars

-----------------------------------------------------------------------------
Idle == frames = <<>>

EvalTypeOK ==
    /\ heap \in Seq([alive : BOOLEAN, fields : Seq(0 .. Len(heap))])
    /\ ToSet(stack) \subseteq 0 .. Len(heap)
    /\ precious \subseteq DOMAIN heap /\ held \subseteq DOMAIN heap
    /\ interactive \in BOOLEAN /\ current \in devices \cup {NullDevice}
    /\ thrown \in {"none", "error", "unwind"}
    /\ \A o \in precious : heap[o].alive

(* The innermost function is about to end, by value or by exception.       *)
Ending == ~ Idle /\ Top.fin = <<>> /\ (thrown # "none" \/ At("return") \/ At("answer"))

(* Each function leaves R's protect stack as high as it found it, however  *)
(* it ends: the number it has counted, or written in its `finally', is     *)
(* that of the objects it has protected by then, and what is on the stack  *)
(* is what the functions in progress have protected.                       *)
StackBalanced ==
    /\ Idle => stack = <<>>
    /\ ~ Idle => Len(stack) = Top.base + Top.n
    /\ \A i \in 1 .. Len(frames) - 1 : frames[i + 1].base = frames[i].base + frames[i].n
    /\ Ending => Top.n = Top.prot

(* No function uses an R object that R may have collected, with three      *)
(* exceptions: the columns and the value of as.data.frame() in             *)
(* fromObject(), the type of captured output in 'captureR', which pluck()  *)
(* takes out of its vector, and objects that 'callRObjectMethod' gave to   *)
(* the main thread without a shelter.                                      *)
UsesOnlyProtected == stale \subseteq {"RDataFrame", "isDataFrame", "captureR request", "callRObjectMethod request"}

(* Between requests the session is as it was: interactive as configured,   *)
(* no device of captureR() open, and no plot in the cache but those of     *)
(* evaluations that failed.                                                *)
SessionRestored ==
    Idle => /\ interactive = Interactive
            /\ devices \subseteq {DefaultDevice}
            /\ cache \subseteq leftover

(* What the documentation says: the object of a reference is not deleted   *)
(* by R before it is removed from its shelter.                             *)
ReferenceNotDeleted == \A o \in held : heap[o].alive
====
