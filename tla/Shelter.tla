---- MODULE Shelter ----
(***************************************************************************)
(* Shelters: the lists of R objects that references on the main thread     *)
(* keep alive.  keep(), destroy() and purge() of                           *)
(* src/webR/robj-worker.ts, the requests that call them in dispatch()      *)
(* (src/webR/webr-worker.ts) and the Shelter proxies that make those       *)
(* requests (src/webR/webr-main.ts).                                       *)
(*                                                                         *)
(* R objects live at pointers.  R frees an object that is neither on its   *)
(* precious list nor reachable from R code, and uses the pointer again.    *)
(* Requests are dispatched in the order they were made, but R code that    *)
(* reads the console while it evaluates one lets the next ones in: an      *)
(* evaluation ends, and keeps its result, after requests made later.       *)
(***************************************************************************)
EXTENDS Integers, Sequences, FiniteSets, SequencesExt

CONSTANTS
    ShelterId,     \* shelters
    Ptr,           \* pointers to R objects
    Handle,        \* RObject references the main thread can hold
    MaxObjects,    \* bound on the R objects made
    MaxRequests,   \* bound on the requests queued
    MaxNest,       \* bound on the evaluations in progress
    MaxStrays,     \* bound on the destroy() calls of references not held
    None           \* no shelter, no pointer

ASSUME ShelterAssumption ==
    /\ MaxObjects \in Nat /\ MaxRequests \in Nat /\ MaxNest \in Nat /\ MaxStrays \in Nat
    /\ None \notin ShelterId \cup Ptr

VARIABLES
    known,      \* worker: keys of the `shelters' map
    shelters,   \* worker: the pointers each shelter keeps
    precious,   \* R: times each pointer is on the precious list
    object,     \* R: the object at each pointer, 0 if there is none
    bound,      \* R: pointers reachable from R code
    made,       \* R: number of objects made so far
    evals,      \* worker: evaluations in progress, innermost last
    requests,   \* requests made and not yet dispatched
    status,     \* main: what the application thinks of each reference
    home,       \* main: the shelter each reference was made in
    pointer,    \* main: the payload of each reference
    target,     \* history: the object each reference was made for
    leaked,     \* history: pointers a shelter keeps for no reference
    strays      \* history: destroy() calls of references not held

workerVars == <<known, shelters, evals>>
rVars == <<precious, object, bound, made>>
mainVars == <<requests, status, home, pointer, target>>
vars == <<workerVars, rVars, mainVars, leaked, strays>>

Status == {"unused", "pending", "held", "failed", "gone"}
Request ==
    [type : {"evalR", "captureR", "purge"}, shelter : ShelterId, handle : Handle \cup {None}]
    \cup [type : {"destroy"}, shelter : ShelterId, handle : Handle]

TypeOK ==
    /\ known \subseteq ShelterId
    /\ shelters \in [ShelterId -> Seq(Ptr)]
    /\ \A s \in ShelterId \ known : shelters[s] = <<>>
    /\ precious \in [Ptr -> Nat]
    /\ object \in [Ptr -> 0 .. MaxObjects]
    /\ bound \subseteq Ptr
    /\ made \in 0 .. MaxObjects
    /\ evals \in Seq(Request)
    /\ requests \in Seq(Request)
    /\ status \in [Handle -> Status]
    /\ home \in [Handle -> ShelterId \cup {None}]
    /\ pointer \in [Handle -> Ptr \cup {None}]
    /\ target \in [Handle -> 0 .. MaxObjects]
    /\ leaked \in [ShelterId -> Nat]
    /\ strays \in 0 .. MaxStrays

Init ==
    /\ known = {}
    /\ shelters = [s \in ShelterId |-> <<>>]
    /\ precious = [p \in Ptr |-> 0]
    /\ object = [p \in Ptr |-> 0]
    /\ bound = {}
    /\ made = 0
    /\ evals = <<>> /\ requests = <<>>
    /\ status = [h \in Handle |-> "unused"]
    /\ home = [h \in Handle |-> None]
    /\ pointer = [h \in Handle |-> None]
    /\ target = [h \in Handle |-> 0]
    /\ leaked = [s \in ShelterId |-> 0]
    /\ strays = 0

-----------------------------------------------------------------------------
(* The application.                                                        *)

(* new Shelter() and its init(), which awaits 'newShelter'. *)
NewShelter(s) ==
    /\ s \notin known
    /\ known' = known \cup {s}
    /\ UNCHANGED <<shelters, evals, rVars, mainVars, leaked, strays>>

Issue(type, s, h) ==
    /\ Len(requests) < MaxRequests
    /\ s \in known
    /\ requests' = Append(requests, [type |-> type, shelter |-> s, handle |-> h])
    /\ UNCHANGED <<workerVars, rVars, home, pointer, target, leaked>>

(* evalR() (or a class constructor, or captureR()) of a shelter; it will   *)
(* be the reference h.                                                     *)
Evaluate(type, s, h) ==
    /\ status[h] = "unused"
    /\ Issue(type, s, h)
    /\ status' = [status EXCEPT ![h] = "pending"]
    /\ UNCHANGED strays

(* destroy() of a reference, by the shelter it was made in. *)
Destroy(h) ==
    /\ status[h] = "held"
    /\ Issue("destroy", home[h], h)
    /\ status' = [status EXCEPT ![h] = "gone"]
    /\ UNCHANGED strays

(* destroy() of a reference that is gone, or by another shelter. *)
StrayDestroy(s, h) ==
    /\ strays < MaxStrays
    /\ pointer[h] # None
    /\ status[h] = "gone" \/ s # home[h]
    /\ Issue("destroy", s, h)
    /\ strays' = strays + 1
    /\ UNCHANGED status

(* purge(): the references of the shelter are gone, and so are those that  *)
(* requests made before are still to return.                               *)
PendingIn(s) ==
    {r.handle : r \in {q \in ToSet(requests) \cup ToSet(evals) :
                           q.type \in {"evalR", "captureR"} /\ q.shelter = s}}
Purge(s) ==
    /\ Issue("purge", s, None)
    /\ status' = [h \in Handle |->
                    IF h \in PendingIn(s) \/ (status[h] = "held" /\ home[h] = s)
                    THEN "gone" ELSE status[h]]
    /\ UNCHANGED strays

-----------------------------------------------------------------------------
(* R.                                                                      *)

(* Broken variants: a destroy() that takes every entry of the pointer out  *)
(* of the shelter, a purge() that releases everything on the precious      *)
(* list, one that keeps the shelter only in name: its list is gone from    *)
(* the map.                                                                *)
DropAll(ptrs, p) == SelectSeq(ptrs, LAMBDA q : q # p)
ReleaseEverything(ptrs) == [p \in Ptr |-> 0]
NoList(ptrs) == None

(* R_PreserveObject() and R_ReleaseObject(): the precious list is a        *)
(* multiset, and releasing an object that is not on it does nothing.       *)
Preserve(p) == [precious EXCEPT ![p] = @ + 1]
Release(p) == [precious EXCEPT ![p] = IF @ > 0 THEN @ - 1 ELSE 0]

Places(ptrs, p) == {i \in 1 .. Len(ptrs) : ptrs[i] = p}
Times(ptrs, p) == Cardinality(Places(ptrs, p))
ReleaseAll(ptrs) ==
    [p \in Ptr |-> IF precious[p] > Times(ptrs, p) THEN precious[p] - Times(ptrs, p) ELSE 0]

(* R code gives its result: an object it can reach, by itself or because a *)
(* reference was passed to it, or a new one.                               *)
Fresh(p) == object[p] = 0 /\ made < MaxObjects
Result(p) == Fresh(p) \/ (object[p] # 0 /\ (p \in bound \/ precious[p] > 0))
MakeResult(p) ==
    /\ Result(p)
    /\ \/ Fresh(p) /\ made' = made + 1 /\ object' = [object EXCEPT ![p] = made + 1]
                   /\ bound' \in {bound, bound \cup {p}}
       \/ ~ Fresh(p) /\ UNCHANGED <<made, object, bound>>

(* The garbage collector, and R code that drops its last reference. *)
Collect(p) ==
    /\ object[p] # 0 /\ precious[p] = 0 /\ p \notin bound
    /\ object' = [object EXCEPT ![p] = 0]
    /\ UNCHANGED <<workerVars, precious, bound, made, mainVars, leaked, strays>>

Unbind(p) ==
    /\ evals # <<>> /\ p \in bound
    /\ bound' = bound \ {p}
    /\ UNCHANGED <<workerVars, precious, object, made, mainVars, leaked, strays>>

-----------------------------------------------------------------------------
(* dispatch() on the worker.                                               *)

Dispatched(type) ==
    /\ requests # <<>> /\ Head(requests).type = type
    /\ requests' = Tail(requests)

StartEval ==
    /\ Dispatched("evalR") \/ Dispatched("captureR")
    /\ Len(evals) < MaxNest
    /\ evals' = Append(evals, Head(requests))
    /\ UNCHANGED <<known, shelters, rVars, status, home, pointer, target, leaked, strays>>

Eval == Last(evals)

(* Broken variant: an object that is preserved is not preserved again.     *)
KeepOnce(s, p) ==
    /\ precious' = [precious EXCEPT ![p] = 1]
    /\ shelters' = [shelters EXCEPT ![s] = Append(@, p)]

(* keep() of the result, whose reference goes to the main thread. *)
Keep(s, p) ==
    /\ precious' = Preserve(p)
    /\ shelters' = [shelters EXCEPT ![s] = Append(@, p)]

(* A captureR() can fail after keep() of its result, while it goes through *)
(* the conditions it captured: nobody gets the reference.                  *)
FinishEval(p, fails) ==
    /\ evals # <<>>
    /\ fails => Eval.type = "captureR"
    /\ MakeResult(p)
    /\ Keep(Eval.shelter, p)
    /\ evals' = Front(evals)
    /\ LET h == Eval.handle
           reached == status[h] = "pending" /\ ~ fails
       IN  /\ status' = [status EXCEPT ![h] = IF reached THEN "held"
                                              ELSE IF fails THEN "failed" ELSE @]
           /\ home' = [home EXCEPT ![h] = Eval.shelter]
           /\ pointer' = [pointer EXCEPT ![h] = IF fails THEN None ELSE p]
           /\ target' = [target EXCEPT ![h] = object'[p]]
           /\ leaked' = [leaked EXCEPT ![Eval.shelter] = IF reached THEN @ ELSE @ + 1]
    /\ UNCHANGED <<known, requests, strays>>

(* The evaluation fails before there is a result to keep. *)
FailEval ==
    /\ evals # <<>>
    /\ evals' = Front(evals)
    /\ status' = [status EXCEPT ![Eval.handle] = "failed"]
    /\ UNCHANGED <<known, shelters, rVars, requests, home, pointer, target, leaked, strays>>

DropOne(ptrs, p) == RemoveFirst(ptrs, p)
Emptied(ptrs) == <<>>

(* destroy(): the object is released before its shelter is searched; when  *)
(* it is not there the request fails.                                      *)
DestroyObject ==
    /\ Dispatched("destroy")
    /\ LET s == Head(requests).shelter
           p == pointer[Head(requests).handle]
       IN  /\ precious' = Release(p)
           /\ shelters' = [shelters EXCEPT ![s] =
                             IF p \in ToSet(@) THEN DropOne(@, p) ELSE @]
    /\ UNCHANGED <<known, evals, object, bound, made, status, home, pointer, target, leaked,
                   strays>>

PurgeShelter ==
    /\ Dispatched("purge")
    /\ LET s == Head(requests).shelter
       IN  /\ precious' = ReleaseAll(shelters[s])
           /\ shelters' = [shelters EXCEPT ![s] = Emptied(@)]
           /\ leaked' = [leaked EXCEPT ![s] = 0]
    /\ UNCHANGED <<known, evals, object, bound, made, status, home, pointer, target, strays>>

-----------------------------------------------------------------------------
Next ==
    \/ \E s \in ShelterId : NewShelter(s) \/ Purge(s)
    \/ \E s \in ShelterId, h \in Handle :
         \/ Evaluate("evalR", s, h) \/ Evaluate("captureR", s, h)
         \/ StrayDestroy(s, h)
    \/ \E h \in Handle : Destroy(h)
    \/ \E p \in Ptr : Collect(p) \/ Unbind(p)
    \/ StartEval
    \/ \E p \in Ptr, fails \in BOOLEAN : FinishEval(p, fails)
    \/ FailEval
    \/ DestroyObject
    \/ PurgeShelter

Spec == Init /\ [][Next]_vars

-----------------------------------------------------------------------------
(* As long as applications only destroy references they hold, through the  *)
(* shelter that made them, an object is on R's precious list once for each *)
(* entry of each shelter, however often it was kept.                       *)
Entries(lists, p) == UNION {{s} \X Places(lists[s], p) : s \in ShelterId}
PreciousMatchesShelters ==
    strays = 0 => \A p \in Ptr : precious[p] = Cardinality(Entries(shelters, p))

(* What a reference points to is still the object it was made for.         *)
Alive(h) == object[pointer[h]] = target[h]

(* Under the same discipline, a reference that was neither destroyed nor   *)
(* purged is good: its object has not been freed and its pointer not used  *)
(* for another, whatever was kept, destroyed and purged around it.         *)
HeldReferenceAlive ==
    strays = 0 => \A h \in Handle : status[h] = "held" => Alive(h)

(* A shelter keeps one entry for each reference it gave out, and one for   *)
(* each result that reached nobody: references purged while they were      *)
(* still being computed, captures that failed half way.  size() is that    *)
(* number.                                                                 *)
Destroys(queue, s) == {i \in 1 .. Len(queue) : queue[i].type = "destroy" /\ queue[i].shelter = s}
Held(s) == {h \in Handle : status[h] = "held" /\ home[h] = s}
SizeCountsReferences ==
    strays = 0 =>
        \A s \in ShelterId :
            (\A i \in 1 .. Len(requests) : requests[i].type # "purge" \/ requests[i].shelter # s)
            => Len(shelters[s]) = Cardinality(Held(s)) + Cardinality(Destroys(requests, s)) + leaked[s]

-----------------------------------------------------------------------------
(* What the documentation says: an object is not deleted by R until it has *)
(* been removed from its shelter.                                          *)
NotDeletedWhileSheltered ==
    \A s \in ShelterId : \A p \in ToSet(shelters[s]) : object[p] # 0
====
