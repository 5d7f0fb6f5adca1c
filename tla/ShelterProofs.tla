---- MODULE ShelterProofs ----
(***************************************************************************)
(* Shelters, for any shelters, pointers and references and any nesting of  *)
(* evaluations: the precious list has what the shelters keep, a reference  *)
(* that was not given up is good, and a shelter's size counts references.  *)
(***************************************************************************)
EXTENDS Shelter, FiniteSetTheorems, SequenceTheorems, TLAPS

-----------------------------------------------------------------------------
(* Lists of pointers, and sets counted through them.                       *)

LEMMA FrontLast ==
    ASSUME NEW S, NEW q \in Seq(S), q # <<>>
    PROVE  /\ Len(q) \in Nat /\ Len(q) >= 1 /\ Last(q) = q[Len(q)] /\ Last(q) \in S
           /\ Front(q) \in Seq(S) /\ Len(Front(q)) = Len(q) - 1
           /\ \A i \in 1 .. Len(q) - 1 : Front(q)[i] = q[i]
<1>1. \A i \in 1 .. Len(q) - 1 : q[i] \in S
  OBVIOUS
<1>2. Len(q) \in Nat /\ Len(q) >= 1
  OBVIOUS
<1> DEFINE n == Len(q) - 1
<1>3. n \in Int /\ 1 \in Int /\ \A i \in 1 .. n : q[i] \in S
  BY <1>1, <1>2
<1> HIDE DEF n
<1>4. /\ SubSeq(q, 1, n) \in Seq(S) /\ Len(SubSeq(q, 1, n)) = IF 1 <= n THEN n - 1 + 1 ELSE 0
      /\ \A i \in 1 .. n - 1 + 1 : SubSeq(q, 1, n)[i] = q[1 + i - 1]
  BY <1>3, SubSeqProperties
<1>5. Front(q) = SubSeq(q, 1, n) /\ Last(q) = q[Len(q)]
  BY DEF Front, Last, n
<1>6. n - 1 + 1 = n /\ \A i \in 1 .. n : 1 + i - 1 = i
  BY <1>3
<1>7. Len(Front(q)) = n
  BY <1>2, <1>4, <1>5, <1>6 DEF n
<1>8. \A i \in 1 .. n : Front(q)[i] = q[i]
  BY <1>4, <1>5, <1>6
<1> QED BY <1>2, <1>4, <1>5, <1>7, <1>8 DEF n

(* Two sets have the same cardinality when f pairs their elements. *)
LEMMA Paired ==
    ASSUME NEW S, NEW T, IsFiniteSet(S), NEW f \in [S -> T],
           \A x, y \in S : f[x] = f[y] => x = y,
           \A y \in T : \E x \in S : f[x] = y
    PROVE  IsFiniteSet(T) /\ Cardinality(T) = Cardinality(S)
<1>1. f \in Bijection(S, T)
  BY DEF Bijection, Injection, Surjection, IsInjective
<1> QED BY <1>1, FS_Bijection DEF ExistsBijection

LEMMA DisjointUnion ==
    ASSUME NEW S, NEW T, IsFiniteSet(S), IsFiniteSet(T), S \cap T = {}
    PROVE  IsFiniteSet(S \cup T) /\ Cardinality(S \cup T) = Cardinality(S) + Cardinality(T)
<1>1. Cardinality(S) \in Nat /\ Cardinality(T) \in Nat
  BY FS_CardinalityType
<1>2. Cardinality(S \cap T) = 0
  BY FS_EmptySet
<1>3. /\ IsFiniteSet(S \cup T)
      /\ Cardinality(S \cup T) = Cardinality(S) + Cardinality(T) - Cardinality(S \cap T)
  BY FS_Union
<1> QED BY <1>1, <1>2, <1>3

LEMMA PlacesFinite ==
    ASSUME NEW ptrs \in Seq(Ptr), NEW p
    PROVE  IsFiniteSet(Places(ptrs, p)) /\ Times(ptrs, p) \in Nat
<1>1. IsFiniteSet(1 .. Len(ptrs))
  BY FS_Interval
<1> QED BY <1>1, FS_Subset, FS_CardinalityType DEF Places, Times

LEMMA TimesEmpty == ASSUME NEW p PROVE Times(<<>>, p) = 0
<1>1. Places(<<>>, p) = {}
  BY DEF Places
<1> QED BY <1>1, FS_EmptySet DEF Times

LEMMA TimesAppend ==
    ASSUME NEW ptrs \in Seq(Ptr), NEW p \in Ptr, NEW q
    PROVE  Times(Append(ptrs, p), q) = IF q = p THEN Times(ptrs, q) + 1 ELSE Times(ptrs, q)
<1>1. Places(Append(ptrs, p), q) =
        IF q = p THEN Places(ptrs, q) \cup {Len(ptrs) + 1} ELSE Places(ptrs, q)
  BY DEF Places
<1>2. Len(ptrs) + 1 \notin Places(ptrs, q)
  BY DEF Places
<1> QED BY <1>1, <1>2, PlacesFinite, FS_AddElement DEF Times

LEMMA LeastElement ==
    ASSUME NEW S \in SUBSET Nat, S # {}
    PROVE  Min(S) \in S /\ \A y \in S : Min(S) <= y
<1> DEFINE Less == {pair \in Nat \X Nat : pair[1] < pair[2]}
<1>1. IsWellFoundedOn(Less, Nat)
  BY NatLessThanWellFounded, Zenon DEF OpToRel
<1>2. PICK x \in S : \A y \in S : ~ (<<y, x>> \in Less)
  <2> HIDE DEF Less
  <2> QED BY <1>1, WFMin, Zenon
<1>3. ASSUME NEW y \in S PROVE x <= y
  <2>1. x \in Nat /\ y \in Nat
    OBVIOUS
  <2>2. <<y, x>> \in Nat \X Nat /\ <<y, x>>[1] = y /\ <<y, x>>[2] = x
    BY <2>1
  <2>3. ~ (y < x)
    BY <1>2, <2>2
  <2> QED BY <2>1, <2>3
<1> QED BY <1>2, <1>3 DEF Min

(* destroy() takes one entry of the pointer out of the list. *)
LEMMA DropShape ==
    ASSUME NEW ptrs \in Seq(Ptr), NEW p \in Ptr, p \in ToSet(ptrs)
    PROVE  \E k \in Places(ptrs, p) :
             /\ DropOne(ptrs, p) \in Seq(Ptr) /\ Len(DropOne(ptrs, p)) = Len(ptrs) - 1
             /\ \A i \in 1 .. Len(ptrs) - 1 :
                  DropOne(ptrs, p)[i] = IF i < k THEN ptrs[i] ELSE ptrs[i + 1]
<1> DEFINE k == Min(Places(ptrs, p))
<1>1. Places(ptrs, p) # {} /\ Places(ptrs, p) \in SUBSET Nat
  BY DEF Places, ToSet
<1>2. k \in Places(ptrs, p)
  BY <1>1, LeastElement
<1>3. DropOne(ptrs, p) = SubSeq(ptrs, 1, k - 1) \o SubSeq(ptrs, k + 1, Len(ptrs))
  BY <1>1 DEF DropOne, RemoveFirst, RemoveAt, SelectInSeq, Places
<1> HIDE DEF k
<1>4. k \in 1 .. Len(ptrs)
  BY <1>2 DEF Places
<1>5. /\ SubSeq(ptrs, 1, k - 1) \in Seq(Ptr) /\ Len(SubSeq(ptrs, 1, k - 1)) = k - 1
      /\ \A i \in 1 .. k - 1 : SubSeq(ptrs, 1, k - 1)[i] = ptrs[i]
  BY <1>4
<1>6. /\ SubSeq(ptrs, k + 1, Len(ptrs)) \in Seq(Ptr)
      /\ Len(SubSeq(ptrs, k + 1, Len(ptrs))) = Len(ptrs) - k
      /\ \A i \in 1 .. Len(ptrs) - k : SubSeq(ptrs, k + 1, Len(ptrs))[i] = ptrs[k + i]
  BY <1>4
<1> DEFINE a == SubSeq(ptrs, 1, k - 1)
           b == SubSeq(ptrs, k + 1, Len(ptrs))
<1> HIDE DEF a, b
<1>7. /\ a \in Seq(Ptr) /\ Len(a) = k - 1 /\ \A i \in 1 .. k - 1 : a[i] = ptrs[i]
      /\ b \in Seq(Ptr) /\ Len(b) = Len(ptrs) - k /\ \A i \in 1 .. Len(ptrs) - k : b[i] = ptrs[k + i]
  BY <1>5, <1>6 DEF a, b
<1>8. /\ a \o b \in Seq(Ptr) /\ Len(a \o b) = Len(a) + Len(b)
      /\ \A i \in 1 .. Len(a) + Len(b) : (a \o b)[i] = IF i <= Len(a) THEN a[i] ELSE b[i - Len(a)]
  BY <1>7, ConcatProperties
<1>9. Len(a \o b) = Len(ptrs) - 1
  BY <1>4, <1>7, <1>8
<1>10. ASSUME NEW i \in 1 .. Len(ptrs) - 1
       PROVE  (a \o b)[i] = IF i < k THEN ptrs[i] ELSE ptrs[i + 1]
  <2>1. CASE i < k
    BY <1>4, <1>7, <1>8, <2>1
  <2>2. CASE i >= k
    <3>1. i - (k - 1) \in 1 .. Len(ptrs) - k /\ k + (i - (k - 1)) = i + 1
      BY <1>4, <2>2
    <3>2. i \in 1 .. Len(a) + Len(b) /\ ~ (i <= Len(a)) /\ i - Len(a) = i - (k - 1)
      BY <1>4, <1>7, <2>2
    <3>3. (a \o b)[i] = b[i - (k - 1)]
      BY <1>8, <3>2
    <3>4. b[i - (k - 1)] = ptrs[i + 1]
      BY <1>7, <3>1
    <3> QED BY <1>4, <2>2, <3>3, <3>4
  <2>3. i < k \/ i >= k
    BY <1>4
  <2> QED BY <2>1, <2>2, <2>3
<1> QED BY <1>2, <1>3, <1>8, <1>9, <1>10 DEF a, b

LEMMA TimesDrop ==
    ASSUME NEW ptrs \in Seq(Ptr), NEW p \in Ptr, p \in ToSet(ptrs), NEW q
    PROVE  Times(DropOne(ptrs, p), q) = IF q = p THEN Times(ptrs, q) - 1 ELSE Times(ptrs, q)
<1>1. PICK k \in Places(ptrs, p) :
        /\ DropOne(ptrs, p) \in Seq(Ptr) /\ Len(DropOne(ptrs, p)) = Len(ptrs) - 1
        /\ \A i \in 1 .. Len(ptrs) - 1 :
             DropOne(ptrs, p)[i] = IF i < k THEN ptrs[i] ELSE ptrs[i + 1]
  BY DropShape
<1> DEFINE r == DropOne(ptrs, p)
           S == Places(r, q)
           T == Places(ptrs, q) \ {k}
           f == [i \in S |-> IF i < k THEN i ELSE i + 1]
<1> HIDE DEF r
<1>0. k \in 1 .. Len(ptrs) /\ ptrs[k] = p
  BY DEF Places
<1>2. /\ r \in Seq(Ptr) /\ Len(r) = Len(ptrs) - 1
      /\ \A i \in 1 .. Len(ptrs) - 1 : r[i] = IF i < k THEN ptrs[i] ELSE ptrs[i + 1]
  BY <1>1 DEF r
<1>3. f \in [S -> T]
  BY <1>0, <1>2 DEF Places
<1>4. \A x, y \in S : f[x] = f[y] => x = y
  BY <1>0 DEF Places
<1>5. \A y \in T : \E x \in S : f[x] = y
  <2> TAKE y \in T
  <2>1. y \in 1 .. Len(ptrs) /\ y # k /\ ptrs[y] = q
    BY DEF Places
  <2>2. CASE y < k
    <3>1. y \in S
      BY <1>0, <1>2, <2>1, <2>2 DEF Places
    <3> QED BY <2>2, <3>1
  <2>3. CASE y > k
    <3>1. y - 1 \in S
      BY <1>0, <1>2, <2>1, <2>3 DEF Places
    <3>2. f[y - 1] = y
      BY <1>0, <2>1, <2>3, <3>1
    <3> QED BY <3>1, <3>2
  <2> QED BY <1>0, <2>1, <2>2, <2>3
<1>6. IsFiniteSet(S) /\ IsFiniteSet(Places(ptrs, q))
  BY <1>2, PlacesFinite
<1>7. Cardinality(T) = Cardinality(S)
  <2> HIDE DEF f, S, T
  <2> QED BY <1>3, <1>4, <1>5, <1>6, Paired
<1>8. k \in Places(ptrs, q) <=> q = p
  BY <1>0 DEF Places
<1>9. Cardinality(T) = IF q = p THEN Times(ptrs, q) - 1 ELSE Times(ptrs, q)
  BY <1>6, <1>8, FS_RemoveElement DEF Times
<1> QED BY <1>7, <1>9 DEF Times, r

(* Changing one list changes the entries by as much as that list.          *)
Shifts(f, g, s, p) ==
    /\ IsFiniteSet(Entries(g, p))
    /\ \E others \in Nat : /\ Cardinality(Entries(f, p)) = others + Times(f[s], p)
                           /\ Cardinality(Entries(g, p)) = others + Times(g[s], p)

LEMMA EntriesShift ==
    ASSUME NEW f \in [ShelterId -> Seq(Ptr)], NEW g \in [ShelterId -> Seq(Ptr)], NEW s \in ShelterId,
           \A t \in ShelterId \ {s} : g[t] = f[t], NEW p, IsFiniteSet(Entries(f, p))
    PROVE  Shifts(f, g, s, p)
<1> DEFINE Others == Entries(f, p) \ ({s} \X Nat)
           Own(ptrs) == {s} \X Places(ptrs, p)
<1>1. ASSUME NEW ptrs \in Seq(Ptr)
      PROVE  IsFiniteSet(Own(ptrs)) /\ Cardinality(Own(ptrs)) = Times(ptrs, p)
  <2> DEFINE h == [i \in Places(ptrs, p) |-> <<s, i>>]
  <2>1. IsFiniteSet(Places(ptrs, p))
    BY PlacesFinite
  <2>2. h \in [Places(ptrs, p) -> Own(ptrs)]
    OBVIOUS
  <2>3. \A x, y \in Places(ptrs, p) : h[x] = h[y] => x = y
    OBVIOUS
  <2>4. \A y \in Own(ptrs) : \E x \in Places(ptrs, p) : h[x] = y
    OBVIOUS
  <2> HIDE DEF h, Own
  <2> QED BY <2>1, <2>2, <2>3, <2>4, Paired DEF Times
<1>2. Entries(f, p) = Others \cup Own(f[s]) /\ Others \cap Own(f[s]) = {}
  BY DEF Entries, Places
<1>3. Entries(g, p) = Others \cup Own(g[s]) /\ Others \cap Own(g[s]) = {}
  BY DEF Entries, Places
<1>4. IsFiniteSet(Others)
  BY FS_Subset
<1> HIDE DEF Own, Others
<1>5. /\ IsFiniteSet(Own(f[s])) /\ Cardinality(Own(f[s])) = Times(f[s], p)
      /\ IsFiniteSet(Own(g[s])) /\ Cardinality(Own(g[s])) = Times(g[s], p)
  BY <1>1
<1>6. Cardinality(Others) \in Nat
  BY <1>4, FS_CardinalityType
<1>7. Cardinality(Entries(f, p)) = Cardinality(Others) + Times(f[s], p)
  <2>1. Cardinality(Others \cup Own(f[s])) = Cardinality(Others) + Cardinality(Own(f[s]))
    BY <1>2, <1>4, <1>5, DisjointUnion
  <2> QED BY <1>2, <1>5, <2>1
<1>8. /\ IsFiniteSet(Entries(g, p))
      /\ Cardinality(Entries(g, p)) = Cardinality(Others) + Times(g[s], p)
  <2>1. /\ IsFiniteSet(Others \cup Own(g[s]))
        /\ Cardinality(Others \cup Own(g[s])) = Cardinality(Others) + Cardinality(Own(g[s]))
    BY <1>3, <1>4, <1>5, DisjointUnion
  <2> QED BY <1>3, <1>5, <2>1
<1> QED BY <1>6, <1>7, <1>8 DEF Shifts

-----------------------------------------------------------------------------
(* Requests and references.                                                *)

IsEval(r) == r.type \in {"evalR", "captureR"}
IsDestroy(r) == r.type = "destroy"
IsPurge(r, s) == r.type = "purge" /\ r.shelter = s

(* Requests are of shelters there are. *)
KnownInv ==
    /\ \A i \in 1 .. Len(requests) : requests[i].shelter \in known
    /\ \A i \in 1 .. Len(evals) : evals[i].shelter \in known

(* A reference that an evaluation is to give has no pointer yet. *)
Open(st, ptr, h) == h \in Handle /\ st[h] \in {"pending", "gone"} /\ ptr[h] = None

(* Each evaluation gives a reference of its own; a reference that was given *)
(* has a pointer.                                                           *)
OpenInv ==
    /\ \A i \in 1 .. Len(requests) : IsEval(requests[i]) => Open(status, pointer, requests[i].handle)
    /\ \A i \in 1 .. Len(evals) : IsEval(evals[i]) /\ Open(status, pointer, evals[i].handle)
    /\ \A i, j \in 1 .. Len(requests) :
         (IsEval(requests[i]) /\ IsEval(requests[j]) /\ requests[i].handle = requests[j].handle) => i = j
    /\ \A i, j \in 1 .. Len(evals) : evals[i].handle = evals[j].handle => i = j
    /\ \A i \in 1 .. Len(requests), j \in 1 .. Len(evals) :
         IsEval(requests[i]) => requests[i].handle # evals[j].handle
PointerInv ==
    /\ \A h \in Handle : /\ status[h] = "unused" => pointer[h] = None
                         /\ status[h] = "held" => pointer[h] \in Ptr /\ home[h] \in ShelterId
    /\ \A i \in 1 .. Len(requests) : IsDestroy(requests[i]) => pointer[requests[i].handle] \in Ptr
RefInv == OpenInv /\ PointerInv

(* What follows is about applications that destroy references they hold.    *)
(* A reference is destroyed once, by its shelter.  Once a purge has been    *)
(* asked for, no reference of the shelter is held, none is destroyed, and   *)
(* none is given by an evaluation asked for before.                         *)
OwnInv ==
    /\ \A i \in 1 .. Len(requests) :
         IsDestroy(requests[i]) => /\ status[requests[i].handle] = "gone"
                                   /\ home[requests[i].handle] = requests[i].shelter
    /\ \A i, j \in 1 .. Len(requests) :
         IsDestroy(requests[i]) /\ IsDestroy(requests[j]) /\ requests[i].handle = requests[j].handle
             => i = j
PurgeInv ==
    \A s \in ShelterId, i \in 1 .. Len(requests) :
        IsPurge(requests[i], s) =>
            /\ \A h \in Handle : status[h] = "held" => home[h] # s
            /\ \A j \in i + 1 .. Len(requests) : IsDestroy(requests[j]) => requests[j].shelter # s
            /\ \A j \in 1 .. i - 1 : (IsEval(requests[j]) /\ requests[j].shelter = s)
                                         => status[requests[j].handle] # "pending"
            /\ \A j \in 1 .. Len(evals) : evals[j].shelter = s => status[evals[j].handle] # "pending"

(* A reference is good for an entry of its shelter until its destroy() is   *)
(* dispatched.                                                              *)
DestroyQueued(h) == \E i \in 1 .. Len(requests) : IsDestroy(requests[i]) /\ requests[i].handle = h
Claims(s, p) ==
    {h \in Handle : (status[h] = "held" \/ DestroyQueued(h)) /\ home[h] = s /\ pointer[h] = p}
ClaimInv ==
    \A s \in ShelterId, p \in Ptr :
        IsFiniteSet(Claims(s, p)) /\ Cardinality(Claims(s, p)) <= Times(shelters[s], p)
EntryInv ==
    \A p \in Ptr : IsFiniteSet(Entries(shelters, p)) /\ precious[p] = Cardinality(Entries(shelters, p))
AliveInv == \A h \in Handle : status[h] = "held" => Alive(h) /\ target[h] # 0
NoPurge(queue, s) == \A i \in 1 .. Len(queue) : ~ IsPurge(queue[i], s)
Counted(s) ==
    /\ IsFiniteSet(Held(s))
    /\ NoPurge(requests, s)
         => Len(shelters[s]) = Cardinality(Held(s)) + Cardinality(Destroys(requests, s)) + leaked[s]
SizeInv == \A s \in ShelterId : Counted(s)
Disciplined == strays = 0 => OwnInv /\ PurgeInv /\ ClaimInv /\ EntryInv /\ AliveInv /\ SizeInv

-----------------------------------------------------------------------------
(* Types, and what steps do to the queue and the stack of evaluations.     *)

(* A step that adds r to the queue, and one that takes its first request.  *)
Adds(r) ==
    /\ Len(requests') = Len(requests) + 1 /\ requests'[Len(requests) + 1] = r
    /\ \A i \in 1 .. Len(requests) : requests'[i] = requests[i]
Takes ==
    /\ requests # <<>> /\ Len(requests) >= 1 /\ Head(requests) = requests[1]
    /\ Len(requests') = Len(requests) - 1
    /\ \A i \in 1 .. Len(requests') : requests'[i] = requests[i + 1]

LEMMA IssueShape ==
    ASSUME TypeOK, NEW type \in {"evalR", "captureR", "purge", "destroy"}, NEW s \in known,
           NEW h \in Handle \cup {None}, type = "destroy" => h \in Handle, Issue(type, s, h)
    PROVE  /\ [type |-> type, shelter |-> s, handle |-> h] \in Request
           /\ requests' \in Seq(Request)
           /\ Adds([type |-> type, shelter |-> s, handle |-> h])
           /\ UNCHANGED <<workerVars, rVars, home, pointer, target, leaked>>
<1> DEFINE r == [type |-> type, shelter |-> s, handle |-> h]
<1>1. s \in ShelterId /\ requests \in Seq(Request)
  BY DEF TypeOK
<1>2. r \in Request
  BY <1>1 DEF Request
<1>3. requests' = Append(requests, r)
  BY DEF Issue
<1> HIDE DEF r
<1>4. /\ Append(requests, r) \in Seq(Request) /\ Len(Append(requests, r)) = Len(requests) + 1
      /\ \A i \in 1 .. Len(requests) : Append(requests, r)[i] = requests[i]
      /\ Append(requests, r)[Len(requests) + 1] = r
  BY <1>1, <1>2, AppendProperties
<1>5. UNCHANGED <<workerVars, rVars, home, pointer, target, leaked>>
  BY DEF Issue
<1> QED BY <1>2, <1>3, <1>4, <1>5 DEF Adds, r

LEMMA TakeShape ==
    ASSUME TypeOK, NEW type, Dispatched(type)
    PROVE  /\ requests' \in Seq(Request) /\ Takes
           /\ Head(requests) \in Request /\ Head(requests).type = type
<1>1. requests \in Seq(Request) /\ requests # <<>> /\ requests' = Tail(requests)
  BY DEF TypeOK, Dispatched
<1>2. Len(requests) \in Nat /\ Len(requests) >= 1 /\ Head(requests) = requests[1]
  BY <1>1
<1>3. requests[1] \in Request
  BY <1>1, <1>2
<1>4. /\ Tail(requests) \in Seq(Request) /\ Len(Tail(requests)) = Len(requests) - 1
      /\ \A i \in 1 .. Len(requests) - 1 : Tail(requests)[i] = requests[i + 1]
  BY <1>1, <1>2
<1> QED BY <1>1, <1>2, <1>3, <1>4 DEF Takes, Dispatched

(* The evaluation that ends is the innermost. *)
LEMMA EvalShape ==
    ASSUME TypeOK, evals # <<>>, evals' = Front(evals)
    PROVE  /\ evals' \in Seq(Request) /\ Len(evals) \in Nat /\ Len(evals) >= 1
           /\ Eval = evals[Len(evals)] /\ Eval \in Request /\ Eval.shelter \in ShelterId
           /\ Len(evals') = Len(evals) - 1
           /\ \A i \in 1 .. Len(evals') : evals'[i] = evals[i]
<1>1. /\ Len(evals) \in Nat /\ Len(evals) >= 1 /\ Last(evals) = evals[Len(evals)] /\ Last(evals) \in Request
      /\ Front(evals) \in Seq(Request) /\ Len(Front(evals)) = Len(evals) - 1
      /\ \A i \in 1 .. Len(evals) - 1 : Front(evals)[i] = evals[i]
  BY FrontLast DEF TypeOK
<1>2. Eval \in Request => Eval.shelter \in ShelterId
  BY DEF Request
<1> QED BY <1>1, <1>2 DEF Eval

KnownTypes ==
    /\ known \subseteq ShelterId
    /\ shelters \in [ShelterId -> Seq(Ptr)]
    /\ \A s \in ShelterId \ known : shelters[s] = <<>>
RTypes ==
    /\ precious \in [Ptr -> Nat]
    /\ object \in [Ptr -> 0 .. MaxObjects]
    /\ bound \subseteq Ptr
    /\ made \in 0 .. MaxObjects
MainTypes ==
    /\ status \in [Handle -> Status]
    /\ home \in [Handle -> ShelterId \cup {None}]
    /\ pointer \in [Handle -> Ptr \cup {None}]
    /\ target \in [Handle -> 0 .. MaxObjects]
CountTypes == leaked \in [ShelterId -> Nat] /\ strays \in 0 .. MaxStrays

LEMMA TypeParts ==
    TypeOK <=> /\ KnownTypes /\ RTypes /\ MainTypes /\ CountTypes
               /\ evals \in Seq(Request) /\ requests \in Seq(Request)
BY DEF TypeOK, KnownTypes, RTypes, MainTypes, CountTypes

(* The application's steps. *)
LEMMA UserTypes ==
    ASSUME ShelterAssumption, TypeOK,
           \/ \E s \in ShelterId : NewShelter(s) \/ Purge(s)
           \/ \E s \in ShelterId, h \in Handle :
                \/ Evaluate("evalR", s, h) \/ Evaluate("captureR", s, h)
                \/ StrayDestroy(s, h)
           \/ \E h \in Handle : Destroy(h)
    PROVE  TypeOK'
<1> USE DEF Status
<1>1. ASSUME NEW s \in ShelterId, NewShelter(s) PROVE TypeOK'
  BY <1>1 DEF TypeOK, NewShelter, rVars, mainVars
<1>2. ASSUME NEW type \in {"evalR", "captureR", "purge", "destroy"}, NEW s \in known,
             NEW h \in Handle \cup {None}, type = "destroy" => h \in Handle, Issue(type, s, h),
             status' \in [Handle -> Status], strays' \in 0 .. MaxStrays
      PROVE  TypeOK'
  <2>1. requests' \in Seq(Request) /\ UNCHANGED <<workerVars, rVars, home, pointer, target, leaked>>
    BY <1>2, IssueShape
  <2> QED BY <1>2, <2>1 DEF TypeOK, workerVars, rVars
<1>3. ASSUME NEW s \in ShelterId, Purge(s) PROVE TypeOK'
  <2>1. status' \in [Handle -> Status] /\ strays' \in 0 .. MaxStrays
    BY <1>3 DEF Purge, TypeOK
  <2> QED BY <1>2, <1>3, <2>1 DEF Purge, Issue
<1>4. ASSUME NEW s \in ShelterId, NEW h \in Handle, NEW type \in {"evalR", "captureR"},
             Evaluate(type, s, h)
      PROVE  TypeOK'
  <2>1. status' \in [Handle -> Status] /\ strays' \in 0 .. MaxStrays
    BY <1>4 DEF Evaluate, TypeOK
  <2> QED BY <1>2, <1>4, <2>1 DEF Evaluate, Issue
<1>5. ASSUME NEW h \in Handle, NEW s, Issue("destroy", s, h), strays' \in 0 .. MaxStrays,
             status' \in [Handle -> Status]
      PROVE  TypeOK'
  BY <1>2, <1>5 DEF Issue
<1>6. ASSUME NEW s \in ShelterId, NEW h \in Handle, StrayDestroy(s, h) PROVE TypeOK'
  <2>1. strays' \in 0 .. MaxStrays /\ status' \in [Handle -> Status]
    BY <1>6 DEF StrayDestroy, TypeOK, ShelterAssumption
  <2> QED BY <1>5, <1>6, <2>1 DEF StrayDestroy
<1>7. ASSUME NEW h \in Handle, Destroy(h) PROVE TypeOK'
  <2>1. strays' \in 0 .. MaxStrays /\ status' \in [Handle -> Status]
    BY <1>7 DEF Destroy, TypeOK
  <2> QED BY <1>5, <1>7, <2>1 DEF Destroy
<1> QED BY <1>1, <1>3, <1>4, <1>6, <1>7

(* R's result: the objects and bindings it leaves. *)
LEMMA ResultTypes ==
    ASSUME ShelterAssumption, RTypes, NEW p \in Ptr, MakeResult(p)
    PROVE  /\ object' \in [Ptr -> 0 .. MaxObjects] /\ bound' \subseteq Ptr /\ made' \in 0 .. MaxObjects
           /\ object'[p] # 0
           /\ \A q \in Ptr : object[q] # 0 => object'[q] = object[q]
BY DEF MakeResult, Result, Fresh, RTypes, ShelterAssumption

(* An evaluation with a result: the innermost ends, its result is kept, and *)
(* the reference it was for, if it is still wanted, is held.                *)
Reached(h, fails) == status[h] = "pending" /\ ~ fails
LEMMA FinishShape ==
    ASSUME ShelterAssumption, TypeOK, KnownInv, NEW p \in Ptr, NEW fails \in BOOLEAN, FinishEval(p, fails)
    PROVE  LET h == Eval.handle
               s == Eval.shelter
           IN  /\ evals # <<>> /\ evals' = Front(evals) /\ s \in known /\ s \in ShelterId
               /\ UNCHANGED <<known, requests, strays>>
               /\ shelters' = [shelters EXCEPT ![s] = Append(shelters[s], p)]
               /\ precious' = [precious EXCEPT ![p] = precious[p] + 1]
               /\ MakeResult(p)
               /\ status' = [status EXCEPT ![h] = IF Reached(h, fails) THEN "held"
                                                  ELSE IF fails THEN "failed" ELSE status[h]]
               /\ home' = [home EXCEPT ![h] = s]
               /\ pointer' = [pointer EXCEPT ![h] = IF fails THEN None ELSE p]
               /\ target' = [target EXCEPT ![h] = object'[p]]
               /\ leaked' = [leaked EXCEPT ![s] = IF Reached(h, fails) THEN leaked[s] ELSE leaked[s] + 1]
<1>1. evals' \in Seq(Request) /\ Eval.shelter \in ShelterId /\ Len(evals) >= 1 /\ Eval = evals[Len(evals)]
  BY EvalShape DEF FinishEval
<1>2. Eval.shelter \in known
  BY <1>1 DEF KnownInv, TypeOK
<1>3. /\ evals # <<>> /\ evals' = Front(evals) /\ UNCHANGED <<known, requests, strays>>
      /\ Keep(Eval.shelter, p) /\ MakeResult(p)
  BY DEF FinishEval
<1>4. LET h == Eval.handle
          s == Eval.shelter
      IN  /\ status' = [status EXCEPT ![h] = IF Reached(h, fails) THEN "held"
                                             ELSE IF fails THEN "failed" ELSE status[h]]
          /\ home' = [home EXCEPT ![h] = s]
          /\ pointer' = [pointer EXCEPT ![h] = IF fails THEN None ELSE p]
          /\ target' = [target EXCEPT ![h] = object'[p]]
          /\ leaked' = [leaked EXCEPT ![s] = IF Reached(h, fails) THEN leaked[s] ELSE leaked[s] + 1]
  BY DEF FinishEval, Reached
<1> QED BY <1>1, <1>2, <1>3, <1>4 DEF Keep, Preserve

LEMMA WorkerTypes ==
    ASSUME ShelterAssumption, TypeOK, KnownInv,
           \/ \E p \in Ptr : Collect(p) \/ Unbind(p)
           \/ StartEval
           \/ \E p \in Ptr, fails \in BOOLEAN : FinishEval(p, fails)
           \/ FailEval \/ DestroyObject \/ PurgeShelter
    PROVE  TypeOK'
<1> USE DEF Status
<1>0. /\ KnownTypes /\ RTypes /\ MainTypes /\ CountTypes
      /\ evals \in Seq(Request) /\ requests \in Seq(Request)
  BY TypeParts
<1>1. ASSUME NEW p \in Ptr, Collect(p) \/ Unbind(p) PROVE TypeOK'
  <2>1. /\ UNCHANGED <<workerVars, precious, made, mainVars, leaked, strays>>
        /\ object' = object \/ object' = [object EXCEPT ![p] = 0]
        /\ bound' \subseteq bound
    BY <1>1 DEF Collect, Unbind
  <2>2. object' \in [Ptr -> 0 .. MaxObjects]
    <3>1. 0 \in 0 .. MaxObjects
      BY DEF ShelterAssumption
    <3>2. object \in [Ptr -> 0 .. MaxObjects]
      BY <1>0 DEF RTypes
    <3> QED BY <2>1, <3>1, <3>2
  <2> QED BY <2>1, <2>2 DEF TypeOK, workerVars, mainVars
<1>2. ASSUME StartEval PROVE TypeOK'
  <2>1. requests' \in Seq(Request) /\ Head(requests) \in Request
    BY <1>2, TakeShape DEF StartEval
  <2>2. evals' \in Seq(Request)
    BY <1>0, <1>2, <2>1 DEF StartEval
  <2> QED BY <1>2, <2>1, <2>2 DEF StartEval, TypeOK, rVars
<1>3. ASSUME NEW p \in Ptr, NEW fails \in BOOLEAN, FinishEval(p, fails) PROVE TypeOK'
  <2> DEFINE h == Eval.handle
             s == Eval.shelter
  <2>1. /\ evals # <<>> /\ evals' = Front(evals) /\ s \in known /\ s \in ShelterId
        /\ UNCHANGED <<known, requests, strays>>
        /\ shelters' = [shelters EXCEPT ![s] = Append(shelters[s], p)]
        /\ precious' = [precious EXCEPT ![p] = precious[p] + 1]
        /\ MakeResult(p)
    BY <1>3, FinishShape
  <2>2. /\ status' = [status EXCEPT ![h] = IF Reached(h, fails) THEN "held"
                                           ELSE IF fails THEN "failed" ELSE status[h]]
        /\ home' = [home EXCEPT ![h] = s]
        /\ pointer' = [pointer EXCEPT ![h] = IF fails THEN None ELSE p]
        /\ target' = [target EXCEPT ![h] = object'[p]]
        /\ leaked' = [leaked EXCEPT ![s] = IF Reached(h, fails) THEN leaked[s] ELSE leaked[s] + 1]
    BY <1>3, FinishShape
  <2> HIDE DEF h, s
  <2>3. evals' \in Seq(Request)
    BY <2>1, EvalShape
  <2>4. object' \in [Ptr -> 0 .. MaxObjects] /\ bound' \subseteq Ptr /\ made' \in 0 .. MaxObjects
    BY <1>0, <2>1, ResultTypes
  <2>5. RTypes'
    <3>1. precious \in [Ptr -> Nat] /\ precious[p] + 1 \in Nat
      BY <1>0 DEF RTypes
    <3>2. precious' \in [Ptr -> Nat]
      BY <2>1, <3>1
    <3> QED BY <2>4, <3>2 DEF RTypes
  <2>6. KnownTypes'
    BY <1>0, <2>1 DEF KnownTypes
  <2>7. MainTypes'
    <3>1. object'[p] \in 0 .. MaxObjects
      BY <2>4
    <3> QED BY <1>0, <2>1, <2>2, <3>1 DEF MainTypes
  <2>8. CountTypes'
    BY <1>0, <2>1, <2>2 DEF CountTypes
  <2> QED BY <1>0, <2>1, <2>3, <2>5, <2>6, <2>7, <2>8 DEF RTypes, TypeOK, KnownTypes, MainTypes, CountTypes
<1>4. ASSUME FailEval PROVE TypeOK'
  <2>1. evals' \in Seq(Request)
    BY <1>4, EvalShape DEF FailEval
  <2> QED BY <1>4, <2>1 DEF FailEval, TypeOK, rVars
<1>5. ASSUME DestroyObject PROVE TypeOK'
  <2>1. requests' \in Seq(Request)
    BY <1>5, TakeShape DEF DestroyObject
  <2> DEFINE s == Head(requests).shelter
             p == pointer[Head(requests).handle]
  <2>2. /\ precious' = Release(p)
        /\ shelters' = [shelters EXCEPT ![s] = IF p \in ToSet(@) THEN DropOne(@, p) ELSE @]
        /\ UNCHANGED <<known, evals, object, bound, made, status, home, pointer, target, leaked, strays>>
    BY <1>5 DEF DestroyObject
  <2> HIDE DEF s, p
  <2>3. precious' \in [Ptr -> Nat]
    <3>1. ASSUME NEW q \in Ptr PROVE precious'[q] \in Nat
      BY <1>0, <2>2 DEF Release, RTypes
    <3>2. precious' = [q \in Ptr |-> precious'[q]]
      BY <1>0, <2>2 DEF Release, RTypes
    <3> QED BY <3>1, <3>2
  <2>4. ASSUME NEW t \in ShelterId
        PROVE  shelters'[t] \in Seq(Ptr) /\ (t \notin known => shelters'[t] = <<>>)
    <3>1. shelters[t] \in Seq(Ptr) /\ (t \notin known => shelters[t] = <<>>)
      BY <1>0 DEF KnownTypes
    <3>2. CASE shelters'[t] = shelters[t]
      BY <3>1, <3>2
    <3>3. CASE p \in ToSet(shelters[t]) /\ shelters'[t] = DropOne(shelters[t], p)
      <4>1. p \in Ptr /\ shelters[t] # <<>>
        BY <3>1, <3>3 DEF ToSet
      <4> QED BY <3>1, <3>3, <4>1, DropShape
    <3> QED BY <1>0, <2>2, <3>2, <3>3 DEF KnownTypes
  <2>5. shelters' \in [ShelterId -> Seq(Ptr)]
    BY <1>0, <2>2, <2>4 DEF KnownTypes
  <2> QED BY <2>1, <2>2, <2>3, <2>4, <2>5 DEF TypeOK
<1>6. ASSUME PurgeShelter PROVE TypeOK'
  <2>1. requests' \in Seq(Request) /\ Head(requests) \in Request
    BY <1>6, TakeShape DEF PurgeShelter
  <2> DEFINE s == Head(requests).shelter
  <2>2. s \in ShelterId
    BY <2>1 DEF Request
  <2>3. /\ precious' = ReleaseAll(shelters[s])
        /\ shelters' = [shelters EXCEPT ![s] = <<>>] /\ leaked' = [leaked EXCEPT ![s] = 0]
        /\ UNCHANGED <<known, evals, object, bound, made, status, home, pointer, target, strays>>
    BY <1>6 DEF PurgeShelter, Emptied
  <2> HIDE DEF s
  <2>4. \A p \in Ptr : Times(shelters[s], p) \in Nat
    BY <1>0, <2>2, PlacesFinite DEF KnownTypes
  <2>5. precious' \in [Ptr -> Nat]
    BY <1>0, <2>3, <2>4 DEF ReleaseAll, RTypes
  <2>6. KnownTypes'
    BY <1>0, <2>2, <2>3 DEF KnownTypes
  <2>7. CountTypes'
    BY <1>0, <2>3 DEF CountTypes
  <2> QED BY <2>1, <2>3, <2>5, <2>6, <2>7 DEF TypeOK, KnownTypes, CountTypes
<1> QED BY <1>1, <1>2, <1>3, <1>4, <1>5, <1>6

LEMMA KnownKept ==
    ASSUME TypeOK, KnownInv, [Next]_vars
    PROVE  KnownInv'
<1>1. CASE UNCHANGED vars
  BY <1>1 DEF KnownInv, vars, workerVars, mainVars
<1>2. ASSUME NEW type \in {"evalR", "captureR", "purge", "destroy"}, NEW s,
             NEW h \in Handle \cup {None}, type = "destroy" => h \in Handle, Issue(type, s, h)
      PROVE  KnownInv'
  <2>1. s \in known /\ known' = known /\ evals' = evals
    BY <1>2 DEF Issue, workerVars
  <2>2. Adds([type |-> type, shelter |-> s, handle |-> h])
    BY <1>2, <2>1, IssueShape
  <2>3. Len(requests) \in Nat
    BY DEF TypeOK
  <2> QED BY <2>1, <2>2, <2>3 DEF KnownInv, Adds
<1>3. ASSUME NEW type, Dispatched(type), known' = known,
             evals' = evals \/ evals' = Append(evals, Head(requests))
      PROVE  KnownInv'
  <2>1. Takes
    BY <1>3, TakeShape
  <2>2. evals \in Seq(Request) /\ Len(evals) \in Nat /\ Len(requests) \in Nat
    BY DEF TypeOK
  <2>3. \A i \in 1 .. Len(requests') : requests'[i].shelter \in known
    BY <2>1, <2>2 DEF Takes, KnownInv
  <2>4. Head(requests).shelter \in known
    BY <2>1, <2>2 DEF Takes, KnownInv
  <2>5. \A i \in 1 .. Len(evals') : evals'[i].shelter \in known
    BY <1>3, <2>2, <2>4 DEF KnownInv
  <2> QED BY <1>3, <2>3, <2>5 DEF KnownInv
<1>4. ASSUME evals # <<>>, evals' = Front(evals), UNCHANGED <<known, requests>> PROVE KnownInv'
  <2>1. Len(evals) \in Nat /\ Len(evals') = Len(evals) - 1 /\ \A i \in 1 .. Len(evals') : evals'[i] = evals[i]
    BY <1>4, EvalShape
  <2> QED BY <1>4, <2>1 DEF KnownInv
<1>5. ASSUME NEW s \in ShelterId, NewShelter(s) PROVE KnownInv'
  BY <1>5 DEF NewShelter, KnownInv, mainVars
<1>6. ASSUME NEW s \in ShelterId, Purge(s) PROVE KnownInv'
  BY <1>2, <1>6 DEF Purge
<1>7. ASSUME NEW s \in ShelterId, NEW h \in Handle,
             \/ Evaluate("evalR", s, h) \/ Evaluate("captureR", s, h)
             \/ StrayDestroy(s, h) \/ Destroy(h)
      PROVE  KnownInv'
  BY <1>2, <1>7 DEF Evaluate, StrayDestroy, Destroy
<1>8. ASSUME NEW p \in Ptr, Collect(p) \/ Unbind(p) PROVE KnownInv'
  BY <1>8 DEF Collect, Unbind, KnownInv, workerVars, mainVars
<1>9. ASSUME StartEval \/ DestroyObject \/ PurgeShelter PROVE KnownInv'
  BY <1>3, <1>9 DEF StartEval, DestroyObject, PurgeShelter
<1>10. ASSUME FailEval \/ \E p \in Ptr, fails \in BOOLEAN : FinishEval(p, fails) PROVE KnownInv'
  BY <1>4, <1>10 DEF FailEval, FinishEval
<1>11. ASSUME NEW h \in Handle, Destroy(h) PROVE KnownInv'
  BY <1>2, <1>11 DEF Destroy
<1> QED BY <1>1, <1>5, <1>6, <1>7, <1>8, <1>9, <1>10, <1>11 DEF Next

LEMMA ShelterInitial == ShelterAssumption /\ Init => TypeOK /\ KnownInv
<1> SUFFICES ASSUME ShelterAssumption, Init PROVE TypeOK /\ KnownInv
  OBVIOUS
<1>1. <<>> \in Seq(Ptr) /\ <<>> \in Seq(Request) /\ Len(<<>>) = 0
  OBVIOUS
<1>2. KnownInv
  BY <1>1 DEF Init, KnownInv
<1>3. KnownTypes /\ evals \in Seq(Request) /\ requests \in Seq(Request)
  BY <1>1 DEF Init, KnownTypes
<1>4. RTypes /\ MainTypes /\ CountTypes
  BY DEF Init, RTypes, MainTypes, CountTypes, Status, ShelterAssumption
<1> QED BY <1>2, <1>3, <1>4, TypeParts

LEMMA TypesKept ==
    ASSUME ShelterAssumption, TypeOK, KnownInv, [Next]_vars
    PROVE  TypeOK' /\ KnownInv'
<1>1. ASSUME UNCHANGED vars PROVE TypeOK'
  BY <1>1 DEF TypeOK, vars, workerVars, rVars, mainVars
<1>2. ASSUME Next PROVE TypeOK'
  BY <1>2, UserTypes, WorkerTypes DEF Next
<1> QED BY <1>1, <1>2, KnownKept

(* Shelters keep lists of pointers, and only shelters there are keep any;  *)
(* references, requests and R's state keep their types.                    *)
THEOREM ShelterTypes == Spec => []TypeOK
<1>1. Init => TypeOK /\ KnownInv
  BY ShelterInitial, ShelterAssumption
<1>2. TypeOK /\ KnownInv /\ [Next]_vars => TypeOK' /\ KnownInv'
  BY TypesKept, ShelterAssumption
<1> QED BY <1>1, <1>2, PTL DEF Spec

-----------------------------------------------------------------------------
(* References and the evaluations that give them.                          *)

LEMMA OpenAdds ==
    ASSUME TypeOK, OpenInv, NEW r, Adds(r), evals' = evals,
           \A h \in Handle : Open(status, pointer, h) => Open(status', pointer', h),
           IsEval(r) => Open(status', pointer', r.handle) /\ ~ Open(status, pointer, r.handle)
    PROVE  OpenInv'
<1>1. Len(requests) \in Nat /\ Len(evals) \in Nat
  BY DEF TypeOK
<1>2. \A h : Open(status, pointer, h) => Open(status', pointer', h)
  BY DEF Open
<1>3. ASSUME NEW i \in 1 .. Len(requests')
      PROVE  \/ i \in 1 .. Len(requests) /\ requests'[i] = requests[i]
             \/ i = Len(requests) + 1 /\ requests'[i] = r
  BY <1>1 DEF Adds
<1>4. ASSUME NEW i \in 1 .. Len(requests'), IsEval(requests'[i])
      PROVE  Open(status', pointer', requests'[i].handle)
  BY <1>2, <1>3, <1>4 DEF OpenInv
<1>5. ASSUME NEW i \in 1 .. Len(evals')
      PROVE  IsEval(evals'[i]) /\ Open(status', pointer', evals'[i].handle)
  BY <1>2 DEF OpenInv
<1>6. ASSUME NEW i \in 1 .. Len(requests'), NEW j \in 1 .. Len(requests'),
             IsEval(requests'[i]) /\ IsEval(requests'[j]) /\ requests'[i].handle = requests'[j].handle
      PROVE  i = j
  BY <1>3, <1>6 DEF OpenInv
<1>7. ASSUME NEW i \in 1 .. Len(requests'), NEW j \in 1 .. Len(evals'), IsEval(requests'[i])
      PROVE  requests'[i].handle # evals'[j].handle
  BY <1>3, <1>7 DEF OpenInv
<1> HIDE DEF Open, IsEval
<1> QED BY <1>4, <1>5, <1>6, <1>7 DEF OpenInv, IsEval

LEMMA OpenTakes ==
    ASSUME TypeOK, OpenInv, Takes, UNCHANGED <<status, pointer>>,
           \/ evals' = evals
           \/ evals' = Append(evals, Head(requests)) /\ IsEval(Head(requests))
    PROVE  OpenInv'
<1>1. Len(requests) \in Nat /\ evals \in Seq(Request) /\ Len(evals) \in Nat
  BY DEF TypeOK
<1>2. \A h : Open(status', pointer', h) <=> Open(status, pointer, h)
  BY DEF Open
<1>3. ASSUME NEW i \in 1 .. Len(requests')
      PROVE  i + 1 \in 2 .. Len(requests) /\ i + 1 \in 1 .. Len(requests) /\ requests'[i] = requests[i + 1]
  BY <1>1 DEF Takes
<1>4. 1 \in 1 .. Len(requests) /\ Head(requests) = requests[1]
  BY <1>1 DEF Takes
<1>5. ASSUME NEW i \in 1 .. Len(evals')
      PROVE  \/ i \in 1 .. Len(evals) /\ evals'[i] = evals[i]
             \/ i = Len(evals) + 1 /\ evals'[i] = requests[1] /\ IsEval(requests[1])
  BY <1>1, <1>4
<1>6. ASSUME NEW i \in 1 .. Len(requests'), IsEval(requests'[i])
      PROVE  Open(status', pointer', requests'[i].handle)
  BY <1>2, <1>3, <1>6 DEF OpenInv
<1>7. ASSUME NEW i \in 1 .. Len(evals')
      PROVE  IsEval(evals'[i]) /\ Open(status', pointer', evals'[i].handle)
  BY <1>2, <1>4, <1>5 DEF OpenInv
<1>8. ASSUME NEW i \in 1 .. Len(requests'), NEW j \in 1 .. Len(requests'),
             IsEval(requests'[i]) /\ IsEval(requests'[j]) /\ requests'[i].handle = requests'[j].handle
      PROVE  i = j
  <2>1. i + 1 = j + 1
    BY <1>3, <1>8 DEF OpenInv
  <2> QED BY <2>1
<1>9. ASSUME NEW i \in 1 .. Len(evals'), NEW j \in 1 .. Len(evals'), evals'[i].handle = evals'[j].handle
      PROVE  i = j
  BY <1>4, <1>5, <1>9 DEF OpenInv
<1>10. ASSUME NEW i \in 1 .. Len(requests'), NEW j \in 1 .. Len(evals'), IsEval(requests'[i])
       PROVE  requests'[i].handle # evals'[j].handle
  <2>1. CASE j \in 1 .. Len(evals) /\ evals'[j] = evals[j]
    BY <1>3, <1>10, <2>1 DEF OpenInv
  <2>2. CASE evals'[j] = requests[1] /\ IsEval(requests[1])
    <3>1. i + 1 # 1
      OBVIOUS
    <3> QED BY <1>3, <1>4, <1>10, <2>2, <3>1 DEF OpenInv
  <2> QED BY <1>5, <2>1, <2>2
<1> QED BY <1>6, <1>7, <1>8, <1>9, <1>10 DEF OpenInv, IsEval

LEMMA OpenEnds ==
    ASSUME TypeOK, OpenInv, evals # <<>>, evals' = Front(evals), requests' = requests,
           \A h \in Handle : h # Eval.handle /\ Open(status, pointer, h) => Open(status', pointer', h)
    PROVE  OpenInv'
<1>1. /\ Len(evals) \in Nat /\ Len(evals) >= 1 /\ Eval = evals[Len(evals)]
      /\ Len(evals') = Len(evals) - 1 /\ \A i \in 1 .. Len(evals') : evals'[i] = evals[i]
  BY EvalShape
<1>2. \A h : h # Eval.handle /\ Open(status, pointer, h) => Open(status', pointer', h)
  BY DEF Open
<1>3. ASSUME NEW i \in 1 .. Len(requests), IsEval(requests[i])
      PROVE  Open(status', pointer', requests[i].handle)
  BY <1>1, <1>2, <1>3 DEF OpenInv
<1>4. ASSUME NEW i \in 1 .. Len(evals')
      PROVE  IsEval(evals'[i]) /\ Open(status', pointer', evals'[i].handle)
  <2>1. i \in 1 .. Len(evals) /\ Len(evals) \in 1 .. Len(evals) /\ i # Len(evals) /\ evals'[i] = evals[i]
    BY <1>1
  <2> QED BY <1>1, <1>2, <2>1 DEF OpenInv
<1>5. \A i \in 1 .. Len(evals') : i \in 1 .. Len(evals) /\ evals'[i] = evals[i]
  BY <1>1
<1> QED BY <1>3, <1>4, <1>5 DEF OpenInv, IsEval

(* The evaluation's reference has no pointer, and no other is changed.     *)
LEMMA EvalOpen ==
    ASSUME TypeOK, OpenInv, evals # <<>>, evals' = Front(evals)
    PROVE  IsEval(Eval) /\ Open(status, pointer, Eval.handle) /\ Eval.handle \in Handle
<1>1. Eval = evals[Len(evals)] /\ Len(evals) \in 1 .. Len(evals)
  BY EvalShape
<1> QED BY <1>1 DEF OpenInv, Open

LEMMA PointerAdds ==
    ASSUME TypeOK, PointerInv, NEW r, Adds(r), UNCHANGED <<pointer, home>>,
           \A h \in Handle : status'[h] \in {"unused", "held"} => status[h] = status'[h],
           IsDestroy(r) => pointer[r.handle] \in Ptr
    PROVE  PointerInv'
<1>1. Len(requests) \in Nat
  BY DEF TypeOK
<1> QED BY <1>1 DEF PointerInv, Adds

LEMMA PointerTakes ==
    ASSUME TypeOK, PointerInv, Takes, UNCHANGED <<status, pointer, home>>
    PROVE  PointerInv'
<1>1. \A i \in 1 .. Len(requests') : i + 1 \in 1 .. Len(requests) /\ requests'[i] = requests[i + 1]
  BY DEF TypeOK, Takes
<1> QED BY <1>1 DEF PointerInv

LEMMA ShelterAssumed == ASSUME ShelterAssumption PROVE None \notin ShelterId /\ None \notin Ptr
BY DEF ShelterAssumption

LEMMA UserRefs ==
    ASSUME ShelterAssumption, TypeOK, RefInv,
           \/ \E s \in ShelterId : NewShelter(s) \/ Purge(s)
           \/ \E s \in ShelterId, h \in Handle :
                \/ Evaluate("evalR", s, h) \/ Evaluate("captureR", s, h)
                \/ StrayDestroy(s, h)
           \/ \E h \in Handle : Destroy(h)
    PROVE  RefInv'
<1>1. ASSUME NEW s \in ShelterId, NewShelter(s) PROVE RefInv'
  BY <1>1 DEF NewShelter, mainVars, RefInv, OpenInv, PointerInv, Open
<1>2. ASSUME NEW type \in {"evalR", "captureR", "purge", "destroy"}, NEW s,
             NEW h \in Handle \cup {None}, type # "purge" => h \in Handle, Issue(type, s, h),
             \A g \in Handle : status'[g] \in {"unused", "held"} => status[g] = status'[g],
             \A g \in Handle : status[g] \in {"pending", "gone"} => status'[g] \in {"pending", "gone"},
             type \in {"evalR", "captureR"} => status[h] = "unused" /\ status'[h] = "pending",
             type = "destroy" => pointer[h] \in Ptr
      PROVE  RefInv'
  <2> DEFINE r == [type |-> type, shelter |-> s, handle |-> h]
  <2>1. s \in known
    BY <1>2 DEF Issue
  <2>2. Adds(r) /\ UNCHANGED <<workerVars, rVars, home, pointer, target, leaked>>
    BY <1>2, <2>1, IssueShape
  <2>3. PointerInv'
    <3>1. IsDestroy(r) => pointer[r.handle] \in Ptr
      BY <1>2 DEF IsDestroy
    <3> HIDE DEF r
    <3> QED BY <1>2, <2>2, <3>1, PointerAdds DEF RefInv
  <2>4. \A g \in Handle : Open(status, pointer, g) => Open(status', pointer', g)
    BY <1>2, <2>2 DEF Open
  <2>5. IsEval(r) => Open(status', pointer', r.handle) /\ ~ Open(status, pointer, r.handle)
    BY <1>2, <2>2 DEF IsEval, Open, RefInv, PointerInv
  <2> HIDE DEF r
  <2>6. OpenInv'
    BY <2>2, <2>4, <2>5, OpenAdds DEF RefInv, workerVars
  <2> QED BY <2>3, <2>6 DEF RefInv
<1>3. ASSUME NEW s \in ShelterId, Purge(s) PROVE RefInv'
  <2>1. \A g \in Handle : status'[g] = status[g] \/ status'[g] = "gone"
    BY <1>3 DEF Purge
  <2>2. Issue("purge", s, None)
    BY <1>3 DEF Purge
  <2> QED BY <1>2, <2>1, <2>2
<1>4. ASSUME NEW s \in ShelterId, NEW h \in Handle, NEW type \in {"evalR", "captureR"},
             Evaluate(type, s, h)
      PROVE  RefInv'
  <2>1. /\ \A g \in Handle : g # h => status'[g] = status[g]
        /\ status[h] = "unused" /\ status'[h] = "pending" /\ Issue(type, s, h)
    BY <1>4 DEF Evaluate, TypeOK
  <2> QED BY <1>2, <2>1
<1>5. ASSUME NEW s \in ShelterId, NEW h \in Handle, StrayDestroy(s, h) PROVE RefInv'
  <2>1. pointer[h] \in Ptr /\ status' = status /\ Issue("destroy", s, h)
    BY <1>5 DEF StrayDestroy, TypeOK
  <2> QED BY <1>2, <2>1
<1>6. ASSUME NEW h \in Handle, Destroy(h) PROVE RefInv'
  <2>1. /\ \A g \in Handle : g # h => status'[g] = status[g]
        /\ status[h] = "held" /\ status'[h] = "gone" /\ Issue("destroy", home[h], h)
    BY <1>6 DEF Destroy, TypeOK
  <2>2. pointer[h] \in Ptr
    BY <2>1 DEF RefInv, PointerInv
  <2> QED BY <1>2, <2>1, <2>2
<1> QED BY <1>1, <1>3, <1>4, <1>5, <1>6

LEMMA WorkerRefs ==
    ASSUME ShelterAssumption, TypeOK, KnownInv, RefInv,
           \/ \E p \in Ptr : Collect(p) \/ Unbind(p)
           \/ StartEval
           \/ \E p \in Ptr, fails \in BOOLEAN : FinishEval(p, fails)
           \/ FailEval \/ DestroyObject \/ PurgeShelter
    PROVE  RefInv'
<1>1. ASSUME NEW p \in Ptr, Collect(p) \/ Unbind(p) PROVE RefInv'
  BY <1>1 DEF Collect, Unbind, workerVars, mainVars, RefInv, OpenInv, PointerInv, Open
<1>2. ASSUME StartEval PROVE RefInv'
  <2>1. Takes /\ IsEval(Head(requests))
    BY <1>2, TakeShape DEF StartEval, IsEval
  <2>2. OpenInv'
    BY <1>2, <2>1, OpenTakes DEF StartEval, RefInv
  <2> QED BY <1>2, <2>1, <2>2, PointerTakes DEF StartEval, RefInv
<1>3. ASSUME NEW p \in Ptr, NEW fails \in BOOLEAN, FinishEval(p, fails) PROVE RefInv'
  <2> DEFINE h == Eval.handle
             s == Eval.shelter
  <2>1. /\ evals # <<>> /\ evals' = Front(evals) /\ requests' = requests /\ s \in ShelterId
        /\ status' = [status EXCEPT ![h] = IF Reached(h, fails) THEN "held"
                                           ELSE IF fails THEN "failed" ELSE status[h]]
        /\ home' = [home EXCEPT ![h] = s]
        /\ pointer' = [pointer EXCEPT ![h] = IF fails THEN None ELSE p]
    BY <1>3, FinishShape
  <2>2. Open(status, pointer, h) /\ h \in Handle
    BY <2>1, EvalOpen DEF RefInv
  <2> HIDE DEF h, s
  <2>3. \A g \in Handle : g # h => status'[g] = status[g] /\ pointer'[g] = pointer[g] /\ home'[g] = home[g]
    BY <2>1 DEF TypeOK
  <2>4. /\ status'[h] = "held" => ~ fails
        /\ status'[h] # "unused"
        /\ pointer'[h] = IF fails THEN None ELSE p
        /\ home'[h] = s
    BY <2>1, <2>2 DEF TypeOK, Open, Reached
  <2>5. OpenInv'
    <3>1. \A g \in Handle : g # h /\ Open(status, pointer, g) => Open(status', pointer', g)
      BY <2>3 DEF Open
    <3> QED BY <2>1, <3>1, OpenEnds DEF RefInv, h
  <2>6. ASSUME NEW i \in 1 .. Len(requests), IsDestroy(requests[i])
        PROVE  pointer'[requests[i].handle] \in Ptr
    <3>1. pointer[requests[i].handle] \in Ptr
      BY <2>6 DEF RefInv, PointerInv
    <3>2. requests[i].handle \in Handle
      <4>1. requests[i] \in Request
        BY DEF TypeOK
      <4> QED BY <2>6, <4>1 DEF Request, IsDestroy
    <3>3. requests[i].handle # h
      BY <2>2, <3>1, ShelterAssumed DEF Open
    <3> QED BY <2>3, <3>1, <3>2, <3>3
  <2>7. PointerInv'
    <3>1. ASSUME NEW g \in Handle
          PROVE  /\ status'[g] = "unused" => pointer'[g] = None
                 /\ status'[g] = "held" => pointer'[g] \in Ptr /\ home'[g] \in ShelterId
      <4>1. CASE g = h
        BY <2>1, <2>4, <4>1
      <4>2. CASE g # h
        BY <2>3, <4>2 DEF RefInv, PointerInv
      <4> QED BY <4>1, <4>2
    <3> QED BY <2>1, <2>6, <3>1 DEF PointerInv, IsDestroy
  <2> QED BY <2>5, <2>7 DEF RefInv
<1>4. ASSUME FailEval PROVE RefInv'
  <2>1. /\ evals # <<>> /\ evals' = Front(evals) /\ UNCHANGED <<requests, pointer, home>>
        /\ status' = [status EXCEPT ![Eval.handle] = "failed"]
    BY <1>4 DEF FailEval
  <2>2. \A g \in Handle : /\ g # Eval.handle => status'[g] = status[g]
                          /\ status'[g] \in {"unused", "held"} => status'[g] = status[g]
    BY <2>1 DEF TypeOK
  <2>3. OpenInv'
    <3>1. \A g \in Handle : g # Eval.handle /\ Open(status, pointer, g) => Open(status', pointer', g)
      BY <2>1, <2>2 DEF Open
    <3> QED BY <2>1, <3>1, OpenEnds DEF RefInv
  <2>4. PointerInv'
    BY <2>1, <2>2 DEF RefInv, PointerInv
  <2> QED BY <2>3, <2>4 DEF RefInv
<1>5. ASSUME DestroyObject \/ PurgeShelter PROVE RefInv'
  <2>1. Takes /\ UNCHANGED <<evals, status, pointer, home>>
    BY <1>5, TakeShape DEF DestroyObject, PurgeShelter
  <2> QED BY <2>1, OpenTakes, PointerTakes DEF RefInv
<1> QED BY <1>1, <1>2, <1>3, <1>4, <1>5

LEMMA RefsKept ==
    ASSUME ShelterAssumption, TypeOK, KnownInv, RefInv, [Next]_vars
    PROVE  RefInv'
<1>1. ASSUME UNCHANGED vars PROVE RefInv'
  BY <1>1 DEF RefInv, OpenInv, PointerInv, Open, vars, workerVars, mainVars
<1>2. ASSUME Next PROVE RefInv'
  BY <1>2, UserRefs, WorkerRefs DEF Next
<1> QED BY <1>1, <1>2

-----------------------------------------------------------------------------
(* Destroys and purges in the queue.                                       *)

LEMMA OwnAdds ==
    ASSUME TypeOK, OwnInv, NEW r, Adds(r), home' = home,
           \A h \in Handle : status[h] = "gone" => status'[h] = "gone",
           IsDestroy(r) => /\ r.handle \in Handle /\ status[r.handle] = "held"
                           /\ status'[r.handle] = "gone" /\ home[r.handle] = r.shelter
    PROVE  OwnInv'
<1>1. Len(requests) \in Nat
  BY DEF TypeOK
<1>2. ASSUME NEW i \in 1 .. Len(requests')
      PROVE  \/ i \in 1 .. Len(requests) /\ requests'[i] = requests[i]
             \/ i = Len(requests) + 1 /\ requests'[i] = r
  BY <1>1 DEF Adds
<1>3. ASSUME NEW i \in 1 .. Len(requests), IsDestroy(requests[i])
      PROVE  requests[i].handle \in Handle
  <2>1. requests[i] \in Request
    BY DEF TypeOK
  <2> QED BY <1>3, <2>1 DEF Request, IsDestroy
<1>4. ASSUME NEW i \in 1 .. Len(requests'), IsDestroy(requests'[i])
      PROVE  status'[requests'[i].handle] = "gone" /\ home'[requests'[i].handle] = requests'[i].shelter
  BY <1>2, <1>3, <1>4 DEF OwnInv
<1>5. ASSUME NEW i \in 1 .. Len(requests'), NEW j \in 1 .. Len(requests'),
             IsDestroy(requests'[i]) /\ IsDestroy(requests'[j]) /\ requests'[i].handle = requests'[j].handle
      PROVE  i = j
  BY <1>2, <1>5 DEF OwnInv
<1> QED BY <1>4, <1>5 DEF OwnInv, IsDestroy

LEMMA OwnTakes ==
    ASSUME TypeOK, OwnInv, Takes, UNCHANGED <<status, home>>
    PROVE  OwnInv'
<1>1. ASSUME NEW i \in 1 .. Len(requests')
      PROVE  i + 1 \in 1 .. Len(requests) /\ requests'[i] = requests[i + 1]
  BY DEF TypeOK, Takes
<1>2. ASSUME NEW i \in 1 .. Len(requests'), NEW j \in 1 .. Len(requests'),
             IsDestroy(requests'[i]) /\ IsDestroy(requests'[j]) /\ requests'[i].handle = requests'[j].handle
      PROVE  i = j
  <2>1. i + 1 = j + 1
    BY <1>1, <1>2, SMTT(30) DEF OwnInv
  <2> QED BY <2>1
<1> QED BY <1>1, <1>2 DEF OwnInv, IsDestroy

LEMMA PurgeAdds ==
    ASSUME TypeOK, OpenInv, PurgeInv, NEW r, Adds(r), UNCHANGED <<evals, home>>,
           \A h \in Handle : status'[h] = "held" => status[h] = "held",
           \A h \in Handle : Open(status, pointer, h) /\ status'[h] = "pending" => status[h] = "pending",
           IsDestroy(r) => r.handle \in Handle /\ status[r.handle] = "held" /\ home[r.handle] = r.shelter,
           \A s \in ShelterId : IsPurge(r, s) =>
               /\ \A h \in Handle : status'[h] = "held" => home[h] # s
               /\ \A j \in 1 .. Len(requests) : (IsEval(requests[j]) /\ requests[j].shelter = s)
                                                  => status'[requests[j].handle] # "pending"
               /\ \A j \in 1 .. Len(evals) : evals[j].shelter = s => status'[evals[j].handle] # "pending"
    PROVE  PurgeInv'
<1>1. Len(requests) \in Nat
  BY DEF TypeOK
<1>2. ASSUME NEW i \in 1 .. Len(requests')
      PROVE  \/ i \in 1 .. Len(requests) /\ requests'[i] = requests[i]
             \/ i = Len(requests) + 1 /\ requests'[i] = r
  BY <1>1 DEF Adds
<1>3. SUFFICES ASSUME NEW s \in ShelterId, NEW i \in 1 .. Len(requests'), IsPurge(requests'[i], s)
      PROVE  /\ \A h \in Handle : status'[h] = "held" => home[h] # s
             /\ \A j \in i + 1 .. Len(requests') : IsDestroy(requests'[j]) => requests'[j].shelter # s
             /\ \A j \in 1 .. i - 1 : (IsEval(requests'[j]) /\ requests'[j].shelter = s)
                                       => status'[requests'[j].handle] # "pending"
             /\ \A j \in 1 .. Len(evals) : evals[j].shelter = s => status'[evals[j].handle] # "pending"
  BY DEF PurgeInv, IsPurge, IsDestroy, IsEval
<1>4. CASE i = Len(requests) + 1 /\ requests'[i] = r
  <2>1. IsPurge(r, s) /\ Len(requests') = i
    BY <1>3, <1>4 DEF Adds
  <2>2. \A j \in 1 .. i - 1 : j \in 1 .. Len(requests) /\ requests'[j] = requests[j]
    BY <1>1, <1>4 DEF Adds
  <2> QED BY <2>1, <2>2
<1>5. CASE i \in 1 .. Len(requests) /\ requests'[i] = requests[i]
  <2>1. /\ \A h \in Handle : status[h] = "held" => home[h] # s
        /\ \A j \in i + 1 .. Len(requests) : IsDestroy(requests[j]) => requests[j].shelter # s
        /\ \A j \in 1 .. i - 1 : (IsEval(requests[j]) /\ requests[j].shelter = s)
                                  => status[requests[j].handle] # "pending"
        /\ \A j \in 1 .. Len(evals) : evals[j].shelter = s => status[evals[j].handle] # "pending"
    BY <1>3, <1>5 DEF PurgeInv
  <2>2. \A h \in Handle : status'[h] = "held" => home[h] # s
    BY <2>1
  <2>3. ASSUME NEW j \in i + 1 .. Len(requests'), IsDestroy(requests'[j])
        PROVE  requests'[j].shelter # s
    <3>1. CASE j \in 1 .. Len(requests) /\ requests'[j] = requests[j]
      BY <1>5, <2>1, <2>3, <3>1
    <3>2. CASE requests'[j] = r
      BY <2>1, <2>3, <3>2
    <3>3. j \in 1 .. Len(requests')
      BY <1>5
    <3> QED BY <1>2, <3>1, <3>2, <3>3
  <2>4. ASSUME NEW j \in 1 .. i - 1, IsEval(requests'[j]), requests'[j].shelter = s
        PROVE  status'[requests'[j].handle] # "pending"
    <3>1. j \in 1 .. Len(requests) /\ requests'[j] = requests[j]
      BY <1>1, <1>5 DEF Adds
    <3>2. Open(status, pointer, requests[j].handle) /\ status[requests[j].handle] # "pending"
      BY <2>1, <2>4, <3>1 DEF OpenInv
    <3> QED BY <3>1, <3>2 DEF Open
  <2>5. ASSUME NEW j \in 1 .. Len(evals), evals[j].shelter = s
        PROVE  status'[evals[j].handle] # "pending"
    <3>1. Open(status, pointer, evals[j].handle) /\ status[evals[j].handle] # "pending"
      BY <2>1, <2>5 DEF OpenInv
    <3> QED BY <3>1 DEF Open
  <2> QED BY <2>2, <2>3, <2>4, <2>5
<1> QED BY <1>2, <1>4, <1>5

LEMMA PurgeTakes ==
    ASSUME TypeOK, PurgeInv, Takes, UNCHANGED <<status, home>>,
           \/ evals' = evals
           \/ evals' = Append(evals, Head(requests)) /\ IsEval(Head(requests))
    PROVE  PurgeInv'
<1>1. Len(requests) \in Nat /\ evals \in Seq(Request) /\ Len(evals) \in Nat
  BY DEF TypeOK
<1>2. \A i \in 1 .. Len(requests') : i + 1 \in 2 .. Len(requests) /\ requests'[i] = requests[i + 1]
  BY <1>1 DEF Takes
<1>3. ASSUME NEW i \in 1 .. Len(evals')
      PROVE  \/ i \in 1 .. Len(evals) /\ evals'[i] = evals[i]
             \/ evals'[i] = requests[1] /\ IsEval(requests[1])
  BY <1>1 DEF Takes
<1>4. SUFFICES ASSUME NEW s \in ShelterId, NEW i \in 1 .. Len(requests'), IsPurge(requests'[i], s)
      PROVE  /\ \A h \in Handle : status[h] = "held" => home[h] # s
             /\ \A j \in i + 1 .. Len(requests') : IsDestroy(requests'[j]) => requests'[j].shelter # s
             /\ \A j \in 1 .. i - 1 : (IsEval(requests'[j]) /\ requests'[j].shelter = s)
                                       => status[requests'[j].handle] # "pending"
             /\ \A j \in 1 .. Len(evals') : evals'[j].shelter = s => status[evals'[j].handle] # "pending"
  BY DEF PurgeInv, IsPurge, IsDestroy, IsEval
<1>5. /\ \A h \in Handle : status[h] = "held" => home[h] # s
      /\ \A j \in i + 2 .. Len(requests) : IsDestroy(requests[j]) => requests[j].shelter # s
      /\ \A j \in 1 .. i : (IsEval(requests[j]) /\ requests[j].shelter = s)
                            => status[requests[j].handle] # "pending"
      /\ \A j \in 1 .. Len(evals) : evals[j].shelter = s => status[evals[j].handle] # "pending"
  <2>1. IsPurge(requests[i + 1], s) /\ i + 1 \in 1 .. Len(requests)
    BY <1>1, <1>2, <1>4
  <2>2. (i + 1) + 1 = i + 2 /\ (i + 1) - 1 = i
    OBVIOUS
  <2> QED BY <2>1, <2>2 DEF PurgeInv
<1>6. ASSUME NEW j \in i + 1 .. Len(requests'), IsDestroy(requests'[j])
      PROVE  requests'[j].shelter # s
  <2>1. j \in 1 .. Len(requests') /\ j + 1 \in i + 2 .. Len(requests)
    BY <1>1, <1>4 DEF Takes
  <2> QED BY <1>2, <1>5, <1>6, <2>1
<1>7. ASSUME NEW j \in 1 .. i - 1, IsEval(requests'[j]), requests'[j].shelter = s
      PROVE  status[requests'[j].handle] # "pending"
  <2>1. j \in 1 .. Len(requests') /\ j + 1 \in 1 .. i
    BY <1>1, <1>4 DEF Takes
  <2> QED BY <1>2, <1>5, <1>7, <2>1
<1>8. ASSUME NEW j \in 1 .. Len(evals'), evals'[j].shelter = s
      PROVE  status[evals'[j].handle] # "pending"
  <2>1. 1 \in 1 .. i
    OBVIOUS
  <2> QED BY <1>3, <1>5, <1>8, <2>1
<1> QED BY <1>5, <1>6, <1>7, <1>8

(* An evaluation ends: the only reference that can become held is one that *)
(* was pending, of a shelter without a purge in the queue.                 *)
LEMMA PurgeEnds ==
    ASSUME TypeOK, OpenInv, PurgeInv, evals # <<>>, evals' = Front(evals), requests' = requests,
           \A h \in Handle : status'[h] = "pending" => status[h] = "pending",
           \A h \in Handle : status'[h] = "held" =>
               \/ status[h] = "held" /\ home'[h] = home[h]
               \/ h = Eval.handle /\ status[h] = "pending" /\ home'[h] = Eval.shelter
    PROVE  PurgeInv'
<1>1. /\ Len(evals) \in Nat /\ Len(evals) >= 1 /\ Eval = evals[Len(evals)]
      /\ Len(evals') = Len(evals) - 1 /\ \A i \in 1 .. Len(evals') : evals'[i] = evals[i]
  BY EvalShape
<1>2. SUFFICES ASSUME NEW s \in ShelterId, NEW i \in 1 .. Len(requests), IsPurge(requests[i], s)
      PROVE  /\ \A h \in Handle : status'[h] = "held" => home'[h] # s
             /\ \A j \in i + 1 .. Len(requests) : IsDestroy(requests[j]) => requests[j].shelter # s
             /\ \A j \in 1 .. i - 1 : (IsEval(requests[j]) /\ requests[j].shelter = s)
                                       => status'[requests[j].handle] # "pending"
             /\ \A j \in 1 .. Len(evals') : evals'[j].shelter = s => status'[evals'[j].handle] # "pending"
  BY DEF PurgeInv, IsPurge, IsDestroy, IsEval
<1>3. /\ \A h \in Handle : status[h] = "held" => home[h] # s
      /\ \A j \in i + 1 .. Len(requests) : IsDestroy(requests[j]) => requests[j].shelter # s
      /\ \A j \in 1 .. i - 1 : (IsEval(requests[j]) /\ requests[j].shelter = s)
                                => status[requests[j].handle] # "pending"
      /\ \A j \in 1 .. Len(evals) : evals[j].shelter = s => status[evals[j].handle] # "pending"
  BY <1>2 DEF PurgeInv
<1>4. Eval.shelter = s => status[Eval.handle] # "pending"
  BY <1>1, <1>3
<1>5. \A j \in 1 .. Len(evals') : j \in 1 .. Len(evals) /\ evals'[j] = evals[j]
  BY <1>1
<1>6. /\ \A j \in 1 .. i - 1 : j \in 1 .. Len(requests)
      /\ \A j \in 1 .. Len(requests) : IsEval(requests[j]) => requests[j].handle \in Handle
      /\ \A j \in 1 .. Len(evals) : evals[j].handle \in Handle
  BY DEF OpenInv, Open, TypeOK
<1> QED BY <1>3, <1>4, <1>5, <1>6

(* A reference that an evaluation is to give is not one that is destroyed. *)
LEMMA DestroyedNotOpen ==
    ASSUME ShelterAssumption, TypeOK, RefInv, NEW i \in 1 .. Len(requests), IsDestroy(requests[i])
    PROVE  /\ requests[i].handle \in Handle /\ pointer[requests[i].handle] \in Ptr
           /\ ~ Open(status, pointer, requests[i].handle)
<1>1. requests[i] \in Request
  BY DEF TypeOK
<1>2. pointer[requests[i].handle] \in Ptr
  BY DEF RefInv, PointerInv
<1> QED BY <1>1, <1>2, ShelterAssumed DEF Request, IsDestroy, Open

LEMMA OwnEnds ==
    ASSUME ShelterAssumption, TypeOK, RefInv, OwnInv, evals # <<>>, evals' = Front(evals), requests' = requests,
           \A h \in Handle : h # Eval.handle => status'[h] = status[h] /\ home'[h] = home[h]
    PROVE  OwnInv'
<1>1. Open(status, pointer, Eval.handle)
  BY EvalOpen DEF RefInv
<1>2. ASSUME NEW i \in 1 .. Len(requests), IsDestroy(requests[i])
      PROVE  /\ status'[requests[i].handle] = "gone"
             /\ home'[requests[i].handle] = requests[i].shelter
  <2>1. requests[i].handle \in Handle /\ requests[i].handle # Eval.handle
    BY <1>1, <1>2, DestroyedNotOpen
  <2> QED BY <1>2, <2>1 DEF OwnInv
<1> QED BY <1>2 DEF OwnInv, IsDestroy

-----------------------------------------------------------------------------
(* What an application that destroys only what it holds may ask for.       *)

Asks(r) == Adds(r) /\ UNCHANGED <<workerVars, rVars, home, pointer, target, leaked>>
AsksEval(r) ==
    /\ Asks(r) /\ IsEval(r) /\ r.handle \in Handle
    /\ status[r.handle] = "unused" /\ status'[r.handle] = "pending"
    /\ \A g \in Handle : g # r.handle => status'[g] = status[g]
AsksDestroy(r) ==
    /\ Asks(r) /\ IsDestroy(r) /\ r.handle \in Handle /\ r.shelter = home[r.handle]
    /\ status[r.handle] = "held" /\ status'[r.handle] = "gone"
    /\ \A g \in Handle : g # r.handle => status'[g] = status[g]
AsksPurge(r) ==
    /\ Asks(r) /\ r.type = "purge" /\ r.shelter \in ShelterId
    /\ \A g \in Handle : status'[g] = IF g \in PendingIn(r.shelter)
                                         \/ (status[g] = "held" /\ home[g] = r.shelter)
                                      THEN "gone" ELSE status[g]
Registers == UNCHANGED <<shelters, evals, rVars, mainVars, leaked, strays>>

UserStep ==
    \/ \E s \in ShelterId : NewShelter(s) \/ Purge(s)
    \/ \E s \in ShelterId, h \in Handle :
         \/ Evaluate("evalR", s, h) \/ Evaluate("captureR", s, h)
         \/ StrayDestroy(s, h)
    \/ \E h \in Handle : Destroy(h)
WorkerStep ==
    \/ \E p \in Ptr : Collect(p) \/ Unbind(p)
    \/ StartEval
    \/ \E p \in Ptr, fails \in BOOLEAN : FinishEval(p, fails)
    \/ FailEval \/ DestroyObject \/ PurgeShelter

LEMMA UserSteps ==
    ASSUME TypeOK, UserStep, strays' = 0
    PROVE  strays = 0 /\ (Registers \/ \E r : AsksEval(r) \/ AsksDestroy(r) \/ AsksPurge(r))
<1>1. ASSUME NEW s \in ShelterId, NewShelter(s) PROVE strays = 0 /\ Registers
  BY <1>1 DEF NewShelter, Registers
<1>2. ASSUME NEW type \in {"evalR", "captureR", "purge", "destroy"}, NEW s,
             NEW h \in Handle \cup {None}, type # "purge" => h \in Handle, Issue(type, s, h)
      PROVE  /\ Asks([type |-> type, shelter |-> s, handle |-> h])
             /\ s \in ShelterId
  <2>1. s \in known /\ s \in ShelterId
    BY <1>2 DEF Issue, TypeOK
  <2> QED BY <1>2, <2>1, IssueShape DEF Asks
<1>3. ASSUME NEW s \in ShelterId, Purge(s)
      PROVE  strays = 0 /\ AsksPurge([type |-> "purge", shelter |-> s, handle |-> None])
  <2>1. Asks([type |-> "purge", shelter |-> s, handle |-> None])
    BY <1>2, <1>3 DEF Purge
  <2>2. \A g \in Handle : status'[g] = IF g \in PendingIn(s) \/ (status[g] = "held" /\ home[g] = s)
                                       THEN "gone" ELSE status[g]
    BY <1>3 DEF Purge
  <2>3. strays = 0
    BY <1>3 DEF Purge
  <2> QED BY <2>1, <2>2, <2>3 DEF AsksPurge
<1>4. ASSUME NEW s \in ShelterId, NEW h \in Handle, NEW type \in {"evalR", "captureR"},
             Evaluate(type, s, h)
      PROVE  strays = 0 /\ AsksEval([type |-> type, shelter |-> s, handle |-> h])
  <2>1. Asks([type |-> type, shelter |-> s, handle |-> h])
    BY <1>2, <1>4 DEF Evaluate
  <2>2. /\ status[h] = "unused" /\ status'[h] = "pending" /\ strays = 0
        /\ \A g \in Handle : g # h => status'[g] = status[g]
    BY <1>4 DEF Evaluate, TypeOK
  <2> QED BY <2>1, <2>2 DEF AsksEval, IsEval
<1>5. ASSUME NEW s \in ShelterId, NEW h \in Handle, StrayDestroy(s, h) PROVE FALSE
  <2>1. strays' = strays + 1 /\ strays \in Nat
    BY <1>5, ShelterAssumption DEF StrayDestroy, TypeOK, ShelterAssumption
  <2> QED BY <2>1
<1>6. ASSUME NEW h \in Handle, Destroy(h)
      PROVE  strays = 0 /\ AsksDestroy([type |-> "destroy", shelter |-> home[h], handle |-> h])
  <2>1. Asks([type |-> "destroy", shelter |-> home[h], handle |-> h])
    BY <1>2, <1>6 DEF Destroy
  <2>2. /\ status[h] = "held" /\ status'[h] = "gone" /\ strays = 0
        /\ \A g \in Handle : g # h => status'[g] = status[g]
    BY <1>6 DEF Destroy, TypeOK
  <2> QED BY <2>1, <2>2 DEF AsksDestroy, IsDestroy
<1>7. (\E s \in ShelterId : NewShelter(s) \/ Purge(s)) =>
        strays = 0 /\ (Registers \/ \E r : AsksPurge(r))
  BY <1>1, <1>3
<1>8. (\E s \in ShelterId, h \in Handle :
         \/ Evaluate("evalR", s, h) \/ Evaluate("captureR", s, h)
         \/ StrayDestroy(s, h)) => strays = 0 /\ \E r : AsksEval(r)
  BY <1>4, <1>5
<1>9. (\E h \in Handle : Destroy(h)) => strays = 0 /\ \E r : AsksDestroy(r)
  BY <1>6
<1> QED BY <1>7, <1>8, <1>9 DEF UserStep

(* A purge takes hold of the references that evaluations are to give.      *)
LEMMA PendingOpen ==
    ASSUME TypeOK, OpenInv, NEW s
    PROVE  /\ \A h \in PendingIn(s) : Open(status, pointer, h)
           /\ \A i \in 1 .. Len(requests) :
                IsEval(requests[i]) /\ requests[i].shelter = s => requests[i].handle \in PendingIn(s)
           /\ \A i \in 1 .. Len(evals) : evals[i].shelter = s => evals[i].handle \in PendingIn(s)
<1>1. /\ ToSet(requests) = {requests[i] : i \in 1 .. Len(requests)}
      /\ ToSet(evals) = {evals[i] : i \in 1 .. Len(evals)}
  <2>1. DOMAIN requests = 1 .. Len(requests) /\ DOMAIN evals = 1 .. Len(evals)
    BY DEF TypeOK
  <2> QED BY <2>1, Zenon DEF ToSet
<1>2. PendingIn(s) = {r.handle : r \in {q \in ToSet(requests) \cup ToSet(evals) : IsEval(q) /\ q.shelter = s}}
  BY DEF PendingIn, IsEval
<1>3. ASSUME NEW h \in PendingIn(s) PROVE Open(status, pointer, h)
  <2>1. PICK r \in ToSet(requests) \cup ToSet(evals) : IsEval(r) /\ h = r.handle
    BY <1>2
  <2> QED BY <1>1, <2>1 DEF OpenInv
<1>4. ASSUME NEW i \in 1 .. Len(requests), IsEval(requests[i]), requests[i].shelter = s
      PROVE  requests[i].handle \in PendingIn(s)
  BY <1>1, <1>2, <1>4
<1>5. ASSUME NEW i \in 1 .. Len(evals), evals[i].shelter = s PROVE evals[i].handle \in PendingIn(s)
  BY <1>1, <1>2, <1>5 DEF OpenInv
<1> QED BY <1>3, <1>4, <1>5

LEMMA UserOwn ==
    ASSUME TypeOK, RefInv, OwnInv, PurgeInv,
           Registers \/ \E r : AsksEval(r) \/ AsksDestroy(r) \/ AsksPurge(r)
    PROVE  OwnInv' /\ PurgeInv'
<1>1. CASE Registers
  BY <1>1 DEF Registers, mainVars, OwnInv, PurgeInv
<1>2. ASSUME NEW r, AsksEval(r) PROVE OwnInv' /\ PurgeInv'
  <2>1. Adds(r) /\ UNCHANGED <<evals, home>>
    BY <1>2 DEF AsksEval, Asks, workerVars
  <2>2. ~ IsDestroy(r) /\ \A s : ~ IsPurge(r, s)
    BY <1>2 DEF AsksEval, IsEval, IsDestroy, IsPurge
  <2>3. OwnInv'
    BY <1>2, <2>1, <2>2, OwnAdds DEF AsksEval
  <2>4. ~ Open(status, pointer, r.handle)
    BY <1>2 DEF AsksEval, Open
  <2>5. PurgeInv'
    BY <1>2, <2>1, <2>2, <2>4, PurgeAdds DEF AsksEval, RefInv
  <2> QED BY <2>3, <2>5
<1>3. ASSUME NEW r, AsksDestroy(r) PROVE OwnInv' /\ PurgeInv'
  <2>1. Adds(r) /\ UNCHANGED <<evals, home>>
    BY <1>3 DEF AsksDestroy, Asks, workerVars
  <2>2. \A s : ~ IsPurge(r, s)
    BY <1>3 DEF AsksDestroy, IsDestroy, IsPurge
  <2>3. OwnInv'
    BY <1>3, <2>1, OwnAdds DEF AsksDestroy
  <2>4. PurgeInv'
    BY <1>3, <2>1, <2>2, PurgeAdds DEF AsksDestroy, RefInv
  <2> QED BY <2>3, <2>4
<1>4. ASSUME NEW r, AsksPurge(r) PROVE OwnInv' /\ PurgeInv'
  <2>1. Adds(r) /\ UNCHANGED <<evals, home>>
    BY <1>4 DEF AsksPurge, Asks, workerVars
  <2>2. /\ ~ IsDestroy(r) /\ \A s : IsPurge(r, s) => s = r.shelter
        /\ \A g \in Handle : status'[g] = status[g] \/ status'[g] = "gone"
        /\ \A g \in Handle : g \in PendingIn(r.shelter) \/ (status[g] = "held" /\ home[g] = r.shelter)
                             => status'[g] = "gone"
    BY <1>4 DEF AsksPurge, IsDestroy, IsPurge
  <2>3. OwnInv'
    BY <2>1, <2>2, OwnAdds
  <2>4. /\ \A h \in Handle : status'[h] = "held" => home[h] # r.shelter
        /\ \A j \in 1 .. Len(requests) : (IsEval(requests[j]) /\ requests[j].shelter = r.shelter)
                                           => status'[requests[j].handle] # "pending"
        /\ \A j \in 1 .. Len(evals) : evals[j].shelter = r.shelter => status'[evals[j].handle] # "pending"
    <3>1. \A h \in PendingIn(r.shelter) : h \in Handle
      BY PendingOpen DEF RefInv, Open
    <3>2. /\ \A i \in 1 .. Len(requests) :
               IsEval(requests[i]) /\ requests[i].shelter = r.shelter
                   => requests[i].handle \in PendingIn(r.shelter)
          /\ \A i \in 1 .. Len(evals) :
               evals[i].shelter = r.shelter => evals[i].handle \in PendingIn(r.shelter)
      BY PendingOpen DEF RefInv
    <3> QED BY <2>2, <3>1, <3>2
  <2>5. PurgeInv'
    BY <2>1, <2>2, <2>4, PurgeAdds DEF RefInv
  <2> QED BY <2>3, <2>5
<1> QED BY <1>1, <1>2, <1>3, <1>4

(* The reference of the evaluation that ends.                              *)
LEMMA FinishRefs ==
    ASSUME ShelterAssumption, TypeOK, KnownInv, RefInv, NEW p \in Ptr, NEW fails \in BOOLEAN, FinishEval(p, fails)
    PROVE  LET h == Eval.handle
           IN  /\ h \in Handle /\ Open(status, pointer, h)
               /\ \A g \in Handle : g # h => /\ status'[g] = status[g] /\ home'[g] = home[g]
                                             /\ pointer'[g] = pointer[g] /\ target'[g] = target[g]
               /\ status'[h] = IF Reached(h, fails) THEN "held" ELSE IF fails THEN "failed" ELSE status[h]
               /\ home'[h] = Eval.shelter /\ pointer'[h] = (IF fails THEN None ELSE p)
               /\ target'[h] = object'[p]
<1> DEFINE h == Eval.handle
           s == Eval.shelter
<1>1. /\ evals # <<>> /\ evals' = Front(evals)
      /\ status' = [status EXCEPT ![h] = IF Reached(h, fails) THEN "held"
                                         ELSE IF fails THEN "failed" ELSE status[h]]
      /\ home' = [home EXCEPT ![h] = s]
      /\ pointer' = [pointer EXCEPT ![h] = IF fails THEN None ELSE p]
      /\ target' = [target EXCEPT ![h] = object'[p]]
  BY FinishShape
<1>2. Open(status, pointer, h) /\ h \in Handle
  BY <1>1, EvalOpen DEF RefInv
<1> HIDE DEF h, s
<1>3. \A g \in Handle : g # h => /\ status'[g] = status[g] /\ home'[g] = home[g]
                               /\ pointer'[g] = pointer[g] /\ target'[g] = target[g]
  BY <1>1 DEF TypeOK
<1>4. /\ status'[h] = IF Reached(h, fails) THEN "held" ELSE IF fails THEN "failed" ELSE status[h]
      /\ home'[h] = s /\ pointer'[h] = (IF fails THEN None ELSE p) /\ target'[h] = object'[p]
  BY <1>1, <1>2 DEF TypeOK
<1> QED BY <1>2, <1>3, <1>4 DEF h, s

LEMMA WorkerOwn ==
    ASSUME ShelterAssumption, TypeOK, KnownInv, RefInv, OwnInv, PurgeInv, WorkerStep
    PROVE  OwnInv' /\ PurgeInv'
<1>1. ASSUME NEW p \in Ptr, Collect(p) \/ Unbind(p) PROVE OwnInv' /\ PurgeInv'
  BY <1>1 DEF Collect, Unbind, workerVars, mainVars, OwnInv, PurgeInv
<1>2. ASSUME StartEval \/ DestroyObject \/ PurgeShelter PROVE OwnInv' /\ PurgeInv'
  <2>1. Takes /\ UNCHANGED <<status, home>>
    BY <1>2, TakeShape DEF StartEval, DestroyObject, PurgeShelter
  <2>2. evals' = evals \/ (evals' = Append(evals, Head(requests)) /\ IsEval(Head(requests)))
    BY <1>2 DEF StartEval, DestroyObject, PurgeShelter, Dispatched, IsEval
  <2> QED BY <2>1, <2>2, OwnTakes, PurgeTakes
<1>3. ASSUME NEW p \in Ptr, NEW fails \in BOOLEAN, FinishEval(p, fails) PROVE OwnInv' /\ PurgeInv'
  <2> DEFINE h == Eval.handle
  <2>1. evals # <<>> /\ evals' = Front(evals) /\ requests' = requests
    BY <1>3, FinishShape
  <2>2. /\ h \in Handle /\ Open(status, pointer, h)
        /\ \A g \in Handle : g # h => status'[g] = status[g] /\ home'[g] = home[g]
        /\ status'[h] = IF Reached(h, fails) THEN "held" ELSE IF fails THEN "failed" ELSE status[h]
        /\ home'[h] = Eval.shelter
    BY <1>3, FinishRefs
  <2> HIDE DEF h
  <2>3. OwnInv'
    BY <2>1, <2>2, OwnEnds DEF h
  <2>4. \A g \in Handle : status'[g] = "pending" => status[g] = "pending"
    BY <2>2
  <2>5. \A g \in Handle : status'[g] = "held" =>
            \/ status[g] = "held" /\ home'[g] = home[g]
            \/ g = Eval.handle /\ status[g] = "pending" /\ home'[g] = Eval.shelter
    BY <2>2 DEF Reached, Open, h
  <2> QED BY <2>1, <2>3, <2>4, <2>5, PurgeEnds DEF RefInv
<1>4. ASSUME FailEval PROVE OwnInv' /\ PurgeInv'
  <2>1. /\ evals # <<>> /\ evals' = Front(evals) /\ UNCHANGED <<requests, home>>
        /\ status' = [status EXCEPT ![Eval.handle] = "failed"]
    BY <1>4 DEF FailEval
  <2>2. /\ \A g \in Handle : g # Eval.handle => status'[g] = status[g]
        /\ \A g \in Handle : status'[g] \in {"held", "pending"} => status'[g] = status[g]
    BY <2>1 DEF TypeOK
  <2>3. OwnInv'
    BY <2>1, <2>2, OwnEnds
  <2> QED BY <2>1, <2>2, <2>3, PurgeEnds DEF RefInv
<1> QED BY <1>1, <1>2, <1>3, <1>4 DEF WorkerStep

-----------------------------------------------------------------------------
(* Entries, claims to them, and the objects references point to.           *)

KeepInv == ClaimInv /\ EntryInv /\ AliveInv

LEMMA ClaimsIn ==
    ASSUME NEW S, NEW T, NEW n \in Nat, IsFiniteSet(S), Cardinality(S) <= n, T \subseteq S
    PROVE  IsFiniteSet(T) /\ Cardinality(T) <= n
<1>1. IsFiniteSet(T) /\ Cardinality(T) <= Cardinality(S)
  BY FS_Subset
<1>2. Cardinality(S) \in Nat /\ Cardinality(T) \in Nat
  BY <1>1, FS_CardinalityType
<1> QED BY <1>1, <1>2

(* A claim is an entry, and an entry is on the precious list.              *)
LEMMA ClaimedIsPrecious ==
    ASSUME TypeOK, KeepInv, NEW s \in ShelterId, NEW p \in Ptr, NEW h \in Claims(s, p)
    PROVE  p \in ToSet(shelters[s]) /\ Times(shelters[s], p) >= 1 /\ precious[p] >= 1
<1>1. IsFiniteSet(Claims(s, p)) /\ Cardinality(Claims(s, p)) <= Times(shelters[s], p)
  BY DEF KeepInv, ClaimInv
<1>2. Cardinality(Claims(s, p)) \in Nat /\ Cardinality(Claims(s, p)) # 0
  BY <1>1, FS_CardinalityType, FS_EmptySet
<1>3. shelters \in [ShelterId -> Seq(Ptr)] /\ shelters[s] \in Seq(Ptr)
  BY DEF TypeOK
<1>4. IsFiniteSet(Places(shelters[s], p)) /\ Times(shelters[s], p) \in Nat
  BY <1>3, PlacesFinite
<1>5. Times(shelters[s], p) >= 1
  BY <1>1, <1>2, <1>4
<1>6. Places(shelters[s], p) # {}
  BY <1>4, <1>5, FS_EmptySet DEF Times
<1>7. p \in ToSet(shelters[s])
  BY <1>3, <1>6 DEF Places, ToSet
<1>8. Cardinality(Entries(shelters, p)) >= Times(shelters[s], p) /\ Cardinality(Entries(shelters, p)) \in Nat
  <2>1. IsFiniteSet(Entries(shelters, p)) /\ \A t \in ShelterId \ {s} : shelters[t] = shelters[t]
    BY DEF KeepInv, EntryInv
  <2>2. Shifts(shelters, shelters, s, p)
    BY <1>3, <2>1, EntriesShift
  <2> QED BY <1>4, <2>2 DEF Shifts
<1> QED BY <1>4, <1>5, <1>7, <1>8 DEF KeepInv, EntryInv

LEMMA HeldIsPrecious ==
    ASSUME TypeOK, RefInv, KeepInv, NEW h \in Handle, status[h] = "held"
    PROVE  pointer[h] \in Ptr /\ precious[pointer[h]] >= 1
<1>1. pointer[h] \in Ptr /\ home[h] \in ShelterId
  BY DEF RefInv, PointerInv
<1>2. h \in Claims(home[h], pointer[h])
  BY DEF Claims
<1> QED BY <1>1, <1>2, ClaimedIsPrecious

(* A step that touches neither shelters nor the precious list, and adds no *)
(* claim.                                                                  *)
LEMMA KeepSame ==
    ASSUME TypeOK, KeepInv, UNCHANGED <<shelters, precious, object, home, pointer, target>>,
           \A h \in Handle : status'[h] = "held" => status[h] = "held",
           \A h \in Handle : DestroyQueued(h)' => status[h] = "held" \/ DestroyQueued(h)
    PROVE  KeepInv'
<1>1. ASSUME NEW s \in ShelterId, NEW p \in Ptr
      PROVE  IsFiniteSet(Claims(s, p)') /\ Cardinality(Claims(s, p)') <= Times(shelters'[s], p)
  <2>1. Claims(s, p)' \subseteq Claims(s, p)
    BY DEF Claims
  <2>2. Times(shelters[s], p) \in Nat
    BY PlacesFinite DEF TypeOK
  <2>3. IsFiniteSet(Claims(s, p)) /\ Cardinality(Claims(s, p)) <= Times(shelters[s], p)
    BY DEF KeepInv, ClaimInv
  <2> QED BY <2>1, <2>2, <2>3, ClaimsIn
<1>2. ClaimInv'
  BY <1>1 DEF ClaimInv
<1>3. EntryInv'
  BY DEF KeepInv, EntryInv
<1>4. AliveInv'
  BY DEF KeepInv, AliveInv, Alive
<1> QED BY <1>2, <1>3, <1>4 DEF KeepInv

LEMMA QueueAdds ==
    ASSUME TypeOK, NEW r, Adds(r), NEW h, DestroyQueued(h)'
    PROVE  DestroyQueued(h) \/ (IsDestroy(r) /\ r.handle = h)
<1>1. PICK i \in 1 .. Len(requests') : IsDestroy(requests'[i]) /\ requests'[i].handle = h
  BY DEF DestroyQueued, IsDestroy
<1>2. \/ i \in 1 .. Len(requests) /\ requests'[i] = requests[i]
      \/ requests'[i] = r
  BY DEF Adds, TypeOK
<1> QED BY <1>1, <1>2 DEF DestroyQueued

LEMMA QueueTakes ==
    ASSUME TypeOK, Takes, NEW h, DestroyQueued(h)'
    PROVE  \E i \in 2 .. Len(requests) : IsDestroy(requests[i]) /\ requests[i].handle = h
<1>1. PICK i \in 1 .. Len(requests') : IsDestroy(requests'[i]) /\ requests'[i].handle = h
  BY DEF DestroyQueued, IsDestroy
<1>2. i + 1 \in 2 .. Len(requests) /\ requests'[i] = requests[i + 1]
  BY DEF Takes, TypeOK
<1> QED BY <1>1, <1>2

LEMMA UserKeeps ==
    ASSUME TypeOK, RefInv, KeepInv,
           Registers \/ \E r : AsksEval(r) \/ AsksDestroy(r) \/ AsksPurge(r)
    PROVE  KeepInv'
<1>1. ASSUME Registers PROVE KeepInv'
  BY <1>1, KeepSame DEF Registers, mainVars, rVars, DestroyQueued
<1>2. ASSUME NEW r, Asks(r), \A h \in Handle : status'[h] = "held" => status[h] = "held",
             IsDestroy(r) => status[r.handle] = "held"
      PROVE  KeepInv'
  <2>1. Adds(r) /\ UNCHANGED <<shelters, precious, object, home, pointer, target>>
    BY <1>2 DEF Asks, workerVars, rVars
  <2>2. \A h \in Handle : DestroyQueued(h)' => status[h] = "held" \/ DestroyQueued(h)
    BY <1>2, <2>1, QueueAdds
  <2> QED BY <1>2, <2>1, <2>2, KeepSame
<1>3. ASSUME NEW r, AsksEval(r) PROVE KeepInv'
  BY <1>2, <1>3 DEF AsksEval, IsEval, IsDestroy
<1>4. ASSUME NEW r, AsksDestroy(r) PROVE KeepInv'
  BY <1>2, <1>4 DEF AsksDestroy
<1>5. ASSUME NEW r, AsksPurge(r) PROVE KeepInv'
  BY <1>2, <1>5 DEF AsksPurge, IsDestroy
<1> QED BY <1>1, <1>3, <1>4, <1>5

LEMMA FinishKeeps ==
    ASSUME ShelterAssumption, TypeOK, KnownInv, RefInv, KeepInv,
           NEW p \in Ptr, NEW fails \in BOOLEAN, FinishEval(p, fails)
    PROVE  KeepInv'
<1> DEFINE h == Eval.handle
           s == Eval.shelter
<1>1. /\ s \in ShelterId /\ requests' = requests
      /\ shelters' = [shelters EXCEPT ![s] = Append(shelters[s], p)]
      /\ precious' = [precious EXCEPT ![p] = precious[p] + 1]
      /\ MakeResult(p)
  BY FinishShape
<1>2. /\ h \in Handle /\ Open(status, pointer, h)
      /\ \A g \in Handle : g # h => /\ status'[g] = status[g] /\ home'[g] = home[g]
                                    /\ pointer'[g] = pointer[g] /\ target'[g] = target[g]
      /\ status'[h] = IF Reached(h, fails) THEN "held" ELSE IF fails THEN "failed" ELSE status[h]
      /\ home'[h] = s /\ pointer'[h] = (IF fails THEN None ELSE p)
      /\ target'[h] = object'[p]
  BY FinishRefs
<1> HIDE DEF h, s
<1>3. shelters \in [ShelterId -> Seq(Ptr)] /\ precious \in [Ptr -> Nat] /\ RTypes
  BY TypeParts DEF TypeOK
<1>4. \A g \in Handle : DestroyQueued(g)' => DestroyQueued(g)
  BY <1>1 DEF DestroyQueued
<1>5. ~ DestroyQueued(h)
  BY <1>2, DestroyedNotOpen DEF DestroyQueued
<1>6. ASSUME NEW t \in ShelterId, NEW q \in Ptr
      PROVE  /\ IsFiniteSet(Claims(t, q)') /\ Cardinality(Claims(t, q)') <= Times(shelters'[t], q)
  <2>1. /\ IsFiniteSet(Claims(t, q)) /\ Cardinality(Claims(t, q)) <= Times(shelters[t], q)
        /\ shelters[t] \in Seq(Ptr) /\ Times(shelters[t], q) \in Nat
    BY <1>3, PlacesFinite DEF KeepInv, ClaimInv
  <2>2. CASE t = s /\ q = p
    <3>1. Claims(t, q)' \subseteq Claims(t, q) \cup {h}
      BY <1>2, <1>4 DEF Claims
    <3>2. /\ IsFiniteSet(Claims(t, q) \cup {h})
          /\ Cardinality(Claims(t, q) \cup {h}) <= Cardinality(Claims(t, q)) + 1
          /\ Cardinality(Claims(t, q) \cup {h}) \in Nat /\ Cardinality(Claims(t, q)) \in Nat
      <4>1. /\ IsFiniteSet(Claims(t, q) \cup {h})
            /\ Cardinality(Claims(t, q) \cup {h})
                 = IF h \in Claims(t, q) THEN Cardinality(Claims(t, q)) ELSE Cardinality(Claims(t, q)) + 1
        BY <2>1, FS_AddElement
      <4>2. Cardinality(Claims(t, q)) \in Nat /\ Cardinality(Claims(t, q) \cup {h}) \in Nat
        BY <2>1, <4>1, FS_CardinalityType
      <4> QED BY <4>1, <4>2
    <3>3. Times(shelters'[t], q) = Times(shelters[t], q) + 1
      BY <1>1, <1>3, <2>1, <2>2, TimesAppend
    <3>4. Cardinality(Claims(t, q) \cup {h}) <= Times(shelters'[t], q) /\ Times(shelters'[t], q) \in Nat
      BY <2>1, <3>2, <3>3
    <3> QED BY <3>1, <3>2, <3>4, ClaimsIn
  <2>3. CASE ~ (t = s /\ q = p)
    <3>1. Claims(t, q)' \subseteq Claims(t, q)
      <4>1. h \notin Claims(t, q)'
        BY <1>2, <1>4, <1>5, <2>3 DEF Claims, Reached, Open
      <4> QED BY <1>2, <1>4, <4>1 DEF Claims
    <3>2. Times(shelters'[t], q) = Times(shelters[t], q)
      <4>1. CASE t = s
        BY <1>1, <1>3, <2>1, <2>3, <4>1, TimesAppend
      <4>2. CASE t # s
        BY <1>1, <1>3, <4>2
      <4> QED BY <4>1, <4>2
    <3> QED BY <2>1, <3>1, <3>2, ClaimsIn
  <2> QED BY <2>2, <2>3
<1>7. ClaimInv'
  BY <1>6 DEF ClaimInv
<1>8. ASSUME NEW q \in Ptr
      PROVE  IsFiniteSet(Entries(shelters', q)) /\ precious'[q] = Cardinality(Entries(shelters', q))
  <2>1. /\ IsFiniteSet(Entries(shelters, q)) /\ precious[q] = Cardinality(Entries(shelters, q))
        /\ shelters[s] \in Seq(Ptr) /\ Append(shelters[s], p) \in Seq(Ptr)
    BY <1>1, <1>3 DEF KeepInv, EntryInv
  <2>2. /\ IsFiniteSet(Entries(shelters', q))
        /\ Cardinality(Entries(shelters', q)) = Cardinality(Entries(shelters, q))
             - Times(shelters[s], q) + Times(Append(shelters[s], p), q)
        /\ Cardinality(Entries(shelters, q)) \in Nat
    <3>1. /\ shelters' \in [ShelterId -> Seq(Ptr)] /\ shelters'[s] = Append(shelters[s], p)
          /\ s \in ShelterId /\ \A t \in ShelterId \ {s} : shelters'[t] = shelters[t]
      BY <1>1, <1>3, <2>1
    <3>2. Shifts(shelters, shelters', s, q)
      BY <1>3, <2>1, <3>1, EntriesShift
    <3>3. Times(shelters[s], q) \in Nat
      BY <1>3, <2>1, PlacesFinite
    <3>4. Times(shelters'[s], q) \in Nat
      BY <3>1, PlacesFinite
    <3> QED BY <3>1, <3>2, <3>3, <3>4 DEF Shifts
  <2>3. Times(Append(shelters[s], p), q) = IF q = p THEN Times(shelters[s], q) + 1 ELSE Times(shelters[s], q)
    BY <2>1, TimesAppend
  <2>4. Times(shelters[s], q) \in Nat
    BY <2>1, PlacesFinite
  <2>5. precious'[q] = IF q = p THEN precious[q] + 1 ELSE precious[q]
    BY <1>1, <1>3
  <2> QED BY <2>1, <2>2, <2>3, <2>4, <2>5
<1>9. EntryInv'
  BY <1>8 DEF EntryInv
<1>10. object'[p] # 0 /\ \A q \in Ptr : object[q] # 0 => object'[q] = object[q]
  BY <1>1, <1>3, ResultTypes
<1>11. ASSUME NEW g \in Handle, status'[g] = "held"
       PROVE  object'[pointer'[g]] = target'[g] /\ target'[g] # 0
  <2>1. CASE g = h
    BY <1>2, <1>10, <1>11, <2>1 DEF Reached, Open
  <2>2. CASE g # h
    <3>1. status[g] = "held" /\ pointer'[g] = pointer[g] /\ target'[g] = target[g]
      BY <1>2, <1>11, <2>2
    <3>2. pointer[g] \in Ptr /\ object[pointer[g]] = target[g] /\ target[g] # 0
      BY <3>1 DEF KeepInv, AliveInv, Alive, RefInv, PointerInv
    <3> QED BY <1>10, <3>1, <3>2
  <2> QED BY <2>1, <2>2
<1>12. AliveInv'
  BY <1>11 DEF AliveInv, Alive
<1> QED BY <1>7, <1>9, <1>12 DEF KeepInv

LEMMA DestroyKeeps ==
    ASSUME ShelterAssumption, TypeOK, RefInv, OwnInv, KeepInv, DestroyObject
    PROVE  /\ KeepInv'
           /\ LET s == Head(requests).shelter
              IN  /\ s \in ShelterId /\ Len(shelters'[s]) = Len(shelters[s]) - 1
                  /\ \A t \in ShelterId : t # s => shelters'[t] = shelters[t]
<1> DEFINE r == requests[1]
           h == r.handle
           s == r.shelter
           p == pointer[h]
<1>1. Takes /\ Head(requests) = requests[1] /\ Head(requests).type = "destroy" /\ Head(requests) \in Request
  BY TakeShape DEF DestroyObject, Takes
<1>2. /\ 1 \in 1 .. Len(requests) /\ IsDestroy(r) /\ s \in ShelterId
      /\ \A i \in 2 .. Len(requests) : i # 1 /\ i \in 1 .. Len(requests)
  BY <1>1 DEF Takes, TypeOK, IsDestroy, Request
<1>3. h \in Handle /\ p \in Ptr
  BY <1>2, DestroyedNotOpen
<1>4. status[h] = "gone" /\ home[h] = s
  BY <1>2 DEF OwnInv
<1>5. /\ precious' = Release(p)
      /\ shelters' = [shelters EXCEPT ![s] = IF p \in ToSet(shelters[s]) THEN DropOne(shelters[s], p)
                                             ELSE shelters[s]]
      /\ UNCHANGED <<object, status, home, pointer, target>>
  BY <1>1 DEF DestroyObject
<1> HIDE DEF r, h, s, p
<1>6. h \in Claims(s, p)
  BY <1>2, <1>3, <1>4 DEF Claims, DestroyQueued, h, p, r
<1>7. p \in ToSet(shelters[s]) /\ Times(shelters[s], p) >= 1 /\ precious[p] >= 1
  BY <1>2, <1>3, <1>6, ClaimedIsPrecious
<1>8. /\ shelters \in [ShelterId -> Seq(Ptr)] /\ precious \in [Ptr -> Nat] /\ shelters[s] \in Seq(Ptr)
      /\ shelters' = [shelters EXCEPT ![s] = DropOne(shelters[s], p)]
  BY <1>2, <1>5, <1>7 DEF TypeOK
<1>9. DropOne(shelters[s], p) \in Seq(Ptr) /\ Len(DropOne(shelters[s], p)) = Len(shelters[s]) - 1
  BY <1>3, <1>7, <1>8, DropShape
<1>10. ASSUME NEW q
       PROVE  Times(DropOne(shelters[s], p), q) = IF q = p THEN Times(shelters[s], q) - 1
                                                  ELSE Times(shelters[s], q)
  BY <1>3, <1>7, <1>8, TimesDrop
<1>11. ASSUME NEW g \in Handle, DestroyQueued(g)' PROVE DestroyQueued(g) /\ g # h
  <2>1. PICK i \in 2 .. Len(requests) : IsDestroy(requests[i]) /\ requests[i].handle = g
    BY <1>1, <1>11, QueueTakes
  <2>2. g # h
    BY <1>2, <2>1 DEF OwnInv, h, r
  <2> QED BY <1>2, <2>1, <2>2 DEF DestroyQueued
<1>12. ASSUME NEW t \in ShelterId, NEW q \in Ptr
       PROVE  /\ IsFiniteSet(Claims(t, q)') /\ Cardinality(Claims(t, q)') <= Times(shelters'[t], q)
  <2>1. /\ IsFiniteSet(Claims(t, q)) /\ Cardinality(Claims(t, q)) <= Times(shelters[t], q)
        /\ shelters[t] \in Seq(Ptr) /\ Times(shelters[t], q) \in Nat
    BY <1>8, PlacesFinite DEF KeepInv, ClaimInv
  <2>2. Claims(t, q)' \subseteq Claims(t, q) \ {h}
    BY <1>4, <1>5, <1>11 DEF Claims
  <2>3. CASE t = s /\ q = p
    <3>1. /\ IsFiniteSet(Claims(t, q) \ {h}) /\ Cardinality(Claims(t, q) \ {h}) = Cardinality(Claims(t, q)) - 1
          /\ Cardinality(Claims(t, q)) \in Nat
      BY <1>6, <2>1, <2>3, FS_RemoveElement, FS_CardinalityType
    <3>2. Times(shelters'[t], q) = Times(shelters[t], q) - 1
      BY <1>8, <1>10, <2>3
    <3>3. Times(shelters'[t], q) \in Nat /\ Cardinality(Claims(t, q) \ {h}) <= Times(shelters'[t], q)
      BY <1>7, <2>1, <2>3, <3>1, <3>2
    <3> QED BY <2>2, <3>1, <3>3, ClaimsIn
  <2>4. CASE ~ (t = s /\ q = p)
    <3>1. Times(shelters'[t], q) = Times(shelters[t], q)
      <4>1. CASE t = s
        BY <1>8, <1>10, <2>4, <4>1
      <4>2. CASE t # s
        BY <1>8, <4>2
      <4> QED BY <4>1, <4>2
    <3>2. Claims(t, q)' \subseteq Claims(t, q)
      BY <2>2
    <3> QED BY <2>1, <3>1, <3>2, ClaimsIn
  <2> QED BY <2>3, <2>4
<1>13. ClaimInv'
  BY <1>12 DEF ClaimInv
<1>14. ASSUME NEW q \in Ptr
       PROVE  IsFiniteSet(Entries(shelters', q)) /\ precious'[q] = Cardinality(Entries(shelters', q))
  <2>1. IsFiniteSet(Entries(shelters, q)) /\ precious[q] = Cardinality(Entries(shelters, q))
    BY DEF KeepInv, EntryInv
  <2>2. /\ IsFiniteSet(Entries(shelters', q))
        /\ Cardinality(Entries(shelters', q)) = Cardinality(Entries(shelters, q))
             - Times(shelters[s], q) + Times(DropOne(shelters[s], p), q)
        /\ Cardinality(Entries(shelters, q)) \in Nat
    <3>1. /\ shelters' \in [ShelterId -> Seq(Ptr)] /\ shelters'[s] = DropOne(shelters[s], p)
          /\ s \in ShelterId /\ \A t \in ShelterId \ {s} : shelters'[t] = shelters[t]
      BY <1>2, <1>8, <1>9, <2>1
    <3>2. Shifts(shelters, shelters', s, q)
      BY <1>8, <2>1, <3>1, EntriesShift
    <3>3. Times(shelters[s], q) \in Nat
      BY <1>8, <2>1, PlacesFinite
    <3>4. Times(shelters'[s], q) \in Nat
      BY <3>1, PlacesFinite
    <3> QED BY <3>1, <3>2, <3>3, <3>4 DEF Shifts
  <2>3. Times(shelters[s], q) \in Nat
    BY <1>8, PlacesFinite
  <2>4. precious'[q] = IF q = p THEN precious[q] - 1 ELSE precious[q]
    BY <1>3, <1>5, <1>7, <1>8 DEF Release
  <2> QED BY <1>10, <2>1, <2>2, <2>3, <2>4
<1>15. EntryInv'
  BY <1>14 DEF EntryInv
<1>16. AliveInv'
  BY <1>5 DEF KeepInv, AliveInv, Alive
<1>17. Len(shelters'[s]) = Len(shelters[s]) - 1 /\ \A t \in ShelterId : t # s => shelters'[t] = shelters[t]
  BY <1>2, <1>8, <1>9
<1>18. Head(requests).shelter = s
  BY <1>1 DEF s, r
<1> QED BY <1>2, <1>13, <1>15, <1>16, <1>17, <1>18 DEF KeepInv

(* What a purge at the head of the queue finds.                            *)
LEMMA PurgeFinds ==
    ASSUME TypeOK, RefInv, OwnInv, PurgeInv, PurgeShelter, ShelterAssumption
    PROVE  LET s == Head(requests).shelter
           IN  /\ s \in ShelterId
               /\ \A h \in Handle : status[h] = "held" => home[h] # s
               /\ \A i \in 1 .. Len(requests') : IsDestroy(requests'[i]) => requests'[i].shelter # s
               /\ \A h \in Handle : DestroyQueued(h)' => home[h] # s /\ DestroyQueued(h)
<1> DEFINE s == Head(requests).shelter
<1>1. Takes /\ Head(requests) = requests[1] /\ Head(requests).type = "purge" /\ Head(requests) \in Request
  BY TakeShape DEF PurgeShelter, Takes
<1>2. 1 \in 1 .. Len(requests) /\ IsPurge(requests[1], s) /\ s \in ShelterId
  BY <1>1 DEF Takes, TypeOK, IsPurge, Request
<1>3. /\ \A h \in Handle : status[h] = "held" => home[h] # s
      /\ \A j \in 2 .. Len(requests) : IsDestroy(requests[j]) => requests[j].shelter # s
  <2>1. 1 + 1 = 2
    OBVIOUS
  <2> HIDE DEF s
  <2> QED BY <1>2, <2>1 DEF PurgeInv
<1> HIDE DEF s
<1>4. \A i \in 1 .. Len(requests') : i + 1 \in 2 .. Len(requests) /\ requests'[i] = requests[i + 1]
  BY <1>1 DEF Takes, TypeOK
<1>5. ASSUME NEW h \in Handle, DestroyQueued(h)' PROVE home[h] # s /\ DestroyQueued(h)
  <2>1. PICK i \in 2 .. Len(requests) : IsDestroy(requests[i]) /\ requests[i].handle = h
    BY <1>1, <1>5, QueueTakes
  <2>2. i \in 1 .. Len(requests)
    OBVIOUS
  <2>3. home[h] = requests[i].shelter
    BY <2>1, <2>2 DEF OwnInv
  <2> QED BY <1>3, <2>1, <2>2, <2>3 DEF DestroyQueued
<1> QED BY <1>2, <1>3, <1>4, <1>5 DEF s

LEMMA PurgeKeeps ==
    ASSUME ShelterAssumption, TypeOK, RefInv, OwnInv, PurgeInv, KeepInv, PurgeShelter
    PROVE  KeepInv'
<1> DEFINE s == Head(requests).shelter
<1>1. /\ s \in ShelterId
      /\ \A h \in Handle : status[h] = "held" => home[h] # s
      /\ \A h \in Handle : DestroyQueued(h)' => home[h] # s /\ DestroyQueued(h)
  BY PurgeFinds
<1>2. /\ precious' = ReleaseAll(shelters[s])
      /\ shelters' = [shelters EXCEPT ![s] = <<>>]
      /\ UNCHANGED <<object, status, home, pointer, target>>
  BY DEF PurgeShelter, Emptied
<1> HIDE DEF s
<1>3. shelters \in [ShelterId -> Seq(Ptr)] /\ precious \in [Ptr -> Nat] /\ shelters[s] \in Seq(Ptr)
  BY <1>1 DEF TypeOK
<1>4. ASSUME NEW t \in ShelterId, NEW q \in Ptr
      PROVE  /\ IsFiniteSet(Claims(t, q)') /\ Cardinality(Claims(t, q)') <= Times(shelters'[t], q)
  <2>1. CASE t = s
    <3>1. Claims(t, q)' = {}
      BY <1>1, <1>2, <2>1 DEF Claims
    <3>2. Times(shelters'[t], q) = 0
      BY <1>2, <1>3, <2>1, TimesEmpty
    <3> QED BY <3>1, <3>2, FS_EmptySet
  <2>2. CASE t # s
    <3>1. /\ IsFiniteSet(Claims(t, q)) /\ Cardinality(Claims(t, q)) <= Times(shelters[t], q)
          /\ Times(shelters[t], q) \in Nat
      BY <1>3, PlacesFinite DEF KeepInv, ClaimInv
    <3>2. Claims(t, q)' \subseteq Claims(t, q)
      BY <1>1, <1>2 DEF Claims
    <3>3. shelters'[t] = shelters[t]
      BY <1>2, <1>3, <2>2
    <3> QED BY <3>1, <3>2, <3>3, ClaimsIn
  <2> QED BY <2>1, <2>2
<1>5. ClaimInv'
  BY <1>4 DEF ClaimInv
<1>6. ASSUME NEW q \in Ptr
      PROVE  IsFiniteSet(Entries(shelters', q)) /\ precious'[q] = Cardinality(Entries(shelters', q))
  <2>1. IsFiniteSet(Entries(shelters, q)) /\ precious[q] = Cardinality(Entries(shelters, q))
    BY DEF KeepInv, EntryInv
  <2>2. /\ IsFiniteSet(Entries(shelters', q))
        /\ Cardinality(Entries(shelters', q)) = Cardinality(Entries(shelters, q))
             - Times(shelters[s], q) + Times(<<>>, q)
        /\ Cardinality(Entries(shelters, q)) >= Times(shelters[s], q)
        /\ Cardinality(Entries(shelters, q)) \in Nat
    <3>1. /\ shelters' \in [ShelterId -> Seq(Ptr)] /\ shelters'[s] = <<>>
          /\ s \in ShelterId /\ \A t \in ShelterId \ {s} : shelters'[t] = shelters[t]
      BY <1>1, <1>2, <1>3, <2>1
    <3>2. Shifts(shelters, shelters', s, q)
      BY <1>3, <2>1, <3>1, EntriesShift
    <3>3. Times(shelters[s], q) \in Nat
      BY <1>3, <2>1, PlacesFinite
    <3>4. Times(shelters'[s], q) \in Nat
      BY <3>1, PlacesFinite
    <3> QED BY <3>1, <3>2, <3>3, <3>4 DEF Shifts
  <2>3. Times(shelters[s], q) \in Nat /\ Times(<<>>, q) = 0
    BY <1>3, PlacesFinite, TimesEmpty
  <2>4. precious'[q] = IF precious[q] > Times(shelters[s], q) THEN precious[q] - Times(shelters[s], q) ELSE 0
    BY <1>2 DEF ReleaseAll
  <2> QED BY <2>1, <2>2, <2>3, <2>4
<1>7. EntryInv'
  BY <1>6 DEF EntryInv
<1>8. AliveInv'
  BY <1>2 DEF KeepInv, AliveInv, Alive
<1> QED BY <1>5, <1>7, <1>8 DEF KeepInv

LEMMA WorkerKeeps ==
    ASSUME ShelterAssumption, TypeOK, KnownInv, RefInv, OwnInv, PurgeInv, KeepInv, WorkerStep
    PROVE  KeepInv'
<1>1. ASSUME NEW p \in Ptr, Collect(p) PROVE KeepInv'
  <2>1. /\ UNCHANGED <<shelters, precious, home, pointer, target, status, requests>> /\ precious[p] = 0
        /\ \A q \in Ptr : q # p => object'[q] = object[q]
    BY <1>1 DEF Collect, workerVars, mainVars, TypeOK
  <2>2. ClaimInv' /\ EntryInv'
    BY <2>1 DEF KeepInv, ClaimInv, EntryInv, Claims, DestroyQueued
  <2>3. ASSUME NEW h \in Handle, status'[h] = "held"
        PROVE  object'[pointer'[h]] = target'[h] /\ target'[h] # 0
    <3>1. pointer[h] \in Ptr /\ precious[pointer[h]] >= 1
      BY <2>1, <2>3, HeldIsPrecious
    <3>2. object[pointer[h]] = target[h] /\ target[h] # 0
      BY <2>1, <2>3 DEF KeepInv, AliveInv, Alive
    <3> QED BY <2>1, <3>1, <3>2
  <2>4. AliveInv'
    BY <2>3 DEF AliveInv, Alive
  <2> QED BY <2>2, <2>4 DEF KeepInv
<1>2. ASSUME NEW p \in Ptr, Unbind(p) PROVE KeepInv'
  BY <1>2, KeepSame DEF Unbind, workerVars, mainVars, DestroyQueued
<1>3. ASSUME StartEval PROVE KeepInv'
  <2>1. Takes /\ UNCHANGED <<shelters, precious, object, home, pointer, target, status>>
    BY <1>3, TakeShape DEF StartEval, rVars
  <2>2. \A h \in Handle : DestroyQueued(h)' => DestroyQueued(h)
    <3>1. \A i \in 2 .. Len(requests) : i \in 1 .. Len(requests)
      OBVIOUS
    <3> QED BY <2>1, <3>1, QueueTakes DEF DestroyQueued
  <2> QED BY <2>1, <2>2, KeepSame
<1>4. ASSUME FailEval PROVE KeepInv'
  <2>1. /\ UNCHANGED <<shelters, precious, object, home, pointer, target, requests>>
        /\ status' = [status EXCEPT ![Eval.handle] = "failed"]
    BY <1>4 DEF FailEval, rVars
  <2>2. \A h \in Handle : status'[h] = "held" => status[h] = "held"
    BY <2>1 DEF TypeOK
  <2> QED BY <2>1, <2>2, KeepSame DEF DestroyQueued
<1> QED BY <1>1, <1>2, <1>3, <1>4, FinishKeeps, DestroyKeeps, PurgeKeeps DEF WorkerStep

-----------------------------------------------------------------------------
(* What a shelter's size counts.                                           *)

Requested(queue, s) == Cardinality(Destroys(queue, s))

LEMMA RequestedNat ==
    ASSUME NEW queue \in Seq(Request), NEW s
    PROVE  IsFiniteSet(Destroys(queue, s)) /\ Requested(queue, s) \in Nat
<1>1. IsFiniteSet(1 .. Len(queue))
  BY FS_Interval
<1> QED BY <1>1, FS_Subset, FS_CardinalityType DEF Destroys, Requested

LEMMA RequestedAdds ==
    ASSUME TypeOK, NEW r, Adds(r), NEW s
    PROVE  /\ Requested(requests', s) = IF IsDestroy(r) /\ r.shelter = s THEN Requested(requests, s) + 1
                                       ELSE Requested(requests, s)
           /\ NoPurge(requests', s) <=> NoPurge(requests, s) /\ ~ IsPurge(r, s)
<1>1. Len(requests) \in Nat /\ requests \in Seq(Request)
  BY DEF TypeOK
<1>2. Destroys(requests', s) = IF IsDestroy(r) /\ r.shelter = s
                               THEN Destroys(requests, s) \cup {Len(requests) + 1}
                               ELSE Destroys(requests, s)
  BY <1>1 DEF Adds, Destroys, IsDestroy
<1>3. Len(requests) + 1 \notin Destroys(requests, s)
  BY <1>1 DEF Destroys
<1>4. IsFiniteSet(Destroys(requests, s))
  BY <1>1, RequestedNat
<1>5. Requested(requests', s) = IF IsDestroy(r) /\ r.shelter = s THEN Requested(requests, s) + 1
                                ELSE Requested(requests, s)
  BY <1>2, <1>3, <1>4, FS_AddElement DEF Requested
<1>6. NoPurge(requests', s) <=> NoPurge(requests, s) /\ ~ IsPurge(r, s)
  BY <1>1 DEF Adds, NoPurge
<1> QED BY <1>5, <1>6

LEMMA RequestedTakes ==
    ASSUME TypeOK, Takes, NEW s
    PROVE  /\ Requested(requests', s) = IF IsDestroy(requests[1]) /\ requests[1].shelter = s
                                       THEN Requested(requests, s) - 1 ELSE Requested(requests, s)
           /\ NoPurge(requests', s) /\ ~ IsPurge(requests[1], s) => NoPurge(requests, s)
<1> DEFINE S == Destroys(requests', s)
           T == Destroys(requests, s) \ {1}
           f == [i \in S |-> i + 1]
<1>1. Len(requests) \in Nat /\ Len(requests) >= 1 /\ requests \in Seq(Request)
  BY DEF TypeOK, Takes
<1>2. IsFiniteSet(Destroys(requests, s)) /\ Requested(requests, s) \in Nat
  BY <1>1, RequestedNat
<1>3. S \in SUBSET Nat
  BY DEF Destroys
<1>4. ASSUME NEW i \in S PROVE f[i] \in T
  BY <1>1, <1>4 DEF Destroys, Takes
<1>5. \A x, y \in S : f[x] = f[y] => x = y
  BY <1>3
<1>6. ASSUME NEW y \in T PROVE \E x \in S : f[x] = y
  <2>1. y - 1 \in S /\ y \in Nat
    BY <1>1, <1>6 DEF Destroys, Takes
  <2>2. f[y - 1] = y
    BY <2>1
  <2> QED BY <2>1, <2>2
<1>7. IsFiniteSet(S)
  <2>1. S \subseteq 1 .. Len(requests)
    BY <1>1 DEF Destroys, Takes
  <2>2. IsFiniteSet(1 .. Len(requests))
    BY <1>1, FS_Interval
  <2> QED BY <2>1, <2>2, FS_Subset
<1>8. f \in [S -> T]
  BY <1>4
<1> HIDE DEF S, T, f
<1>9. Cardinality(T) = Cardinality(S)
  BY <1>5, <1>6, <1>7, <1>8, Paired
<1>10. 1 \in Destroys(requests, s) <=> IsDestroy(requests[1]) /\ requests[1].shelter = s
  BY <1>1 DEF Destroys, IsDestroy
<1>11. Cardinality(T) = IF 1 \in Destroys(requests, s) THEN Requested(requests, s) - 1
                        ELSE Requested(requests, s)
  <2>1. CASE 1 \in Destroys(requests, s)
    BY <1>2, <2>1, FS_RemoveElement DEF T, Requested
  <2>2. CASE 1 \notin Destroys(requests, s)
    BY <2>2 DEF T, Requested
  <2> QED BY <2>1, <2>2
<1>12. ASSUME NoPurge(requests', s), ~ IsPurge(requests[1], s) PROVE NoPurge(requests, s)
  <2> SUFFICES ASSUME NEW i \in 1 .. Len(requests), i # 1 PROVE ~ IsPurge(requests[i], s)
    BY <1>12 DEF NoPurge
  <2>1. i - 1 \in 1 .. Len(requests') /\ requests'[i - 1] = requests[i]
    BY <1>1 DEF Takes
  <2> QED BY <1>12, <2>1 DEF NoPurge
<1> QED BY <1>9, <1>10, <1>11, <1>12 DEF S, Requested

LEMMA SizeTypes ==
    ASSUME TypeOK, SizeInv, NEW s \in ShelterId
    PROVE  /\ IsFiniteSet(Held(s)) /\ Cardinality(Held(s)) \in Nat /\ Requested(requests, s) \in Nat
           /\ leaked[s] \in Nat /\ shelters[s] \in Seq(Ptr) /\ Len(shelters[s]) \in Nat
           /\ NoPurge(requests, s)
                => Len(shelters[s]) = Cardinality(Held(s)) + Requested(requests, s) + leaked[s]
<1>1. Counted(s)
  BY DEF SizeInv
<1>2. IsFiniteSet(Held(s)) /\ Cardinality(Held(s)) \in Nat
  BY <1>1, FS_CardinalityType DEF Counted
<1>3. Requested(requests, s) \in Nat
  BY RequestedNat DEF TypeOK
<1>4. leaked[s] \in Nat /\ shelters[s] \in Seq(Ptr) /\ Len(shelters[s]) \in Nat
  BY DEF TypeOK
<1> QED BY <1>1, <1>2, <1>3, <1>4 DEF Counted, Requested

(* A step that leaves all that is counted for a shelter as it is.          *)
LEMMA SizeSame ==
    ASSUME TypeOK, SizeInv, NEW s \in ShelterId, shelters'[s] = shelters[s], leaked'[s] = leaked[s],
           \A h \in Handle : (status'[h] = "held" /\ home'[h] = s) <=> (status[h] = "held" /\ home[h] = s),
           Requested(requests', s) = Requested(requests, s),
           NoPurge(requests', s) => NoPurge(requests, s)
    PROVE  Counted(s)'
<1>1. Held(s)' = Held(s)
  BY DEF Held
<1> QED BY <1>1, SizeTypes DEF Counted, Requested, NoPurge, IsPurge

LEMMA UserCounts ==
    ASSUME TypeOK, RefInv, SizeInv,
           Registers \/ \E r : AsksEval(r) \/ AsksDestroy(r) \/ AsksPurge(r)
    PROVE  SizeInv'
<1> SUFFICES ASSUME NEW s \in ShelterId PROVE Counted(s)'
  BY DEF SizeInv
<1>1. CASE Registers
  <2>1. UNCHANGED <<shelters, leaked, status, home, requests>>
    BY <1>1 DEF Registers, mainVars
  <2> QED BY <2>1, SizeSame
<1>2. ASSUME NEW r, AsksEval(r) PROVE Counted(s)'
  <2>1. Adds(r) /\ UNCHANGED <<shelters, home, leaked>>
    BY <1>2 DEF AsksEval, Asks, workerVars
  <2>2. ~ IsDestroy(r) /\ ~ IsPurge(r, s)
    BY <1>2 DEF AsksEval, IsEval, IsDestroy, IsPurge
  <2>3. \A h \in Handle : status'[h] = "held" <=> status[h] = "held"
    BY <1>2 DEF AsksEval
  <2>4. Requested(requests', s) = Requested(requests, s) /\ (NoPurge(requests', s) => NoPurge(requests, s))
    BY <2>1, <2>2, RequestedAdds
  <2> QED BY <2>1, <2>3, <2>4, SizeSame
<1>3. ASSUME NEW r, AsksDestroy(r) PROVE Counted(s)'
  <2>1. Adds(r) /\ UNCHANGED <<shelters, home, leaked>>
    BY <1>3 DEF AsksDestroy, Asks, workerVars
  <2>2. /\ IsDestroy(r) /\ ~ IsPurge(r, s) /\ r.handle \in Handle /\ r.shelter = home[r.handle]
        /\ status[r.handle] = "held" /\ status'[r.handle] = "gone"
        /\ \A g \in Handle : g # r.handle => status'[g] = status[g]
    BY <1>3 DEF AsksDestroy, IsDestroy, IsPurge
  <2>3. /\ Requested(requests', s) = IF r.shelter = s THEN Requested(requests, s) + 1
                                     ELSE Requested(requests, s)
        /\ NoPurge(requests', s) => NoPurge(requests, s)
    BY <2>1, <2>2, RequestedAdds
  <2>4. CASE r.shelter # s
    <3>1. \A h \in Handle : (status'[h] = "held" /\ home'[h] = s) <=> (status[h] = "held" /\ home[h] = s)
      BY <2>1, <2>2, <2>4
    <3> QED BY <2>1, <2>3, <2>4, <3>1, SizeSame
  <2>5. CASE r.shelter = s
    <3>1. Held(s)' = Held(s) \ {r.handle} /\ r.handle \in Held(s)
      BY <2>1, <2>2, <2>5 DEF Held
    <3>2. /\ IsFiniteSet(Held(s)) /\ Cardinality(Held(s)) \in Nat /\ Requested(requests, s) \in Nat
          /\ leaked[s] \in Nat
          /\ NoPurge(requests, s)
               => Len(shelters[s]) = Cardinality(Held(s)) + Requested(requests, s) + leaked[s]
      BY SizeTypes
    <3>3. IsFiniteSet(Held(s)') /\ Cardinality(Held(s)') = Cardinality(Held(s)) - 1
      <4>1. /\ IsFiniteSet(Held(s) \ {r.handle})
            /\ Cardinality(Held(s) \ {r.handle}) = Cardinality(Held(s)) - 1
        BY <3>1, <3>2, FS_RemoveElement
      <4> QED BY <3>1, <4>1
    <3>4. NoPurge(requests', s)
            => Len(shelters'[s]) = Cardinality(Held(s)') + Requested(requests', s) + leaked'[s]
      BY <2>1, <2>3, <2>5, <3>2, <3>3
    <3> QED BY <3>3, <3>4 DEF Counted, Requested, NoPurge, IsPurge
  <2> QED BY <2>4, <2>5
<1>4. ASSUME NEW r, AsksPurge(r) PROVE Counted(s)'
  <2>1. Adds(r) /\ UNCHANGED <<shelters, home, leaked>>
    BY <1>4 DEF AsksPurge, Asks, workerVars
  <2>2. /\ ~ IsDestroy(r) /\ (IsPurge(r, s) <=> r.shelter = s)
        /\ \A g \in Handle : status'[g] = IF g \in PendingIn(r.shelter)
                                             \/ (status[g] = "held" /\ home[g] = r.shelter)
                                          THEN "gone" ELSE status[g]
    BY <1>4 DEF AsksPurge, IsDestroy, IsPurge
  <2>3. \A g \in PendingIn(r.shelter) : status[g] # "held"
    BY PendingOpen DEF RefInv, Open
  <2>4. /\ Requested(requests', s) = Requested(requests, s)
        /\ NoPurge(requests', s) <=> NoPurge(requests, s) /\ ~ IsPurge(r, s)
    BY <2>1, <2>2, RequestedAdds
  <2>5. CASE r.shelter = s
    <3>1. Held(s)' \subseteq Held(s)
      BY <2>1, <2>2 DEF Held
    <3>2. IsFiniteSet(Held(s)')
      BY <3>1, SizeTypes, FS_Subset
    <3>3. ~ NoPurge(requests', s)
      BY <2>2, <2>4, <2>5
    <3> QED BY <3>2, <3>3 DEF Counted, NoPurge, IsPurge
  <2>6. CASE r.shelter # s
    <3>1. \A h \in Handle : (status'[h] = "held" /\ home'[h] = s) <=> (status[h] = "held" /\ home[h] = s)
      BY <2>1, <2>2, <2>3, <2>6
    <3> QED BY <2>1, <2>4, <3>1, SizeSame
  <2> QED BY <2>5, <2>6
<1> QED BY <1>1, <1>2, <1>3, <1>4

LEMMA FinishCounts ==
    ASSUME ShelterAssumption, TypeOK, KnownInv, RefInv, SizeInv,
           NEW p \in Ptr, NEW fails \in BOOLEAN, FinishEval(p, fails)
    PROVE  SizeInv'
<1> DEFINE h == Eval.handle
           e == Eval.shelter
<1>1. /\ e \in ShelterId /\ requests' = requests
      /\ shelters' = [shelters EXCEPT ![e] = Append(shelters[e], p)]
      /\ leaked' = [leaked EXCEPT ![e] = IF Reached(h, fails) THEN leaked[e] ELSE leaked[e] + 1]
  BY FinishShape
<1>2. /\ h \in Handle /\ Open(status, pointer, h)
      /\ \A g \in Handle : g # h => status'[g] = status[g] /\ home'[g] = home[g]
      /\ status'[h] = IF Reached(h, fails) THEN "held" ELSE IF fails THEN "failed" ELSE status[h]
      /\ home'[h] = e
  BY FinishRefs
<1> HIDE DEF h, e
<1>3. shelters \in [ShelterId -> Seq(Ptr)] /\ leaked \in [ShelterId -> Nat]
  BY DEF TypeOK
<1>4. status[h] # "held" /\ (status'[h] = "held" <=> Reached(h, fails))
  BY <1>2 DEF Open, Reached
<1> SUFFICES ASSUME NEW s \in ShelterId PROVE Counted(s)'
  BY DEF SizeInv
<1>5. CASE s # e
  <2>1. shelters'[s] = shelters[s] /\ leaked'[s] = leaked[s]
    BY <1>1, <1>3, <1>5
  <2>2. \A g \in Handle : (status'[g] = "held" /\ home'[g] = s) <=> (status[g] = "held" /\ home[g] = s)
    BY <1>2, <1>4, <1>5
  <2> QED BY <1>1, <2>1, <2>2, SizeSame
<1>6. CASE s = e
  <2>1. /\ IsFiniteSet(Held(s)) /\ Cardinality(Held(s)) \in Nat /\ Requested(requests, s) \in Nat
        /\ leaked[s] \in Nat /\ shelters[s] \in Seq(Ptr) /\ Len(shelters[s]) \in Nat
        /\ NoPurge(requests, s)
             => Len(shelters[s]) = Cardinality(Held(s)) + Requested(requests, s) + leaked[s]
    BY SizeTypes
  <2>2. /\ Len(shelters'[s]) = Len(shelters[s]) + 1
        /\ leaked'[s] = IF Reached(h, fails) THEN leaked[s] ELSE leaked[s] + 1
    BY <1>1, <1>3, <1>6
  <2>3. Held(s)' = IF Reached(h, fails) THEN Held(s) \cup {h} ELSE Held(s)
    <3>1. \A g \in Handle : (status'[g] = "held" /\ home'[g] = s)
                            <=> (status[g] = "held" /\ home[g] = s) \/ (g = h /\ Reached(h, fails))
      BY <1>2, <1>4, <1>6
    <3> QED BY <1>2, <3>1 DEF Held
  <2>4. h \notin Held(s)
    BY <1>4 DEF Held
  <2>5. /\ IsFiniteSet(Held(s)')
        /\ Cardinality(Held(s)') = IF Reached(h, fails) THEN Cardinality(Held(s)) + 1
                                    ELSE Cardinality(Held(s))
    BY <2>1, <2>3, <2>4, FS_AddElement
  <2>6. NoPurge(requests, s)
          => Len(shelters'[s]) = Cardinality(Held(s)') + Requested(requests, s) + leaked'[s]
    <3> DEFINE held == Cardinality(Held(s))
               asked == Requested(requests, s)
               lost == leaked[s]
               size == Len(shelters[s])
    <3>1. /\ held \in Nat /\ asked \in Nat /\ lost \in Nat /\ size \in Nat
          /\ NoPurge(requests, s) => size = held + asked + lost
      BY <2>1
    <3>2. Len(shelters'[s]) = size + 1
      BY <2>2
    <3>3. \/ Cardinality(Held(s)') = held + 1 /\ leaked'[s] = lost
          \/ Cardinality(Held(s)') = held /\ leaked'[s] = lost + 1
      BY <2>2, <2>5
    <3>4. asked = Requested(requests, s)
      OBVIOUS
    <3> HIDE DEF held, asked, lost, size
    <3>5. NoPurge(requests, s) => /\ size + 1 = held + 1 + asked + lost
                                  /\ size + 1 = held + asked + (lost + 1)
      BY <3>1
    <3> QED BY <3>2, <3>3, <3>4, <3>5
  <2> QED BY <1>1, <2>5, <2>6 DEF Counted, Requested, NoPurge, IsPurge
<1> QED BY <1>5, <1>6

LEMMA WorkerCounts ==
    ASSUME ShelterAssumption, TypeOK, KnownInv, RefInv, OwnInv, PurgeInv, KeepInv, SizeInv, WorkerStep
    PROVE  SizeInv'
<1>1. ASSUME NEW p \in Ptr, Collect(p) \/ Unbind(p) PROVE SizeInv'
  <2>1. UNCHANGED <<shelters, leaked, status, home, requests>>
    BY <1>1 DEF Collect, Unbind, workerVars, mainVars
  <2> QED BY <2>1, SizeSame DEF SizeInv
<1>2. ASSUME StartEval PROVE SizeInv'
  <2>1. Takes /\ UNCHANGED <<shelters, leaked, status, home>>
    BY <1>2, TakeShape DEF StartEval
  <2>2. \A s : ~ IsDestroy(requests[1]) /\ ~ IsPurge(requests[1], s)
    BY <1>2, <2>1 DEF StartEval, Dispatched, Takes, IsDestroy, IsPurge
  <2>3. ASSUME NEW s \in ShelterId PROVE Counted(s)'
    <3>1. Requested(requests', s) = Requested(requests, s) /\ (NoPurge(requests', s) => NoPurge(requests, s))
      BY <2>1, <2>2, RequestedTakes
    <3> QED BY <2>1, <3>1, SizeSame
  <2> QED BY <2>3 DEF SizeInv
<1>3. ASSUME NEW p \in Ptr, NEW fails \in BOOLEAN, FinishEval(p, fails) PROVE SizeInv'
  BY <1>3, FinishCounts
<1>4. ASSUME FailEval PROVE SizeInv'
  <2>1. /\ evals # <<>> /\ evals' = Front(evals) /\ UNCHANGED <<shelters, leaked, home, requests>>
        /\ status' = [status EXCEPT ![Eval.handle] = "failed"]
    BY <1>4 DEF FailEval
  <2>2. status[Eval.handle] # "held"
    BY <2>1, EvalOpen DEF RefInv, Open
  <2>3. \A h \in Handle : status'[h] = "held" <=> status[h] = "held"
    BY <2>1, <2>2 DEF TypeOK
  <2> QED BY <2>1, <2>3, SizeSame DEF SizeInv
<1>5. ASSUME DestroyObject PROVE SizeInv'
  <2>1. Takes /\ Head(requests) = requests[1] /\ Head(requests).type = "destroy"
    BY <1>5, TakeShape DEF DestroyObject, Takes
  <2>2. UNCHANGED <<leaked, status, home>>
    BY <1>5 DEF DestroyObject
  <2> DEFINE e == Head(requests).shelter
  <2>3. Len(shelters'[e]) = Len(shelters[e]) - 1 /\ \A t \in ShelterId : t # e => shelters'[t] = shelters[t]
    BY <1>5, DestroyKeeps
  <2>4. /\ e = requests[1].shelter /\ IsDestroy(requests[1])
        /\ \A s : ~ IsPurge(requests[1], s)
    BY <2>1 DEF IsDestroy, IsPurge
  <2> HIDE DEF e
  <2> SUFFICES ASSUME NEW s \in ShelterId PROVE Counted(s)'
    BY DEF SizeInv
  <2>5. /\ Requested(requests', s) = IF e = s THEN Requested(requests, s) - 1 ELSE Requested(requests, s)
        /\ NoPurge(requests', s) => NoPurge(requests, s)
    BY <2>1, <2>4, RequestedTakes
  <2>6. CASE s # e
    BY <2>2, <2>3, <2>5, <2>6, SizeSame
  <2>7. CASE s = e
    <3>1. /\ IsFiniteSet(Held(s)) /\ Cardinality(Held(s)) \in Nat /\ Requested(requests, s) \in Nat
          /\ leaked[s] \in Nat /\ Len(shelters[s]) \in Nat
          /\ NoPurge(requests, s)
               => Len(shelters[s]) = Cardinality(Held(s)) + Requested(requests, s) + leaked[s]
      BY SizeTypes
    <3>2. Held(s)' = Held(s)
      BY <2>2 DEF Held
    <3>3. NoPurge(requests', s)
            => Len(shelters'[s]) = Cardinality(Held(s)') + Requested(requests', s) + leaked'[s]
      BY <2>2, <2>3, <2>5, <2>7, <3>1, <3>2, SMTT(30)
    <3> QED BY <3>1, <3>2, <3>3 DEF Counted, Requested, NoPurge, IsPurge
  <2> QED BY <2>6, <2>7
<1>6. ASSUME PurgeShelter PROVE SizeInv'
  <2> DEFINE e == Head(requests).shelter
  <2>1. Takes /\ Head(requests) = requests[1] /\ Head(requests).type = "purge"
    BY <1>6, TakeShape DEF PurgeShelter, Takes
  <2>2. /\ e \in ShelterId
        /\ \A h \in Handle : status[h] = "held" => home[h] # e
        /\ \A i \in 1 .. Len(requests') : IsDestroy(requests'[i]) => requests'[i].shelter # e
    BY <1>6, PurgeFinds
  <2>3. /\ UNCHANGED <<status, home>>
        /\ shelters' = [shelters EXCEPT ![e] = <<>>] /\ leaked' = [leaked EXCEPT ![e] = 0]
    BY <1>6 DEF PurgeShelter, Emptied
  <2>4. ~ IsDestroy(requests[1]) /\ \A s : IsPurge(requests[1], s) => s = e
    BY <2>1 DEF IsDestroy, IsPurge
  <2> HIDE DEF e
  <2> SUFFICES ASSUME NEW s \in ShelterId PROVE Counted(s)'
    BY DEF SizeInv
  <2>5. CASE s # e
    <3>1. Requested(requests', s) = Requested(requests, s) /\ (NoPurge(requests', s) => NoPurge(requests, s))
      BY <2>1, <2>4, <2>5, RequestedTakes
    <3>2. shelters'[s] = shelters[s] /\ leaked'[s] = leaked[s]
      BY <2>3, <2>5 DEF TypeOK
    <3> QED BY <2>3, <3>1, <3>2, SizeSame
  <2>6. CASE s = e
    <3>1. Held(s)' = {} /\ Destroys(requests', s) = {}
      BY <2>2, <2>3, <2>6 DEF Held, Destroys, IsDestroy
    <3>2. Cardinality(Held(s)') = 0 /\ IsFiniteSet(Held(s)') /\ Requested(requests', s) = 0
      BY <3>1, FS_EmptySet DEF Requested
    <3>3. Len(shelters'[s]) = 0 /\ leaked'[s] = 0
      BY <2>3, <2>6 DEF TypeOK
    <3>4. Len(shelters'[s]) = Cardinality(Held(s)') + Requested(requests', s) + leaked'[s]
      BY <3>2, <3>3
    <3> QED BY <3>2, <3>4 DEF Counted, Requested
  <2> QED BY <2>5, <2>6
<1> QED BY <1>1, <1>2, <1>3, <1>4, <1>5, <1>6 DEF WorkerStep

-----------------------------------------------------------------------------
(* The invariant of applications that destroy only what they hold.         *)

LEMMA DisciplineInitial ==
    ASSUME ShelterAssumption, Init
    PROVE  RefInv /\ Disciplined
<1>1. Len(<<>>) = 0 /\ requests = <<>> /\ evals = <<>>
  BY DEF Init
<1>2. /\ \A h \in Handle : status[h] = "unused" /\ pointer[h] = None
      /\ \A s \in ShelterId : shelters[s] = <<>> /\ leaked[s] = 0
      /\ \A p \in Ptr : precious[p] = 0
  BY DEF Init
<1>3. RefInv
  BY <1>1, <1>2 DEF RefInv, OpenInv, PointerInv
<1>4. OwnInv /\ PurgeInv /\ AliveInv
  BY <1>1, <1>2 DEF OwnInv, PurgeInv, AliveInv
<1>5. ClaimInv
  <2> SUFFICES ASSUME NEW s \in ShelterId, NEW p \in Ptr
               PROVE  IsFiniteSet(Claims(s, p)) /\ Cardinality(Claims(s, p)) <= Times(shelters[s], p)
    BY DEF ClaimInv
  <2>1. Claims(s, p) = {}
    BY <1>1, <1>2 DEF Claims, DestroyQueued
  <2> QED BY <1>2, <2>1, FS_EmptySet, TimesEmpty
<1>6. EntryInv
  <2>1. \A p : Entries(shelters, p) = {}
    BY <1>1, <1>2 DEF Entries, Places
  <2> QED BY <1>2, <2>1, FS_EmptySet DEF EntryInv
<1>7. SizeInv
  <2> SUFFICES ASSUME NEW s \in ShelterId PROVE Counted(s)
    BY DEF SizeInv
  <2>1. Held(s) = {} /\ Destroys(requests, s) = {}
    BY <1>1, <1>2 DEF Held, Destroys
  <2>2. Len(shelters[s]) = 0 /\ leaked[s] = 0
    BY <1>1, <1>2
  <2> QED BY <2>1, <2>2, FS_EmptySet DEF Counted
<1> QED BY <1>3, <1>4, <1>5, <1>6, <1>7 DEF Disciplined

LEMMA DisciplineKept ==
    ASSUME ShelterAssumption, TypeOK, KnownInv, RefInv, Disciplined, [Next]_vars
    PROVE  Disciplined'
<1>1. SUFFICES ASSUME strays' = 0
               PROVE  OwnInv' /\ PurgeInv' /\ KeepInv' /\ SizeInv'
  BY DEF Disciplined, KeepInv
<1>2. CASE UNCHANGED vars
  <2>1. OwnInv /\ PurgeInv /\ KeepInv /\ SizeInv
    BY <1>1, <1>2 DEF Disciplined, KeepInv, vars
  <2>2. Registers
    BY <1>2 DEF Registers, vars, workerVars
  <2> QED BY <2>1, <2>2, UserOwn, UserKeeps, UserCounts
<1>3. CASE UserStep
  <2>1. strays = 0 /\ (Registers \/ \E r : AsksEval(r) \/ AsksDestroy(r) \/ AsksPurge(r))
    BY <1>1, <1>3, UserSteps
  <2>2. OwnInv /\ PurgeInv /\ KeepInv /\ SizeInv
    BY <2>1 DEF Disciplined, KeepInv
  <2> QED BY <2>1, <2>2, UserOwn, UserKeeps, UserCounts
<1>4. CASE WorkerStep
  <2>1. strays = 0
    BY <1>1, <1>4 DEF WorkerStep, Collect, Unbind, StartEval, FinishEval, FailEval, DestroyObject,
                      PurgeShelter
  <2>2. OwnInv /\ PurgeInv /\ KeepInv /\ SizeInv
    BY <2>1 DEF Disciplined, KeepInv
  <2> QED BY <1>4, <2>2, WorkerOwn, WorkerKeeps, WorkerCounts
<1>5. [Next]_vars => UserStep \/ WorkerStep \/ UNCHANGED vars
  BY DEF Next, UserStep, WorkerStep
<1> QED BY <1>2, <1>3, <1>4, <1>5

LEMMA DisciplineHolds == Spec => [](TypeOK /\ RefInv /\ Disciplined)
<1>1. Init => TypeOK /\ KnownInv /\ RefInv /\ Disciplined
  BY ShelterInitial, DisciplineInitial, ShelterAssumption
<1>2. TypeOK /\ KnownInv /\ RefInv /\ Disciplined /\ [Next]_vars
        => TypeOK' /\ KnownInv' /\ RefInv' /\ Disciplined'
  BY TypesKept, RefsKept, DisciplineKept, ShelterAssumption
<1> QED BY <1>1, <1>2, PTL DEF Spec

(* R's precious list holds an object once for each entry of each shelter:  *)
(* keep(), destroy() and purge() preserve and release in step with the     *)
(* lists, in whatever order the requests and the evaluations they          *)
(* interrupt come to an end.                                               *)
THEOREM PreciousMatches == Spec => []PreciousMatchesShelters
<1>1. Disciplined => PreciousMatchesShelters
  BY DEF Disciplined, EntryInv, PreciousMatchesShelters
<1> QED BY <1>1, DisciplineHolds, PTL

(* No reference that the application still holds is to an object R has     *)
(* freed, however often the object was kept and whatever other references  *)
(* to it were destroyed or purged.                                         *)
THEOREM HeldReferencesGood == Spec => []HeldReferenceAlive
<1>1. Disciplined => HeldReferenceAlive
  BY DEF Disciplined, AliveInv, HeldReferenceAlive
<1> QED BY <1>1, DisciplineHolds, PTL

(* size() of a shelter is the number of references it gave out that were   *)
(* not given up, but for the results that reached nobody.                  *)
THEOREM SizesRight == Spec => []SizeCountsReferences
<1>1. ASSUME Disciplined PROVE SizeCountsReferences
  <2> SUFFICES ASSUME strays = 0, NEW s \in ShelterId,
                      \A i \in 1 .. Len(requests) : requests[i].type # "purge" \/ requests[i].shelter # s
               PROVE  Len(shelters[s])
                        = Cardinality(Held(s)) + Cardinality(Destroys(requests, s)) + leaked[s]
    BY DEF SizeCountsReferences
  <2>1. NoPurge(requests, s)
    BY DEF NoPurge, IsPurge
  <2> QED BY <1>1, <2>1 DEF Disciplined, SizeInv, Counted
<1> QED BY <1>1, DisciplineHolds, PTL
====
