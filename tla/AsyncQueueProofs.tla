---- MODULE AsyncQueueProofs ----
(***************************************************************************)
(* The invariant of AsyncQueue and the simulation of Rendezvous, for every *)
(* set of messages and of promises.                                        *)
(***************************************************************************)
EXTENDS AsyncQueue, TLAPS

(* What appending and shifting do to the elements of a sequence. *)
LEMMA AppendElements ==
    ASSUME NEW S, NEW s \in Seq(S), NEW e \in S
    PROVE  /\ Append(s, e) \in Seq(S)
           /\ Len(Append(s, e)) = Len(s) + 1
           /\ \A i \in 1 .. Len(s) : Append(s, e)[i] = s[i]
           /\ Append(s, e)[Len(s) + 1] = e
  OBVIOUS

LEMMA TailElements ==
    ASSUME NEW S, NEW s \in Seq(S), s # <<>>
    PROVE  /\ Tail(s) \in Seq(S)
           /\ Len(Tail(s)) = Len(s) - 1
           /\ Len(s) \in Nat \ {0}
           /\ \A i \in 1 .. Len(Tail(s)) : Tail(s)[i] = s[i + 1]
           /\ Head(s) = s[1]
           /\ Head(s) \in S
  OBVIOUS

(* A put() that answers a waiting get(). *)
LEMMA PutAnswers ==
    ASSUME QueueInv, NEW t \in Item, Put(t), resolvers # <<>>
    PROVE  QueueInv'
<1> USE DEF QueueInv
<1>1. /\ value' = [value EXCEPT ![Head(resolvers)] = t]
      /\ resolvers' = Tail(resolvers)
      /\ UNCHANGED <<promises, created, taken, flushing>>
  BY DEF Put, NobodyWaits, Settle
<1>2. promises = <<>>
  BY DEF OneSided
<1>3. /\ Head(resolvers) = resolvers[1]
      /\ Head(resolvers) \in Promise
      /\ Head(resolvers) \in taken
      /\ resolvers' \in Seq(Promise)
      /\ Len(resolvers) \in Nat \ {0}
      /\ Len(resolvers') = Len(resolvers) - 1
      /\ \A i \in 1 .. Len(resolvers') : resolvers'[i] = resolvers[i + 1]
  <2>1. resolvers \in Seq(Promise) BY DEF TypeOK
  <2> QED BY <1>1, <2>1, TailElements DEF SidesSettled
<1>4. TypeOK'
  BY <1>1, <1>3 DEF TypeOK
<1>5. OneSided'
  BY <1>1, <1>2 DEF OneSided
<1>6. NoRepeats'
  BY <1>1, <1>2, <1>3 DEF NoRepeats
<1>7. \A i \in 1 .. Len(resolvers') : resolvers'[i] # Head(resolvers)
  BY <1>3 DEF NoRepeats
<1>8. SidesSettled'
  <2>1. \A i \in 1 .. Len(resolvers') :
           resolvers'[i] \in taken' /\ value'[resolvers'[i]] = Pending
    <3> SUFFICES ASSUME NEW i \in 1 .. Len(resolvers')
                 PROVE  resolvers'[i] \in taken' /\ value'[resolvers'[i]] = Pending
      OBVIOUS
    <3>1. i + 1 \in 1 .. Len(resolvers) /\ resolvers'[i] = resolvers[i + 1]
      BY <1>3
    <3>2. resolvers[i + 1] \in taken /\ value[resolvers[i + 1]] = Pending
      BY <3>1 DEF SidesSettled
    <3> QED BY <1>1, <1>7, <3>1, <3>2 DEF TypeOK
  <2>2. Len(promises') = 0
    BY <1>1, <1>2
  <2> QED BY <2>1, <2>2 DEF SidesSettled
<1>9. FreshPending'
  BY <1>1, <1>3 DEF FreshPending, TypeOK
<1>10. FlushNeverWaits'
  BY <1>1, AsyncQueueAssumption DEF FlushNeverWaits, TypeOK
<1> QED BY <1>4, <1>5, <1>6, <1>8, <1>9, <1>10

(* A put() that stores its message. *)
LEMMA PutStores ==
    ASSUME QueueInv, NEW t \in Item, Put(t), resolvers = <<>>
    PROVE  QueueInv'
<1> USE DEF QueueInv
<1>1. PICK p \in Promise \ created :
         /\ created' = created \cup {p}
         /\ promises' = Append(promises, p)
         /\ value' = [value EXCEPT ![p] = t]
         /\ UNCHANGED <<resolvers, taken, flushing>>
  BY DEF Put, NobodyWaits, Settle, Push, Fresh
<1>2. /\ promises' \in Seq(Promise)
      /\ Len(promises') = Len(promises) + 1
      /\ Len(promises) \in Nat
      /\ \A i \in 1 .. Len(promises) : promises'[i] = promises[i]
      /\ promises'[Len(promises) + 1] = p
  <2>1. promises \in Seq(Promise) BY DEF TypeOK
  <2> QED BY <1>1, <2>1, AppendElements
<1>3. \A i \in 1 .. Len(promises) : promises[i] # p
  BY DEF SidesSettled
<1>4. p \notin taken
  BY DEF TypeOK
<1>5. TypeOK'
  BY <1>1, <1>2 DEF TypeOK
<1>6. OneSided'
  BY <1>1 DEF OneSided
<1>7. NoRepeats'
  BY <1>1, <1>2, <1>3 DEF NoRepeats
<1>8. SidesSettled'
  <2>1. ASSUME NEW i \in 1 .. Len(promises')
        PROVE  promises'[i] \in created' \ taken' /\ value'[promises'[i]] # Pending
    <3>1. CASE i = Len(promises) + 1
      BY <1>1, <1>2, <1>4, <3>1, AsyncQueueAssumption DEF TypeOK
    <3>2. CASE i # Len(promises) + 1
      <4>1. i \in 1 .. Len(promises) /\ promises'[i] = promises[i]
        BY <1>2, <3>2
      <4>2. promises[i] \in created \ taken /\ value[promises[i]] # Pending
        BY <4>1 DEF SidesSettled
      <4> QED BY <1>1, <4>1, <4>2, <1>3 DEF TypeOK
    <3> QED BY <3>1, <3>2
  <2>2. Len(resolvers') = 0
    BY <1>1
  <2> QED BY <2>1, <2>2 DEF SidesSettled
<1>9. FreshPending'
  BY <1>1 DEF FreshPending, TypeOK
<1>10. FlushNeverWaits'
  BY <1>1, AsyncQueueAssumption DEF FlushNeverWaits, TypeOK
<1> QED BY <1>5, <1>6, <1>7, <1>8, <1>9, <1>10

(* A get() that takes a stored message.  The flush that may be waiting is  *)
(* left to the callers of the lemma.                                       *)
LEMMA TakeStored ==
    ASSUME QueueInv, NEW p \in Promise, Take(p), promises # <<>>
    PROVE  /\ TypeOK' \/ ~ (flushing' \subseteq taken')
           /\ OneSided' /\ SidesSettled' /\ NoRepeats' /\ FreshPending'
           /\ p \in taken' /\ value'[p] # Pending
<1> USE DEF QueueInv
<1>1. /\ p = Head(promises)
      /\ promises' = Tail(promises)
      /\ taken' = taken \cup {p}
      /\ UNCHANGED <<resolvers, created, value>>
  BY DEF Take, ShiftPromises
<1>2. resolvers = <<>>
  BY DEF OneSided
<1>3. /\ promises' \in Seq(Promise)
      /\ Len(promises) \in Nat \ {0}
      /\ Len(promises') = Len(promises) - 1
      /\ \A i \in 1 .. Len(promises') : promises'[i] = promises[i + 1]
      /\ p = promises[1]
  <2>1. promises \in Seq(Promise) BY DEF TypeOK
  <2> QED BY <1>1, <2>1, TailElements
<1>4. /\ p \in created \ taken
      /\ value[p] # Pending
  BY <1>3 DEF SidesSettled
<1>5. TypeOK' \/ ~ (flushing' \subseteq taken')
  BY <1>1, <1>3, <1>4 DEF TypeOK
<1>6. OneSided'
  BY <1>1, <1>2 DEF OneSided
<1>7. NoRepeats'
  BY <1>1, <1>2, <1>3 DEF NoRepeats
<1>8. SidesSettled'
  <2>1. ASSUME NEW i \in 1 .. Len(promises')
        PROVE  promises'[i] \in created' \ taken' /\ value'[promises'[i]] # Pending
    <3>1. i + 1 \in 1 .. Len(promises) /\ promises'[i] = promises[i + 1]
      BY <1>3
    <3>2. promises[i + 1] \in created \ taken /\ value[promises[i + 1]] # Pending
      BY <3>1 DEF SidesSettled
    <3>3. promises[i + 1] # p
      BY <1>3, <3>1 DEF NoRepeats
    <3> QED BY <1>1, <3>1, <3>2, <3>3
  <2>2. Len(resolvers') = 0
    BY <1>1, <1>2
  <2> QED BY <2>1, <2>2 DEF SidesSettled
<1>9. FreshPending'
  BY <1>1 DEF FreshPending
<1> QED BY <1>1, <1>4, <1>5, <1>6, <1>7, <1>8, <1>9

(* A get() that has to wait. *)
LEMMA TakeWaits ==
    ASSUME QueueInv, NEW p \in Promise, Take(p), promises = <<>>
    PROVE  /\ TypeOK' \/ ~ (flushing' \subseteq taken')
           /\ OneSided' /\ SidesSettled' /\ NoRepeats' /\ FreshPending'
<1> USE DEF QueueInv
<1>1. /\ p \in Promise \ created
      /\ created' = created \cup {p}
      /\ resolvers' = Append(resolvers, p)
      /\ taken' = taken \cup {p}
      /\ UNCHANGED <<promises, value>>
  BY DEF Take, Fresh, Push
<1>2. /\ resolvers' \in Seq(Promise)
      /\ Len(resolvers) \in Nat
      /\ Len(resolvers') = Len(resolvers) + 1
      /\ \A i \in 1 .. Len(resolvers) : resolvers'[i] = resolvers[i]
      /\ resolvers'[Len(resolvers) + 1] = p
  <2>1. resolvers \in Seq(Promise) BY DEF TypeOK
  <2> QED BY <1>1, <2>1, AppendElements
<1>3. \A i \in 1 .. Len(resolvers) : resolvers[i] # p
  BY <1>1 DEF SidesSettled, TypeOK
<1>4. TypeOK' \/ ~ (flushing' \subseteq taken')
  BY <1>1, <1>2 DEF TypeOK
<1>5. OneSided'
  BY <1>1 DEF OneSided
<1>6. NoRepeats'
  BY <1>1, <1>2, <1>3 DEF NoRepeats
<1>7. SidesSettled'
  <2>1. ASSUME NEW i \in 1 .. Len(resolvers')
        PROVE  resolvers'[i] \in taken' /\ value'[resolvers'[i]] = Pending
    <3>1. CASE i = Len(resolvers) + 1
      BY <1>1, <1>2, <3>1 DEF FreshPending
    <3>2. CASE i # Len(resolvers) + 1
      <4>1. i \in 1 .. Len(resolvers) /\ resolvers'[i] = resolvers[i]
        BY <1>2, <3>2
      <4>2. resolvers[i] \in taken /\ value[resolvers[i]] = Pending
        BY <4>1 DEF SidesSettled
      <4> QED BY <1>1, <4>1, <4>2
    <3> QED BY <3>1, <3>2
  <2>2. Len(promises') = 0
    BY <1>1
  <2> QED BY <2>1, <2>2 DEF SidesSettled
<1>8. FreshPending'
  BY <1>1 DEF FreshPending
<1> QED BY <1>4, <1>5, <1>6, <1>7, <1>8

-----------------------------------------------------------------------------
LEMMA InitQueueInv == Init => QueueInv
<1> SUFFICES ASSUME Init PROVE QueueInv
  OBVIOUS
<1>1. Len(promises) = 0 /\ Len(resolvers) = 0
  BY DEF Init
<1> QED
  BY <1>1 DEF Init, QueueInv, TypeOK, OneSided, SidesSettled, NoRepeats,
              FreshPending, FlushNeverWaits

LEMMA NextQueueInv == QueueInv /\ [Next]_vars => QueueInv'
<1> SUFFICES ASSUME QueueInv, [Next]_vars PROVE QueueInv'
  OBVIOUS
<1>1. ASSUME NEW t \in Item, Put(t) PROVE QueueInv'
  BY <1>1, PutAnswers, PutStores
<1>2. CASE Get
  <2>1. PICK p \in Promise : Take(p) /\ UNCHANGED flushing
    BY <1>2 DEF Get
  <2>2. OneSided' /\ SidesSettled' /\ NoRepeats' /\ FreshPending'
    BY <2>1, TakeStored, TakeWaits
  <2>3. flushing' \subseteq taken' /\ FlushNeverWaits'
    BY <2>1 DEF QueueInv, TypeOK, Take, FlushNeverWaits
  <2>4. TypeOK'
    BY <2>1, <2>3, TakeStored, TakeWaits
  <2> QED BY <2>2, <2>3, <2>4 DEF QueueInv
<1>3. CASE Reset
  <2>1. Len(promises') = 0 /\ Len(resolvers') = 0
    BY <1>3 DEF Reset
  <2> QED BY <1>3, <2>1 DEF Reset, QueueInv, TypeOK, OneSided, SidesSettled,
                            NoRepeats, FreshPending, FlushNeverWaits
<1>4. CASE FlushRead
  <2>1. PICK p \in Promise : Take(p) /\ flushing' = {p}
    BY <1>4 DEF FlushRead
  <2>2. promises # <<>>
    BY <1>4 DEF FlushRead, IsEmpty
  <2>3. /\ OneSided' /\ SidesSettled' /\ NoRepeats' /\ FreshPending'
        /\ p \in taken' /\ value'[p] # Pending
    BY <2>1, <2>2, TakeStored
  <2>4. flushing' \subseteq taken' /\ FlushNeverWaits'
    BY <2>1, <2>3 DEF FlushNeverWaits
  <2>5. TypeOK'
    BY <2>1, <2>2, <2>4, TakeStored
  <2> QED BY <2>3, <2>4, <2>5 DEF QueueInv
<1>5. CASE FlushResume
  BY <1>5 DEF FlushResume, QueueInv, TypeOK, OneSided, SidesSettled, NoRepeats,
              FreshPending, FlushNeverWaits
<1>6. CASE UNCHANGED vars
  BY <1>6 DEF vars, QueueInv, TypeOK, OneSided, SidesSettled, NoRepeats,
              FreshPending, FlushNeverWaits
<1> QED BY <1>1, <1>2, <1>3, <1>4, <1>5, <1>6 DEF Next

(* The invariant of the queue holds in every reachable state, however many *)
(* messages and promises there are.                                        *)
THEOREM QueueInvariant == Spec => []QueueInv
  BY InitQueueInv, NextQueueInv, PTL DEF Spec

(* The queues hold promises, and a promise holds one message or none: #add() *)
(* makes every promise that put() or get() shifts.                           *)
THEOREM TypeCorrect == Spec => []TypeOK
<1>1. QueueInv => TypeOK
  BY DEF QueueInv
<1> QED BY <1>1, QueueInvariant, PTL

(* No get() is given an empty promise while messages are queued, and no put() *)
(* settles a promise nobody awaits or settles one twice (queue.ts).           *)
THEOREM SidesAlwaysSettled == Spec => []SidesSettled
<1>1. QueueInv => SidesSettled
  BY DEF QueueInv
<1> QED BY <1>1, QueueInvariant, PTL

(* put() and get() never leave promises on both sides (queue.ts). *)
THEOREM OneSidedAlways == Spec => []OneSided
<1>1. QueueInv => OneSided
  BY DEF QueueInv
<1> QED BY <1>1, QueueInvariant, PTL

(* flush() never blocks (channel.ts: flush). *)
THEOREM FlushNeverBlocks == Spec => []FlushNeverWaits
<1>1. QueueInv => FlushNeverWaits
  BY DEF QueueInv
<1> QED BY <1>1, QueueInvariant, PTL

-----------------------------------------------------------------------------
(* What the abstract queue sees: the stored items are a sequence, as long  *)
(* as #promises and empty with it.                                         *)
LEMMA StoredItemsShape ==
    ASSUME QueueInv
    PROVE  /\ StoredItems \in Seq(Item \cup {Pending})
           /\ Len(StoredItems) = Len(promises)
           /\ \A i \in 1 .. Len(promises) : StoredItems[i] = value[promises[i]]
           /\ (StoredItems = <<>>) <=> (promises = <<>>)
<1>1. promises \in Seq(Promise) /\ value \in [Promise -> Item \cup {Pending}]
  BY DEF QueueInv, TypeOK
<1>2. StoredItems \in [1 .. Len(promises) -> Item \cup {Pending}]
  BY <1>1 DEF StoredItems
<1>3. StoredItems \in Seq(Item \cup {Pending}) /\ Len(StoredItems) = Len(promises)
  BY <1>1, <1>2
<1> QED BY <1>1, <1>2, <1>3 DEF StoredItems

(* Two sequences with the same length and elements are equal. *)
LEMMA SameElements ==
    ASSUME NEW S, NEW s \in Seq(S), NEW t \in Seq(S), Len(s) = Len(t),
           \A i \in 1 .. Len(s) : s[i] = t[i]
    PROVE  s = t
  OBVIOUS

(* put() is Put, whichever side is waiting. *)
LEMMA PutSimulates ==
    ASSUME QueueInv, QueueInv', NEW t \in Item, Put(t)
    PROVE  Pairing!Put(t)
<1> DEFINE Value == Item \cup {Pending}
<1>1. CASE resolvers # <<>>
  <2>1. /\ value' = [value EXCEPT ![Head(resolvers)] = t]
        /\ resolvers' = Tail(resolvers)
        /\ UNCHANGED <<promises, taken>>
    BY <1>1 DEF Put, NobodyWaits, Settle
  <2>2. promises = <<>>
    BY <1>1 DEF QueueInv, OneSided
  <2>3. Head(resolvers) \in taken /\ Head(resolvers) \in Promise
    BY <1>1, TailElements DEF QueueInv, TypeOK, SidesSettled
  <2>4. Answer' = [Answer EXCEPT ![Head(resolvers)] = t]
    BY <2>1, <2>3 DEF Answer, QueueInv, TypeOK
  <2>5. StoredItems' = StoredItems
    BY <2>1, <2>2, StoredItemsShape, Len(promises) = 0 DEF StoredItems
  <2> QED BY <1>1, <2>1, <2>4, <2>5 DEF Pairing!Put
<1>2. CASE resolvers = <<>>
  <2>1. PICK p \in Promise \ created :
           /\ promises' = Append(promises, p)
           /\ value' = [value EXCEPT ![p] = t]
           /\ UNCHANGED <<resolvers, taken>>
    BY <1>2 DEF Put, NobodyWaits, Settle, Push, Fresh
  <2>2. p \notin taken
    BY DEF QueueInv, TypeOK
  <2>3. Answer' = Answer
    BY <2>1, <2>2 DEF Answer, QueueInv, TypeOK
  <2>4. StoredItems' = Append(StoredItems, t)
    <3>1. /\ promises \in Seq(Promise)
          /\ Len(promises') = Len(promises) + 1
          /\ Len(promises) \in Nat
          /\ \A i \in 1 .. Len(promises) : promises'[i] = promises[i]
          /\ promises'[Len(promises) + 1] = p
      BY <2>1, AppendElements DEF QueueInv, TypeOK
    <3>2. /\ StoredItems \in Seq(Value)
          /\ Len(StoredItems) = Len(promises)
          /\ \A i \in 1 .. Len(promises) : StoredItems[i] = value[promises[i]]
      BY StoredItemsShape
    <3>3. /\ StoredItems' \in Seq(Value)
          /\ Len(StoredItems') = Len(promises')
          /\ \A i \in 1 .. Len(promises') : StoredItems'[i] = value'[promises'[i]]
      <4>1. promises' \in Seq(Promise) /\ value' \in [Promise -> Value]
        BY DEF QueueInv, TypeOK
      <4>2. StoredItems' \in [1 .. Len(promises') -> Value]
        BY <4>1 DEF StoredItems
      <4> QED BY <4>1, <4>2 DEF StoredItems
    <3>4. /\ Append(StoredItems, t) \in Seq(Value)
          /\ Len(Append(StoredItems, t)) = Len(promises) + 1
          /\ \A i \in 1 .. Len(promises) : Append(StoredItems, t)[i] = StoredItems[i]
          /\ Append(StoredItems, t)[Len(promises) + 1] = t
      BY <3>2, AppendElements
    <3>5. ASSUME NEW i \in 1 .. Len(StoredItems')
          PROVE  StoredItems'[i] = Append(StoredItems, t)[i]
      <4>1. CASE i = Len(promises) + 1
        <5>1. value \in [Promise -> Item \cup {Pending}]
          BY DEF QueueInv, TypeOK
        <5>2. StoredItems'[i] = value'[p]
          BY <3>1, <3>3, <4>1
        <5> QED BY <2>1, <3>4, <4>1, <5>1, <5>2
      <4>2. CASE i # Len(promises) + 1
        <5>1. i \in 1 .. Len(promises)
          BY <3>1, <3>3, <4>2
        <5>2. promises[i] \in created
          BY <5>1 DEF QueueInv, SidesSettled
        <5>3. value'[promises[i]] = value[promises[i]]
          BY <2>1, <5>2 DEF QueueInv, TypeOK
        <5> QED BY <3>1, <3>2, <3>3, <3>4, <5>1, <5>3
      <4> QED BY <4>1, <4>2
    <3> HIDE DEF Value
    <3> QED BY <3>1, <3>3, <3>4, <3>5, SameElements
  <2>5. StoredItems' = Append(StoredItems, t) /\ resolvers' = resolvers
    BY <2>1, <2>4
  <2> QED BY <1>2, <2>3, <2>5 DEF Pairing!Put
<1> QED BY <1>1, <1>2

(* get() is Get, of the promise it hands out. *)
LEMMA TakeSimulates ==
    ASSUME QueueInv, QueueInv', NEW p \in Promise, Take(p)
    PROVE  Pairing!Get(p)
<1> DEFINE Value == Item \cup {Pending}
<1>1. CASE promises # <<>>
  <2>1. /\ p = Head(promises)
        /\ promises' = Tail(promises)
        /\ taken' = taken \cup {p}
        /\ UNCHANGED <<resolvers, value>>
    BY <1>1 DEF Take, ShiftPromises
  <2>2. /\ Len(promises) \in Nat \ {0}
        /\ Len(promises') = Len(promises) - 1
        /\ \A i \in 1 .. Len(promises') : promises'[i] = promises[i + 1]
        /\ p = promises[1]
    BY <1>1, <2>1, TailElements DEF QueueInv, TypeOK
  <2>3. p \notin taken
    BY <2>2 DEF QueueInv, SidesSettled
  <2>4. /\ StoredItems \in Seq(Value)
        /\ Len(StoredItems) = Len(promises)
        /\ \A i \in 1 .. Len(promises) : StoredItems[i] = value[promises[i]]
        /\ StoredItems # <<>>
    BY <1>1, StoredItemsShape
  <2>5. /\ StoredItems' \in Seq(Value)
        /\ Len(StoredItems') = Len(promises')
        /\ \A i \in 1 .. Len(promises') : StoredItems'[i] = value'[promises'[i]]
    <3>1. promises' \in Seq(Promise) /\ value' \in [Promise -> Value]
      BY DEF QueueInv, TypeOK
    <3>2. StoredItems' \in [1 .. Len(promises') -> Value]
      BY <3>1 DEF StoredItems
    <3> QED BY <3>1, <3>2 DEF StoredItems
  <2>6. /\ Tail(StoredItems) \in Seq(Value)
        /\ Len(Tail(StoredItems)) = Len(promises) - 1
        /\ \A i \in 1 .. Len(Tail(StoredItems)) : Tail(StoredItems)[i] = StoredItems[i + 1]
        /\ Head(StoredItems) = StoredItems[1]
    BY <2>4, TailElements
  <2>7. ASSUME NEW i \in 1 .. Len(StoredItems')
        PROVE  StoredItems'[i] = Tail(StoredItems)[i]
    BY <2>1, <2>2, <2>4, <2>5, <2>6
  <2>8. StoredItems' = Tail(StoredItems)
    <3> HIDE DEF Value
    <3> QED BY <2>2, <2>5, <2>6, <2>7, SameElements
  <2>9. Head(StoredItems) = value[p]
    BY <2>2, <2>4, <2>6
  <2>10. Answer[p] = Unasked /\ Answer' = [Answer EXCEPT ![p] = Head(StoredItems)]
    BY <2>1, <2>3, <2>9 DEF Answer
  <2> QED BY <2>1, <2>4, <2>8, <2>10 DEF Pairing!Get
<1>2. CASE promises = <<>>
  <2>1. /\ p \in Promise \ created
        /\ resolvers' = Append(resolvers, p)
        /\ taken' = taken \cup {p}
        /\ UNCHANGED <<promises, value>>
    BY <1>2 DEF Take, Fresh, Push
  <2>2. p \notin taken /\ value[p] = Pending
    BY <2>1 DEF QueueInv, TypeOK, FreshPending
  <2>3. Answer[p] = Unasked /\ Answer' = [Answer EXCEPT ![p] = Pending]
    BY <2>1, <2>2 DEF Answer
  <2>4. StoredItems = <<>>
    BY <1>2, StoredItemsShape
  <2>5. StoredItems' = StoredItems
    BY <2>1 DEF StoredItems
  <2> QED BY <2>1, <2>3, <2>4, <2>5 DEF Pairing!Get
<1> QED BY <1>1, <1>2

(* Every step of the queue is a step of the pairing or changes nothing it  *)
(* sees.                                                                   *)
LEMMA StepSimulates ==
    ASSUME QueueInv, QueueInv', [Next]_vars
    PROVE  [Pairing!Next]_(Pairing!abstractVars)
<1>1. ASSUME NEW t \in Item, Put(t) PROVE Pairing!Next
  BY <1>1, PutSimulates DEF Pairing!Next
<1>2. ASSUME NEW p \in Promise, Take(p) PROVE Pairing!Next
  BY <1>2, TakeSimulates DEF Pairing!Next
<1>3. CASE Reset
  <2>1. StoredItems' = <<>>
    <3>1. promises' = <<>>
      BY <1>3 DEF Reset
    <3> QED BY <3>1 DEF StoredItems
  <2>2. Answer' = Answer
    BY <1>3 DEF Reset, Answer
  <2> QED BY <1>3, <2>1, <2>2 DEF Reset, Pairing!Forget, Pairing!Next
<1>4. CASE FlushResume \/ UNCHANGED vars
  BY <1>4 DEF FlushResume, vars, StoredItems, Answer, Pairing!abstractVars
<1> QED BY <1>1, <1>2, <1>3, <1>4 DEF Next, Get, FlushRead

(* The queue of promises implements the first-in first-out pairing, for    *)
(* any messages and any number of promises.                                *)
THEOREM QueueImplementsPairing == Spec => ImplementsPairing
<1>1. Init => Pairing!Init
  BY DEF Init, Pairing!Init, StoredItems, Answer
<1>2. QueueInv /\ QueueInv' /\ [Next]_vars => [Pairing!Next]_(Pairing!abstractVars)
  BY StepSimulates
<1> QED
  BY <1>1, <1>2, QueueInvariant, PTL DEF Spec, Pairing!Spec, ImplementsPairing
====
