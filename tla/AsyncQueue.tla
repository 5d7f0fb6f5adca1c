---- MODULE AsyncQueue ----
(***************************************************************************)
(* AsyncQueue (src/webR/chan/queue.ts) and the flush() of ChannelMain that *)
(* drains one (src/webR/chan/channel.ts).                                  *)
(*                                                                         *)
(* The class keeps no items: it keeps promises nobody has taken yet and    *)
(* the resolvers of promises nobody has settled yet.  A promise and its    *)
(* resolver are the same element of Promise here, at the head of           *)
(* `promises' or of `resolvers' according to which side comes next.        *)
(* JavaScript runs each method to completion, so a method is one action.   *)
(***************************************************************************)
EXTENDS Naturals, Sequences

CONSTANTS Item,      \* messages
          Promise,   \* identities of the promises #add() may create
          Pending,   \* value of a promise that is not settled
          Unasked    \* stands for "not handed out" in the refinement mapping

ASSUME AsyncQueueAssumption ==
    Pending # Unasked /\ {Pending, Unasked} \cap Item = {}

VARIABLES
    promises,   \* #promises: created and not yet shifted by a get()
    resolvers,  \* #resolvers: created and not yet shifted by a put()
    value,      \* what each promise is settled with, or Pending
    created,    \* the promises #add() has made so far
    taken,      \* the promises get() has handed out
    flushing    \* the promises flush() awaits: {} between two of its reads

vars == <<promises, resolvers, value, created, taken, flushing>>

TypeOK ==
    /\ promises \in Seq(Promise)
    /\ resolvers \in Seq(Promise)
    /\ value \in [Promise -> Item \cup {Pending}]
    /\ created \subseteq Promise
    /\ taken \subseteq created
    /\ flushing \subseteq taken

Init ==
    /\ promises = <<>>
    /\ resolvers = <<>>
    /\ value = [p \in Promise |-> Pending]
    /\ created = {}
    /\ taken = {}
    /\ flushing = {}

(* #add() makes a promise nobody has made before. *)
Fresh(p) == p \in Promise \ created

(* What a broken variant of the code would do, one per property: resolve() *)
(* called without its argument, put() without the test before #add(),      *)
(* get() that reads the head of #promises without shifting it, #add() that *)
(* puts the new promise first.                                             *)
SettleWithNothing(p, t) == [value EXCEPT ![p] = Unasked]
AlwaysAdd == TRUE
PeekPromises == promises
Unshift(list, p) == <<p>> \o list

Push(list, p) == Append(list, p)
Settle(p, t) == [value EXCEPT ![p] = t]
NobodyWaits == resolvers = <<>>
ShiftPromises == Tail(promises)

Put(t) ==
    \/ /\ ~ NobodyWaits
       /\ value' = Settle(Head(resolvers), t)
       /\ resolvers' = Tail(resolvers)
       /\ UNCHANGED <<promises, created, taken, flushing>>
    \/ /\ NobodyWaits
       /\ \E p \in Promise :
            /\ Fresh(p)
            /\ created' = created \cup {p}
            /\ promises' = Push(promises, p)
            /\ value' = Settle(p, t)
       /\ UNCHANGED <<resolvers, taken, flushing>>

(* get(), for a caller that awaits promise p. *)
Take(p) ==
    /\ taken' = taken \cup {p}
    /\ UNCHANGED value
    /\ \/ /\ promises # <<>>
          /\ p = Head(promises)
          /\ promises' = ShiftPromises
          /\ UNCHANGED <<resolvers, created>>
       \/ /\ promises = <<>>
          /\ Fresh(p)
          /\ created' = created \cup {p}
          /\ resolvers' = Push(resolvers, p)
          /\ UNCHANGED promises

Get == \E p \in Promise : Take(p) /\ UNCHANGED flushing

Reset ==
    /\ promises' = <<>>
    /\ resolvers' = <<>>
    /\ UNCHANGED <<value, created, taken, flushing>>

NeverEmpty == FALSE   \* a flush() that reads without its test

IsEmpty == promises = <<>>

(* One turn of flush()'s loop: the isEmpty() test and the read() it guards *)
(* run together, then flush() awaits the promise it got.                   *)
FlushRead ==
    /\ flushing = {}
    /\ ~ IsEmpty
    /\ \E p \in Promise : Take(p) /\ flushing' = {p}

FlushResume ==
    /\ \E p \in flushing : value[p] # Pending
    /\ flushing' = {}
    /\ UNCHANGED <<promises, resolvers, value, created, taken>>

Next ==
    \/ \E t \in Item : Put(t)
    \/ Get
    \/ Reset
    \/ FlushRead
    \/ FlushResume

Spec == Init /\ [][Next]_vars

-----------------------------------------------------------------------------
(* put() and get() never leave promises on both sides: unclaimed items and *)
(* unanswered calls exclude each other, and `length' is the difference of  *)
(* two numbers one of which is 0 (queue.ts: put, get, length).             *)
OneSided == promises = <<>> \/ resolvers = <<>>

(* A promise still queued for a get() is settled already, one whose        *)
(* resolver is queued was handed out and is not settled: no caller is ever *)
(* given an empty promise while items are queued, and no item goes into a  *)
(* promise that nobody awaits or that already has one.                     *)
SidesSettled ==
    /\ \A i \in 1 .. Len(promises) :
         /\ promises[i] \in created \ taken
         /\ value[promises[i]] # Pending
    /\ \A i \in 1 .. Len(resolvers) :
         /\ resolvers[i] \in taken
         /\ value[resolvers[i]] = Pending

(* flush() returns what is there and never blocks: the promise it awaits   *)
(* after finding the queue not empty is settled, whatever the other        *)
(* readers and reset() do meanwhile (channel.ts: flush).                   *)
FlushNeverWaits == \A p \in flushing : value[p] # Pending

(* No promise is queued twice, on either side. *)
NoRepeats ==
    /\ \A i, j \in 1 .. Len(promises) : promises[i] = promises[j] => i = j
    /\ \A i, j \in 1 .. Len(resolvers) : resolvers[i] = resolvers[j] => i = j

(* A promise #add() has not made has no value: the fresh promise of a put  *)
(* or a get is pending.                                                    *)
FreshPending == \A p \in Promise \ created : value[p] = Pending

QueueInv ==
    TypeOK /\ OneSided /\ SidesSettled /\ NoRepeats /\ FreshPending /\ FlushNeverWaits

-----------------------------------------------------------------------------
(* The queue of promises implements the first-in first-out pairing of      *)
(* items and calls.  Queued promises are stored items, queued resolvers    *)
(* are waiting calls, and a call is known by the promise it awaits.        *)
StoredItems == [i \in 1 .. Len(promises) |-> value[promises[i]]]
Answer == [p \in Promise |-> IF p \in taken THEN value[p] ELSE Unasked]

Pairing == INSTANCE Rendezvous
             WITH Call <- Promise, Waiting <- Pending,
                  items <- StoredItems, callers <- resolvers, answer <- Answer

(* Every behaviour of put, get, reset and flush is a behaviour of the      *)
(* abstract pairing: the k-th get() receives the k-th put() since the last *)
(* reset(), whichever of the two came first.                               *)
ImplementsPairing == Pairing!Spec
====
