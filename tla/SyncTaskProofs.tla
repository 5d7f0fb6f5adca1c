---- MODULE SyncTaskProofs ----
(***************************************************************************)
(* The synchronous request protocol is safe for any number of requests     *)
(* nested to any depth, in Node and in browsers.                           *)
(*                                                                         *)
(* The inductive invariant says, of each task, where the two threads can   *)
(* be together (Local), what the data buffers they share belong to         *)
(* (PoolOK, Owned) and what a message on its way to the main thread still  *)
(* stands for (InboxOK).                                                   *)
(***************************************************************************)
EXTENDS SyncTask, SequenceTheorems, TLAPS

(* Data buffers of the pool are filed under their size, each once. *)
PoolOK(pl, cap) ==
    /\ pl \in [SizeClass -> Seq(Buffer)]
    /\ \A c \in SizeClass : \A i \in 1 .. Len(pl[c]) : cap[pl[c][i]] = c
    /\ \A c \in SizeClass : \A i, j \in 1 .. Len(pl[c]) : pl[c][i] = pl[c][j] => i = j
InPool(pl, b) == \E c \in SizeClass : \E i \in 1 .. Len(pl[c]) : pl[c][i] = b

(* A task that was started has a buffer nobody else has. *)
Started(t) == phase[t] # "new"
Owned ==
    /\ \A t \in Task : Started(t) =>
         /\ buffer[t] \in Buffer
         /\ capacity[buffer[t]] \in SizeClass
         /\ ~ InPool(pool, buffer[t])
    /\ \A t, u \in Task : Started(t) /\ Started(u) /\ buffer[t] = buffer[u] => t = u
    /\ \A t \in Task : ~ Started(t) => buffer[t] = None

StackOK == \A i \in 1 .. Len(stack) : Started(stack[i])

(* A request that was not received is not being answered, a bigger buffer  *)
(* that was not received is awaited; there is one message of each.         *)
AsksFor(m, t) ==
    /\ m.type = "sync-request"
    /\ m.task = t
Grows(m, t) ==
    /\ m.type = "buffer"
    /\ m.id = Uuid(t)
InboxOK ==
    /\ \A i \in 1 .. Len(inbox) : \E t \in Task :
         /\ inbox[i].buffer = buffer[t]
         /\ \/ AsksFor(inbox[i], t) /\ reply[t] = "none" /\ Started(t)
            \/ Grows(inbox[i], t) /\ reply[t] = "listen" /\ t \in grown
    /\ \A i, j \in 1 .. Len(inbox) : \A t \in Task :
         \/ AsksFor(inbox[i], t) /\ AsksFor(inbox[j], t)
         \/ Grows(inbox[i], t) /\ Grows(inbox[j], t)
         => i = j

(* The worker has not been signalled, or it has and is to find out, or it  *)
(* has cleared the bit.                                                    *)
Blocked(t) == phase[t] \in {"waiting", "abandoned"} /\ signal[t] = 0
Quiet(t) == Blocked(t) /\ slot[t] = 0
Signalled(t) ==
    /\ slot[t] = TaskId
    /\ \/ phase[t] \in {"waiting", "abandoned"} /\ signal[t] = 1
       \/ phase[t] \in {"cleared", "abandoned"} /\ signal[t] = 0
Done(t) == phase[t] \in {"returned", "abandoned"} /\ signal[t] = 0 /\ slot[t] = 0

(* What the buffer of a task holds at each of the two signals. *)
Sized(t) == response[t] \in Payload /\ size[t] = SizeOf(response[t])
TooSmall(t) == Sized(t) /\ t \notin grown /\ fits[t] = 0 /\ content[buffer[t]] = Uuid(t)
Grown(t) == Sized(t) /\ t \in grown /\ capacity[buffer[t]] = size[t]
Filled(t) ==
    /\ response[t] \in Payload
    /\ fits[t] = 1
    /\ content[buffer[t]] = Bytes(t, response[t])

Local(t) ==
    /\ phase[t] = "new" => reply[t] = "none"
    /\ t \in listening => reply[t] \in {"store slot uuid", "set bit uuid", "listen"}
    /\ reply[t] \in {"none", "pending", "failed"} => t \notin grown /\ response[t] = None
    /\ reply[t] = "none" => phase[t] = "new" \/ Quiet(t)
    /\ reply[t] = "none" => signal[t] = 0 /\ slot[t] = 0
    /\ reply[t] \in {"pending", "failed"} => Quiet(t)
    /\ reply[t] \in {"pending", "write"} => target[t] = buffer[t]
    /\ reply[t] = "write" => Quiet(t) /\ response[t] \in Payload
                             /\ SizeOf(response[t]) <= capacity[buffer[t]]
    /\ reply[t] = "store slot uuid" => Quiet(t) /\ TooSmall(t)
    /\ reply[t] = "set bit uuid" => Blocked(t) /\ slot[t] = TaskId /\ TooSmall(t)
    /\ reply[t] = "listen" => (Signalled(t) /\ TooSmall(t)) \/ (Quiet(t) /\ Grown(t))
    /\ reply[t] = "store slot" => Quiet(t) /\ Filled(t)
    /\ reply[t] = "set bit" => Blocked(t) /\ slot[t] = TaskId /\ Filled(t)
    /\ reply[t] = "sent" => (Signalled(t) \/ Done(t)) /\ Filled(t)

SyncInv ==
    /\ TypeOK
    /\ PoolOK(pool, capacity)
    /\ Owned
    /\ StackOK
    /\ InboxOK
    /\ \A t \in Task : Local(t)

-----------------------------------------------------------------------------
(* What the sequence operators of the worker do to elements. *)
LEMMA AppendElements ==
    ASSUME NEW S, NEW s \in Seq(S), NEW e \in S
    PROVE  /\ Append(s, e) \in Seq(S)
           /\ Len(s) \in Nat /\ Len(Append(s, e)) = Len(s) + 1
           /\ \A i \in 1 .. Len(s) : Append(s, e)[i] = s[i]
           /\ Append(s, e)[Len(s) + 1] = e
  OBVIOUS

LEMMA TailElements ==
    ASSUME NEW S, NEW s \in Seq(S), s # <<>>
    PROVE  /\ Tail(s) \in Seq(S)
           /\ Len(s) \in Nat \ {0} /\ Len(Tail(s)) = Len(s) - 1
           /\ \A i \in 1 .. Len(Tail(s)) : Tail(s)[i] = s[i + 1]
           /\ Head(s) = s[1] /\ Head(s) \in S
  OBVIOUS

LEMMA FrontElements ==
    ASSUME NEW S, NEW s \in Seq(S), s # <<>>
    PROVE  /\ Front(s) \in Seq(S)
           /\ Len(s) \in Nat \ {0} /\ Len(Front(s)) = Len(s) - 1
           /\ \A i \in 1 .. Len(Front(s)) : Front(s)[i] = s[i]
           /\ Last(s) = s[Len(s)] /\ Last(s) \in S
<1>1. Len(s) \in Nat \ {0}
  OBVIOUS
<1>2. \A i \in 1 .. Len(s) : s[i] \in S
  OBVIOUS
<1> DEFINE n == Len(s) - 1
<1>3. n \in Nat /\ \A i \in 1 .. n : s[i] \in S
  BY <1>1, <1>2
<1> HIDE DEF n
<1>4. /\ SubSeq(s, 1, n) \in Seq(S)
      /\ Len(SubSeq(s, 1, n)) = IF 1 <= n THEN n - 1 + 1 ELSE 0
      /\ \A i \in 1 .. n - 1 + 1 : SubSeq(s, 1, n)[i] = s[1 + i - 1]
  BY <1>3, SubSeqProperties
<1>5. Len(SubSeq(s, 1, n)) = n /\ \A i \in 1 .. n : SubSeq(s, 1, n)[i] = s[i]
  BY <1>3, <1>4
<1> QED BY <1>1, <1>2, <1>4, <1>5 DEF Front, Last, n

(* acquireDataBuffer() keeps the pool in order and gives out a buffer that *)
(* was in it or is new.                                                    *)
LEMMA AcquireFacts ==
    ASSUME NEW free, PoolOK(free, capacity), TypeOK,
           NEW b \in Buffer, NEW c \in SizeClass, Acquire(b, c, free)
    PROVE  /\ PoolOK(pool', capacity')
           /\ capacity' \in [Buffer -> SizeClass \cup {0}]
           /\ capacity'[b] = c
           /\ ~ InPool(pool', b)
           /\ \A a : InPool(pool', a) => InPool(free, a)
           /\ \A a \in Buffer : capacity[a] # 0 => capacity'[a] = capacity[a]
           /\ InPool(free, b) \/ capacity[b] = 0
           /\ content' \in [Buffer -> Content]
           /\ \A a \in Buffer : a # b => content'[a] = content[a]
<1>1. content' \in [Buffer -> Content] /\ \A a \in Buffer : a # b => content'[a] = content[a]
  <2>1. Zeroes \in Content
    BY DEF Content
  <2>2. content \in [Buffer -> Content] /\ content' = [content EXCEPT ![b] = Zeroes]
    BY DEF Acquire, TypeOK
  <2> QED BY <2>1, <2>2
<1>2. free \in [SizeClass -> Seq(Buffer)] /\ capacity \in [Buffer -> SizeClass \cup {0}]
  BY DEF PoolOK, TypeOK
<1>3. CASE free[c] # <<>>
  <2>1. /\ b = Last(free[c]) /\ capacity' = capacity
        /\ pool' = [free EXCEPT ![c] = Front(free[c])]
    BY <1>3 DEF Acquire, Popped
  <2>2. /\ Front(free[c]) \in Seq(Buffer)
        /\ Len(free[c]) \in Nat \ {0} /\ Len(Front(free[c])) = Len(free[c]) - 1
        /\ \A i \in 1 .. Len(Front(free[c])) : Front(free[c])[i] = free[c][i]
        /\ b = free[c][Len(free[c])]
    BY <1>2, <1>3, <2>1, FrontElements
  <2>3. \A d \in SizeClass : pool'[d] = IF d = c THEN Front(free[c]) ELSE free[d]
    BY <1>2, <2>1
  <2>4. \A d \in SizeClass : \A i \in 1 .. Len(pool'[d]) :
          i \in 1 .. Len(free[d]) /\ pool'[d][i] = free[d][i]
    BY <2>2, <2>3
  <2>5. pool' \in [SizeClass -> Seq(Buffer)]
    BY <1>2, <2>1, <2>2
  <2>6. PoolOK(pool', capacity')
    <3>1. \A d \in SizeClass : \A i \in 1 .. Len(pool'[d]) : capacity'[pool'[d][i]] = d
      BY <2>1, <2>4 DEF PoolOK
    <3>2. \A d \in SizeClass : \A i, j \in 1 .. Len(pool'[d]) :
             pool'[d][i] = pool'[d][j] => i = j
      BY <2>4 DEF PoolOK
    <3> QED BY <2>5, <3>1, <3>2 DEF PoolOK
  <2>7. capacity[b] = c /\ InPool(free, b)
    BY <2>2 DEF PoolOK, InPool
  <2>8. ~ InPool(pool', b)
    <3>1. SUFFICES ASSUME NEW d \in SizeClass, NEW i \in 1 .. Len(pool'[d]), pool'[d][i] = b
                   PROVE  FALSE
      BY DEF InPool
    <3>2. d = c
      BY <2>4, <2>7, <3>1 DEF PoolOK
    <3>3. i = Len(free[c])
      BY <2>2, <2>4, <3>1, <3>2 DEF PoolOK
    <3> QED BY <2>2, <2>3, <3>2, <3>3
  <2>9. \A a : InPool(pool', a) => InPool(free, a)
    BY <2>4 DEF InPool
  <2> QED BY <1>1, <1>2, <2>1, <2>6, <2>7, <2>8, <2>9
<1>4. CASE free[c] = <<>>
  <2>1. /\ capacity[b] = 0 /\ pool' = free
        /\ capacity' = [capacity EXCEPT ![b] = c]
    BY <1>4 DEF Acquire, Unallocated
  <2>2. c # 0
    BY DEF SizeClass
  <2>3. ~ InPool(free, b)
    BY <2>1, 0 \notin SizeClass DEF InPool, PoolOK, SizeClass
  <2>4. \A a \in Buffer : a # b => capacity'[a] = capacity[a]
    BY <1>2, <2>1
  <2>5. PoolOK(pool', capacity')
    <3>1. \A d \in SizeClass : \A i \in 1 .. Len(free[d]) :
             free[d][i] \in Buffer /\ free[d][i] # b
      BY <1>2, <2>3 DEF InPool
    <3> QED BY <2>1, <2>4, <3>1 DEF PoolOK
  <2> QED BY <1>1, <1>2, <2>1, <2>3, <2>4, <2>5
<1> QED BY <1>3, <1>4

(* releaseDataBuffer() of a buffer that is not in the pool. *)
LEMMA ReleasedFacts ==
    ASSUME PoolOK(pool, capacity), NEW b \in Buffer,
           capacity[b] \in SizeClass, ~ InPool(pool, b)
    PROVE  /\ PoolOK(Released(b), capacity)
           /\ \A a : InPool(Released(b), a) => InPool(pool, a) \/ a = b
<1> DEFINE c == capacity[b]
           r == Released(b)
<1>1. pool \in [SizeClass -> Seq(Buffer)]
  BY DEF PoolOK
<1>2. r = [pool EXCEPT ![c] = Append(pool[c], b)]
  BY DEF Released, ReleaseClass
<1>3. /\ Append(pool[c], b) \in Seq(Buffer)
      /\ Len(pool[c]) \in Nat /\ Len(Append(pool[c], b)) = Len(pool[c]) + 1
      /\ \A i \in 1 .. Len(pool[c]) : Append(pool[c], b)[i] = pool[c][i]
      /\ Append(pool[c], b)[Len(pool[c]) + 1] = b
  BY <1>1, AppendElements
<1>4. r \in [SizeClass -> Seq(Buffer)]
  BY <1>1, <1>2, <1>3
<1>5. \A d \in SizeClass : r[d] = IF d = c THEN Append(pool[c], b) ELSE pool[d]
  BY <1>1, <1>2
<1> HIDE DEF r
<1>6. \A d \in SizeClass : \A i \in 1 .. Len(r[d]) :
        \/ i \in 1 .. Len(pool[d]) /\ r[d][i] = pool[d][i]
        \/ d = c /\ i = Len(pool[c]) + 1 /\ r[d][i] = b
  <2>1. ASSUME NEW d \in SizeClass, NEW i \in 1 .. Len(r[d]), d = c
        PROVE  \/ i \in 1 .. Len(pool[d]) /\ r[d][i] = pool[d][i]
               \/ d = c /\ i = Len(pool[c]) + 1 /\ r[d][i] = b
    <3>1. r[d] = Append(pool[c], b)
      BY <1>5, <2>1
    <3>2. i \in 1 .. Len(pool[c]) \/ i = Len(pool[c]) + 1
      BY <1>3, <3>1
    <3> QED BY <1>3, <2>1, <3>1, <3>2
  <2> QED BY <1>5, <2>1
<1>7. \A d \in SizeClass : \A i \in 1 .. Len(pool[d]) : pool[d][i] # b
  BY DEF InPool
<1>8. PoolOK(r, capacity)
  <2>1. \A d \in SizeClass : \A i \in 1 .. Len(r[d]) : capacity[r[d][i]] = d
    BY <1>6 DEF PoolOK
  <2>2. ASSUME NEW d \in SizeClass, NEW i \in 1 .. Len(r[d]), NEW j \in 1 .. Len(r[d]),
               r[d][i] = r[d][j]
        PROVE  i = j
    <3>1. CASE i \in 1 .. Len(pool[d]) /\ r[d][i] = pool[d][i]
      <4>1. r[d][j] # b
        BY <1>7, <2>2, <3>1
      <4>2. j \in 1 .. Len(pool[d]) /\ r[d][j] = pool[d][j]
        BY <1>6, <4>1
      <4> QED BY <2>2, <3>1, <4>2 DEF PoolOK
    <3>2. CASE d = c /\ i = Len(pool[c]) + 1 /\ r[d][i] = b
      <4>1. ~ (j \in 1 .. Len(pool[d]) /\ r[d][j] = pool[d][j])
        BY <1>7, <2>2, <3>2
      <4> QED BY <1>6, <3>2, <4>1
    <3> QED BY <1>6, <3>1, <3>2
  <2> QED BY <1>4, <2>1, <2>2 DEF PoolOK
<1>9. \A a : InPool(r, a) => InPool(pool, a) \/ a = b
  BY <1>6 DEF InPool
<1> QED BY <1>8, <1>9 DEF r

(* A step that leaves everything of a task alone. *)
LEMMA LocalFrame ==
    ASSUME NEW t \in Task, Local(t),
           phase'[t] = phase[t], signal'[t] = signal[t], slot'[t] = slot[t],
           fits'[t] = fits[t], size'[t] = size[t], response'[t] = response[t],
           reply'[t] = reply[t], target'[t] = target[t],
           (t \in grown') <=> (t \in grown),
           t \in listening' => t \in listening,
           Started(t) => /\ buffer'[t] = buffer[t]
                         /\ content'[buffer[t]] = content[buffer[t]]
                         /\ capacity'[buffer[t]] = capacity[buffer[t]]
    PROVE  Local(t)'
<1>1. CASE Started(t)
  <2>1. /\ phase'[t] # "new" /\ (Quiet(t)' <=> Quiet(t)) /\ (Blocked(t)' <=> Blocked(t))
        /\ (Signalled(t)' <=> Signalled(t)) /\ (Done(t)' <=> Done(t))
    BY <1>1 DEF Started, Quiet, Blocked, Signalled, Done
  <2>2. /\ (Sized(t)' <=> Sized(t)) /\ (TooSmall(t)' <=> TooSmall(t))
        /\ (Grown(t)' <=> Grown(t)) /\ (Filled(t)' <=> Filled(t))
    BY <1>1 DEF TooSmall, Sized, Grown, Filled
  <2> QED BY <1>1, <2>1, <2>2 DEF Local
<1>2. CASE ~ Started(t)
  BY <1>2 DEF Local, Started, Quiet, Blocked
<1> QED BY <1>1, <1>2

-----------------------------------------------------------------------------
LEMMA InitSyncInv == Init => SyncInv
<1> SUFFICES ASSUME Init PROVE SyncInv
  OBVIOUS
<1>1. TypeOK
  <2>1. Zeroes \in Content
    BY DEF Content
  <2>2. stack \in Seq(Task) /\ inbox \in Seq(Posted) /\ pool \in [SizeClass -> Seq(Buffer)]
    BY DEF Init
  <2>3. /\ handling \in BOOLEAN
        /\ grown \subseteq Task /\ listening \subseteq Task /\ running \in Task \cup {None}
        /\ phase \in [Task -> Phase] /\ reply \in [Task -> ReplyStep]
    BY DEF Init, Phase, ReplyStep
  <2>4. /\ buffer \in [Task -> Buffer \cup {None}] /\ target \in [Task -> Buffer \cup {None}]
        /\ result \in [Task -> Content \cup {None}] /\ response \in [Task -> Payload \cup {None}]
    BY DEF Init
  <2>5. /\ capacity \in [Buffer -> SizeClass \cup {0}] /\ content \in [Buffer -> Content]
        /\ size \in [Task -> SizeClass \cup {0}] /\ fits \in [Task -> {0, 1}]
        /\ signal \in [Task -> {0, 1}] /\ slot \in [Task -> {0, TaskId}]
    BY <2>1 DEF Init
  <2> QED BY <2>2, <2>3, <2>4, <2>5 DEF TypeOK
<1>2. PoolOK(pool, capacity)
  BY DEF Init, PoolOK
<1>3. Owned /\ StackOK
  BY DEF Init, Owned, StackOK, Started
<1>4. InboxOK
  BY DEF Init, InboxOK
<1>5. \A t \in Task : Local(t)
  BY DEF Init, Local, Quiet, Blocked
<1> QED BY <1>1, <1>2, <1>3, <1>4, <1>5 DEF SyncInv

(* Steps of the main thread leave the worker's buffers and stack alone. *)
LEMMA MainFrame ==
    ASSUME PoolOK(pool, capacity), Owned, StackOK, UNCHANGED workerVars
    PROVE  PoolOK(pool, capacity)' /\ Owned' /\ StackOK'
  BY DEF workerVars, PoolOK, Owned, StackOK, Started, InPool

(* A message means the same while the reply, the buffer and the state of   *)
(* the task it is about stay as they are.                                  *)
LEMMA InboxFrame ==
    ASSUME InboxOK, UNCHANGED inbox, NEW s \in Task,
           \A t \in Task \ {s} : reply'[t] = reply[t],
           reply'[s] = reply[s] \/ reply[s] \notin {"none", "listen"},
           UNCHANGED <<phase, buffer, grown>>
    PROVE  InboxOK'
<1>1. ASSUME NEW i \in 1 .. Len(inbox), NEW t \in Task,
             \/ AsksFor(inbox[i], t) /\ reply[t] = "none" /\ Started(t)
             \/ Grows(inbox[i], t) /\ reply[t] = "listen" /\ t \in grown
      PROVE  \/ AsksFor(inbox[i], t)' /\ reply'[t] = "none" /\ Started(t)'
             \/ Grows(inbox[i], t)' /\ reply'[t] = "listen" /\ t \in grown'
  BY <1>1 DEF AsksFor, Grows, Started
<1> QED BY <1>1 DEF InboxOK, AsksFor, Grows

(* The slot takes the task number while the bit is still clear. *)
LEMMA StoreSlotInv ==
    ASSUME SyncInv, NEW t \in Task, StoreSlot(t)
    PROVE  SyncInv'
<1> USE DEF SyncInv
<1>1. /\ slot' = [slot EXCEPT ![t] = TaskId]
      /\ \/ reply[t] = "store slot" /\ reply' = [reply EXCEPT ![t] = "set bit"]
         \/ reply[t] = "store slot uuid" /\ reply' = [reply EXCEPT ![t] = "set bit uuid"]
      /\ UNCHANGED <<workerVars, content, size, fits, signal, response, target, listening,
                     running, inbox>>
  BY DEF StoreSlot
<1>2. TypeOK'
  BY <1>1 DEF TypeOK, workerVars, ReplyStep
<1>3. PoolOK(pool, capacity)' /\ Owned' /\ StackOK'
  BY <1>1, MainFrame
<1>4. \A u \in Task \ {t} : reply'[u] = reply[u] /\ slot'[u] = slot[u]
  BY <1>1 DEF TypeOK
<1>5. InboxOK'
  BY <1>1, <1>4, InboxFrame DEF workerVars
<1>6. ASSUME NEW u \in Task \ {t} PROVE Local(u)'
  BY <1>1, <1>4, LocalFrame DEF workerVars
<1>7. Local(t)'
  <2>1. slot'[t] = TaskId
    BY <1>1 DEF TypeOK
  <2>2. CASE reply[t] = "store slot"
    <3>1. reply'[t] = "set bit" /\ Quiet(t) /\ Filled(t) /\ phase[t] # "new"
      BY <1>1, <2>2 DEF TypeOK, Local, Quiet, Blocked
    <3> QED BY <1>1, <2>1, <3>1, <2>2 DEF Local, Quiet, Blocked, Filled, workerVars
  <2>3. CASE reply[t] = "store slot uuid"
    <3>1. reply'[t] = "set bit uuid" /\ Quiet(t) /\ TooSmall(t) /\ phase[t] # "new"
      BY <1>1, <2>3 DEF TypeOK, Local, Quiet, Blocked
    <3> QED BY <1>1, <2>1, <3>1, <2>3 DEF Local, Quiet, Blocked, TooSmall, Sized, workerVars
  <2> QED BY <1>1, <2>2, <2>3
<1> QED BY <1>2, <1>3, <1>5, <1>6, <1>7

(* The bit is set for a worker that has not seen it yet. *)
LEMMA SetBitInv ==
    ASSUME SyncInv, NEW t \in Task, SetBit(t)
    PROVE  SyncInv'
<1> USE DEF SyncInv
<1>1. /\ signal' = [signal EXCEPT ![t] = 1]
      /\ \/ reply[t] = "set bit" /\ reply' = [reply EXCEPT ![t] = "sent"]
         \/ reply[t] = "set bit uuid" /\ reply' = [reply EXCEPT ![t] = "listen"]
      /\ running' = None
      /\ UNCHANGED <<workerVars, content, size, fits, slot, response, target, listening, inbox>>
  BY DEF SetBit
<1>2. TypeOK'
  BY <1>1 DEF TypeOK, workerVars, ReplyStep
<1>3. PoolOK(pool, capacity)' /\ Owned' /\ StackOK'
  BY <1>1, MainFrame
<1>4. \A u \in Task \ {t} : reply'[u] = reply[u] /\ signal'[u] = signal[u]
  BY <1>1 DEF TypeOK
<1>5. InboxOK'
  BY <1>1, <1>4, InboxFrame DEF workerVars
<1>6. ASSUME NEW u \in Task \ {t} PROVE Local(u)'
  BY <1>1, <1>4, LocalFrame DEF workerVars
<1>7. Local(t)'
  <2>1. signal'[t] = 1
    BY <1>1 DEF TypeOK
  <2>2. CASE reply[t] = "set bit"
    <3>1. reply'[t] = "sent" /\ Blocked(t) /\ slot[t] = TaskId /\ Filled(t) /\ phase[t] # "new"
      BY <1>1, <2>2 DEF TypeOK, Local, Blocked
    <3> QED BY <1>1, <2>1, <3>1, <2>2 DEF Local, Blocked, Signalled, Filled, workerVars
  <2>3. CASE reply[t] = "set bit uuid"
    <3>1. reply'[t] = "listen" /\ Blocked(t) /\ slot[t] = TaskId /\ TooSmall(t) /\ phase[t] # "new"
      BY <1>1, <2>3 DEF TypeOK, Local, Blocked
    <3> QED BY <1>1, <2>1, <3>1, <2>3 DEF Local, Blocked, Signalled, TooSmall, Sized, workerVars
  <2> QED BY <1>1, <2>2, <2>3
<1> QED BY <1>2, <1>3, <1>5, <1>6, <1>7

(* The response is written into the buffer the waiting task owns. *)
LEMMA WriteInv ==
    ASSUME SyncInv, NEW t \in Task, Write(t)
    PROVE  SyncInv'
<1> USE DEF SyncInv
<1>1. /\ reply[t] = "write" /\ reply' = [reply EXCEPT ![t] = "store slot"]
      /\ content' = [content EXCEPT ![target[t]] = Bytes(t, response[t])]
      /\ fits' = [fits EXCEPT ![t] = 1]
      /\ running' = t
      /\ UNCHANGED <<workerVars, size, signal, slot, response, target, listening, inbox>>
  BY DEF Write, AfterWrite
<1>2. /\ target[t] = buffer[t] /\ Quiet(t) /\ Started(t) /\ response[t] \in Payload
      /\ buffer[t] \in Buffer
  BY <1>1 DEF Local, Started, Quiet, Blocked, Owned
<1>3. Bytes(t, response[t]) \in Content
  BY <1>2 DEF Content
<1>4. TypeOK'
  BY <1>1, <1>2, <1>3 DEF TypeOK, workerVars, ReplyStep
<1>5. PoolOK(pool, capacity)' /\ Owned' /\ StackOK'
  BY <1>1, MainFrame
<1>6. \A u \in Task \ {t} : reply'[u] = reply[u] /\ fits'[u] = fits[u]
  BY <1>1 DEF TypeOK
<1>7. \A u \in Task \ {t} : Started(u) => content'[buffer[u]] = content[buffer[u]]
  <2>1. \A u \in Task \ {t} : Started(u) => buffer[u] \in Buffer /\ buffer[u] # buffer[t]
    BY <1>2 DEF Owned
  <2> QED BY <1>1, <1>2, <2>1 DEF TypeOK
<1>8. InboxOK'
  BY <1>1, <1>6, InboxFrame DEF workerVars
<1>9. ASSUME NEW u \in Task \ {t} PROVE Local(u)'
  BY <1>1, <1>6, <1>7, LocalFrame DEF workerVars
<1>10. Local(t)'
  <2>1. reply'[t] = "store slot" /\ fits'[t] = 1 /\ content'[buffer[t]] = Bytes(t, response[t])
    BY <1>1, <1>2 DEF TypeOK
  <2> QED BY <1>1, <1>2, <2>1 DEF Local, Quiet, Blocked, Filled, Started, workerVars
<1> QED BY <1>4, <1>5, <1>8, <1>9, <1>10

(* syncResponse() answers a task whose request it received.  The uuid of a *)
(* listener goes into the buffer that task still waits on.                 *)
LEMMA RespondInv ==
    ASSUME SyncInv, NEW t \in Task, NEW p \in Payload, Respond(t, p)
    PROVE  SyncInv'
<1> USE DEF SyncInv
<1>1. /\ reply[t] = "pending"
      /\ response' = [response EXCEPT ![t] = p]
      /\ size' = [size EXCEPT ![t] = SizeOf(p)]
      /\ running' = t
      /\ UNCHANGED <<workerVars, signal, slot, target, inbox>>
  BY DEF Respond
<1>2. \/ /\ Fits(t, p)
         /\ fits' = [fits EXCEPT ![t] = 1]
         /\ reply' = [reply EXCEPT ![t] = "write"]
         /\ UNCHANGED <<content, listening>>
      \/ /\ fits' = [fits EXCEPT ![t] = 0]
         /\ listening' = listening \cup {t}
         /\ content' = [content EXCEPT ![target[t]] = Uuid(t)]
         /\ reply' = [reply EXCEPT ![t] = "store slot uuid"]
  BY DEF Respond
<1>3. /\ target[t] = buffer[t] /\ Quiet(t) /\ Started(t) /\ buffer[t] \in Buffer
      /\ t \notin grown /\ t \notin listening
  BY <1>1 DEF Local, Started, Quiet, Blocked, Owned
<1>4. SizeOf(p) \in SizeClass /\ Uuid(t) \in Content
  BY DEF SizeOf, SizeClass, Content
<1>5. TypeOK'
  <2>1. /\ response' \in [Task -> Payload \cup {None}]
        /\ size' \in [Task -> SizeClass \cup {0}]
        /\ running' \in Task \cup {None}
    BY <1>1, <1>4 DEF TypeOK
  <2>2. /\ fits' \in [Task -> {0, 1}] /\ listening' \subseteq Task
        /\ reply' \in [Task -> ReplyStep]
    BY <1>2 DEF TypeOK, ReplyStep
  <2>3. content' \in [Buffer -> Content]
    BY <1>2, <1>3, <1>4 DEF TypeOK
  <2> QED BY <1>1, <2>1, <2>2, <2>3 DEF TypeOK, workerVars
<1>6. PoolOK(pool, capacity)' /\ Owned' /\ StackOK'
  BY <1>1, MainFrame
<1>7. \A u \in Task \ {t} :
        /\ reply'[u] = reply[u] /\ fits'[u] = fits[u] /\ size'[u] = size[u]
        /\ response'[u] = response[u] /\ (u \in listening' => u \in listening)
  BY <1>1, <1>2 DEF TypeOK
<1>8. \A u \in Task \ {t} : Started(u) => content'[buffer[u]] = content[buffer[u]]
  <2>1. \A u \in Task \ {t} : Started(u) => buffer[u] \in Buffer /\ buffer[u] # buffer[t]
    BY <1>3 DEF Owned
  <2>2. \A b \in Buffer : b # buffer[t] => content'[b] = content[b]
    <3>1. content \in [Buffer -> Content]
      BY DEF TypeOK
    <3> QED BY <1>2, <1>3, <3>1
  <2> QED BY <2>1, <2>2
<1>9. InboxOK'
  BY <1>1, <1>7, InboxFrame DEF workerVars
<1>10. ASSUME NEW u \in Task \ {t} PROVE Local(u)'
  BY <1>1, <1>7, <1>8, LocalFrame DEF workerVars
<1>11. Local(t)'
  <2>1. response'[t] = p /\ size'[t] = SizeOf(p)
    BY <1>1 DEF TypeOK
  <2>2. Quiet(t)' /\ phase'[t] # "new" /\ target'[t] = buffer'[t] /\ t \notin grown'
    BY <1>1, <1>3 DEF Quiet, Blocked, Started, workerVars
  <2>3. CASE Fits(t, p) /\ reply' = [reply EXCEPT ![t] = "write"] /\ UNCHANGED <<content, listening>>
    <3>1. reply'[t] = "write" /\ SizeOf(p) <= capacity'[buffer'[t]] /\ t \notin listening'
      BY <1>1, <1>3, <2>3 DEF TypeOK, Fits, workerVars
    <3> QED BY <2>1, <2>2, <3>1 DEF Local, SizeOf
  <2>4. CASE /\ fits' = [fits EXCEPT ![t] = 0]
             /\ content' = [content EXCEPT ![target[t]] = Uuid(t)]
             /\ reply' = [reply EXCEPT ![t] = "store slot uuid"]
    <3>1. reply'[t] = "store slot uuid" /\ fits'[t] = 0 /\ content'[buffer'[t]] = Uuid(t)
      BY <1>1, <1>3, <2>4 DEF TypeOK, workerVars
    <3>2. TooSmall(t)'
      BY <2>1, <2>2, <3>1 DEF TooSmall, Sized, SizeOf
    <3> QED BY <2>2, <3>1, <3>2 DEF Local
  <2> QED BY <1>2, <2>3, <2>4
<1> QED BY <1>5, <1>6, <1>9, <1>10, <1>11

(* A response that cannot be encoded signals nothing. *)
LEMMA RespondThrowsInv ==
    ASSUME SyncInv, NEW t \in Task, NEW p \in Payload, RespondThrows(t, p)
    PROVE  SyncInv'
<1> USE DEF SyncInv
<1>1. /\ reply[t] = "pending" /\ reply' = [reply EXCEPT ![t] = "failed"]
      /\ UNCHANGED <<workerVars, sharedVars, response, target, listening, running, inbox>>
  BY DEF RespondThrows
<1>2. TypeOK'
  BY <1>1 DEF TypeOK, workerVars, sharedVars, ReplyStep
<1>3. PoolOK(pool, capacity)' /\ Owned' /\ StackOK'
  BY <1>1, MainFrame
<1>4. \A u \in Task \ {t} : reply'[u] = reply[u]
  BY <1>1 DEF TypeOK
<1>5. InboxOK'
  BY <1>1, <1>4, InboxFrame DEF workerVars
<1>6. ASSUME NEW u \in Task \ {t} PROVE Local(u)'
  BY <1>1, <1>4, LocalFrame DEF workerVars, sharedVars
<1>7. Local(t)'
  <2>1. reply'[t] = "failed"
    BY <1>1 DEF TypeOK
  <2>2. Quiet(t) /\ t \notin grown /\ t \notin listening /\ response[t] = None /\ phase[t] # "new"
    BY <1>1 DEF Local, Quiet, Blocked
  <2> QED BY <1>1, <2>1, <2>2 DEF Local, Quiet, Blocked, workerVars, sharedVars
<1> QED BY <1>2, <1>3, <1>5, <1>6, <1>7

(* A request that is received waits for its response; a bigger buffer that *)
(* is heard is the one its task now waits on.                              *)
LEMMA ReceiveInv ==
    ASSUME SyncInv, Receive
    PROVE  SyncInv'
<1> USE DEF SyncInv
<1> DEFINE m == Head(inbox)
           heard == {t \in listening : m.id = Uuid(t)}
<1>1. /\ inbox # <<>> /\ inbox' = Tail(inbox)
      /\ listening' \subseteq listening
      /\ UNCHANGED <<workerVars, sharedVars, response, running>>
  BY DEF Receive
<1>2. \/ /\ m.type = "sync-request"
         /\ reply' = [reply EXCEPT ![m.task] = "pending"]
         /\ target' = [target EXCEPT ![m.task] = m.buffer]
      \/ /\ m.type = "buffer"
         /\ reply' = [t \in Task |-> IF t \in heard THEN "write" ELSE reply[t]]
         /\ target' = [t \in Task |-> IF t \in heard THEN m.buffer ELSE target[t]]
  BY DEF Receive, BiggerBuffer
<1>3. m.type = "buffer" => \A t \in heard : t \notin listening'
  <2>1. listening' = listening \ Dismissed(m)
    BY DEF Receive
  <2>2. m.type = "buffer" => heard \subseteq Dismissed(m)
    BY DEF Dismissed
  <2> QED BY <2>1, <2>2
<1>4. /\ Tail(inbox) \in Seq(Posted)
      /\ Len(inbox) \in Nat \ {0} /\ Len(Tail(inbox)) = Len(inbox) - 1
      /\ \A i \in 1 .. Len(Tail(inbox)) : Tail(inbox)[i] = inbox[i + 1]
      /\ m = inbox[1] /\ m \in Posted
  <2>1. inbox \in Seq(Posted)
    BY DEF TypeOK
  <2> QED BY <1>1, <2>1, TailElements
<1> HIDE DEF m
<1>5. PICK s \in Task :
        /\ m.buffer = buffer[s] /\ Started(s)
        /\ \/ AsksFor(m, s) /\ reply[s] = "none"
           \/ Grows(m, s) /\ reply[s] = "listen" /\ s \in grown
  <2>1. PICK s \in Task :
          /\ m.buffer = buffer[s]
          /\ \/ AsksFor(m, s) /\ reply[s] = "none" /\ Started(s)
             \/ Grows(m, s) /\ reply[s] = "listen" /\ s \in grown
    BY <1>4 DEF InboxOK
  <2> QED BY <2>1 DEF Local, Started
<1>6. buffer[s] \in Buffer /\ \A t \in Task : Grows(m, t) => t = s
  BY <1>5 DEF Owned, Grows, AsksFor, Uuid
<1>7. \/ /\ AsksFor(m, s) /\ reply[s] = "none"
         /\ reply' = [reply EXCEPT ![s] = "pending"]
         /\ target' = [target EXCEPT ![s] = buffer[s]]
      \/ /\ Grows(m, s) /\ reply[s] = "listen" /\ s \in grown /\ s \in listening
         /\ s \notin listening'
         /\ reply' = [reply EXCEPT ![s] = "write"]
         /\ target' = [target EXCEPT ![s] = buffer[s]]
      \/ /\ Grows(m, s) /\ reply' = reply /\ target' = target
  <2>1. CASE m.type = "sync-request"
    BY <1>2, <1>5, <2>1 DEF AsksFor, Grows
  <2>2. CASE m.type = "buffer" /\ s \in listening
    <3>1. Grows(m, s) /\ reply[s] = "listen" /\ s \in grown
      BY <1>5, <2>2 DEF AsksFor
    <3>2. heard = {s}
      BY <1>6, <2>2, <3>1 DEF Grows, TypeOK
    <3> QED BY <1>2, <1>3, <1>5, <2>2, <3>1, <3>2 DEF TypeOK
  <2>3. CASE m.type = "buffer" /\ s \notin listening
    <3>1. Grows(m, s)
      BY <1>5, <2>3 DEF AsksFor
    <3>2. heard = {}
      BY <1>6, <2>3 DEF Grows, TypeOK
    <3> QED BY <1>2, <2>3, <3>1, <3>2 DEF TypeOK
  <2> QED BY <1>2, <2>1, <2>2, <2>3
<1>8. TypeOK'
  <2>1. reply' \in [Task -> ReplyStep] /\ target' \in [Task -> Buffer \cup {None}]
    BY <1>6, <1>7 DEF TypeOK, ReplyStep
  <2> QED BY <1>1, <1>4, <2>1 DEF TypeOK, workerVars, sharedVars
<1>9. PoolOK(pool, capacity)' /\ Owned' /\ StackOK'
  BY <1>1, MainFrame
<1>10. \A u \in Task \ {s} : reply'[u] = reply[u] /\ target'[u] = target[u]
  BY <1>7 DEF TypeOK
<1>11. ASSUME NEW u \in Task \ {s} PROVE Local(u)'
  BY <1>1, <1>10, LocalFrame DEF workerVars, sharedVars
<1>12. Local(s)'
  <2>1. CASE AsksFor(m, s) /\ reply[s] = "none" /\ reply' = [reply EXCEPT ![s] = "pending"]
             /\ target' = [target EXCEPT ![s] = buffer[s]]
    <3>1. reply'[s] = "pending" /\ target'[s] = buffer[s]
      BY <2>1 DEF TypeOK
    <3>2. /\ Quiet(s) /\ s \notin grown /\ s \notin listening /\ response[s] = None
          /\ phase[s] # "new"
      BY <1>5, <2>1 DEF Local, Started
    <3> QED BY <1>1, <3>1, <3>2 DEF Local, Quiet, Blocked, workerVars, sharedVars
  <2>2. CASE /\ reply[s] = "listen" /\ s \in grown /\ s \notin listening'
             /\ reply' = [reply EXCEPT ![s] = "write"]
             /\ target' = [target EXCEPT ![s] = buffer[s]]
    <3>1. reply'[s] = "write" /\ target'[s] = buffer[s]
      BY <2>2 DEF TypeOK
    <3>2. Quiet(s) /\ Grown(s) /\ phase[s] # "new"
      BY <2>2 DEF Local, TooSmall
    <3>3. capacity[buffer[s]] = SizeOf(response[s]) /\ SizeOf(response[s]) \in {1, 2}
      BY <3>2 DEF Grown, Sized, SizeOf
    <3>4. Quiet(s)' /\ response'[s] \in Payload /\ phase'[s] # "new" /\ buffer'[s] = buffer[s]
      BY <1>1, <3>2 DEF Quiet, Blocked, Grown, Sized, workerVars, sharedVars
    <3>5. SizeOf(response'[s]) <= capacity'[buffer'[s]]
      BY <1>1, <3>3 DEF workerVars
    <3> QED BY <2>2, <3>1, <3>4, <3>5 DEF Local, SizeOf
  <2>3. CASE reply' = reply /\ target' = target
    BY <1>1, <2>3, LocalFrame DEF workerVars, sharedVars
  <2> QED BY <1>7, <2>1, <2>2, <2>3
<1>13. InboxOK'
  <2>1. ASSUME NEW i \in 1 .. Len(inbox')
        PROVE  i + 1 \in 1 .. Len(inbox) /\ inbox'[i] = inbox[i + 1] /\ i + 1 # 1
    BY <1>1, <1>4
  <2>2. ASSUME NEW i \in 1 .. Len(inbox'), NEW t \in Task,
               inbox[i + 1].buffer = buffer[t],
               \/ AsksFor(inbox[i + 1], t) /\ reply[t] = "none" /\ Started(t)
               \/ Grows(inbox[i + 1], t) /\ reply[t] = "listen" /\ t \in grown
        PROVE  /\ inbox'[i].buffer = buffer'[t]
               /\ \/ AsksFor(inbox[i], t)' /\ reply'[t] = "none" /\ Started(t)'
                  \/ Grows(inbox[i], t)' /\ reply'[t] = "listen" /\ t \in grown'
    <3>1. t # s \/ (t = s /\ reply' = reply)
      <4>1. ASSUME t = s, AsksFor(m, s) PROVE FALSE
        BY <1>4, <2>1, <2>2, <4>1, <1>5 DEF InboxOK, AsksFor, Grows
      <4>2. ASSUME t = s, Grows(m, s) PROVE FALSE
        BY <1>4, <2>1, <2>2, <4>2, <1>5 DEF InboxOK, AsksFor, Grows
      <4> QED BY <1>5, <4>1, <4>2
    <3>2. reply'[t] = reply[t]
      BY <1>10, <3>1
    <3> QED BY <1>1, <2>1, <2>2, <3>2 DEF AsksFor, Grows, Started, workerVars
  <2>3. \A i, j \in 1 .. Len(inbox') : \A t \in Task :
           \/ AsksFor(inbox[i], t)' /\ AsksFor(inbox[j], t)'
           \/ Grows(inbox[i], t)' /\ Grows(inbox[j], t)'
           => i = j
    <3>1. ASSUME NEW i \in 1 .. Len(inbox'), NEW j \in 1 .. Len(inbox'), NEW t \in Task,
                 \/ AsksFor(inbox[i], t)' /\ AsksFor(inbox[j], t)'
                 \/ Grows(inbox[i], t)' /\ Grows(inbox[j], t)'
          PROVE  i + 1 = j + 1
      <4>1. \/ AsksFor(inbox[i + 1], t) /\ AsksFor(inbox[j + 1], t)
            \/ Grows(inbox[i + 1], t) /\ Grows(inbox[j + 1], t)
        BY <2>1, <3>1 DEF AsksFor, Grows
      <4>2. i + 1 \in 1 .. Len(inbox) /\ j + 1 \in 1 .. Len(inbox)
        BY <2>1
      <4> QED BY <4>1, <4>2 DEF InboxOK
    <3>2. Len(inbox') \in Nat
      BY <1>1, <1>4
    <3> QED BY <3>1, <3>2
  <2>4. \A i \in 1 .. Len(inbox') : \E t \in Task :
           /\ inbox[i + 1].buffer = buffer[t]
           /\ \/ AsksFor(inbox[i + 1], t) /\ reply[t] = "none" /\ Started(t)
              \/ Grows(inbox[i + 1], t) /\ reply[t] = "listen" /\ t \in grown
    BY <2>1 DEF InboxOK
  <2> QED BY <2>2, <2>3, <2>4 DEF InboxOK
<1> QED BY <1>8, <1>9, <1>11, <1>12, <1>13

-----------------------------------------------------------------------------
(* A new task takes a buffer from the pool and posts its request. *)
LEMMA StartInv ==
    ASSUME SyncInv, NEW t \in Task, Start(t)
    PROVE  SyncInv'
<1> USE DEF SyncInv
<1>1. PICK b \in Buffer :
        /\ Acquire(b, 1, pool)
        /\ buffer' = [buffer EXCEPT ![t] = b]
        /\ inbox' = Append(inbox, [type |-> "sync-request", task |-> t, buffer |-> b])
  BY DEF Start
<1>2. /\ phase[t] = "new"
      /\ phase' = [phase EXCEPT ![t] = "waiting"]
      /\ stack' = Append(stack, t)
      /\ handling' = FALSE
      /\ UNCHANGED <<grown, result, size, fits, signal, slot, mainVars>>
  BY DEF Start, NextTask
<1> DEFINE m == [type |-> "sync-request", task |-> t, buffer |-> b]
<1>3. /\ PoolOK(pool', capacity')
      /\ capacity' \in [Buffer -> SizeClass \cup {0}]
      /\ capacity'[b] = 1
      /\ ~ InPool(pool', b)
      /\ \A a : InPool(pool', a) => InPool(pool, a)
      /\ \A a \in Buffer : capacity[a] # 0 => capacity'[a] = capacity[a]
      /\ InPool(pool, b) \/ capacity[b] = 0
      /\ content' \in [Buffer -> Content]
      /\ \A a \in Buffer : a # b => content'[a] = content[a]
  BY <1>1, AcquireFacts, 1 \in SizeClass DEF SizeClass
<1>4. \A u \in Task : Started(u) =>
        /\ u # t /\ buffer[u] \in Buffer /\ capacity[buffer[u]] \in SizeClass
        /\ buffer[u] # b /\ ~ InPool(pool', buffer[u])
        /\ capacity'[buffer[u]] = capacity[buffer[u]]
        /\ content'[buffer[u]] = content[buffer[u]]
  <2>1. 0 \notin SizeClass
    BY DEF SizeClass
  <2> QED BY <1>2, <1>3, <2>1 DEF Owned, Started
<1>5. \A u \in Task \ {t} : phase'[u] = phase[u] /\ buffer'[u] = buffer[u]
  BY <1>1, <1>2 DEF TypeOK
<1>6. phase'[t] = "waiting" /\ buffer'[t] = b
  BY <1>1, <1>2 DEF TypeOK
<1>7. /\ Append(stack, t) \in Seq(Task)
      /\ Len(stack) \in Nat /\ Len(Append(stack, t)) = Len(stack) + 1
      /\ \A i \in 1 .. Len(stack) : Append(stack, t)[i] = stack[i]
      /\ Append(stack, t)[Len(stack) + 1] = t
  <2>1. stack \in Seq(Task)
    BY DEF TypeOK
  <2> QED BY <2>1, AppendElements
<1>8. /\ Append(inbox, m) \in Seq(Posted)
      /\ Len(inbox) \in Nat /\ Len(Append(inbox, m)) = Len(inbox) + 1
      /\ \A i \in 1 .. Len(inbox) : Append(inbox, m)[i] = inbox[i]
      /\ Append(inbox, m)[Len(inbox) + 1] = m
  <2>1. inbox \in Seq(Posted) /\ m \in Posted
    BY DEF TypeOK, Posted
  <2> HIDE DEF m
  <2> QED BY <2>1, AppendElements
<1>9. TypeOK'
  <2>1. phase' \in [Task -> Phase] /\ handling' \in BOOLEAN
    BY <1>2 DEF TypeOK, Phase
  <2>2. buffer' \in [Task -> Buffer \cup {None}]
    BY <1>1 DEF TypeOK
  <2>3. pool' \in [SizeClass -> Seq(Buffer)]
    BY <1>3 DEF PoolOK
  <2> QED BY <1>1, <1>2, <1>3, <1>7, <1>8, <2>1, <2>2, <2>3 DEF TypeOK, mainVars
<1>10. Owned'
  <2>1. ASSUME NEW u \in Task, Started(u)'
        PROVE  /\ buffer'[u] \in Buffer /\ capacity'[buffer'[u]] \in SizeClass
               /\ ~ InPool(pool', buffer'[u])
    <3>1. CASE u = t
      BY <1>3, <1>6, <3>1, 1 \in SizeClass DEF SizeClass
    <3>2. CASE u # t
      BY <1>4, <1>5, <2>1, <3>2 DEF Started
    <3> QED BY <3>1, <3>2
  <2>2. ASSUME NEW u \in Task, NEW v \in Task, Started(u)', Started(v)', buffer'[u] = buffer'[v]
        PROVE  u = v
    <3>1. CASE u # t /\ v # t
      BY <1>5, <2>2, <3>1 DEF Owned, Started
    <3>2. CASE u = t /\ v # t
      BY <1>4, <1>5, <1>6, <2>2, <3>2 DEF Started
    <3>3. CASE u # t /\ v = t
      BY <1>4, <1>5, <1>6, <2>2, <3>3 DEF Started
    <3> QED BY <3>1, <3>2, <3>3
  <2>3. ASSUME NEW u \in Task, ~ Started(u)' PROVE buffer'[u] = None
    BY <1>5, <1>6, <2>3 DEF Owned, Started
  <2> QED BY <2>1, <2>2, <2>3 DEF Owned
<1>11. StackOK'
  <2>1. ASSUME NEW i \in 1 .. Len(stack') PROVE phase'[stack'[i]] # "new"
    <3>1. i \in 1 .. Len(stack) \/ i = Len(stack) + 1
      BY <1>2, <1>7
    <3>2. CASE i \in 1 .. Len(stack)
      <4>1. stack'[i] = stack[i] /\ stack[i] \in Task /\ Started(stack[i])
        BY <1>2, <1>7, <3>2 DEF StackOK, TypeOK
      <4> QED BY <1>5, <1>6, <4>1 DEF Started
    <3>3. CASE i = Len(stack) + 1
      BY <1>2, <1>6, <1>7, <3>3
    <3> QED BY <3>1, <3>2, <3>3
  <2> QED BY <2>1 DEF StackOK, Started
<1>12. ASSUME NEW u \in Task \ {t} PROVE Local(u)'
  BY <1>2, <1>4, <1>5, LocalFrame DEF mainVars
<1>13. reply[t] = "none" /\ Local(t)'
  <2>1. /\ reply[t] = "none" /\ t \notin grown /\ response[t] = None /\ t \notin listening
        /\ signal[t] = 0 /\ slot[t] = 0
    BY <1>2 DEF Local
  <2> QED BY <1>2, <1>6, <2>1 DEF Local, Quiet, Blocked, mainVars
<1>14. InboxOK'
  <2>1. ASSUME NEW i \in 1 .. Len(inbox')
        PROVE  \/ i \in 1 .. Len(inbox) /\ inbox'[i] = inbox[i]
               \/ i = Len(inbox) + 1 /\ inbox'[i] = m
    BY <1>1, <1>8
  <2>2. \A i \in 1 .. Len(inbox) : ~ AsksFor(inbox[i], t)
    <3>1. ASSUME NEW i \in 1 .. Len(inbox), AsksFor(inbox[i], t) PROVE FALSE
      BY <1>2, <3>1 DEF InboxOK, AsksFor, Grows, Started
    <3> QED BY <3>1
  <2>3. ASSUME NEW i \in 1 .. Len(inbox')
        PROVE  \E u \in Task :
                 /\ inbox'[i].buffer = buffer'[u]
                 /\ \/ AsksFor(inbox'[i], u) /\ reply'[u] = "none" /\ Started(u)'
                    \/ Grows(inbox'[i], u) /\ reply'[u] = "listen" /\ u \in grown'
    <3>1. CASE i \in 1 .. Len(inbox) /\ inbox'[i] = inbox[i]
      <4>1. PICK u \in Task :
              /\ inbox[i].buffer = buffer[u]
              /\ \/ AsksFor(inbox[i], u) /\ reply[u] = "none" /\ Started(u)
                 \/ Grows(inbox[i], u) /\ reply[u] = "listen" /\ u \in grown
        BY <3>1 DEF InboxOK
      <4>2. u # t
        BY <1>13, <2>2, <3>1, <4>1
      <4> QED BY <1>2, <1>5, <3>1, <4>1, <4>2 DEF Started, mainVars
    <3>2. CASE i = Len(inbox) + 1 /\ inbox'[i] = m
      BY <1>2, <1>6, <1>13, <3>2 DEF AsksFor, Started, mainVars
    <3> QED BY <2>1, <3>1, <3>2
  <2>4. ASSUME NEW i \in 1 .. Len(inbox'), NEW j \in 1 .. Len(inbox'), NEW u \in Task,
               \/ AsksFor(inbox'[i], u) /\ AsksFor(inbox'[j], u)
               \/ Grows(inbox'[i], u) /\ Grows(inbox'[j], u)
        PROVE  i = j
    <3>1. ~ Grows(m, u) /\ (AsksFor(m, u) => u = t)
      BY DEF Grows, AsksFor
    <3> HIDE DEF m
    <3>2. CASE i \in 1 .. Len(inbox) /\ inbox'[i] = inbox[i] /\ j \in 1 .. Len(inbox) /\ inbox'[j] = inbox[j]
      BY <2>4, <3>2 DEF InboxOK
    <3>3. CASE inbox'[i] = m \/ inbox'[j] = m
      BY <2>1, <2>2, <2>4, <3>1, <3>3
    <3> QED BY <2>1, <3>2, <3>3
  <2> HIDE DEF m
  <2> QED BY <2>3, <2>4 DEF InboxOK, AsksFor, Grows
<1> QED BY <1>3, <1>9, <1>10, <1>11, <1>12, <1>13, <1>14

(* handleEvents() returns: only the worker's program counter changes. *)
LEMMA EndEventsInv ==
    ASSUME SyncInv, EndEvents
    PROVE  SyncInv'
<1> USE DEF SyncInv
<1>1. /\ handling' = FALSE
      /\ UNCHANGED <<stack, phase, grown, buffer, result, pool, capacity,
                     sharedVars, mainVars, inbox>>
  BY DEF EndEvents
<1>2. TypeOK'
  BY <1>1 DEF TypeOK, sharedVars, mainVars
<1>3. PoolOK(pool, capacity)' /\ Owned' /\ StackOK'
  BY <1>1 DEF PoolOK, Owned, StackOK, Started, InPool
<1>4. InboxOK'
  BY <1>1 DEF InboxOK, AsksFor, Grows, Started, mainVars
<1>5. ASSUME NEW u \in Task PROVE Local(u)'
  BY <1>1, LocalFrame DEF mainVars, sharedVars
<1> QED BY <1>2, <1>3, <1>4, <1>5

(* An interrupt abandons every open task; what is shared stays as it was. *)
LEMMA InterruptInv ==
    ASSUME SyncInv, Interrupt
    PROVE  SyncInv'
<1> USE DEF SyncInv
<1>1. /\ handling' = FALSE /\ stack' = <<>>
      /\ phase' = [t \in Task |-> IF t \in ToSet(stack) THEN "abandoned" ELSE phase[t]]
      /\ UNCHANGED <<grown, buffer, result, pool, capacity, sharedVars, mainVars, inbox>>
  BY DEF Interrupt
<1>2. \A t \in ToSet(stack) : Started(t)
  <2>1. stack \in Seq(Task)
    BY DEF TypeOK
  <2>2. DOMAIN stack = 1 .. Len(stack)
    BY <2>1
  <2> QED BY <2>2 DEF ToSet, StackOK
<1>3. ASSUME NEW t \in Task
      PROVE  \/ phase'[t] = phase[t]
             \/ phase'[t] = "abandoned" /\ phase[t] # "new"
  BY <1>1, <1>2 DEF Started
<1>4. \A t \in Task : Started(t)' <=> Started(t)
  BY <1>3 DEF Started
<1>5. TypeOK'
  <2>1. phase' \in [Task -> Phase]
    BY <1>1 DEF TypeOK, Phase
  <2>2. stack' \in Seq(Task)
    BY <1>1
  <2> QED BY <1>1, <2>1, <2>2 DEF TypeOK, sharedVars, mainVars
<1>6. PoolOK(pool, capacity)' /\ Owned'
  BY <1>1, <1>4 DEF PoolOK, Owned, InPool
<1>7. StackOK'
  BY <1>1 DEF StackOK
<1>8. InboxOK'
  BY <1>1, <1>4 DEF InboxOK, AsksFor, Grows, mainVars
<1>9. ASSUME NEW u \in Task PROVE Local(u)'
  <2>1. CASE phase'[u] = phase[u]
    BY <1>1, <2>1, LocalFrame DEF mainVars, sharedVars
  <2>2. CASE phase'[u] = "abandoned" /\ phase[u] # "new"
    <3>1. /\ Quiet(u) => Quiet(u)'
          /\ Blocked(u) => Blocked(u)'
          /\ Signalled(u) => Signalled(u)'
          /\ Done(u) => Done(u)'
      BY <1>1, <2>2 DEF Quiet, Blocked, Signalled, Done, sharedVars
    <3>2. /\ TooSmall(u) => TooSmall(u)'
          /\ Grown(u) => Grown(u)'
          /\ Filled(u) => Filled(u)'
      BY <1>1 DEF TooSmall, Grown, Sized, Filled, mainVars, sharedVars
    <3> QED BY <1>1, <2>2, <3>1, <3>2 DEF Local, mainVars, sharedVars
  <2> QED BY <1>3, <2>1, <2>2
<1> QED BY <1>5, <1>6, <1>7, <1>8, <1>9

(* The task the worker waits for is a task, and one of those it started. *)
LEMMA TopStarted ==
    ASSUME SyncInv, stack # <<>>
    PROVE  /\ Top \in Task /\ Started(Top)
           /\ Front(stack) \in Seq(Task)
           /\ Len(Front(stack)) \in Nat /\ Len(Front(stack)) < Len(stack)
           /\ \A i \in 1 .. Len(Front(stack)) : Front(stack)[i] = stack[i]
<1>1. stack \in Seq(Task)
  BY DEF SyncInv, TypeOK
<1>2. /\ Front(stack) \in Seq(Task)
      /\ Len(stack) \in Nat \ {0} /\ Len(Front(stack)) = Len(stack) - 1
      /\ \A i \in 1 .. Len(Front(stack)) : Front(stack)[i] = stack[i]
      /\ Last(stack) = stack[Len(stack)] /\ Last(stack) \in Task
  BY <1>1, FrontElements
<1>3. Started(Last(stack))
  BY <1>2 DEF SyncInv, StackOK
<1> QED BY <1>2, <1>3 DEF Top

(* The worker clears the bit of a task that was signalled. *)
LEMMA WakeInv ==
    ASSUME SyncInv, Wake
    PROVE  SyncInv'
<1> USE DEF SyncInv
<1>1. PICK t \in Task : t = Top
  BY TopStarted DEF Wake
<1>2. /\ phase[t] = "waiting" /\ signal[t] = 1 /\ stack # <<>>
      /\ signal' = [signal EXCEPT ![t] = 0]
      /\ phase' = [phase EXCEPT ![t] = "cleared"]
      /\ UNCHANGED <<stack, handling, grown, buffer, result, pool, capacity,
                     content, size, fits, slot, mainVars, inbox>>
  BY <1>1 DEF Wake
<1>3. /\ \A u \in Task \ {t} : phase'[u] = phase[u] /\ signal'[u] = signal[u]
      /\ phase'[t] = "cleared" /\ signal'[t] = 0
  BY <1>2, <1>1 DEF TypeOK
<1>4. \A u \in Task : Started(u)' <=> Started(u)
  BY <1>2, <1>3 DEF Started
<1>5. TypeOK'
  <2>1. phase' \in [Task -> Phase] /\ signal' \in [Task -> {0, 1}]
    BY <1>2 DEF TypeOK, Phase
  <2> QED BY <1>2, <2>1 DEF TypeOK, mainVars
<1>6. PoolOK(pool, capacity)' /\ Owned'
  BY <1>2, <1>4 DEF PoolOK, Owned, InPool
<1>7. StackOK'
  <2>1. \A i \in 1 .. Len(stack) : stack[i] \in Task
    BY DEF TypeOK
  <2> QED BY <1>2, <1>4, <2>1 DEF StackOK
<1>8. InboxOK'
  BY <1>2, <1>4 DEF InboxOK, AsksFor, Grows, mainVars
<1>9. ASSUME NEW u \in Task \ {t} PROVE Local(u)'
  BY <1>2, <1>3, LocalFrame DEF mainVars
<1>10. Local(t)'
  <2>1. /\ ~ Quiet(t) /\ ~ Blocked(t) /\ ~ Done(t)
    BY <1>2 DEF Quiet, Blocked, Done
  <2>2. \/ reply[t] = "listen" /\ Signalled(t) /\ TooSmall(t)
        \/ reply[t] = "sent" /\ Signalled(t) /\ Filled(t)
    BY <1>2, <1>1, <2>1 DEF Local, TypeOK, ReplyStep
  <2>3. Signalled(t)'
    BY <1>2, <1>3, <2>2 DEF Signalled
  <2>4. (TooSmall(t) => TooSmall(t)') /\ (Filled(t) => Filled(t)')
    BY <1>2 DEF TooSmall, Sized, Filled, mainVars
  <2>5. t \in listening => reply[t] = "listen"
    BY <1>1, <2>2 DEF Local
  <2> QED BY <1>2, <1>3, <2>2, <2>3, <2>4, <2>5 DEF Local, mainVars
<1> QED BY <1>5, <1>6, <1>7, <1>8, <1>9, <1>10

(* A task whose bit was cleared has something to find: a uuid in a buffer  *)
(* that was too small, or its response.                                    *)
LEMMA ClearedTask ==
    ASSUME SyncInv, NEW t \in Task, phase[t] = "cleared"
    PROVE  /\ signal[t] = 0 /\ slot[t] = TaskId
           /\ \/ reply[t] = "listen" /\ TooSmall(t)
              \/ reply[t] = "sent" /\ Filled(t)
<1>1. ~ Quiet(t) /\ ~ Blocked(t) /\ ~ Done(t)
  BY DEF Quiet, Blocked, Done
<1>2. \/ reply[t] = "listen" /\ Signalled(t) /\ TooSmall(t)
      \/ reply[t] = "sent" /\ Signalled(t) /\ Filled(t)
  BY <1>1 DEF SyncInv, Local, TypeOK, ReplyStep
<1> QED BY <1>2 DEF Signalled

(* syncify() returns. *)
LEMMA PollReturnInv ==
    ASSUME SyncInv, PollReturn
    PROVE  SyncInv'
<1> USE DEF SyncInv
<1>1. /\ stack # <<>>
      /\ Top \in Task /\ Started(Top)
      /\ Front(stack) \in Seq(Task)
      /\ Len(Front(stack)) \in Nat /\ Len(Front(stack)) < Len(stack)
      /\ \A i \in 1 .. Len(Front(stack)) : Front(stack)[i] = stack[i]
  BY TopStarted DEF PollReturn
<1>2. PICK t \in Task : t = Top
  BY <1>1
<1>3. /\ phase[t] = "cleared" /\ Started(t) /\ (t \in grown \/ fits[t] = 1)
      /\ slot' = [slot EXCEPT ![t] = 0]
      /\ result' = [result EXCEPT ![t] = content[buffer[t]]]
      /\ phase' = [phase EXCEPT ![t] = "returned"]
      /\ stack' = Front(stack)
      /\ handling' = (Len(stack) > 1)
      /\ UNCHANGED <<grown, buffer, pool, capacity, content, size, fits, signal,
                     mainVars, inbox>>
  BY <1>1, <1>2 DEF PollReturn, EmptySlot
<1>4. /\ \A u \in Task \ {t} : phase'[u] = phase[u] /\ slot'[u] = slot[u]
      /\ phase'[t] = "returned" /\ slot'[t] = 0
  BY <1>3, <1>1 DEF TypeOK
<1>5. \A u \in Task : Started(u)' <=> Started(u)
  BY <1>3, <1>4 DEF Started
<1>6. signal[t] = 0 /\ reply[t] = "sent" /\ Filled(t)
  BY <1>3, <1>1, ClearedTask DEF TooSmall
<1>7. TypeOK'
  <2>1. phase' \in [Task -> Phase] /\ slot' \in [Task -> {0, TaskId}]
    BY <1>3 DEF TypeOK, Phase
  <2>2. result' \in [Task -> Content \cup {None}]
    <3>1. content[buffer[t]] \in Content
      BY <1>3 DEF TypeOK, Owned
    <3> QED BY <1>3, <3>1 DEF TypeOK
  <2>3. stack' \in Seq(Task) /\ handling' \in BOOLEAN
    BY <1>3, <1>1
  <2> QED BY <1>3, <2>1, <2>2, <2>3 DEF TypeOK, mainVars
<1>8. PoolOK(pool, capacity)' /\ Owned'
  BY <1>3, <1>5 DEF PoolOK, Owned, InPool
<1>9. StackOK'
  <2>1. \A i \in 1 .. Len(stack) : stack[i] \in Task
    BY DEF TypeOK
  <2>2. \A i \in 1 .. Len(stack') : i \in 1 .. Len(stack) /\ stack'[i] = stack[i]
    BY <1>3, <1>1, Len(stack) \in Nat DEF TypeOK
  <2> QED BY <1>5, <2>1, <2>2 DEF StackOK
<1>10. InboxOK'
  BY <1>3, <1>5 DEF InboxOK, AsksFor, Grows, mainVars
<1>11. ASSUME NEW u \in Task \ {t} PROVE Local(u)'
  BY <1>3, <1>4, LocalFrame DEF mainVars
<1>12. Local(t)'
  <2>1. Filled(t)' /\ Done(t)'
    BY <1>3, <1>4, <1>6 DEF Filled, Done, mainVars
  <2>2. t \notin listening
    BY <1>1, <1>6 DEF Local
  <2> QED BY <1>3, <1>4, <1>6, <2>1, <2>2 DEF Local, mainVars
<1> QED BY <1>7, <1>8, <1>9, <1>10, <1>11, <1>12

(* A task whose response did not fit gives its buffer back and posts a     *)
(* bigger one, which the uuid in the old one names.                        *)
LEMMA PollGrowInv ==
    ASSUME SyncInv, PollGrow
    PROVE  SyncInv'
<1> USE DEF SyncInv
<1>1. PICK t \in Task : t = Top /\ Started(t)
  BY TopStarted DEF PollGrow
<1>2. /\ phase[t] = "cleared" /\ t \notin grown /\ fits[t] = 0
      /\ slot' = [slot EXCEPT ![t] = 0]
      /\ grown' = grown \cup {t}
      /\ phase' = [phase EXCEPT ![t] = "waiting"]
      /\ UNCHANGED <<stack, handling, result, size, fits, signal, mainVars>>
  BY <1>1 DEF PollGrow, EmptySlot
<1>3. signal[t] = 0 /\ reply[t] = "listen" /\ TooSmall(t)
  BY <1>2, ClearedTask DEF Filled
<1> DEFINE id == content[buffer[t]]
           c == size[t]
<1>4. /\ id = Uuid(t) /\ c \in SizeClass /\ buffer[t] \in Buffer
      /\ capacity[buffer[t]] \in SizeClass /\ ~ InPool(pool, buffer[t])
  BY <1>1, <1>3 DEF TooSmall, Sized, SizeOf, SizeClass, Owned
<1>5. PICK b \in Buffer :
        /\ Acquire(b, c, Released(buffer[t]))
        /\ buffer' = [buffer EXCEPT ![t] = b]
        /\ inbox' = Append(inbox, [type |-> "buffer", id |-> id, buffer |-> b])
  BY <1>1 DEF PollGrow
<1> DEFINE m == [type |-> "buffer", id |-> id, buffer |-> b]
<1>6. /\ PoolOK(Released(buffer[t]), capacity)
      /\ \A a : InPool(Released(buffer[t]), a) => InPool(pool, a) \/ a = buffer[t]
  BY <1>4, ReleasedFacts
<1>7. /\ PoolOK(pool', capacity')
      /\ capacity' \in [Buffer -> SizeClass \cup {0}]
      /\ capacity'[b] = c
      /\ ~ InPool(pool', b)
      /\ \A a : InPool(pool', a) => InPool(Released(buffer[t]), a)
      /\ \A a \in Buffer : capacity[a] # 0 => capacity'[a] = capacity[a]
      /\ InPool(Released(buffer[t]), b) \/ capacity[b] = 0
      /\ content' \in [Buffer -> Content]
      /\ \A a \in Buffer : a # b => content'[a] = content[a]
  BY <1>4, <1>5, <1>6, AcquireFacts
<1>8. \A u \in Task \ {t} : Started(u) =>
        /\ buffer[u] \in Buffer /\ capacity[buffer[u]] \in SizeClass
        /\ buffer[u] # b /\ ~ InPool(pool', buffer[u])
        /\ capacity'[buffer[u]] = capacity[buffer[u]]
        /\ content'[buffer[u]] = content[buffer[u]]
  <2>1. ASSUME NEW u \in Task \ {t}, Started(u)
        PROVE  /\ buffer[u] \in Buffer /\ capacity[buffer[u]] \in SizeClass
               /\ capacity[buffer[u]] # 0 /\ ~ InPool(Released(buffer[t]), buffer[u])
    BY <1>1, <1>6, <2>1, 0 \notin SizeClass DEF Owned, SizeClass
  <2> QED BY <1>7, <2>1
<1>9. /\ \A u \in Task \ {t} : /\ phase'[u] = phase[u] /\ buffer'[u] = buffer[u]
                                /\ slot'[u] = slot[u] /\ (u \in grown' <=> u \in grown)
      /\ phase'[t] = "waiting" /\ buffer'[t] = b /\ slot'[t] = 0 /\ t \in grown'
  BY <1>2, <1>5 DEF TypeOK
<1>10. \A u \in Task : Started(u)' <=> Started(u)
  BY <1>1, <1>9 DEF Started
<1>11. /\ Append(inbox, m) \in Seq(Posted)
       /\ Len(inbox) \in Nat /\ Len(Append(inbox, m)) = Len(inbox) + 1
       /\ \A i \in 1 .. Len(inbox) : Append(inbox, m)[i] = inbox[i]
       /\ Append(inbox, m)[Len(inbox) + 1] = m
  <2>1. inbox \in Seq(Posted) /\ m \in Posted
    <3>1. id \in Content
      BY <1>4 DEF TypeOK
    <3> HIDE DEF id
    <3> QED BY <3>1 DEF TypeOK, Posted
  <2> HIDE DEF m
  <2> QED BY <2>1, AppendElements
<1>12. TypeOK'
  <2>1. phase' \in [Task -> Phase] /\ slot' \in [Task -> {0, TaskId}] /\ grown' \subseteq Task
    BY <1>2 DEF TypeOK, Phase
  <2>2. buffer' \in [Task -> Buffer \cup {None}]
    BY <1>5 DEF TypeOK
  <2>3. pool' \in [SizeClass -> Seq(Buffer)]
    BY <1>7 DEF PoolOK
  <2> QED BY <1>2, <1>5, <1>7, <1>11, <2>1, <2>2, <2>3 DEF TypeOK, mainVars
<1>13. Owned'
  <2>1. ASSUME NEW u \in Task, Started(u)'
        PROVE  /\ buffer'[u] \in Buffer /\ capacity'[buffer'[u]] \in SizeClass
               /\ ~ InPool(pool', buffer'[u])
    <3>1. CASE u = t
      BY <1>4, <1>7, <1>9, <3>1
    <3>2. CASE u # t
      BY <1>8, <1>9, <1>10, <2>1, <3>2
    <3> QED BY <3>1, <3>2
  <2>2. ASSUME NEW u \in Task, NEW v \in Task, Started(u)', Started(v)', buffer'[u] = buffer'[v]
        PROVE  u = v
    <3>1. CASE u # t /\ v # t
      BY <1>9, <1>10, <2>2, <3>1 DEF Owned
    <3>2. CASE u = t /\ v # t
      BY <1>8, <1>9, <1>10, <2>2, <3>2
    <3>3. CASE u # t /\ v = t
      BY <1>8, <1>9, <1>10, <2>2, <3>3
    <3> QED BY <3>1, <3>2, <3>3
  <2>3. ASSUME NEW u \in Task, ~ Started(u)' PROVE buffer'[u] = None
    BY <1>1, <1>9, <1>10, <2>3 DEF Owned
  <2> QED BY <2>1, <2>2, <2>3 DEF Owned
<1>14. StackOK'
  <2>1. \A i \in 1 .. Len(stack) : stack[i] \in Task
    BY DEF TypeOK
  <2> QED BY <1>2, <1>10, <2>1 DEF StackOK
<1>15. ASSUME NEW u \in Task \ {t} PROVE Local(u)'
  BY <1>2, <1>8, <1>9, LocalFrame DEF mainVars
<1>16. Local(t)'
  <2>1. Quiet(t)'
    BY <1>2, <1>3, <1>9 DEF Quiet, Blocked
  <2>2. Grown(t)'
    BY <1>2, <1>3, <1>7, <1>9 DEF Grown, Sized, TooSmall, SizeOf, mainVars
  <2> QED BY <1>2, <1>3, <1>9, <2>1, <2>2 DEF Local, mainVars
<1>17. InboxOK'
  <2>1. ASSUME NEW i \in 1 .. Len(inbox')
        PROVE  \/ i \in 1 .. Len(inbox) /\ inbox'[i] = inbox[i]
               \/ i = Len(inbox) + 1 /\ inbox'[i] = m
    BY <1>5, <1>11
  <2>2. \A i \in 1 .. Len(inbox) : ~ Grows(inbox[i], t)
    <3>1. ASSUME NEW i \in 1 .. Len(inbox), Grows(inbox[i], t) PROVE FALSE
      <4>1. PICK u \in Task :
              \/ AsksFor(inbox[i], u) /\ reply[u] = "none" /\ Started(u)
              \/ Grows(inbox[i], u) /\ reply[u] = "listen" /\ u \in grown
        BY <3>1 DEF InboxOK
      <4>2. u = t
        BY <3>1, <4>1 DEF AsksFor, Grows, Uuid
      <4> QED BY <1>2, <3>1, <4>1, <4>2 DEF AsksFor, Grows
    <3> QED BY <3>1
  <2>3. ASSUME NEW i \in 1 .. Len(inbox')
        PROVE  \E u \in Task :
                 /\ inbox'[i].buffer = buffer'[u]
                 /\ \/ AsksFor(inbox'[i], u) /\ reply'[u] = "none" /\ Started(u)'
                    \/ Grows(inbox'[i], u) /\ reply'[u] = "listen" /\ u \in grown'
    <3>1. CASE i \in 1 .. Len(inbox) /\ inbox'[i] = inbox[i]
      <4>1. PICK u \in Task :
              /\ inbox[i].buffer = buffer[u]
              /\ \/ AsksFor(inbox[i], u) /\ reply[u] = "none" /\ Started(u)
                 \/ Grows(inbox[i], u) /\ reply[u] = "listen" /\ u \in grown
        BY <3>1 DEF InboxOK
      <4>2. u # t
        BY <1>3, <2>2, <3>1, <4>1
      <4> QED BY <1>2, <1>9, <1>10, <3>1, <4>1, <4>2 DEF mainVars
    <3>2. CASE i = Len(inbox) + 1 /\ inbox'[i] = m
      BY <1>2, <1>3, <1>4, <1>9, <3>2 DEF Grows, mainVars
    <3> QED BY <2>1, <3>1, <3>2
  <2>4. ASSUME NEW i \in 1 .. Len(inbox'), NEW j \in 1 .. Len(inbox'), NEW u \in Task,
               \/ AsksFor(inbox'[i], u) /\ AsksFor(inbox'[j], u)
               \/ Grows(inbox'[i], u) /\ Grows(inbox'[j], u)
        PROVE  i = j
    <3>1. ~ AsksFor(m, u) /\ (Grows(m, u) => u = t)
      BY <1>4 DEF Grows, AsksFor, Uuid
    <3> HIDE DEF m
    <3>2. CASE i \in 1 .. Len(inbox) /\ inbox'[i] = inbox[i] /\ j \in 1 .. Len(inbox) /\ inbox'[j] = inbox[j]
      BY <2>4, <3>2 DEF InboxOK
    <3>3. CASE inbox'[i] = m \/ inbox'[j] = m
      BY <2>1, <2>2, <2>4, <3>1, <3>3
    <3> QED BY <2>1, <3>2, <3>3
  <2> HIDE DEF m
  <2> QED BY <2>3, <2>4 DEF InboxOK, AsksFor, Grows
<1> QED BY <1>7, <1>12, <1>13, <1>14, <1>15, <1>16, <1>17

-----------------------------------------------------------------------------
LEMMA NextSyncInv == SyncInv /\ [Next]_vars => SyncInv'
<1> SUFFICES ASSUME SyncInv, [Next]_vars PROVE SyncInv'
  OBVIOUS
<1>1. ASSUME NEW t \in Task, CallSync(t) \/ TimeoutEvents(t) \/ NextEvent(t) PROVE SyncInv'
  BY <1>1, StartInv DEF CallSync, TimeoutEvents, NextEvent
<1>2. CASE EndEvents
  BY <1>2, EndEventsInv
<1>3. CASE Interrupt
  BY <1>3, InterruptInv
<1>4. CASE Wake
  BY <1>4, WakeInv
<1>5. CASE PollGrow
  BY <1>5, PollGrowInv
<1>6. CASE PollReturn
  BY <1>6, PollReturnInv
<1>7. CASE Receive
  BY <1>7, ReceiveInv
<1>8. ASSUME NEW t \in Task, NEW p \in Payload, Respond(t, p) \/ RespondThrows(t, p) PROVE SyncInv'
  BY <1>8, RespondInv, RespondThrowsInv
<1>9. ASSUME NEW t \in Task, Write(t) \/ StoreSlot(t) \/ SetBit(t) PROVE SyncInv'
  BY <1>9, WriteInv, StoreSlotInv, SetBitInv
<1>10. CASE UNCHANGED vars
  <2>1. /\ UNCHANGED <<stack, handling, phase, grown, buffer, result, pool, capacity,
                       content, size, fits, signal, slot, inbox>>
        /\ UNCHANGED <<reply, response, target, listening, running>>
    BY <1>10 DEF vars, workerVars, sharedVars, mainVars
  <2>2. TypeOK'
    BY <2>1 DEF SyncInv, TypeOK
  <2>3. PoolOK(pool, capacity)' /\ Owned' /\ StackOK'
    BY <2>1 DEF SyncInv, PoolOK, Owned, StackOK, Started, InPool
  <2>4. InboxOK'
    BY <2>1 DEF SyncInv, InboxOK, AsksFor, Grows, Started
  <2>5. ASSUME NEW u \in Task PROVE Local(u)'
    BY <2>1, LocalFrame DEF SyncInv
  <2> QED BY <2>2, <2>3, <2>4, <2>5 DEF SyncInv
<1> QED
  BY <1>1, <1>2, <1>3, <1>4, <1>5, <1>6, <1>7, <1>8, <1>9, <1>10 DEF Next, WorkerStep, MainStep

(* What each task, the shared memory and the messages in between have to   *)
(* do with each other in every reachable state (task-worker.ts,            *)
(* task-main.ts).                                                          *)
THEOREM SyncInvariant == Spec => []SyncInv
  BY InitSyncInv, NextSyncInv, PTL DEF Spec

(* The protocol's state has the shape of the code's buffers, queue and     *)
(* listeners, however many tasks there are and however they nest.          *)
THEOREM SyncTypeCorrect == Spec => []TypeOK
<1>1. SyncInv => TypeOK
  BY DEF SyncInv
<1> QED BY <1>1, SyncInvariant, PTL

(* pollTasks() always finds the task that the slot names. *)
THEOREM WokenTaskIsKnown == Spec => []WokenTaskKnown
<1>1. SyncInv => WokenTaskKnown
  BY ClearedTask DEF WokenTaskKnown
<1> QED BY <1>1, SyncInvariant, PTL

(* signalRequester() never has to wait for its slot. *)
THEOREM SlotIsFree == Spec => []SlotFreeToSignal
<1>1. SyncInv => SlotFreeToSignal
  BY DEF SyncInv, SlotFreeToSignal, Local, Quiet
<1> QED BY <1>1, SyncInvariant, PTL

(* syncResponse() only writes into the buffer its task owns. *)
THEOREM WriterOwnsItsBuffer == Spec => []WriterOwnsBuffer
<1>1. ASSUME SyncInv PROVE WriterOwnsBuffer
  <2>1. ASSUME NEW t \in Task, reply[t] \in {"pending", "write"}
        PROVE  /\ \A c \in SizeClass : target[t] \notin ToSet(pool[c])
               /\ \A u \in Task : buffer[u] = target[t] => u = t
    <3>1. target[t] = buffer[t] /\ Started(t)
      BY <1>1, <2>1 DEF SyncInv, Local, Started
    <3>2. buffer[t] \in Buffer /\ ~ InPool(pool, buffer[t])
      BY <1>1, <3>1 DEF SyncInv, Owned
    <3>3. ASSUME NEW c \in SizeClass PROVE target[t] \notin ToSet(pool[c])
      <4>1. DOMAIN pool[c] = 1 .. Len(pool[c])
        BY <1>1 DEF SyncInv, TypeOK
      <4> QED BY <3>1, <3>2, <4>1 DEF ToSet, InPool
    <3>4. ASSUME NEW u \in Task, buffer[u] = target[t] PROVE u = t
      BY <1>1, <3>1, <3>2, <3>4, SyncTaskAssumption DEF SyncInv, Owned
    <3> QED BY <3>3, <3>4
  <2> QED BY <2>1 DEF WriterOwnsBuffer
<1> QED BY <1>1, SyncInvariant, PTL

(* A response that is written fits in its buffer. *)
THEOREM ResponseAlwaysFits == Spec => []ResponseFitsBuffer
<1>1. SyncInv => ResponseFitsBuffer
  BY DEF SyncInv, ResponseFitsBuffer, Local, Fits
<1> QED BY <1>1, SyncInvariant, PTL

-----------------------------------------------------------------------------
(* A step of the protocol is a step of a blocking call, or none. *)
LEMMA SyncStepSimulates ==
    ASSUME SyncInv, SyncInv', [Next]_vars
    PROVE  [Calls!Next]_(Calls!abstractVars)
<1> DEFINE made == {t \in Task : phase[t] # "new"}
           answer == [t \in Task |-> Answered(t)]
<1>1. ASSUME NEW t \in Task, Start(t) PROVE Calls!Call(t)
  <2>1. /\ phase[t] = "new" /\ phase' = [phase EXCEPT ![t] = "waiting"]
        /\ stack' = Append(stack, t) /\ result' = result /\ response' = response
    BY <1>1 DEF Start, NextTask, mainVars
  <2>2. made' = made \cup {t} /\ t \notin made
    BY <2>1 DEF SyncInv, TypeOK
  <2>3. answer' = answer
    BY <2>1 DEF Answered
  <2> QED BY <2>1, <2>2, <2>3 DEF Calls!Call
<1>2. ASSUME NEW t \in Task, NEW p \in Payload, Respond(t, p)
      PROVE  Calls!Answer(t, Bytes(t, p))
  <2>1. /\ reply[t] = "pending" /\ response' = [response EXCEPT ![t] = p]
        /\ UNCHANGED <<phase, stack, result>>
    BY <1>2 DEF Respond, workerVars
  <2>2. response[t] = None /\ phase[t] # "new" /\ p # None
    BY <2>1, SyncTaskAssumption DEF SyncInv, Local
  <2>3. response \in [Task -> Payload \cup {None}]
    BY DEF SyncInv, TypeOK
  <2>4. answer' = [answer EXCEPT ![t] = Bytes(t, p)] /\ answer[t] = None
    BY <2>1, <2>2, <2>3 DEF Answered
  <2>5. made' = made /\ t \in made
    BY <2>1, <2>2
  <2> QED BY <2>1, <2>4, <2>5 DEF Calls!Answer
<1>3. CASE PollReturn
  <2>1. PICK t \in Task : t = Top /\ Started(t)
    BY <1>3, TopStarted DEF PollReturn
  <2>2. /\ phase[t] = "cleared" /\ stack # <<>> /\ (t \in grown \/ fits[t] = 1)
        /\ result' = [result EXCEPT ![t] = content[buffer[t]]]
        /\ phase' = [phase EXCEPT ![t] = "returned"]
        /\ stack' = Front(stack) /\ response' = response
    BY <1>3, <2>1 DEF PollReturn, mainVars
  <2>3. Filled(t)
    BY <2>2, ClearedTask DEF TooSmall
  <2>4. answer[t] = content[buffer[t]] /\ answer[t] # None
    <3>1. response[t] # None /\ Bytes(t, response[t]) \in Content
      BY <2>3, SyncTaskAssumption DEF Filled, Content
    <3> QED BY <2>3, <3>1, SyncTaskAssumption DEF Filled, Answered
  <2>5. answer' = answer
    BY <2>2 DEF Answered
  <2>6. made' = made
    BY <2>1, <2>2 DEF SyncInv, TypeOK, Started
  <2>7. t = stack[Len(stack)] /\ stack' = SubSeq(stack, 1, Len(stack) - 1)
    BY <2>1, <2>2 DEF Top, Last, Front
  <2>8. result' = [result EXCEPT ![stack[Len(stack)]] = answer[stack[Len(stack)]]]
    <3>1. result' = [result EXCEPT ![t] = answer[t]]
      BY <2>2, <2>4
    <3> HIDE DEF answer
    <3> QED BY <3>1, <2>7
  <2>9. answer[stack[Len(stack)]] # None
    <3> HIDE DEF answer
    <3> QED BY <2>4, <2>7
  <2>10. Calls!Return
    <3>1. stack # <<>> /\ stack' = SubSeq(stack, 1, Len(stack) - 1)
      BY <2>2, <2>7
    <3>2. UNCHANGED <<made, answer>>
      BY <2>5, <2>6
    <3> QED BY <2>8, <2>9, <3>1, <3>2 DEF Calls!Return
  <2> QED BY <2>10 DEF Calls!Next
<1>4. CASE Interrupt
  <2>1. /\ stack' = <<>> /\ result' = result /\ response' = response
        /\ phase' = [t \in Task |-> IF t \in ToSet(stack) THEN "abandoned" ELSE phase[t]]
    BY <1>4 DEF Interrupt, mainVars
  <2>2. \A t \in ToSet(stack) : Started(t)
    BY DOMAIN stack = 1 .. Len(stack) DEF SyncInv, TypeOK, ToSet, StackOK
  <2>3. made' = made
    BY <2>1, <2>2 DEF Started
  <2>4. answer' = answer
    BY <2>1 DEF Answered
  <2> QED BY <2>1, <2>3, <2>4 DEF Calls!Abandon, Calls!Next
<1>5. CASE \/ EndEvents \/ Receive \/ UNCHANGED vars
           \/ \E t \in Task : \E p \in Payload : RespondThrows(t, p)
           \/ \E t \in Task : Write(t) \/ StoreSlot(t) \/ SetBit(t)
  <2>1. UNCHANGED <<stack, phase, result, response>>
    BY <1>5 DEF EndEvents, Receive, RespondThrows, Write, StoreSlot, SetBit, vars, workerVars, mainVars
  <2>2. made' = made /\ answer' = answer
    BY <2>1 DEF Answered
  <2> QED BY <2>1, <2>2 DEF Calls!abstractVars
<1>6. CASE Wake \/ PollGrow
  <2>1. PICK t \in Task : t = Top /\ Started(t)
    BY <1>6, TopStarted DEF Wake, PollGrow
  <2>2. /\ UNCHANGED <<stack, result, response>>
        /\ phase' = [phase EXCEPT ![t] = "cleared"] \/ phase' = [phase EXCEPT ![t] = "waiting"]
    BY <1>6, <2>1 DEF Wake, PollGrow, mainVars
  <2>3. made' = made
    BY <2>1, <2>2 DEF SyncInv, TypeOK, Started
  <2>4. answer' = answer
    BY <2>2 DEF Answered
  <2> QED BY <2>2, <2>3, <2>4 DEF Calls!abstractVars
<1>7. ASSUME NEW t \in Task, Start(t) PROVE Calls!Next
  BY <1>1, <1>7 DEF Calls!Next
<1>8. ASSUME NEW t \in Task, NEW p \in Payload, Respond(t, p) PROVE Calls!Next
  BY <1>2, <1>8 DEF Calls!Next
<1> QED
  BY <1>3, <1>4, <1>5, <1>6, <1>7, <1>8
     DEF Next, WorkerStep, MainStep, CallSync, TimeoutEvents, NextEvent

(* syncify() returns what syncResponse() was given for the same request,   *)
(* through nested requests, interrupts and bigger buffers.                 *)
THEOREM SyncTaskImplementsBlockingCall == Spec => ImplementsBlockingCall
<1>1. Init => Calls!Init
  BY DEF Init, Calls!Init, Answered
<1>2. SyncInv /\ SyncInv' /\ [Next]_vars => [Calls!Next]_(Calls!abstractVars)
  BY SyncStepSimulates
<1> QED BY <1>1, <1>2, SyncInvariant, PTL DEF Spec, Calls!Spec, ImplementsBlockingCall
====
