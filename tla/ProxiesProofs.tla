---- MODULE ProxiesProofs ----
(***************************************************************************)
(* Proxied sockets and workers, for any number of them and any bounds:     *)
(* JavaScript sees each socket's events in an order the WebSocket          *)
(* interface allows, the loop over system messages outlives good use, and  *)
(* a synchronous post has its own answer once nothing is under way.        *)
(***************************************************************************)
EXTENDS Proxies, FiniteSetTheorems, SequenceTheorems, TLAPS

-----------------------------------------------------------------------------
(* The inductive invariant.                                                *)

SocketOp == {"proxyWebSocket", "sendWebSocket", "closeWebSocket"}
SystemMessage ==
    [op : SocketOp, of : Socket]
    \cup [op : {"proxyWorker", "terminateWorker"}, of : Peer]
    \cup [op : {"postMessageWorker"}, of : Peer, post : Nat]
SocketKind == {"open", "message", "error", "close"}
Event == [kind : SocketKind, of : Socket] \cup [kind : {"worker"}, of : Peer]

ProxiesTypes ==
    /\ toSystem \in Seq(SystemMessage) /\ events \in Seq(Event)
    /\ socket \in [Socket -> {"none", "connecting", "open", "closing", "closed"}]
    /\ socketProxy \in [Socket -> {"none", "connecting", "open"}]
    /\ heard \in [Socket -> Seq(SocketKind)]
    /\ sentData \in [Socket -> Nat] /\ arrivedData \in [Socket -> Nat]
    /\ peer \in [Peer -> {"none", "running", "failed", "ended"}]
    /\ posts \in Seq([to : Peer, async : BOOLEAN, behind : BOOLEAN])

Says(i, op, x) == toSystem[i].op = op /\ toSystem[i].of = x
OfSocket(i, s) == events[i].kind # "worker" /\ events[i].of = s
IsEvent(i, kind, s) == events[i].kind = kind /\ events[i].of = s
Opened(s) == heard[s] # <<>> /\ heard[s][1] = "open"
Closed(s) == \E i \in DOMAIN heard[s] : heard[s][i] = "close"

(* A socket is made once, by the message of the proxy that was made first. *)
SocketMadeOnce(s) ==
    /\ socketProxy[s] = "none" => /\ socket[s] = "none"
                                  /\ \A i \in 1 .. Len(toSystem) : ~ Says(i, "proxyWebSocket", s)
    /\ \A i, j \in 1 .. Len(toSystem) :
         Says(i, "proxyWebSocket", s) => socket[s] = "none" /\ (Says(j, "proxyWebSocket", s) => i = j)
    /\ s \in socketMap => socket[s] # "none"

(* What was heard and what is under way, together, begin with the opening. *)
OpensFirst(s) ==
    /\ socket[s] \in {"none", "connecting"} =>
         heard[s] = <<>> /\ \A i \in 1 .. Len(events) : ~ OfSocket(i, s)
    /\ \A i \in 1 .. Len(events) :
         /\ IsEvent(i, "open", s) => /\ heard[s] = <<>> /\ socketProxy[s] = "connecting"
                                     /\ \A j \in 1 .. i - 1 : ~ OfSocket(j, s)
         /\ IsEvent(i, "message", s) => Opened(s) \/ \E j \in 1 .. i - 1 : IsEvent(j, "open", s)
    /\ socket[s] = "open" => Opened(s) \/ \E j \in 1 .. Len(events) : IsEvent(j, "open", s)
    /\ socketProxy[s] = "open" => Opened(s)
    /\ \A i \in DOMAIN heard[s] : /\ heard[s][i] = "open" => i = 1
                                  /\ heard[s][i] = "message" => Opened(s)

(* They end with the closing.                                              *)
ClosesLast(s) ==
    /\ socket[s] # "closed" => ~ Closed(s) /\ \A i \in 1 .. Len(events) : ~ IsEvent(i, "close", s)
    /\ \A i \in 1 .. Len(events) :
         IsEvent(i, "close", s) => ~ Closed(s) /\ \A j \in i + 1 .. Len(events) : ~ OfSocket(j, s)
    /\ Closed(s) => \A i \in 1 .. Len(events) : ~ OfSocket(i, s)
    /\ \A i \in DOMAIN heard[s] : heard[s][i] = "close" => i = Len(heard[s])

(* Data that arrived, and data under way, were sent.                       *)
Sends(queue, s) == {i \in 1 .. Len(queue) : queue[i].op = "sendWebSocket" /\ queue[i].of = s}
DataWereSent(s) == arrivedData[s] + Cardinality(Sends(toSystem, s)) <= sentData[s]

(* A worker is made once, and the map has those that run.                  *)
PeerMadeOnce(w) ==
    /\ w \in peerMap <=> peer[w] = "running"
    /\ \A i, j \in 1 .. Len(toSystem) :
         Says(i, "proxyWorker", w) => peer[w] = "none" /\ (Says(j, "proxyWorker", w) => i = j)

(* No message under way will throw.                                        *)
SendsAreSafe(s) == \A i \in 1 .. Len(toSystem) : Says(i, "sendWebSocket", s) => socketProxy[s] = "open"
PostsAreSafe(w) ==
    /\ peer[w] # "failed"
    /\ \A i \in 1 .. Len(toSystem) : Says(i, "postMessageWorker", w) =>
         /\ \A j \in 1 .. i - 1 : ~ Says(j, "terminateWorker", w)
         /\ peer[w] = "running" \/ \E j \in 1 .. i - 1 : Says(j, "proxyWorker", w)
LoopIsSafe ==
    excused # TRUE => /\ looping = TRUE
                      /\ \A s \in Socket : SendsAreSafe(s)
                      /\ \A w \in Peer : PostsAreSafe(w)

SocketsInv == \A s \in Socket : SocketMadeOnce(s) /\ OpensFirst(s) /\ ClosesLast(s)
ProxiesInv ==
    /\ ProxiesTypes /\ SocketsInv
    /\ \A s \in Socket : DataWereSent(s)
    /\ \A w \in Peer : PeerMadeOnce(w)
    /\ LoopIsSafe

-----------------------------------------------------------------------------
(* How a step changes the two queues.                                      *)

Put(m) ==
    /\ toSystem' \in Seq(SystemMessage) /\ m \in SystemMessage
    /\ Len(toSystem) \in Nat /\ Len(toSystem') = Len(toSystem) + 1
    /\ \A i \in 1 .. Len(toSystem) : toSystem'[i] = toSystem[i] /\ toSystem[i] \in SystemMessage
    /\ toSystem'[Len(toSystem) + 1] = m
    /\ \A s : Cardinality(Sends(toSystem', s)) =
                Cardinality(Sends(toSystem, s))
                + IF m.op = "sendWebSocket" /\ m.of = s THEN 1 ELSE 0
Taken(m) ==
    /\ toSystem' \in Seq(SystemMessage) /\ m \in SystemMessage
    /\ Len(toSystem) \in Nat /\ Len(toSystem) >= 1 /\ Len(toSystem') = Len(toSystem) - 1
    /\ m = toSystem[1]
    /\ \A i \in 1 .. Len(toSystem') : toSystem'[i] = toSystem[i + 1] /\ toSystem[i] \in SystemMessage
    /\ \A s : Cardinality(Sends(toSystem', s)) =
                Cardinality(Sends(toSystem, s))
                - IF m.op = "sendWebSocket" /\ m.of = s THEN 1 ELSE 0

LEMMA SendsFinite ==
    ASSUME NEW queue \in Seq(SystemMessage), NEW s
    PROVE  IsFiniteSet(Sends(queue, s)) /\ Cardinality(Sends(queue, s)) \in Nat
<1>1. IsFiniteSet(1 .. Len(queue))
  BY FS_Interval
<1> QED BY <1>1, FS_Subset, FS_CardinalityType DEF Sends

LEMMA PutChanges ==
    ASSUME toSystem \in Seq(SystemMessage), NEW m \in SystemMessage, SystemPut(m)
    PROVE  Put(m)
<1> DEFINE q == toSystem
           r == Append(toSystem, m)
<1>0. toSystem' = r
  BY DEF SystemPut
<1>1. /\ r \in Seq(SystemMessage) /\ Len(q) \in Nat /\ Len(r) = Len(q) + 1
      /\ \A i \in 1 .. Len(q) : r[i] = q[i] /\ q[i] \in SystemMessage
      /\ r[Len(q) + 1] = m
  OBVIOUS
<1> HIDE DEF r
<1>2. ASSUME NEW s
      PROVE  Cardinality(Sends(r, s)) =
               Cardinality(Sends(q, s)) + IF m.op = "sendWebSocket" /\ m.of = s THEN 1 ELSE 0
  <2>1. Sends(r, s) = IF m.op = "sendWebSocket" /\ m.of = s THEN Sends(q, s) \cup {Len(q) + 1}
                      ELSE Sends(q, s)
    BY <1>1 DEF Sends
  <2>2. Len(q) + 1 \notin Sends(q, s)
    BY <1>1 DEF Sends
  <2>3. IsFiniteSet(Sends(q, s)) /\ Cardinality(Sends(q, s)) \in Nat
    BY SendsFinite
  <2>4. Cardinality(Sends(q, s) \cup {Len(q) + 1}) = Cardinality(Sends(q, s)) + 1
    BY <2>2, <2>3, FS_AddElement
  <2> QED BY <2>1, <2>3, <2>4
<1> QED BY <1>0, <1>1, <1>2 DEF Put

LEMMA TakenChanges ==
    ASSUME toSystem \in Seq(SystemMessage), NEW op, SystemTakes(op)
    PROVE  Taken(Head(toSystem)) /\ Head(toSystem).op = op
<1> DEFINE q == toSystem
           r == Tail(toSystem)
           m == Head(toSystem)
<1>0. q # <<>> /\ toSystem' = r /\ m.op = op
  BY DEF SystemTakes
<1>1. /\ r \in Seq(SystemMessage) /\ Len(q) \in Nat /\ Len(q) >= 1 /\ Len(r) = Len(q) - 1
      /\ m = q[1] /\ m \in SystemMessage
      /\ \A i \in 1 .. Len(r) : r[i] = q[i + 1] /\ q[i] \in SystemMessage
  BY <1>0
<1> HIDE DEF r, m
<1>2. ASSUME NEW s
      PROVE  Cardinality(Sends(r, s)) =
               Cardinality(Sends(q, s)) - IF m.op = "sendWebSocket" /\ m.of = s THEN 1 ELSE 0
  <2> DEFINE S == Sends(r, s)
             T == Sends(q, s) \ {1}
             f == [i \in S |-> i + 1]
  <2>1. f \in [S -> T]
    BY <1>1 DEF Sends
  <2>2. \A x, y \in S : f[x] = f[y] => x = y
    BY DEF Sends
  <2>3. \A y \in T : \E x \in S : f[x] = y
    <3> TAKE y \in T
    <3>1. y - 1 \in S /\ (y - 1) + 1 = y
      BY <1>1 DEF Sends
    <3> QED BY <3>1
  <2>4. IsFiniteSet(S) /\ IsFiniteSet(Sends(q, s))
    BY <1>1, SendsFinite
  <2>5. Cardinality(T) = Cardinality(S)
    <3> HIDE DEF f, S, T
    <3>1. f \in Bijection(S, T)
      BY <2>1, <2>2, <2>3 DEF Bijection, Injection, Surjection, IsInjective
    <3> QED BY <3>1, <2>4, FS_Bijection DEF ExistsBijection
  <2>6. 1 \in Sends(q, s) <=> m.op = "sendWebSocket" /\ m.of = s
    BY <1>1 DEF Sends
  <2>7. Cardinality(Sends(q, s)) \in Nat /\ Cardinality(S) \in Nat
    BY <2>4, FS_CardinalityType
  <2> HIDE DEF f, S
  <2>8. Cardinality(T) = IF m.op = "sendWebSocket" /\ m.of = s THEN Cardinality(Sends(q, s)) - 1
                         ELSE Cardinality(Sends(q, s))
    BY <2>4, <2>6, FS_RemoveElement
  <2> QED BY <2>5, <2>7, <2>8 DEF S
<1> QED BY <1>0, <1>1, <1>2 DEF Taken, m

LEMMA MessageSubjects ==
    ASSUME NEW m \in SystemMessage
    PROVE  /\ m.op \in SocketOp => m.of \in Socket
           /\ m.op \in {"proxyWorker", "terminateWorker", "postMessageWorker"} => m.of \in Peer
BY DEF SystemMessage, SocketOp

(* Events are added at the end.                                            *)
Emits(kinds, x) ==
    /\ events' \in Seq(Event) /\ Len(events) \in Nat /\ Len(events') = Len(events) + Len(kinds)
    /\ \A i \in 1 .. Len(events) : events'[i] = events[i] /\ events[i] \in Event
    /\ \A k \in 1 .. Len(kinds) : events'[Len(events) + k] = [kind |-> kinds[k], of |-> x]

LEMMA EmitChanges ==
    ASSUME events \in Seq(Event), NEW kinds, NEW x,
           \/ kinds \in Seq(SocketKind) /\ x \in Socket
           \/ kinds \in Seq({"worker"}) /\ x \in Peer,
           Emit(kinds, x)
    PROVE  Emits(kinds, x)
<1> DEFINE e == [i \in DOMAIN kinds |-> [kind |-> kinds[i], of |-> x]]
<1>1. kinds \in Seq(SocketKind \cup {"worker"})
  OBVIOUS
<1>2. Len(kinds) \in Nat /\ DOMAIN kinds = 1 .. Len(kinds)
  BY <1>1
<1>3. \A i \in 1 .. Len(kinds) : [kind |-> kinds[i], of |-> x] \in Event
  <2>1. CASE kinds \in Seq(SocketKind) /\ x \in Socket
    BY <2>1 DEF Event
  <2>2. CASE kinds \in Seq({"worker"}) /\ x \in Peer
    BY <2>2 DEF Event
  <2> QED BY <2>1, <2>2
<1>4. e \in Seq(Event) /\ Len(e) = Len(kinds)
  BY <1>2, <1>3
<1>5. \A k \in 1 .. Len(kinds) : e[k] = [kind |-> kinds[k], of |-> x]
  BY <1>2
<1>6. events' = events \o e
  BY DEF Emit
<1> HIDE DEF e
<1>7. /\ events \o e \in Seq(Event) /\ Len(events) \in Nat /\ Len(events \o e) = Len(events) + Len(e)
      /\ \A i \in 1 .. Len(events) : (events \o e)[i] = events[i] /\ events[i] \in Event
      /\ \A k \in 1 .. Len(e) : (events \o e)[Len(events) + k] = e[k]
  BY <1>4
<1> QED BY <1>4, <1>5, <1>6, <1>7 DEF Emits

(* One event or two are added.                                             *)
Adds(kind, x) ==
    /\ Len(events) \in Nat /\ Len(events') = Len(events) + 1
    /\ \A i \in 1 .. Len(events) : events'[i] = events[i]
    /\ events'[Len(events) + 1] = [kind |-> kind, of |-> x]
AddsTwo(first, second, x) ==
    /\ Len(events) \in Nat /\ Len(events') = Len(events) + 2
    /\ \A i \in 1 .. Len(events) : events'[i] = events[i]
    /\ events'[Len(events) + 1] = [kind |-> first, of |-> x]
    /\ events'[Len(events) + 2] = [kind |-> second, of |-> x]

LEMMA EmitsOne == ASSUME NEW kind, NEW x, Emits(<<kind>>, x) PROVE Adds(kind, x)
<1> DEFINE kinds == <<kind>>
<1>1. Len(kinds) = 1 /\ kinds[1] = kind
  OBVIOUS
<1>2. Emits(kinds, x)
  OBVIOUS
<1> HIDE DEF kinds
<1>3. events'[Len(events) + 1] = [kind |-> kinds[1], of |-> x]
  BY <1>1, <1>2 DEF Emits
<1> QED BY <1>1, <1>2, <1>3 DEF Emits, Adds

LEMMA EmitsTwo ==
    ASSUME NEW first, NEW second, NEW x, Emits(<<first, second>>, x) PROVE AddsTwo(first, second, x)
<1> DEFINE kinds == <<first, second>>
<1>1. Len(kinds) = 2 /\ kinds[1] = first /\ kinds[2] = second
  OBVIOUS
<1>2. Emits(kinds, x)
  OBVIOUS
<1> HIDE DEF kinds
<1>3. /\ events'[Len(events) + 1] = [kind |-> kinds[1], of |-> x]
      /\ events'[Len(events) + 2] = [kind |-> kinds[2], of |-> x]
  BY <1>1, <1>2 DEF Emits
<1> QED BY <1>1, <1>2, <1>3 DEF Emits, AddsTwo

(* The oldest event is taken.                                              *)
EventTaken ==
    /\ events' \in Seq(Event) /\ Len(events) \in Nat /\ Len(events) >= 1 /\ Len(events') = Len(events) - 1
    /\ events[1] \in Event
    /\ \A i \in 1 .. Len(events') : events'[i] = events[i + 1]

LEMMA EventTakenChanges ==
    ASSUME events \in Seq(Event), HandleEvent
    PROVE  EventTaken
<1>1. events # <<>> /\ events' = SubSeq(events, 1, 0) \o SubSeq(events, 2, Len(events))
  BY DEF HandleEvent, OldestEvent, RemoveAt
<1>2. Len(events) \in Nat /\ Len(events) >= 1
  BY <1>1
<1>3. SubSeq(events, 1, 0) = <<>>
  BY <1>2
<1> DEFINE e == SubSeq(events, 2, Len(events))
<1>4. e \in Seq(Event) /\ Len(e) = Len(events) - 1
      /\ \A i \in 1 .. Len(events) - 1 : e[i] = events[i + 1]
  <2>1. Len(events) \in Int /\ 2 \in Int /\ \A i \in 2 .. Len(events) : events[i] \in Event
    BY <1>2
  <2>2. /\ e \in Seq(Event) /\ Len(e) = IF 2 <= Len(events) THEN Len(events) - 2 + 1 ELSE 0
        /\ \A i \in 1 .. Len(events) - 2 + 1 : e[i] = events[2 + i - 1]
    BY <2>1, SubSeqProperties
  <2> HIDE DEF e
  <2>3. \A i \in 1 .. Len(events) - 1 : 2 + i - 1 = i + 1 /\ i \in 1 .. Len(events) - 2 + 1
    BY <1>2
  <2>4. Len(e) = Len(events) - 1
    <3>1. CASE 2 <= Len(events)
      <4>1. Len(e) = Len(events) - 2 + 1
        BY <2>2, <3>1
      <4>2. Len(events) - 2 + 1 = Len(events) - 1
        BY <1>2
      <4> QED BY <4>1, <4>2
    <3>2. CASE ~ (2 <= Len(events))
      <4>1. Len(e) = 0
        BY <2>2, <3>2
      <4>2. Len(events) - 1 = 0
        <5> DEFINE n == Len(events)
        <5>1. n \in Nat /\ n >= 1 /\ ~ (2 <= n)
          BY <1>2, <3>2
        <5> HIDE DEF n
        <5>2. n - 1 = 0
          BY <5>1
        <5> QED BY <5>2 DEF n
      <4> QED BY <4>1, <4>2
    <3> QED BY <3>1, <3>2
  <2>5. ASSUME NEW i \in 1 .. Len(events) - 1 PROVE e[i] = events[i + 1]
    BY <2>2, <2>3
  <2> QED BY <2>2, <2>4, <2>5
<1>5. events' = e
  BY <1>1, <1>3, <1>4
<1> HIDE DEF e
<1> QED BY <1>2, <1>4, <1>5 DEF EventTaken

-----------------------------------------------------------------------------
(* Types.                                                                  *)

LEMMA TypesInit == ASSUME ProxiesInit PROVE ProxiesTypes
<1>1. <<>> \in Seq(SystemMessage) /\ <<>> \in Seq(Event) /\ <<>> \in Seq(SocketKind)
      /\ <<>> \in Seq([to : Peer, async : BOOLEAN, behind : BOOLEAN])
  OBVIOUS
<1> QED BY <1>1 DEF ProxiesInit, ProxiesTypes

(* What JavaScript on the R worker writes is a message.                    *)
LEMMA ScriptMessages ==
    /\ \A s \in Socket, op \in SocketOp : [op |-> op, of |-> s] \in SystemMessage
    /\ \A w \in Peer, op \in {"proxyWorker", "terminateWorker"} : [op |-> op, of |-> w] \in SystemMessage
    /\ \A w \in Peer, p \in Nat : [op |-> "postMessageWorker", of |-> w, post |-> p] \in SystemMessage
BY DEF SystemMessage

LEMMA TypesSocketScript ==
    ASSUME ProxiesTypes, NEW s \in Socket, NewSocket(s) \/ SendData(s) \/ CloseSocket(s)
    PROVE  ProxiesTypes'
<1>0. toSystem \in Seq(SystemMessage)
  BY DEF ProxiesTypes
<1>1. CASE NewSocket(s)
  <2>1. toSystem' \in Seq(SystemMessage)
    BY <1>0, <1>1, ScriptMessages, PutChanges DEF NewSocket, Put, SocketOp
  <2> QED BY <1>1, <2>1 DEF NewSocket, ProxiesTypes, ScriptOnly, SamePosts
<1>2. CASE SendData(s)
  <2>1. toSystem' \in Seq(SystemMessage)
    BY <1>0, <1>2, ScriptMessages, PutChanges DEF SendData, Put, SocketOp
  <2>2. sentData' \in [Socket -> Nat]
    BY <1>2 DEF SendData, ProxiesTypes
  <2> QED BY <1>2, <2>1, <2>2 DEF SendData, ProxiesTypes, ScriptOnly, SamePosts
<1>3. CASE CloseSocket(s)
  <2>1. toSystem' \in Seq(SystemMessage)
    BY <1>0, <1>3, ScriptMessages, PutChanges DEF CloseSocket, Put, SocketOp
  <2> QED BY <1>3, <2>1 DEF CloseSocket, ProxiesTypes, ScriptOnly, SamePosts, SameSockets
<1> QED BY <1>1, <1>2, <1>3

LEMMA TypesPeerScript ==
    ASSUME ProxiesTypes, NEW w \in Peer, NEW b \in BOOLEAN,
           NewPeer(w) \/ TerminatePeer(w) \/ PostToPeer(w, b)
    PROVE  ProxiesTypes'
<1>0. toSystem \in Seq(SystemMessage)
  BY DEF ProxiesTypes
<1>1. CASE NewPeer(w)
  <2>1. toSystem' \in Seq(SystemMessage)
    BY <1>0, <1>1, ScriptMessages, PutChanges DEF NewPeer, Put
  <2> QED BY <1>1, <2>1 DEF NewPeer, ProxiesTypes, ScriptOnly, SamePosts, SameSockets
<1>2. CASE TerminatePeer(w)
  <2>1. toSystem' \in Seq(SystemMessage)
    BY <1>0, <1>2, ScriptMessages, PutChanges DEF TerminatePeer, Put
  <2> QED BY <1>2, <2>1 DEF TerminatePeer, ProxiesTypes, ScriptOnly, SamePosts, SameSockets
<1>3. CASE PostToPeer(w, b)
  <2>1. Len(posts) + 1 \in Nat
    BY DEF ProxiesTypes
  <2>2. SystemPut([op |-> "postMessageWorker", of |-> w, post |-> Len(posts) + 1])
    BY <1>3 DEF PostToPeer
  <2>3. toSystem' \in Seq(SystemMessage)
    BY <1>0, <2>1, <2>2, ScriptMessages, PutChanges DEF Put
  <2> DEFINE behind == Written("postMessageWorker", w) \/ peerInbox[w] # <<>>
  <2>4. posts' = Append(posts, [to |-> w, async |-> b, behind |-> behind])
    BY <1>3 DEF PostToPeer
  <2>5. behind \in BOOLEAN
    OBVIOUS
  <2> HIDE DEF behind
  <2>6. posts' \in Seq([to : Peer, async : BOOLEAN, behind : BOOLEAN])
    BY <2>4, <2>5 DEF ProxiesTypes
  <2> QED BY <1>3, <2>3, <2>6 DEF PostToPeer, ProxiesTypes, ScriptOnly, SameSockets
<1> QED BY <1>1, <1>2, <1>3

(* The subject of a message that the main thread takes.                    *)
LEMMA TakenSubject ==
    ASSUME ProxiesTypes, NEW op, SystemTakes(op)
    PROVE  /\ Taken(Head(toSystem)) /\ Head(toSystem).op = op
           /\ op \in SocketOp => Subject \in Socket
           /\ op \in {"proxyWorker", "terminateWorker", "postMessageWorker"} => Subject \in Peer
           /\ toSystem' \in Seq(SystemMessage)
<1>1. toSystem \in Seq(SystemMessage)
  BY DEF ProxiesTypes
<1>2. Taken(Head(toSystem)) /\ Head(toSystem).op = op
  BY <1>1, TakenChanges
<1> QED BY <1>2, MessageSubjects DEF Taken, Subject

LEMMA TypesMain ==
    ASSUME ProxiesTypes, NEW o \in {"loaded", "refused", "unreachable"}, NEW b \in BOOLEAN,
           \/ MainNewSocket(b) \/ MainSend \/ MainClose(b) \/ MainPost(b) \/ MainTerminate \/ MainNewPeer(o)
    PROVE  ProxiesTypes'
<1>1. CASE MainNewSocket(b)
  <2>1. toSystem' \in Seq(SystemMessage) /\ Subject \in Socket
    BY <1>1, TakenSubject DEF MainNewSocket, SocketOp
  <2> QED BY <1>1, <2>1 DEF MainNewSocket, SystemTakes, ProxiesTypes, SamePosts, SameSockets, SocketsOnly
<1>2. CASE MainSend
  <2>1. toSystem' \in Seq(SystemMessage) /\ Subject \in Socket
    BY <1>2, TakenSubject DEF MainSend, SocketOp
  <2>2. arrivedData' \in [Socket -> Nat]
    BY <1>2, <2>1 DEF MainSend, ProxiesTypes
  <2> QED BY <1>2, <2>1, <2>2 DEF MainSend, SystemTakes, ProxiesTypes, SamePosts, SameSockets, SocketsOnly
<1>3. CASE MainClose(b)
  <2>1. toSystem' \in Seq(SystemMessage) /\ Subject \in Socket
    BY <1>3, TakenSubject DEF MainClose, SocketOp
  <2> QED BY <1>3, <2>1 DEF MainClose, SystemTakes, ProxiesTypes, SamePosts, SameSockets, SocketsOnly
<1>4. CASE MainPost(b)
  <2>1. toSystem' \in Seq(SystemMessage)
    BY <1>4, TakenSubject DEF MainPost
  <2> QED BY <1>4, <2>1 DEF MainPost, SystemTakes, ProxiesTypes, SamePosts, SameSockets, PeersOnly
<1>5. CASE MainTerminate
  <2>1. toSystem' \in Seq(SystemMessage) /\ Subject \in Peer
    BY <1>5, TakenSubject DEF MainTerminate
  <2> QED BY <1>5, <2>1 DEF MainTerminate, SystemTakes, ProxiesTypes, SamePosts, SameSockets, PeersOnly
<1>6. CASE MainNewPeer(o)
  <2>1. toSystem' \in Seq(SystemMessage) /\ Subject \in Peer
    BY <1>6, TakenSubject DEF MainNewPeer
  <2> QED BY <1>6, <2>1 DEF MainNewPeer, SystemTakes, ProxiesTypes, SamePosts, SameSockets, PeersOnly
<1> QED BY <1>1, <1>2, <1>3, <1>4, <1>5, <1>6

(* What a real socket does.                                                *)
Outside(s, from, kinds, to) ==
    /\ kinds \in Seq(SocketKind)
    /\ from \subseteq {"connecting", "open", "closing"} /\ to \in {"open", "closed"}
    /\ SocketEvent(s, from, kinds, to)

LEMMA SocketDoes ==
    ASSUME NEW s \in Socket, SocketOpens(s) \/ SocketCloses(s) \/ SocketFails(s) \/ SocketReceives(s)
    PROVE  \/ Outside(s, {"connecting"}, <<"open">>, "open")
           \/ Outside(s, {"open", "closing"}, <<"close">>, "closed")
           \/ Outside(s, {"connecting", "open", "closing"}, <<"error", "close">>, "closed")
           \/ Outside(s, {"open"}, <<"message">>, "open")
BY DEF SocketOpens, SocketCloses, SocketFails, SocketReceives, Outside, SocketKind

LEMMA TypesSocket ==
    ASSUME ProxiesTypes, NEW s \in Socket, NEW from, NEW kinds, NEW to, Outside(s, from, kinds, to)
    PROVE  ProxiesTypes' /\ Emits(kinds, s)
<1>1. events \in Seq(Event) /\ Emit(kinds, s) /\ kinds \in Seq(SocketKind)
  BY DEF ProxiesTypes, Outside, SocketEvent
<1>2. Emits(kinds, s)
  BY <1>1, EmitChanges
<1>3. events' \in Seq(Event)
  BY <1>2 DEF Emits
<1> QED BY <1>2, <1>3 DEF Outside, SocketEvent, OutsideOnly, SamePosts, SameSockets, ProxiesTypes

(* What a real worker does touches the socket's side only by its events.   *)
LEMMA TypesPeer ==
    ASSUME ProxiesTypes, NEW w \in Peer, NEW b \in BOOLEAN, PeerAnswers(w) \/ PeerIgnores(w, b)
    PROVE  ProxiesTypes' /\ (Emits(<<"worker">>, w) \/ UNCHANGED events)
<1>1. events \in Seq(Event)
  BY DEF ProxiesTypes
<1>2. Emit(<<"worker">>, w) \/ UNCHANGED events
  BY DEF PeerAnswers, PeerIgnores
<1>3. <<"worker">> \in Seq({"worker"})
  OBVIOUS
<1>4. Emits(<<"worker">>, w) \/ UNCHANGED events
  BY <1>1, <1>2, <1>3, EmitChanges
<1>5. events' \in Seq(Event)
  BY <1>1, <1>4 DEF Emits
<1>6. UNCHANGED <<toSystem, socket, socketProxy, heard, sentData, arrivedData, peer, posts>>
  BY DEF PeerAnswers, PeerIgnores, PeerTakes, OutsideOnly, SameSockets
<1> QED BY <1>4, <1>5, <1>6 DEF ProxiesTypes

(* What a proxy does with the oldest event.                                *)
Known(s) == ~ Closed(s)
Accepted(e) == Known(e.of) /\ e.kind = "open" /\ socketProxy[e.of] = "connecting"
Hears(e) ==
    /\ heard' = IF Known(e.of) /\ (e.kind = "open" => Accepted(e))
                THEN [heard EXCEPT ![e.of] = Append(@, e.kind)] ELSE heard
    /\ socketProxy' = IF Accepted(e) THEN [socketProxy EXCEPT ![e.of] = "open"] ELSE socketProxy

LEMMA TypesHandle ==
    ASSUME ProxiesTypes, HandleEvent
    PROVE  /\ ProxiesTypes' /\ EventTaken
           /\ \/ events[1] \in [kind : SocketKind, of : Socket] /\ Hears(events[1])
              \/ events[1] \in [kind : {"worker"}, of : Peer] /\ UNCHANGED <<heard, socketProxy>>
<1>1. EventTaken
  BY EventTakenChanges DEF ProxiesTypes
<1>2. events' \in Seq(Event) /\ events[1] \in Event
  BY <1>1 DEF EventTaken
<1>3. \/ events[1] \in [kind : SocketKind, of : Socket] /\ Hears(events[1])
      \/ events[1] \in [kind : {"worker"}, of : Peer] /\ UNCHANGED <<heard, socketProxy>>
  <2>1. CASE events[1] \in [kind : SocketKind, of : Socket]
    <3>1. events[1].kind # "worker"
      BY <2>1 DEF SocketKind
    <3> QED BY <2>1, <3>1 DEF HandleEvent, OldestEvent, Hears, Known, Closed, Accepted
  <2>2. CASE events[1] \in [kind : {"worker"}, of : Peer]
    <3>1. events[1].kind = "worker"
      BY <2>2
    <3> QED BY <2>2, <3>1 DEF HandleEvent, OldestEvent
  <2> QED BY <1>2, <2>1, <2>2 DEF Event
<1>4. heard' \in [Socket -> Seq(SocketKind)] /\ socketProxy' \in [Socket -> {"none", "connecting", "open"}]
  <2>1. CASE events[1] \in [kind : SocketKind, of : Socket] /\ Hears(events[1])
    <3>1. events[1].of \in Socket /\ events[1].kind \in SocketKind
      BY <2>1
    <3>2. Append(heard[events[1].of], events[1].kind) \in Seq(SocketKind)
      BY <3>1 DEF ProxiesTypes
    <3> QED BY <2>1, <3>1, <3>2 DEF Hears, ProxiesTypes
  <2>2. CASE UNCHANGED <<heard, socketProxy>>
    BY <2>2 DEF ProxiesTypes
  <2> QED BY <1>3, <2>1, <2>2
<1> QED BY <1>1, <1>2, <1>3, <1>4 DEF HandleEvent, ProxiesTypes

-----------------------------------------------------------------------------
(* Sockets: each is made once, opens first and closes last.                *)

LEMMA MadeKept ==
    ASSUME NEW s, SocketMadeOnce(s), NEW m,
           (Put(m) /\ m.op # "proxyWebSocket") \/ Taken(m) \/ UNCHANGED toSystem,
           UNCHANGED <<socket, socketMap, socketProxy>>
    PROVE  SocketMadeOnce(s)'
<1>1. CASE Put(m) /\ m.op # "proxyWebSocket"
  <2>1. ASSUME NEW i \in 1 .. Len(toSystem'), toSystem'[i].op = "proxyWebSocket"
        PROVE  i \in 1 .. Len(toSystem) /\ toSystem'[i] = toSystem[i]
    BY <1>1, <2>1 DEF Put
  <2> QED BY <2>1 DEF SocketMadeOnce, Says
<1>2. CASE Taken(m)
  <2>1. ASSUME NEW i \in 1 .. Len(toSystem')
        PROVE  i + 1 \in 1 .. Len(toSystem) /\ toSystem'[i] = toSystem[i + 1]
    BY <1>2 DEF Taken
  <2>2. ASSUME NEW i \in 1 .. Len(toSystem'), NEW j \in 1 .. Len(toSystem'), i + 1 = j + 1
        PROVE  i = j
    BY <2>2
  <2>3. /\ socketProxy[s] = "none" => /\ socket[s] = "none"
                                      /\ \A i \in 1 .. Len(toSystem') : ~ Says(i, "proxyWebSocket", s)'
        /\ s \in socketMap => socket[s] # "none"
    BY <2>1 DEF SocketMadeOnce, Says
  <2>4. \A i, j \in 1 .. Len(toSystem') :
          Says(i, "proxyWebSocket", s)' =>
            socket[s] = "none" /\ (Says(j, "proxyWebSocket", s)' => i = j)
    BY <2>1, <2>2 DEF SocketMadeOnce, Says
  <2> QED BY <2>3, <2>4 DEF SocketMadeOnce, Says
<1>3. CASE UNCHANGED toSystem
  BY <1>3 DEF SocketMadeOnce, Says
<1> QED BY <1>1, <1>2, <1>3

LEMMA OrderKept ==
    ASSUME NEW s, OpensFirst(s), ClosesLast(s), NEW w,
           Emits(<<"worker">>, w) \/ UNCHANGED events,
           UNCHANGED <<socket[s], socketProxy[s], heard[s]>>
    PROVE  OpensFirst(s)' /\ ClosesLast(s)'
<1>1. CASE Emits(<<"worker">>, w)
  <2>0. Adds("worker", w)
    BY <1>1, EmitsOne
  <2>1. ASSUME NEW i \in 1 .. Len(events'), events'[i].kind # "worker"
        PROVE  i \in 1 .. Len(events)
    BY <2>0, <2>1 DEF Adds
  <2>2. Len(events) \in Nat /\ Len(events) <= Len(events')
        /\ \A i \in 1 .. Len(events) : events'[i] = events[i]
    BY <2>0 DEF Adds
  <2>3. OpensFirst(s)'
    <3>1. ASSUME NEW i \in 1 .. Len(events'), IsEvent(i, "open", s)'
          PROVE  heard[s] = <<>> /\ socketProxy[s] = "connecting" /\ \A j \in 1 .. i - 1 : ~ OfSocket(j, s)'
      <4>1. i \in 1 .. Len(events) /\ IsEvent(i, "open", s)
        BY <2>1, <2>2, <3>1 DEF IsEvent
      <4> QED BY <2>2, <4>1 DEF OpensFirst, OfSocket
    <3>2. ASSUME NEW i \in 1 .. Len(events'), IsEvent(i, "message", s)'
          PROVE  Opened(s) \/ \E j \in 1 .. i - 1 : IsEvent(j, "open", s)'
      <4>1. i \in 1 .. Len(events) /\ IsEvent(i, "message", s)
        BY <2>1, <2>2, <3>2 DEF IsEvent
      <4> QED BY <2>2, <4>1 DEF OpensFirst, IsEvent
    <3>3. (\A i \in 1 .. Len(events) : ~ OfSocket(i, s)) => \A i \in 1 .. Len(events') : ~ OfSocket(i, s)'
      BY <2>1, <2>2 DEF OfSocket
    <3>4. (\E j \in 1 .. Len(events) : IsEvent(j, "open", s)) =>
            \E j \in 1 .. Len(events') : IsEvent(j, "open", s)'
      BY <2>2 DEF IsEvent
    <3> QED BY <3>1, <3>2, <3>3, <3>4 DEF OpensFirst, Opened
  <2>4. ClosesLast(s)'
    BY <2>1, <2>2 DEF ClosesLast, Closed, IsEvent, OfSocket
  <2> QED BY <2>3, <2>4
<1>2. CASE UNCHANGED events
  BY <1>2 DEF OpensFirst, ClosesLast, Opened, Closed, IsEvent, OfSocket
<1> QED BY <1>1, <1>2

SocketsFrame == <<socket, socketMap, socketProxy, heard>>

LEMMA SocketsKept ==
    ASSUME SocketsInv, NEW m, NEW w,
           (Put(m) /\ m.op # "proxyWebSocket") \/ Taken(m) \/ UNCHANGED toSystem,
           Emits(<<"worker">>, w) \/ UNCHANGED events, UNCHANGED SocketsFrame
    PROVE  SocketsInv'
<1> SUFFICES ASSUME NEW s \in Socket
             PROVE  SocketMadeOnce(s)' /\ OpensFirst(s)' /\ ClosesLast(s)'
  BY DEF SocketsInv
<1>1. SocketMadeOnce(s) /\ OpensFirst(s) /\ ClosesLast(s)
  BY DEF SocketsInv
<1>2. UNCHANGED <<socket, socketMap, socketProxy>> /\ UNCHANGED <<socket[s], socketProxy[s], heard[s]>>
  BY DEF SocketsFrame
<1>3. SocketMadeOnce(s)'
  BY <1>1, <1>2, MadeKept
<1>4. OpensFirst(s)' /\ ClosesLast(s)'
  BY <1>1, <1>2, OrderKept
<1> QED BY <1>3, <1>4

LEMMA SocketsNew ==
    ASSUME ProxiesTypes, SocketsInv, NEW n \in Socket, NewSocket(n)
    PROVE  SocketsInv'
<1> DEFINE m == [op |-> "proxyWebSocket", of |-> n]
<1>1. Put(m)
  BY ScriptMessages, PutChanges DEF ProxiesTypes, NewSocket, SocketOp
<1>2. /\ socketProxy[n] = "none" /\ socketProxy' = [socketProxy EXCEPT ![n] = "connecting"]
      /\ UNCHANGED <<socket, socketMap, heard, events>>
      /\ DOMAIN socketProxy = Socket
  BY DEF NewSocket, ScriptOnly, ProxiesTypes
<1>3. m.op = "proxyWebSocket" /\ m.of = n
  OBVIOUS
<1> HIDE DEF m
<1> SUFFICES ASSUME NEW s \in Socket
             PROVE  SocketMadeOnce(s)' /\ OpensFirst(s)' /\ ClosesLast(s)'
  BY DEF SocketsInv
<1>4. SocketMadeOnce(s) /\ OpensFirst(s) /\ ClosesLast(s)
  BY DEF SocketsInv
<1>5. ASSUME NEW i \in 1 .. Len(toSystem')
      PROVE  \/ i \in 1 .. Len(toSystem) /\ toSystem'[i] = toSystem[i]
             \/ i = Len(toSystem) + 1 /\ toSystem'[i] = m
  BY <1>1 DEF Put
<1>6. CASE s = n
  <2>1. socketProxy[s] = "none" /\ socketProxy'[s] = "connecting" /\ socket'[s] = "none" /\ s \notin socketMap'
    BY <1>2, <1>4, <1>6 DEF SocketMadeOnce
  <2>2. \A i \in 1 .. Len(toSystem) : ~ Says(i, "proxyWebSocket", s)
    BY <1>4, <2>1 DEF SocketMadeOnce
  <2>3. \A i \in 1 .. Len(toSystem') : Says(i, "proxyWebSocket", s)' => i = Len(toSystem) + 1
    BY <1>5, <2>2 DEF Says
  <2>4. SocketMadeOnce(s)'
    BY <2>1, <2>3 DEF SocketMadeOnce
  <2>5. heard[s] = <<>> /\ \A i \in 1 .. Len(events) : ~ OfSocket(i, s)
    BY <1>2, <1>4, <2>1 DEF OpensFirst
  <2>6. OpensFirst(s)'
    BY <1>2, <2>1, <2>5 DEF OpensFirst, OfSocket, IsEvent
  <2>7. ClosesLast(s)'
    BY <1>2, <1>4 DEF ClosesLast, Closed, OfSocket, IsEvent
  <2> QED BY <2>4, <2>6, <2>7
<1>7. CASE s # n
  <2>1. UNCHANGED <<socket[s], socketProxy[s], heard[s]>> /\ UNCHANGED socketMap
    BY <1>2, <1>7
  <2>2. OpensFirst(s)' /\ ClosesLast(s)'
    BY <1>2, <1>4, <2>1, OrderKept
  <2>3. ASSUME NEW i \in 1 .. Len(toSystem'), toSystem'[i].of = s
        PROVE  i \in 1 .. Len(toSystem) /\ toSystem'[i] = toSystem[i]
    BY <1>3, <1>5, <1>7, <2>3
  <2>4. SocketMadeOnce(s)'
    BY <1>4, <2>1, <2>3 DEF SocketMadeOnce, Says
  <2> QED BY <2>2, <2>4
<1> QED BY <1>6, <1>7

(* The main thread makes the socket, or closes it.                         *)
LEMMA SocketsMain ==
    ASSUME ProxiesTypes, SocketsInv, NEW b \in BOOLEAN, MainNewSocket(b) \/ MainClose(b)
    PROVE  SocketsInv'
<1> DEFINE n == Subject
<1>0. n \in Socket /\ Taken(Head(toSystem))
  BY TakenSubject DEF MainNewSocket, MainClose, SocketOp
<1>1. /\ UNCHANGED <<heard, events, socketProxy>> /\ DOMAIN socket = Socket
      /\ \A s \in Socket : socket[s] \in {"none", "connecting", "open", "closing", "closed"}
      /\ \A s \in Socket : socketProxy[s] \in {"none", "connecting", "open"}
  BY DEF MainNewSocket, MainClose, SystemTakes, SameSockets, ProxiesTypes
<1>2. /\ Len(toSystem) \in Nat /\ Len(toSystem) >= 1
      /\ \A i \in 1 .. Len(toSystem') : /\ i + 1 \in 1 .. Len(toSystem) /\ toSystem'[i] = toSystem[i + 1]
                                        /\ i + 1 # 1
  BY <1>0 DEF Taken
<1> SUFFICES ASSUME NEW s \in Socket
             PROVE  SocketMadeOnce(s)' /\ OpensFirst(s)' /\ ClosesLast(s)'
  BY DEF SocketsInv
<1>3. SocketMadeOnce(s) /\ OpensFirst(s) /\ ClosesLast(s)
  BY DEF SocketsInv
<1>4. \A i, j \in 1 .. Len(toSystem') : i + 1 = j + 1 => i = j
  OBVIOUS
<1>5. CASE MainNewSocket(b) /\ s = n /\ b = FALSE
  <2>1. toSystem[1].op = "proxyWebSocket" /\ toSystem[1].of = s
    BY <1>0, <1>5, TakenSubject DEF MainNewSocket, Taken, Subject
  <2>2. socket' = [socket EXCEPT ![s] = "connecting"] /\ socketMap' = socketMap \cup {s}
    BY <1>5 DEF MainNewSocket
  <2>3. socket[s] = "none" /\ \A j \in 1 .. Len(toSystem) : Says(j, "proxyWebSocket", s) => 1 = j
    BY <1>2, <1>3, <2>1 DEF SocketMadeOnce, Says
  <2>4. \A i \in 1 .. Len(toSystem') : ~ Says(i, "proxyWebSocket", s)'
    BY <1>2, <2>3 DEF Says
  <2>5. socket'[s] = "connecting" /\ socketProxy[s] # "none"
    BY <1>1, <1>2, <1>3, <2>1, <2>2 DEF SocketMadeOnce, Says
  <2>6. SocketMadeOnce(s)'
    BY <1>1, <2>4, <2>5 DEF SocketMadeOnce
  <2>7. heard[s] = <<>> /\ \A i \in 1 .. Len(events) : ~ OfSocket(i, s)
    BY <1>3, <2>3 DEF OpensFirst
  <2>8. OpensFirst(s)'
    BY <1>1, <1>3, <2>3, <2>5, <2>7 DEF OpensFirst, OfSocket, IsEvent, Opened
  <2>9. ClosesLast(s)'
    BY <1>1, <1>3, <2>3, <2>5 DEF ClosesLast, Closed, OfSocket, IsEvent
  <2> QED BY <2>6, <2>8, <2>9
<1>6. CASE MainClose(b) /\ s = n /\ s \in socketMap /\ socket[s] # "closed" /\ b = FALSE
  <2>1. socket'[s] = "closing" /\ socket[s] # "none"
    BY <1>1, <1>3, <1>6 DEF MainClose, SocketMadeOnce
  <2>2. socketProxy[s] # "none" /\ \A i \in 1 .. Len(toSystem) : ~ Says(i, "proxyWebSocket", s)
    BY <1>3, <2>1 DEF SocketMadeOnce
  <2>3. \A i \in 1 .. Len(toSystem') : ~ Says(i, "proxyWebSocket", s)'
    BY <1>2, <2>2 DEF Says
  <2>4. SocketMadeOnce(s)'
    BY <1>1, <2>1, <2>2, <2>3 DEF SocketMadeOnce
  <2>5. OpensFirst(s)'
    BY <1>1, <1>3, <2>1 DEF OpensFirst, OfSocket, IsEvent, Opened
  <2>6. ClosesLast(s)'
    BY <1>1, <1>3, <1>6, <2>1 DEF ClosesLast, Closed, OfSocket, IsEvent
  <2> QED BY <2>4, <2>5, <2>6
<1>7. CASE socket'[s] = socket[s] /\ (s \in socketMap' => s \in socketMap)
  <2>1. OpensFirst(s)' /\ ClosesLast(s)'
    BY <1>1, <1>3, <1>7, OrderKept
  <2>2. /\ socketProxy[s] = "none" => /\ socket[s] = "none"
                                      /\ \A i \in 1 .. Len(toSystem') : ~ Says(i, "proxyWebSocket", s)'
        /\ s \in socketMap' => socket[s] # "none"
    BY <1>2, <1>3, <1>7 DEF SocketMadeOnce, Says
  <2>3. \A i, j \in 1 .. Len(toSystem') :
          Says(i, "proxyWebSocket", s)' =>
            socket[s] = "none" /\ (Says(j, "proxyWebSocket", s)' => i = j)
    <3> SUFFICES ASSUME NEW i \in 1 .. Len(toSystem'), NEW j \in 1 .. Len(toSystem'),
                        Says(i, "proxyWebSocket", s)'
                 PROVE  socket[s] = "none" /\ (Says(j, "proxyWebSocket", s)' => i = j)
      OBVIOUS
    <3>1. Says(i + 1, "proxyWebSocket", s) /\ i + 1 \in 1 .. Len(toSystem)
      BY <1>2 DEF Says
    <3>2. Says(j, "proxyWebSocket", s)' => Says(j + 1, "proxyWebSocket", s) /\ j + 1 \in 1 .. Len(toSystem)
      BY <1>2 DEF Says
    <3>3. i + 1 = j + 1 => i = j
      BY <1>4
    <3> QED BY <1>3, <3>1, <3>2, <3>3 DEF SocketMadeOnce
  <2> QED BY <1>1, <1>7, <2>1, <2>2, <2>3 DEF SocketMadeOnce
<1>8. \/ MainNewSocket(b) /\ s = n /\ b = FALSE
      \/ MainClose(b) /\ s = n /\ s \in socketMap /\ socket[s] # "closed" /\ b = FALSE
      \/ socket'[s] = socket[s] /\ (s \in socketMap' => s \in socketMap)
  BY <1>0, <1>1 DEF MainNewSocket, MainClose
<1> QED BY <1>5, <1>6, <1>7, <1>8

(* A real socket opens, gets data, fails or closes.                        *)
LEMMA OthersKept ==
    ASSUME NEW s, OpensFirst(s), ClosesLast(s), Len(events) \in Nat, Len(events) <= Len(events'),
           \A i \in 1 .. Len(events) : events'[i] = events[i],
           \A i \in 1 .. Len(events') : events'[i].of = s => i \in 1 .. Len(events),
           UNCHANGED <<socket[s], socketProxy[s], heard[s]>>
    PROVE  OpensFirst(s)' /\ ClosesLast(s)'
<1>1. \A i \in 1 .. Len(events') : OfSocket(i, s)' => i \in 1 .. Len(events) /\ OfSocket(i, s)
  BY DEF OfSocket
<1>2. \A i \in 1 .. Len(events'), kind \in {"open", "message", "close"} :
        IsEvent(i, kind, s)' => i \in 1 .. Len(events) /\ IsEvent(i, kind, s)
  BY DEF IsEvent
<1>3. \A i \in 1 .. Len(events) : IsEvent(i, "open", s) => i \in 1 .. Len(events') /\ IsEvent(i, "open", s)'
  BY DEF IsEvent
<1>4. (Opened(s)' <=> Opened(s)) /\ (Closed(s)' <=> Closed(s))
  BY DEF Opened, Closed
<1>5. OpensFirst(s)'
  <2>1. socket'[s] \in {"none", "connecting"} =>
          heard'[s] = <<>> /\ \A i \in 1 .. Len(events') : ~ OfSocket(i, s)'
    BY <1>1 DEF OpensFirst
  <2>2. ASSUME NEW i \in 1 .. Len(events'), IsEvent(i, "open", s)'
        PROVE  /\ heard'[s] = <<>> /\ socketProxy'[s] = "connecting"
               /\ \A j \in 1 .. i - 1 : ~ OfSocket(j, s)'
    <3>1. i \in 1 .. Len(events) /\ IsEvent(i, "open", s)
      BY <1>2, <2>2
    <3>2. \A j \in 1 .. i - 1 : j \in 1 .. Len(events') /\ ~ OfSocket(j, s)
      BY <3>1 DEF OpensFirst
    <3> QED BY <1>1, <3>1, <3>2 DEF OpensFirst
  <2>3. ASSUME NEW i \in 1 .. Len(events'), IsEvent(i, "message", s)'
        PROVE  Opened(s)' \/ \E j \in 1 .. i - 1 : IsEvent(j, "open", s)'
    <3>1. i \in 1 .. Len(events) /\ IsEvent(i, "message", s)
      BY <1>2, <2>3
    <3>2. Opened(s) \/ \E j \in 1 .. i - 1 : j \in 1 .. Len(events) /\ IsEvent(j, "open", s)
      BY <3>1 DEF OpensFirst
    <3> QED BY <1>3, <1>4, <3>2
  <2>4. socket'[s] = "open" => Opened(s)' \/ \E j \in 1 .. Len(events') : IsEvent(j, "open", s)'
    BY <1>3, <1>4 DEF OpensFirst
  <2>5. socketProxy'[s] = "open" => Opened(s)'
    BY <1>4 DEF OpensFirst
  <2>6. \A i \in DOMAIN heard'[s] : /\ heard'[s][i] = "open" => i = 1
                                  /\ heard'[s][i] = "message" => Opened(s)'
    BY <1>4 DEF OpensFirst
  <2> QED BY <2>1, <2>2, <2>3, <2>4, <2>5, <2>6 DEF OpensFirst
<1>6. ClosesLast(s)'
  <2>1. socket'[s] # "closed" => ~ Closed(s)' /\ \A i \in 1 .. Len(events') : ~ IsEvent(i, "close", s)'
    BY <1>2, <1>4 DEF ClosesLast
  <2>2. ASSUME NEW i \in 1 .. Len(events'), IsEvent(i, "close", s)'
        PROVE  ~ Closed(s)' /\ \A j \in i + 1 .. Len(events') : ~ OfSocket(j, s)'
    <3>1. i \in 1 .. Len(events) /\ IsEvent(i, "close", s)
      BY <1>2, <2>2
    <3>2. \A j \in i + 1 .. Len(events') : j \in 1 .. Len(events') /\ (j \in 1 .. Len(events) => ~ OfSocket(j, s))
      BY <3>1 DEF ClosesLast
    <3>3. ~ Closed(s)
      BY <3>1 DEF ClosesLast
    <3> QED BY <1>1, <1>4, <3>2, <3>3
  <2>3. Closed(s)' => \A i \in 1 .. Len(events') : ~ OfSocket(i, s)'
    BY <1>1, <1>4 DEF ClosesLast
  <2>4. \A i \in DOMAIN heard'[s] : heard'[s][i] = "close" => i = Len(heard'[s])
    BY DEF ClosesLast
  <2> QED BY <2>1, <2>2, <2>3, <2>4 DEF ClosesLast
<1> QED BY <1>5, <1>6

LEMMA SocketsOutside ==
    ASSUME ProxiesTypes, SocketsInv, NEW n \in Socket,
           SocketOpens(n) \/ SocketCloses(n) \/ SocketFails(n) \/ SocketReceives(n)
    PROVE  SocketsInv'
<1>0. /\ UNCHANGED <<toSystem, socketMap, socketProxy, heard>> /\ DOMAIN socket = Socket
      /\ \A s \in Socket : s # n => UNCHANGED socket[s]
      /\ socket[n] \in {"connecting", "open", "closing"} /\ socket'[n] # "none"
      /\ socketProxy[n] \in {"none", "connecting", "open"}
  BY DEF SocketOpens, SocketCloses, SocketFails, SocketReceives, SocketEvent, OutsideOnly, SameSockets,
         ProxiesTypes
<1>1. SocketMadeOnce(n) /\ OpensFirst(n) /\ ClosesLast(n)
  BY DEF SocketsInv
<1>2. socketProxy[n] # "none" /\ \A i \in 1 .. Len(toSystem) : ~ Says(i, "proxyWebSocket", n)
  BY <1>0, <1>1 DEF SocketMadeOnce
<1>3. ASSUME Outside(n, {"connecting"}, <<"open">>, "open")
      PROVE  OpensFirst(n)' /\ ClosesLast(n)'
  <2>1. Adds("open", n) /\ socket[n] = "connecting" /\ socket'[n] = "open"
    BY <1>0, <1>3, TypesSocket, EmitsOne DEF Outside, SocketEvent
  <2>2. heard[n] = <<>> /\ \A i \in 1 .. Len(events) : ~ OfSocket(i, n)
    BY <1>1, <2>1 DEF OpensFirst
  <2>3. socketProxy[n] = "connecting"
    BY <1>0, <1>1, <1>2, <2>2 DEF OpensFirst, Opened
  <2>4. ~ Closed(n)
    BY <1>1, <2>1 DEF ClosesLast
  <2>5. ASSUME NEW i \in 1 .. Len(events')
        PROVE  \/ i \in 1 .. Len(events) /\ ~ OfSocket(i, n)'
               \/ i = Len(events) + 1 /\ events'[i].kind = "open" /\ events'[i].of = n
    BY <2>1, <2>2 DEF Adds, OfSocket
  <2>6. /\ Len(events) + 1 \in 1 .. Len(events') /\ Len(events) \in Nat
        /\ events'[Len(events) + 1].kind = "open" /\ events'[Len(events) + 1].of = n
    BY <2>1 DEF Adds
  <2>7. OpensFirst(n)'
    <3>1. ASSUME NEW i \in 1 .. Len(events')
          PROVE  /\ IsEvent(i, "open", n)' => \A j \in 1 .. i - 1 : ~ OfSocket(j, n)'
                 /\ ~ IsEvent(i, "message", n)'
      BY <2>5, <2>6 DEF IsEvent, OfSocket
    <3>2. \E j \in 1 .. Len(events') : IsEvent(j, "open", n)'
      BY <2>6 DEF IsEvent
    <3> QED BY <1>0, <1>1, <2>1, <2>2, <2>3, <3>1, <3>2 DEF OpensFirst
  <2>8. ClosesLast(n)'
    <3>1. \A i \in 1 .. Len(events') : ~ IsEvent(i, "close", n)'
      BY <2>5 DEF IsEvent, OfSocket
    <3>2. ~ Closed(n)'
      BY <1>0, <2>4 DEF Closed
    <3> QED BY <1>0, <1>1, <3>1, <3>2 DEF ClosesLast
  <2> QED BY <2>7, <2>8
<1>4. ASSUME Outside(n, {"open"}, <<"message">>, "open")
      PROVE  OpensFirst(n)' /\ ClosesLast(n)'
  <2>1. Adds("message", n) /\ socket[n] = "open" /\ socket'[n] = "open"
    BY <1>0, <1>4, TypesSocket, EmitsOne DEF Outside, SocketEvent
  <2>2. Opened(n) \/ \E j \in 1 .. Len(events) : IsEvent(j, "open", n)
    BY <1>1, <2>1 DEF OpensFirst
  <2>3. ~ Closed(n) /\ \A i \in 1 .. Len(events) : ~ IsEvent(i, "close", n)
    BY <1>1, <2>1 DEF ClosesLast
  <2>4. /\ Len(events) \in Nat /\ Len(events') = Len(events) + 1
        /\ \A i \in 1 .. Len(events) : events'[i] = events[i]
        /\ events'[Len(events) + 1].kind = "message" /\ events'[Len(events) + 1].of = n
    BY <2>1 DEF Adds
  <2>5. OpensFirst(n)'
    <3>1. ASSUME NEW i \in 1 .. Len(events'), IsEvent(i, "open", n)'
          PROVE  heard[n] = <<>> /\ socketProxy[n] = "connecting" /\ \A j \in 1 .. i - 1 : ~ OfSocket(j, n)'
      <4>1. i \in 1 .. Len(events) /\ IsEvent(i, "open", n)
        BY <2>4, <3>1 DEF IsEvent
      <4> QED BY <1>1, <2>4, <4>1 DEF OpensFirst, OfSocket
    <3>2. ASSUME NEW i \in 1 .. Len(events'), IsEvent(i, "message", n)'
          PROVE  Opened(n) \/ \E j \in 1 .. i - 1 : IsEvent(j, "open", n)'
      <4>1. CASE i \in 1 .. Len(events)
        BY <1>1, <2>4, <3>2, <4>1 DEF OpensFirst, IsEvent
      <4>2. CASE i = Len(events) + 1
        BY <2>2, <2>4, <4>2 DEF IsEvent
      <4> QED BY <2>4, <4>1, <4>2
    <3>3. Opened(n) \/ \E j \in 1 .. Len(events') : IsEvent(j, "open", n)'
      BY <2>2, <2>4 DEF IsEvent
    <3> QED BY <1>0, <1>1, <2>1, <3>1, <3>2, <3>3 DEF OpensFirst, Opened
  <2>6. ClosesLast(n)'
    <3>1. \A i \in 1 .. Len(events') : ~ IsEvent(i, "close", n)'
      BY <2>3, <2>4 DEF IsEvent
    <3>2. ~ Closed(n)'
      BY <1>0, <2>3 DEF Closed
    <3> QED BY <1>0, <1>1, <3>1, <3>2 DEF ClosesLast
  <2> QED BY <2>5, <2>6
<1>5. ASSUME socket'[n] = "closed", Len(events) \in Nat, Len(events') > Len(events),
             \A i \in 1 .. Len(events) : events'[i] = events[i],
             events'[Len(events')].kind = "close", events'[Len(events')].of = n,
             \A i \in 1 .. Len(events') :
               \/ i \in 1 .. Len(events) \/ i = Len(events')
               \/ events'[i].kind = "error",
             socket[n] # "closed"
      PROVE  OpensFirst(n)' /\ ClosesLast(n)'
  <2>1. ~ Closed(n) /\ \A i \in 1 .. Len(events) : ~ IsEvent(i, "close", n)
    BY <1>1, <1>5 DEF ClosesLast
  <2>2. OpensFirst(n)'
    <3>1. ASSUME NEW i \in 1 .. Len(events'), events'[i].kind \in {"open", "message"}
          PROVE  i \in 1 .. Len(events) /\ events'[i] = events[i]
      BY <1>5, <3>1
    <3>2. ASSUME NEW i \in 1 .. Len(events'), IsEvent(i, "open", n)'
          PROVE  heard[n] = <<>> /\ socketProxy[n] = "connecting" /\ \A j \in 1 .. i - 1 : ~ OfSocket(j, n)'
      <4>1. i \in 1 .. Len(events) /\ IsEvent(i, "open", n)
        BY <3>1, <3>2 DEF IsEvent
      <4> QED BY <1>1, <1>5, <4>1 DEF OpensFirst, OfSocket
    <3>3. ASSUME NEW i \in 1 .. Len(events'), IsEvent(i, "message", n)'
          PROVE  Opened(n) \/ \E j \in 1 .. i - 1 : IsEvent(j, "open", n)'
      <4>1. i \in 1 .. Len(events) /\ IsEvent(i, "message", n)
        BY <3>1, <3>3 DEF IsEvent
      <4> QED BY <1>1, <1>5, <4>1 DEF OpensFirst, IsEvent
    <3> QED BY <1>0, <1>1, <1>5, <3>2, <3>3 DEF OpensFirst, Opened
  <2>3. ClosesLast(n)'
    <3>1. \A i \in 1 .. Len(events') : IsEvent(i, "close", n)' => i = Len(events')
      BY <1>5, <2>1 DEF IsEvent
    <3>2. ~ Closed(n)'
      BY <1>0, <2>1 DEF Closed
    <3>3. \A i \in 1 .. Len(events') : IsEvent(i, "close", n)' =>
            \A j \in i + 1 .. Len(events') : ~ OfSocket(j, n)'
      <4> TAKE i \in 1 .. Len(events')
      <4> HAVE IsEvent(i, "close", n)'
      <4>1. i = Len(events') /\ Len(events') \in Int
        BY <1>5, <3>1
      <4> QED BY <4>1
    <3> QED BY <1>0, <1>1, <1>5, <3>2, <3>3 DEF ClosesLast
  <2> QED BY <2>2, <2>3
<1>6. ASSUME Outside(n, {"open", "closing"}, <<"close">>, "closed")
      PROVE  OpensFirst(n)' /\ ClosesLast(n)'
  <2>1. Adds("close", n) /\ socket'[n] = "closed" /\ socket[n] # "closed"
    BY <1>0, <1>6, TypesSocket, EmitsOne DEF Outside, SocketEvent
  <2> QED BY <1>5, <2>1 DEF Adds
<1>7. ASSUME Outside(n, {"connecting", "open", "closing"}, <<"error", "close">>, "closed")
      PROVE  OpensFirst(n)' /\ ClosesLast(n)'
  <2>1. AddsTwo("error", "close", n) /\ socket'[n] = "closed" /\ socket[n] # "closed"
    BY <1>0, <1>7, TypesSocket, EmitsTwo DEF Outside, SocketEvent
  <2> QED BY <1>5, <2>1 DEF AddsTwo
<1>8. SocketMadeOnce(n)'
  BY <1>0, <1>1, <1>2 DEF SocketMadeOnce, Says
<1>9. ASSUME NEW s \in Socket, s # n PROVE SocketMadeOnce(s)' /\ OpensFirst(s)' /\ ClosesLast(s)'
  <2>1. SocketMadeOnce(s) /\ OpensFirst(s) /\ ClosesLast(s)
    BY DEF SocketsInv
  <2>2. UNCHANGED <<socket[s], socketProxy[s], heard[s]>> /\ UNCHANGED <<toSystem, socketMap>>
    BY <1>0, <1>9
  <2>3. SocketMadeOnce(s)'
    BY <2>1, <2>2 DEF SocketMadeOnce, Says
  <2>4. Adds("open", n) \/ Adds("message", n) \/ Adds("close", n) \/ AddsTwo("error", "close", n)
    BY SocketDoes, TypesSocket, EmitsOne, EmitsTwo
  <2>5. /\ Len(events) \in Nat /\ Len(events) <= Len(events')
        /\ \A i \in 1 .. Len(events) : events'[i] = events[i]
        /\ \A i \in 1 .. Len(events') : events'[i].of = s => i \in 1 .. Len(events)
    BY <1>9, <2>4 DEF Adds, AddsTwo
  <2>6. OpensFirst(s)' /\ ClosesLast(s)'
    BY <2>1, <2>2, <2>5, OthersKept
  <2> QED BY <2>3, <2>6
<1>10. OpensFirst(n)' /\ ClosesLast(n)'
  BY <1>3, <1>4, <1>6, <1>7, SocketDoes
<1> QED BY <1>8, <1>9, <1>10 DEF SocketsInv

(* A proxy hears of its real socket.                                       *)
LEMMA SocketsHandle ==
    ASSUME ProxiesTypes, SocketsInv, HandleEvent
    PROVE  SocketsInv'
<1> DEFINE e == events[1]
           n == e.of
<1>0. /\ UNCHANGED <<toSystem, socket, socketMap>> /\ EventTaken
      /\ DOMAIN socketProxy = Socket /\ DOMAIN heard = Socket
      /\ \A s \in Socket : heard[s] \in Seq(SocketKind)
  BY TypesHandle DEF HandleEvent, ProxiesTypes
<1>1. /\ Len(events) \in Nat /\ Len(events) >= 1 /\ Len(events') = Len(events) - 1
      /\ \A i \in 1 .. Len(events') : /\ i + 1 \in 1 .. Len(events) /\ events'[i] = events[i + 1]
                                      /\ i + 1 > 1
  BY <1>0 DEF EventTaken
<1> SUFFICES ASSUME NEW s \in Socket
             PROVE  SocketMadeOnce(s)' /\ OpensFirst(s)' /\ ClosesLast(s)'
  BY DEF SocketsInv
<1>2. SocketMadeOnce(s) /\ OpensFirst(s) /\ ClosesLast(s)
  BY DEF SocketsInv
(* An event that is not of this socket is taken. *)
<1>3. ASSUME ~ OfSocket(1, s), UNCHANGED <<heard[s], socketProxy[s]>>
      PROVE  SocketMadeOnce(s)' /\ OpensFirst(s)' /\ ClosesLast(s)'
  <2>1. SocketMadeOnce(s)'
    BY <1>0, <1>2, <1>3 DEF SocketMadeOnce, Says
  <2>2. ASSUME NEW i \in 1 .. Len(events'), IsEvent(i, "open", s)'
        PROVE  heard[s] = <<>> /\ socketProxy[s] = "connecting" /\ \A j \in 1 .. i - 1 : ~ OfSocket(j, s)'
    <3>1. i + 1 \in 1 .. Len(events) /\ IsEvent(i + 1, "open", s)
      BY <1>1, <2>2 DEF IsEvent
    <3>2. heard[s] = <<>> /\ socketProxy[s] = "connecting" /\ \A j \in 1 .. i : ~ OfSocket(j, s)
      BY <1>2, <3>1 DEF OpensFirst
    <3>3. \A j \in 1 .. i - 1 : j + 1 \in 1 .. i /\ events'[j] = events[j + 1]
      BY <1>1
    <3> QED BY <3>2, <3>3 DEF OfSocket
  <2>3. ASSUME NEW i \in 1 .. Len(events'), IsEvent(i, "message", s)'
        PROVE  Opened(s) \/ \E j \in 1 .. i - 1 : IsEvent(j, "open", s)'
    <3>1. i + 1 \in 1 .. Len(events) /\ IsEvent(i + 1, "message", s)
      BY <1>1, <2>3 DEF IsEvent
    <3>2. CASE ~ Opened(s)
      <4>1. PICK j \in 1 .. i : IsEvent(j, "open", s)
        BY <1>2, <3>1, <3>2 DEF OpensFirst
      <4>2. j # 1
        BY <1>3, <4>1 DEF IsEvent, OfSocket
      <4>3. j - 1 \in 1 .. i - 1 /\ events'[j - 1] = events[j]
        BY <1>1, <4>2
      <4> QED BY <4>1, <4>3 DEF IsEvent
    <3> QED BY <3>2
  <2>4. ASSUME socket[s] = "open", ~ Opened(s)
        PROVE  \E j \in 1 .. Len(events') : IsEvent(j, "open", s)'
    <3>1. PICK j \in 1 .. Len(events) : IsEvent(j, "open", s)
      BY <1>2, <2>4 DEF OpensFirst
    <3>2. j # 1
      BY <1>3, <3>1 DEF IsEvent, OfSocket
    <3>3. j - 1 \in 1 .. Len(events') /\ events'[j - 1] = events[j]
      BY <1>1, <3>2
    <3> QED BY <3>1, <3>3 DEF IsEvent
  <2>5. (\A i \in 1 .. Len(events) : ~ OfSocket(i, s)) => \A i \in 1 .. Len(events') : ~ OfSocket(i, s)'
    BY <1>1 DEF OfSocket
  <2>6. OpensFirst(s)'
    BY <1>0, <1>2, <1>3, <2>2, <2>3, <2>4, <2>5 DEF OpensFirst, Opened
  <2>7. (\A i \in 1 .. Len(events) : ~ IsEvent(i, "close", s)) =>
          \A i \in 1 .. Len(events') : ~ IsEvent(i, "close", s)'
    BY <1>1 DEF IsEvent
  <2>8. ASSUME NEW i \in 1 .. Len(events'), IsEvent(i, "close", s)'
        PROVE  ~ Closed(s) /\ \A j \in i + 1 .. Len(events') : ~ OfSocket(j, s)'
    <3>1. i + 1 \in 1 .. Len(events) /\ IsEvent(i + 1, "close", s)
      BY <1>1, <2>8 DEF IsEvent
    <3>2. ~ Closed(s) /\ \A j \in i + 1 + 1 .. Len(events) : ~ OfSocket(j, s)
      BY <1>2, <3>1 DEF ClosesLast
    <3>3. \A j \in i + 1 .. Len(events') : j + 1 \in i + 1 + 1 .. Len(events) /\ events'[j] = events[j + 1]
      BY <1>1
    <3> QED BY <3>2, <3>3 DEF OfSocket
  <2>9. ClosesLast(s)'
    BY <1>0, <1>2, <1>3, <2>5, <2>7, <2>8 DEF ClosesLast, Closed
  <2> QED BY <2>1, <2>6, <2>9
(* An event of this socket is taken. *)
<1>4. ASSUME s = n, e.kind \in SocketKind, Hears(e)
      PROVE  SocketMadeOnce(s)' /\ OpensFirst(s)' /\ ClosesLast(s)'
  <2>0. OfSocket(1, s) /\ socket[s] \notin {"none", "connecting"} /\ e.of = s /\ 1 \in 1 .. Len(events)
    BY <1>1, <1>2, <1>4 DEF OfSocket, SocketKind, OpensFirst
  <2>1. ~ Closed(s)
    BY <1>2, <2>0 DEF ClosesLast
  <2>2. \A i \in 1 .. Len(events') : ~ IsEvent(i, "open", s)'
    <3>1. ASSUME NEW i \in 1 .. Len(events'), IsEvent(i, "open", s)' PROVE FALSE
      <4>1. i + 1 \in 1 .. Len(events) /\ IsEvent(i + 1, "open", s) /\ 1 \in 1 .. (i + 1) - 1
        BY <1>1, <3>1 DEF IsEvent
      <4> QED BY <1>2, <2>0, <4>1 DEF OpensFirst
    <3> QED BY <3>1
  <2>3. CASE e.kind = "open"
    <3>1. heard[s] = <<>> /\ socketProxy[s] = "connecting"
      BY <1>2, <2>0, <2>3 DEF OpensFirst, IsEvent
    <3>2. heard' = [heard EXCEPT ![s] = Append(heard[s], "open")]
          /\ socketProxy' = [socketProxy EXCEPT ![s] = "open"]
      BY <1>4, <2>0, <2>1, <2>3, <3>1 DEF Hears, Known, Accepted
    <3>3. heard'[s] = <<"open">> /\ socketProxy'[s] = "open"
      BY <1>0, <3>1, <3>2
    <3>4. /\ Opened(s)' /\ DOMAIN heard'[s] = {1} /\ heard'[s][1] = "open"
      BY <3>3 DEF Opened
    <3>5. OpensFirst(s)'
      BY <1>0, <2>0, <2>2, <3>3, <3>4 DEF OpensFirst
    <3>6. ~ Closed(s)'
      BY <3>4 DEF Closed
    <3>7. (\A i \in 1 .. Len(events) : ~ IsEvent(i, "close", s)) =>
            \A i \in 1 .. Len(events') : ~ IsEvent(i, "close", s)'
      BY <1>1 DEF IsEvent
    <3>8. ASSUME NEW i \in 1 .. Len(events'), IsEvent(i, "close", s)'
          PROVE  \A j \in i + 1 .. Len(events') : ~ OfSocket(j, s)'
      <4>1. i + 1 \in 1 .. Len(events) /\ IsEvent(i + 1, "close", s)
        BY <1>1, <3>8 DEF IsEvent
      <4>2. \A j \in i + 1 + 1 .. Len(events) : ~ OfSocket(j, s)
        BY <1>2, <4>1 DEF ClosesLast
      <4>3. \A j \in i + 1 .. Len(events') : j + 1 \in i + 1 + 1 .. Len(events) /\ events'[j] = events[j + 1]
        BY <1>1
      <4> QED BY <4>2, <4>3 DEF OfSocket
    <3>9. ClosesLast(s)'
      BY <1>0, <1>2, <3>4, <3>6, <3>7, <3>8 DEF ClosesLast
    <3>10. SocketMadeOnce(s)'
      BY <1>0, <1>2, <3>1, <3>3 DEF SocketMadeOnce, Says
    <3> QED BY <3>5, <3>9, <3>10
  <2>4. CASE e.kind # "open"
    <3>1. heard' = [heard EXCEPT ![s] = Append(heard[s], e.kind)] /\ UNCHANGED socketProxy
      BY <1>4, <2>0, <2>1, <2>4 DEF Hears, Known, Accepted
    <3> DEFINE h == heard[s]
               k == Len(heard[s])
    <3>2. /\ h \in Seq(SocketKind) /\ k \in Nat /\ DOMAIN h = 1 .. k
          /\ DOMAIN heard'[s] = 1 .. k + 1 /\ Len(heard'[s]) = k + 1
          /\ heard'[s][k + 1] = e.kind /\ \A i \in 1 .. k : heard'[s][i] = h[i]
      BY <1>0, <1>4, <3>1
    <3>3. Opened(s) => Opened(s)'
      <4> HAVE Opened(s)
      <4>1. 1 \in 1 .. k /\ 1 \in DOMAIN heard'[s] /\ h[1] = "open"
        BY <3>2 DEF Opened
      <4>2. heard'[s][1] = "open"
        BY <3>2, <4>1
      <4>3. heard'[s] # <<>>
        BY <4>1
      <4> QED BY <4>2, <4>3 DEF Opened
    <3>4. \A i \in 1 .. Len(events) : ~ IsEvent(i, "open", s)
      <4>1. ASSUME NEW i \in 1 .. Len(events), IsEvent(i, "open", s) PROVE FALSE
        <5>1. i # 1
          BY <2>4, <4>1 DEF IsEvent
        <5>2. 1 \in 1 .. i - 1
          BY <5>1
        <5> QED BY <1>2, <2>0, <4>1, <5>2 DEF OpensFirst
      <4> QED BY <4>1
    <3>5. \A i \in 1 .. Len(events) : IsEvent(i, "message", s) => Opened(s)
      BY <1>2, <3>4 DEF OpensFirst
    <3>6. \A i \in 1 .. Len(events') : IsEvent(i, "message", s)' => Opened(s)'
      BY <1>1, <3>3, <3>5 DEF IsEvent
    <3>7. socket[s] = "open" => Opened(s)'
      BY <1>2, <3>3, <3>4 DEF OpensFirst
    <3>8. \A i \in DOMAIN heard'[s] : /\ heard'[s][i] = "open" => i = 1
                                      /\ heard'[s][i] = "message" => Opened(s)'
      <4> TAKE i \in DOMAIN heard'[s]
      <4>1. CASE i \in 1 .. k
        BY <1>2, <3>2, <3>3, <4>1 DEF OpensFirst
      <4>2. CASE i = k + 1
        <5>1. heard'[s][i] = e.kind
          BY <3>2, <4>2
        <5>2. e.kind = "message" => Opened(s)
          BY <2>0, <3>5 DEF IsEvent
        <5> QED BY <2>4, <3>3, <5>1, <5>2
      <4> QED BY <3>2, <4>1, <4>2
    <3>9. OpensFirst(s)'
      BY <1>0, <1>2, <2>0, <2>2, <3>1, <3>3, <3>6, <3>7, <3>8 DEF OpensFirst
    <3>10. ASSUME e.kind = "close" PROVE ClosesLast(s)'
      <4>1. IsEvent(1, "close", s) /\ \A j \in 2 .. Len(events) : ~ OfSocket(j, s)
        BY <1>2, <2>0, <3>10 DEF ClosesLast, IsEvent
      <4>2. \A i \in 1 .. Len(events') : ~ OfSocket(i, s)' /\ ~ IsEvent(i, "close", s)'
        <5>1. \A i \in 1 .. Len(events') : i + 1 \in 2 .. Len(events)
          BY <1>1
        <5> QED BY <1>1, <4>1, <5>1 DEF OfSocket, IsEvent
      <4>3. socket[s] = "closed"
        BY <1>2, <2>0, <4>1 DEF ClosesLast
      <4>4. \A i \in DOMAIN heard'[s] : heard'[s][i] = "close" => i = Len(heard'[s])
        BY <2>1, <3>2 DEF Closed
      <4> QED BY <1>0, <4>2, <4>3, <4>4 DEF ClosesLast
    <3>11. ASSUME e.kind # "close" PROVE ClosesLast(s)'
      <4>1. \A i \in DOMAIN heard'[s] : heard'[s][i] # "close"
        <5> TAKE i \in DOMAIN heard'[s]
        <5>1. i \in 1 .. k => heard'[s][i] # "close"
          BY <2>1, <3>2 DEF Closed
        <5>2. i = k + 1 => heard'[s][i] # "close"
          BY <3>2, <3>11
        <5> QED BY <3>2, <5>1, <5>2
      <4>2. ~ Closed(s)'
        BY <4>1 DEF Closed
      <4>3. (\A i \in 1 .. Len(events) : ~ IsEvent(i, "close", s)) =>
              \A i \in 1 .. Len(events') : ~ IsEvent(i, "close", s)'
        BY <1>1 DEF IsEvent
      <4>4. ASSUME NEW i \in 1 .. Len(events'), IsEvent(i, "close", s)'
            PROVE  \A j \in i + 1 .. Len(events') : ~ OfSocket(j, s)'
        <5>1. i + 1 \in 1 .. Len(events) /\ IsEvent(i + 1, "close", s)
          BY <1>1, <4>4 DEF IsEvent
        <5>2. \A j \in i + 1 + 1 .. Len(events) : ~ OfSocket(j, s)
          BY <1>2, <5>1 DEF ClosesLast
        <5>3. \A j \in i + 1 .. Len(events') :
                j + 1 \in i + 1 + 1 .. Len(events) /\ events'[j] = events[j + 1]
          BY <1>1
        <5> QED BY <5>2, <5>3 DEF OfSocket
      <4> QED BY <1>0, <1>2, <4>1, <4>2, <4>3, <4>4 DEF ClosesLast
    <3>12. SocketMadeOnce(s)'
      BY <1>0, <1>2, <3>1 DEF SocketMadeOnce, Says
    <3> QED BY <3>9, <3>10, <3>11, <3>12
  <2> QED BY <2>3, <2>4
<1>5. CASE e \in [kind : SocketKind, of : Socket] /\ Hears(e)
  <2>1. CASE s = n
    BY <1>4, <1>5, <2>1
  <2>2. CASE s # n
    <3>1. ~ OfSocket(1, s)
      BY <2>2 DEF OfSocket
    <3>2. UNCHANGED <<heard[s], socketProxy[s]>>
      BY <1>0, <1>5, <2>2 DEF Hears
    <3> QED BY <1>3, <3>1, <3>2
  <2> QED BY <2>1, <2>2
<1>6. CASE e \in [kind : {"worker"}, of : Peer] /\ UNCHANGED <<heard, socketProxy>>
  <2>1. ~ OfSocket(1, s)
    BY <1>6 DEF OfSocket
  <2>2. UNCHANGED <<heard[s], socketProxy[s]>>
    BY <1>6
  <2> QED BY <1>3, <2>1, <2>2
<1> QED BY <1>5, <1>6, TypesHandle

-----------------------------------------------------------------------------
(* Data, workers and the loop.                                             *)

(* Only the proxy's send() adds, and only the real socket takes.           *)
LEMMA DataKept ==
    ASSUME ProxiesTypes, NEW s \in Socket, DataWereSent(s), NEW m,
           (Put(m) /\ ~ (m.op = "sendWebSocket" /\ m.of = s)) \/ Taken(m) \/ UNCHANGED toSystem,
           UNCHANGED <<arrivedData[s], sentData[s]>>
    PROVE  DataWereSent(s)'
<1> DEFINE a == arrivedData[s]
           b == sentData[s]
           c == Cardinality(Sends(toSystem, s))
           d == Cardinality(Sends(toSystem', s))
<1>1. a \in Nat /\ b \in Nat /\ c \in Nat /\ a + c <= b
  BY SendsFinite DEF ProxiesTypes, DataWereSent
<1>2. d = c \/ d = c - 1
  BY <1>1 DEF Put, Taken
<1>3. DataWereSent(s)' <=> a + d <= b
  BY DEF DataWereSent
<1> HIDE DEF a, b, c, d
<1> QED BY <1>1, <1>2, <1>3

LEMMA PeersKept ==
    ASSUME NEW w, PeerMadeOnce(w), NEW m,
           (Put(m) /\ ~ (m.op = "proxyWorker" /\ m.of = w)) \/ Taken(m) \/ UNCHANGED toSystem,
           UNCHANGED peer[w], w \in peerMap' <=> w \in peerMap
    PROVE  PeerMadeOnce(w)'
<1>1. CASE Put(m) /\ ~ (m.op = "proxyWorker" /\ m.of = w)
  <2>1. ASSUME NEW i \in 1 .. Len(toSystem'), Says(i, "proxyWorker", w)'
        PROVE  i \in 1 .. Len(toSystem) /\ toSystem'[i] = toSystem[i]
    BY <1>1, <2>1 DEF Put, Says
  <2> QED BY <2>1 DEF PeerMadeOnce, Says
<1>2. CASE Taken(m)
  <2>1. \A i \in 1 .. Len(toSystem') : i + 1 \in 1 .. Len(toSystem) /\ toSystem'[i] = toSystem[i + 1]
    BY <1>2 DEF Taken
  <2>2. \A i, j \in 1 .. Len(toSystem') : i + 1 = j + 1 => i = j
    OBVIOUS
  <2> QED BY <2>1, <2>2 DEF PeerMadeOnce, Says
<1>3. CASE UNCHANGED toSystem
  BY <1>3 DEF PeerMadeOnce, Says
<1> QED BY <1>1, <1>2, <1>3

(* A message that is safe may be added.                                    *)
LEMMA LoopKeptPut ==
    ASSUME LoopIsSafe, NEW m, UNCHANGED toSystem \/ Put(m),
           UNCHANGED <<looping, peer>>, excused' # TRUE => excused # TRUE,
           \A s \in Socket : socketProxy[s] = "open" => socketProxy'[s] = "open",
           \A s \in Socket : excused' # TRUE /\ m.op = "sendWebSocket" /\ m.of = s => socketProxy'[s] = "open",
           \A w \in Peer : excused' # TRUE /\ m.op = "postMessageWorker" /\ m.of = w =>
             /\ \A j \in 1 .. Len(toSystem) : ~ Says(j, "terminateWorker", w)
             /\ peer[w] = "running" \/ \E j \in 1 .. Len(toSystem) : Says(j, "proxyWorker", w)
    PROVE  LoopIsSafe'
<1> SUFFICES ASSUME excused' # TRUE
             PROVE  /\ looping' = TRUE
                    /\ \A s \in Socket : SendsAreSafe(s)'
                    /\ \A w \in Peer : PostsAreSafe(w)'
  BY DEF LoopIsSafe
<1>1. looping = TRUE /\ \A s \in Socket : SendsAreSafe(s) /\ \A w \in Peer : PostsAreSafe(w)
  BY DEF LoopIsSafe
<1>2. CASE UNCHANGED toSystem
  <2>1. \A s \in Socket : SendsAreSafe(s)'
    BY <1>1, <1>2 DEF SendsAreSafe, Says
  <2>2. \A w \in Peer : PostsAreSafe(w)'
    BY <1>1, <1>2 DEF LoopIsSafe, PostsAreSafe, Says
  <2> QED BY <1>1, <2>1, <2>2
<1>3. CASE Put(m)
  <2>1. /\ Len(toSystem) \in Nat /\ Len(toSystem') = Len(toSystem) + 1
        /\ \A i \in 1 .. Len(toSystem) : toSystem'[i] = toSystem[i]
        /\ toSystem'[Len(toSystem) + 1] = m
    BY <1>3 DEF Put
  <2>2. ASSUME NEW s \in Socket PROVE SendsAreSafe(s)'
    <3>1. SendsAreSafe(s)
      BY DEF LoopIsSafe
    <3>2. ASSUME NEW i \in 1 .. Len(toSystem'), Says(i, "sendWebSocket", s)'
          PROVE  socketProxy'[s] = "open"
      <4>1. CASE i \in 1 .. Len(toSystem)
        BY <2>1, <3>1, <3>2, <4>1 DEF SendsAreSafe, Says
      <4>2. CASE i = Len(toSystem) + 1
        BY <2>1, <3>2, <4>2 DEF Says
      <4> QED BY <2>1, <4>1, <4>2
    <3> QED BY <3>2 DEF SendsAreSafe
  <2>3. ASSUME NEW w \in Peer PROVE PostsAreSafe(w)'
    <3>1. PostsAreSafe(w)
      BY DEF LoopIsSafe
    <3>2. ASSUME NEW i \in 1 .. Len(toSystem'), Says(i, "postMessageWorker", w)'
          PROVE  /\ \A j \in 1 .. i - 1 : ~ Says(j, "terminateWorker", w)'
                 /\ peer[w] = "running" \/ \E j \in 1 .. i - 1 : Says(j, "proxyWorker", w)'
      <4>0. \A j \in 1 .. i - 1 : j \in 1 .. Len(toSystem) /\ toSystem'[j] = toSystem[j]
        BY <2>1
      <4>1. CASE i \in 1 .. Len(toSystem)
        <5>1. Says(i, "postMessageWorker", w)
          BY <2>1, <3>2, <4>1 DEF Says
        <5>2. /\ \A j \in 1 .. i - 1 : ~ Says(j, "terminateWorker", w)
              /\ peer[w] = "running" \/ \E j \in 1 .. i - 1 : Says(j, "proxyWorker", w)
          BY <3>1, <4>1, <5>1 DEF PostsAreSafe
        <5> QED BY <4>0, <5>2 DEF Says
      <4>2. CASE i = Len(toSystem) + 1
        <5>1. m.op = "postMessageWorker" /\ m.of = w
          BY <2>1, <3>2, <4>2 DEF Says
        <5>2. /\ \A j \in 1 .. Len(toSystem) : ~ Says(j, "terminateWorker", w)
              /\ peer[w] = "running" \/ \E j \in 1 .. Len(toSystem) : Says(j, "proxyWorker", w)
          BY <5>1
        <5>3. i - 1 = Len(toSystem)
          BY <2>1, <4>2
        <5> QED BY <4>0, <5>2, <5>3 DEF Says
      <4> QED BY <2>1, <4>1, <4>2
    <3> QED BY <3>1, <3>2 DEF PostsAreSafe
  <2> QED BY <1>1, <2>2, <2>3
<1> QED BY <1>2, <1>3

(* A message is taken; the worker it is about may have changed.            *)
LEMMA LoopKeptTaken ==
    ASSUME LoopIsSafe, NEW m, Taken(m), UNCHANGED socketProxy, excused' # TRUE => excused # TRUE,
           excused' # TRUE => looping' = TRUE,
           \A w \in Peer :
             \/ UNCHANGED peer[w] /\ ~ (m.op = "proxyWorker" /\ m.of = w)
             \/ excused' = TRUE
             \/ peer'[w] = "running"
             \/ peer'[w] # "failed" /\ m.op = "terminateWorker" /\ m.of = w
    PROVE  LoopIsSafe'
<1> SUFFICES ASSUME excused' # TRUE
             PROVE  /\ \A s \in Socket : SendsAreSafe(s)'
                    /\ \A w \in Peer : PostsAreSafe(w)'
  BY DEF LoopIsSafe
<1>1. /\ Len(toSystem) \in Nat /\ Len(toSystem) >= 1 /\ m = toSystem[1] /\ Len(toSystem') = Len(toSystem) - 1
      /\ \A i \in 1 .. Len(toSystem') : i + 1 \in 1 .. Len(toSystem) /\ toSystem'[i] = toSystem[i + 1]
  BY DEF Taken
<1>2. ASSUME NEW s \in Socket PROVE SendsAreSafe(s)'
  <2>1. SendsAreSafe(s)
    BY DEF LoopIsSafe
  <2> QED BY <1>1, <2>1 DEF SendsAreSafe, Says
<1>3. ASSUME NEW w \in Peer PROVE PostsAreSafe(w)'
  <2>1. PostsAreSafe(w)
    BY DEF LoopIsSafe
  <2>2. peer'[w] # "failed"
    BY <2>1 DEF PostsAreSafe
  <2>3. ASSUME NEW i \in 1 .. Len(toSystem'), Says(i, "postMessageWorker", w)'
        PROVE  /\ \A j \in 1 .. i - 1 : ~ Says(j, "terminateWorker", w)'
               /\ peer'[w] = "running" \/ \E j \in 1 .. i - 1 : Says(j, "proxyWorker", w)'
    <3>1. i + 1 \in 1 .. Len(toSystem) /\ Says(i + 1, "postMessageWorker", w) /\ (i + 1) - 1 = i
          /\ 1 \in 1 .. i
      BY <1>1, <2>3 DEF Says
    <3>2. /\ \A j \in 1 .. i : ~ Says(j, "terminateWorker", w)
          /\ peer[w] = "running" \/ \E j \in 1 .. i : Says(j, "proxyWorker", w)
      BY <2>1, <3>1 DEF PostsAreSafe
    <3>3. \A j \in 1 .. i - 1 : j + 1 \in 1 .. i /\ toSystem'[j] = toSystem[j + 1]
      BY <1>1
    <3>4. \A j \in 1 .. i - 1 : ~ Says(j, "terminateWorker", w)'
      BY <3>2, <3>3 DEF Says
    <3>5. ~ (m.op = "terminateWorker" /\ m.of = w)
      BY <1>1, <3>1, <3>2 DEF Says
    <3>6. ASSUME peer'[w] # "running"
          PROVE  \E j \in 1 .. i - 1 : Says(j, "proxyWorker", w)'
      <4>1. UNCHANGED peer[w] /\ ~ (m.op = "proxyWorker" /\ m.of = w)
        BY <3>5, <3>6
      <4>2. PICK j \in 1 .. i : Says(j, "proxyWorker", w)
        BY <3>2, <3>6, <4>1
      <4>3. j # 1
        BY <1>1, <4>1, <4>2 DEF Says
      <4>4. j - 1 \in 1 .. i - 1 /\ (j - 1) + 1 = j
        BY <4>3
      <4> QED BY <3>3, <4>2, <4>4 DEF Says
    <3> QED BY <3>4, <3>6
  <2> QED BY <2>2, <2>3 DEF PostsAreSafe
<1> QED BY <1>2, <1>3

-----------------------------------------------------------------------------
(* Each step keeps the invariant.                                          *)

(* Excuse() of a script step.                                              *)
LEMMA Excused == ASSUME NEW when \in BOOLEAN, Excuse(when) PROVE excused' # TRUE => excused # TRUE /\ ~ when
BY DEF Excuse

(* A step of JavaScript that puts a message m.                             *)
LEMMA InvPut ==
    ASSUME ProxiesInv, ProxiesTypes', SocketsInv', NEW m, Put(m),
           UNCHANGED <<looping, peer, peerMap, arrivedData>>, excused' # TRUE => excused # TRUE,
           \A s \in Socket : socketProxy[s] = "open" => socketProxy'[s] = "open",
           \A s \in Socket :
             \/ sentData'[s] = sentData[s] /\ ~ (m.op = "sendWebSocket" /\ m.of = s)
             \/ sentData'[s] = sentData[s] + 1 /\ (excused' # TRUE => socketProxy'[s] = "open"),
           \A w \in Peer : m.op = "proxyWorker" /\ m.of = w =>
             peer[w] = "none" /\ \A i \in 1 .. Len(toSystem) : ~ Says(i, "proxyWorker", w),
           \A w \in Peer : excused' # TRUE /\ m.op = "postMessageWorker" /\ m.of = w =>
             /\ \A j \in 1 .. Len(toSystem) : ~ Says(j, "terminateWorker", w)
             /\ peer[w] = "running" \/ \E j \in 1 .. Len(toSystem) : Says(j, "proxyWorker", w)
    PROVE  ProxiesInv'
<1>1. ProxiesTypes /\ LoopIsSafe
  BY DEF ProxiesInv
<1>2. ASSUME NEW s \in Socket PROVE DataWereSent(s)'
  <2>1. DataWereSent(s)
    BY DEF ProxiesInv
  <2>2. CASE sentData'[s] = sentData[s] /\ ~ (m.op = "sendWebSocket" /\ m.of = s)
    BY <1>1, <2>1, <2>2, DataKept
  <2>3. CASE sentData'[s] = sentData[s] + 1
    <3> DEFINE a == arrivedData[s]
               b == sentData[s]
               c == Cardinality(Sends(toSystem, s))
               d == Cardinality(Sends(toSystem', s))
    <3>1. a \in Nat /\ b \in Nat /\ c \in Nat /\ a + c <= b
      BY <1>1, <2>1, SendsFinite DEF ProxiesTypes, DataWereSent
    <3>2. d = c \/ d = c + 1
      BY <3>1 DEF Put
    <3>3. DataWereSent(s)' <=> a + d <= b + 1
      BY <2>3 DEF DataWereSent
    <3> HIDE DEF a, b, c, d
    <3> QED BY <3>1, <3>2, <3>3
  <2> QED BY <2>2, <2>3
<1>3. ASSUME NEW w \in Peer PROVE PeerMadeOnce(w)'
  <2>1. PeerMadeOnce(w)
    BY DEF ProxiesInv
  <2>2. CASE ~ (m.op = "proxyWorker" /\ m.of = w)
    BY <2>1, <2>2, PeersKept
  <2>3. CASE m.op = "proxyWorker" /\ m.of = w
    <3>1. peer[w] = "none" /\ \A i \in 1 .. Len(toSystem) : ~ Says(i, "proxyWorker", w)
      BY <2>3
    <3>2. \A i \in 1 .. Len(toSystem') : Says(i, "proxyWorker", w)' => i = Len(toSystem) + 1
      BY <3>1 DEF Put, Says
    <3> QED BY <2>1, <3>1, <3>2 DEF PeerMadeOnce
  <2> QED BY <2>2, <2>3
<1>4. LoopIsSafe'
  BY <1>1, LoopKeptPut
<1> QED BY <1>2, <1>3, <1>4 DEF ProxiesInv

LEMMA InvNewSocket == ASSUME ProxiesInv, NEW n \in Socket, NewSocket(n) PROVE ProxiesInv'
<1> DEFINE m == [op |-> "proxyWebSocket", of |-> n]
<1>1. ProxiesTypes /\ SocketsInv
  BY DEF ProxiesInv
<1>2. Put(m)
  BY <1>1, ScriptMessages, PutChanges DEF NewSocket, ProxiesTypes, SocketOp
<1>3. ProxiesTypes' /\ SocketsInv'
  BY <1>1, TypesSocketScript, SocketsNew
<1>4. /\ UNCHANGED <<looping, peer, peerMap, arrivedData, sentData, excused>>
      /\ \A s \in Socket : socketProxy[s] = "open" => socketProxy'[s] = "open"
  BY <1>1 DEF NewSocket, ScriptOnly, ProxiesTypes
<1>5. m.op = "proxyWebSocket"
  OBVIOUS
<1> HIDE DEF m
<1> QED BY <1>2, <1>3, <1>4, <1>5, InvPut

LEMMA InvSendData == ASSUME ProxiesInv, NEW n \in Socket, SendData(n) PROVE ProxiesInv'
<1> DEFINE m == [op |-> "sendWebSocket", of |-> n]
<1>1. ProxiesTypes /\ SocketsInv
  BY DEF ProxiesInv
<1>2. Put(m)
  BY <1>1, ScriptMessages, PutChanges DEF SendData, ProxiesTypes, SocketOp
<1>3. m.op = "sendWebSocket" /\ m.of = n
  OBVIOUS
<1> HIDE DEF m
<1>4. /\ UNCHANGED <<looping, peer, peerMap, arrivedData, socketProxy, heard, socket, socketMap, events>>
      /\ sentData' = [sentData EXCEPT ![n] = @ + 1] /\ socketProxy[n] # "none"
      /\ Excuse(socketProxy[n] = "connecting")
  BY DEF SendData, ScriptOnly
<1>5. ProxiesTypes' /\ SocketsInv'
  BY <1>1, <1>2, <1>3, <1>4, TypesSocketScript, SocketsKept DEF SocketsFrame
<1>6. excused' # TRUE => excused # TRUE /\ socketProxy[n] = "open"
  BY <1>1, <1>4, Excused DEF ProxiesTypes
<1>7. /\ \A s \in Socket : \/ sentData'[s] = sentData[s] /\ ~ (m.op = "sendWebSocket" /\ m.of = s)
                           \/ sentData'[s] = sentData[s] + 1 /\ (excused' # TRUE => socketProxy'[s] = "open")
  BY <1>1, <1>3, <1>4, <1>6 DEF ProxiesTypes
<1> QED BY <1>2, <1>3, <1>4, <1>5, <1>6, <1>7, InvPut

LEMMA InvCloseSocket == ASSUME ProxiesInv, NEW n \in Socket, CloseSocket(n) PROVE ProxiesInv'
<1> DEFINE m == [op |-> "closeWebSocket", of |-> n]
<1>1. ProxiesTypes /\ SocketsInv
  BY DEF ProxiesInv
<1>2. Put(m)
  BY <1>1, ScriptMessages, PutChanges DEF CloseSocket, ProxiesTypes, SocketOp
<1>3. m.op = "closeWebSocket"
  OBVIOUS
<1> HIDE DEF m
<1>4. UNCHANGED <<looping, peer, peerMap, arrivedData, sentData, excused,
                 socketProxy, heard, socket, socketMap, events>>
  BY DEF CloseSocket, ScriptOnly, SameSockets
<1>5. ProxiesTypes' /\ SocketsInv'
  BY <1>1, <1>2, <1>3, <1>4, TypesSocketScript, SocketsKept DEF SocketsFrame
<1> QED BY <1>2, <1>3, <1>4, <1>5, InvPut

(* Written() in terms of places in the queue.                              *)
LEMMA WrittenPlaces ==
    ASSUME ProxiesTypes, NEW op, NEW x
    PROVE  Written(op, x) <=> \E i \in 1 .. Len(toSystem) : Says(i, op, x)
<1>1. DOMAIN toSystem = 1 .. Len(toSystem)
  BY DEF ProxiesTypes
<1> QED BY <1>1 DEF Written, Says

LEMMA InvNewPeer == ASSUME ProxiesInv, NEW n \in Peer, NewPeer(n) \/ TerminatePeer(n) PROVE ProxiesInv'
<1>1. ProxiesTypes /\ SocketsInv
  BY DEF ProxiesInv
<1>2. PICK m : Put(m) /\ (m.op = "terminateWorker" \/ (m.op = "proxyWorker" /\ m.of = n /\ ~ Made(n)))
  <2>1. CASE NewPeer(n)
    <3>1. Put([op |-> "proxyWorker", of |-> n]) /\ ~ Made(n)
      BY <1>1, <2>1, ScriptMessages, PutChanges DEF NewPeer, ProxiesTypes
    <3> QED BY <3>1
  <2>2. CASE TerminatePeer(n)
    <3>1. Put([op |-> "terminateWorker", of |-> n])
      BY <1>1, <2>2, ScriptMessages, PutChanges DEF TerminatePeer, ProxiesTypes
    <3> QED BY <3>1
  <2> QED BY <2>1, <2>2
<1>3. UNCHANGED <<looping, peer, peerMap, arrivedData, sentData, excused,
                 socketProxy, heard, socket, socketMap, events>>
  BY DEF NewPeer, TerminatePeer, ScriptOnly, SameSockets
<1>4. ProxiesTypes' /\ SocketsInv'
  BY <1>1, <1>2, <1>3, TypesPeerScript, SocketsKept DEF SocketsFrame
<1>5. ~ Made(n) => peer[n] = "none" /\ \A i \in 1 .. Len(toSystem) : ~ Says(i, "proxyWorker", n)
  BY <1>1, WrittenPlaces DEF Made
<1> QED BY <1>2, <1>3, <1>4, <1>5, InvPut

LEMMA InvPost == ASSUME ProxiesInv, NEW n \in Peer, NEW b \in BOOLEAN, PostToPeer(n, b) PROVE ProxiesInv'
<1> DEFINE m == [op |-> "postMessageWorker", of |-> n, post |-> Len(posts) + 1]
<1>1. ProxiesTypes /\ SocketsInv /\ LoopIsSafe
  BY DEF ProxiesInv
<1>2. Put(m)
  <2>1. Len(posts) + 1 \in Nat
    BY <1>1 DEF ProxiesTypes
  <2>2. m \in SystemMessage
    BY <2>1, ScriptMessages
  <2> QED BY <1>1, <2>2, PutChanges DEF PostToPeer, ProxiesTypes
<1>3. m.op = "postMessageWorker" /\ m.of = n
  OBVIOUS
<1> HIDE DEF m
<1>4. /\ UNCHANGED <<looping, peer, peerMap, arrivedData, sentData, socketProxy, heard, socket, socketMap, events>>
      /\ Made(n) /\ Excuse(peer[n] = "ended" \/ Written("terminateWorker", n))
  BY DEF PostToPeer, ScriptOnly, SameSockets
<1>5. ProxiesTypes' /\ SocketsInv'
  BY <1>1, <1>2, <1>3, <1>4, TypesPeerScript, SocketsKept DEF SocketsFrame
<1>6. excused' # TRUE => excused # TRUE /\ ~ (peer[n] = "ended" \/ Written("terminateWorker", n))
  BY <1>4, Excused
<1>7. ASSUME excused' # TRUE
      PROVE  /\ \A j \in 1 .. Len(toSystem) : ~ Says(j, "terminateWorker", n)
             /\ peer[n] = "running" \/ \E j \in 1 .. Len(toSystem) : Says(j, "proxyWorker", n)
  <2>1. PostsAreSafe(n) /\ peer[n] # "ended" /\ ~ Written("terminateWorker", n)
    BY <1>1, <1>6, <1>7 DEF LoopIsSafe
  <2>2. peer[n] \in {"none", "running", "failed", "ended"}
    BY <1>1 DEF ProxiesTypes
  <2>3. peer[n] = "running" \/ Written("proxyWorker", n)
    BY <1>4, <2>1, <2>2 DEF Made, PostsAreSafe
  <2> QED BY <1>1, <2>1, <2>3, WrittenPlaces
<1> QED BY <1>2, <1>3, <1>4, <1>5, <1>6, <1>7, InvPut

(* The main thread takes a message about a socket.                         *)
LEMMA InvMainSocket ==
    ASSUME ProxiesInv, NEW b \in BOOLEAN, MainNewSocket(b) \/ MainSend \/ MainClose(b)
    PROVE  ProxiesInv'
<1> DEFINE m == Head(toSystem)
           n == Subject
<1>1. ProxiesTypes /\ SocketsInv /\ LoopIsSafe
  BY DEF ProxiesInv
<1>2. Taken(m) /\ m.op \in SocketOp /\ n \in Socket /\ m.of = n
  BY <1>1, TakenSubject DEF MainNewSocket, MainSend, MainClose, SocketOp, Subject
<1>3. UNCHANGED <<socketProxy, heard, sentData, events, peer, peerMap>>
  BY DEF MainNewSocket, MainSend, MainClose, SystemTakes, SameSockets, SocketsOnly
<1>4. ProxiesTypes'
  <2>1. "loaded" \in {"loaded", "refused", "unreachable"}
    OBVIOUS
  <2> QED BY <1>1, <2>1, TypesMain
<1>5. SocketsInv'
  <2>1. CASE MainNewSocket(b) \/ MainClose(b)
    BY <1>1, <2>1, SocketsMain
  <2>2. CASE MainSend
    <3>1. UNCHANGED SocketsFrame /\ UNCHANGED events
      BY <1>3, <2>2 DEF MainSend, SocketsFrame
    <3> QED BY <1>1, <1>2, <3>1, SocketsKept
  <2> QED BY <2>1, <2>2
<1> HIDE DEF m
<1>6. ASSUME NEW s \in Socket PROVE DataWereSent(s)'
  <2>1. DataWereSent(s)
    BY DEF ProxiesInv
  <2>2. CASE arrivedData'[s] = arrivedData[s]
    BY <1>1, <1>2, <1>3, <2>1, <2>2, DataKept
  <2>3. CASE arrivedData'[s] # arrivedData[s]
    <3>1. MainSend /\ s = n /\ arrivedData'[s] = arrivedData[s] + 1
      BY <1>1, <1>2, <2>3 DEF MainNewSocket, MainSend, MainClose, ProxiesTypes
    <3>2. m.op = "sendWebSocket" /\ m.of = s
      BY <1>2, <3>1 DEF MainSend, SystemTakes, m
    <3> DEFINE a == arrivedData[s]
               was == sentData[s]
               c == Cardinality(Sends(toSystem, s))
               d == Cardinality(Sends(toSystem', s))
    <3>3. a \in Nat /\ was \in Nat /\ c \in Nat /\ a + c <= was
      BY <1>1, <2>1, SendsFinite DEF ProxiesTypes, DataWereSent
    <3>4. d = c - 1
      BY <1>2, <3>2 DEF Taken
    <3>5. DataWereSent(s)' <=> a + 1 + d <= was
      BY <1>3, <3>1 DEF DataWereSent
    <3> HIDE DEF a, was, c, d
    <3> QED BY <3>3, <3>4, <3>5
  <2> QED BY <2>2, <2>3
<1>7. ASSUME NEW w \in Peer PROVE PeerMadeOnce(w)'
  BY <1>2, <1>3, PeersKept DEF ProxiesInv
<1>8. excused' # TRUE => excused # TRUE /\ looping' = TRUE
  <2> HAVE excused' # TRUE
  <2>1. excused # TRUE
    BY Excused DEF MainNewSocket, MainSend, MainClose
  <2>2. CASE MainNewSocket(b) \/ MainClose(b)
    <3>1. ~ b /\ Throws(b)
      BY <2>2, Excused DEF MainNewSocket, MainClose
    <3> QED BY <2>1, <3>1 DEF Throws
  <2>3. CASE MainSend
    <3>1. m.op = "sendWebSocket"
      BY <2>3 DEF MainSend, SystemTakes, m
    <3>2. socketProxy[n] = "open"
      <4>1. SendsAreSafe(n)
        BY <1>1, <1>2, <2>1 DEF LoopIsSafe
      <4>2. 1 \in 1 .. Len(toSystem) /\ Says(1, "sendWebSocket", n)
        BY <1>2, <3>1 DEF Taken, Says
      <4> QED BY <4>1, <4>2 DEF SendsAreSafe
    <3>3. OpensFirst(n)
      BY <1>1, <1>2 DEF SocketsInv
    <3>4. socket[n] # "connecting"
      BY <3>2, <3>3 DEF OpensFirst, Opened
    <3> QED BY <2>1, <2>3, <3>4 DEF MainSend, Throws
  <2> QED BY <2>2, <2>3
<1>9. LoopIsSafe'
  <2>1. \A w \in Peer : UNCHANGED peer[w] /\ ~ (m.op = "proxyWorker" /\ m.of = w)
    BY <1>2, <1>3 DEF SocketOp
  <2> QED BY <1>1, <1>2, <1>3, <1>8, <2>1, LoopKeptTaken
<1> QED BY <1>4, <1>5, <1>6, <1>7, <1>9 DEF ProxiesInv

(* The main thread takes a message about a worker.                         *)
LEMMA InvMainPeer ==
    ASSUME ProxiesInv, NEW o \in {"loaded", "refused", "unreachable"}, NEW b \in BOOLEAN,
           MainNewPeer(o) \/ MainPost(b) \/ MainTerminate
    PROVE  ProxiesInv'
<1> DEFINE m == Head(toSystem)
<1>0. PICK n : n = Subject
  OBVIOUS
<1>1. ProxiesTypes /\ SocketsInv /\ LoopIsSafe
  BY DEF ProxiesInv
<1>2. /\ Taken(m) /\ n \in Peer /\ m.of = n
      /\ m.op = IF MainPost(b) THEN "postMessageWorker" ELSE IF MainTerminate THEN "terminateWorker"
                ELSE "proxyWorker"
  BY <1>0, <1>1, TakenSubject DEF MainNewPeer, MainPost, MainTerminate, Subject
<1>3. UNCHANGED <<socketProxy, heard, sentData, events, socket, socketMap, arrivedData>>
  BY DEF MainNewPeer, MainPost, MainTerminate, SystemTakes, SameSockets, PeersOnly
<1>4. ProxiesTypes'
  BY <1>1, TypesMain
<1>5. SocketsInv'
  BY <1>1, <1>2, <1>3, SocketsKept DEF SocketsFrame
<1>6. PeerMadeOnce(n) /\ 1 \in 1 .. Len(toSystem) /\ toSystem[1] = m
  BY <1>2 DEF ProxiesInv, Taken
<1>7. (\A i \in 1 .. Len(toSystem) : Says(i, "proxyWorker", n) => i = 1) =>
        \A i \in 1 .. Len(toSystem') : ~ Says(i, "proxyWorker", n)'
  <2>1. /\ Len(toSystem) \in Nat
        /\ \A i \in 1 .. Len(toSystem') : /\ i + 1 \in 1 .. Len(toSystem) /\ i + 1 # 1
                                          /\ toSystem'[i] = toSystem[i + 1]
    BY <1>2 DEF Taken
  <2> QED BY <2>1 DEF Says
<1>8. m.op = "proxyWorker" => peer[n] = "none" /\ \A i \in 1 .. Len(toSystem) : Says(i, "proxyWorker", n) => i = 1
  BY <1>2, <1>6 DEF PeerMadeOnce, Says
<1> HIDE DEF m
<1>9. \A s \in Socket : DataWereSent(s)'
  BY <1>1, <1>2, <1>3, DataKept DEF ProxiesInv
<1>10. /\ DOMAIN peer = Peer
       /\ \A w \in Peer : w # n => UNCHANGED peer[w] /\ (w \in peerMap' <=> w \in peerMap)
  <2>1. DOMAIN peer = Peer
    BY <1>1 DEF ProxiesTypes
  <2>2. ASSUME NEW w \in Peer, w # n PROVE UNCHANGED peer[w] /\ (w \in peerMap' <=> w \in peerMap)
    <3>1. CASE MainNewPeer(o)
      BY <1>0, <2>1, <2>2, <3>1 DEF MainNewPeer, AddToMap
    <3>2. CASE MainPost(b)
      BY <3>2 DEF MainPost
    <3>3. CASE MainTerminate
      BY <1>0, <2>1, <2>2, <3>3 DEF MainTerminate
    <3> QED BY <3>1, <3>2, <3>3
  <2> QED BY <2>1, <2>2
<1>11. CASE MainNewPeer(o)
  <2>1. m.op = "proxyWorker"
    BY <1>11 DEF MainNewPeer, SystemTakes, m
  <2>2. peer[n] = "none" /\ n \notin peerMap /\ \A i \in 1 .. Len(toSystem') : ~ Says(i, "proxyWorker", n)'
    BY <1>6, <1>7, <1>8, <2>1 DEF PeerMadeOnce
  <2>3. /\ peer'[n] = IF o = "loaded" THEN "running" ELSE "failed"
        /\ n \in peerMap' <=> o = "loaded"
    BY <1>0, <1>2, <1>10, <1>11, <2>2 DEF MainNewPeer, AddToMap
  <2>4. PeerMadeOnce(n)'
    BY <2>2, <2>3 DEF PeerMadeOnce
  <2>5. excused' # TRUE => excused # TRUE /\ o = "loaded" /\ looping' = TRUE
    <3>1. (o # "loaded") \in BOOLEAN /\ Excuse(o # "loaded") /\ Throws(o = "unreachable")
      BY <1>11 DEF MainNewPeer
    <3> QED BY <3>1, Excused DEF Throws
  <2>6. LoopIsSafe'
    <3>0. o # "loaded" => excused' = TRUE
      BY <1>11 DEF MainNewPeer, Excuse
    <3>1. \A w \in Peer : \/ UNCHANGED peer[w] /\ ~ (m.op = "proxyWorker" /\ m.of = w)
                          \/ excused' = TRUE
                          \/ peer'[w] = "running"
      BY <1>2, <1>10, <2>3, <3>0
    <3> QED BY <1>1, <1>2, <1>3, <2>5, <3>1, LoopKeptTaken
  <2>7. ASSUME NEW w \in Peer, w # n PROVE PeerMadeOnce(w)'
    BY <1>2, <1>10, <2>7, PeersKept DEF ProxiesInv
  <2> QED BY <1>4, <1>5, <1>9, <2>4, <2>6, <2>7 DEF ProxiesInv
<1>12. CASE MainPost(b)
  <2>1. m.op = "postMessageWorker" /\ UNCHANGED <<peer, peerMap>>
    BY <1>12 DEF MainPost, SystemTakes, m
  <2>2. \A w \in Peer : PeerMadeOnce(w)'
    BY <1>2, <2>1, PeersKept DEF ProxiesInv
  <2>3. excused' # TRUE => excused # TRUE /\ looping' = TRUE
    <3> HAVE excused' # TRUE
    <3>0. excused # TRUE /\ ~ b
      BY <1>12, Excused DEF MainPost
    <3>1. PostsAreSafe(n) /\ Says(1, "postMessageWorker", n)
      BY <1>1, <1>2, <1>6, <2>1, <3>0 DEF LoopIsSafe, Says
    <3>2. peer[n] = "running" \/ \E j \in 1 .. 1 - 1 : Says(j, "proxyWorker", n)
      BY <1>6, <3>1 DEF PostsAreSafe
    <3>3. n \in peerMap
      BY <1>6, <3>2 DEF PeerMadeOnce
    <3> QED BY <1>0, <1>12, <3>0, <3>3 DEF MainPost, Throws
  <2>4. LoopIsSafe'
    BY <1>1, <1>2, <1>3, <2>1, <2>3, LoopKeptTaken
  <2> QED BY <1>4, <1>5, <1>9, <2>2, <2>4 DEF ProxiesInv
<1>13. CASE MainTerminate
  <2>1. m.op = "terminateWorker" /\ UNCHANGED <<looping, excused>>
    BY <1>13 DEF MainTerminate, SystemTakes, m
  <2>2. \/ peer[n] = "running" /\ peer'[n] = "ended" /\ n \notin peerMap'
        \/ UNCHANGED peer[n] /\ n \notin peerMap /\ n \notin peerMap'
    BY <1>0, <1>2, <1>6, <1>10, <1>13 DEF MainTerminate, PeerMadeOnce
  <2>3. PeerMadeOnce(n)'
    <3>1. CASE peer[n] = "running" /\ peer'[n] = "ended" /\ n \notin peerMap'
      <4>1. \A i \in 1 .. Len(toSystem) : ~ Says(i, "proxyWorker", n)
        BY <1>6, <3>1 DEF PeerMadeOnce
      <4>2. \A i \in 1 .. Len(toSystem') : ~ Says(i, "proxyWorker", n)'
        BY <1>7, <4>1
      <4> QED BY <3>1, <4>2 DEF PeerMadeOnce
    <3>2. CASE UNCHANGED peer[n] /\ n \notin peerMap /\ n \notin peerMap'
      BY <1>2, <1>6, <3>2, PeersKept
    <3> QED BY <2>2, <3>1, <3>2
  <2>4. ASSUME NEW w \in Peer, w # n PROVE PeerMadeOnce(w)'
    BY <1>2, <1>10, <2>4, PeersKept DEF ProxiesInv
  <2>5. \A w \in Peer : \/ UNCHANGED peer[w] /\ ~ (m.op = "proxyWorker" /\ m.of = w)
                        \/ peer'[w] # "failed" /\ m.op = "terminateWorker" /\ m.of = w
    BY <1>2, <1>10, <2>1, <2>2
  <2>6. LoopIsSafe'
    <3>1. excused' # TRUE => looping' = TRUE
      BY <1>1, <2>1 DEF LoopIsSafe
    <3> QED BY <1>1, <1>2, <1>3, <2>1, <2>5, <3>1, LoopKeptTaken
  <2> QED BY <1>4, <1>5, <1>9, <2>3, <2>4, <2>6 DEF ProxiesInv
<1> QED BY <1>11, <1>12, <1>13

(* A step that neither the queue nor the real workers see.                 *)
LEMMA InvEvents ==
    ASSUME ProxiesInv, ProxiesTypes', SocketsInv',
           UNCHANGED <<looping, toSystem, peer, peerMap, sentData, arrivedData, excused>>,
           \A s \in Socket : socketProxy[s] = "open" => socketProxy'[s] = "open"
    PROVE  ProxiesInv'
<1>1. \A s \in Socket : DataWereSent(s)'
  BY DEF ProxiesInv, DataWereSent
<1>2. \A w \in Peer : PeerMadeOnce(w)'
  BY DEF ProxiesInv, PeerMadeOnce, Says
<1>3. LoopIsSafe'
  <2> DEFINE m == [op |-> "closeWebSocket"]
  <2>1. m.op = "closeWebSocket" /\ LoopIsSafe
    BY DEF ProxiesInv
  <2> HIDE DEF m
  <2> QED BY <2>1, LoopKeptPut
<1> QED BY <1>1, <1>2, <1>3 DEF ProxiesInv

LEMMA InvSocketDoes ==
    ASSUME ProxiesInv, NEW n \in Socket,
           SocketOpens(n) \/ SocketCloses(n) \/ SocketFails(n) \/ SocketReceives(n)
    PROVE  ProxiesInv'
<1>1. ProxiesTypes /\ SocketsInv
  BY DEF ProxiesInv
<1>2. ProxiesTypes' /\ SocketsInv'
  BY <1>1, SocketDoes, TypesSocket, SocketsOutside
<1>3. UNCHANGED <<looping, toSystem, peer, peerMap, sentData, arrivedData, excused, socketProxy>>
  BY DEF SocketOpens, SocketCloses, SocketFails, SocketReceives, SocketEvent, OutsideOnly, SameSockets
<1> QED BY <1>2, <1>3, InvEvents

LEMMA InvPeerDoes ==
    ASSUME ProxiesInv, NEW n \in Peer, NEW b \in BOOLEAN, PeerAnswers(n) \/ PeerIgnores(n, b)
    PROVE  ProxiesInv'
<1>1. ProxiesTypes /\ SocketsInv
  BY DEF ProxiesInv
<1>2. UNCHANGED <<looping, toSystem, peer, peerMap, sentData, arrivedData, excused>> /\ UNCHANGED SocketsFrame
  BY DEF PeerAnswers, PeerIgnores, PeerTakes, OutsideOnly, SameSockets, SocketsFrame
<1>3. ProxiesTypes' /\ SocketsInv'
  BY <1>1, <1>2, TypesPeer, SocketsKept
<1> QED BY <1>2, <1>3, InvEvents DEF SocketsFrame

LEMMA InvHandleEvent == ASSUME ProxiesInv, HandleEvent PROVE ProxiesInv'
<1>1. ProxiesTypes /\ SocketsInv
  BY DEF ProxiesInv
<1>2. ProxiesTypes' /\ SocketsInv'
  BY <1>1, TypesHandle, SocketsHandle
<1>3. UNCHANGED <<looping, toSystem, peer, peerMap, sentData, arrivedData, excused>>
  BY DEF HandleEvent
<1>4. \A s \in Socket : socketProxy[s] = "open" => socketProxy'[s] = "open"
  BY <1>1, TypesHandle DEF Hears, ProxiesTypes
<1> QED BY <1>2, <1>3, <1>4, InvEvents

LEMMA InvOther == ASSUME ProxiesInv, PostReturns \/ ListenerReturns \/ UNCHANGED proxyVars PROVE ProxiesInv'
<1>1. ProxiesTypes /\ SocketsInv
  BY DEF ProxiesInv
<1>2. /\ UNCHANGED <<looping, toSystem, peer, peerMap, sentData, arrivedData, excused, posts>>
      /\ UNCHANGED <<events, socket, socketProxy, heard>> /\ UNCHANGED SocketsFrame
  <2>1. CASE PostReturns \/ ListenerReturns
    BY <2>1 DEF PostReturns, ListenerReturns, ScriptOnly, SameSockets, SocketsFrame
  <2>2. CASE UNCHANGED proxyVars
    BY <2>2 DEF proxyVars, proxySocketVars, proxyPeerVars, SocketsFrame
  <2> QED BY <2>1, <2>2
<1>3. ProxiesTypes'
  BY <1>1, <1>2 DEF ProxiesTypes
<1>4. SocketsInv'
  BY <1>1, <1>2, SocketsKept
<1> QED BY <1>2, <1>3, <1>4, InvEvents

LEMMA InvInit == ASSUME ProxiesInit PROVE ProxiesInv
<1>1. ProxiesTypes
  BY TypesInit
<1>2. /\ toSystem = <<>> /\ events = <<>> /\ Len(toSystem) = 0 /\ Len(events) = 0
      /\ looping = TRUE /\ socketMap = {} /\ peerMap = {}
      /\ \A s \in Socket : /\ socket[s] = "none" /\ socketProxy[s] = "none" /\ heard[s] = <<>>
                           /\ sentData[s] = 0 /\ arrivedData[s] = 0
      /\ \A w \in Peer : peer[w] = "none"
  BY DEF ProxiesInit
<1>3. 1 .. 0 = {} /\ DOMAIN <<>> = {}
  OBVIOUS
<1>4. SocketsInv
  BY <1>2, <1>3 DEF SocketsInv, SocketMadeOnce, OpensFirst, ClosesLast, Closed
<1>5. \A s \in Socket : DataWereSent(s)
  <2>1. \A s : Sends(toSystem, s) = {}
    BY <1>2, <1>3 DEF Sends
  <2>2. \A s : Cardinality(Sends(toSystem, s)) = 0
    BY <2>1, FS_EmptySet
  <2> QED BY <1>2, <2>2 DEF DataWereSent
<1>6. \A w \in Peer : PeerMadeOnce(w)
  BY <1>2, <1>3 DEF PeerMadeOnce
<1>7. LoopIsSafe
  BY <1>2, <1>3 DEF LoopIsSafe, SendsAreSafe, PostsAreSafe
<1> QED BY <1>1, <1>4, <1>5, <1>6, <1>7 DEF ProxiesInv

LEMMA InvNext == ASSUME ProxiesInv, [ProxiesNext]_proxyVars PROVE ProxiesInv'
<1>1. CASE PostReturns \/ ListenerReturns \/ UNCHANGED proxyVars
  BY <1>1, InvOther
<1>2. CASE HandleEvent
  BY <1>2, InvHandleEvent
<1>3. CASE MainSend \/ \E b \in BOOLEAN : MainNewSocket(b) \/ MainClose(b)
  <2>1. PICK b \in BOOLEAN : MainNewSocket(b) \/ MainSend \/ MainClose(b)
    BY <1>3
  <2> QED BY <2>1, InvMainSocket
<1>4. CASE \/ MainTerminate \/ \E b \in BOOLEAN : MainPost(b)
           \/ \E o \in {"loaded", "refused", "unreachable"} : MainNewPeer(o)
  <2>1. PICK o \in {"loaded", "refused", "unreachable"}, b \in BOOLEAN :
          MainPost(b) \/ MainTerminate \/ MainNewPeer(o)
    BY <1>4
  <2> QED BY <2>1, InvMainPeer
<1>5. ASSUME NEW s \in Socket,
             \/ NewSocket(s) \/ SendData(s) \/ CloseSocket(s)
             \/ SocketOpens(s) \/ SocketCloses(s) \/ SocketFails(s) \/ SocketReceives(s)
      PROVE  ProxiesInv'
  BY <1>5, InvNewSocket, InvSendData, InvCloseSocket, InvSocketDoes
<1>6. ASSUME NEW w \in Peer, NEW b \in BOOLEAN,
             NewPeer(w) \/ TerminatePeer(w) \/ PeerAnswers(w) \/ PostToPeer(w, b) \/ PeerIgnores(w, b)
      PROVE  ProxiesInv'
  BY <1>6, InvNewPeer, InvPost, InvPeerDoes
<1> QED BY <1>1, <1>2, <1>3, <1>4, <1>5, <1>6 DEF ProxiesNext

LEMMA ProxiesInvariant == ProxiesSpec => []ProxiesInv
BY InvInit, InvNext, PTL DEF ProxiesSpec

-----------------------------------------------------------------------------
(* For any sockets, workers and bounds, JavaScript sees each socket as the *)
(* WebSocket interface has it: opened at most once and first, nothing more *)
(* after it has closed, and no more data at the real socket than was sent. *)
THEOREM SocketsOrdered == ProxiesSpec => []SocketEventsInOrder
<1>1. ProxiesInv => SocketEventsInOrder
  <2> SUFFICES ASSUME ProxiesInv, NEW s \in Socket
               PROVE  /\ \A i, j \in DOMAIN heard[s] :
                           /\ heard[s][i] = "open" => i = 1
                           /\ heard[s][i] = "message" => heard[s][1] = "open"
                           /\ heard[s][i] = "close" /\ j > i => FALSE
                      /\ arrivedData[s] <= sentData[s]
    BY DEF SocketEventsInOrder
  <2>1. OpensFirst(s) /\ ClosesLast(s) /\ DataWereSent(s) /\ ProxiesTypes
    BY DEF ProxiesInv, SocketsInv
  <2>2. heard[s] \in Seq(SocketKind) /\ toSystem \in Seq(SystemMessage)
        /\ sentData[s] \in Nat /\ arrivedData[s] \in Nat
    BY <2>1 DEF ProxiesTypes
  <2>3. ASSUME NEW i \in DOMAIN heard[s], NEW j \in DOMAIN heard[s]
        PROVE  /\ heard[s][i] = "open" => i = 1
               /\ heard[s][i] = "message" => heard[s][1] = "open"
               /\ heard[s][i] = "close" /\ j > i => FALSE
    <3>1. heard[s][i] = "open" => i = 1
      BY <2>1 DEF OpensFirst
    <3>2. heard[s][i] = "message" => heard[s][1] = "open"
      BY <2>1 DEF OpensFirst, Opened
    <3>3. heard[s][i] = "close" => i = Len(heard[s])
      BY <2>1 DEF ClosesLast
    <3>4. j <= Len(heard[s]) /\ j \in Nat /\ i \in Nat /\ Len(heard[s]) \in Nat
      BY <2>2
    <3> QED BY <3>1, <3>2, <3>3, <3>4
  <2>4. arrivedData[s] <= sentData[s]
    BY <2>1, <2>2, SendsFinite DEF DataWereSent
  <2> QED BY <2>3, <2>4
<1> QED BY <1>1, ProxiesInvariant, PTL

(* For any sockets, workers and bounds, the loop over system messages ends *)
(* only if data was sent through a socket before its proxy had opened, a   *)
(* post made to a worker after its end was asked for, a script did not     *)
(* load, or the browser refused an argument.                               *)
THEOREM LoopSurvives == ProxiesSpec => []LoopOutlivesGoodUse
<1>1. ProxiesInv => LoopOutlivesGoodUse
  BY DEF ProxiesInv, LoopIsSafe, LoopOutlivesGoodUse
<1> QED BY <1>1, ProxiesInvariant, PTL


-----------------------------------------------------------------------------
(* Posts to workers.                                                       *)

Posts(i, p) == toSystem[i].op = "postMessageWorker" /\ toSystem[i].post = p

(* What waits, listens, is answered or under way is a post that was made.  *)
PostsKnown ==
    /\ Len(posts) <= MaxPosts /\ answers \in [PostId -> Nat]
    /\ peerInbox \in [Peer -> Seq(Nat)] /\ waitingPosts \in Seq(Nat)
    /\ \A k \in 1 .. Len(waitingPosts) :
         waitingPosts[k] \in 1 .. Len(posts) /\ posts[waitingPosts[k]].async = FALSE
    /\ listeners \subseteq 1 .. Len(posts)
    /\ \A p \in PostId : answers[p] # NoPost => p \in 1 .. Len(posts)
    /\ \A i \in 1 .. Len(toSystem) : toSystem[i].op = "postMessageWorker" =>
         toSystem[i].post \in 1 .. Len(posts) /\ posts[toSystem[i].post].to = toSystem[i].of
    /\ \A w \in Peer : /\ \A k \in 1 .. Len(peerInbox[w]) : peerInbox[w][k] \in 1 .. Len(posts)
                       /\ peerInbox[w] # <<>> => peer[w] = "running"

(* A post with none ahead of it is the next one its worker takes.          *)
FirstInLine(p) ==
    posts[p].behind = FALSE /\ p \notin ignored =>
      /\ answers[p] \in {NoPost, p}
      /\ \A i \in 1 .. Len(toSystem) : Posts(i, p) =>
           /\ peerInbox[posts[p].to] = <<>>
           /\ \A j \in 1 .. i - 1 : ~ Says(j, "postMessageWorker", posts[p].to)
      /\ p \in listeners =>
           \/ peer[posts[p].to] \in {"ended", "failed"}
           \/ peerInbox[posts[p].to] # <<>> /\ peerInbox[posts[p].to][1] = p
           \/ peerInbox[posts[p].to] = <<>> /\ looping = FALSE

(* A synchronous post is answered, or under way and listened for.          *)
NotForgotten(p) ==
    posts[p].async = FALSE =>
      \/ answers[p] # NoPost \/ p \in ignored \/ looping = FALSE
      \/ peer[posts[p].to] \in {"ended", "failed"}
      \/ \E i \in 1 .. Len(toSystem) : Posts(i, p)
      \/ p \in listeners /\ \E k \in 1 .. Len(peerInbox[posts[p].to]) : peerInbox[posts[p].to][k] = p

PostsInv == PostsKnown /\ \A p \in 1 .. Len(posts) : FirstInLine(p) /\ NotForgotten(p)

(* The posts under way after a step that puts or takes no post.            *)
LEMMA OtherMessages ==
    ASSUME NEW m, \/ (Put(m) \/ Taken(m)) /\ m.op # "postMessageWorker"
                  \/ UNCHANGED toSystem
    PROVE  /\ \A i \in 1 .. Len(toSystem') : toSystem'[i].op = "postMessageWorker" =>
                \E i0 \in 1 .. Len(toSystem) :
                  /\ toSystem'[i] = toSystem[i0]
                  /\ \A j \in 1 .. i - 1 : \E j0 \in 1 .. i0 - 1 : toSystem'[j] = toSystem[j0]
           /\ \A i0 \in 1 .. Len(toSystem) : toSystem[i0].op = "postMessageWorker" =>
                \E i \in 1 .. Len(toSystem') : toSystem'[i] = toSystem[i0]
<1>1. CASE Put(m) /\ m.op # "postMessageWorker"
  <2>1. ASSUME NEW i \in 1 .. Len(toSystem'), toSystem'[i].op = "postMessageWorker"
        PROVE  \E i0 \in 1 .. Len(toSystem) :
                 /\ toSystem'[i] = toSystem[i0]
                 /\ \A j \in 1 .. i - 1 : \E j0 \in 1 .. i0 - 1 : toSystem'[j] = toSystem[j0]
    <3>1. i \in 1 .. Len(toSystem) /\ toSystem'[i] = toSystem[i]
      BY <1>1, <2>1 DEF Put
    <3>2. ASSUME NEW j \in 1 .. i - 1 PROVE toSystem'[j] = toSystem[j]
      BY <1>1, <3>1 DEF Put
    <3> QED BY <3>1, <3>2
  <2>2. ASSUME NEW i0 \in 1 .. Len(toSystem)
        PROVE  \E i \in 1 .. Len(toSystem') : toSystem'[i] = toSystem[i0]
    <3>1. i0 \in 1 .. Len(toSystem') /\ toSystem'[i0] = toSystem[i0]
      BY <1>1 DEF Put
    <3> QED BY <3>1
  <2> QED BY <2>1, <2>2
<1>2. CASE Taken(m) /\ m.op # "postMessageWorker"
  <2>1. ASSUME NEW i \in 1 .. Len(toSystem')
        PROVE  \E i0 \in 1 .. Len(toSystem) :
                 /\ toSystem'[i] = toSystem[i0]
                 /\ \A j \in 1 .. i - 1 : \E j0 \in 1 .. i0 - 1 : toSystem'[j] = toSystem[j0]
    <3>1. i + 1 \in 1 .. Len(toSystem) /\ toSystem'[i] = toSystem[i + 1]
      BY <1>2 DEF Taken
    <3>2. ASSUME NEW j \in 1 .. i - 1
          PROVE  j + 1 \in 1 .. (i + 1) - 1 /\ toSystem'[j] = toSystem[j + 1]
      BY <1>2 DEF Taken
    <3> QED BY <3>1, <3>2
  <2>2. ASSUME NEW i0 \in 1 .. Len(toSystem), toSystem[i0].op = "postMessageWorker"
        PROVE  \E i \in 1 .. Len(toSystem') : toSystem'[i] = toSystem[i0]
    <3>1. i0 # 1 /\ Len(toSystem) \in Nat
      BY <1>2, <2>2 DEF Taken
    <3>2. i0 - 1 \in 1 .. Len(toSystem') /\ (i0 - 1) + 1 = i0
      BY <1>2, <3>1 DEF Taken
    <3> QED BY <1>2, <3>2 DEF Taken
  <2> QED BY <2>1, <2>2
<1>3. CASE UNCHANGED toSystem
  BY <1>3
<1> QED BY <1>1, <1>2, <1>3

(* Such a step, where it may end the wait of the innermost post, make a    *)
(* worker, or end one with what it has not taken.                          *)
PostsFrame ==
    /\ UNCHANGED <<listeners, answers, posts, ignored>>
    /\ looping' = FALSE \/ UNCHANGED looping
    /\ peerInbox' \in [Peer -> Seq(Nat)]
    /\ \A w \in Peer :
         \/ peerInbox'[w] = peerInbox[w] /\ (peer'[w] = peer[w] \/ peer[w] = "none")
         \/ peerInbox'[w] = <<>> /\ peer'[w] = "ended"
    /\ waitingPosts' \in Seq(Nat)
    /\ \A k \in 1 .. Len(waitingPosts') :
         k \in 1 .. Len(waitingPosts) /\ waitingPosts'[k] = waitingPosts[k]

LEMMA PostsUnseen ==
    ASSUME ProxiesTypes, PostsInv, PostsFrame,
           NEW m, \/ (Put(m) \/ Taken(m)) /\ m.op # "postMessageWorker"
                  \/ UNCHANGED toSystem
    PROVE  PostsInv'
<1>1. /\ \A i \in 1 .. Len(toSystem') : toSystem'[i].op = "postMessageWorker" =>
           \E i0 \in 1 .. Len(toSystem) :
             /\ toSystem'[i] = toSystem[i0]
             /\ \A j \in 1 .. i - 1 : \E j0 \in 1 .. i0 - 1 : toSystem'[j] = toSystem[j0]
      /\ \A i0 \in 1 .. Len(toSystem) : toSystem[i0].op = "postMessageWorker" =>
           \E i \in 1 .. Len(toSystem') : toSystem'[i] = toSystem[i0]
  BY OtherMessages
<1>2. UNCHANGED <<listeners, answers, posts, ignored>>
  BY DEF PostsFrame
<1>3. PostsKnown'
  <2>1. ASSUME NEW w \in Peer
        PROVE  /\ \A k \in 1 .. Len(peerInbox'[w]) : peerInbox'[w][k] \in 1 .. Len(posts)
               /\ peerInbox'[w] # <<>> => peer'[w] = "running"
    <3>1. CASE peerInbox'[w] = peerInbox[w] /\ (peer'[w] = peer[w] \/ peer[w] = "none")
      BY <3>1 DEF PostsInv, PostsKnown
    <3>2. CASE peerInbox'[w] = <<>> /\ peer'[w] = "ended"
      BY <3>2
    <3> QED BY <3>1, <3>2 DEF PostsFrame
  <2>2. \A k \in 1 .. Len(waitingPosts') :
          waitingPosts'[k] \in 1 .. Len(posts) /\ posts[waitingPosts'[k]].async = FALSE
    BY DEF PostsInv, PostsKnown, PostsFrame
  <2>3. \A i \in 1 .. Len(toSystem') : toSystem'[i].op = "postMessageWorker" =>
          toSystem'[i].post \in 1 .. Len(posts) /\ posts[toSystem'[i].post].to = toSystem'[i].of
    <3> SUFFICES ASSUME NEW i \in 1 .. Len(toSystem'), toSystem'[i].op = "postMessageWorker"
                 PROVE  toSystem'[i].post \in 1 .. Len(posts) /\ posts[toSystem'[i].post].to = toSystem'[i].of
      OBVIOUS
    <3>1. PICK i0 \in 1 .. Len(toSystem) : toSystem'[i] = toSystem[i0]
      BY <1>1
    <3>2. PICK m0 : m0 = toSystem[i0] /\ m0 = toSystem'[i]
      BY <3>1
    <3>3. m0.post \in 1 .. Len(posts) /\ posts[m0.post].to = m0.of
      BY <3>2 DEF PostsInv, PostsKnown
    <3> QED BY <3>2, <3>3
  <2>4. peerInbox' \in [Peer -> Seq(Nat)] /\ waitingPosts' \in Seq(Nat)
    BY DEF PostsFrame
  <2>5. /\ Len(posts') <= MaxPosts /\ answers' \in [PostId -> Nat] /\ listeners' \subseteq 1 .. Len(posts')
        /\ \A p \in PostId : answers'[p] # NoPost => p \in 1 .. Len(posts')
    BY <1>2 DEF PostsInv, PostsKnown
  <2> QED BY <1>2, <2>1, <2>2, <2>3, <2>4, <2>5 DEF PostsKnown
<1>4. ASSUME NEW p \in 1 .. Len(posts) PROVE FirstInLine(p)' /\ NotForgotten(p)'
  <2>0. PICK w : w = posts[p].to
    OBVIOUS
  <2>1. FirstInLine(p) /\ NotForgotten(p) /\ posts' = posts
    BY <1>2 DEF PostsInv
  <2>2. w \in Peer
    <3>1. posts \in Seq([to : Peer, async : BOOLEAN, behind : BOOLEAN])
      BY DEF ProxiesTypes
    <3>2. posts[p] \in [to : Peer, async : BOOLEAN, behind : BOOLEAN]
      BY <3>1, ElementOfSeq
    <3> QED BY <2>0, <3>2
  <2>3. \/ peerInbox'[w] = peerInbox[w] /\ (peer'[w] = peer[w] \/ peer[w] = "none")
        \/ peerInbox'[w] = <<>> /\ peer'[w] = "ended"
    BY <2>2 DEF PostsFrame
  <2>4. peerInbox[w] # <<>> => peer[w] = "running"
    BY <2>2 DEF PostsInv, PostsKnown
  <2>5. FirstInLine(p)'
    <3> SUFFICES ASSUME posts[p].behind = FALSE, p \notin ignored
                 PROVE  /\ answers[p] \in {NoPost, p}
                        /\ \A i \in 1 .. Len(toSystem') : Posts(i, p)' =>
                             /\ peerInbox'[w] = <<>>
                             /\ \A j \in 1 .. i - 1 : ~ Says(j, "postMessageWorker", w)'
                        /\ p \in listeners => \/ peer'[w] \in {"ended", "failed"}
                                              \/ peerInbox'[w] # <<>> /\ peerInbox'[w][1] = p
                                              \/ peerInbox'[w] = <<>> /\ looping' = FALSE
      BY <1>2, <2>0, <2>1 DEF FirstInLine
    <3>1. answers[p] \in {NoPost, p}
      BY <2>1 DEF FirstInLine
    <3>2. ASSUME NEW i \in 1 .. Len(toSystem'), Posts(i, p)'
          PROVE  /\ peerInbox'[w] = <<>>
                 /\ \A j \in 1 .. i - 1 : ~ Says(j, "postMessageWorker", w)'
      <4>1. PICK i0 \in 1 .. Len(toSystem) :
              /\ toSystem'[i] = toSystem[i0]
              /\ \A j \in 1 .. i - 1 : \E j0 \in 1 .. i0 - 1 : toSystem'[j] = toSystem[j0]
        BY <1>1, <3>2 DEF Posts
      <4>2. Posts(i0, p)
        BY <3>2, <4>1 DEF Posts
      <4>3. peerInbox[w] = <<>> /\ \A j \in 1 .. i0 - 1 : ~ Says(j, "postMessageWorker", w)
        BY <2>0, <2>1, <4>2 DEF FirstInLine
      <4>4. peerInbox'[w] = <<>>
        BY <2>3, <4>3
      <4>5. ASSUME NEW j \in 1 .. i - 1 PROVE ~ Says(j, "postMessageWorker", w)'
        BY <4>1, <4>3, <1>2 DEF Says
      <4> QED BY <4>4, <4>5
    <3>3. p \in listeners => \/ peer'[w] \in {"ended", "failed"}
                             \/ peerInbox'[w] # <<>> /\ peerInbox'[w][1] = p
                             \/ peerInbox'[w] = <<>> /\ looping' = FALSE
      <4>1. looping' = FALSE \/ UNCHANGED looping
        BY DEF PostsFrame
      <4> QED BY <2>0, <2>1, <2>3, <2>4, <4>1 DEF FirstInLine
    <3> QED BY <3>1, <3>2, <3>3
  <2>6. NotForgotten(p)'
    <3> SUFFICES ASSUME posts[p].async = FALSE
                 PROVE  \/ answers[p] # NoPost \/ p \in ignored \/ looping' = FALSE
                        \/ peer'[w] \in {"ended", "failed"}
                        \/ \E i \in 1 .. Len(toSystem') : Posts(i, p)'
                        \/ p \in listeners /\ \E k \in 1 .. Len(peerInbox'[w]) : peerInbox'[w][k] = p
      BY <1>2, <2>0, <2>1 DEF NotForgotten
    <3>1. CASE answers[p] # NoPost \/ p \in ignored
      BY <3>1
    <3>2. CASE looping = FALSE
      BY <3>2 DEF PostsFrame
    <3>3. CASE peer[w] \in {"ended", "failed"}
      BY <2>3, <3>3
    <3>4. CASE \E i \in 1 .. Len(toSystem) : Posts(i, p)
      <4>1. PICK i0 \in 1 .. Len(toSystem) : Posts(i0, p)
        BY <3>4
      <4>2. PICK i \in 1 .. Len(toSystem') : toSystem'[i] = toSystem[i0]
        BY <1>1, <4>1 DEF Posts
      <4>3. Posts(i, p)'
        BY <4>1, <4>2 DEF Posts
      <4> QED BY <4>3
    <3>5. CASE p \in listeners /\ \E k \in 1 .. Len(peerInbox[w]) : peerInbox[w][k] = p
      <4>1. peerInbox[w] # <<>>
        BY <3>5
      <4> QED BY <2>3, <2>4, <3>5, <4>1
    <3> QED BY <2>0, <2>1, <3>1, <3>2, <3>3, <3>4, <3>5 DEF NotForgotten
  <2> QED BY <2>5, <2>6
<1> QED BY <1>2, <1>3, <1>4 DEF PostsInv

(* What JavaScript writes that is no post.                                 *)
LEMMA PostsScript ==
    ASSUME ProxiesInv, PostsInv,
           \/ \E s \in Socket : NewSocket(s) \/ SendData(s) \/ CloseSocket(s)
           \/ \E w \in Peer : NewPeer(w) \/ TerminatePeer(w)
    PROVE  PostsInv'
<1>1. PICK m \in SystemMessage : SystemPut(m) /\ m.op # "postMessageWorker"
  <2>1. ASSUME NEW s \in Socket, NewSocket(s) \/ SendData(s) \/ CloseSocket(s)
        PROVE  \E m \in SystemMessage : SystemPut(m) /\ m.op # "postMessageWorker"
    <3>1. PICK op \in SocketOp : SystemPut([op |-> op, of |-> s])
      BY <2>1 DEF NewSocket, SendData, CloseSocket, SocketOp
    <3>2. [op |-> op, of |-> s] \in SystemMessage /\ op # "postMessageWorker"
      BY ScriptMessages DEF SocketOp
    <3> QED BY <3>1, <3>2
  <2>2. ASSUME NEW w \in Peer, NewPeer(w) \/ TerminatePeer(w)
        PROVE  \E m \in SystemMessage : SystemPut(m) /\ m.op # "postMessageWorker"
    <3>1. PICK op \in {"proxyWorker", "terminateWorker"} : SystemPut([op |-> op, of |-> w])
      BY <2>2 DEF NewPeer, TerminatePeer
    <3>2. [op |-> op, of |-> w] \in SystemMessage /\ op # "postMessageWorker"
      BY ScriptMessages
    <3> QED BY <3>1, <3>2
  <2> QED BY <2>1, <2>2
<1>2. ProxiesTypes /\ toSystem \in Seq(SystemMessage)
  BY DEF ProxiesInv, ProxiesTypes
<1>3. Put(m)
  BY <1>1, <1>2, PutChanges
<1>4. UNCHANGED <<looping, peer, peerInbox, listeners, ignored, waitingPosts, answers, posts>>
  BY DEF NewSocket, SendData, CloseSocket, NewPeer, TerminatePeer, ScriptOnly, SamePosts
<1>5. PostsFrame
  BY <1>4 DEF PostsFrame, PostsInv, PostsKnown
<1> QED BY <1>1, <1>2, <1>3, <1>5, PostsUnseen

(* What neither writes nor takes a message, nor is done by a worker.       *)
LEMMA PostsQuiet ==
    ASSUME ProxiesInv, PostsInv,
           \/ PostReturns \/ ListenerReturns \/ HandleEvent \/ UNCHANGED proxyVars
           \/ \E s \in Socket : SocketOpens(s) \/ SocketCloses(s) \/ SocketFails(s) \/ SocketReceives(s)
    PROVE  PostsInv'
<1>1. /\ UNCHANGED <<looping, toSystem, peer, peerInbox, listeners, ignored, answers, posts>>
      /\ UNCHANGED waitingPosts \/ (waitingPosts # <<>> /\ waitingPosts' = Front(waitingPosts))
  <2>1. CASE PostReturns \/ ListenerReturns
    BY <2>1 DEF PostReturns, ListenerReturns, ScriptOnly
  <2>2. CASE HandleEvent \/ UNCHANGED proxyVars
    BY <2>2 DEF HandleEvent, proxyVars, proxyPeerVars
  <2>3. CASE \E s \in Socket : SocketOpens(s) \/ SocketCloses(s) \/ SocketFails(s) \/ SocketReceives(s)
    BY <2>3 DEF SocketOpens, SocketCloses, SocketFails, SocketReceives, SocketEvent, OutsideOnly, SamePosts
  <2> QED BY <2>1, <2>2, <2>3
<1>2. waitingPosts \in Seq(Nat)
  BY DEF PostsInv, PostsKnown
<1>3. /\ waitingPosts' \in Seq(Nat)
      /\ \A k \in 1 .. Len(waitingPosts') :
           k \in 1 .. Len(waitingPosts) /\ waitingPosts'[k] = waitingPosts[k]
  <2>1. CASE UNCHANGED waitingPosts
    BY <1>2, <2>1
  <2>2. CASE waitingPosts # <<>> /\ waitingPosts' = Front(waitingPosts)
    BY <1>2, <2>2 DEF Front
  <2> QED BY <1>1, <2>1, <2>2
<1>4. PostsFrame
  BY <1>1, <1>3 DEF PostsFrame, PostsInv, PostsKnown
<1>5. ProxiesTypes
  BY DEF ProxiesInv
<1> QED BY <1>1, <1>4, <1>5, PostsUnseen

(* What the main thread takes that is no post.                             *)
LEMMA PostsMain ==
    ASSUME ProxiesInv, PostsInv,
           \/ MainSend \/ MainTerminate \/ \E b \in BOOLEAN : MainNewSocket(b) \/ MainClose(b)
           \/ \E o \in {"loaded", "refused", "unreachable"} : MainNewPeer(o)
    PROVE  PostsInv'
<1>1. ProxiesTypes /\ toSystem \in Seq(SystemMessage)
  BY DEF ProxiesInv, ProxiesTypes
<1>2. PICK op \in SocketOp \cup {"proxyWorker", "terminateWorker"} :
        /\ SystemTakes(op)
        /\ op = "proxyWorker" => \E o \in {"loaded", "refused", "unreachable"} : MainNewPeer(o)
        /\ op = "terminateWorker" => MainTerminate
        /\ op \in SocketOp => MainSend \/ \E b \in BOOLEAN : MainNewSocket(b) \/ MainClose(b)
  BY DEF MainNewSocket, MainSend, MainClose, MainTerminate, MainNewPeer, SocketOp
<1>3. PICK m : m = Head(toSystem)
  OBVIOUS
<1>4. /\ Taken(m) /\ m.op = op /\ m.of = Subject /\ m.op # "postMessageWorker"
      /\ op \in {"proxyWorker", "terminateWorker"} => Subject \in Peer
  BY <1>1, <1>2, <1>3, TakenSubject DEF SocketOp, Subject
<1>5. UNCHANGED <<listeners, ignored, waitingPosts, answers, posts>>
  BY DEF MainNewSocket, MainSend, MainClose, MainTerminate, MainNewPeer, SystemTakes, SamePosts,
         SocketsOnly
<1>6. looping' = FALSE \/ UNCHANGED looping
  <2>1. looping = TRUE \/ looping = looping
    OBVIOUS
  <2> QED BY DEF MainNewSocket, MainSend, MainClose, MainTerminate, MainNewPeer, SystemTakes, Throws
<1>7. /\ peerInbox' \in [Peer -> Seq(Nat)]
      /\ \A w \in Peer :
           \/ peerInbox'[w] = peerInbox[w] /\ (peer'[w] = peer[w] \/ peer[w] = "none")
           \/ peerInbox'[w] = <<>> /\ peer'[w] = "ended"
  <2>0. /\ peerInbox \in [Peer -> Seq(Nat)] /\ DOMAIN peer = Peer
        /\ \A w \in Peer : peerInbox[w] # <<>> => peer[w] = "running"
    BY <1>1 DEF PostsInv, PostsKnown, ProxiesTypes
  <2>1. CASE op \in SocketOp
    BY <1>2, <2>0, <2>1 DEF MainNewSocket, MainSend, MainClose, SocketsOnly
  <2>2. CASE op = "proxyWorker"
    <3>1. PICK o \in {"loaded", "refused", "unreachable"} : MainNewPeer(o)
      BY <1>2, <2>2
    <3>2. 1 \in 1 .. Len(toSystem) /\ Says(1, "proxyWorker", Subject)
      BY <1>4, <2>2 DEF Taken, Says
    <3>3. peer[Subject] = "none"
      BY <1>4, <2>2, <3>2 DEF ProxiesInv, PeerMadeOnce
    <3> QED BY <1>4, <2>0, <2>2, <3>1, <3>3 DEF MainNewPeer
  <2>3. CASE op = "terminateWorker"
    <3>1. MainTerminate /\ Subject \in Peer
      BY <1>2, <1>4, <2>3
    <3>2. peerInbox' = [peerInbox EXCEPT ![Subject] = <<>>] /\ <<>> \in Seq(Nat)
      BY <3>1 DEF MainTerminate
    <3>3. Subject \in peerMap <=> peer[Subject] = "running"
      BY <3>1 DEF ProxiesInv, PeerMadeOnce
    <3>4. ASSUME NEW w \in Peer
          PROVE  \/ peerInbox'[w] = peerInbox[w] /\ peer'[w] = peer[w]
                 \/ peerInbox'[w] = <<>> /\ peer'[w] = "ended"
      <4>1. CASE w # Subject
        BY <2>0, <3>1, <3>2, <4>1 DEF MainTerminate
      <4>2. CASE w = Subject /\ peer[w] = "running"
        BY <2>0, <3>1, <3>2, <3>3, <4>2 DEF MainTerminate
      <4>3. CASE w = Subject /\ peer[w] # "running"
        BY <2>0, <3>1, <3>2, <3>3, <4>3 DEF MainTerminate
      <4> QED BY <4>1, <4>2, <4>3
    <3>5. peerInbox' \in [Peer -> Seq(Nat)]
      BY <2>0, <3>2
    <3> QED BY <3>4, <3>5
  <2> QED BY <2>1, <2>2, <2>3
<1>8. PostsFrame
  <2>1. waitingPosts \in Seq(Nat)
    BY DEF PostsInv, PostsKnown
  <2> QED BY <1>5, <1>6, <1>7, <2>1 DEF PostsFrame
<1> QED BY <1>1, <1>4, <1>8, PostsUnseen

(* A post is made.                                                         *)
LEMMA PostsMade ==
    ASSUME ProxiesInv, PostsInv, NEW n \in Peer, NEW b \in BOOLEAN, PostToPeer(n, b)
    PROVE  PostsInv'
<1> DEFINE behind == Written("postMessageWorker", n) \/ peerInbox[n] # <<>>
           rec == [to |-> n, async |-> b, behind |-> behind]
<1>1. PICK p : p = Len(posts) + 1
  OBVIOUS
<1>2. PICK m : m = [op |-> "postMessageWorker", of |-> n, post |-> p]
  OBVIOUS
<1>3. /\ ProxiesTypes /\ PostsKnown /\ toSystem \in Seq(SystemMessage)
      /\ posts \in Seq([to : Peer, async : BOOLEAN, behind : BOOLEAN])
  BY DEF ProxiesInv, ProxiesTypes, PostsInv
<1>4. /\ p \in PostId /\ p \in Nat /\ Len(posts) \in Nat /\ p \notin 1 .. Len(posts) /\ p # NoPost
      /\ Len(posts) + 1 <= MaxPosts
  BY <1>1, <1>3, ProxiesAssumption DEF PostToPeer, PostId, NoPost
<1>5. Put(m)
  BY <1>1, <1>2, <1>3, <1>4, ScriptMessages, PutChanges DEF PostToPeer
<1>6. /\ UNCHANGED <<looping, peer, peerInbox, listeners, ignored, answers>>
      /\ posts' = Append(posts, rec)
      /\ waitingPosts' = IF b THEN waitingPosts ELSE Append(waitingPosts, p)
  BY <1>1 DEF PostToPeer, ScriptOnly
<1>7. behind \in BOOLEAN
  OBVIOUS
<1>8. behind = FALSE =>
        peerInbox[n] = <<>> /\ \A j \in 1 .. Len(toSystem) : ~ Says(j, "postMessageWorker", n)
  BY <1>3 DEF Written, Says
<1>9. rec.to = n /\ rec.async = b /\ rec.behind = behind
  OBVIOUS
<1> HIDE DEF rec, behind
<1>10. /\ Len(posts') = p /\ posts'[p] = rec
       /\ \A q \in 1 .. Len(posts) : q \in 1 .. Len(posts') /\ q # p /\ posts'[q] = posts[q]
       /\ \A q \in 1 .. Len(posts') : q = p \/ q \in 1 .. Len(posts)
       /\ p \in 1 .. Len(posts')
  BY <1>1, <1>3, <1>4, <1>6
<1>11. /\ \A i \in 1 .. Len(toSystem') : \/ i \in 1 .. Len(toSystem) /\ toSystem'[i] = toSystem[i]
                                         \/ i = Len(toSystem) + 1 /\ toSystem'[i] = m
       /\ \A i \in 1 .. Len(toSystem) : i \in 1 .. Len(toSystem') /\ toSystem'[i] = toSystem[i]
       /\ Len(toSystem) + 1 \in 1 .. Len(toSystem') /\ toSystem'[Len(toSystem) + 1] = m
  BY <1>5 DEF Put
<1>12. m.op = "postMessageWorker" /\ m.of = n /\ m.post = p
  BY <1>2
<1>13. PostsKnown'
  <2>1. waitingPosts' \in Seq(Nat)
    BY <1>3, <1>4, <1>6 DEF PostsKnown
  <2>2. \A k \in 1 .. Len(waitingPosts') :
          waitingPosts'[k] \in 1 .. Len(posts') /\ posts'[waitingPosts'[k]].async = FALSE
    <3> TAKE k \in 1 .. Len(waitingPosts')
    <3>0. waitingPosts \in Seq(Nat)
      BY <1>3 DEF PostsKnown
    <3>1. \/ k \in 1 .. Len(waitingPosts) /\ waitingPosts'[k] = waitingPosts[k]
          \/ b = FALSE /\ waitingPosts'[k] = p
      BY <1>4, <1>6, <3>0
    <3> QED BY <1>3, <1>9, <1>10, <3>1 DEF PostsKnown
  <2>3. listeners \subseteq 1 .. Len(posts')
    BY <1>3, <1>10 DEF PostsKnown
  <2>4. \A q \in PostId : answers[q] # NoPost => q \in 1 .. Len(posts')
    BY <1>3, <1>10 DEF PostsKnown
  <2>5. \A i \in 1 .. Len(toSystem') : toSystem'[i].op = "postMessageWorker" =>
          toSystem'[i].post \in 1 .. Len(posts') /\ posts'[toSystem'[i].post].to = toSystem'[i].of
    <3> TAKE i \in 1 .. Len(toSystem')
    <3>1. CASE i \in 1 .. Len(toSystem) /\ toSystem'[i] = toSystem[i]
      <4>1. toSystem[i].op = "postMessageWorker" =>
              toSystem[i].post \in 1 .. Len(posts) /\ posts[toSystem[i].post].to = toSystem[i].of
        BY <1>3, <3>1 DEF PostsKnown
      <4> QED BY <1>10, <3>1, <4>1
    <3>2. CASE toSystem'[i] = m
      BY <1>9, <1>10, <1>12, <3>2
    <3> QED BY <1>11, <3>1, <3>2
  <2>6. \A w \in Peer : /\ \A k \in 1 .. Len(peerInbox[w]) : peerInbox[w][k] \in 1 .. Len(posts')
                        /\ peerInbox[w] # <<>> => peer[w] = "running"
    BY <1>3, <1>10 DEF PostsKnown
  <2>7. Len(posts') <= MaxPosts /\ answers \in [PostId -> Nat] /\ peerInbox \in [Peer -> Seq(Nat)]
    BY <1>1, <1>3, <1>4, <1>10 DEF PostsKnown
  <2> QED BY <1>6, <2>1, <2>2, <2>3, <2>4, <2>5, <2>6, <2>7 DEF PostsKnown
<1>14. ASSUME NEW q \in 1 .. Len(posts) PROVE FirstInLine(q)' /\ NotForgotten(q)'
  <2>1. FirstInLine(q) /\ NotForgotten(q) /\ posts'[q] = posts[q] /\ q # p
    BY <1>10 DEF PostsInv
  <2>2. ASSUME NEW i \in 1 .. Len(toSystem'), Posts(i, q)'
        PROVE  /\ i \in 1 .. Len(toSystem) /\ Posts(i, q)
               /\ \A j \in 1 .. i - 1 : j \in 1 .. Len(toSystem) /\ toSystem'[j] = toSystem[j]
    <3>1. i \in 1 .. Len(toSystem) /\ toSystem'[i] = toSystem[i]
      BY <1>11, <1>12, <2>1, <2>2 DEF Posts
    <3>2. Len(toSystem) \in Nat
      BY <1>5 DEF Put
    <3>3. \A j \in 1 .. i - 1 : j \in 1 .. Len(toSystem)
      BY <3>1, <3>2
    <3> QED BY <1>11, <2>2, <3>1, <3>3 DEF Posts
  <2>3. FirstInLine(q)'
    BY <1>6, <2>1, <2>2 DEF FirstInLine, Says
  <2>4. \A i \in 1 .. Len(toSystem) : Posts(i, q) => i \in 1 .. Len(toSystem') /\ Posts(i, q)'
    BY <1>11 DEF Posts
  <2>5. NotForgotten(q)'
    BY <1>6, <2>1, <2>4 DEF NotForgotten
  <2> QED BY <2>3, <2>5
<1>15. FirstInLine(p)' /\ NotForgotten(p)'
  <2>1. answers[p] = NoPost /\ p \notin listeners
    BY <1>3, <1>4 DEF PostsKnown
  <2>2. ASSUME NEW i \in 1 .. Len(toSystem'), Posts(i, p)' PROVE i = Len(toSystem) + 1
    BY <1>3, <1>4, <1>11, <2>2 DEF Posts, PostsKnown
  <2>3. Len(toSystem) \in Nat
    BY <1>5 DEF Put
  <2>4. \A j \in 1 .. (Len(toSystem) + 1) - 1 : j \in 1 .. Len(toSystem) /\ toSystem'[j] = toSystem[j]
    BY <1>11, <2>3
  <2>5. behind = FALSE =>
          peerInbox[n] = <<>> /\ \A j \in 1 .. (Len(toSystem) + 1) - 1 : ~ Says(j, "postMessageWorker", n)'
    BY <1>8, <2>4 DEF Says
  <2>6. /\ posts'[p].to = n /\ posts'[p].behind = behind
    BY <1>9, <1>10
  <2>7. FirstInLine(p)'
    BY <1>6, <2>1, <2>2, <2>5, <2>6 DEF FirstInLine
  <2>8. PICK e \in 1 .. Len(toSystem') : toSystem'[e] = m
    BY <1>11
  <2>9. Posts(e, p)'
    BY <1>12, <2>8 DEF Posts
  <2>10. NotForgotten(p)'
    BY <2>8, <2>9 DEF NotForgotten
  <2> QED BY <2>7, <2>10
<1> QED BY <1>10, <1>13, <1>14, <1>15 DEF PostsInv

(* The main thread takes a post.                                           *)
LEMMA PostsDelivered ==
    ASSUME ProxiesInv, PostsInv, NEW b \in BOOLEAN, MainPost(b)
    PROVE  PostsInv'
<1>1. /\ ProxiesTypes /\ PostsKnown /\ posts \in Seq([to : Peer, async : BOOLEAN, behind : BOOLEAN])
      /\ peerInbox \in [Peer -> Seq(Nat)] /\ DOMAIN peerInbox = Peer
  BY DEF ProxiesInv, ProxiesTypes, PostsInv, PostsKnown
<1>2. PICK m : m = Head(toSystem)
  OBVIOUS
<1>3. PICK n : n = Subject
  OBVIOUS
<1>4. PICK p : p = m.post
  OBVIOUS
<1>5. Taken(m) /\ m.op = "postMessageWorker" /\ m.of = n /\ n \in Peer
  BY <1>1, <1>2, <1>3, TakenSubject DEF MainPost, Subject
<1>6. /\ 1 \in 1 .. Len(toSystem) /\ toSystem[1] = m /\ Posts(1, p) /\ Says(1, "postMessageWorker", n)
      /\ \A i \in 1 .. Len(toSystem') : i + 1 \in 1 .. Len(toSystem) /\ toSystem'[i] = toSystem[i + 1]
      /\ \A i \in 1 .. Len(toSystem) :
           i = 1 \/ (i - 1 \in 1 .. Len(toSystem') /\ toSystem'[i - 1] = toSystem[i])
  <2>1. 1 \in 1 .. Len(toSystem) /\ toSystem[1] = m /\ Len(toSystem) \in Nat
    BY <1>5 DEF Taken
  <2>2. \A i \in 1 .. Len(toSystem') : i + 1 \in 1 .. Len(toSystem) /\ toSystem'[i] = toSystem[i + 1]
    BY <1>5 DEF Taken
  <2>3. ASSUME NEW i \in 1 .. Len(toSystem), i # 1
        PROVE  i - 1 \in 1 .. Len(toSystem') /\ toSystem'[i - 1] = toSystem[i]
    <3>1. i - 1 \in 1 .. Len(toSystem') /\ (i - 1) + 1 = i
      BY <1>5, <2>1, <2>3 DEF Taken
    <3> QED BY <2>2, <3>1
  <2> QED BY <1>4, <1>5, <2>1, <2>2, <2>3 DEF Posts, Says
<1>7. p \in 1 .. Len(posts) /\ posts[p].to = n /\ posts[p].async \in BOOLEAN /\ p \in Nat /\ p >= 1
  <2>1. p \in 1 .. Len(posts) /\ posts[p].to = n
    BY <1>1, <1>4, <1>5, <1>6 DEF PostsKnown
  <2>2. posts[p] \in [to : Peer, async : BOOLEAN, behind : BOOLEAN]
    BY <1>1, <2>1, ElementOfSeq
  <2> QED BY <2>1, <2>2
<1>8. /\ UNCHANGED <<peer, posts, answers, ignored, waitingPosts>>
      /\ n \in peerMap <=> peer[n] = "running"
  BY <1>5 DEF MainPost, SystemTakes, SamePosts, ProxiesInv, PeerMadeOnce
<1>9. \/ /\ peer[n] = "running"
         /\ peerInbox' = [peerInbox EXCEPT ![n] = Append(peerInbox[n], p)]
         /\ listeners' = IF posts[p].async THEN listeners ELSE listeners \cup {p}
      \/ looping' = FALSE /\ UNCHANGED peerInbox /\ listeners' \subseteq listeners \cup {p}
  BY <1>2, <1>3, <1>4, <1>8 DEF MainPost, Throws
<1>10. \A i \in 1 .. Len(toSystem') : toSystem'[i].op = "postMessageWorker" =>
         toSystem'[i].post \in 1 .. Len(posts) /\ posts[toSystem'[i].post].to = toSystem'[i].of
  <2> TAKE i \in 1 .. Len(toSystem')
  <2>1. i + 1 \in 1 .. Len(toSystem) /\ toSystem'[i] = toSystem[i + 1]
    BY <1>6
  <2> QED BY <1>1, <2>1 DEF PostsKnown
(* What is left in the queue, with its order.                              *)
<1>11. ASSUME NEW q, NEW i \in 1 .. Len(toSystem'), Posts(i, q)'
       PROVE  /\ i + 1 \in 1 .. Len(toSystem) /\ Posts(i + 1, q)
              /\ 1 \in 1 .. (i + 1) - 1
              /\ \A j \in 1 .. i - 1 : j + 1 \in 1 .. (i + 1) - 1 /\ toSystem'[j] = toSystem[j + 1]
  <2>1. Posts(i + 1, q) /\ i + 1 \in 1 .. Len(toSystem)
    BY <1>6, <1>11 DEF Posts
  <2>2. Len(toSystem') \in Nat
    BY <1>5 DEF Taken
  <2>3. \A j \in 1 .. i - 1 : j + 1 \in 1 .. (i + 1) - 1 /\ j \in 1 .. Len(toSystem')
    BY <2>2
  <2> QED BY <1>6, <2>1, <2>3
<1>12. ASSUME NEW q \in 1 .. Len(posts)
       PROVE  posts[q].behind = FALSE /\ q \notin ignored =>
                \A i \in 1 .. Len(toSystem') : Posts(i, q)' =>
                  /\ posts[q].to # n /\ peerInbox[posts[q].to] = <<>>
                  /\ \A j \in 1 .. i - 1 : ~ Says(j, "postMessageWorker", posts[q].to)'
  <2> SUFFICES ASSUME posts[q].behind = FALSE, q \notin ignored,
                      NEW i \in 1 .. Len(toSystem'), Posts(i, q)'
               PROVE  /\ posts[q].to # n /\ peerInbox[posts[q].to] = <<>>
                      /\ \A j \in 1 .. i - 1 : ~ Says(j, "postMessageWorker", posts[q].to)'
    OBVIOUS
  <2>1. /\ peerInbox[posts[q].to] = <<>>
        /\ \A j \in 1 .. (i + 1) - 1 : ~ Says(j, "postMessageWorker", posts[q].to)
    BY <1>11 DEF PostsInv, FirstInLine
  <2>2. posts[q].to # n
    BY <1>6, <1>11, <2>1
  <2>3. ASSUME NEW j \in 1 .. i - 1 PROVE ~ Says(j, "postMessageWorker", posts[q].to)'
    BY <1>8, <1>11, <2>1 DEF Says
  <2> QED BY <2>1, <2>2, <2>3
<1>13. ASSUME NEW q \in 1 .. Len(posts)
       PROVE  \A i \in 1 .. Len(toSystem) : Posts(i, q) =>
                q = p \/ \E j \in 1 .. Len(toSystem') : Posts(j, q)'
  <2> SUFFICES ASSUME NEW i \in 1 .. Len(toSystem), Posts(i, q), q # p
               PROVE  \E j \in 1 .. Len(toSystem') : Posts(j, q)'
    OBVIOUS
  <2>1. i # 1
    BY <1>4, <1>6 DEF Posts
  <2>2. PICK j \in 1 .. Len(toSystem') : toSystem'[j] = toSystem[i]
    BY <1>6, <2>1
  <2>3. Posts(j, q)'
    BY <2>2 DEF Posts
  <2> QED BY <2>3
<1>14. CASE looping' = FALSE /\ UNCHANGED peerInbox /\ listeners' \subseteq listeners \cup {p}
  <2>1. PostsKnown'
    BY <1>1, <1>7, <1>8, <1>10, <1>14 DEF PostsKnown
  <2>2. ASSUME NEW q \in 1 .. Len(posts) PROVE FirstInLine(q)' /\ NotForgotten(q)'
    <3>1. FirstInLine(q)
      BY DEF PostsInv
    <3>2. FirstInLine(q)'
      <4>1. CASE q = p
        <5>1. posts[p].behind = FALSE /\ p \notin ignored => peerInbox[posts[p].to] = <<>>
          BY <1>6, <3>1, <4>1 DEF FirstInLine
        <5> QED BY <1>8, <1>12, <1>14, <3>1, <4>1, <5>1 DEF FirstInLine, Says
      <4>2. CASE q # p
        BY <1>8, <1>12, <1>14, <3>1, <4>2 DEF FirstInLine, Says
      <4> QED BY <4>1, <4>2
    <3> QED BY <1>14, <3>2 DEF NotForgotten
  <2> QED BY <1>8, <2>1, <2>2 DEF PostsInv
<1>15. CASE /\ peer[n] = "running"
            /\ peerInbox' = [peerInbox EXCEPT ![n] = Append(peerInbox[n], p)]
            /\ listeners' = IF posts[p].async THEN listeners ELSE listeners \cup {p}
  <2>1. /\ peerInbox[n] \in Seq(Nat) /\ peerInbox'[n] = Append(peerInbox[n], p)
        /\ \A w \in Peer : w # n => peerInbox'[w] = peerInbox[w]
        /\ peerInbox' \in [Peer -> Seq(Nat)]
    <3>1. Append(peerInbox[n], p) \in Seq(Nat) /\ peerInbox[n] \in Seq(Nat)
      BY <1>1, <1>5, <1>7
    <3> QED BY <1>1, <1>5, <1>15, <3>1
  <2>2. /\ Len(peerInbox'[n]) = Len(peerInbox[n]) + 1 /\ Len(peerInbox[n]) \in Nat
        /\ \A k \in 1 .. Len(peerInbox[n]) : k \in 1 .. Len(peerInbox'[n]) /\ peerInbox'[n][k] = peerInbox[n][k]
        /\ Len(peerInbox[n]) + 1 \in 1 .. Len(peerInbox'[n])
        /\ peerInbox'[n][Len(peerInbox[n]) + 1] = p
        /\ \A k \in 1 .. Len(peerInbox'[n]) : k \in 1 .. Len(peerInbox[n]) \/ peerInbox'[n][k] = p
        /\ peerInbox'[n] # <<>>
        /\ peerInbox[n] = <<>> => peerInbox'[n][1] = p
        /\ peerInbox[n] # <<>> => peerInbox'[n][1] = peerInbox[n][1]
    <3> DEFINE b0 == peerInbox[n]
               b1 == peerInbox'[n]
    <3>1. b0 \in Seq(Nat) /\ b1 = Append(b0, p) /\ p \in Nat
      BY <1>7, <2>1
    <3> HIDE DEF b0, b1
    <3>2. /\ Len(b1) = Len(b0) + 1 /\ Len(b0) \in Nat /\ b1[Len(b0) + 1] = p
          /\ \A k \in 1 .. Len(b0) : b1[k] = b0[k]
          /\ b0 = <<>> <=> Len(b0) = 0
          /\ b1 # <<>>
      BY <3>1
    <3>3. /\ \A k \in 1 .. Len(b0) : k \in 1 .. Len(b1)
          /\ \A k \in 1 .. Len(b1) : k \in 1 .. Len(b0) \/ k = Len(b0) + 1
          /\ Len(b0) + 1 \in 1 .. Len(b1)
          /\ Len(b0) # 0 => 1 \in 1 .. Len(b0)
      BY <3>2
    <3> QED BY <3>2, <3>3 DEF b0, b1
  <2>3. ASSUME NEW w \in Peer
        PROVE  /\ \A k \in 1 .. Len(peerInbox'[w]) : peerInbox'[w][k] \in 1 .. Len(posts)
               /\ peerInbox'[w] # <<>> => peer[w] = "running"
    <3>1. CASE w = n
      <4>1. \A k \in 1 .. Len(peerInbox'[n]) : peerInbox'[n][k] \in 1 .. Len(posts)
        BY <1>1, <1>5, <1>7, <2>2 DEF PostsKnown
      <4> QED BY <1>15, <3>1, <4>1
    <3>2. CASE w # n
      BY <1>1, <2>1, <3>2 DEF PostsKnown
    <3> QED BY <3>1, <3>2
  <2>4. listeners' \subseteq 1 .. Len(posts)
    BY <1>1, <1>7, <1>15 DEF PostsKnown
  <2>5. PostsKnown'
    BY <1>1, <1>8, <1>10, <2>1, <2>3, <2>4 DEF PostsKnown
  <2>6. ASSUME NEW q \in 1 .. Len(posts) PROVE FirstInLine(q)'
    <3>1. FirstInLine(q) /\ posts[q].to \in Peer
      <4>1. posts[q] \in [to : Peer, async : BOOLEAN, behind : BOOLEAN]
        BY <1>1, ElementOfSeq
      <4> QED BY <4>1 DEF PostsInv
    <3> SUFFICES ASSUME posts[q].behind = FALSE, q \notin ignored
                 PROVE  /\ answers[q] \in {NoPost, q}
                        /\ \A i \in 1 .. Len(toSystem') : Posts(i, q)' =>
                             /\ peerInbox'[posts[q].to] = <<>>
                             /\ \A j \in 1 .. i - 1 : ~ Says(j, "postMessageWorker", posts[q].to)'
                        /\ q \in listeners' =>
                             \/ peer[posts[q].to] \in {"ended", "failed"}
                             \/ peerInbox'[posts[q].to] # <<>> /\ peerInbox'[posts[q].to][1] = q
                             \/ peerInbox'[posts[q].to] = <<>> /\ looping' = FALSE
      BY <1>8 DEF FirstInLine, Says
    <3>2. answers[q] \in {NoPost, q}
      BY <3>1 DEF FirstInLine
    <3>3. \A i \in 1 .. Len(toSystem') : Posts(i, q)' =>
            /\ peerInbox'[posts[q].to] = <<>>
            /\ \A j \in 1 .. i - 1 : ~ Says(j, "postMessageWorker", posts[q].to)'
      BY <1>12, <2>1, <3>1
    <3>4. CASE q = p
      <4>1. peerInbox[n] = <<>>
        BY <1>6, <1>7, <3>1, <3>4 DEF FirstInLine
      <4> QED BY <1>7, <2>2, <3>2, <3>3, <3>4, <4>1
    <3>5. CASE q # p
      <4>1. q \in listeners' => q \in listeners
        BY <1>15, <3>5
      <4>2. q \in listeners => \/ peer[posts[q].to] \in {"ended", "failed"}
                               \/ peerInbox[posts[q].to] # <<>> /\ peerInbox[posts[q].to][1] = q
                               \/ peerInbox[posts[q].to] = <<>> /\ looping = FALSE
        BY <3>1 DEF FirstInLine
      <4>3. looping # FALSE
        BY DEF MainPost, SystemTakes
      <4>4. q \in listeners' => \/ peer[posts[q].to] \in {"ended", "failed"}
                                \/ peerInbox'[posts[q].to] # <<>> /\ peerInbox'[posts[q].to][1] = q
        <5>1. CASE posts[q].to = n
          BY <2>2, <4>1, <4>2, <4>3, <5>1
        <5>2. CASE posts[q].to # n
          BY <2>1, <3>1, <4>1, <4>2, <4>3, <5>2
        <5> QED BY <5>1, <5>2
      <4> QED BY <3>2, <3>3, <4>4
    <3> QED BY <3>4, <3>5
  <2>7. ASSUME NEW q \in 1 .. Len(posts) PROVE NotForgotten(q)'
    <3>1. NotForgotten(q) /\ posts[q].to \in Peer
      <4>1. posts[q] \in [to : Peer, async : BOOLEAN, behind : BOOLEAN]
        BY <1>1, ElementOfSeq
      <4> QED BY <4>1 DEF PostsInv
    <3> SUFFICES ASSUME posts[q].async = FALSE
                 PROVE  \/ answers[q] # NoPost \/ q \in ignored \/ looping' = FALSE
                        \/ peer[posts[q].to] \in {"ended", "failed"}
                        \/ \E i \in 1 .. Len(toSystem') : Posts(i, q)'
                        \/ /\ q \in listeners'
                           /\ \E k \in 1 .. Len(peerInbox'[posts[q].to]) : peerInbox'[posts[q].to][k] = q
      BY <1>8 DEF NotForgotten
    <3>2. CASE q = p
      <4>1. p \in listeners'
        BY <1>15, <3>2
      <4> QED BY <1>7, <2>2, <3>2, <4>1
    <3>3. CASE q # p
      <4>1. q \in listeners => q \in listeners'
        BY <1>15
      <4>2. looping = TRUE
        BY DEF MainPost, SystemTakes
      <4>3. (\E k \in 1 .. Len(peerInbox[posts[q].to]) : peerInbox[posts[q].to][k] = q) =>
              \E k \in 1 .. Len(peerInbox'[posts[q].to]) : peerInbox'[posts[q].to][k] = q
        BY <2>1, <2>2, <3>1
      <4>4. (\E i \in 1 .. Len(toSystem) : Posts(i, q)) => \E i \in 1 .. Len(toSystem') : Posts(i, q)'
        BY <1>13, <3>3
      <4> QED BY <3>1, <4>1, <4>2, <4>3, <4>4 DEF NotForgotten
    <3> QED BY <3>2, <3>3
  <2> QED BY <1>8, <2>5, <2>6, <2>7 DEF PostsInv
<1> QED BY <1>9, <1>14, <1>15

(* A worker takes a post.                                                  *)
LEMMA PostsTaken ==
    ASSUME ProxiesInv, PostsInv, NEW n \in Peer, NEW b \in BOOLEAN, PeerAnswers(n) \/ PeerIgnores(n, b)
    PROVE  PostsInv'
<1>1. /\ PostsKnown /\ posts \in Seq([to : Peer, async : BOOLEAN, behind : BOOLEAN])
      /\ peerInbox \in [Peer -> Seq(Nat)]
  BY DEF ProxiesInv, ProxiesTypes, PostsInv, PostsKnown
<1>2. /\ UNCHANGED <<looping, toSystem, peer, posts, waitingPosts>>
      /\ peer[n] = "running" /\ peerInbox[n] # <<>>
      /\ peerInbox' = [peerInbox EXCEPT ![n] = Tail(peerInbox[n])]
  BY DEF PeerAnswers, PeerIgnores, PeerTakes, OutsideOnly
<1>3. PICK h : h = peerInbox[n][1]
  OBVIOUS
<1>4. /\ peerInbox' \in [Peer -> Seq(Nat)]
      /\ \A w \in Peer : w # n => peerInbox'[w] = peerInbox[w]
      /\ peerInbox'[n] = Tail(peerInbox[n]) /\ peerInbox[n] \in Seq(Nat)
  <2>1. Tail(peerInbox[n]) \in Seq(Nat) /\ peerInbox[n] \in Seq(Nat)
    BY <1>1, <1>2
  <2> QED BY <1>1, <1>2, <2>1
<1>5. /\ Head(peerInbox[n]) = h /\ 1 \in 1 .. Len(peerInbox[n])
      /\ \A k \in 1 .. Len(peerInbox'[n]) :
           k + 1 \in 1 .. Len(peerInbox[n]) /\ peerInbox'[n][k] = peerInbox[n][k + 1]
      /\ \A k \in 1 .. Len(peerInbox[n]) :
           k = 1 \/ (k - 1 \in 1 .. Len(peerInbox'[n]) /\ peerInbox'[n][k - 1] = peerInbox[n][k])
  <2> DEFINE s == peerInbox[n]
  <2>1. s \in Seq(Nat) /\ s # <<>>
    BY <1>2, <1>4
  <2> HIDE DEF s
  <2>2. Len(s) \in Nat /\ Len(s) >= 1 /\ Len(Tail(s)) = Len(s) - 1 /\ Head(s) = s[1]
        /\ \A k \in 1 .. Len(Tail(s)) : Tail(s)[k] = s[k + 1]
    BY <2>1
  <2>3. \A k \in 1 .. Len(Tail(s)) : k + 1 \in 1 .. Len(s)
    BY <2>2
  <2>4. ASSUME NEW k \in 1 .. Len(s), k # 1
        PROVE  k - 1 \in 1 .. Len(Tail(s)) /\ Tail(s)[k - 1] = s[k]
    <3>1. k - 1 \in 1 .. Len(Tail(s)) /\ (k - 1) + 1 = k
      BY <2>2, <2>4
    <3> QED BY <2>2, <3>1
  <2>5. 1 \in 1 .. Len(s)
    BY <2>2
  <2> QED BY <1>3, <1>4, <2>2, <2>3, <2>4, <2>5 DEF s
<1>6. h \in 1 .. Len(posts) /\ h # NoPost /\ h \in Nat
  <2>1. h \in 1 .. Len(posts)
    BY <1>1, <1>3, <1>5 DEF PostsKnown
  <2> QED BY <2>1 DEF NoPost
<1>7. \A q \in 1 .. Len(posts) : q \in PostId /\ posts[q].to \in Peer
  <2> TAKE q \in 1 .. Len(posts)
  <2>1. Len(posts) \in Nat /\ Len(posts) <= MaxPosts
    BY <1>1 DEF PostsKnown
  <2>2. q \in PostId
    BY <2>1, ProxiesAssumption DEF PostId
  <2>3. posts[q] \in [to : Peer, async : BOOLEAN, behind : BOOLEAN]
    BY <1>1, ElementOfSeq
  <2> QED BY <2>2, <2>3
<1>8. /\ listeners' \subseteq listeners /\ ignored \subseteq ignored'
      /\ answers' \in [PostId -> Nat]
      /\ \A q \in PostId : \/ answers'[q] = answers[q]
                           \/ answers'[q] = h /\ q \in listeners /\ posts[q].to = n
      /\ \A q \in PostId : q \in listeners =>
           \/ posts[q].to # n /\ q \in listeners'
           \/ posts[q].to = n /\ answers'[q] = h /\ q \notin listeners'
           \/ q \in listeners' /\ h \in ignored'
  <2>0. answers \in [PostId -> Nat]
    BY <1>1 DEF PostsKnown
  <2>1. CASE PeerAnswers(n)
    <3> DEFINE done == {q \in listeners : posts[q].to = n}
    <3>1. /\ answers' = [q \in PostId |-> IF q \in done THEN h ELSE answers[q]]
          /\ listeners' = listeners \ done /\ ignored' = ignored
      BY <1>5, <2>1 DEF PeerAnswers, StopListening
    <3>2. \A q : q \in done <=> q \in listeners /\ posts[q].to = n
      OBVIOUS
    <3> HIDE DEF done
    <3> QED BY <1>6, <2>0, <3>1, <3>2
  <2>2. CASE PeerIgnores(n, b)
    BY <1>5, <2>0, <2>2 DEF PeerIgnores
  <2> QED BY <2>1, <2>2
<1>9. PostsKnown'
  <2>1. ASSUME NEW w \in Peer
        PROVE  /\ \A k \in 1 .. Len(peerInbox'[w]) : peerInbox'[w][k] \in 1 .. Len(posts)
               /\ peerInbox'[w] # <<>> => peer[w] = "running"
    <3>1. CASE w = n
      BY <1>1, <1>2, <1>5, <3>1 DEF PostsKnown
    <3>2. CASE w # n
      BY <1>1, <1>4, <3>2 DEF PostsKnown
    <3> QED BY <3>1, <3>2
  <2>2. \A q \in PostId : answers'[q] # NoPost => q \in 1 .. Len(posts)
    BY <1>1, <1>8 DEF PostsKnown
  <2>3. /\ toSystem' = toSystem /\ posts' = posts /\ peer' = peer /\ waitingPosts' = waitingPosts
        /\ listeners' \subseteq 1 .. Len(posts)
    BY <1>1, <1>2, <1>8 DEF PostsKnown
  <2> QED BY <1>1, <1>4, <1>8, <2>1, <2>2, <2>3 DEF PostsKnown
<1>10. ASSUME NEW q \in 1 .. Len(posts) PROVE FirstInLine(q)' /\ NotForgotten(q)'
  <2>1. FirstInLine(q) /\ NotForgotten(q) /\ q \in PostId /\ posts[q].to \in Peer
    BY <1>7 DEF PostsInv
  <2>2. posts[q].behind = FALSE /\ q \notin ignored' /\ q \in listeners =>
          \/ posts[q].to # n
          \/ posts[q].to = n /\ h = q
    BY <1>2, <1>3, <1>8, <2>1 DEF FirstInLine
  <2>3. FirstInLine(q)'
    <3> SUFFICES ASSUME posts[q].behind = FALSE, q \notin ignored'
                 PROVE  /\ answers'[q] \in {NoPost, q}
                        /\ \A i \in 1 .. Len(toSystem) : Posts(i, q) =>
                             /\ peerInbox'[posts[q].to] = <<>>
                             /\ \A j \in 1 .. i - 1 : ~ Says(j, "postMessageWorker", posts[q].to)
                        /\ q \in listeners' =>
                             \/ peer[posts[q].to] \in {"ended", "failed"}
                             \/ peerInbox'[posts[q].to] # <<>> /\ peerInbox'[posts[q].to][1] = q
                             \/ peerInbox'[posts[q].to] = <<>> /\ looping' = FALSE
      BY <1>2 DEF FirstInLine, Posts, Says
    <3>1. q \notin ignored
      BY <1>8
    <3>2. answers'[q] \in {NoPost, q}
      BY <1>8, <2>1, <2>2, <3>1 DEF FirstInLine
    <3>3. \A i \in 1 .. Len(toSystem) : Posts(i, q) =>
            /\ peerInbox'[posts[q].to] = <<>>
            /\ \A j \in 1 .. i - 1 : ~ Says(j, "postMessageWorker", posts[q].to)
      BY <1>2, <1>4, <2>1, <3>1 DEF FirstInLine
    <3>4. ASSUME q \in listeners'
          PROVE  \/ peer[posts[q].to] \in {"ended", "failed"}
                 \/ peerInbox'[posts[q].to] # <<>> /\ peerInbox'[posts[q].to][1] = q
                 \/ peerInbox'[posts[q].to] = <<>> /\ looping = FALSE
      <4>1. q \in listeners
        BY <1>8, <3>4
      <4>2. posts[q].to # n
        BY <1>8, <2>1, <2>2, <3>4, <4>1
      <4> QED BY <1>4, <2>1, <3>1, <4>1, <4>2 DEF FirstInLine
    <3> QED BY <1>2, <3>2, <3>3, <3>4
  <2>4. NotForgotten(q)'
    <3> SUFFICES ASSUME posts[q].async = FALSE
                 PROVE  \/ answers'[q] # NoPost \/ q \in ignored' \/ looping = FALSE
                        \/ peer[posts[q].to] \in {"ended", "failed"}
                        \/ \E i \in 1 .. Len(toSystem) : Posts(i, q)
                        \/ /\ q \in listeners'
                           /\ \E k \in 1 .. Len(peerInbox'[posts[q].to]) : peerInbox'[posts[q].to][k] = q
      BY <1>2 DEF NotForgotten, Posts
    <3>1. answers[q] # NoPost => answers'[q] # NoPost
      BY <1>6, <1>8, <2>1
    <3>2. ASSUME q \in listeners, NEW k \in 1 .. Len(peerInbox[posts[q].to]), peerInbox[posts[q].to][k] = q
          PROVE  \/ answers'[q] # NoPost \/ q \in ignored'
                 \/ /\ q \in listeners'
                    /\ \E l \in 1 .. Len(peerInbox'[posts[q].to]) : peerInbox'[posts[q].to][l] = q
      <4>1. CASE posts[q].to # n
        BY <1>4, <1>8, <2>1, <3>2, <4>1
      <4>2. CASE posts[q].to = n /\ k = 1
        <5>1. q = h
          BY <1>3, <3>2, <4>2
        <5> QED BY <1>6, <1>8, <2>1, <3>2, <4>2, <5>1
      <4>3. CASE posts[q].to = n /\ k # 1
        <5>1. k - 1 \in 1 .. Len(peerInbox'[n]) /\ peerInbox'[n][k - 1] = q
          BY <1>5, <3>2, <4>3
        <5> QED BY <1>6, <1>8, <2>1, <3>2, <4>3, <5>1
      <4> QED BY <4>1, <4>2, <4>3
    <3> QED BY <1>8, <2>1, <3>1, <3>2 DEF NotForgotten
  <2> QED BY <2>3, <2>4
<1> QED BY <1>2, <1>9, <1>10 DEF PostsInv

LEMMA PostsInit == ASSUME ProxiesInit PROVE PostsInv
<1>1. /\ toSystem = <<>> /\ posts = <<>> /\ Len(toSystem) = 0 /\ Len(posts) = 0
      /\ waitingPosts = <<>> /\ Len(waitingPosts) = 0 /\ listeners = {} /\ 1 .. 0 = {}
      /\ <<>> \in Seq(Nat)
  BY DEF ProxiesInit
<1>2. answers \in [PostId -> Nat] /\ \A p \in PostId : answers[p] = NoPost
  BY DEF ProxiesInit, NoPost
<1>3. peerInbox \in [Peer -> Seq(Nat)] /\ \A w \in Peer : peerInbox[w] = <<>> /\ Len(peerInbox[w]) = 0
  BY <1>1 DEF ProxiesInit
<1> QED BY <1>1, <1>2, <1>3, ProxiesAssumption DEF PostsInv, PostsKnown

LEMMA PostsNext == ASSUME ProxiesInv, PostsInv, [ProxiesNext]_proxyVars PROVE PostsInv'
<1>1. CASE \/ PostReturns \/ ListenerReturns \/ HandleEvent \/ UNCHANGED proxyVars
           \/ \E s \in Socket : SocketOpens(s) \/ SocketCloses(s) \/ SocketFails(s) \/ SocketReceives(s)
  BY <1>1, PostsQuiet
<1>2. CASE \/ MainSend \/ MainTerminate \/ \E b \in BOOLEAN : MainNewSocket(b) \/ MainClose(b)
           \/ \E o \in {"loaded", "refused", "unreachable"} : MainNewPeer(o)
  BY <1>2, PostsMain
<1>3. CASE \E b \in BOOLEAN : MainPost(b)
  BY <1>3, PostsDelivered
<1>4. CASE \/ \E s \in Socket : NewSocket(s) \/ SendData(s) \/ CloseSocket(s)
           \/ \E w \in Peer : NewPeer(w) \/ TerminatePeer(w)
  BY <1>4, PostsScript
<1>5. ASSUME NEW w \in Peer, NEW b \in BOOLEAN, PostToPeer(w, b) \/ PeerAnswers(w) \/ PeerIgnores(w, b)
      PROVE  PostsInv'
  BY <1>5, PostsMade, PostsTaken
<1>6. TRUE \in BOOLEAN
  OBVIOUS
<1> QED BY <1>1, <1>2, <1>3, <1>4, <1>5, <1>6 DEF ProxiesNext

(* For any workers and bounds, the answer to a synchronous post is the one *)
(* to that post, if no earlier post to the worker was under way and the    *)
(* worker gave one; and once nothing is under way, the innermost post that *)
(* waits has an answer, unless its worker gave none or has ended.          *)
THEOREM PostsReturn == ProxiesSpec => []SyncPostReturns
<1>1. ProxiesSpec => []PostsInv
  <2>1. ProxiesInv /\ PostsInv /\ [ProxiesNext]_proxyVars => PostsInv'
    BY PostsNext
  <2> QED BY <2>1, PostsInit, ProxiesInvariant, PTL DEF ProxiesSpec
<1>2. ProxiesTypes /\ PostsInv => SyncPostReturns
  <2> SUFFICES ASSUME ProxiesTypes, PostsInv PROVE SyncPostReturns
    OBVIOUS
  <2>0. posts \in Seq([to : Peer, async : BOOLEAN, behind : BOOLEAN])
    BY DEF ProxiesTypes
  <2>1. ASSUME NEW p \in DOMAIN posts
        PROVE  posts[p].behind \/ p \in ignored \/ answers[p] \in {NoPost, p}
    <3>1. p \in 1 .. Len(posts)
      BY <2>0
    <3>2. posts[p] \in [to : Peer, async : BOOLEAN, behind : BOOLEAN]
      BY <2>0, <3>1, ElementOfSeq
    <3>3. FirstInLine(p) /\ posts[p].behind \in BOOLEAN
      BY <3>1, <3>2 DEF PostsInv
    <3> QED BY <3>3 DEF FirstInLine
  <2>2. ASSUME ProxiesIdle, waitingPosts # <<>>, NEW p, p = Last(waitingPosts)
        PROVE  answers[p] # NoPost \/ p \in ignored \/ peer[posts[p].to] # "running"
    <3>1. waitingPosts \in Seq(Nat)
      BY DEF PostsInv, PostsKnown
    <3>2. Len(waitingPosts) \in 1 .. Len(waitingPosts) /\ p = waitingPosts[Len(waitingPosts)]
      BY <2>2, <3>1 DEF Last
    <3>3. p \in 1 .. Len(posts) /\ posts[p].async = FALSE
      BY <3>2 DEF PostsInv, PostsKnown
    <3>4. posts[p].to \in Peer
      <4>1. posts[p] \in [to : Peer, async : BOOLEAN, behind : BOOLEAN]
        BY <2>0, <3>3, ElementOfSeq
      <4> QED BY <4>1
    <3>5. /\ looping # FALSE /\ Len(toSystem) = 0 /\ Len(peerInbox[posts[p].to]) = 0 /\ 1 .. 0 = {}
      BY <2>2, <3>4 DEF ProxiesIdle
    <3>6. NotForgotten(p)
      BY <3>3 DEF PostsInv
    <3> QED BY <3>3, <3>5, <3>6 DEF NotForgotten
  <2> QED BY <2>1, <2>2 DEF SyncPostReturns
<1>3. ProxiesInv => ProxiesTypes
  BY DEF ProxiesInv
<1> QED BY <1>1, <1>2, <1>3, ProxiesInvariant, PTL
====
