---- MODULE Proxies ----
(***************************************************************************)
(* WebSockets and Workers that JavaScript on the R worker uses by proxy    *)
(* (src/webR/chan/proxy-websocket.ts, proxy-worker.ts), over the shared    *)
(* buffer channel, in a browser.                                           *)
(*                                                                         *)
(* A proxy on the R worker writes system messages, which the main thread   *)
(* takes in order (webr-main.ts) and applies to the real object it keeps   *)
(* in a map; what happens to the real object is emitted as an event, which *)
(* the R worker takes in order when it polls (handleEvents() of            *)
(* channel-shared.ts).  A synchronous postMessage() blocks the R worker    *)
(* until the other worker has answered; events are taken while it waits,   *)
(* and their listeners may use proxies again.  SharedChannel models the    *)
(* transport of both.                                                      *)
(***************************************************************************)
EXTENDS Integers, Sequences, FiniteSets, SequencesExt, FiniteSetsExt

CONSTANTS
    Socket,      \* WebSocket proxies JavaScript may make
    Peer,        \* Worker proxies JavaScript may make
    MaxSends,    \* bound on the data sent through each socket, and received
    MaxPosts,    \* bound on the messages posted to workers
    MaxSystem    \* bound on the system messages

ASSUME ProxiesAssumption == MaxSends \in Nat /\ MaxPosts \in Nat /\ MaxSystem \in Nat

VARIABLES
    looping,      \* the loop over system messages has not thrown
    toSystem,     \* system messages
    systemTotal,  \* history: number of them so far
    events,       \* eventQueue
    socket,       \* the real sockets
    socketMap,    \* those in the map of the main thread
    socketProxy,  \* readyState of each proxy
    heard,        \* history: events each proxy has dispatched
    sentData,     \* history: number of data sent through each proxy
    arrivedData,  \* history: number of data each real socket was given
    peer,         \* the real workers
    peerMap,      \* those in the map of the main thread
    peerInbox,    \* posts each worker has not taken yet
    listeners,    \* posts whose answers the main thread listens for
    waitingPosts, \* synchronous posts that wait on the R worker, innermost last
    listening,    \* an event listener runs while they wait
    answers,      \* what each synchronous post was answered with
    posts,        \* history: the posts made
    ignored,      \* history: posts that were taken without an answer
    excused       \* history: JavaScript misused a proxy, or a worker failed to load,
                  \* or the browser refused an argument

proxySocketVars == <<socket, socketMap, socketProxy, heard, sentData, arrivedData>>
proxyPeerVars == <<peer, peerMap, peerInbox, listeners, waitingPosts, listening, answers, posts, ignored>>
proxyVars == <<looping, toSystem, systemTotal, events, proxySocketVars, proxyPeerVars, excused>>

PostId == 1 .. MaxPosts
NoPost == 0

ProxiesInit ==
    /\ looping = TRUE /\ toSystem = <<>> /\ systemTotal = 0 /\ events = <<>>
    /\ socket = [s \in Socket |-> "none"] /\ socketMap = {}
    /\ socketProxy = [s \in Socket |-> "none"]
    /\ heard = [s \in Socket |-> <<>>]
    /\ sentData = [s \in Socket |-> 0] /\ arrivedData = [s \in Socket |-> 0]
    /\ peer = [w \in Peer |-> "none"] /\ peerMap = {}
    /\ peerInbox = [w \in Peer |-> <<>>] /\ listeners = {}
    /\ waitingPosts = <<>> /\ listening = FALSE
    /\ answers = [p \in PostId |-> NoPost]
    /\ posts = <<>> /\ ignored = {} /\ excused = FALSE

SystemPut(m) ==
    /\ systemTotal < MaxSystem /\ systemTotal' = systemTotal + 1
    /\ toSystem' = Append(toSystem, m)
Written(op, x) == \E i \in DOMAIN toSystem : toSystem[i].op = op /\ toSystem[i].of = x

-----------------------------------------------------------------------------
(* JavaScript on the R worker.                                             *)

Scripting == waitingPosts = <<>> \/ listening
ScriptOnly == UNCHANGED <<looping, events, socket, socketMap, arrivedData, peer, peerMap, peerInbox,
                          listeners, ignored>>
SamePosts == UNCHANGED <<waitingPosts, listening, answers, posts>>
SameSockets == UNCHANGED <<socketProxy, heard, sentData>>
Excuse(when) == excused' = (excused \/ when)

NewSocket(s) ==
    /\ Scripting /\ socketProxy[s] = "none"
    /\ socketProxy' = [socketProxy EXCEPT ![s] = "connecting"]
    /\ SystemPut([op |-> "proxyWebSocket", of |-> s])
    /\ ScriptOnly /\ SamePosts /\ UNCHANGED <<heard, sentData, excused>>

(* send(): the proxy does not test that it is open. *)
SendData(s) ==
    /\ Scripting /\ socketProxy[s] # "none" /\ sentData[s] < MaxSends
    /\ sentData' = [sentData EXCEPT ![s] = @ + 1]
    /\ SystemPut([op |-> "sendWebSocket", of |-> s])
    /\ Excuse(socketProxy[s] = "connecting")
    /\ ScriptOnly /\ SamePosts /\ UNCHANGED <<socketProxy, heard>>

CloseSocket(s) ==
    /\ Scripting /\ socketProxy[s] # "none"
    /\ SystemPut([op |-> "closeWebSocket", of |-> s])
    /\ ScriptOnly /\ SamePosts /\ SameSockets /\ UNCHANGED excused

Made(w) == peer[w] # "none" \/ Written("proxyWorker", w)

NewPeer(w) ==
    /\ Scripting /\ ~ Made(w)
    /\ SystemPut([op |-> "proxyWorker", of |-> w])
    /\ ScriptOnly /\ SamePosts /\ SameSockets /\ UNCHANGED excused

(* postMessage(): it waits for the other worker unless it is asynchronous. *)
(* `behind' tells that an earlier post to the worker has no answer yet.    *)
PostToPeer(w, async) ==
    /\ Scripting /\ Len(posts) < MaxPosts /\ Made(w)
    /\ LET p == Len(posts) + 1
           behind == Written("postMessageWorker", w) \/ peerInbox[w] # <<>>
       IN  /\ posts' = Append(posts, [to |-> w, async |-> async, behind |-> behind])
           /\ SystemPut([op |-> "postMessageWorker", of |-> w, post |-> p])
           /\ waitingPosts' = IF async THEN waitingPosts ELSE Append(waitingPosts, p)
           /\ listening' = (listening /\ async)
    /\ Excuse(peer[w] = "ended" \/ Written("terminateWorker", w))
    /\ ScriptOnly /\ SameSockets /\ UNCHANGED answers

TerminatePeer(w) ==
    /\ Scripting /\ Made(w)
    /\ SystemPut([op |-> "terminateWorker", of |-> w])
    /\ ScriptOnly /\ SamePosts /\ SameSockets /\ UNCHANGED excused

(* The innermost post that waits returns, to the listener that made it if  *)
(* another one waits.                                                      *)
PostReturns ==
    /\ waitingPosts # <<>> /\ ~ listening /\ answers[Last(waitingPosts)] # NoPost
    /\ waitingPosts' = Front(waitingPosts)
    /\ listening' = (Len(waitingPosts) > 1)
    /\ ScriptOnly /\ SameSockets /\ UNCHANGED <<toSystem, systemTotal, answers, posts, excused>>

ListenerReturns ==
    /\ listening /\ listening' = FALSE
    /\ ScriptOnly /\ SameSockets /\ UNCHANGED <<toSystem, systemTotal, waitingPosts, answers, posts, excused>>

(* Broken variant: events are taken from the wrong end. *)
NewestEvent == Len(events)
OldestEvent == 1

(* handleEvents(), one event.  The proxy of a socket that has closed is    *)
(* forgotten; its readyState stays as it is.                               *)
HandleEvent ==
    /\ ~ listening /\ events # <<>>
    /\ events' = RemoveAt(events, OldestEvent)
    /\ listening' = (waitingPosts # <<>>)
    /\ LET e == events[OldestEvent]
           known == e.kind # "worker" /\ ~ \E i \in DOMAIN heard[e.of] : heard[e.of][i] = "close"
           accepted == known /\ e.kind = "open" /\ socketProxy[e.of] = "connecting"
       IN  /\ heard' = IF known /\ (e.kind = "open" => accepted)
                       THEN [heard EXCEPT ![e.of] = Append(@, e.kind)] ELSE heard
           /\ socketProxy' = IF accepted THEN [socketProxy EXCEPT ![e.of] = "open"] ELSE socketProxy
    /\ UNCHANGED <<looping, toSystem, systemTotal, socket, socketMap, arrivedData, sentData, peer, peerMap,
                   peerInbox, listeners, ignored, waitingPosts, answers, posts, excused>>

-----------------------------------------------------------------------------
(* The main thread: system messages.                                       *)

SystemTakes(op) ==
    /\ looping /\ toSystem # <<>> /\ Head(toSystem).op = op /\ toSystem' = Tail(toSystem)
    /\ SamePosts /\ SameSockets /\ UNCHANGED <<systemTotal, events, ignored>>
Subject == Head(toSystem).of
Throws(when) == looping' = ~ when
SocketsOnly == UNCHANGED <<peer, peerMap, peerInbox, listeners>>
PeersOnly == UNCHANGED <<socket, socketMap, arrivedData>>

(* new WebSocket(url, protocols), which throws when the browser refuses    *)
(* the url or the protocols.                                               *)
MainNewSocket(refused) ==
    /\ SystemTakes("proxyWebSocket")
    /\ Throws(refused) /\ Excuse(refused)
    /\ IF refused THEN UNCHANGED <<socket, socketMap>>
       ELSE /\ socket' = [socket EXCEPT ![Subject] = "connecting"]
            /\ socketMap' = socketMap \cup {Subject}
    /\ SocketsOnly /\ UNCHANGED arrivedData

(* send() of a socket that connects throws, that of a closed one does      *)
(* nothing.                                                                *)
MainSend ==
    /\ SystemTakes("sendWebSocket")
    /\ Throws(Subject \in socketMap /\ socket[Subject] = "connecting")
    /\ arrivedData' = IF Subject \in socketMap /\ socket[Subject] = "open"
                      THEN [arrivedData EXCEPT ![Subject] = @ + 1] ELSE arrivedData
    /\ SocketsOnly /\ UNCHANGED <<socket, socketMap, excused>>

(* close(code, reason) of a real socket, which throws when the browser     *)
(* refuses the code or the reason; the socket then stays in the map.       *)
MainClose(refused) ==
    /\ SystemTakes("closeWebSocket")
    /\ refused => Subject \in socketMap
    /\ Throws(refused) /\ Excuse(refused)
    /\ IF refused THEN UNCHANGED <<socket, socketMap>>
       ELSE /\ socketMap' = socketMap \ {Subject}
            /\ socket' = IF Subject \in socketMap /\ socket[Subject] # "closed"
                         THEN [socket EXCEPT ![Subject] = "closing"] ELSE socket
    /\ SocketsOnly /\ UNCHANGED arrivedData

(* Broken variant: the worker is put in the map later. *)
AddLater(w) == peerMap
AddToMap(w) == peerMap \cup {w}

(* WorkerMap.new(): the script is fetched before it returns.  A server may *)
(* refuse it; when there is no server, or the browser refuses the options, *)
(* the loop ends.                                                          *)
MainNewPeer(outcomeOf) ==
    /\ SystemTakes("proxyWorker")
    /\ peer' = [peer EXCEPT ![Subject] = IF outcomeOf = "loaded" THEN "running" ELSE "failed"]
    /\ peerMap' = IF outcomeOf = "loaded" THEN AddToMap(Subject) ELSE peerMap
    /\ Throws(outcomeOf = "unreachable") /\ Excuse(outcomeOf # "loaded")
    /\ PeersOnly /\ UNCHANGED <<peerInbox, listeners>>

(* WorkerMap.postMessage(): it listens before it posts, which throws when  *)
(* the browser refuses what is to be transferred.                          *)
MainPost(refused) ==
    /\ SystemTakes("postMessageWorker")
    /\ Throws(Subject \notin peerMap \/ refused) /\ Excuse(refused)
    /\ LET p == Head(toSystem).post
       IN  /\ listeners' = IF Subject \notin peerMap \/ posts[p].async THEN listeners
                           ELSE listeners \cup {p}
           /\ peerInbox' = IF Subject \notin peerMap \/ refused THEN peerInbox
                           ELSE [peerInbox EXCEPT ![Subject] = Append(@, p)]
    /\ PeersOnly /\ UNCHANGED <<peer, peerMap>>

MainTerminate ==
    /\ SystemTakes("terminateWorker")
    /\ peer' = IF Subject \in peerMap THEN [peer EXCEPT ![Subject] = "ended"] ELSE peer
    /\ peerMap' = peerMap \ {Subject}
    /\ peerInbox' = [peerInbox EXCEPT ![Subject] = <<>>]
    /\ PeersOnly /\ UNCHANGED <<looping, listeners, excused>>

-----------------------------------------------------------------------------
(* The real sockets and workers.                                           *)

Emit(kinds, x) == events' = events \o [i \in DOMAIN kinds |-> [kind |-> kinds[i], of |-> x]]
OutsideOnly == UNCHANGED <<looping, toSystem, systemTotal, socketMap, arrivedData, peerMap, excused>>
                /\ SameSockets

SocketEvent(s, from, kinds, to) ==
    /\ socket[s] \in from /\ socket' = [socket EXCEPT ![s] = to]
    /\ Emit(kinds, s)
    /\ OutsideOnly /\ SamePosts /\ UNCHANGED <<peer, peerInbox, listeners, ignored>>

SocketOpens(s) == SocketEvent(s, {"connecting"}, <<"open">>, "open")
SocketCloses(s) == SocketEvent(s, {"open", "closing"}, <<"close">>, "closed")
SocketFails(s) == SocketEvent(s, {"connecting", "open", "closing"}, <<"error", "close">>, "closed")
Received(s) ==
    Cardinality({i \in DOMAIN events : events[i] = [kind |-> "message", of |-> s]})
    + Cardinality({i \in DOMAIN heard[s] : heard[s][i] = "message"})
SocketReceives(s) == Received(s) < MaxSends /\ SocketEvent(s, {"open"}, <<"message">>, "open")

(* Broken variant: the listener of a post is left in place.                *)
ListenOn(done) == listeners
StopListening(done) == listeners \ done

(* A worker takes a post.  Its answer is for every listener, and is an     *)
(* event too; it may give none, or fail with an event.                     *)
PeerTakes(w) ==
    /\ peer[w] = "running" /\ peerInbox[w] # <<>>
    /\ peerInbox' = [peerInbox EXCEPT ![w] = Tail(@)]
    /\ OutsideOnly /\ UNCHANGED <<socket, peer, waitingPosts, listening, posts>>

PeerAnswers(w) ==
    /\ PeerTakes(w) /\ Emit(<<"worker">>, w)
    /\ LET done == {p \in listeners : posts[p].to = w}
       IN  /\ answers' = [p \in PostId |-> IF p \in done THEN Head(peerInbox[w]) ELSE answers[p]]
           /\ listeners' = StopListening(done)
    /\ UNCHANGED ignored

PeerIgnores(w, fails) ==
    /\ PeerTakes(w) /\ (IF fails THEN Emit(<<"worker">>, w) ELSE UNCHANGED events)
    /\ ignored' = ignored \cup {Head(peerInbox[w])}
    /\ UNCHANGED <<answers, listeners>>

ProxiesNext ==
    \/ PostReturns \/ ListenerReturns \/ HandleEvent
    \/ MainSend \/ MainTerminate
    \/ \E b \in BOOLEAN : MainNewSocket(b) \/ MainClose(b) \/ MainPost(b)
    \/ \E o \in {"loaded", "refused", "unreachable"} : MainNewPeer(o)
    \/ \E s \in Socket :
         \/ NewSocket(s) \/ SendData(s) \/ CloseSocket(s)
         \/ SocketOpens(s) \/ SocketCloses(s) \/ SocketFails(s) \/ SocketReceives(s)
    \/ \E w \in Peer :
         \/ NewPeer(w) \/ TerminatePeer(w) \/ PeerAnswers(w)
         \/ \E b \in BOOLEAN : PostToPeer(w, b) \/ PeerIgnores(w, b)

ProxiesSpec == ProxiesInit /\ [][ProxiesNext]_proxyVars

-----------------------------------------------------------------------------
(* JavaScript sees each socket as the WebSocket interface has it: it opens *)
(* at most once and first, is heard of no more once it has closed, and no  *)
(* more data reaches the real socket than was sent.                        *)
SocketEventsInOrder ==
    \A s \in Socket :
        /\ \A i, j \in DOMAIN heard[s] :
             /\ heard[s][i] = "open" => i = 1
             /\ heard[s][i] = "message" => heard[s][1] = "open"
             /\ heard[s][i] = "close" /\ j > i => FALSE
        /\ arrivedData[s] <= sentData[s]

(* The loop over system messages ends only if data was sent through a      *)
(* socket before its proxy had opened, a post made to a worker after its   *)
(* end was asked for, a script did not load, or the browser refused an     *)
(* argument (url, protocols, close code or reason, options, transfer):     *)
(* whatever is under way, what the proxies show is never ahead of the real *)
(* objects.                                                                *)
LoopOutlivesGoodUse == looping \/ excused

(* When nothing more can happen outside, a post that waits has an answer,  *)
(* unless the worker gave none or has ended; and an answer is the one to   *)
(* that post, unless the worker gave none or an earlier post was under way *)
(* to it.                                                                  *)
ProxiesIdle ==
    /\ looping /\ toSystem = <<>> /\ events = <<>> /\ ~ listening
    /\ \A w \in Peer : peerInbox[w] = <<>>
SyncPostReturns ==
    /\ \A p \in DOMAIN posts :
         posts[p].behind \/ p \in ignored \/ answers[p] \in {NoPost, p}
    /\ ProxiesIdle /\ waitingPosts # <<>> =>
         LET p == Last(waitingPosts)
         IN  \/ answers[p] # NoPost \/ p \in ignored
             \/ peer[posts[p].to] # "running"
====
