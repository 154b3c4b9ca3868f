--------------------------- MODULE PageConnection ---------------------------
(***************************************************************************)
(* The WebSocket connection of the web page, kept by AppCtrl.  The page    *)
(* connects, subscribes to eight fixed topics and to those of the route it *)
(* shows, asks for the state it has missed, and connects again five        *)
(* seconds after a connection fails.                                       *)
(*                                                                         *)
(* $q calls the callback of the promise in a task after the event that     *)
(* resolved it, so the connection may be gone by then: the callback still  *)
(* declares the page connected and stores subscriptions that were never    *)
(* sent.  They are dead, and kept until the next loss or change of route:  *)
(* nothing is done to a topic that is stored and wanted (calledLate).      *)
(*                                                                         *)
(* The server (Spring's simple broker, behind stomp.js) handles the frames *)
(* of a session on a pool of threads, hence in any order.                  *)
(***************************************************************************)
EXTENDS Naturals

CONSTANTS
  Page,       \* routes the user visits
  MaxLosses   \* bound: connections that fail

PageTopic ==
  {"networkInfo", "newBlockInfo", "systemLog", "peers", "rpcUsage",
   "getWalletInfo"}

\* The order in which updatePageSubscriptions comes to the topics.
Turn(t) ==
  CASE t = "networkInfo"   -> 1
    [] t = "newBlockInfo"  -> 2
    [] t = "systemLog"     -> 3
    [] t = "peers"         -> 4
    [] t = "rpcUsage"      -> 5
    [] t = "getWalletInfo" -> 6

\* Topics of a route, in the words of updatePageSubscriptions.
TopicsOf(path) ==
  CASE path = "/"          -> {"networkInfo", "newBlockInfo"}
    [] path = "/systemLog" -> {"systemLog"}
    [] path = "/peers"     -> {"peers"}
    [] path = "/rpcUsage"  -> {"rpcUsage"}
    [] path = "/wallet"    -> {"getWalletInfo"}
    [] OTHER               -> {}

\* The request that a subscription is preceded by (initFun), if it has one.
InitRequest(t) ==
  CASE t = "systemLog"     -> {"currentSystemLogs"}
    [] t = "newBlockInfo"  -> {"currentBlocks"}
    [] t = "getWalletInfo" -> {"getWalletInfo"}
    [] OTHER               -> {}

Request == {"currentSystemLogs", "currentBlocks", "getWalletInfo", "initialInfo"}

ASSUME PageConnectionAssumption ==
  /\ "/" \in Page
  /\ MaxLosses \in Nat

VARIABLES
  currentPage,   \* vm.data.currentPage
  isConnected,   \* vm.isConnected
  topicStorage,  \* page topic -> "none", or a subscription: of the present
                 \* client and "live", or "dead"
  client,        \* the present client of $stomp: its socket is connecting, it
                 \* is opened and CONNECT is sent, CONNECTED came and it is
                 \* open, or it is closed
  resolved,      \* its promise is resolved and the callback not yet called
  timers,        \* setTimeout(connect, 5000) calls that have not fired
  inbound,       \* frames the server has not handled: <<"sub", t>>, <<"send", r>>
  subs,          \* subscriptions the server has; "fixed" stands for the eight
  shown,         \* what the controller of the route has received
  losses,        \* bound counter

  \* History; the code does not keep it.
  calledLate     \* since the last loss the callback ran for a closed client

vars == <<currentPage, isConnected, topicStorage, client, resolved, timers,
          inbound, subs, shown, losses, calledLate>>

NoTopics == [t \in PageTopic |-> "none"]

\* Frames reach the server as soon as the socket is open; a closed client
\* drops them without a word.
Sending == client \in {"opened", "open"}

\* Topics that updatePageSubscriptions has to subscribe to.
New(path) == {t \in TopicsOf(path) : topicStorage[t] = "none"}

\* Topics it comes to: while the socket is connecting, $stomp.subscribe throws
\* at the first new one ($stomp.send catches what it throws).
Reached(path) ==
  {t \in PageTopic : client = "connecting" => \A u \in New(path) : Turn(t) < Turn(u)}

Dropped(path) == Reached(path) \ TopicsOf(path)

\* Nothing is done to a topic that is stored and wanted.
Subscribed(path) ==
  [t \in PageTopic |->
     IF t \in Dropped(path) THEN "none"
     ELSE IF t \in Reached(path) \cap New(path)
     THEN IF Sending THEN "live" ELSE "dead"
     ELSE topicStorage[t]]

PageFrames(path) ==
  IF Sending
  THEN {<<"sub", t>> : t \in New(path)}
         \union {<<"send", r>> : r \in UNION {InitRequest(t) : t \in New(path)}}
  ELSE {}

\* From its unsubscribe() on, the client ignores the messages of a topic.
updatePageSubscriptions(path, others) ==
  /\ topicStorage' = Subscribed(path)
  /\ inbound' = (inbound \ {<<"sub", t>> : t \in Dropped(path)})
                  \union PageFrames(path) \union others
  /\ subs' = subs \ Dropped(path)

Init ==
  /\ currentPage = "/"
  /\ isConnected = FALSE
  /\ topicStorage = NoTopics
  /\ client = "connecting"
  /\ resolved = FALSE
  /\ timers = 0
  /\ inbound = {}
  /\ subs = {}
  /\ shown = {}
  /\ losses = 0
  /\ calledLate = FALSE

\* $routeChangeSuccess: subscriptions change only if connected.
RouteChange(path) ==
  /\ path # currentPage
  /\ currentPage' = path
  /\ shown' = {}
  /\ IF isConnected THEN updatePageSubscriptions(path, {})
                     ELSE UNCHANGED <<topicStorage, inbound, subs>>
  /\ UNCHANGED <<isConnected, client, resolved, timers, losses, calledLate>>

\* onopen: the STOMP client sends its CONNECT frame.
SocketOpen ==
  /\ client = "connecting"
  /\ client' = "opened"
  /\ UNCHANGED <<currentPage, isConnected, topicStorage, resolved, timers, inbound,
                 subs, shown, losses, calledLate>>

\* The CONNECTED frame resolves the promise of $stomp.connect.
ConnectedFrame ==
  /\ client = "opened"
  /\ client' = "open"
  /\ resolved' = TRUE
  /\ UNCHANGED <<currentPage, isConnected, topicStorage, timers, inbound, subs,
                 shown, losses, calledLate>>

\* The callback of the promise, in a task of its own: setConnected(true), which
\* keeps what topicStorage holds; the fixed topics; the topics of the route;
\* requests.  It does not ask whether its client is still the open one.
OnConnected ==
  /\ resolved
  /\ resolved' = FALSE
  /\ isConnected' = TRUE
  /\ updatePageSubscriptions(currentPage,
       IF Sending THEN {<<"sub", "fixed">>, <<"send", "initialInfo">>} ELSE {})
  /\ calledLate' = (calledLate \/ client = "closed")
  /\ UNCHANGED <<currentPage, client, timers, shown, losses>>

\* Mutant of Disconnect: the subscriptions of the lost connection stay.
DisconnectKeepsTopics ==
  /\ client' = "closed"
  /\ isConnected' = FALSE
  /\ timers' = timers + 1
  /\ calledLate' = FALSE
  /\ UNCHANGED topicStorage

\* Mutant of Disconnect: only an established connection is tried again.
DisconnectRetriesOpen ==
  /\ client' = "closed"
  /\ isConnected' = FALSE
  /\ topicStorage' = NoTopics
  /\ timers' = IF isConnected THEN timers + 1 ELSE timers
  /\ calledLate' = FALSE

\* disconnect(): closes the present client without its onclose being called,
\* setConnected(false) forgets the subscriptions, and a timer is set.
Disconnect ==
  /\ client' = "closed"
  /\ isConnected' = FALSE
  /\ topicStorage' = NoTopics
  /\ timers' = timers + 1
  /\ calledLate' = FALSE

\* onclose, at any time, or an ERROR frame: the errorCallback of connect.  A
\* callback that is due stays due.
ConnectionLost ==
  /\ client # "closed"
  /\ losses < MaxLosses
  /\ losses' = losses + 1
  /\ Disconnect
  /\ inbound' = {}
  /\ subs' = {}
  /\ UNCHANGED <<currentPage, resolved, shown>>

\* Five seconds later; a callback that was due has run by then (its task was
\* set with no delay).  What is still stored belongs to the old client.
ReconnectTimer ==
  /\ timers > 0
  /\ ~resolved
  /\ timers' = timers - 1
  /\ client' = "connecting"
  /\ topicStorage' = [t \in PageTopic |->
                        IF topicStorage[t] = "none" THEN "none" ELSE "dead"]
  /\ UNCHANGED <<currentPage, isConnected, resolved, inbound, subs, shown, losses,
                 calledLate>>

\* The server enters a subscription.
HandleSubscribe(t) ==
  /\ <<"sub", t>> \in inbound
  /\ inbound' = inbound \ {<<"sub", t>>}
  /\ subs' = subs \union {t}
  /\ UNCHANGED <<currentPage, isConnected, topicStorage, client, resolved,
                 timers, shown, losses, calledLate>>

\* What a route's controller listens to.
Listens(r) ==
  CASE r = "currentBlocks"     -> currentPage = "/"
    [] r = "currentSystemLogs" -> currentPage = "/systemLog"
    [] r = "getWalletInfo"     -> currentPage = "/wallet"
    [] OTHER                   -> FALSE

\* The answer goes to the topic of the request's name, for whoever has
\* subscribed to it by then; currentBlocks and currentSystemLogs are fixed.
HandleRequest(r) ==
  /\ <<"send", r>> \in inbound
  /\ inbound' = inbound \ {<<"send", r>>}
  /\ LET topic == IF r \in PageTopic THEN r ELSE "fixed" IN
     shown' = IF topic \in subs /\ Listens(r) THEN shown \union {r} ELSE shown
  /\ UNCHANGED <<currentPage, isConnected, topicStorage, client, resolved,
                 timers, subs, losses, calledLate>>

ServerHandles ==
  \/ \E t \in PageTopic \union {"fixed"} : HandleSubscribe(t)
  \/ \E r \in Request : HandleRequest(r)

\* The server sends to a page topic, on its schedule or with a new block.
Push(t) ==
  /\ t \in subs
  /\ topicStorage[t] = "live"
  /\ t \notin shown
  /\ shown' = shown \union {t}
  /\ UNCHANGED <<currentPage, isConnected, topicStorage, client, resolved,
                 timers, inbound, subs, losses, calledLate>>

Next ==
  \/ \E path \in Page : RouteChange(path)
  \/ SocketOpen
  \/ ConnectedFrame
  \/ OnConnected
  \/ ConnectionLost
  \/ ReconnectTimer
  \/ ServerHandles
  \/ \E t \in PageTopic : Push(t)

Spec == Init /\ [][Next]_vars

\* A browser calls its callbacks and timers, the server answers and keeps
\* sending.  The user may stay or leave, connections need not fail.
Fairness ==
  /\ WF_vars(SocketOpen)
  /\ WF_vars(ConnectedFrame)
  /\ WF_vars(OnConnected)
  /\ WF_vars(ReconnectTimer)
  /\ WF_vars(ServerHandles)
  /\ WF_vars(\E t \in PageTopic : Push(t))

FairSpec == Spec /\ Fairness

-----------------------------------------------------------------------------
\* Types of the variables.
TypeOK ==
  /\ currentPage \in Page \union {"/"}
  /\ isConnected \in BOOLEAN
  /\ topicStorage \in [PageTopic -> {"none", "live", "dead"}]
  /\ client \in {"connecting", "opened", "open", "closed"}
  /\ resolved \in BOOLEAN
  /\ timers \in Nat
  /\ inbound \subseteq ({"sub"} \X (PageTopic \union {"fixed"}))
                          \union ({"send"} \X Request)
  /\ subs \subseteq PageTopic \union {"fixed"}
  /\ shown \subseteq PageTopic \union Request
  /\ losses \in Nat
  /\ calledLate \in BOOLEAN

\* AppCtrl has one way forward at any time: a client that is connecting or
\* open, or one timer that will make the next.  Never two connections, whose
\* messages the page would handle twice, and never none, however a loss and
\* the callback of the promise fall together.
SingleLifeline ==
  timers + (IF client = "closed" THEN 0 ELSE 1) = 1

\* The callback has run for the client that is open.
Served == client = "open" /\ ~resolved

\* "subscribe to page relevant topic only when we stay on that page.
\* Unsubscribe otherwise" (app.controller.js:249-250): topicStorage holds the
\* topics of the route and nothing else once the callback has run, and is empty
\* while not connected.  After a callback that came too late this is so again
\* when it has run for the next client, and not before: a change of route while
\* the next socket is connecting stops half-way.  Only such a callback stores a
\* subscription that the client does not have.
SubscribedForPage ==
  /\ ~isConnected => topicStorage = NoTopics
  /\ isConnected /\ (calledLate => Served) =>
       \A t \in PageTopic : topicStorage[t] # "none" <=> t \in TopicsOf(currentPage)
  /\ ~calledLate => \A t \in PageTopic : topicStorage[t] # "dead"

\* What the server still has to do for the page belongs to the connection the
\* page knows: it never holds a subscription for a page topic the page does
\* not, and has entered or will enter every one that the page holds, but for
\* the dead ones of a late callback.
ServerAgrees ==
  \A t \in PageTopic :
    topicStorage[t] = "live" <=> (t \in subs \/ <<"sub", t>> \in inbound)

\* A route that stays on screen is served by each of its topics, through
\* losses of the connection and changes of route while it was down.  The one
\* exception is a topic left dead by a callback that came too late: the client
\* that is open by then never subscribes to it.
PageServed ==
  \A path \in Page :
    currentPage = path ~>
      \/ currentPage # path
      \/ \A t \in TopicsOf(path) :
           t \in shown \/ (Served /\ calledLate /\ topicStorage[t] = "dead")
=============================================================================
