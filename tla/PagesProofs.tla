---------------------------- MODULE PagesProofs -----------------------------
(***************************************************************************)
(* The invariants of the pages for any routes, peers, contracts, methods   *)
(* and limits, and any number of events.                                   *)
(*                                                                         *)
(* None of those of the connection is inductive alone, since what a loss,  *)
(* a timer or a change of route does is right only if the client, the      *)
(* callback due, isConnected and the subscriptions that are stored fit     *)
(* together: ClientState.  A callback that runs after the loss is among    *)
(* the steps; what it stores is dead, and known to be (calledLate).        *)
(*                                                                         *)
(* The other parts follow, each with an invariant of its own over its own  *)
(* variables; a step of the whole is a step of one part and leaves the     *)
(* others alone (EachPartSteps).                                           *)
(***************************************************************************)
EXTENDS Pages, FiniteSetTheorems, SequenceTheorems, TLAPS

\* A callback is due only for a client that was open; but for a late one, the
\* page is known as connected only while it has run for the open client; and a
\* live subscription belongs to a client that sends.
ClientState ==
  /\ resolved => client \in {"open", "closed"}
  /\ isConnected /\ ~calledLate => Served
  /\ calledLate => isConnected
  /\ \A t \in PageTopic : topicStorage[t] = "live" => Sending

IInv ==
  TypeOK /\ ClientState /\ SingleLifeline /\ SubscribedForPage /\ ServerAgrees

-----------------------------------------------------------------------------
LEMMA TopicsArePageTopics == \A page : TopicsOf(page) \subseteq PageTopic
  BY DEF TopicsOf, PageTopic

LEMMA RequestsAreRequests == \A t : InitRequest(t) \subseteq Request
  BY DEF InitRequest, Request

LEMMA NewArePageTopics == \A page : New(page) \subseteq TopicsOf(page) /\ New(page) \subseteq PageTopic
  BY TopicsArePageTopics DEF New

\* A client that sends sends a subscription for each topic that is new, and
\* nothing else but requests.
LEMMA FramesOfNewTopics ==
  ASSUME NEW page
  PROVE  /\ \A t \in PageTopic : <<"sub", t>> \in PageFrames(page) <=> Sending /\ t \in New(page)
         /\ PageFrames(page) \subseteq ({"sub"} \X PageTopic) \union ({"send"} \X Request)
<1>1. CASE ~Sending
  BY <1>1 DEF PageFrames
<1>2. CASE Sending
  <2>1. PageFrames(page) = {<<"sub", t>> : t \in New(page)}
                   \union {<<"send", r>> : r \in UNION {InitRequest(t) : t \in New(page)}}
    BY <1>2 DEF PageFrames
  <2>2. New(page) \subseteq PageTopic
    BY NewArePageTopics
  <2>3. UNION {InitRequest(t) : t \in New(page)} \subseteq Request
    BY RequestsAreRequests
  <2>4. \A t \in PageTopic : <<"sub", t>> \in PageFrames(page) <=> t \in New(page)
    BY <2>1
  <2>5. PageFrames(page) \subseteq ({"sub"} \X PageTopic) \union ({"send"} \X Request)
    BY <2>1, <2>2, <2>3
  <2> QED
    BY <1>2, <2>4, <2>5
<1> QED
  BY <1>1, <1>2

\* Only a client whose socket is connecting stops updatePageSubscriptions.
LEMMA ReachedTopics ==
  ASSUME NEW page
  PROVE  /\ Reached(page) \subseteq PageTopic
         /\ client # "connecting" => Reached(page) = PageTopic
         /\ Sending => Reached(page) = PageTopic
<1>1. client # "connecting" => Reached(page) = PageTopic
  BY DEF Reached
<1>2. Sending => client # "connecting"
  BY DEF Sending
<1> QED
  BY <1>1, <1>2 DEF Reached

\* What updatePageSubscriptions makes of one topic.
LEMMA SubscribedTopic ==
  ASSUME NEW page, NEW t \in PageTopic
  PROVE  /\ t \in Dropped(page) => Subscribed(page)[t] = "none"
         /\ t \in Reached(page) \cap New(page) =>
              Subscribed(page)[t] = IF Sending THEN "live" ELSE "dead"
         /\ t \notin Dropped(page) /\ t \notin Reached(page) \cap New(page) =>
              Subscribed(page)[t] = topicStorage[t]
<1>1. t \in Reached(page) \cap New(page) => t \notin Dropped(page)
  BY NewArePageTopics DEF Dropped
<1> QED
  BY <1>1 DEF Subscribed

\* Where every topic is come to, those of the page are stored and no others.
LEMMA StoredForPage ==
  ASSUME NEW page, client # "connecting", NEW t \in PageTopic
  PROVE  Subscribed(page)[t] # "none" <=> t \in TopicsOf(page)
<1>1. t \in Reached(page)
  BY ReachedTopics
<1>2. t \in Dropped(page) <=> t \notin TopicsOf(page)
  BY <1>1 DEF Dropped
<1>3. t \in New(page) <=> t \in TopicsOf(page) /\ topicStorage[t] = "none"
  BY DEF New
<1> QED
  BY <1>1, <1>2, <1>3, SubscribedTopic

\* updatePageSubscriptions keeps the types, what is live and what the server
\* has, if the other frames name no topic of a page.
LEMMA UpdateKeeps ==
  ASSUME TypeOK, ClientState, ServerAgrees, NEW page, NEW others,
         others \subseteq ({"sub"} \X {"fixed"}) \union ({"send"} \X Request),
         updatePageSubscriptions(page, others), client' = client
  PROVE  /\ topicStorage' \in [PageTopic -> {"none", "live", "dead"}]
         /\ inbound' \subseteq ({"sub"} \X (PageTopic \union {"fixed"})) \union ({"send"} \X Request)
         /\ subs' \subseteq PageTopic \union {"fixed"}
         /\ \A t \in PageTopic : topicStorage'[t] = "live" => Sending'
         /\ ServerAgrees'
<1> USE DEF updatePageSubscriptions
<1>1. topicStorage' \in [PageTopic -> {"none", "live", "dead"}]
  BY DEF Subscribed, TypeOK
<1>2. inbound' \subseteq ({"sub"} \X (PageTopic \union {"fixed"})) \union ({"send"} \X Request)
  BY FramesOfNewTopics DEF TypeOK
<1>3. subs' \subseteq PageTopic \union {"fixed"}
  BY DEF TypeOK
<1>4. Sending' <=> Sending
  BY DEF Sending
<1>5. ASSUME NEW t \in PageTopic
      PROVE  /\ topicStorage'[t] = "live" => Sending
             /\ topicStorage'[t] = "live" <=> (t \in subs' \/ <<"sub", t>> \in inbound')
  <2>1. topicStorage'[t] = Subscribed(page)[t]
    OBVIOUS
  <2>2. topicStorage[t] = "live" <=> (t \in subs \/ <<"sub", t>> \in inbound)
    BY DEF ServerAgrees
  <2>3. topicStorage[t] = "live" => Sending
    BY DEF ClientState
  <2>4. <<"sub", t>> \notin others
    <3>1. t # "fixed"
      BY DEF PageTopic
    <3> QED
      BY <3>1
  <2>5. <<"sub", t>> \in PageFrames(page) <=> Sending /\ t \in New(page)
    BY FramesOfNewTopics
  <2>6. <<"sub", t>> \in {<<"sub", u>> : u \in Dropped(page)} <=> t \in Dropped(page)
    OBVIOUS
  <2>7. <<"sub", t>> \in inbound' <=>
          \/ <<"sub", t>> \in inbound /\ t \notin Dropped(page)
          \/ Sending /\ t \in New(page)
    BY <2>4, <2>5, <2>6
  <2>8. t \in subs' <=> t \in subs /\ t \notin Dropped(page)
    OBVIOUS
  <2>9. t \in New(page) => topicStorage[t] = "none" /\ t \notin Dropped(page)
    BY NewArePageTopics DEF New, Dropped
  <2>10. Sending => t \in Reached(page)
    BY ReachedTopics
  <2>11. CASE t \in Dropped(page)
    BY <2>1, <2>7, <2>8, <2>9, <2>11, SubscribedTopic
  <2>12. CASE t \in Reached(page) \cap New(page)
    <3>1. topicStorage'[t] = IF Sending THEN "live" ELSE "dead"
      BY <2>1, <2>12, SubscribedTopic
    <3> QED
      BY <3>1, <2>2, <2>7, <2>8, <2>9, <2>12
  <2>13. CASE t \notin Dropped(page) /\ t \notin Reached(page) \cap New(page)
    <3>1. topicStorage'[t] = topicStorage[t]
      BY <2>1, <2>13, SubscribedTopic
    <3> QED
      BY <3>1, <2>2, <2>3, <2>7, <2>8, <2>10, <2>13
  <2> QED
    BY <2>11, <2>12, <2>13
<1>6. ServerAgrees'
  BY <1>5 DEF ServerAgrees
<1> QED
  BY <1>1, <1>2, <1>3, <1>4, <1>5, <1>6

\* A client that sends stores nothing dead that was not dead before.
LEMMA NothingDies ==
  ASSUME NEW page, Sending, \A t \in PageTopic : topicStorage[t] # "dead"
  PROVE  \A t \in PageTopic : Subscribed(page)[t] # "dead"
  BY SubscribedTopic

-----------------------------------------------------------------------------
LEMMA InitIInv == Init => IInv
<1> SUFFICES ASSUME Init PROVE IInv
  OBVIOUS
<1> USE DEF Init
<1>1. TypeOK
  BY DEF TypeOK, NoTopics
<1>2. ClientState /\ SingleLifeline /\ SubscribedForPage
  BY DEF ClientState, SingleLifeline, SubscribedForPage, NoTopics
<1>3. ServerAgrees
  BY DEF ServerAgrees, NoTopics
<1> QED
  BY <1>1, <1>2, <1>3 DEF IInv

LEMMA RouteChangePreserves ==
  ASSUME IInv, NEW page \in Page, RouteChange(page)
  PROVE  IInv'
<1> USE DEF RouteChange
<1>1. SingleLifeline'
  BY DEF IInv, SingleLifeline
<1>2. CASE ~isConnected
  <2>1. TypeOK' /\ ServerAgrees'
    BY <1>2 DEF IInv, TypeOK, ServerAgrees
  <2>2. ClientState'
    BY <1>2 DEF IInv, ClientState, Served, Sending
  <2>3. SubscribedForPage'
    BY <1>2 DEF IInv, SubscribedForPage
  <2> QED
    BY <1>1, <2>1, <2>2, <2>3 DEF IInv
<1>3. CASE isConnected
  <2>1. updatePageSubscriptions(page, {})
    BY <1>3
  <2>2. /\ topicStorage' \in [PageTopic -> {"none", "live", "dead"}]
        /\ inbound' \subseteq ({"sub"} \X (PageTopic \union {"fixed"})) \union ({"send"} \X Request)
        /\ subs' \subseteq PageTopic \union {"fixed"}
        /\ \A t \in PageTopic : topicStorage'[t] = "live" => Sending'
        /\ ServerAgrees'
    BY <2>1, UpdateKeeps DEF IInv
  <2>3. TypeOK'
    BY <2>2 DEF IInv, TypeOK
  <2>4. ClientState'
    BY <2>2 DEF IInv, ClientState, Served
  <2>5. topicStorage' = Subscribed(page)
    BY <2>1 DEF updatePageSubscriptions
  <2>6. ASSUME calledLate => Served, NEW t \in PageTopic
        PROVE  topicStorage'[t] # "none" <=> t \in TopicsOf(page)
    <3>1. client = "open"
      BY <1>3, <2>6 DEF IInv, ClientState, Served
    <3> QED
      BY <3>1, <2>5, StoredForPage
  <2>7. ASSUME ~calledLate PROVE \A t \in PageTopic : topicStorage'[t] # "dead"
    <3>1. Sending
      BY <1>3, <2>7 DEF IInv, ClientState, Served, Sending
    <3>2. \A t \in PageTopic : topicStorage[t] # "dead"
      BY <2>7 DEF IInv, SubscribedForPage
    <3> QED
      BY <3>1, <3>2, <2>5, NothingDies
  <2>8. SubscribedForPage'
    BY <1>3, <2>6, <2>7 DEF SubscribedForPage, Served
  <2> QED
    BY <1>1, <2>2, <2>3, <2>4, <2>8 DEF IInv
<1> QED
  BY <1>2, <1>3

\* The callback finds its client open, and what it stores is live, or closed,
\* and then it is late.
LEMMA OnConnectedPreserves ==
  ASSUME IInv, OnConnected
  PROVE  IInv'
<1> USE DEF OnConnected
<1> DEFINE others == IF Sending THEN {<<"sub", "fixed">>, <<"send", "initialInfo">>} ELSE {}
<1>1. client = "open" \/ client = "closed"
  BY DEF IInv, ClientState
<1>2. SingleLifeline'
  BY DEF IInv, SingleLifeline
<1>3. others \subseteq ({"sub"} \X {"fixed"}) \union ({"send"} \X Request)
  BY DEF Request
<1>4. updatePageSubscriptions(currentPage, others)
  OBVIOUS
<1> HIDE DEF others
<1>5. /\ topicStorage' \in [PageTopic -> {"none", "live", "dead"}]
      /\ inbound' \subseteq ({"sub"} \X (PageTopic \union {"fixed"})) \union ({"send"} \X Request)
      /\ subs' \subseteq PageTopic \union {"fixed"}
      /\ \A t \in PageTopic : topicStorage'[t] = "live" => Sending'
      /\ ServerAgrees'
  BY <1>3, <1>4, UpdateKeeps DEF IInv
<1>6. calledLate' \in BOOLEAN
  BY DEF IInv, TypeOK
<1>7. TypeOK'
  BY <1>5, <1>6 DEF IInv, TypeOK
<1>8. ClientState'
  BY <1>1, <1>5 DEF IInv, ClientState, Served
<1>9. topicStorage' = Subscribed(currentPage)
  BY <1>4 DEF updatePageSubscriptions
<1>10. \A t \in PageTopic : topicStorage'[t] # "none" <=> t \in TopicsOf(currentPage)
  BY <1>1, <1>9, StoredForPage
<1>11. ASSUME ~calledLate' PROVE \A t \in PageTopic : topicStorage'[t] # "dead"
  <2>1. Sending
    BY <1>1, <1>11 DEF Sending
  <2>2. \A t \in PageTopic : topicStorage[t] # "dead"
    BY <1>11 DEF IInv, SubscribedForPage
  <2> QED
    BY <2>1, <2>2, <1>9, NothingDies
<1>12. SubscribedForPage'
  BY <1>10, <1>11 DEF SubscribedForPage
<1> QED
  BY <1>2, <1>5, <1>7, <1>8, <1>12 DEF IInv

\* The socket opens, and later its client: the callback has yet to run for it.
LEMMA OpeningPreserves ==
  ASSUME IInv, SocketOpen \/ ConnectedFrame
  PROVE  IInv'
<1> USE DEF SocketOpen, ConnectedFrame
<1>1. TypeOK' /\ ServerAgrees'
  BY DEF IInv, TypeOK, ServerAgrees
<1>2. ClientState'
  BY DEF IInv, ClientState, Served, Sending
<1>3. SingleLifeline'
  BY DEF IInv, SingleLifeline
<1>4. ~(isConnected /\ ~calledLate)
  BY DEF IInv, ClientState, Served
<1>5. ~Served'
  BY DEF IInv, ClientState, Served
<1>6. SubscribedForPage'
  BY <1>4, <1>5 DEF IInv, SubscribedForPage, NoTopics
<1> QED
  BY <1>1, <1>2, <1>3, <1>6 DEF IInv

\* A loss forgets everything but the callback that is due.
LEMMA ConnectionLostPreserves ==
  ASSUME IInv, ConnectionLost
  PROVE  IInv'
<1> USE DEF ConnectionLost, Disconnect
<1>1. TypeOK'
  <2>1. topicStorage' \in [PageTopic -> {"none", "live", "dead"}]
    BY DEF NoTopics
  <2>2. timers' \in Nat /\ losses' \in Nat
    BY DEF IInv, TypeOK
  <2> QED
    BY <2>1, <2>2 DEF IInv, TypeOK
<1>2. ClientState'
  BY DEF ClientState, NoTopics
<1>3. SingleLifeline'
  BY DEF IInv, TypeOK, SingleLifeline
<1>4. SubscribedForPage' /\ ServerAgrees'
  BY DEF SubscribedForPage, ServerAgrees, NoTopics
<1> QED
  BY <1>1, <1>2, <1>3, <1>4 DEF IInv

\* The timer fires only where no client is left, hence nothing live.
LEMMA ReconnectTimerPreserves ==
  ASSUME IInv, ReconnectTimer
  PROVE  IInv'
<1> USE DEF ReconnectTimer
<1>1. client = "closed" /\ timers = 1
  BY DEF IInv, TypeOK, SingleLifeline
<1>2. ~(isConnected /\ ~calledLate)
  BY <1>1 DEF IInv, ClientState, Served
<1>3. topicStorage \in [PageTopic -> {"none", "live", "dead"}]
  BY DEF IInv, TypeOK
<1>4. \A t \in PageTopic : topicStorage[t] # "live"
  BY <1>1 DEF IInv, ClientState, Sending
<1>5. topicStorage' = topicStorage
  BY <1>3, <1>4
<1>6. TypeOK' /\ SingleLifeline'
  BY <1>1, <1>3, <1>5 DEF IInv, TypeOK, SingleLifeline
<1>7. ClientState'
  BY <1>2, <1>4, <1>5 DEF IInv, ClientState
<1>8. SubscribedForPage'
  BY <1>2, <1>5 DEF IInv, SubscribedForPage, Served, NoTopics
<1>9. ServerAgrees'
  BY <1>5 DEF IInv, ServerAgrees
<1> QED
  BY <1>6, <1>7, <1>8, <1>9 DEF IInv

\* Handling a frame moves a subscription from the one set to the other.
LEMMA ServerHandlesPreserves ==
  ASSUME IInv, ServerHandles
  PROVE  IInv'
<1>1. ASSUME NEW t \in PageTopic \union {"fixed"}, HandleSubscribe(t)
      PROVE  IInv'
  <2> USE <1>1 DEF HandleSubscribe
  <2>1. TypeOK' /\ SingleLifeline'
    BY DEF IInv, TypeOK, SingleLifeline
  <2>2. ClientState' /\ SubscribedForPage'
    BY DEF IInv, ClientState, SubscribedForPage, Served, Sending, NoTopics
  <2>3. ServerAgrees'
    BY DEF IInv, ServerAgrees
  <2> QED
    BY <2>1, <2>2, <2>3 DEF IInv
<1>2. ASSUME NEW r \in Request, HandleRequest(r)
      PROVE  IInv'
  <2> USE <1>2 DEF HandleRequest
  <2>1. TypeOK' /\ SingleLifeline'
    BY DEF IInv, TypeOK, SingleLifeline
  <2>2. ClientState' /\ SubscribedForPage'
    BY DEF IInv, ClientState, SubscribedForPage, Served, Sending, NoTopics
  <2>3. \A t \in PageTopic : <<"sub", t>> \in inbound' <=> <<"sub", t>> \in inbound
    OBVIOUS
  <2>4. ServerAgrees'
    BY <2>3 DEF IInv, ServerAgrees
  <2> QED
    BY <2>1, <2>2, <2>4 DEF IInv
<1> QED
  BY <1>1, <1>2 DEF ServerHandles

\* A message that is pushed changes only what the controller has received.
LEMMA PushPreserves ==
  ASSUME IInv, NEW t \in PageTopic, Push(t)
  PROVE  IInv'
<1> USE DEF Push
<1>1. TypeOK' /\ SingleLifeline' /\ ServerAgrees'
  BY DEF IInv, TypeOK, SingleLifeline, ServerAgrees
<1>2. ClientState' /\ SubscribedForPage'
  BY DEF IInv, ClientState, SubscribedForPage, Served, Sending, NoTopics
<1> QED
  BY <1>1, <1>2 DEF IInv

LEMMA StutterPreserves ==
  ASSUME IInv, UNCHANGED vars
  PROVE  IInv'
<1> USE DEF vars
<1>1. TypeOK' /\ SingleLifeline' /\ ServerAgrees'
  BY DEF IInv, TypeOK, SingleLifeline, ServerAgrees
<1>2. ClientState' /\ SubscribedForPage'
  BY DEF IInv, ClientState, SubscribedForPage, Served, Sending, NoTopics
<1> QED
  BY <1>1, <1>2 DEF IInv

LEMMA NextIInv ==
  ASSUME IInv, [Next]_vars
  PROVE  IInv'
<1>1. CASE \E page \in Page : RouteChange(page)
  BY <1>1, RouteChangePreserves
<1>2. CASE SocketOpen \/ ConnectedFrame
  BY <1>2, OpeningPreserves
<1>3. CASE OnConnected
  BY <1>3, OnConnectedPreserves
<1>4. CASE ConnectionLost
  BY <1>4, ConnectionLostPreserves
<1>5. CASE ReconnectTimer
  BY <1>5, ReconnectTimerPreserves
<1>6. CASE ServerHandles
  BY <1>6, ServerHandlesPreserves
<1>7. CASE \E t \in PageTopic : Push(t)
  BY <1>7, PushPreserves
<1>8. CASE UNCHANGED vars
  BY <1>8, StutterPreserves
<1> QED
  BY <1>1, <1>2, <1>3, <1>4, <1>5, <1>6, <1>7, <1>8 DEF Next

LEMMA Invariance == Spec => []IInv
<1>1. IInv /\ [Next]_vars => IInv'
  BY NextIInv
<1> QED
  BY <1>1, InitIInv, PTL DEF Spec

-----------------------------------------------------------------------------
\* Every value stays of its type: what connect, disconnect and
\* updatePageSubscriptions store and send is a subscription or a request.
THEOREM TypeCorrect == Spec => []TypeOK
<1>1. IInv => TypeOK
  BY DEF IInv
<1> QED
  BY <1>1, Invariance, PTL

\* However often connections fail, before the callback of the promise or after
\* it, connect() and its five-second timer leave one client or one timer, never
\* two and never none.
THEOREM OneLifeline == Spec => []SingleLifeline
<1>1. IInv => SingleLifeline
  BY DEF IInv
<1> QED
  BY <1>1, Invariance, PTL

\* The page stores subscriptions to its route's topics and to no others,
\* through route changes made while the connection was down; they are live
\* but for those of a callback that came after its client was lost.
THEOREM SubscriptionsOfRoute == Spec => []SubscribedForPage
<1>1. IInv => SubscribedForPage
  BY DEF IInv
<1> QED
  BY <1>1, Invariance, PTL

\* The server has, or is about to have, the page's live subscriptions and no
\* others.
THEOREM ServerAndPageAgree == Spec => []ServerAgrees
<1>1. IInv => ServerAgrees
  BY DEF IInv
<1> QED
  BY <1>1, Invariance, PTL

-----------------------------------------------------------------------------
\* A step of the pages is a step of each part or leaves it alone.
LEMMA EachPartSteps ==
  ASSUME [PagesNext]_pagesVars
  PROVE  /\ [Next]_vars
         /\ [Log!Next]_logVars /\ [Peers!Next]_peersVars
         /\ [Tree!Next]_treeVars /\ [View!Next]_contractVars /\ [ViewForm!Next]_formVars
         /\ [Usage!Next]_usageVars /\ [Term!Next]_termVars
         /\ [Panel!Next]_statusVars /\ [Home!Next]_homeVars
         /\ [Purse!Next]_walletPageVars /\ [Send!Next]_sendVars
<1>1. CASE UNCHANGED pagesVars
  BY <1>1 DEF pagesVars
<1>2. CASE PagesNext
  BY <1>2 DEF PagesNext, Only
<1> QED
  BY <1>1, <1>2

\* AppCtrl has one way forward, and the page, its subscriptions and the server
\* agree, whatever else happens on the pages.
THEOREM ConnectionHolds == PagesSpec => []ConnectionAgrees
<1>1. PagesInit => IInv
  BY InitIInv DEF PagesInit
<1>2. IInv /\ [PagesNext]_pagesVars => IInv'
  BY EachPartSteps, NextIInv
<1>3. IInv => ConnectionAgrees
  BY DEF IInv, ConnectionAgrees
<1> QED
  BY <1>1, <1>2, <1>3, PTL DEF PagesSpec

-----------------------------------------------------------------------------
\* HomeInfo: a port that shows a question mark is one whose answer is awaited.
HomeInv ==
  /\ portResult \in [Home!Port -> {"", "?", "v", "x", "service issue"}]
  /\ \A p \in Home!Port : portResult[p] = "?" => p \in checks
  /\ ~testing => checks = {}

LEMMA HomeInit == PagesInit => HomeInv
  BY DEF PagesInit, Home!Init, HomeInv

LEMMA HomeStep ==
  ASSUME HomeInv, [Home!Next]_homeVars
  PROVE  HomeInv'
<1>1. CASE UNCHANGED homeVars
  BY <1>1 DEF HomeInv, homeVars
<1>2. CASE Home!networkInfoEvent \/ Home!HomeTimer
  BY <1>2 DEF HomeInv, Home!networkInfoEvent, Home!HomeTimer, Home!portVars
<1>3. CASE Home!TestPorts
  BY <1>3 DEF HomeInv, Home!TestPorts
<1>4. CASE Home!TestDone
  BY <1>4 DEF HomeInv, Home!TestDone, Home!AllAnswered
<1>5. ASSUME NEW p \in Home!Port, Home!markResult(p)
      PROVE  HomeInv'
  BY <1>5 DEF HomeInv, Home!markResult
<1> QED
  BY <1>1, <1>2, <1>3, <1>4, <1>5 DEF Home!Next

\* StatusPanel.  Math.round of a part of a whole, in percent.
LEMMA Quotient ==
  ASSUME NEW a \in Nat, NEW b \in Nat, b > 0
  PROVE  /\ a \div b \in Nat
         /\ b * (a \div b) <= a /\ a < b * (a \div b) + b
  OBVIOUS

LEMMA RoundedNat ==
  ASSUME NEW a \in Nat, NEW b \in Nat, b > 0
  PROVE  Panel!Rounded(a, b) \in Nat
  BY Quotient DEF Panel!Rounded

LEMMA Percents ==
  ASSUME NEW c \in Nat, NEW k \in Nat, c <= k, k > 0
  PROVE  /\ Panel!Rounded(100 * c, k) \in 0 .. 100
         /\ c = k => Panel!Rounded(100 * c, k) = 100
<1> DEFINE a == 2 * (100 * c) + k
           b == 2 * k
           q == a \div b
<1>1. a \in Nat /\ b \in Nat /\ b > 0 /\ a <= 100 * b + k /\ k < b
  OBVIOUS
<1>2. c = k => a = 100 * b + k
  OBVIOUS
<1> HIDE DEF a, b
<1>3. q \in Nat /\ b * q <= a /\ a < b * q + b
  BY <1>1, Quotient
<1> HIDE DEF q
<1>4. q <= 100
  <2> SUFFICES ASSUME q >= 101 PROVE FALSE
    BY <1>3
  <2>1. b * q >= b * 101
    BY <1>1, <1>3
  <2> QED
    BY <2>1, <1>1, <1>3
<1>5. ASSUME c = k PROVE q >= 100
  <2> SUFFICES ASSUME q <= 99 PROVE FALSE
    BY <1>3
  <2>1. b * q <= b * 99
    BY <1>1, <1>3
  <2> QED
    BY <2>1, <1>1, <1>2, <1>3, <1>5
<1>6. Panel!Rounded(100 * c, k) = q
  BY DEF Panel!Rounded, q, a, b
<1> QED
  BY <1>3, <1>4, <1>5, <1>6

LEMMA PanelConstants ==
  CONFIRMED_LIMIT \in Nat /\ CONFIRMED_LIMIT > 0 /\ Counts \subseteq Nat /\ Times \subseteq Nat \ {0}
  BY PagesAssumption

\* The transactions remembered are the last ones a bubble was shown for.
PanelInv ==
  /\ notified \in Seq(Transaction) /\ confirmedTransactions \in Seq(Transaction)
  /\ Len(confirmedTransactions) =
       IF Len(notified) < CONFIRMED_LIMIT THEN Len(notified) ELSE CONFIRMED_LIMIT
  /\ \A i \in DOMAIN confirmedTransactions :
       confirmedTransactions[i] = notified[Len(notified) - Len(confirmedTransactions) + i]
  /\ Panel!NotifiedOnce
  /\ syncStatus \in Panel!Status \union {Panel!NoStatus}
  /\ loadingStateSpeed \in Nat
  /\ Panel!ProgressInFrame

LEMMA PanelInit == PagesInit => PanelInv
<1> SUFFICES ASSUME PagesInit PROVE PanelInv
  OBVIOUS
<1>1. /\ notified = <<>> /\ confirmedTransactions = <<>>
      /\ syncStatus = Panel!NoStatus /\ loadingItemsProgress = 0 /\ loadingStateSpeed = 0
  BY Zenon DEF PagesInit, Panel!Init
<1>2. <<>> \in Seq(Transaction) /\ Len(<<>>) = 0
  BY EmptySeq
<1>3. Panel!NotifiedOnce
  BY <1>1 DEF Panel!NotifiedOnce
<1>4. syncStatus = Panel!NoStatus /\ loadingStateSpeed \in Nat /\ Panel!ProgressInFrame
  BY <1>1 DEF Panel!NoStatus, Panel!ProgressInFrame
<1> QED
  BY <1>1, <1>2, <1>3, <1>4, PanelConstants DEF PanelInv

LEMMA NotifiedApart ==
  ASSUME PanelInv, NEW i \in 1 .. Len(notified), NEW j \in 1 .. Len(notified),
         i < j, j - i < CONFIRMED_LIMIT
  PROVE  notified[i] # notified[j]
<1>1. DOMAIN notified = 1 .. Len(notified)
  BY DEF PanelInv
<1> QED
  BY <1>1 DEF PanelInv, Panel!NotifiedOnce

LEMMA ReportKeeps ==
  ASSUME PanelInv, NEW s \in Panel!Status, NEW seconds \in Times,
         Panel!setSyncStatus(s, seconds), UNCHANGED Panel!txVars
  PROVE  PanelInv'
<1>1. /\ s.curCnt \in Nat /\ s.knownCnt \in Nat /\ s.curCnt <= s.knownCnt
      /\ seconds \in Nat /\ seconds > 0 /\ syncStatus.curCnt \in Nat
  <2>1. \A any \in Panel!Status :
          any.curCnt \in Nat /\ any.knownCnt \in Nat /\ any.curCnt <= any.knownCnt
    <3> TAKE any \in Panel!Status
    <3>1. /\ any \in [stage : Panel!Stage, curCnt : Counts, knownCnt : Counts]
          /\ any.curCnt <= any.knownCnt
      BY DEF Panel!Status
    <3> QED
      BY <3>1, PanelConstants
  <2>2. Panel!NoStatus.curCnt \in Nat
    BY DEF Panel!NoStatus
  <2>3. syncStatus \in Panel!Status \/ syncStatus = Panel!NoStatus
    BY DEF PanelInv
  <2> QED
    BY <2>1, <2>2, <2>3, PanelConstants
<1>2. UNCHANGED <<notified, confirmedTransactions>>
  BY DEF Panel!txVars
<1>3. Panel!NotifiedOnce'
  BY <1>2 DEF PanelInv, Panel!NotifiedOnce
<1>4. loadingStateSpeed' \in Nat
  <2>1. ASSUME NEW old \in Nat, NEW new \in Nat PROVE Panel!Speed(old, new, seconds) \in Nat
    <3>1. CASE new < old
      BY <3>1 DEF Panel!Speed
    <3>2. CASE ~(new < old)
      <4>1. 10 * (new - old) \in Nat
        BY <3>2
      <4> QED
        BY <3>2, <4>1, <1>1, RoundedNat DEF Panel!Speed
    <3> QED
      BY <3>1, <3>2
  <2>2. Panel!Speed(syncStatus.curCnt, s.curCnt, seconds) \in Nat
    BY <1>1, <2>1
  <2> QED
    BY <2>2 DEF Panel!setSyncStatus, PanelInv
<1>5. Panel!ProgressInFrame'
  <2>1. CASE s.stage = "Complete"
    BY <2>1, <1>4 DEF Panel!setSyncStatus, PanelInv, Panel!ProgressInFrame
  <2>2. CASE s.stage # "Complete"
    <3>1. loadingItemsProgress' = Panel!Progress(s) /\ syncStatus' = s
      BY <2>2 DEF Panel!setSyncStatus
    <3>2. Panel!Progress(s) \in 0 .. 100
      BY <1>1, Percents DEF Panel!Progress
    <3>3. s.stage = "PivotBlock" => Panel!Progress(s) = 0
      BY DEF Panel!Progress
    <3>4. s.stage = "StateNodes" /\ s.curCnt > 0 /\ s.curCnt = s.knownCnt => Panel!Progress(s) = 100
      BY <1>1, Percents DEF Panel!Progress
    <3> QED
      BY <3>1, <3>2, <3>3, <3>4, <1>4 DEF Panel!ProgressInFrame
  <2> QED
    BY <2>1, <2>2
<1>6. syncStatus' = s
  BY DEF Panel!setSyncStatus
<1> QED
  BY <1>2, <1>3, <1>4, <1>5, <1>6 DEF PanelInv

LEMMA ConfirmedKeeps ==
  ASSUME PanelInv, Panel!onConfirmedTransaction
  PROVE  PanelInv'
<1> DEFINE n == Len(notified)
           m == Len(confirmedTransactions)
<1>1. UNCHANGED <<syncStatus, loadingItemsProgress, loadingStateSpeed>>
  BY DEF Panel!onConfirmedTransaction, Panel!syncVars
<1>2. Panel!ProgressInFrame'
  BY <1>1 DEF PanelInv, Panel!ProgressInFrame
<1>3. CASE UNCHANGED <<notified, confirmedTransactions>>
  BY <1>1, <1>2, <1>3 DEF PanelInv, Panel!NotifiedOnce
<1>4. ASSUME NEW t \in Transaction, ~Panel!Contains(confirmedTransactions, t),
             confirmedTransactions' = Panel!Remembered(Append(confirmedTransactions, t)),
             notified' = Append(notified, t)
      PROVE  PanelInv'
  <2> DEFINE app == Append(confirmedTransactions, t)
  <2>0. n \in Nat /\ m \in Nat /\ CONFIRMED_LIMIT \in Nat /\ CONFIRMED_LIMIT > 0
    BY PanelConstants DEF PanelInv
  <2>1. /\ notified' \in Seq(Transaction) /\ Len(notified') = n + 1
        /\ \A i \in 1 .. n : notified'[i] = notified[i]
        /\ notified'[n + 1] = t
    BY <1>4, AppendProperties DEF PanelInv
  <2>2. /\ app \in Seq(Transaction) /\ Len(app) = m + 1 /\ app # <<>>
        /\ \A i \in 1 .. m : app[i] = confirmedTransactions[i]
        /\ app[m + 1] = t
    BY AppendProperties DEF PanelInv
  <2>3. m = IF n < CONFIRMED_LIMIT THEN n ELSE CONFIRMED_LIMIT
    BY DEF PanelInv
  <2>4. \A i \in 1 .. m : confirmedTransactions[i] = notified[n - m + i]
    BY DEF PanelInv
  <2>5. \A i \in 1 .. m : confirmedTransactions[i] # t
    BY <1>4 DEF Panel!Contains
  <2> HIDE DEF n, m, app
  <2>6. \A i \in 1 .. m + 1 : app[i] = notified'[n - m + i]
    <3> TAKE i \in 1 .. m + 1
    <3>1. CASE i = m + 1
      BY <3>1, <2>0, <2>1, <2>2
    <3>2. CASE i \in 1 .. m
      <4>1. n - m + i \in 1 .. n
        BY <3>2, <2>0, <2>3
      <4> QED
        BY <3>2, <4>1, <2>1, <2>2, <2>4
    <3> QED
      BY <3>1, <3>2, <2>0
  <2>7. Panel!NotifiedOnce'
    <3> SUFFICES ASSUME NEW i \in 1 .. n + 1, NEW j \in 1 .. n + 1,
                        i < j, j - i < CONFIRMED_LIMIT
                 PROVE  notified'[i] # notified'[j]
      BY <2>0, <2>1 DEF Panel!NotifiedOnce
    <3>1. CASE j \in 1 .. n
      <4>1. i \in 1 .. n
        BY <3>1, <2>0
      <4>2. \A a, b \in 1 .. n : a < b /\ b - a < CONFIRMED_LIMIT => notified[a] # notified[b]
        BY NotifiedApart DEF n
      <4> QED
        BY <3>1, <4>1, <4>2, <2>1
    <3>2. CASE j = n + 1
      <4> DEFINE p == i - (n - m)
      <4>1. p \in 1 .. m /\ n - m + p = i /\ i \in 1 .. n
        BY <3>2, <2>0, <2>3
      <4> HIDE DEF p
      <4>2. notified[i] # t
        BY <4>1, <2>4, <2>5
      <4> QED
        BY <3>2, <4>1, <4>2, <2>1
    <3> QED
      BY <3>1, <3>2, <2>0
  <2>8. CASE m + 1 > CONFIRMED_LIMIT
    <3>1. confirmedTransactions' = Tail(app)
      BY <1>4, <2>2, <2>8 DEF Panel!Remembered, app
    <3>2. /\ Tail(app) \in Seq(Transaction) /\ Len(Tail(app)) = m
          /\ \A i \in 1 .. m : Tail(app)[i] = app[i + 1]
      BY <2>2, <2>0, HeadTailProperties
    <3>3. m = CONFIRMED_LIMIT /\ ~(n + 1 < CONFIRMED_LIMIT)
      BY <2>8, <2>0, <2>3
    <3>4. \A i \in 1 .. m : Tail(app)[i] = notified'[(n + 1) - m + i]
      <4> TAKE i \in 1 .. m
      <4>1. i + 1 \in 1 .. m + 1 /\ n - m + (i + 1) = (n + 1) - m + i
        BY <2>0
      <4> QED
        BY <4>1, <3>2, <2>6
    <3>5. DOMAIN confirmedTransactions' = 1 .. m /\ Len(confirmedTransactions') = m
      BY <3>1, <3>2, <2>0
    <3> QED
      BY <3>1, <3>2, <3>3, <3>4, <3>5, <2>1, <2>7, <1>1, <1>2 DEF PanelInv
  <2>9. CASE ~(m + 1 > CONFIRMED_LIMIT)
    <3>1. confirmedTransactions' = app
      BY <1>4, <2>2, <2>9 DEF Panel!Remembered, app
    <3>2. m = n /\ m + 1 = IF n + 1 < CONFIRMED_LIMIT THEN n + 1 ELSE CONFIRMED_LIMIT
      BY <2>9, <2>0, <2>3
    <3>3. \A i \in 1 .. m + 1 : app[i] = notified'[(n + 1) - (m + 1) + i]
      <4> TAKE i \in 1 .. m + 1
      <4>1. n - m + i = (n + 1) - (m + 1) + i
        BY <2>0
      <4> QED
        BY <4>1, <2>6
    <3>4. DOMAIN confirmedTransactions' = 1 .. m + 1 /\ Len(confirmedTransactions') = m + 1
      BY <3>1, <2>2, <2>0
    <3> QED
      BY <3>1, <3>2, <3>3, <3>4, <2>1, <2>2, <2>7, <1>1, <1>2 DEF PanelInv
  <2> QED
    BY <2>8, <2>9
<1> QED
  BY <1>3, <1>4 DEF Panel!onConfirmedTransaction, Panel!txVars

LEMMA PanelStep ==
  ASSUME PanelInv, [Panel!Next]_statusVars
  PROVE  PanelInv'
<1>1. CASE UNCHANGED statusVars
  BY <1>1 DEF PanelInv, statusVars, Panel!NotifiedOnce, Panel!ProgressInFrame
<1>2. CASE Panel!onBlockchainInfoResult
  BY <1>2, ReportKeeps DEF Panel!onBlockchainInfoResult
<1>3. CASE Panel!onConfirmedTransaction
  BY <1>3, ConfirmedKeeps
<1> QED
  BY <1>1, <1>2, <1>3 DEF Panel!Next

\* A transaction gets one bubble among as many in a row as AppCtrl remembers,
\* the bar of setSyncStatus stays in its frame whatever counts are reported in
\* whatever order of stages, and a test of the ports leaves no question mark.
THEOREM StatusHolds == PagesSpec => []StatusShown
<1>1. HomeInv /\ PanelInv /\ [PagesNext]_pagesVars => HomeInv' /\ PanelInv'
  BY EachPartSteps, HomeStep, PanelStep
<1>2. HomeInv /\ PanelInv => StatusShown
  BY DEF HomeInv, PanelInv, StatusShown, Home!PortsAnswered
<1> QED
  BY <1>1, <1>2, HomeInit, PanelInit, PTL DEF PagesSpec

-----------------------------------------------------------------------------
\* SendDialog.  A chain has the amount and the secret of its click, is sent
\* only with a secret that fits, and what was submitted is what its chain says.
StepOfFlow == {"asked", "unlock", "sent", "receipt", "failed", "after", "done"}

FlowRecord ==
  [step : StepOfFlow, amount : 1 .. 2, secret : Send!Secret, form : Send!Form,
   switched : BOOLEAN, to : {"none", "x", "y"}, lockAsked : BOOLEAN]

OfItsClick(flow) == flow.amount = flow.form.amount /\ flow.secret = flow.form.secret

SentRightly(flow, form, typed) ==
  /\ flow.step = "sent" => flow.secret # "wrong"
  /\ typed = 0 => flow.form = form /\ (flow.step = "sent" => flow.to = form.to)

SendInv ==
  /\ txData \in Send!Form /\ sendOpen \in BOOLEAN /\ edits \in Nat
  /\ flows \in Seq(FlowRecord) /\ Len(flows) <= MaxClicks
  /\ unlockedBy \subseteq Send!Flow
  /\ \A f \in 1 .. Len(flows) : OfItsClick(flows[f]) /\ SentRightly(flows[f], txData, edits)
  /\ \A t \in submitted :
       /\ t.by \in 1 .. Len(flows)
       /\ t.amount = flows[t.by].form.amount
       /\ edits = 0 => t.to = flows[t.by].form.to
       /\ flows[t.by].secret # "wrong"

LEMMA SendInit == PagesInit => SendInv
<1> SUFFICES ASSUME PagesInit PROVE SendInv
  OBVIOUS
<1>1. Send!Init
  BY DEF PagesInit
<1>2. flows = <<>> /\ submitted = {} /\ unlockedBy = {} /\ edits = 0 /\ sendOpen = TRUE
  BY <1>1 DEF Send!Init
<1>3. txData \in Send!Form
  BY <1>1 DEF Send!Init, Send!Form
<1>4. MaxClicks \in Nat
  BY PagesAssumption
<1> QED
  BY <1>2, <1>3, <1>4 DEF SendInv

LEMMA ClicksNat == MaxClicks \in Nat
  BY PagesAssumption

\* A chain that goes on keeps what it has of its click.
LEMMA FlowGoesOn ==
  ASSUME SendInv, NEW f \in DOMAIN flows, NEW new \in FlowRecord,
         flows' = [flows EXCEPT ![f] = new],
         new.amount = flows[f].amount, new.secret = flows[f].secret, new.form = flows[f].form,
         SentRightly(new, txData, edits), UNCHANGED <<txData, edits>>
  PROVE  /\ flows' \in Seq(FlowRecord) /\ Len(flows') = Len(flows) /\ DOMAIN flows = 1 .. Len(flows)
         /\ \A g \in 1 .. Len(flows) :
              /\ OfItsClick(flows'[g]) /\ SentRightly(flows'[g], txData, edits)
              /\ flows'[g].form = flows[g].form /\ flows'[g].secret = flows[g].secret
<1>1. DOMAIN flows = 1 .. Len(flows) /\ Len(flows) \in Nat
  BY DEF SendInv
<1>2. flows' \in Seq(FlowRecord) /\ Len(flows') = Len(flows)
  BY <1>1, ExceptSeq DEF SendInv
<1>3. ASSUME NEW g \in 1 .. Len(flows)
      PROVE  /\ OfItsClick(flows'[g]) /\ SentRightly(flows'[g], txData, edits)
             /\ flows'[g].form = flows[g].form /\ flows'[g].secret = flows[g].secret
  <2>1. OfItsClick(flows[g]) /\ SentRightly(flows[g], txData, edits)
    BY DEF SendInv
  <2>2. flows'[g] = IF g = f THEN new ELSE flows[g]
    BY <1>1
  <2>3. CASE g = f
    BY <2>1, <2>2, <2>3 DEF OfItsClick, SentRightly
  <2>4. CASE g # f
    BY <2>1, <2>2, <2>4 DEF OfItsClick, SentRightly
  <2> QED
    BY <2>3, <2>4
<1> QED
  BY <1>1, <1>2, <1>3


\* A step of a chain that submits nothing.
LEMMA FlowKeeps ==
  ASSUME SendInv, NEW f \in DOMAIN flows, NEW new \in FlowRecord,
         flows' = [flows EXCEPT ![f] = new],
         new.amount = flows[f].amount, new.secret = flows[f].secret, new.form = flows[f].form,
         SentRightly(new, txData, edits),
         UNCHANGED <<txData, edits, submitted>>,
         sendOpen' \in BOOLEAN, unlockedBy' \subseteq Send!Flow
  PROVE  SendInv'
<1>1. /\ flows' \in Seq(FlowRecord) /\ Len(flows') = Len(flows)
      /\ \A g \in 1 .. Len(flows) :
           /\ OfItsClick(flows'[g]) /\ SentRightly(flows'[g], txData, edits)
           /\ flows'[g].form = flows[g].form /\ flows'[g].secret = flows[g].secret
  BY FlowGoesOn
<1>2. ASSUME NEW t \in submitted
      PROVE  /\ t.by \in 1 .. Len(flows')
             /\ t.amount = flows'[t.by].form.amount
             /\ edits = 0 => t.to = flows'[t.by].form.to
             /\ flows'[t.by].secret # "wrong"
  BY <1>1 DEF SendInv
<1> QED
  BY <1>1, <1>2 DEF SendInv

\* Goes and Sends write one record.
LEMMA WritesFlow ==
  ASSUME SendInv, NEW f \in DOMAIN flows, NEW step \in StepOfFlow
  PROVE  /\ flows[f] \in FlowRecord
         /\ OfItsClick(flows[f]) /\ SentRightly(flows[f], txData, edits)
         /\ Send!Goes(f, step) =>
              \E new \in FlowRecord :
                /\ flows' = [flows EXCEPT ![f] = new] /\ new = [flows[f] EXCEPT !.step = step]
         /\ Send!Sends(f) =>
              \E new \in FlowRecord :
                /\ flows' = [flows EXCEPT ![f] = new]
                /\ new = [flows[f] EXCEPT !.step = "sent", !.to = txData.to]
<1>1. /\ flows \in [DOMAIN flows -> FlowRecord] /\ DOMAIN flows = 1 .. Len(flows)
      /\ txData.to \in {"x", "y"}
  BY DEF SendInv, Send!Form
<1>2. flows[f] \in FlowRecord
  BY <1>1
<1>3. [flows[f] EXCEPT !.step = step] \in FlowRecord
  BY <1>2 DEF FlowRecord
<1>4. [flows[f] EXCEPT !.step = "sent", !.to = txData.to] \in FlowRecord
  BY <1>1, <1>2 DEF FlowRecord, StepOfFlow
<1>5. Send!Goes(f, step) => flows' = [flows EXCEPT ![f] = [flows[f] EXCEPT !.step = step]]
  BY DEF Send!Goes
<1>6. Send!Sends(f) => flows' = [flows EXCEPT ![f] = [flows[f] EXCEPT !.step = "sent", !.to = txData.to]]
  BY DEF Send!Sends
<1>7. OfItsClick(flows[f]) /\ SentRightly(flows[f], txData, edits)
  BY <1>1 DEF SendInv
<1> QED
  BY <1>2, <1>3, <1>4, <1>5, <1>6, <1>7

LEMMA GoesKeeps ==
  ASSUME SendInv, NEW f \in DOMAIN flows, NEW step \in StepOfFlow \ {"sent"}, Send!Goes(f, step),
         UNCHANGED <<txData, edits, submitted>>,
         sendOpen' \in BOOLEAN, unlockedBy' \subseteq Send!Flow
  PROVE  SendInv'
<1>1. PICK new \in FlowRecord :
        flows' = [flows EXCEPT ![f] = new] /\ new = [flows[f] EXCEPT !.step = step]
  BY WritesFlow
<1>2. flows[f] \in FlowRecord /\ SentRightly(flows[f], txData, edits)
  BY WritesFlow
<1>3. /\ new.step = step /\ new.amount = flows[f].amount /\ new.secret = flows[f].secret
      /\ new.form = flows[f].form
  BY <1>1, <1>2 DEF FlowRecord
<1>4. SentRightly(new, txData, edits)
  BY <1>2, <1>3 DEF SentRightly
<1> QED
  BY <1>1, <1>3, <1>4, FlowKeeps

LEMMA SendsKeeps ==
  ASSUME SendInv, NEW f \in DOMAIN flows, Send!Sends(f), flows[f].secret # "wrong",
         UNCHANGED <<txData, edits, submitted>>,
         sendOpen' \in BOOLEAN, unlockedBy' \subseteq Send!Flow
  PROVE  SendInv'
<1>0. "sent" \in StepOfFlow
  BY DEF StepOfFlow
<1>1. PICK new \in FlowRecord :
        flows' = [flows EXCEPT ![f] = new] /\ new = [flows[f] EXCEPT !.step = "sent", !.to = txData.to]
  BY <1>0, WritesFlow
<1>2. flows[f] \in FlowRecord /\ SentRightly(flows[f], txData, edits)
  BY <1>0, WritesFlow
<1>3. /\ new.step = "sent" /\ new.amount = flows[f].amount /\ new.secret = flows[f].secret
      /\ new.form = flows[f].form /\ new.to = txData.to
  BY <1>1, <1>2 DEF FlowRecord
<1>4. SentRightly(new, txData, edits)
  BY <1>2, <1>3 DEF SentRightly
<1> QED
  BY <1>1, <1>3, <1>4, FlowKeeps

\* The steps of a chain up to the sending.
LEMMA AsksKeep ==
  ASSUME SendInv, NEW f \in DOMAIN flows, Send!PricesAnswered(f) \/ Send!UnlockAnswered(f)
  PROVE  SendInv'
<1>0. /\ {"unlock", "failed"} \subseteq StepOfFlow \ {"sent"}
      /\ sendOpen \in BOOLEAN /\ unlockedBy \subseteq Send!Flow
      /\ f \in Send!Flow
  BY ClicksNat DEF StepOfFlow, SendInv, Send!Flow
<1>1. CASE Send!PricesAnswered(f)
  <2>1. UNCHANGED <<txData, sendOpen, edits, submitted, unlockedBy>>
    BY <1>1 DEF Send!PricesAnswered
  <2>2. CASE Send!Goes(f, "failed")
    BY <1>0, <2>1, <2>2, GoesKeeps
  <2>3. CASE Send!Goes(f, "unlock")
    BY <1>0, <2>1, <2>3, GoesKeeps
  <2>4. CASE flows[f].secret # "wrong" /\ Send!Sends(f)
    BY <1>0, <2>1, <2>4, SendsKeeps
  <2> QED
    BY <1>1, <2>2, <2>3, <2>4 DEF Send!PricesAnswered
<1>2. CASE Send!UnlockAnswered(f)
  <2>1. UNCHANGED <<txData, sendOpen, edits, submitted>> /\ unlockedBy' \subseteq Send!Flow
    BY <1>0, <1>2 DEF Send!UnlockAnswered
  <2>2. CASE Send!Goes(f, "failed")
    BY <1>0, <2>1, <2>2, GoesKeeps
  <2>3. CASE flows[f].secret = "right" /\ Send!Sends(f)
    BY <1>0, <2>1, <2>3, SendsKeeps
  <2> QED
    BY <1>2, <2>2, <2>3 DEF Send!UnlockAnswered
<1> QED
  BY <1>1, <1>2

\* The answer to the sending: what is submitted is the chain's.
LEMMA SubmitsKeeps ==
  ASSUME SendInv, NEW f \in DOMAIN flows, Send!SendAnswered(f)
  PROVE  SendInv'
<1> DEFINE mine == Send!Transfer(f)
<1>0. /\ {"receipt", "failed"} \subseteq StepOfFlow \ {"sent"}
      /\ sendOpen \in BOOLEAN /\ unlockedBy \subseteq Send!Flow
      /\ f \in 1 .. Len(flows)
  BY DEF StepOfFlow, SendInv
<1>1. flows[f].step = "sent" /\ UNCHANGED <<txData, edits, unlockedBy>>
  BY DEF Send!SendAnswered
<1>2. flows[f] \in FlowRecord /\ OfItsClick(flows[f]) /\ SentRightly(flows[f], txData, edits)
  BY <1>0, WritesFlow
<1>3. CASE UNCHANGED submitted
  <2>1. Send!Goes(f, "failed") \/ Send!Goes(f, "receipt")
    BY DEF Send!SendAnswered
  <2>2. sendOpen' \in BOOLEAN
    BY <1>0 DEF Send!SendAnswered
  <2> QED
    BY <1>0, <1>1, <1>3, <2>1, <2>2, GoesKeeps
<1>4. CASE submitted' = submitted \union {mine}
  <2>1. PICK step \in {"receipt", "failed"} : Send!Goes(f, step)
    BY DEF Send!SendAnswered
  <2>2. sendOpen' \in BOOLEAN
    BY <1>0 DEF Send!SendAnswered
  <2>3. step \in StepOfFlow \ {"sent"}
    BY <1>0
  <2>4. PICK new \in FlowRecord :
          flows' = [flows EXCEPT ![f] = new] /\ new = [flows[f] EXCEPT !.step = step]
    BY <2>1, <2>3, WritesFlow
  <2>5. /\ new.step = step /\ new.amount = flows[f].amount /\ new.secret = flows[f].secret
        /\ new.form = flows[f].form
    BY <2>4, <1>2 DEF FlowRecord
  <2>6. SentRightly(new, txData, edits)
    BY <1>2, <2>3, <2>5 DEF SentRightly
  <2>7. /\ flows' \in Seq(FlowRecord) /\ Len(flows') = Len(flows)
        /\ \A g \in 1 .. Len(flows) :
             /\ OfItsClick(flows'[g]) /\ SentRightly(flows'[g], txData, edits)
             /\ flows'[g].form = flows[g].form /\ flows'[g].secret = flows[g].secret
    BY <1>1, <2>4, <2>5, <2>6, FlowGoesOn
  <2>8. /\ mine.by = f /\ mine.amount = flows[f].form.amount
        /\ edits = 0 => mine.to = flows[f].form.to
        /\ flows[f].secret # "wrong"
    BY <1>1, <1>2 DEF Send!Transfer, OfItsClick, SentRightly
  <2> HIDE DEF mine
  <2>9. ASSUME NEW t \in submitted'
        PROVE  /\ t.by \in 1 .. Len(flows')
               /\ t.amount = flows'[t.by].form.amount
               /\ edits = 0 => t.to = flows'[t.by].form.to
               /\ flows'[t.by].secret # "wrong"
    <3>1. CASE t = mine
      BY <3>1, <1>0, <2>7, <2>8
    <3>2. CASE t \in submitted
      BY <3>2, <2>7 DEF SendInv
    <3> QED
      BY <3>1, <3>2, <1>4
  <2> QED
    BY <1>0, <1>1, <2>2, <2>7, <2>9 DEF SendInv
<1> QED
  BY <1>3, <1>4 DEF Send!SendAnswered

LEMMA EndsKeep ==
  ASSUME SendInv, NEW f \in DOMAIN flows,
         Send!ReceiptAnswered(f) \/ Send!CatchError(f) \/ Send!LockBack(f)
  PROVE  SendInv'
<1>0. /\ {"after", "failed"} \subseteq StepOfFlow \ {"sent"}
      /\ sendOpen \in BOOLEAN /\ unlockedBy \subseteq Send!Flow /\ "done" \in StepOfFlow
  BY DEF StepOfFlow, SendInv
<1>1. UNCHANGED <<txData, sendOpen, edits, submitted, unlockedBy>>
  BY DEF Send!ReceiptAnswered, Send!CatchError, Send!LockBack
<1>2. CASE Send!ReceiptAnswered(f) \/ Send!CatchError(f)
  <2>1. Send!Goes(f, "after") \/ Send!Goes(f, "failed")
    BY <1>2 DEF Send!ReceiptAnswered, Send!CatchError
  <2> QED
    BY <1>0, <1>1, <2>1, GoesKeeps
<1>3. CASE Send!LockBack(f)
  <2> DEFINE new == [flows[f] EXCEPT !.step = "done", !.lockAsked = (txData.signType = "keystore")]
  <2>1. flows[f] \in FlowRecord /\ SentRightly(flows[f], txData, edits)
    BY <1>0, WritesFlow
  <2>2. flows' = [flows EXCEPT ![f] = new]
    BY <1>3 DEF Send!LockBack
  <2>3. new \in FlowRecord
    BY <1>0, <2>1 DEF FlowRecord
  <2>4. /\ new.step = "done" /\ new.amount = flows[f].amount /\ new.secret = flows[f].secret
        /\ new.form = flows[f].form
    BY <2>1 DEF FlowRecord
  <2> HIDE DEF new
  <2>5. SentRightly(new, txData, edits)
    BY <2>1, <2>4 DEF SentRightly
  <2> QED
    BY <1>0, <1>1, <2>2, <2>3, <2>4, <2>5, FlowKeeps
<1> QED
  BY <1>2, <1>3

LEMMA EditKeeps ==
  ASSUME SendInv, Send!EditForm
  PROVE  SendInv'
<1> DEFINE marked(f) == [flows[f] EXCEPT !.switched = TRUE]
<1>1. /\ edits' \in Nat /\ edits' # 0 /\ txData' \in Send!Form
      /\ UNCHANGED <<submitted, unlockedBy, sendOpen>>
  BY DEF SendInv, Send!EditForm
<1>2. /\ DOMAIN flows = 1 .. Len(flows) /\ Len(flows) \in Nat
      /\ \A f \in 1 .. Len(flows) : flows[f] \in FlowRecord
  BY DEF SendInv
<1>3. /\ DOMAIN flows' = DOMAIN flows
      /\ \A f \in DOMAIN flows : flows'[f] \in {flows[f], marked(f)}
  BY DEF Send!EditForm
<1>4. ASSUME NEW f \in 1 .. Len(flows)
      PROVE  /\ flows'[f] \in FlowRecord
             /\ flows'[f].amount = flows[f].amount /\ flows'[f].secret = flows[f].secret
             /\ flows'[f].form = flows[f].form /\ flows'[f].step = flows[f].step
  <2>1. flows[f] \in FlowRecord
    BY <1>2
  <2>2. /\ marked(f) \in FlowRecord
        /\ marked(f).amount = flows[f].amount /\ marked(f).secret = flows[f].secret
        /\ marked(f).form = flows[f].form /\ marked(f).step = flows[f].step
    BY <2>1 DEF FlowRecord
  <2>3. flows'[f] = flows[f] \/ flows'[f] = marked(f)
    BY <1>2, <1>3
  <2> HIDE DEF marked
  <2> QED
    BY <2>1, <2>2, <2>3
<1>5. flows' \in Seq(FlowRecord) /\ Len(flows') = Len(flows)
  <2>1. flows' = [f \in 1 .. Len(flows) |-> flows'[f]]
    BY <1>2 DEF Send!EditForm
  <2>2. [f \in 1 .. Len(flows) |-> flows'[f]] \in Seq(FlowRecord)
    BY <1>2, <1>4, IsASeq
  <2> QED
    BY <2>1, <2>2, <1>2, <1>3
<1>6. \A f \in 1 .. Len(flows) : OfItsClick(flows[f]) /\ SentRightly(flows[f], txData, edits)
  BY DEF SendInv
<1>7. \A f \in 1 .. Len(flows) : OfItsClick(flows'[f]) /\ SentRightly(flows'[f], txData', edits')
  BY <1>1, <1>4, <1>6 DEF OfItsClick, SentRightly
<1>8. ASSUME NEW t \in submitted
      PROVE  /\ t.by \in 1 .. Len(flows')
             /\ t.amount = flows'[t.by].form.amount
             /\ flows'[t.by].secret # "wrong"
  BY <1>4, <1>5 DEF SendInv
<1> QED
  BY <1>1, <1>5, <1>7, <1>8 DEF SendInv

LEMMA ClickKeeps ==
  ASSUME SendInv, Send!onSignAndSend
  PROVE  SendInv'
<1> DEFINE new == [step |-> "asked", amount |-> txData.amount, secret |-> txData.secret,
                   form |-> txData, switched |-> FALSE, to |-> "none", lockAsked |-> FALSE]
           n == Len(flows)
<1>1. /\ flows' = Append(flows, new) /\ n < MaxClicks
      /\ UNCHANGED <<txData, sendOpen, edits, submitted, unlockedBy>>
  BY DEF Send!onSignAndSend
<1>2. new \in FlowRecord
  BY DEF SendInv, FlowRecord, StepOfFlow, Send!Form, Send!Secret
<1>3. OfItsClick(new) /\ SentRightly(new, txData, edits)
  BY DEF OfItsClick, SentRightly
<1> HIDE DEF new
<1>4. /\ flows' \in Seq(FlowRecord) /\ Len(flows') = n + 1 /\ n \in Nat
      /\ \A i \in 1 .. n : flows'[i] = flows[i]
      /\ flows'[n + 1] = new
  BY <1>1, <1>2, AppendProperties DEF SendInv
<1>5. Len(flows') <= MaxClicks
  BY <1>1, <1>4, ClicksNat
<1>6. \A f \in 1 .. n + 1 : OfItsClick(flows'[f]) /\ SentRightly(flows'[f], txData, edits)
  <2> TAKE f \in 1 .. n + 1
  <2>1. CASE f = n + 1
    BY <2>1, <1>3, <1>4
  <2>2. CASE f \in 1 .. n
    BY <2>2, <1>4 DEF SendInv
  <2> QED
    BY <2>1, <2>2, <1>4
<1>7. ASSUME NEW t \in submitted
      PROVE  /\ t.by \in 1 .. n + 1
             /\ t.amount = flows'[t.by].form.amount
             /\ edits = 0 => t.to = flows'[t.by].form.to
             /\ flows'[t.by].secret # "wrong"
  <2>1. /\ t.by \in 1 .. n
        /\ t.amount = flows[t.by].form.amount
        /\ edits = 0 => t.to = flows[t.by].form.to
        /\ flows[t.by].secret # "wrong"
    BY DEF SendInv
  <2> QED
    BY <2>1, <1>4
<1> QED
  BY <1>1, <1>4, <1>5, <1>6, <1>7 DEF SendInv

LEMMA SendStep ==
  ASSUME SendInv, [Send!Next]_sendVars
  PROVE  SendInv'
<1>1. CASE UNCHANGED sendVars
  BY <1>1 DEF SendInv, sendVars
<1>2. CASE Send!EditForm \/ Send!onSignAndSend
  BY <1>2, EditKeeps, ClickKeeps
<1>3. ASSUME NEW f \in DOMAIN flows, Send!FlowSteps(f)
      PROVE  SendInv'
  BY <1>3, AsksKeep, SubmitsKeeps, EndsKeep DEF Send!FlowSteps
<1> QED
  BY <1>1, <1>2, <1>3 DEF Send!Next

-----------------------------------------------------------------------------
\* WalletPage.  While a price is awaited it will be multiplied with the total
\* shown then; when none is, the last one was, unless it came too early.
PurseInv ==
  /\ Purse!TypeOK
  /\ infosSent \in 0 .. MaxInfos /\ prices <= infosSent
  /\ phrases \in 0 .. MaxPhrases
  /\ prices = 0 /\ ~priceMissed => totalUSD = walletTotal
  /\ phraseAddress = phrase
  /\ Purse!ImportedOfPhrase

LEMMA InfosNat == MaxInfos \in Nat /\ MaxPhrases \in Nat
  BY PagesAssumption

LEMMA PurseInit == PagesInit => PurseInv
<1> SUFFICES ASSUME PagesInit PROVE PurseInv
  OBVIOUS
<1>1. Purse!Init
  BY DEF PagesInit
<1>2. <<>> \in Seq(1 .. MaxInfos)
  BY EmptySeq
<1> QED
  BY <1>1, <1>2, InfosNat DEF Purse!Init, PurseInv, Purse!TypeOK, Purse!ImportedOfPhrase

LEMMA PurseStep ==
  ASSUME PurseInv, [Purse!Next]_walletPageVars
  PROVE  PurseInv'
<1> USE InfosNat DEF PurseInv, Purse!TypeOK, Purse!ImportedOfPhrase
<1>1. CASE UNCHANGED walletPageVars
  BY <1>1 DEF walletPageVars
<1>2. CASE Purse!walletInfoEvent
  <2>1. /\ infosSent' \in 1 .. MaxInfos /\ prices' = prices + 1 /\ infosSent' = infosSent + 1
        /\ walletTimers' = Append(walletTimers, infosSent')
        /\ UNCHANGED <<walletTotal, totalUSD, phrase, phraseAddress, generating, phrases, importedOf>>
    BY <1>2 DEF Purse!walletInfoEvent, Purse!phraseVars
  <2>2. walletTimers' \in Seq(1 .. MaxInfos)
    BY <2>1, AppendProperties
  <2>3. prices' \in 0 .. MaxInfos /\ prices' <= infosSent' /\ prices' # 0
    BY <2>1
  <2> QED
    BY <2>1, <2>2, <2>3
<1>3. CASE Purse!WalletTimer
  <2>1. /\ walletTotal' = Head(walletTimers) /\ walletTimers' = Tail(walletTimers)
        /\ walletTimers # <<>> /\ priceMissed' = (priceMissed \/ prices = 0)
        /\ UNCHANGED <<infosSent, prices, totalUSD, phrase, phraseAddress, generating, phrases, importedOf>>
    BY <1>3 DEF Purse!WalletTimer, Purse!phraseVars
  <2>2. walletTotal' \in 1 .. MaxInfos /\ walletTimers' \in Seq(1 .. MaxInfos)
    BY <2>1, HeadTailProperties
  <2>3. walletTotal' \in 0 .. MaxInfos
    BY <2>2
  <2>4. ~(prices = 0 /\ ~priceMissed')
    BY <2>1
  <2> QED
    BY <2>1, <2>2, <2>3, <2>4
<1>4. CASE Purse!PriceAnswered
  <2>1. /\ prices > 0 /\ prices' = prices - 1
        /\ UNCHANGED <<walletTotal, walletTimers, infosSent, phrase, phraseAddress, generating, phrases, importedOf>>
        /\ \/ totalUSD' = walletTotal /\ priceMissed' = priceMissed
           \/ totalUSD' = totalUSD /\ priceMissed' = (priceMissed \/ prices = 1)
    BY <1>4 DEF Purse!PriceAnswered, Purse!phraseVars, Purse!UsdOf
  <2>2. prices' \in 0 .. MaxInfos /\ prices' <= infosSent
    BY <2>1
  <2>3. totalUSD' \in 0 .. MaxInfos
    BY <2>1
  <2>4. prices' = 0 /\ ~priceMissed' => totalUSD' = walletTotal
    <3>1. CASE totalUSD' = walletTotal
      BY <3>1
    <3>2. CASE priceMissed' = (priceMissed \/ prices = 1) /\ prices = 1
      <4>1. priceMissed'
        BY <3>2, Zenon
      <4> QED
        BY <4>1
    <3>3. CASE prices # 1
      <4>1. prices' # 0
        BY <3>3, <2>1
      <4> QED
        BY <4>1
    <3> QED
      BY <3>1, <3>2, <3>3, <2>1
  <2> QED
    BY <2>1, <2>2, <2>3, <2>4
<1>5. CASE Purse!onGeneratePhrase
  BY <1>5 DEF Purse!onGeneratePhrase, Purse!walletVars
<1>6. CASE Purse!WordsAnswered
  BY <1>6 DEF Purse!WordsAnswered, Purse!walletVars, Purse!SetPhrase
<1>7. CASE Purse!TypePhrase
  BY <1>7 DEF Purse!TypePhrase, Purse!walletVars
<1>8. CASE Purse!onPhraseAddressConfirmed
  BY <1>8 DEF Purse!onPhraseAddressConfirmed, Purse!walletVars
<1> QED
  BY <1>1, <1>2, <1>3, <1>4, <1>5, <1>6, <1>7, <1>8 DEF Purse!Next

\* What a transfer spends is what the form held at its click, whatever is typed
\* into it while prices, nonce and unlock are awaited, with a secret that fits;
\* and what is imported is the address of the phrase on screen.
THEOREM DialogsHold == PagesSpec => []DialogsConfirmed
<1>1. SendInv /\ PurseInv /\ [PagesNext]_pagesVars => SendInv' /\ PurseInv'
  BY EachPartSteps, SendStep, PurseStep
<1>2. SendInv => Send!TypeOK
  <2> SUFFICES ASSUME SendInv PROVE Send!TypeOK
    OBVIOUS
  <2>1. DOMAIN flows = 1 .. Len(flows) /\ \A f \in 1 .. Len(flows) : flows[f] \in FlowRecord
    BY DEF SendInv
  <2>2. \A f \in DOMAIN flows : flows[f].step \in StepOfFlow
    BY <2>1 DEF FlowRecord
  <2> QED
    BY <2>2 DEF SendInv, Send!TypeOK, StepOfFlow
<1>3. SendInv => Send!SpendsAsConfirmed
  BY DEF SendInv, Send!SpendsAsConfirmed
<1>4. SendInv /\ PurseInv => DialogsConfirmed
  BY <1>2, <1>3 DEF PurseInv, DialogsConfirmed
<1> QED
  BY <1>1, <1>4, SendInit, PurseInit, PTL DEF PagesSpec

-----------------------------------------------------------------------------
\* Sequences of requests lose one at a time.
LEMMA RemoveAtProperties ==
  ASSUME NEW S, NEW s \in Seq(S), NEW k \in 1 .. Len(s)
  PROVE  /\ RemoveAt(s, k) \in Seq(S) /\ Len(RemoveAt(s, k)) = Len(s) - 1
         /\ \A j \in 1 .. Len(s) - 1 : RemoveAt(s, k)[j] = IF j < k THEN s[j] ELSE s[j + 1]
<1> DEFINE n == Len(s)
           a == SubSeq(s, 1, k - 1)
           b == SubSeq(s, k + 1, Len(s))
<1>1. n \in Nat /\ k \in 1 .. n /\ \A j \in 1 .. n : s[j] \in S
  OBVIOUS
<1>2. a \in Seq(S) /\ Len(a) = k - 1 /\ \A j \in 1 .. k - 1 : a[j] = s[j]
  <2>1. /\ a \in Seq(S)
        /\ Len(a) = IF 1 <= k - 1 THEN k - 1 - 1 + 1 ELSE 0
        /\ \A j \in 1 .. k - 1 - 1 + 1 : a[j] = s[1 + j - 1]
    BY <1>1, SubSeqProperties
  <2> QED
    BY <2>1, <1>1
<1>3. b \in Seq(S) /\ Len(b) = n - k /\ \A j \in 1 .. n - k : b[j] = s[k + j]
  <2>1. /\ b \in Seq(S)
        /\ Len(b) = IF k + 1 <= Len(s) THEN Len(s) - (k + 1) + 1 ELSE 0
        /\ \A j \in 1 .. Len(s) - (k + 1) + 1 : b[j] = s[k + 1 + j - 1]
    BY <1>1, SubSeqProperties
  <2>2. \A j \in 1 .. n - k : b[j] = s[k + j]
    <3> TAKE j \in 1 .. n - k
    <3>1. j \in 1 .. Len(s) - (k + 1) + 1 /\ k + 1 + j - 1 = k + j
      BY <1>1
    <3> QED
      BY <2>1, <3>1
  <2> QED
    BY <2>1, <2>2, <1>1
<1> HIDE DEF a, b
<1>4. /\ a \o b \in Seq(S) /\ Len(a \o b) = Len(a) + Len(b)
      /\ \A j \in 1 .. Len(a) + Len(b) : (a \o b)[j] = IF j <= Len(a) THEN a[j] ELSE b[j - Len(a)]
  BY <1>2, <1>3, ConcatProperties
<1>5. RemoveAt(s, k) = a \o b
  BY DEF RemoveAt, a, b
<1> HIDE DEF n
<1>6. Len(a) + Len(b) = n - 1
  BY <1>1, <1>2, <1>3
<1>7. \A j \in 1 .. n - 1 : (a \o b)[j] = IF j < k THEN s[j] ELSE s[j + 1]
  <2> TAKE j \in 1 .. n - 1
  <2>1. CASE j < k
    <3>1. j <= Len(a) /\ j \in 1 .. k - 1
      BY <2>1, <1>1, <1>2
    <3> QED
      BY <3>1, <2>1, <1>2, <1>4, <1>6
  <2>2. CASE ~(j < k)
    <3>1. ~(j <= Len(a)) /\ j - Len(a) \in 1 .. n - k /\ k + (j - Len(a)) = j + 1
      BY <2>2, <1>1, <1>2
    <3> QED
      BY <3>1, <2>2, <1>3, <1>4, <1>6
  <2> QED
    BY <2>1, <2>2
<1> QED
  BY <1>4, <1>5, <1>6, <1>7 DEF n

LEMMA LeastExists ==
  ASSUME NEW S \in SUBSET Nat, S # {}
  PROVE  \E x \in S : \A y \in S : x <= y
<1>1. PICK x \in S : \A y \in S : ~(<<y, x>> \in OpToRel(<, Nat))
  BY NatLessThanWellFounded, WFMin
<1>2. \A y \in S : ~(y < x)
  BY <1>1 DEF OpToRel
<1> QED
  BY <1>2

\* ContractForm.  Every answer leaves the form, a message or a lost upload.
FormInv ==
  /\ files \in Seq(File) /\ sent \in Seq({"files", "source"})
  /\ submits \in Nat
  /\ ViewForm!SubmitShown

LEMMA FormInit == PagesInit => FormInv
<1> SUFFICES ASSUME PagesInit PROVE FormInv
  OBVIOUS
<1>1. ViewForm!Init
  BY DEF PagesInit
<1>2. <<>> \in Seq(File) /\ <<>> \in Seq({"files", "source"})
  BY EmptySeq
<1>3. files = <<>> /\ allowFileUpload = FALSE /\ sent = <<>> /\ submits = 0
  BY <1>1 DEF ViewForm!Init
<1>4. allowFileUpload = (files # <<>>)
  BY <1>3
<1> QED
  BY <1>2, <1>3, <1>4 DEF FormInv, ViewForm!SubmitShown

LEMMA FormStep ==
  ASSUME FormInv, [ViewForm!Next]_formVars
  PROVE  FormInv'
<1> USE DEF FormInv, ViewForm!SubmitShown
<1>1. CASE UNCHANGED formVars
  BY <1>1 DEF formVars
<1>2. CASE ViewForm!Typed
  BY <1>2 DEF ViewForm!Typed
<1>3. CASE ViewForm!onAddFile
  <2>1. PICK f \in File : files' = Append(files, f)
    BY <1>3 DEF ViewForm!onAddFile
  <2>2. files' \in Seq(File) /\ files' # <<>>
    BY <2>1, AppendProperties
  <2> QED
    BY <1>3, <2>2 DEF ViewForm!onAddFile
<1>4. CASE ViewForm!onRemoveFile
  <2>1. files' \in Seq(File)
    <3> DEFINE places(f) == {k \in 1 .. Len(files) : files[k] = f}
    <3>1. PICK f \in ViewForm!ToSet(files) :
            files' = ViewForm!RemoveAt(files, IF places(f) # {} THEN ViewForm!Min(places(f)) ELSE 0)
      BY <1>4 DEF ViewForm!onRemoveFile, ViewForm!SelectInSeq
    <3> DEFINE least == ViewForm!Min(places(f))
    <3>2. places(f) # {} /\ places(f) \in SUBSET Nat
      BY DEF ViewForm!ToSet
    <3>3. \E x \in places(f) : \A y \in places(f) : x <= y
      BY <3>2, LeastExists
    <3>4. least \in places(f)
      BY <3>3 DEF ViewForm!Min
    <3>5. least \in 1 .. Len(files)
      BY <3>4
    <3> HIDE DEF least
    <3>6. files' = ViewForm!RemoveAt(files, least)
      BY <3>1, <3>2 DEF least
    <3> QED
      BY <3>5, <3>6, RemoveAtProperties DEF RemoveAt, ViewForm!RemoveAt
  <2> QED
    BY <1>4, <2>1 DEF ViewForm!onRemoveFile
<1>5. CASE ViewForm!onFinalAddFiles
  <2>1. CASE newContract.address /\ (files # <<>> \/ newContract.sourceCode)
    <3> DEFINE kind == IF files # <<>> THEN "files" ELSE "source"
    <3>1. kind \in {"files", "source"}
      OBVIOUS
    <3>2. sent' = Append(sent, kind) /\ UNCHANGED <<files, allowFileUpload, path, uploadLost>> /\ submits' = submits + 1
      BY <1>5, <2>1 DEF ViewForm!onFinalAddFiles
    <3> HIDE DEF kind
    <3>3. sent' \in Seq({"files", "source"}) /\ sent' # <<>>
      BY <3>1, <3>2, AppendProperties
    <3> QED
      BY <3>2, <3>3
  <2>2. CASE ~(newContract.address /\ (files # <<>> \/ newContract.sourceCode))
    BY <1>5, <2>2 DEF ViewForm!onFinalAddFiles
  <2> QED
    BY <2>1, <2>2
<1>6. ASSUME NEW i \in DOMAIN sent, ViewForm!SubmitAnswered(i)
      PROVE  FormInv'
  <2>1. sent' = ViewForm!RemoveAt(sent, i) /\ UNCHANGED <<files, allowFileUpload, submits>>
    BY <1>6 DEF ViewForm!SubmitAnswered
  <2>2. sent' \in Seq({"files", "source"})
    BY <2>1, RemoveAtProperties DEF RemoveAt, ViewForm!RemoveAt
  <2>3. submitErrorMessage' \/ path' = "contracts" \/ uploadLost'
    BY <1>6 DEF ViewForm!SubmitAnswered, ViewForm!Accepted, ViewForm!Refused, ViewForm!Failed
  <2> QED
    BY <2>1, <2>2, <2>3
<1> QED
  BY <1>1, <1>2, <1>3, <1>4, <1>5, <1>6 DEF ViewForm!Next

\* RpcUsagePage.  No update and no item is ahead of the server.
Stat == [count : Nat, json : BOOLEAN]

UsageInv ==
  /\ stats \in [Usage!Methods -> Stat]
  /\ updates \in Seq([Usage!Methods -> Stat])
  /\ \A k \in 1 .. Len(updates), i \in Usage!Methods : updates[k][i].count <= stats[i].count
  /\ rpcItems # <<>> \/ lastUpdate # <<>> =>
       /\ rpcItems \in [Usage!Methods -> Nat]
       /\ \A i \in Usage!Methods : rpcItems[i] <= stats[i].count
  /\ Usage!CountsShown

LEMMA UsageInit == PagesInit => UsageInv
<1> SUFFICES ASSUME PagesInit PROVE UsageInv
  OBVIOUS
<1>1. /\ stats = [i \in Usage!Methods |-> [count |-> 0, json |-> TRUE]]
      /\ updates = <<>> /\ rpcItems = <<>> /\ lastUpdate = <<>>
  BY DEF PagesInit, Usage!Init
<1>2. <<>> \in Seq([Usage!Methods -> Stat]) /\ Len(<<>>) = 0
  BY EmptySeq
<1>3. [count |-> 0, json |-> TRUE] \in Stat
  BY DEF Stat
<1> QED
  BY <1>1, <1>2, <1>3 DEF UsageInv, Usage!CountsShown

LEMMA InvokedKeeps ==
  ASSUME UsageInv, Usage!methodInvoked
  PROVE  UsageInv'
<1>1. PICK i \in Usage!Methods, json \in BOOLEAN :
        stats' = [stats EXCEPT ![i] = [count |-> stats[i].count + 1, json |-> json]]
  BY DEF Usage!methodInvoked
<1>2. UNCHANGED <<updates, rpcItems, lastUpdate>>
  BY DEF Usage!methodInvoked
<1> DEFINE new == [count |-> stats[i].count + 1, json |-> json]
<1>3. \A m \in Usage!Methods : stats[m] \in Stat /\ stats[m].count \in Nat
  BY DEF UsageInv, Stat
<1>4. new \in Stat /\ new.count = stats[i].count + 1
  BY <1>3 DEF Stat
<1>5. stats' \in [Usage!Methods -> Stat]
  BY <1>1, <1>4 DEF UsageInv
<1>6. \A m \in Usage!Methods : stats[m].count <= stats'[m].count
  <2> TAKE m \in Usage!Methods
  <2>1. stats'[m] = IF m = i THEN new ELSE stats[m]
    BY <1>1 DEF UsageInv
  <2> QED
    BY <2>1, <1>3, <1>4
<1>7. \A m \in Usage!Methods : stats'[m].count \in Nat
  BY <1>5 DEF Stat
<1>8. \A k \in 1 .. Len(updates), m \in Usage!Methods :
        updates[k][m].count \in Nat /\ updates[k][m].count <= stats'[m].count
  <2> TAKE k \in 1 .. Len(updates), m \in Usage!Methods
  <2>1. updates[k] \in [Usage!Methods -> Stat]
    BY DEF UsageInv
  <2>2. updates[k][m].count \in Nat
    BY <2>1 DEF Stat
  <2>3. updates[k][m].count <= stats[m].count
    BY DEF UsageInv
  <2> QED
    BY <2>2, <2>3, <1>3, <1>6, <1>7
<1>9. rpcItems # <<>> \/ lastUpdate # <<>> =>
        \A m \in Usage!Methods : rpcItems[m] \in Nat /\ rpcItems[m] <= stats'[m].count
  <2> SUFFICES ASSUME rpcItems # <<>> \/ lastUpdate # <<>>, NEW m \in Usage!Methods
               PROVE  rpcItems[m] \in Nat /\ rpcItems[m] <= stats'[m].count
    OBVIOUS
  <2>1. rpcItems[m] \in Nat /\ rpcItems[m] <= stats[m].count
    BY DEF UsageInv
  <2> QED
    BY <2>1, <1>3, <1>6, <1>7
<1>10. Usage!CountsShown'
  BY <1>2, <1>9 DEF UsageInv, Usage!CountsShown
<1> QED
  BY <1>2, <1>5, <1>8, <1>9, <1>10 DEF UsageInv

LEMMA ListSentKeeps ==
  ASSUME UsageInv, Usage!rpcUsageListEvent
  PROVE  UsageInv'
<1>1. updates' = Append(updates, stats) /\ UNCHANGED <<stats, rpcItems, lastUpdate>>
  BY DEF Usage!rpcUsageListEvent
<1>2. stats \in [Usage!Methods -> Stat] /\ updates \in Seq([Usage!Methods -> Stat])
  BY DEF UsageInv
<1>3. /\ updates' \in Seq([Usage!Methods -> Stat]) /\ Len(updates') = Len(updates) + 1
      /\ \A k \in 1 .. Len(updates) : updates'[k] = updates[k]
      /\ updates'[Len(updates) + 1] = stats /\ Len(updates) \in Nat
  BY <1>1, <1>2, AppendProperties
<1>4. \A k \in 1 .. Len(updates'), i \in Usage!Methods : updates'[k][i].count <= stats[i].count
  <2> TAKE k \in 1 .. Len(updates'), i \in Usage!Methods
  <2>1. CASE k = Len(updates) + 1
    <3>1. stats[i].count \in Nat
      BY <1>2 DEF Stat
    <3> QED
      BY <2>1, <3>1, <1>3
  <2>2. CASE k \in 1 .. Len(updates)
    BY <2>2, <1>3 DEF UsageInv
  <2> QED
    BY <2>1, <2>2, <1>3
<1> QED
  BY <1>1, <1>3, <1>4 DEF UsageInv, Usage!CountsShown

LEMMA UpdateShownKeeps ==
  ASSUME UsageInv, Usage!UpdateTimer
  PROVE  UsageInv'
<1> DEFINE source == Head(updates)
           first == [i \in Usage!Methods |-> source[i].count]
           target == IF rpcItems = <<>> THEN first ELSE rpcItems
<1>1. /\ updates # <<>> /\ updates' = Tail(updates) /\ UNCHANGED stats
      /\ lastUpdate' = source
      /\ rpcItems' = [i \in Usage!Methods |->
                        IF \E j \in 1 .. i - 1 : ~source[j].json THEN target[i] ELSE source[i].count]
  BY DEF Usage!UpdateTimer, Usage!synchronizeArrays
<1>2. /\ stats \in [Usage!Methods -> Stat] /\ updates \in Seq([Usage!Methods -> Stat])
      /\ source = updates[1] /\ 1 \in 1 .. Len(updates)
  BY <1>1 DEF UsageInv
<1>3. \A i \in Usage!Methods : source[i].count \in Nat /\ source[i].count <= stats[i].count
  <2> TAKE i \in Usage!Methods
  <2>1. updates[1] \in [Usage!Methods -> Stat]
    BY <1>2
  <2>2. updates[1][i].count \in Nat
    BY <2>1 DEF Stat
  <2>3. updates[1][i].count <= stats[i].count
    BY <1>2 DEF UsageInv
  <2> QED
    BY <1>2, <2>2, <2>3
<1>4. /\ updates' \in Seq([Usage!Methods -> Stat]) /\ Len(updates') = Len(updates) - 1
      /\ \A k \in 1 .. Len(updates') : updates'[k] = updates[k + 1] /\ k + 1 \in 1 .. Len(updates)
  BY <1>1, <1>2, HeadTailProperties
<1> HIDE DEF source
<1>5. \A i \in Usage!Methods : target[i] \in Nat /\ target[i] <= stats[i].count
  BY <1>3 DEF UsageInv
<1> HIDE DEF target
<1>6. /\ rpcItems' \in [Usage!Methods -> Nat]
      /\ \A i \in Usage!Methods : rpcItems'[i] <= stats[i].count
  BY <1>1, <1>3, <1>5
<1>7. \A k \in 1 .. Len(updates'), i \in Usage!Methods : updates'[k][i].count <= stats[i].count
  BY <1>4 DEF UsageInv
<1>8. ASSUME NEW i \in Usage!Methods, \A j \in 1 .. i - 1 : source[j].json
      PROVE  rpcItems'[i] = source[i].count
  BY <1>1, <1>8
<1>9. Usage!CountsShown'
  BY <1>1, <1>6, <1>8 DEF Usage!CountsShown
<1> QED
  BY <1>1, <1>2, <1>4, <1>6, <1>7, <1>9 DEF UsageInv

LEMMA UsageStep ==
  ASSUME UsageInv, [Usage!Next]_usageVars
  PROVE  UsageInv'
<1>1. CASE UNCHANGED usageVars
  BY <1>1 DEF UsageInv, Usage!CountsShown, usageVars
<1>2. CASE Usage!methodInvoked
  BY <1>2, InvokedKeeps
<1>3. CASE Usage!rpcUsageListEvent
  BY <1>3, ListSentKeeps
<1>4. CASE Usage!UpdateTimer
  BY <1>4, UpdateShownKeeps
<1>5. CASE Usage!showLastResult
  BY <1>5 DEF UsageInv, Usage!CountsShown, Usage!showLastResult
<1> QED
  BY <1>1, <1>2, <1>3, <1>4, <1>5 DEF Usage!Next

\* TerminalPage.  A visit without a terminal has not looked at its URL; one
\* that has, has run the command, waits to run it, or never will.
UrlLooked ==
  /\ \A v \in awaiting : executed[v] = 0
  /\ termVisit # 0 /\ container.scope = 0 => executed[termVisit] = 0 /\ termVisit \notin awaiting

TermInv ==
  /\ Term!TypeOK /\ termVisit <= termVisits
  /\ executed \in [Term!TermVisit -> {0, 1}]
  /\ \A v \in Term!TermVisit : v > termVisits => executed[v] = 0 /\ v \notin awaiting
  /\ UrlLooked

LEMMA TermConstants == TermVisits \in Nat /\ MaxLoads \in Nat
  BY PagesAssumption

LEMMA TermInit == PagesInit => TermInv
<1> SUFFICES ASSUME PagesInit PROVE TermInv
  OBVIOUS
<1>1. Term!Init
  BY DEF PagesInit
<1>2. /\ termVisit = 0 /\ termVisits = 0 /\ container = Term!NoTerminal /\ polling = {} /\ awaiting = {}
      /\ loads = [v \in Term!TermVisit |-> 0] /\ executed = [v \in Term!TermVisit |-> 0]
      /\ running = "none" /\ modal = 0
  BY <1>1 DEF Term!Init
<1>3. container.scope = 0
  BY <1>2 DEF Term!NoTerminal
<1>4. Term!TypeOK
  BY <1>2, <1>3, TermConstants DEF Term!TypeOK
<1> QED
  BY <1>2, <1>3, <1>4 DEF TermInv, UrlLooked

\* createTerminal looks at the URL of the visit on screen, which has not been
\* done; no other visit is concerned.
LEMMA CreateKeeps ==
  ASSUME TermInv, NEW v \in Term!TermVisit, NEW methods, NEW known,
         Term!createTerminal(v, methods, known), termVisit' \in 0 .. TermVisits,
         termVisit' # 0 /\ ~(container.scope # 0 /\ termVisit' = termVisit) =>
           executed[termVisit'] = 0 /\ termVisit' \notin awaiting
  PROVE  /\ container'.scope \in 0 .. TermVisits
         /\ executed' \in [Term!TermVisit -> {0, 1}] /\ awaiting' \subseteq Term!TermVisit
         /\ \A w \in Term!TermVisit : w # termVisit' =>
              executed'[w] = executed[w] /\ (w \in awaiting' <=> w \in awaiting)
         /\ UrlLooked'
<1>0. /\ executed \in [Term!TermVisit -> {0, 1}] /\ awaiting \subseteq Term!TermVisit
      /\ container.scope \in 0 .. TermVisits
      /\ \A w \in awaiting : executed[w] = 0
  BY DEF TermInv, Term!TypeOK, UrlLooked
<1>1. CASE termVisit' = 0
  BY <1>0, <1>1 DEF Term!createTerminal, UrlLooked
<1>2. CASE container.scope # 0 /\ termVisit' = termVisit
  BY <1>0, <1>2 DEF Term!createTerminal, UrlLooked
<1>3. CASE termVisit' # 0 /\ ~(container.scope # 0 /\ termVisit' = termVisit)
  <2> DEFINE u == termVisit'
  <2>1. u \in Term!TermVisit /\ executed[u] = 0 /\ u \notin awaiting
    BY <1>3, TermConstants DEF Term!TermVisit
  <2>2. /\ container' = [methods |-> methods, scope |-> v]
        /\ \/ executed' = [executed EXCEPT ![u] = executed[u] + 1] /\ awaiting' = awaiting
           \/ awaiting' = awaiting \union {u} /\ executed' = executed
           \/ awaiting' = awaiting /\ executed' = executed
    BY <1>3 DEF Term!createTerminal
  <2>3. container'.scope = v /\ v \in 1 .. TermVisits
    BY <2>2 DEF Term!TermVisit
  <2> HIDE DEF u
  <2>4. container'.scope \in 0 .. TermVisits /\ container'.scope # 0
    BY <2>3, TermConstants
  <2>5. /\ executed' \in [Term!TermVisit -> {0, 1}] /\ awaiting' \subseteq Term!TermVisit
        /\ \A w \in Term!TermVisit : w # u =>
             executed'[w] = executed[w] /\ (w \in awaiting' <=> w \in awaiting)
        /\ \A w \in awaiting' : executed'[w] = 0
    <3>1. CASE executed' = [executed EXCEPT ![u] = executed[u] + 1] /\ awaiting' = awaiting
      BY <3>1, <1>0, <2>1
    <3>2. CASE awaiting' = awaiting \union {u} /\ executed' = executed
      BY <3>2, <1>0, <2>1
    <3>3. CASE awaiting' = awaiting /\ executed' = executed
      BY <3>3, <1>0
    <3> QED
      BY <2>2, <3>1, <3>2, <3>3
  <2>6. UrlLooked'
    BY <2>4, <2>5 DEF UrlLooked
  <2> QED
    BY <2>4, <2>5, <2>6 DEF u
<1> QED
  BY <1>1, <1>2, <1>3

LEMMA OpenTerminalKeeps ==
  ASSUME TermInv, Term!OpenTerminal
  PROVE  TermInv'
<1> DEFINE v == termVisits + 1
<1>1. /\ termVisit = 0 /\ termVisits < TermVisits /\ termVisit' = v /\ termVisits' = v
      /\ termVisits \in Nat /\ v \in Nat /\ v > termVisits /\ v \in Term!TermVisit
      /\ UNCHANGED <<hash, featureRpc, words, commands, running, modal>>
  BY TermConstants DEF Term!OpenTerminal, TermInv, Term!TypeOK, Term!TermVisit
<1>2. executed[v] = 0 /\ v \notin awaiting
  BY <1>1 DEF TermInv
<1>3. loads' \in [Term!TermVisit -> 0 .. MaxLoads] /\ polling' \subseteq Term!TermVisit
  <2>1. loads \in [Term!TermVisit -> 0 .. MaxLoads] /\ polling \subseteq Term!TermVisit
    BY DEF TermInv, Term!TypeOK
  <2>2. loads' = loads \/ (loads' = [loads EXCEPT ![v] = loads[v] + 2] /\ loads[v] + 2 <= MaxLoads)
    BY DEF Term!OpenTerminal, Term!Load
  <2>3. polling' = polling \/ polling' = polling \union {v}
    BY DEF Term!OpenTerminal
  <2>4. loads[v] \in 0 .. MaxLoads
    BY <1>1, <2>1
  <2> HIDE DEF v
  <2>5. CASE loads' = [loads EXCEPT ![v] = loads[v] + 2] /\ loads[v] + 2 <= MaxLoads
    <3>1. loads[v] + 2 \in 0 .. MaxLoads
      BY <2>4, <2>5, TermConstants
    <3> QED
      BY <1>1, <2>1, <2>3, <2>5, <3>1
  <2> QED
    BY <1>1, <2>1, <2>2, <2>3, <2>5
<1>4. /\ container'.scope \in 0 .. TermVisits
      /\ executed' \in [Term!TermVisit -> {0, 1}] /\ awaiting' \subseteq Term!TermVisit
      /\ \A w \in Term!TermVisit : w # termVisit' =>
           executed'[w] = executed[w] /\ (w \in awaiting' <=> w \in awaiting)
      /\ UrlLooked'
  <2>1. CASE Term!createTerminal(v, TRUE, TRUE)
    <3>1. termVisit' \in 0 .. TermVisits
      BY <1>1 DEF Term!TermVisit
    <3> HIDE DEF v
    <3> QED
      BY <2>1, <3>1, <1>1, <1>2, CreateKeeps
  <2>2. CASE UNCHANGED <<container, awaiting, executed>>
    BY <2>2, <1>1, <1>2 DEF TermInv, Term!TypeOK, UrlLooked
  <2> QED
    BY <2>1, <2>2 DEF Term!OpenTerminal
<1>5. ASSUME NEW w \in Term!TermVisit, w > v
      PROVE  executed'[w] = 0 /\ w \notin awaiting'
  BY <1>1, <1>4, <1>5 DEF TermInv, Term!TermVisit
<1>6. Term!TypeOK'
  BY <1>1, <1>3, <1>4 DEF TermInv, Term!TypeOK, Term!TermVisit
<1> QED
  BY <1>1, <1>4, <1>5, <1>6 DEF TermInv

LEMMA AnsweredKeeps ==
  ASSUME TermInv, NEW v \in Term!TermVisit, Term!MethodsAnswered(v) \/ Term!MethodsFailed(v)
  PROVE  TermInv'
<1>1. /\ UNCHANGED <<termVisit, termVisits, polling, running, modal>>
      /\ loads' = [loads EXCEPT ![v] = loads[v] - 1] /\ loads[v] > 0
  BY DEF Term!MethodsAnswered, Term!MethodsFailed, Term!Answered
<1>2. termVisit' \in 0 .. TermVisits
  BY <1>1 DEF TermInv, Term!TypeOK
<1>3. termVisit' # 0 /\ ~(container.scope # 0 /\ termVisit' = termVisit) =>
        executed[termVisit'] = 0 /\ termVisit' \notin awaiting
  BY <1>1 DEF TermInv, UrlLooked
<1>4. Term!createTerminal(v, TRUE, TRUE) \/ Term!createTerminal(v, FALSE, words)
  BY DEF Term!MethodsAnswered, Term!MethodsFailed
<1>5. /\ container'.scope \in 0 .. TermVisits
      /\ executed' \in [Term!TermVisit -> {0, 1}] /\ awaiting' \subseteq Term!TermVisit
      /\ \A w \in Term!TermVisit : w # termVisit' =>
           executed'[w] = executed[w] /\ (w \in awaiting' <=> w \in awaiting)
      /\ UrlLooked'
  BY <1>2, <1>3, <1>4, CreateKeeps
<1>6. loads' \in [Term!TermVisit -> 0 .. MaxLoads]
  <2>1. loads \in [Term!TermVisit -> 0 .. MaxLoads] /\ loads[v] \in 0 .. MaxLoads
    BY DEF TermInv, Term!TypeOK
  <2>2. loads[v] - 1 \in 0 .. MaxLoads
    BY <1>1, <2>1, TermConstants
  <2> QED
    BY <1>1, <2>1, <2>2
<1>7. Term!TypeOK'
  BY <1>1, <1>5, <1>6 DEF TermInv, Term!TypeOK
<1>8. ASSUME NEW w \in Term!TermVisit, w > termVisits
      PROVE  executed'[w] = 0 /\ w \notin awaiting'
  <2>1. w # termVisit'
    BY <1>1, <1>8 DEF TermInv, Term!TypeOK, Term!TermVisit
  <2> QED
    BY <2>1, <1>5, <1>8 DEF TermInv
<1> QED
  BY <1>1, <1>5, <1>7, <1>8 DEF TermInv

LEMMA TermStep ==
  ASSUME TermInv, [Term!Next]_termVars
  PROVE  TermInv'
<1>1. CASE UNCHANGED termVars
  BY <1>1 DEF TermInv, Term!TypeOK, UrlLooked, termVars
<1>2. CASE Term!OpenTerminal
  BY <1>2, OpenTerminalKeeps
<1>3. CASE Term!LeaveTerminal
  BY <1>3, TermConstants DEF Term!LeaveTerminal, Term!NoTerminal, TermInv, Term!TypeOK, UrlLooked
<1>4. CASE Term!initialInfo \/ Term!onCommandEnter
  BY <1>4 DEF Term!initialInfo, Term!onCommandEnter, TermInv, Term!TypeOK, UrlLooked
<1>5. CASE Term!CommandAnswered \/ Term!onSignAndSend
  BY <1>5, TermConstants
     DEF Term!CommandAnswered, Term!onSignAndSend, TermInv, Term!TypeOK, UrlLooked
<1>6. ASSUME NEW v \in Term!TermVisit, Term!Poll(v)
      PROVE  TermInv'
  <2>1. loads \in [Term!TermVisit -> 0 .. MaxLoads] /\ loads[v] \in 0 .. MaxLoads
    BY DEF TermInv, Term!TypeOK
  <2>2. loads' = loads \/ (loads' = [loads EXCEPT ![v] = loads[v] + 1] /\ loads[v] + 1 <= MaxLoads)
    BY <1>6 DEF Term!Poll, Term!Load
  <2>3. loads' \in [Term!TermVisit -> 0 .. MaxLoads]
    <3>1. CASE loads' = [loads EXCEPT ![v] = loads[v] + 1] /\ loads[v] + 1 <= MaxLoads
      <4>1. loads[v] + 1 \in 0 .. MaxLoads
        BY <2>1, <3>1, TermConstants
      <4> QED
        BY <2>1, <3>1, <4>1
    <3> QED
      BY <2>1, <2>2, <3>1
  <2>4. polling' \subseteq polling
    BY <1>6 DEF Term!Poll
  <2>5. UNCHANGED <<termVisit, termVisits, container, awaiting, executed, running, modal>>
    BY <1>6 DEF Term!Poll
  <2> QED
    BY <2>3, <2>4, <2>5 DEF TermInv, Term!TypeOK, UrlLooked
<1>7. ASSUME NEW v \in Term!TermVisit, Term!MethodsAnswered(v) \/ Term!MethodsFailed(v)
      PROVE  TermInv'
  BY <1>7, AnsweredKeeps
<1>8. ASSUME NEW v \in Term!TermVisit, Term!ExecTimer(v)
      PROVE  TermInv'
  <2>1. /\ v \in awaiting /\ awaiting' = awaiting \ {v}
        /\ \/ executed' = executed
           \/ executed' = [executed EXCEPT ![v] = executed[v] + 1]
        /\ UNCHANGED <<termVisit, termVisits, loads, polling, container, running, modal>>
    BY <1>8 DEF Term!ExecTimer
  <2>2. executed \in [Term!TermVisit -> {0, 1}] /\ executed[v] = 0
    BY <2>1 DEF TermInv, UrlLooked
  <2>3. /\ executed' \in [Term!TermVisit -> {0, 1}]
        /\ \A w \in Term!TermVisit : w # v => executed'[w] = executed[w]
    BY <2>1, <2>2
  <2>4. Term!TypeOK'
    BY <2>1 DEF TermInv, Term!TypeOK
  <2>5. UrlLooked'
    <3>1. \A w \in awaiting' : executed'[w] = 0
      BY <2>1, <2>3 DEF TermInv, UrlLooked, Term!TypeOK
    <3>2. termVisit # 0 /\ container.scope = 0 => executed'[termVisit] = 0 /\ termVisit \notin awaiting'
      <4> SUFFICES ASSUME termVisit # 0, container.scope = 0
                   PROVE  executed'[termVisit] = 0 /\ termVisit \notin awaiting'
        OBVIOUS
      <4>1. termVisit \notin awaiting /\ executed[termVisit] = 0 /\ termVisit \in Term!TermVisit
        BY TermConstants DEF TermInv, UrlLooked, Term!TypeOK, Term!TermVisit
      <4> QED
        BY <4>1, <2>1, <2>3
    <3> QED
      BY <3>1, <3>2, <2>1 DEF UrlLooked
  <2>6. ASSUME NEW w \in Term!TermVisit, w > termVisits
        PROVE  executed'[w] = 0 /\ w \notin awaiting'
    <3>1. executed[w] = 0 /\ w \notin awaiting
      BY <2>6 DEF TermInv
    <3> QED
      BY <3>1, <2>1, <2>3
  <2> QED
    BY <2>1, <2>3, <2>4, <2>5, <2>6 DEF TermInv
<1> QED
  BY <1>1, <1>2, <1>3, <1>4, <1>5, <1>6, <1>7, <1>8 DEF Term!Next

\* Every answer counts for what it is: a form that was sent leaves the list or
\* a message, the counts shown are those of the last update, the value in USD
\* is that of the total, and the command in a URL is run at most once, however
\* many requests, updates and prices are under way and in whatever order they
\* come.
THEOREM AnswersHold == PagesSpec => []AnswersShown
<1>1. /\ FormInv /\ UsageInv /\ PurseInv /\ TermInv /\ [PagesNext]_pagesVars
      => FormInv' /\ UsageInv' /\ PurseInv' /\ TermInv'
  BY EachPartSteps, FormStep, UsageStep, PurseStep, TermStep
<1>2. TermInv => Term!TypeOK /\ Term!UrlCommandOnce
  <2> SUFFICES ASSUME TermInv PROVE Term!TypeOK /\ Term!UrlCommandOnce
    OBVIOUS
  <2>1. \A v \in Term!TermVisit : executed[v] \in {0, 1}
    BY DEF TermInv
  <2> QED
    BY <2>1 DEF TermInv, Term!UrlCommandOnce
<1>3. PurseInv => Purse!TypeOK /\ Purse!UsdOfTotal
  BY DEF PurseInv, Purse!UsdOfTotal
<1>4. FormInv /\ UsageInv /\ PurseInv /\ TermInv => AnswersShown
  BY <1>2, <1>3 DEF FormInv, UsageInv, AnswersShown
<1>5. PagesInit => FormInv /\ UsageInv /\ PurseInv /\ TermInv
  BY FormInit, UsageInit, PurseInit, TermInit
<1> QED
  BY <1>1, <1>4, <1>5, PTL DEF PagesSpec

-----------------------------------------------------------------------------
\* ContractsPage.  Every request is of a kind and for a contract or none, and
\* as long as nothing was overtaken the fields shown are those of the contract
\* whose name is shown, or are still asked for.
ContractOrNone == Contract \union {None}

ViewRequest ==
  [kind : {"status", "list"}, of : ContractOrNone]
    \union [kind : {"balance", "fields", "delete"}, of : Contract]
    \union [kind : {"import"}, of : ContractOrNone, then : ContractOrNone]

FieldsAsked(requested_, c) ==
  \E k \in 1 .. Len(requested_) : requested_[k].kind = "fields" /\ requested_[k].of = c

ViewInv ==
  /\ View!TypeOK
  /\ asked \in Seq(ViewRequest)
  /\ isViewingStorage /\ ~overtaken =>
       /\ balance \in {None, address}
       /\ fields = address \/ FieldsAsked(asked, address)

LEMMA ViewInit == PagesInit => ViewInv
<1> SUFFICES ASSUME PagesInit PROVE ViewInv
  OBVIOUS
<1>1. /\ watched \subseteq Contract /\ contracts = {} /\ isViewingStorage = FALSE
      /\ address = None /\ balance = None /\ fields = None /\ lastViewingItem = None
      /\ isImporting = FALSE /\ importingError = FALSE /\ synced \in BOOLEAN /\ syncedBlock = FALSE
      /\ asked = <<View!List(None), View!Status>>
  BY DEF PagesInit, View!Init
<1>2. View!List(None) \in ViewRequest /\ View!Status \in ViewRequest
  BY DEF View!List, View!Status, View!Request, ViewRequest, ContractOrNone
<1>3. asked \in Seq(ViewRequest)
  BY <1>1, <1>2
<1> QED
  BY <1>1, <1>3 DEF ViewInv, View!TypeOK

\* A request that is answered or fails is removed, the others stay.
LEMMA RestKeeps ==
  ASSUME ViewInv, NEW k \in DOMAIN asked
  PROVE  /\ View!Rest(k) \in Seq(ViewRequest) /\ asked[k] \in ViewRequest
         /\ \A c : FieldsAsked(asked, c) /\ ~(asked[k].kind = "fields" /\ asked[k].of = c)
                     => FieldsAsked(View!Rest(k), c)
<1> DEFINE rest == View!Rest(k)
           n == Len(asked)
<1>1. asked \in Seq(ViewRequest) /\ k \in 1 .. n /\ n \in Nat
  BY DEF ViewInv
<1>2. /\ rest \in Seq(ViewRequest) /\ Len(rest) = n - 1
      /\ \A j \in 1 .. n - 1 : rest[j] = IF j < k THEN asked[j] ELSE asked[j + 1]
  BY <1>1, RemoveAtProperties DEF RemoveAt, View!RemoveAt, View!Rest
<1> HIDE DEF rest, n
<1>3. ASSUME NEW c, FieldsAsked(asked, c), ~(asked[k].kind = "fields" /\ asked[k].of = c)
      PROVE  FieldsAsked(rest, c)
  <2>1. PICK p \in 1 .. n : asked[p].kind = "fields" /\ asked[p].of = c
    BY <1>3 DEF FieldsAsked, n
  <2>2. CASE p < k
    <3>1. p \in 1 .. n - 1 /\ rest[p] = asked[p]
      BY <2>2, <1>1, <1>2
    <3> QED
      BY <3>1, <2>1, <1>2 DEF FieldsAsked
  <2>3. CASE p > k
    <3>1. p - 1 \in 1 .. n - 1 /\ ~(p - 1 < k) /\ (p - 1) + 1 = p
      BY <2>3, <1>1
    <3>2. rest[p - 1] = asked[p]
      BY <3>1, <1>2
    <3> QED
      BY <3>1, <3>2, <2>1, <1>2 DEF FieldsAsked
  <2>4. p # k
    BY <1>3, <2>1
  <2> QED
    BY <2>2, <2>3, <2>4, <1>1
<1>4. asked[k] \in ViewRequest
  BY <1>1
<1> QED
  BY <1>2, <1>3, <1>4 DEF rest

\* A request that is added takes none away.
LEMMA AskKeeps ==
  ASSUME NEW s \in Seq(ViewRequest), NEW more \in Seq(ViewRequest)
  PROVE  /\ s \o more \in Seq(ViewRequest)
         /\ \A c : FieldsAsked(s, c) \/ FieldsAsked(more, c) => FieldsAsked(s \o more, c)
<1>1. /\ s \o more \in Seq(ViewRequest) /\ Len(s \o more) = Len(s) + Len(more)
      /\ \A i \in 1 .. Len(s) + Len(more) :
           (s \o more)[i] = IF i <= Len(s) THEN s[i] ELSE more[i - Len(s)]
  BY ConcatProperties
<1>2. Len(s) \in Nat /\ Len(more) \in Nat
  OBVIOUS
<1>3. ASSUME NEW c, FieldsAsked(s, c) PROVE FieldsAsked(s \o more, c)
  <2>1. PICK p \in 1 .. Len(s) : s[p].kind = "fields" /\ s[p].of = c
    BY <1>3 DEF FieldsAsked
  <2>2. p \in 1 .. Len(s) + Len(more) /\ p <= Len(s)
    BY <1>2
  <2>3. (s \o more)[p] = s[p]
    BY <1>1, <2>2
  <2> QED
    BY <2>1, <2>2, <2>3, <1>1 DEF FieldsAsked
<1>4. ASSUME NEW c, FieldsAsked(more, c) PROVE FieldsAsked(s \o more, c)
  <2>1. PICK p \in 1 .. Len(more) : more[p].kind = "fields" /\ more[p].of = c
    BY <1>4 DEF FieldsAsked
  <2>2. Len(s) + p \in 1 .. Len(s) + Len(more) /\ ~(Len(s) + p <= Len(s)) /\ (Len(s) + p) - Len(s) = p
    BY <1>2
  <2>3. (s \o more)[Len(s) + p] = more[p]
    BY <1>1, <2>2
  <2> QED
    BY <2>1, <2>2, <2>3, <1>1 DEF FieldsAsked
<1> QED
  BY <1>1, <1>3, <1>4

LEMMA SingleAsk ==
  ASSUME NEW r \in ViewRequest
  PROVE  <<r>> \in Seq(ViewRequest)
  OBVIOUS

\* onViewStorage asks for the fields of the contract it shows.
LEMMA ViewingKeeps ==
  ASSUME ViewInv, NEW c \in Contract, NEW rest \in Seq(ViewRequest), View!onViewStorage(c, rest),
         UNCHANGED <<watched, isImporting, synced, syncedBlock>>, contracts' \subseteq Contract
  PROVE  ViewInv'
<1> DEFINE more == <<View!Request("balance", c), View!Request("fields", c)>>
<1>1. /\ isViewingStorage' = TRUE /\ address' = c /\ lastViewingItem' = c /\ balance' = None
      /\ importingError' = FALSE /\ asked' = rest \o more /\ fields' = fields
  BY DEF View!onViewStorage
<1>2. more \in Seq(ViewRequest) /\ Len(more) = 2 /\ more[2].kind = "fields" /\ more[2].of = c
  <2>1. View!Request("balance", c) \in ViewRequest /\ View!Request("fields", c) \in ViewRequest
    BY DEF View!Request, ViewRequest
  <2>2. more[2] = View!Request("fields", c)
    OBVIOUS
  <2> QED
    BY <2>1, <2>2 DEF View!Request
<1> HIDE DEF more
<1>3. FieldsAsked(more, c)
  BY <1>2 DEF FieldsAsked
<1>4. asked' \in Seq(ViewRequest) /\ FieldsAsked(asked', c)
  BY <1>1, <1>2, <1>3, AskKeeps
<1>5. View!TypeOK'
  BY <1>1 DEF ViewInv, View!TypeOK
<1> QED
  BY <1>1, <1>4, <1>5 DEF ViewInv

\* Where only requests that are not for fields come or go, all stays right.
LEMMA ShownKeeps ==
  ASSUME ViewInv, View!TypeOK', asked' \in Seq(ViewRequest),
         \A c : FieldsAsked(asked, c) => FieldsAsked(asked', c),
         UNCHANGED <<isViewingStorage, overtaken, balance, address, fields>>
  PROVE  ViewInv'
<1> QED
  BY DEF ViewInv

LEMMA ClicksOfView ==
  ASSUME ViewInv,
         \/ View!ViewContract \/ View!onBackToList \/ View!onRemoveClick \/ View!onImportContract
         \/ View!newBlockFromEvent \/ View!IndexReady
  PROVE  ViewInv'
<1>0. /\ watched \subseteq Contract /\ contracts \subseteq Contract /\ asked \in Seq(ViewRequest)
      /\ address \in ContractOrNone /\ lastViewingItem \in ContractOrNone
  BY DEF ViewInv, View!TypeOK, ContractOrNone
<1>1. CASE View!ViewContract
  BY <1>0, <1>1, ViewingKeeps DEF View!ViewContract
<1>2. CASE View!onBackToList
  BY <1>2 DEF View!onBackToList, ViewInv, View!TypeOK
<1>3. CASE View!onRemoveClick
  <2>1. PICK c \in contracts : asked' = asked \o <<View!Request("delete", c)>>
    BY <1>3 DEF View!onRemoveClick, View!Ask
  <2>2. View!Request("delete", c) \in ViewRequest
    BY <1>0 DEF View!Request, ViewRequest
  <2>3. <<View!Request("delete", c)>> \in Seq(ViewRequest)
    BY <2>2, SingleAsk
  <2>4. asked' \in Seq(ViewRequest) /\ \A d : FieldsAsked(asked, d) => FieldsAsked(asked', d)
    BY <1>0, <2>1, <2>3, AskKeeps
  <2>5. UNCHANGED <<watched, contracts, isViewingStorage, address, balance, fields, lastViewingItem,
                    isImporting, importingError, overtaken, synced, syncedBlock>>
    BY <1>3 DEF View!onRemoveClick, View!viewVars
  <2>6. View!TypeOK'
    BY <2>5 DEF ViewInv, View!TypeOK
  <2> QED
    BY <2>4, <2>5, <2>6, ShownKeeps
<1>4. CASE View!onImportContract
  <2> DEFINE r == [kind |-> "import", of |-> address, then |-> lastViewingItem]
  <2>1. asked' = asked \o <<r>>
    BY <1>4 DEF View!onImportContract, View!Ask
  <2>2. r \in ViewRequest
    BY <1>0 DEF ViewRequest
  <2> HIDE DEF r
  <2>3. <<r>> \in Seq(ViewRequest)
    BY <2>2, SingleAsk
  <2>4. asked' \in Seq(ViewRequest) /\ \A d : FieldsAsked(asked, d) => FieldsAsked(asked', d)
    BY <1>0, <2>1, <2>3, AskKeeps
  <2>5. /\ UNCHANGED <<watched, contracts, isViewingStorage, address, balance, fields, lastViewingItem,
                       overtaken, synced, syncedBlock>>
        /\ isImporting' = TRUE /\ importingError' = FALSE
    BY <1>4 DEF View!onImportContract, View!viewVars
  <2>6. View!TypeOK'
    BY <2>5 DEF ViewInv, View!TypeOK
  <2> QED
    BY <2>4, <2>5, <2>6, ShownKeeps
<1>5. CASE View!newBlockFromEvent
  <2>1. asked' = asked \o <<View!Status>>
    BY <1>5 DEF View!newBlockFromEvent, View!Ask
  <2>2. View!Status \in ViewRequest
    BY DEF View!Status, View!Request, ViewRequest, ContractOrNone
  <2>3. <<View!Status>> \in Seq(ViewRequest)
    BY <2>2, SingleAsk
  <2>4. asked' \in Seq(ViewRequest) /\ \A d : FieldsAsked(asked, d) => FieldsAsked(asked', d)
    BY <1>0, <2>1, <2>3, AskKeeps
  <2>5. UNCHANGED <<watched, contracts, isViewingStorage, address, balance, fields, lastViewingItem,
                    isImporting, importingError, overtaken, synced, syncedBlock>>
    BY <1>5 DEF View!newBlockFromEvent, View!viewVars
  <2>6. View!TypeOK'
    BY <2>5 DEF ViewInv, View!TypeOK
  <2> QED
    BY <2>4, <2>5, <2>6, ShownKeeps
<1>6. CASE View!IndexReady
  BY <1>6 DEF View!IndexReady, View!viewVars, ViewInv, View!TypeOK
<1> QED
  BY <1>1, <1>2, <1>3, <1>4, <1>5, <1>6

LEMMA AnswersOfView ==
  ASSUME ViewInv, NEW k \in DOMAIN asked, View!Answer(k) \/ View!RequestFailed(k)
  PROVE  ViewInv'
<1> DEFINE r == asked[k]
           rest == View!Rest(k)
<1>0. /\ watched \subseteq Contract /\ contracts \subseteq Contract
      /\ rest \in Seq(ViewRequest) /\ r \in ViewRequest
      /\ \A c : FieldsAsked(asked, c) /\ ~(r.kind = "fields" /\ r.of = c) => FieldsAsked(rest, c)
  BY RestKeeps DEF ViewInv, View!TypeOK
<1>1. /\ r.of \in ContractOrNone
      /\ r.kind \in {"balance", "fields", "delete"} => r.of \in Contract
      /\ r.kind = "import" => r.then \in ContractOrNone
  BY <1>0 DEF ViewRequest, ContractOrNone
<1> HIDE DEF r, rest
<1>2. CASE View!ListAnswered(k)
  <2>1. r.kind = "list"
    BY <1>2 DEF View!ListAnswered, View!Answered, r
  <2>2. CASE r.of \in watched /\ View!onViewStorage(r.of, rest)
    <3>1. r.of \in Contract
      BY <1>0, <2>2
    <3>2. UNCHANGED <<watched, isImporting, synced, syncedBlock>> /\ contracts' \subseteq Contract
      BY <1>0, <1>2 DEF View!ListAnswered
    <3> QED
      BY <1>0, <2>2, <3>1, <3>2, ViewingKeeps
  <2>3. CASE asked' = rest /\ UNCHANGED <<View!viewVars, importingError>>
    <3>1. /\ UNCHANGED <<watched, isViewingStorage, address, balance, fields, lastViewingItem,
                         isImporting, importingError, overtaken, synced, syncedBlock>>
          /\ contracts' \subseteq Contract
      BY <1>0, <1>2, <2>3 DEF View!ListAnswered, View!viewVars
    <3>2. View!TypeOK'
      BY <3>1 DEF ViewInv, View!TypeOK
    <3>3. \A c : FieldsAsked(asked, c) => FieldsAsked(asked', c)
      BY <1>0, <2>1, <2>3
    <3> QED
      BY <1>0, <2>3, <3>1, <3>2, <3>3, ShownKeeps
  <2> QED
    BY <1>2, <2>2, <2>3 DEF View!ListAnswered, r, rest
<1>3. CASE View!BalanceAnswered(k)
  <2>1. /\ r.kind = "balance" /\ balance' = r.of /\ asked' = rest
        /\ overtaken' = (overtaken \/ r.of # address)
        /\ UNCHANGED <<watched, contracts, isViewingStorage, address, fields, lastViewingItem,
                       isImporting, importingError, synced, syncedBlock>>
    BY <1>3 DEF View!BalanceAnswered, View!Answered, r, rest
  <2>2. View!TypeOK'
    BY <1>1, <2>1 DEF ViewInv, View!TypeOK, ContractOrNone
  <2>3. \A c : FieldsAsked(asked, c) => FieldsAsked(rest, c)
    BY <1>0, <2>1
  <2>4. ASSUME isViewingStorage, ~overtaken' PROVE ~overtaken /\ r.of = address
    BY <2>1, <2>4
  <2> QED
    BY <1>0, <2>1, <2>2, <2>3, <2>4 DEF ViewInv
<1>4. CASE View!FieldsAnswered(k)
  <2>1. /\ r.kind = "fields" /\ fields' = r.of /\ asked' = rest
        /\ overtaken' = (overtaken \/ r.of # address \/ ~isViewingStorage)
        /\ UNCHANGED <<watched, contracts, isViewingStorage, address, balance, lastViewingItem,
                       isImporting, importingError, synced, syncedBlock>>
    BY <1>4 DEF View!FieldsAnswered, View!Answered, r, rest
  <2>2. View!TypeOK'
    BY <1>1, <2>1 DEF ViewInv, View!TypeOK, ContractOrNone
  <2>3. ASSUME isViewingStorage, ~overtaken' PROVE ~overtaken /\ r.of = address
    BY <2>1, <2>3
  <2> QED
    BY <1>0, <2>1, <2>2, <2>3 DEF ViewInv
<1>5. CASE View!DeleteAnswered(k)
  <2>1. /\ r.kind = "delete" /\ watched' = watched \ {r.of} /\ asked' = rest \o <<View!List(None)>>
        /\ UNCHANGED <<contracts, isViewingStorage, address, balance, fields, lastViewingItem,
                       isImporting, importingError, overtaken, synced, syncedBlock>>
    BY <1>5 DEF View!DeleteAnswered, View!Answered, View!viewVars, r, rest
  <2>2. View!List(None) \in ViewRequest
    BY DEF View!List, View!Request, ViewRequest, ContractOrNone
  <2>3. <<View!List(None)>> \in Seq(ViewRequest)
    BY <2>2, SingleAsk
  <2>4. asked' \in Seq(ViewRequest) /\ \A c : FieldsAsked(rest, c) => FieldsAsked(asked', c)
    BY <1>0, <2>1, <2>3, AskKeeps
  <2>5. View!TypeOK'
    BY <2>1 DEF ViewInv, View!TypeOK
  <2>6. \A c : FieldsAsked(asked, c) => FieldsAsked(asked', c)
    BY <1>0, <2>1, <2>4
  <2> QED
    BY <2>1, <2>4, <2>5, <2>6, ShownKeeps
<1>6. CASE View!ImportAnswered(k)
  <2>1. /\ r.kind = "import" /\ isImporting' = FALSE
        /\ UNCHANGED <<watched, contracts, isViewingStorage, address, balance, fields,
                       lastViewingItem, overtaken, synced, syncedBlock>>
        /\ \/ asked' = rest \o <<View!List(r.then)>> /\ importingError' = importingError
           \/ asked' = rest /\ importingError' = TRUE
    BY <1>6 DEF View!ImportAnswered, View!Answered, View!viewVars, r, rest
  <2>2. View!List(r.then) \in ViewRequest
    BY <1>1, <2>1 DEF View!List, View!Request, ViewRequest
  <2>3. <<View!List(r.then)>> \in Seq(ViewRequest)
    BY <2>2, SingleAsk
  <2>4. asked' \in Seq(ViewRequest) /\ \A c : FieldsAsked(rest, c) => FieldsAsked(asked', c)
    BY <1>0, <2>1, <2>3, AskKeeps
  <2>5. View!TypeOK'
    BY <2>1 DEF ViewInv, View!TypeOK
  <2>6. \A c : FieldsAsked(asked, c) => FieldsAsked(asked', c)
    BY <1>0, <2>1, <2>4
  <2> QED
    BY <2>1, <2>4, <2>5, <2>6, ShownKeeps
<1>7. CASE View!StatusAnswered(k)
  <2>1. /\ r.kind = "status" /\ syncedBlock' = synced /\ asked' = rest
        /\ UNCHANGED <<watched, contracts, isViewingStorage, address, balance, fields,
                       lastViewingItem, isImporting, importingError, overtaken, synced>>
    BY <1>7 DEF View!StatusAnswered, View!Answered, View!viewVars, r, rest
  <2>2. View!TypeOK'
    BY <2>1 DEF ViewInv, View!TypeOK
  <2>3. \A c : FieldsAsked(asked, c) => FieldsAsked(asked', c)
    BY <1>0, <2>1
  <2> QED
    BY <1>0, <2>1, <2>2, <2>3, ShownKeeps
<1>8. CASE View!RequestFailed(k)
  <2>1. /\ asked' = rest /\ overtaken' = (overtaken \/ r.kind \in {"balance", "fields"})
        /\ UNCHANGED <<watched, contracts, isViewingStorage, address, balance, fields,
                       lastViewingItem, synced, syncedBlock>>
        /\ \/ isImporting' = FALSE /\ importingError' = TRUE
           \/ isImporting' = isImporting /\ importingError' = importingError
    BY <1>8 DEF View!RequestFailed, View!viewVars, r, rest
  <2>2. View!TypeOK'
    BY <2>1 DEF ViewInv, View!TypeOK
  <2>3. ASSUME isViewingStorage, ~overtaken' PROVE ~overtaken /\ r.kind # "fields"
    BY <2>1, <2>3
  <2>4. r.kind # "fields" => \A c : FieldsAsked(asked, c) => FieldsAsked(rest, c)
    BY <1>0
  <2> QED
    BY <1>0, <2>1, <2>2, <2>3, <2>4 DEF ViewInv
<1> QED
  BY <1>2, <1>3, <1>4, <1>5, <1>6, <1>7, <1>8 DEF View!Answer

LEMMA ViewStep ==
  ASSUME ViewInv, [View!Next]_contractVars
  PROVE  ViewInv'
<1>1. CASE UNCHANGED contractVars
  BY <1>1 DEF ViewInv, View!TypeOK, contractVars
<1>2. CASE View!Next
  BY <1>2, ClicksOfView, AnswersOfView DEF View!Next
<1> QED
  BY <1>1, <1>2

\* StorageTree.  While each answer is waited for, the children shown are whole
\* pages or all there are, and the request under way continues them.
InOrder(children) == \A i \in 1 .. Len(children) : children[i] = i

WholePages == Len(entries) = size \/ \E m \in Nat : Len(entries) = m * PAGE_SIZE

Continues(request, children, total, all) ==
  \/ request[1] = 0 /\ request[2] = ShowAllSize /\ total = all
  \/ /\ request[2] = PAGE_SIZE /\ Len(children) = request[1] * PAGE_SIZE
     /\ request[1] = 0 \/ total = all

TreeInv ==
  /\ Tree!TypeOK
  /\ ~overlapped =>
       /\ Len(requests) <= 1
       /\ ~expanded => entries = <<>>
       /\ size <= ShowAllSize =>
            /\ InOrder(entries) /\ WholePages
            /\ expanded /\ Len(requests) = 1 =>
                 Continues(requests[1], entries, totalElements, size)

LEMMA TreeConstants ==
  /\ PAGE_SIZE \in Nat /\ PAGE_SIZE > 0 /\ ShowAllSize \in Nat /\ ShowAllSize > 0 /\ Sizes \subseteq Nat
<1>1. PAGE_SIZE \in Nat \ {0} /\ ShowAllSize \in Nat \ {0} /\ Sizes \subseteq Nat
  BY PagesAssumption, Zenon
<1> QED
  BY <1>1

LEMMA TreeInit == PagesInit => TreeInv
<1> SUFFICES ASSUME PagesInit PROVE TreeInv
  OBVIOUS
<1>1. /\ size \in Sizes /\ expanded = FALSE /\ entries = <<>> /\ totalElements = 0 /\ requests = <<>>
  BY DEF PagesInit, Tree!Init
<1>2. <<>> \in Seq(1 .. size) /\ <<>> \in Seq(Nat \X {PAGE_SIZE, ShowAllSize}) /\ Len(<<>>) = 0
  BY EmptySeq
<1>3. 0 \in Nat /\ 0 = 0 * PAGE_SIZE
  BY TreeConstants
<1>4. InOrder(entries)
  BY <1>1, <1>2 DEF InOrder
<1>5. WholePages
  BY <1>1, <1>2, <1>3 DEF WholePages
<1>6. Tree!TypeOK
  BY <1>1, <1>2 DEF Tree!TypeOK
<1> QED
  BY <1>1, <1>2, <1>4, <1>5, <1>6 DEF TreeInv

LEMMA TreeTypes ==
  ASSUME Tree!TypeOK
  PROVE  /\ size \in Nat /\ expanded \in BOOLEAN /\ totalElements \in Nat
         /\ entries \in Seq(1 .. size) /\ Len(entries) \in Nat
         /\ requests \in Seq(Nat \X {PAGE_SIZE, ShowAllSize}) /\ Len(requests) \in Nat
  BY TreeConstants DEF Tree!TypeOK

LEMMA WholeQuotient ==
  ASSUME NEW m \in Nat, NEW b \in Nat, b > 0
  PROVE  (m * b) \div b = m
  OBVIOUS

LEMMA PositiveProduct ==
  ASSUME NEW a \in Nat, NEW b \in Nat, a > 0, b > 0
  PROVE  a * b \in Nat /\ a * b >= 1
  OBVIOUS

\* The children of an answer.
LEMMA ContentProperties ==
  ASSUME size \in Nat, NEW page \in Nat, NEW n \in Nat, n > 0
  PROVE  LET first == page * n + 1
             last == IF first + n - 1 < size THEN first + n - 1 ELSE size
             content == Tree!Content(<<page, n>>)
         IN /\ content \in Seq(1 .. size)
            /\ Len(content) = IF last < first THEN 0 ELSE last - first + 1
            /\ \A i \in 1 .. Len(content) : content[i] = first + i - 1
<1> DEFINE first == page * n + 1
           last == IF first + n - 1 < size THEN first + n - 1 ELSE size
           count == IF last < first THEN 0 ELSE last - first + 1
           content == Tree!Content(<<page, n>>)
<1>1. page * n \in Nat
  OBVIOUS
<1>2. first \in Nat /\ first >= 1
  BY <1>1
<1>3. content = [i \in 1 .. last - first + 1 |-> first + i - 1]
  BY DEF Tree!Content
<1> HIDE DEF first, content
<1>4. last \in Nat /\ last <= size /\ count \in Nat
  BY <1>2
<1>5. 1 .. last - first + 1 = 1 .. count
  BY <1>2, <1>4
<1> HIDE DEF last
<1>6. content = [i \in 1 .. count |-> first + i - 1]
  BY <1>3, <1>5
<1>7. \A i \in 1 .. count : first + i - 1 \in 1 .. size
  BY <1>2, <1>4
<1>8. content \in Seq(1 .. size)
  BY <1>4, <1>6, <1>7
<1>9. Len(content) = count
  BY <1>4, <1>6
<1> QED
  BY <1>6, <1>8, <1>9 DEF first, last, content

\* A request that is made where none is under way is the only one.
LEMMA LoadMakes ==
  ASSUME Tree!TypeOK, NEW page \in Nat, NEW n \in {PAGE_SIZE, ShowAllSize}, Tree!load(page, n)
  PROVE  /\ requests' \in Seq(Nat \X {PAGE_SIZE, ShowAllSize})
         /\ ~overlapped' => ~overlapped /\ Len(requests') = 1 /\ requests'[1] = <<page, n>>
<1>1. /\ requests' = Append(requests, <<page, n>>)
      /\ overlapped' = (overlapped \/ requests # <<>>)
  BY DEF Tree!load
<1>2. /\ requests' \in Seq(Nat \X {PAGE_SIZE, ShowAllSize}) /\ Len(requests') = Len(requests) + 1
      /\ requests'[Len(requests) + 1] = <<page, n>>
  BY <1>1, TreeTypes, AppendProperties
<1>3. ~overlapped' => ~overlapped /\ requests = <<>>
  BY <1>1
<1> QED
  BY <1>2, <1>3

LEMMA ExpandKeeps ==
  ASSUME TreeInv, Tree!onExpand
  PROVE  TreeInv'
<1>0. Tree!TypeOK
  BY DEF TreeInv
<1>1. CASE expanded
  <2>1. /\ expanded' = FALSE /\ entries' = <<>>
        /\ UNCHANGED <<requests, overlapped, size, totalElements>>
    BY <1>1 DEF Tree!onExpand
  <2>2. <<>> \in Seq(1 .. size) /\ Len(<<>>) = 0 /\ 0 = 0 * PAGE_SIZE
    BY EmptySeq, TreeConstants
  <2>3. Tree!TypeOK'
    BY <1>0, <2>1, <2>2 DEF Tree!TypeOK
  <2>4. InOrder(entries') /\ WholePages'
    BY <2>1, <2>2 DEF InOrder, WholePages
  <2> QED
    BY <2>1, <2>3, <2>4 DEF TreeInv
<1>2. CASE ~expanded
  <2>1. /\ expanded' = TRUE /\ entries' = entries /\ Tree!load(0, PAGE_SIZE)
        /\ UNCHANGED <<size, totalElements>>
    BY <1>2, <1>0 DEF Tree!onExpand, Tree!TypeOK
  <2>2. /\ requests' \in Seq(Nat \X {PAGE_SIZE, ShowAllSize})
        /\ ~overlapped' => ~overlapped /\ Len(requests') = 1 /\ requests'[1] = <<0, PAGE_SIZE>>
    BY <1>0, <2>1, LoadMakes
  <2>3. Tree!TypeOK'
    BY <1>0, <2>1, <2>2 DEF Tree!TypeOK
  <2>4. ~overlapped' => entries = <<>> /\ Len(entries) = 0
    BY <1>2, <2>2 DEF TreeInv
  <2>5. 0 = 0 * PAGE_SIZE
    BY TreeConstants
  <2>6. ~overlapped' => InOrder(entries') /\ WholePages'
    BY <2>1, <2>4, <2>5 DEF InOrder, WholePages
  <2>7. ~overlapped' => Continues(<<0, PAGE_SIZE>>, entries', totalElements', size')
    BY <2>1, <2>4, <2>5 DEF Continues
  <2>8. ~overlapped' => Continues(requests'[1], entries', totalElements', size')
    BY <2>2, <2>7
  <2> QED
    BY <2>1, <2>2, <2>3, <2>6, <2>8 DEF TreeInv
<1> QED
  BY <1>1, <1>2

\* More is asked for where everything shown is whole pages.
LEMMA MoreKeeps ==
  ASSUME TreeInv, Tree!onShowAll \/ Tree!onLoadMore
  PROVE  TreeInv'
<1>0. Tree!TypeOK
  BY DEF TreeInv
<1>1. /\ Tree!More
      /\ UNCHANGED <<size, expanded, entries, totalElements>>
      /\ \/ Tree!load(0, ShowAllSize)
         \/ Tree!load(Tree!nextPage, PAGE_SIZE)
  BY DEF Tree!onShowAll, Tree!onLoadMore
<1>2. /\ expanded /\ Len(entries) < totalElements /\ totalElements = size
      /\ size \in Nat /\ Len(entries) \in Nat
  BY <1>0, <1>1, TreeTypes DEF Tree!More, Tree!TypeOK
<1>3. ASSUME NEW page \in Nat, NEW n \in {PAGE_SIZE, ShowAllSize}, Tree!load(page, n),
             ~overlapped /\ size <= ShowAllSize =>
               Continues(<<page, n>>, entries, totalElements, size)
      PROVE  TreeInv'
  <2>1. /\ requests' \in Seq(Nat \X {PAGE_SIZE, ShowAllSize})
        /\ ~overlapped' => ~overlapped /\ Len(requests') = 1 /\ requests'[1] = <<page, n>>
    BY <1>0, <1>3, LoadMakes
  <2>2. Tree!TypeOK'
    BY <1>0, <1>1, <2>1 DEF Tree!TypeOK
  <2>3. WholePages => WholePages'
    BY <1>1 DEF WholePages
  <2>4. InOrder(entries) => InOrder(entries')
    BY <1>1
  <2>5. ~overlapped' /\ size <= ShowAllSize =>
          Continues(requests'[1], entries', totalElements', size')
    BY <1>1, <1>3, <2>1
  <2>6. expanded' /\ entries' = entries /\ size' = size
    BY <1>1, <1>2
  <2>7. ~overlapped' /\ size <= ShowAllSize => InOrder(entries') /\ WholePages'
    BY <2>1, <2>3, <2>4 DEF TreeInv
  <2>8. ~overlapped' => Len(requests') <= 1
    BY <2>1
  <2> QED
    BY <2>2, <2>5, <2>6, <2>7, <2>8 DEF TreeInv
<1>4. CASE Tree!load(0, ShowAllSize)
  <2>1. Continues(<<0, ShowAllSize>>, entries, totalElements, size)
    BY <1>2 DEF Continues
  <2> QED
    BY <1>3, <1>4, <2>1
<1>5. CASE Tree!load(Tree!nextPage, PAGE_SIZE)
  <2>1. Tree!nextPage \in Nat
    BY <1>2, TreeConstants, Quotient DEF Tree!nextPage
  <2>2. ASSUME ~overlapped, size <= ShowAllSize
        PROVE  Continues(<<Tree!nextPage, PAGE_SIZE>>, entries, totalElements, size)
    <3>1. PICK m \in Nat : Len(entries) = m * PAGE_SIZE
      BY <1>2, <2>2 DEF TreeInv, WholePages
    <3>2. Tree!nextPage = m
      BY <3>1, TreeConstants, WholeQuotient DEF Tree!nextPage
    <3> QED
      BY <1>2, <3>1, <3>2 DEF Continues
  <2> QED
    BY <1>3, <1>5, <2>1, <2>2
<1> QED
  BY <1>1, <1>4, <1>5

\* Where an answer continues the children shown, they stay the first ones.
LEMMA AppendedInOrder ==
  ASSUME NEW children \in Seq(Nat), NEW more \in Seq(Nat), InOrder(children),
         \A i \in 1 .. Len(more) : more[i] = Len(children) + i
  PROVE  InOrder(children \o more) /\ Len(children \o more) = Len(children) + Len(more)
<1>1. /\ Len(children \o more) = Len(children) + Len(more)
      /\ \A i \in 1 .. Len(children) + Len(more) :
           (children \o more)[i] = IF i <= Len(children) THEN children[i] ELSE more[i - Len(children)]
  BY ConcatProperties
<1>2. Len(children) \in Nat /\ Len(more) \in Nat
  OBVIOUS
<1> SUFFICES ASSUME NEW i \in 1 .. Len(children) + Len(more)
             PROVE  (children \o more)[i] = i
  BY <1>1 DEF InOrder
<1>3. CASE i <= Len(children)
  BY <1>1, <1>2, <1>3 DEF InOrder
<1>4. CASE ~(i <= Len(children))
  <2>1. i - Len(children) \in 1 .. Len(more) /\ Len(children) + (i - Len(children)) = i
    BY <1>2, <1>4
  <2>2. more[i - Len(children)] = i
    BY <2>1
  <2> QED
    BY <1>1, <1>4, <2>2
<1> QED
  BY <1>3, <1>4

\* In order means that there are no more than the contract has.
LEMMA InOrderBound ==
  ASSUME size \in Nat, entries \in Seq(1 .. size), InOrder(entries)
  PROVE  Len(entries) \in Nat /\ Len(entries) <= size /\ entries \in Seq(Nat)
<1>1. Len(entries) \in Nat /\ \A i \in 1 .. Len(entries) : entries[i] \in 1 .. size
  OBVIOUS
<1>2. CASE Len(entries) > 0
  <2>1. Len(entries) \in 1 .. Len(entries)
    BY <1>1, <1>2
  <2>2. entries[Len(entries)] = Len(entries)
    BY <2>1 DEF InOrder
  <2>3. Len(entries) \in 1 .. size
    BY <1>1, <2>1, <2>2
  <2> QED
    BY <1>1, <2>3
<1>3. CASE Len(entries) = 0
  BY <1>1, <1>3
<1> QED
  BY <1>1, <1>2, <1>3

\* The part of an answer that is appended.
Appended(content) ==
  IF Len(content) >= totalElements
  THEN SubSeq(content, Len(entries) + 1, Len(content)) ELSE content

LEMMA AppendedProperties ==
  ASSUME Tree!TypeOK, NEW content \in Seq(1 .. size)
  PROVE  LET rest == SubSeq(content, Len(entries) + 1, Len(content))
         IN /\ Appended(content) \in Seq(1 .. size)
            /\ Len(rest) = IF Len(entries) < Len(content) THEN Len(content) - Len(entries) ELSE 0
            /\ \A i \in 1 .. Len(rest) : rest[i] = content[Len(entries) + i]
<1> DEFINE rest == SubSeq(content, Len(entries) + 1, Len(content))
           n == Len(content)
           have == Len(entries)
<1>1. n \in Nat /\ have \in Nat /\ \A i \in have + 1 .. n : content[i] \in 1 .. size
  <2>1. have \in Nat
    BY TreeTypes
  <2>2. n \in Nat /\ \A i \in 1 .. n : content[i] \in 1 .. size
    BY ElementOfSeq, LenProperties
  <2> QED
    BY <2>1, <2>2
<1>2. /\ rest \in Seq(1 .. size)
      /\ Len(rest) = IF have + 1 <= n THEN n - (have + 1) + 1 ELSE 0
      /\ \A i \in 1 .. n - (have + 1) + 1 : rest[i] = content[have + 1 + i - 1]
  BY <1>1, SubSeqProperties
<1> HIDE DEF rest
<1>3. Len(rest) = IF have < n THEN n - have ELSE 0
  BY <1>1, <1>2
<1>4. ASSUME NEW i \in 1 .. Len(rest) PROVE rest[i] = content[have + i]
  <2>1. i \in 1 .. n - (have + 1) + 1 /\ have + 1 + i - 1 = have + i
    BY <1>1, <1>3
  <2> QED
    BY <1>2, <2>1
<1>5. Appended(content) \in Seq(1 .. size)
  BY <1>2 DEF Appended, rest
<1> QED
  BY <1>3, <1>4, <1>5 DEF rest

\* The answer to a request that continues the children shown.
LEMMA AnswerContinues ==
  ASSUME Tree!TypeOK, InOrder(entries), WholePages, size <= ShowAllSize,
         NEW r \in Nat \X {PAGE_SIZE, ShowAllSize}, Continues(r, entries, totalElements, size)
  PROVE  LET all == entries \o Appended(Tree!Content(r))
         IN InOrder(all) /\ (Len(all) = size \/ \E m \in Nat : Len(all) = m * PAGE_SIZE)
<1> DEFINE content == Tree!Content(r)
           n == Len(entries)
           more == Appended(content)
           all == entries \o more
<1>1. /\ size \in Nat /\ totalElements \in {0, size} /\ entries \in Seq(1 .. size)
      /\ PAGE_SIZE \in Nat /\ PAGE_SIZE > 0 /\ ShowAllSize \in Nat /\ ShowAllSize > 0
  BY TreeTypes, TreeConstants DEF Tree!TypeOK
<1>2. n \in Nat /\ n <= size /\ entries \in Seq(Nat)
  BY <1>1, InOrderBound
<1>3. PICK page \in Nat, s \in {PAGE_SIZE, ShowAllSize} : r = <<page, s>>
  OBVIOUS
<1>4. s \in Nat /\ s > 0 /\ page * s \in Nat
  BY <1>1
<1>5. /\ content \in Seq(1 .. size)
      /\ Len(content) = IF page * s + s < size THEN (IF page * s + s < page * s + 1 THEN 0 ELSE s)
                        ELSE IF size < page * s + 1 THEN 0 ELSE size - page * s
      /\ \A i \in 1 .. Len(content) : content[i] = page * s + i
  <2> DEFINE first == page * s + 1
             last == IF first + s - 1 < size THEN first + s - 1 ELSE size
  <2>1. /\ content \in Seq(1 .. size)
        /\ Len(content) = IF last < first THEN 0 ELSE last - first + 1
        /\ \A i \in 1 .. Len(content) : content[i] = first + i - 1
    BY <1>1, <1>3, <1>4, ContentProperties
  <2> HIDE DEF content
  <2>2. Len(content) \in Nat
    BY <2>1, LenProperties
  <2>3. \A i \in 1 .. Len(content) : first + i - 1 = page * s + i
    BY <1>4, <2>2
  <2>4. Len(content) = IF page * s + s < size THEN (IF page * s + s < page * s + 1 THEN 0 ELSE s)
                       ELSE IF size < page * s + 1 THEN 0 ELSE size - page * s
    BY <1>1, <1>4, <2>1
  <2> QED
    BY <2>1, <2>3, <2>4
<1> HIDE DEF content
<1>6. /\ more \in Seq(1 .. size)
      /\ \A i \in 1 .. Len(SubSeq(content, n + 1, Len(content))) :
           SubSeq(content, n + 1, Len(content))[i] = content[n + i]
      /\ Len(SubSeq(content, n + 1, Len(content))) = IF n < Len(content) THEN Len(content) - n ELSE 0
      /\ more = IF Len(content) >= totalElements THEN SubSeq(content, n + 1, Len(content)) ELSE content
  BY <1>5, AppendedProperties DEF Appended
<1>7. Len(content) \in Nat /\ Len(more) \in Nat
  BY <1>5, <1>6, LenProperties
<1> HIDE DEF more
<1>8. /\ \A i \in 1 .. Len(more) : more[i] = n + i
      /\ n + Len(more) = size \/ \E m \in Nat : n + Len(more) = m * PAGE_SIZE
  <2>1. CASE page = 0 /\ s = ShowAllSize /\ totalElements = size
    <3>1. page * s = 0
      BY <1>4, <2>1
    <3>2. Len(content) = size /\ \A i \in 1 .. Len(content) : content[i] = i
      BY <1>1, <1>4, <1>5, <2>1, <3>1
    <3>3. more = SubSeq(content, n + 1, Len(content))
      BY <1>1, <1>6, <2>1, <3>2
    <3>4. Len(more) = size - n
      BY <1>1, <1>2, <1>6, <3>2, <3>3
    <3>5. \A i \in 1 .. Len(more) : n + i \in 1 .. Len(content)
      BY <1>1, <1>2, <3>2, <3>4
    <3>6. \A i \in 1 .. Len(more) : more[i] = n + i
      BY <1>6, <3>2, <3>3, <3>5
    <3> QED
      BY <1>1, <1>2, <3>4, <3>6
  <2>2. CASE page = 0 /\ s = PAGE_SIZE /\ n = page * PAGE_SIZE
    <3>1. page * s = 0 /\ n = 0 /\ s = 1 * PAGE_SIZE
      BY <1>1, <1>4, <2>2
    <3>2. /\ Len(content) = size \/ Len(content) = s
          /\ \A i \in 1 .. Len(content) : content[i] = i
      <4> DEFINE x == page * s
                 l == Len(content)
      <4>1. s \in Nat /\ s > 0 /\ size \in Nat /\ n \in Nat /\ n <= size /\ l \in Nat /\ x = 0
        BY <1>1, <1>2, <1>4, <1>7, <3>1
      <4>2. /\ l = IF x + s < size THEN (IF x + s < x + 1 THEN 0 ELSE s)
                   ELSE IF size < x + 1 THEN 0 ELSE size - x
            /\ \A i \in 1 .. l : content[i] = x + i
        BY <1>5
      <4> HIDE DEF x, l
      <4>3. (l = size \/ l = s) /\ \A i \in 1 .. l : content[i] = i
        BY <4>1, <4>2
      <4> QED
        BY <4>3 DEF l
    <3>3. Len(more) = Len(content)
      BY <1>6, <1>7, <3>1
    <3>4. \A i \in 1 .. Len(more) : more[i] = content[i]
      BY <1>6, <1>7, <3>1
    <3>5. \A i \in 1 .. Len(more) : more[i] = n + i
      BY <1>7, <3>1, <3>2, <3>3, <3>4
    <3>6. n + Len(more) = size \/ n + Len(more) = 1 * PAGE_SIZE
      BY <1>1, <1>7, <3>1, <3>2, <3>3
    <3> QED
      BY <3>5, <3>6
  <2>3. CASE page > 0 /\ s = PAGE_SIZE /\ n = page * PAGE_SIZE /\ totalElements = size
    <3>1. n = page * s /\ n >= 1
      BY <1>1, <1>4, <2>3, PositiveProduct
    <3>2. Len(content) < size /\ (Len(content) = s \/ n + Len(content) = size)
      <4> DEFINE x == page * s
                 l == Len(content)
      <4>1. s \in Nat /\ s > 0 /\ size \in Nat /\ n \in Nat /\ n <= size /\ l \in Nat /\ x = n /\ n >= 1
        BY <1>1, <1>2, <1>4, <1>7, <3>1
      <4>2. /\ l = IF x + s < size THEN (IF x + s < x + 1 THEN 0 ELSE s)
                   ELSE IF size < x + 1 THEN 0 ELSE size - x
            /\ \A i \in 1 .. l : content[i] = x + i
        BY <1>5
      <4> HIDE DEF x, l
      <4>3. l < size /\ (l = s \/ n + l = size)
        BY <4>1, <4>2
      <4> QED
        BY <4>3 DEF l
    <3>3. more = content
      BY <1>1, <1>6, <1>7, <2>3, <3>2
    <3>4. n + s = (page + 1) * PAGE_SIZE
      BY <1>1, <2>3, <3>1
    <3>5. \A i \in 1 .. Len(more) : more[i] = n + i
      BY <1>5, <3>1, <3>3
    <3>6. n + Len(more) = size \/ n + Len(more) = (page + 1) * PAGE_SIZE
      BY <3>2, <3>3, <3>4
    <3>7. page + 1 \in Nat
      OBVIOUS
    <3> QED
      BY <3>5, <3>6, <3>7
  <2>4. \/ page = 0 /\ s = ShowAllSize /\ totalElements = size
        \/ s = PAGE_SIZE /\ n = page * PAGE_SIZE /\ (page = 0 \/ totalElements = size)
    BY <1>3 DEF Continues
  <2> QED
    BY <2>1, <2>2, <2>3, <2>4
<1>9. more \in Seq(Nat)
  <2>1. \A i \in 1 .. Len(more) : more[i] \in 1 .. size
    BY <1>6, ElementOfSeq
  <2>2. DOMAIN more = 1 .. Len(more) /\ more = [i \in 1 .. Len(more) |-> more[i]]
    BY <1>6, LenProperties
  <2> DEFINE m == Len(more)
  <2>3. m \in Nat /\ \A i \in 1 .. m : more[i] \in Nat
    BY <1>1, <1>7, <2>1
  <2> QED
    BY <2>2, <2>3
<1>10. InOrder(all) /\ Len(all) = n + Len(more)
  BY <1>2, <1>8, <1>9, AppendedInOrder
<1> QED
  BY <1>8, <1>10 DEF more, content

LEMMA OnlyOne ==
  ASSUME NEW n \in Nat, n <= 1, NEW k \in 1 .. n
  PROVE  n = 1 /\ k = 1
  OBVIOUS

LEMMA LoadedKeeps ==
  ASSUME TreeInv, NEW i \in DOMAIN requests, Tree!Loaded(i)
  PROVE  TreeInv'
<1> DEFINE content == Tree!Content(requests[i])
<1>0. Tree!TypeOK /\ size \in Nat /\ requests \in Seq(Nat \X {PAGE_SIZE, ShowAllSize})
  BY TreeTypes DEF TreeInv
<1>1. /\ entries' = entries \o Appended(content) /\ totalElements' = size
      /\ requests' = RemoveAt(requests, i) /\ overlapped' = (overlapped \/ ~expanded)
      /\ UNCHANGED <<size, expanded>>
  BY DEF Tree!Loaded, Appended, RemoveAt, Tree!RemoveAt
<1>2. i \in 1 .. Len(requests)
  BY <1>0, LenProperties
<1>3. requests[i] \in Nat \X {PAGE_SIZE, ShowAllSize}
  BY <1>0, <1>2, ElementOfSeq
<1>4. PICK page \in Nat, s \in {PAGE_SIZE, ShowAllSize} : requests[i] = <<page, s>>
  BY <1>3
<1>5. content \in Seq(1 .. size)
  BY <1>0, <1>4, TreeConstants, ContentProperties
<1>6. Appended(content) \in Seq(1 .. size)
  BY <1>0, <1>5, AppendedProperties
<1> HIDE DEF content
<1>7. entries' \in Seq(1 .. size)
  BY <1>0, <1>1, <1>6, TreeTypes, ConcatProperties
<1>8. requests' \in Seq(Nat \X {PAGE_SIZE, ShowAllSize}) /\ Len(requests') = Len(requests) - 1
  BY <1>0, <1>1, <1>2, RemoveAtProperties
<1>9. Tree!TypeOK'
  BY <1>0, <1>1, <1>7, <1>8 DEF Tree!TypeOK
<1>10. ASSUME ~overlapped' PROVE ~overlapped /\ expanded /\ Len(requests) = 1 /\ i = 1
  <2>1. ~overlapped /\ expanded
    BY <1>1, <1>10
  <2>2. Len(requests) <= 1
    BY <2>1 DEF TreeInv
  <2>3. Len(requests) \in Nat
    BY <1>0, LenProperties
  <2>4. Len(requests) = 1 /\ i = 1
    BY <1>2, <2>2, <2>3, OnlyOne
  <2> QED
    BY <2>1, <2>4
<1>11. ASSUME ~overlapped', size <= ShowAllSize PROVE InOrder(entries') /\ WholePages'
  <2>1. /\ InOrder(entries) /\ WholePages
        /\ Continues(requests[i], entries, totalElements, size)
    BY <1>10, <1>11 DEF TreeInv
  <2>2. /\ InOrder(entries')
        /\ Len(entries') = size \/ \E m \in Nat : Len(entries') = m * PAGE_SIZE
    BY <1>0, <1>1, <1>3, <1>11, <2>1, AnswerContinues DEF content
  <2> QED
    BY <1>1, <2>2 DEF WholePages
<1>12. ~overlapped' => expanded' /\ Len(requests') = 0
  <2>1. ~overlapped' => expanded'
    BY <1>1, <1>10
  <2>2. Len(requests) = 1 => Len(requests') = 0
    BY <1>8
  <2> QED
    BY <1>10, <2>1, <2>2
<1> QED
  BY <1>1, <1>9, <1>11, <1>12 DEF TreeInv

LEMMA LoadFailedKeeps ==
  ASSUME TreeInv, NEW i \in DOMAIN requests, Tree!LoadFailed(i)
  PROVE  TreeInv'
<1>0. Tree!TypeOK /\ requests \in Seq(Nat \X {PAGE_SIZE, ShowAllSize}) /\ Len(requests) \in Nat
  BY TreeTypes DEF TreeInv
<1>1. /\ requests' = RemoveAt(requests, i)
      /\ UNCHANGED <<size, expanded, entries, totalElements, overlapped>>
  BY DEF Tree!LoadFailed, RemoveAt, Tree!RemoveAt
<1>2. i \in 1 .. Len(requests)
  BY <1>0, LenProperties
<1>3. requests' \in Seq(Nat \X {PAGE_SIZE, ShowAllSize}) /\ Len(requests') = Len(requests) - 1
  BY <1>0, <1>1, <1>2, RemoveAtProperties
<1>4. Tree!TypeOK'
  BY <1>0, <1>1, <1>3 DEF Tree!TypeOK
<1>5. ~overlapped => Len(requests') = 0
  BY <1>0, <1>2, <1>3 DEF TreeInv
<1>6. InOrder(entries) /\ WholePages => InOrder(entries') /\ WholePages'
  BY <1>1 DEF WholePages
<1> QED
  BY <1>1, <1>4, <1>5, <1>6 DEF TreeInv

LEMMA TreeStep ==
  ASSUME TreeInv, [Tree!Next]_treeVars
  PROVE  TreeInv'
<1>1. CASE UNCHANGED treeVars
  BY <1>1 DEF TreeInv, Tree!TypeOK, WholePages, treeVars
<1>2. CASE Tree!Next
  BY <1>2, ExpandKeeps, MoreKeeps, LoadedKeeps, LoadFailedKeeps DEF Tree!Next
<1> QED
  BY <1>1, <1>2

\* What is shown of a contract, its balance, its fields and the order of its
\* storage's entries, belongs together in every reachable state.
THEOREM ContractsHold == PagesSpec => []ContractShown
<1>1. PagesInit => ViewInv /\ TreeInv
  BY ViewInit, TreeInit
<1>2. ViewInv /\ TreeInv /\ [PagesNext]_pagesVars => (ViewInv /\ TreeInv)'
  BY EachPartSteps, ViewStep, TreeStep
<1>3. ViewInv /\ TreeInv => ContractShown
  <2> SUFFICES ASSUME ViewInv, TreeInv PROVE ContractShown
    OBVIOUS
  <2>1. View!TypeOK /\ Tree!TypeOK
    BY DEF ViewInv, TreeInv
  <2>2. View!ShownBelongsTogether
    BY DEF ViewInv, View!ShownBelongsTogether, View!Waiting, FieldsAsked
  <2>3. Tree!ChildrenInOrder
    BY TreeTypes, <2>1 DEF TreeInv, InOrder, Tree!ChildrenInOrder
  <2> QED
    BY <2>1, <2>2, <2>3 DEF ContractShown
<1> QED
  BY <1>1, <1>2, <1>3, PTL DEF PagesSpec

-----------------------------------------------------------------------------
\* SystemLogPage.  What a visit shows and holds back are the last lines it was
\* given, whichever visits' timers append to the container meanwhile.
LogChild == [log : Log!LogLine, by : Log!LogVisit, display : BOOLEAN]

LogInv ==
  /\ Log!TypeOK
  /\ lines \in Seq(LogChild) /\ handed \in [Log!LogVisit -> Seq(Log!LogLine)]
  /\ logVisit <= logVisits
  /\ \A v \in Log!LogVisit : v > logVisits => handed[v] = <<>> /\ pendingLogs[v] = <<>>
  /\ Log!NoLineLost /\ Log!FilterApplied

\* The positions of a visit's children, and those of them after i.
OwnOf(children, v) == {i \in DOMAIN children : children[i].by = v}
After(own, i) == {j \in own : j > i}

LEMMA SameCardinality == \A X : Log!Cardinality(X) = Cardinality(X)
  BY DEF Cardinality, Log!Cardinality

LEMMA IntervalCount ==
  ASSUME NEW a \in Nat, NEW b \in Nat
  PROVE  IsFiniteSet(a + 1 .. a + b) /\ Cardinality(a + 1 .. a + b) = b
<1>1. a + 1 \in Int /\ a + b \in Int
  OBVIOUS
<1>2. IsFiniteSet(a + 1 .. a + b) /\ Cardinality(a + 1 .. a + b) = IF a + 1 > a + b THEN 0 ELSE (a + b) - (a + 1) + 1
  BY <1>1, FS_Interval
<1>3. (IF a + 1 > a + b THEN 0 ELSE (a + b) - (a + 1) + 1) = b
  OBVIOUS
<1> QED
  BY <1>2, <1>3

LEMMA DisjointCount ==
  ASSUME NEW X, NEW Y, IsFiniteSet(X), IsFiniteSet(Y), X \cap Y = {}
  PROVE  IsFiniteSet(X \union Y) /\ Cardinality(X \union Y) = Cardinality(X) + Cardinality(Y)
<1>1. /\ IsFiniteSet(X \union Y)
      /\ Cardinality(X \union Y) = Cardinality(X) + Cardinality(Y) - Cardinality(X \cap Y)
  BY FS_Union
<1>2. Cardinality(X \cap Y) = 0
  BY FS_EmptySet
<1>3. Cardinality(X) \in Nat /\ Cardinality(Y) \in Nat
  BY FS_CardinalityType
<1> QED
  BY <1>1, <1>2, <1>3

LEMMA ConcatExact ==
  ASSUME NEW S, NEW s \in Seq(S), NEW t \in Seq(S), NEW n, NEW m, n = Len(s), m = Len(t)
  PROVE  /\ n \in Nat /\ m \in Nat /\ DOMAIN s = 1 .. n /\ DOMAIN (s \o t) = 1 .. n + m
         /\ s \o t \in Seq(S) /\ Len(s \o t) = n + m
         /\ \A i \in 1 .. n : (s \o t)[i] = s[i]
         /\ \A i \in 1 .. m : (s \o t)[n + i] = t[i]
<1>1. /\ s \o t \in Seq(S) /\ Len(s \o t) = Len(s) + Len(t)
      /\ \A i \in 1 .. Len(s) + Len(t) : (s \o t)[i] = IF i <= Len(s) THEN s[i] ELSE t[i - Len(s)]
  BY ConcatProperties
<1>2. n \in Nat /\ m \in Nat /\ DOMAIN s = 1 .. n
  BY LenProperties
<1>3. DOMAIN (s \o t) = 1 .. n + m
  BY <1>1, LenProperties
<1>4. ASSUME NEW i \in 1 .. n PROVE (s \o t)[i] = s[i]
  <2>1. i \in 1 .. Len(s) + Len(t) /\ i <= Len(s)
    BY <1>2
  <2> QED
    BY <1>1, <2>1
<1>5. ASSUME NEW i \in 1 .. m PROVE (s \o t)[n + i] = t[i]
  <2>1. n + i \in 1 .. Len(s) + Len(t) /\ ~(n + i <= Len(s)) /\ (n + i) - Len(s) = i
    BY <1>2
  <2> QED
    BY <1>1, <2>1
<1> QED
  BY <1>1, <1>2, <1>3, <1>4, <1>5

LEMMA RestRead ==
  ASSUME NEW children, NEW v, NEW T, NEW given \in Seq(T), NEW waiting \in Seq(T),
         NEW rest, rest = Len(given) - Len(waiting)
  PROVE  Log!ShowsRest(children, v, given, waiting) <=>
           /\ rest >= 0
           /\ \A k \in 1 .. Len(waiting) : waiting[k] = given[rest + k]
           /\ \A i \in OwnOf(children, v) :
                LET after == Cardinality(After(OwnOf(children, v), i))
                IN after < rest /\ children[i].log = given[rest - after]
<1>1. DOMAIN waiting = 1 .. Len(waiting)
  BY LenProperties
<1> QED
  BY <1>1, SameCardinality DEF Log!ShowsRest, OwnOf, After

LastShown(children, v, given, waiting, rest) ==
  /\ rest >= 0
  /\ \A k \in 1 .. Len(waiting) : waiting[k] = given[rest + k]
  /\ \A i \in OwnOf(children, v) :
       LET after == Cardinality(After(OwnOf(children, v), i))
       IN after < rest /\ children[i].log = given[rest - after]

LEMMA RestShown ==
  ASSUME NEW children, NEW v, NEW T, NEW given \in Seq(T), NEW waiting \in Seq(T),
         NEW rest, rest = Len(given) - Len(waiting), LastShown(children, v, given, waiting, rest)
  PROVE  Log!ShowsRest(children, v, given, waiting)
<1>1. DOMAIN waiting = 1 .. Len(waiting)
  BY LenProperties
<1> QED
  BY <1>1, SameCardinality DEF Log!ShowsRest, LastShown, OwnOf, After

LEMMA RestOfAll ==
  ASSUME NEW children, NEW v, NEW T, NEW given \in Seq(T),
         \A i \in OwnOf(children, v) :
           LET after == Cardinality(After(OwnOf(children, v), i))
           IN after < Len(given) /\ children[i].log = given[Len(given) - after]
  PROVE  Log!ShowsRest(children, v, given, <<>>)
<1>1. <<>> \in Seq(T) /\ Len(<<>>) = 0 /\ Len(given) \in Nat
  BY EmptySeq, LenProperties
<1> DEFINE waiting == <<>>
<1>2. Len(given) = Len(given) - Len(waiting) /\ Len(given) >= 0 /\ waiting \in Seq(T) /\ Len(waiting) = 0
  BY <1>1
<1> HIDE DEF waiting
<1>3. \A k \in 1 .. Len(waiting) : waiting[k] = given[Len(given) + k]
  BY <1>2
<1>4. Log!ShowsRest(children, v, given, waiting)
  <2>1. LastShown(children, v, given, waiting, Len(given))
    BY <1>2, <1>3 DEF LastShown
  <2> QED
    BY <1>2, <2>1, RestShown
<1> QED
  BY <1>4 DEF waiting

\* Positions of a sequence are finitely many.
LEMMA OwnFinite ==
  ASSUME NEW S, NEW children \in Seq(S), NEW v
  PROVE  /\ OwnOf(children, v) \subseteq 1 .. Len(children) /\ IsFiniteSet(OwnOf(children, v))
         /\ \A i : IsFiniteSet(After(OwnOf(children, v), i))
                   /\ Cardinality(After(OwnOf(children, v), i)) \in Nat
<1>1. Len(children) \in Nat /\ DOMAIN children = 1 .. Len(children)
  BY LenProperties
<1>2. OwnOf(children, v) \subseteq 1 .. Len(children)
  BY <1>1 DEF OwnOf
<1>3. IsFiniteSet(1 .. Len(children))
  BY <1>1, FS_Interval
<1>4. \A i : After(OwnOf(children, v), i) \subseteq OwnOf(children, v)
  BY DEF After
<1> QED
  BY <1>2, <1>3, <1>4, FS_Subset, FS_CardinalityType

\* The children added at the end are after those that were there.
Grows(children, added, v) ==
  LET n == Len(children)
      m == Len(added)
      own == OwnOf(children, v)
      own2 == OwnOf(children \o added, v)
  IN /\ own2 = own \union (n + 1 .. n + m)
     /\ \A i \in own : Cardinality(After(own2, i)) = Cardinality(After(own, i)) + m
     /\ \A k \in 1 .. m : Cardinality(After(own2, n + k)) = m - k

LEMMA OwnGrows ==
  ASSUME NEW S, NEW children \in Seq(S), NEW v, NEW added \in Seq(S),
         \A k \in 1 .. Len(added) : added[k].by = v
  PROVE  Grows(children, added, v)
<1> DEFINE n == Len(children)
           m == Len(added)
           all == children \o added
           own == OwnOf(children, v)
           own2 == OwnOf(all, v)
<1>1. /\ n \in Nat /\ m \in Nat /\ DOMAIN children = 1 .. n /\ DOMAIN all = 1 .. n + m
      /\ \A i \in 1 .. n : all[i] = children[i]
      /\ \A i \in 1 .. m : all[n + i] = added[i]
  BY ConcatExact
<1>0. \A k \in 1 .. m : added[k].by = v
  OBVIOUS
<1>2. /\ own \subseteq 1 .. n /\ IsFiniteSet(own)
      /\ \A i : IsFiniteSet(After(own, i)) /\ Cardinality(After(own, i)) \in Nat
  BY OwnFinite
<1> HIDE DEF all, n, m
<1>3. own2 = own \union (n + 1 .. n + m)
  <2>1. ASSUME NEW i \in own2 PROVE i \in own \union (n + 1 .. n + m)
    BY <1>1 DEF OwnOf
  <2>2. ASSUME NEW i \in own PROVE i \in own2
    <3>1. i \in 1 .. n /\ children[i].by = v
      BY <1>1 DEF OwnOf
    <3>2. i \in 1 .. n + m /\ all[i].by = v
      BY <1>1, <3>1
    <3> QED
      BY <3>2, <1>1 DEF OwnOf
  <2>3. ASSUME NEW i \in n + 1 .. n + m PROVE i \in own2
    <3>1. i - n \in 1 .. m /\ i \in 1 .. n + m /\ n + (i - n) = i
      BY <1>1
    <3>2. all[i] = added[i - n] /\ added[i - n].by = v
      BY <1>0, <1>1, <3>1
    <3> QED
      BY <3>1, <3>2, <1>1 DEF OwnOf
  <2> HIDE DEF own, own2
  <2> QED
    BY <2>1, <2>2, <2>3
<1> HIDE DEF own, own2
<1>4. ASSUME NEW i \in own PROVE Cardinality(After(own2, i)) = Cardinality(After(own, i)) + m
  <2>1. i \in 1 .. n
    BY <1>2
  <2>2. \A j \in n + 1 .. n + m : j > i /\ j \notin own
    BY <1>1, <1>2, <2>1
  <2>3. After(own2, i) = After(own, i) \union (n + 1 .. n + m)
    BY <1>3, <2>2 DEF After
  <2>4. After(own, i) \cap (n + 1 .. n + m) = {}
    BY <2>2 DEF After
  <2>5. IsFiniteSet(n + 1 .. n + m) /\ Cardinality(n + 1 .. n + m) = m
    BY <1>1, IntervalCount
  <2> QED
    BY <1>2, <2>3, <2>4, <2>5, DisjointCount
<1>5. ASSUME NEW k \in 1 .. m PROVE Cardinality(After(own2, n + k)) = m - k
  <2>1. n + k \in Nat /\ m - k \in Nat /\ (n + k) + (m - k) = n + m
    BY <1>1
  <2>2. ASSUME NEW j \in After(own2, n + k) PROVE j \in (n + k) + 1 .. n + m
    <3>1. j \in 1 .. n \/ j \in n + 1 .. n + m
      BY <1>2, <1>3 DEF After
    <3>2. j > n + k
      BY DEF After
    <3> QED
      BY <1>1, <3>1, <3>2
  <2>3. ASSUME NEW j \in (n + k) + 1 .. n + m PROVE j \in After(own2, n + k)
    <3>1. j \in n + 1 .. n + m /\ j > n + k
      BY <1>1
    <3> QED
      BY <1>3, <3>1 DEF After
  <2>4. After(own2, n + k) = (n + k) + 1 .. (n + k) + (m - k)
    BY <2>1, <2>2, <2>3
  <2> QED
    BY <2>1, <2>4, IntervalCount
<1> QED
  BY <1>3, <1>4, <1>5 DEF Grows, own, own2, all, n, m

ShowsBatch(added, batch, v) ==
  /\ Len(added) = Len(batch)
  /\ \A k \in 1 .. Len(added) : added[k].log = batch[k] /\ added[k].by = v

\* A batch, lines that waited and lines that just came, is shown.
LEMMA BatchShown ==
  ASSUME NEW S, NEW T, NEW children \in Seq(S), NEW v, NEW given \in Seq(T), NEW waiting \in Seq(T),
         NEW more \in Seq(T), NEW added \in Seq(S), ShowsBatch(added, waiting \o more, v),
         Log!ShowsRest(children, v, given, waiting)
  PROVE  Log!ShowsRest(children \o added, v, given \o more, <<>>)
<1> DEFINE n == Len(children)
           m == Len(added)
           p == Len(waiting)
           q == Len(more)
           g == Len(given)
           own == OwnOf(children, v)
           all == children \o added
           batch == waiting \o more
           h == given \o more
<1>1. /\ g - p >= 0 /\ \A k \in 1 .. p : waiting[k] = given[g - p + k]
      /\ \A i \in own : /\ Cardinality(After(own, i)) < g - p
                        /\ children[i].log = given[g - p - Cardinality(After(own, i))]
  BY RestRead
<1>2. /\ n \in Nat /\ m \in Nat
      /\ \A i \in 1 .. n : all[i] = children[i]
      /\ \A i \in 1 .. m : all[n + i] = added[i]
  BY ConcatExact
<1>3. /\ g \in Nat /\ q \in Nat /\ h \in Seq(T) /\ Len(h) = g + q
      /\ \A i \in 1 .. g : h[i] = given[i]
      /\ \A i \in 1 .. q : h[g + i] = more[i]
  BY ConcatExact
<1>4. /\ p \in Nat /\ Len(batch) = p + q
      /\ \A i \in 1 .. p : batch[i] = waiting[i]
      /\ \A i \in 1 .. q : batch[p + i] = more[i]
  BY ConcatExact
<1>5. /\ OwnOf(all, v) = own \union (n + 1 .. n + m)
      /\ \A i \in own : Cardinality(After(OwnOf(all, v), i)) = Cardinality(After(own, i)) + m
      /\ \A k \in 1 .. m : Cardinality(After(OwnOf(all, v), n + k)) = m - k
  <2>1. \A k \in 1 .. Len(added) : added[k].by = v
    BY DEF ShowsBatch
  <2>2. Grows(children, added, v)
    BY <2>1, OwnGrows
  <2> QED
    BY <2>2 DEF Grows
<1>6. /\ \A k \in 1 .. m : added[k].log = batch[k]
      /\ m = p + q
      /\ own \subseteq 1 .. n
      /\ \A i \in own : Cardinality(After(own, i)) \in Nat
  BY <1>4, OwnFinite DEF ShowsBatch
<1> DEFINE own2 == OwnOf(all, v)
<1> HIDE DEF n, m, p, q, g, all, h, own, own2, batch
<1>7. g \in Nat /\ p \in Nat /\ q \in Nat /\ m \in Nat /\ g - p >= 0 /\ m = p + q
  BY <1>1, <1>2, <1>3, <1>4, <1>6
<1>8. Len(h) = g + q
  BY <1>3
<1>9. ASSUME NEW i \in own
      PROVE  Cardinality(After(own2, i)) < Len(h) /\ all[i].log = h[Len(h) - Cardinality(After(own2, i))]
  <2>1. /\ Cardinality(After(own, i)) \in Nat /\ Cardinality(After(own, i)) < g - p
        /\ children[i].log = given[g - p - Cardinality(After(own, i))]
        /\ Cardinality(After(own2, i)) = Cardinality(After(own, i)) + m
    BY <1>1, <1>5, <1>6 DEF own2
  <2>2. all[i] = children[i]
    BY <1>2, <1>6
  <2>3. /\ Len(h) - Cardinality(After(own2, i)) = g - p - Cardinality(After(own, i))
        /\ g - p - Cardinality(After(own, i)) \in 1 .. g
        /\ Cardinality(After(own2, i)) < Len(h)
    <3> DEFINE c == Cardinality(After(own, i))
               c2 == Cardinality(After(own2, i))
    <3>1. c \in Nat /\ c < g - p /\ c2 = c + m
      BY <2>1
    <3> HIDE DEF c, c2
    <3>2. Len(h) - c2 = g - p - c /\ g - p - c \in 1 .. g /\ c2 < Len(h)
      BY <1>7, <1>8, <3>1
    <3> QED
      BY <3>2 DEF c, c2
  <2> QED
    BY <1>3, <2>1, <2>2, <2>3
<1>10. ASSUME NEW i \in n + 1 .. n + m
      PROVE  Cardinality(After(own2, i)) < Len(h) /\ all[i].log = h[Len(h) - Cardinality(After(own2, i))]
  <2>1. PICK k \in 1 .. m : i = n + k
    <3>1. i - n \in 1 .. m /\ i = n + (i - n)
      BY <1>2
    <3> QED
      BY <3>1
  <2>2. Cardinality(After(own2, i)) = m - k /\ all[i].log = batch[k]
    BY <1>2, <1>5, <1>6, <2>1 DEF own2
  <2>3. Len(h) - (m - k) = g - p + k /\ m - k < Len(h)
    BY <1>7, <1>8
  <2>4. h[g - p + k] = batch[k]
    <3>1. CASE k <= p
      <4>1. k \in 1 .. p /\ g - p + k \in 1 .. g
        BY <1>7, <3>1
      <4>2. waiting[k] = given[g - p + k]
        BY <1>1, <4>1
      <4>3. h[g - p + k] = given[g - p + k] /\ batch[k] = waiting[k]
        BY <1>3, <1>4, <4>1
      <4> QED
        BY <4>2, <4>3
    <3>2. CASE k > p
      <4>1. k - p \in 1 .. q /\ g - p + k = g + (k - p) /\ k = p + (k - p)
        BY <1>7, <3>2
      <4>2. h[g + (k - p)] = more[k - p] /\ batch[p + (k - p)] = more[k - p]
        BY <1>3, <1>4, <4>1
      <4> QED
        BY <4>1, <4>2
    <3> QED
      BY <3>1, <3>2, <1>4
  <2> QED
    BY <2>2, <2>3, <2>4
<1>11. \A i \in own2 : Cardinality(After(own2, i)) < Len(h) /\ all[i].log = h[Len(h) - Cardinality(After(own2, i))]
  BY <1>5, <1>9, <1>10 DEF own2
<1>12. \A i \in OwnOf(all, v) :
         LET after == Cardinality(After(OwnOf(all, v), i))
         IN after < Len(h) /\ all[i].log = h[Len(h) - after]
  BY <1>11 DEF own2
<1>13. Log!ShowsRest(all, v, h, <<>>)
  BY <1>3, <1>12, RestOfAll
<1> QED
  BY <1>13 DEF all, h

\* Children of another visit, added at the end, change nothing for this one.
LEMMA OthersShown ==
  ASSUME NEW S, NEW T, NEW children \in Seq(S), NEW v, NEW given \in Seq(T), NEW waiting \in Seq(T),
         NEW added \in Seq(S), OwnOf(added, v) = {},
         Log!ShowsRest(children, v, given, waiting)
  PROVE  Log!ShowsRest(children \o added, v, given, waiting)
<1> DEFINE n == Len(children)
           m == Len(added)
           all == children \o added
           own == OwnOf(children, v)
           own2 == OwnOf(all, v)
<1>1. /\ n \in Nat /\ m \in Nat /\ DOMAIN children = 1 .. n /\ DOMAIN all = 1 .. n + m
      /\ \A i \in 1 .. n : all[i] = children[i]
      /\ \A i \in 1 .. m : all[n + i] = added[i]
  BY ConcatExact
<1>2. own \subseteq 1 .. n
  BY OwnFinite
<1>3. \A k \in 1 .. m : added[k].by # v
  BY LenProperties DEF OwnOf
<1> HIDE DEF n, m, all
<1>4. ASSUME NEW i \in own2 PROVE i \in own
  <2>1. i \in 1 .. n + m /\ all[i].by = v
    BY <1>1 DEF OwnOf
  <2>2. CASE i \in 1 .. n
    BY <1>1, <2>1, <2>2 DEF OwnOf
  <2>3. CASE i \notin 1 .. n
    <3>1. i - n \in 1 .. m /\ n + (i - n) = i
      BY <1>1, <2>1, <2>3
    <3> QED
      BY <1>1, <1>3, <2>1, <3>1
  <2> QED
    BY <2>2, <2>3
<1>5. ASSUME NEW i \in own PROVE i \in own2
  <2>1. i \in 1 .. n /\ children[i].by = v
    BY <1>1 DEF OwnOf
  <2>2. i \in 1 .. n + m /\ all[i].by = v
    BY <1>1, <2>1
  <2> QED
    BY <1>1, <2>2 DEF OwnOf
<1> HIDE DEF own, own2
<1>6. own2 = own
  BY <1>4, <1>5
<1> DEFINE rest == Len(given) - Len(waiting)
<1>7. /\ rest >= 0
      /\ \A k \in 1 .. Len(waiting) : waiting[k] = given[rest + k]
      /\ \A i \in own :
           LET after == Cardinality(After(own, i))
           IN after < rest /\ children[i].log = given[rest - after]
  BY RestRead DEF own
<1>8. \A i \in own :
           LET after == Cardinality(After(own, i))
           IN after < rest /\ all[i].log = given[rest - after]
  BY <1>1, <1>2, <1>7
<1>9. \A i \in OwnOf(all, v) :
           LET after == Cardinality(After(OwnOf(all, v), i))
           IN after < rest /\ all[i].log = given[rest - after]
  BY <1>6, <1>8 DEF own2
<1>10. rest = Len(given) - Len(waiting)
  OBVIOUS
<1> HIDE DEF rest
<1>11. Log!ShowsRest(all, v, given, waiting)
  <2>1. LastShown(all, v, given, waiting, rest)
    BY <1>7, <1>9 DEF LastShown
  <2> QED
    BY <1>10, <2>1, RestShown
<1> QED
  BY <1>11 DEF all

LEMMA OneToOne ==
  ASSUME NEW X, NEW Y, IsFiniteSet(X), NEW f \in [X -> Y],
         \A a, b \in X : f[a] = f[b] => a = b, \A y \in Y : \E x \in X : f[x] = y
  PROVE  Cardinality(Y) = Cardinality(X)
<1>1. f \in Bijection(X, Y)
  BY DEF Bijection, Injection, Surjection, IsInjective
<1> QED
  BY <1>1, FS_Bijection DEF ExistsBijection

\* The first d children go.
LEMMA LastOnes ==
  ASSUME NEW S, NEW children \in Seq(S), NEW d \in 0 .. Len(children),
         NEW left, left = SubSeq(children, d + 1, Len(children))
  PROVE  /\ left \in Seq(S) /\ Len(left) = Len(children) - d /\ DOMAIN left = 1 .. Len(children) - d
         /\ \A i \in 1 .. Len(children) - d : left[i] = children[i + d] /\ i + d \in 1 .. Len(children)
<1> DEFINE n == Len(children)
<1>1. n \in Nat /\ \A i \in d + 1 .. n : children[i] \in S
  BY LenProperties, ElementOfSeq
<1>2. n \in Nat /\ d \in 0 .. n
  BY <1>1
<1>3. /\ left \in Seq(S)
      /\ Len(left) = IF d + 1 <= n THEN n - (d + 1) + 1 ELSE 0
      /\ \A i \in 1 .. n - (d + 1) + 1 : left[i] = children[d + 1 + i - 1]
  BY <1>1, SubSeqProperties
<1> HIDE DEF n
<1>4. Len(left) = n - d
  <2>1. (IF d + 1 <= n THEN n - (d + 1) + 1 ELSE 0) = n - d
    BY <1>2
  <2> QED
    BY <1>3, <2>1
<1>5. DOMAIN left = 1 .. n - d
  BY <1>3, <1>4, LenProperties
<1>6. ASSUME NEW i \in 1 .. n - d PROVE left[i] = children[i + d] /\ i + d \in 1 .. n
  <2>1. i \in 1 .. n - (d + 1) + 1 /\ d + 1 + i - 1 = i + d /\ i + d \in 1 .. n
    BY <1>2
  <2> QED
    BY <1>3, <2>1
<1> QED
  BY <1>3, <1>4, <1>5, <1>6 DEF n

LEMMA OldestGo ==
  ASSUME NEW S, NEW T, NEW children \in Seq(S), NEW v, NEW given \in Seq(T), NEW waiting \in Seq(T),
         NEW d \in 0 .. Len(children), NEW left, left = SubSeq(children, d + 1, Len(children)),
         Log!ShowsRest(children, v, given, waiting)
  PROVE  Log!ShowsRest(left, v, given, waiting)
<1> DEFINE n == Len(children)
           own == OwnOf(children, v)
           own2 == OwnOf(left, v)
<1>1. n \in Nat /\ d \in 0 .. n /\ DOMAIN children = 1 .. n
  BY LenProperties
<1>2. own \subseteq 1 .. n /\ \A i : IsFiniteSet(After(own, i)) /\ Cardinality(After(own, i)) \in Nat
  BY OwnFinite
<1>3. /\ DOMAIN left = 1 .. n - d
      /\ \A i \in 1 .. n - d : left[i] = children[i + d] /\ i + d \in 1 .. n
  BY LastOnes
<1> HIDE DEF n
<1>4. ASSUME NEW i \in own2 PROVE i \in 1 .. n - d /\ i + d \in own
  BY <1>1, <1>3 DEF OwnOf
<1>5. ASSUME NEW j \in own, j > d PROVE j - d \in own2
  <2>1. j \in 1 .. n /\ children[j].by = v
    BY <1>1 DEF OwnOf
  <2>2. j - d \in 1 .. n - d /\ (j - d) + d = j
    BY <1>1, <1>5, <2>1
  <2>3. left[j - d] = children[j]
    BY <1>3, <2>2
  <2> QED
    BY <1>3, <2>1, <2>2, <2>3 DEF OwnOf
<1> HIDE DEF own, own2
<1>6. ASSUME NEW i \in own2 PROVE Cardinality(After(own2, i)) = Cardinality(After(own, i + d))
  <2> DEFINE X == After(own, i + d)
             Y == After(own2, i)
             f == [j \in X |-> j - d]
  <2>1. i \in 1 .. n - d /\ d \in Nat
    BY <1>1, <1>4
  <2>2. ASSUME NEW j \in X PROVE j \in Int /\ j - d \in Y
    <3>1. j \in own /\ j > i + d /\ j \in 1 .. n
      BY <1>2 DEF After
    <3>2. j > d /\ j - d > i
      BY <1>1, <2>1, <3>1
    <3> QED
      BY <1>5, <3>1, <3>2 DEF After
  <2>3. ASSUME NEW j \in Y PROVE j + d \in X /\ (j + d) - d = j
    <3>1. j \in own2 /\ j > i /\ j \in 1 .. n - d /\ j + d \in own
      BY <1>4 DEF After
    <3>2. j + d > i + d /\ (j + d) - d = j
      BY <2>1, <3>1
    <3> QED
      BY <3>1, <3>2 DEF After
  <2> HIDE DEF X, Y
  <2>4. f \in [X -> Y]
    BY <2>2
  <2>5. \A a, b \in X : f[a] = f[b] => a = b
    BY <2>1, <2>2
  <2>6. \A y \in Y : \E x \in X : f[x] = y
    BY <2>3
  <2>7. IsFiniteSet(X)
    BY <1>2 DEF X
  <2> HIDE DEF f
  <2>8. Cardinality(Y) = Cardinality(X)
    BY <2>4, <2>5, <2>6, <2>7, OneToOne
  <2> QED
    BY <2>8 DEF X, Y
<1> DEFINE rest == Len(given) - Len(waiting)
<1>7. /\ rest >= 0
      /\ \A k \in 1 .. Len(waiting) : waiting[k] = given[rest + k]
      /\ \A i \in own :
           LET after == Cardinality(After(own, i))
           IN after < rest /\ children[i].log = given[rest - after]
  BY RestRead DEF own
<1>8. rest = Len(given) - Len(waiting)
  OBVIOUS
<1> HIDE DEF rest
<1>9. ASSUME NEW i \in own2
       PROVE  LET after == Cardinality(After(own2, i))
              IN after < rest /\ left[i].log = given[rest - after]
  <2>1. left[i] = children[i + d] /\ i + d \in own
    BY <1>3, <1>4
  <2>2. /\ Cardinality(After(own, i + d)) < rest
        /\ children[i + d].log = given[rest - Cardinality(After(own, i + d))]
    BY <1>7, <2>1
  <2>3. Cardinality(After(own2, i)) = Cardinality(After(own, i + d))
    BY <1>6
  <2> QED
    BY <2>1, <2>2, <2>3
<1>10. \A i \in OwnOf(left, v) :
         LET after == Cardinality(After(OwnOf(left, v), i))
         IN after < rest /\ left[i].log = given[rest - after]
  BY <1>9 DEF own2
<1>11. LastShown(left, v, given, waiting, rest)
  BY <1>7, <1>10 DEF LastShown
<1>12. Log!ShowsRest(left, v, given, waiting)
  BY <1>8, <1>11, RestShown
<1> QED
  BY <1>12

\* A line that has to wait is the last one that was given.
LEMMA OneMoreWaits ==
  ASSUME NEW S, NEW T, NEW children \in Seq(S), NEW v, NEW given \in Seq(T),
         NEW waiting \in Seq(T), NEW log \in T, Log!ShowsRest(children, v, given, waiting)
  PROVE  Log!ShowsRest(children, v, given \o <<log>>, Append(waiting, log))
<1> DEFINE g == Len(given)
           p == Len(waiting)
           rest == g - p
           given2 == given \o <<log>>
           waiting2 == Append(waiting, log)
<1>1. /\ rest >= 0
      /\ \A k \in 1 .. p : waiting[k] = given[rest + k]
      /\ \A i \in OwnOf(children, v) :
           LET after == Cardinality(After(OwnOf(children, v), i))
           IN after < rest /\ children[i].log = given[rest - after]
  BY RestRead
<1>2. <<log>> \in Seq(T) /\ Len(<<log>>) = 1 /\ <<log>>[1] = log
  OBVIOUS
<1>3. /\ g \in Nat /\ given2 \in Seq(T) /\ Len(given2) = g + 1
      /\ \A i \in 1 .. g : given2[i] = given[i]
      /\ \A i \in 1 .. 1 : given2[g + i] = <<log>>[i]
  BY <1>2, ConcatExact
<1>4. /\ waiting2 \in Seq(T) /\ Len(waiting2) = p + 1
      /\ \A i \in 1 .. p : waiting2[i] = waiting[i]
      /\ waiting2[p + 1] = log
  BY AppendProperties
<1>5. p \in Nat
  BY LenProperties
<1>6. \A i : Cardinality(After(OwnOf(children, v), i)) \in Nat
  BY OwnFinite
<1> DEFINE own == OwnOf(children, v)
<1> HIDE DEF g, p, given2, waiting2, own
<1>7. \A k \in 1 .. p + 1 : waiting2[k] = given2[rest + k]
  <2> TAKE k \in 1 .. p + 1
  <2>1. CASE k = p + 1
    <3>1. rest + k = g + 1
      BY <1>3, <1>5, <2>1
    <3>2. given2[g + 1] = log
      BY <1>2, <1>3
    <3> QED
      BY <1>4, <2>1, <3>1, <3>2
  <2>2. CASE k # p + 1
    <3>1. k \in 1 .. p /\ rest + k \in 1 .. g
      BY <1>1, <1>3, <1>5, <2>2
    <3> QED
      BY <1>1, <1>3, <1>4, <3>1
  <2> QED
    BY <2>1, <2>2
<1>8. ASSUME NEW i \in own
      PROVE  LET after == Cardinality(After(own, i))
             IN after < rest /\ children[i].log = given2[rest - after]
  <2>1. /\ Cardinality(After(own, i)) \in Nat /\ Cardinality(After(own, i)) < rest
        /\ children[i].log = given[rest - Cardinality(After(own, i))]
    BY <1>1, <1>6 DEF own
  <2>2. rest - Cardinality(After(own, i)) \in 1 .. g
    BY <1>3, <1>5, <2>1
  <2> QED
    BY <1>3, <2>1, <2>2
<1>9. rest = Len(given2) - Len(waiting2)
  BY <1>3, <1>4, <1>5
<1>10. \A k \in 1 .. Len(waiting2) : waiting2[k] = given2[rest + k]
  BY <1>4, <1>7
<1>11. \A i \in OwnOf(children, v) :
         LET after == Cardinality(After(OwnOf(children, v), i))
         IN after < rest /\ children[i].log = given2[rest - after]
  BY <1>8 DEF own
<1>12. rest >= 0
  BY <1>1
<1> HIDE DEF rest
<1>13. LastShown(children, v, given2, waiting2, rest)
  BY <1>10, <1>11, <1>12 DEF LastShown
<1>14. Log!ShowsRest(children, v, given2, waiting2)
  BY <1>3, <1>4, <1>9, <1>13, RestShown
<1> QED
  BY <1>14 DEF given2, waiting2

\* Showing and hiding children changes neither their lines nor their visits.
LEMMA DisplayKeeps ==
  ASSUME NEW children, NEW children2, NEW v, NEW given, NEW waiting,
         DOMAIN children2 = DOMAIN children,
         \A i \in DOMAIN children : children2[i].log = children[i].log /\ children2[i].by = children[i].by,
         Log!ShowsRest(children, v, given, waiting)
  PROVE  Log!ShowsRest(children2, v, given, waiting)
<1>1. {i \in DOMAIN children2 : children2[i].by = v} = {i \in DOMAIN children : children[i].by = v}
  OBVIOUS
<1> QED
  BY <1>1 DEF Log!ShowsRest

Rightly(children, text) ==
  \A i \in DOMAIN children : children[i].display = (children[i].log \in Matches[text])

LEMMA LogTypes ==
  ASSUME LogInv
  PROVE  /\ lines \in Seq(LogChild) /\ handed \in [Log!LogVisit -> Seq(Log!LogLine)]
         /\ pendingLogs \in [Log!LogVisit -> Seq(Log!LogLine)]
         /\ batchLogsTimer \in [Log!LogVisit -> {"none", "set", "dead"}]
         /\ logVisit # 0 => logVisit \in Log!LogVisit
         /\ logVisit \in Nat /\ logVisits \in Nat /\ logged \in Nat
<1>1. LogVisits \in Nat /\ LogCount \in Nat
  BY PagesAssumption
<1> QED
  BY <1>1 DEF LogInv, Log!TypeOK, Log!LogVisit

\* The type invariant follows where the container and the history have theirs.
LEMMA LogTypeFollows ==
  ASSUME lines' \in Seq(LogChild),
         logged' \in 0 .. LogCount, logVisit' \in 0 .. LogVisits, logVisits' \in 0 .. LogVisits,
         filterValue' \in Filter, query' \in Filter,
         pendingLogs' \in [Log!LogVisit -> Seq(Log!LogLine)],
         batchLogsTimer' \in [Log!LogVisit -> {"none", "set", "dead"}]
  PROVE  Log!TypeOK'
<1>1. \A i \in DOMAIN lines' : lines'[i] \in LogChild
  OBVIOUS
<1>2. \A i \in DOMAIN lines' : lines'[i].log \in Log!LogLine /\ lines'[i].by \in Log!LogVisit
  BY <1>1 DEF LogChild
<1> QED
  BY <1>2 DEF Log!TypeOK, Log!LogLine, Log!LogVisit

LEMMA ChildrenMade ==
  ASSUME NEW v \in Log!LogVisit, NEW logs \in Seq(Log!LogLine),
         NEW added, added = [i \in DOMAIN logs |-> Log!Child(logs[i], v)]
  PROVE  /\ added \in Seq(LogChild) /\ ShowsBatch(added, logs, v) /\ Rightly(added, filterValue)
         /\ \A w : w # v => OwnOf(added, w) = {}
<1>1. /\ Len(logs) \in Nat /\ DOMAIN logs = 1 .. Len(logs)
      /\ \A i \in 1 .. Len(logs) : logs[i] \in Log!LogLine
  BY LenProperties, ElementOfSeq
<1>2. \A i \in 1 .. Len(logs) : Log!Child(logs[i], v) \in LogChild
  BY <1>1 DEF Log!Child, LogChild
<1>3. added = [i \in 1 .. Len(logs) |-> Log!Child(logs[i], v)]
  BY <1>1
<1>4. added \in Seq(LogChild) /\ Len(added) = Len(logs) /\ DOMAIN added = 1 .. Len(logs)
  BY <1>1, <1>2, <1>3
<1>5. \A i \in 1 .. Len(logs) :
         /\ added[i].log = logs[i] /\ added[i].by = v
         /\ added[i].display = (added[i].log \in Matches[filterValue])
  BY <1>3 DEF Log!Child
<1>6. ShowsBatch(added, logs, v)
  BY <1>4, <1>5 DEF ShowsBatch
<1>7. Rightly(added, filterValue)
  BY <1>4, <1>5 DEF Rightly
<1>8. \A w : w # v => OwnOf(added, w) = {}
  BY <1>4, <1>5 DEF OwnOf
<1> QED
  BY <1>4, <1>6, <1>7, <1>8

\* postLogAction keeps what is shown right.
LEMMA PostKeeps ==
  ASSUME NEW children \in Seq(LogChild), NEW v, NEW left, left = Log!postLogAction(v, children)
  PROVE  /\ left \in Seq(LogChild)
         /\ \A text : Rightly(children, text) => Rightly(left, text)
         /\ \A w : \A given, waiting \in Seq(Log!LogLine) :
              Log!ShowsRest(children, w, given, waiting) => Log!ShowsRest(left, w, given, waiting)
<1>1. CASE left = children
  BY <1>1
<1>2. CASE left # children
  <2> DEFINE d == Len(children) - LINES_LIMIT
  <2>1. Len(children) > LINES_LIMIT /\ left = SubSeq(children, d + 1, Len(children))
    BY <1>2 DEF Log!postLogAction
  <2>2. d \in 0 .. Len(children) /\ Len(children) \in Nat
    <3>1. LINES_LIMIT \in Nat /\ Len(children) \in Nat
      BY PagesAssumption, LenProperties
    <3> QED
      BY <2>1, <3>1
  <2> HIDE DEF d
  <2>3. /\ left \in Seq(LogChild) /\ DOMAIN left = 1 .. Len(children) - d
        /\ \A i \in 1 .. Len(children) - d : left[i] = children[i + d] /\ i + d \in 1 .. Len(children)
    BY <2>1, <2>2, LastOnes
  <2>4. ASSUME NEW w, NEW given \in Seq(Log!LogLine), NEW waiting \in Seq(Log!LogLine),
               Log!ShowsRest(children, w, given, waiting)
        PROVE  Log!ShowsRest(left, w, given, waiting)
    BY <2>1, <2>2, <2>4, OldestGo
  <2>5. ASSUME NEW text, Rightly(children, text) PROVE Rightly(left, text)
    <3>1. DOMAIN children = 1 .. Len(children)
      BY LenProperties
    <3> QED
      BY <2>3, <2>5, <3>1 DEF Rightly
  <2> QED
    BY <2>3, <2>4, <2>5
<1> QED
  BY <1>1, <1>2

LEMMA RightlyBoth ==
  ASSUME NEW S, NEW children \in Seq(S), NEW added \in Seq(S), NEW text,
         Rightly(children, text), Rightly(added, text)
  PROVE  Rightly(children \o added, text)
<1> DEFINE n == Len(children)
           m == Len(added)
           all == children \o added
<1>1. /\ n \in Nat /\ m \in Nat /\ DOMAIN children = 1 .. n /\ DOMAIN all = 1 .. n + m
      /\ \A i \in 1 .. n : all[i] = children[i]
      /\ \A i \in 1 .. m : all[n + i] = added[i]
  BY ConcatExact
<1>2. DOMAIN added = 1 .. m
  BY LenProperties
<1> HIDE DEF all, n, m
<1>3. ASSUME NEW i \in 1 .. n + m PROVE all[i].display = (all[i].log \in Matches[text])
  <2>1. CASE i <= n
    <3>1. i \in 1 .. n
      BY <1>1, <2>1
    <3> QED
      BY <1>1, <3>1 DEF Rightly
  <2>2. CASE ~(i <= n)
    <3>1. i - n \in 1 .. m /\ n + (i - n) = i
      BY <1>1, <2>2
    <3>2. all[i] = added[i - n]
      BY <1>1, <3>1
    <3> QED
      BY <1>2, <3>1, <3>2 DEF Rightly
  <2> QED
    BY <2>1, <2>2
<1>4. Rightly(all, text)
  BY <1>1, <1>3 DEF Rightly
<1> QED
  BY <1>4 DEF all

\* A batch of any visit is shown.
LEMMA ShowKeepsRest ==
  ASSUME LogInv, NEW v \in Log!LogVisit, NEW more \in Seq(Log!LogLine), Log!Show(v, more)
  PROVE  /\ lines' \in Seq(LogChild)
         /\ pendingLogs' = [pendingLogs EXCEPT ![v] = <<>>] /\ thrown' = thrown
         /\ pendingLogs' \in [Log!LogVisit -> Seq(Log!LogLine)]
         /\ logVisit # 0 => Rightly(lines', filterValue)
         /\ logVisit # 0 /\ logVisit \notin thrown =>
              IF v = logVisit THEN Log!ShowsRest(lines', v, handed[v] \o more, <<>>)
              ELSE Log!ShowsRest(lines', logVisit, handed[logVisit], pendingLogs[logVisit])
<1> DEFINE batch == pendingLogs[v] \o more
           added == [i \in DOMAIN batch |-> Log!Child(batch[i], v)]
           all == lines \o added
<1>1. /\ filterValue \in Log!Valid
      /\ lines' = Log!postLogAction(v, all)
      /\ pendingLogs' = [pendingLogs EXCEPT ![v] = <<>>] /\ thrown' = thrown
  BY DEF Log!Show, Log!addLogLines
<1>2. /\ lines \in Seq(LogChild) /\ pendingLogs[v] \in Seq(Log!LogLine) /\ handed[v] \in Seq(Log!LogLine)
      /\ logVisit # 0 =>
           handed[logVisit] \in Seq(Log!LogLine) /\ pendingLogs[logVisit] \in Seq(Log!LogLine)
      /\ pendingLogs' \in [Log!LogVisit -> Seq(Log!LogLine)]
  BY <1>1, LogTypes, EmptySeq
<1>3. batch \in Seq(Log!LogLine)
  BY <1>2, ConcatProperties
<1> HIDE DEF batch
<1>4. /\ added \in Seq(LogChild) /\ ShowsBatch(added, batch, v) /\ Rightly(added, filterValue)
      /\ \A w : w # v => OwnOf(added, w) = {}
  BY <1>3, ChildrenMade
<1> HIDE DEF added
<1>5. all \in Seq(LogChild)
  BY <1>2, <1>4, ConcatProperties
<1>6. handed[v] \o more \in Seq(Log!LogLine) /\ <<>> \in Seq(Log!LogLine)
  BY <1>2, ConcatProperties, EmptySeq
<1>7. ASSUME logVisit # 0 PROVE Rightly(lines', filterValue)
  <2>1. Rightly(lines, filterValue)
    BY <1>1, <1>7 DEF LogInv, Log!FilterApplied, Rightly
  <2>2. Rightly(all, filterValue)
    BY <1>2, <1>4, <2>1, RightlyBoth
  <2> QED
    BY <1>1, <1>5, <2>2, PostKeeps
<1>8. ASSUME logVisit # 0, logVisit \notin thrown
      PROVE  IF v = logVisit THEN Log!ShowsRest(lines', v, handed[v] \o more, <<>>)
             ELSE Log!ShowsRest(lines', logVisit, handed[logVisit], pendingLogs[logVisit])
  <2>1. Log!ShowsRest(lines, logVisit, handed[logVisit], pendingLogs[logVisit])
    BY <1>8 DEF LogInv, Log!NoLineLost
  <2>2. CASE v = logVisit
    <3>1. Log!ShowsRest(all, v, handed[v] \o more, <<>>)
      BY <1>2, <1>4, <2>1, <2>2, BatchShown DEF batch
    <3>2. Log!ShowsRest(lines', v, handed[v] \o more, <<>>)
      BY <1>1, <1>5, <1>6, <3>1, PostKeeps
    <3> QED
      BY <2>2, <3>2
  <2>3. CASE v # logVisit
    <3>1. Log!ShowsRest(all, logVisit, handed[logVisit], pendingLogs[logVisit])
      BY <1>2, <1>4, <1>8, <2>1, <2>3, OthersShown
    <3>2. Log!ShowsRest(lines', logVisit, handed[logVisit], pendingLogs[logVisit])
      BY <1>1, <1>2, <1>5, <1>8, <3>1, PostKeeps
    <3> QED
      BY <2>3, <3>2
  <2> QED
    BY <2>2, <2>3
<1>9. lines' \in Seq(LogChild)
  BY <1>1, <1>5, PostKeeps
<1> QED
  BY <1>1, <1>2, <1>7, <1>8, <1>9

LEMMA LogInit == PagesInit => LogInv
<1> SUFFICES ASSUME PagesInit PROVE LogInv
  OBVIOUS
<1>1. /\ logged = 0 /\ logVisit = 0 /\ logVisits = 0
      /\ filterValue = NoFilter /\ query = NoFilter /\ lines = <<>>
      /\ pendingLogs = [v \in Log!LogVisit |-> <<>>]
      /\ batchLogsTimer = [v \in Log!LogVisit |-> "none"]
      /\ handed = [v \in Log!LogVisit |-> <<>>]
  BY DEF PagesInit, Log!Init
<1>2. LogCount \in Nat /\ LogVisits \in Nat /\ NoFilter \in Filter
  BY PagesAssumption
<1>3. <<>> \in Seq(LogChild) /\ <<>> \in Seq(Log!LogLine) /\ DOMAIN <<>> = {}
  BY EmptySeq
<1>4. Log!TypeOK
  BY <1>1, <1>2, <1>3 DEF Log!TypeOK
<1>5. Log!NoLineLost /\ Log!FilterApplied
  BY <1>1 DEF Log!NoLineLost, Log!FilterApplied
<1> QED
  BY <1>1, <1>3, <1>4, <1>5 DEF LogInv

\* A new visit starts with nothing.
LEMMA OpenKeeps ==
  ASSUME LogInv, Log!OpenLog
  PROVE  LogInv'
<1>1. /\ logVisit = 0 /\ logVisits < LogVisits /\ logVisits' = logVisits + 1 /\ logVisit' = logVisits'
      /\ lines' = <<>> /\ query' = NoFilter
      /\ UNCHANGED <<logged, filterValue, pendingLogs, batchLogsTimer, handed, thrown>>
  BY DEF Log!OpenLog
<1>2. LogVisits \in Nat /\ NoFilter \in Filter /\ logVisits \in Nat
  BY PagesAssumption, LogTypes
<1>3. /\ logVisit' \in Log!LogVisit /\ logVisit' > logVisits /\ logVisit' \in 0 .. LogVisits
      /\ logVisits' \in 0 .. LogVisits /\ logVisits' > logVisits
  BY <1>1, <1>2 DEF Log!LogVisit
<1>4. <<>> \in Seq(LogChild) /\ <<>> \in Seq(Log!LogLine) /\ DOMAIN <<>> = {} /\ Len(<<>>) = 0
  BY EmptySeq
<1>5. Log!TypeOK'
  <2>1. /\ logged' \in 0 .. LogCount /\ filterValue' \in Filter /\ query' \in Filter
        /\ pendingLogs' \in [Log!LogVisit -> Seq(Log!LogLine)]
        /\ batchLogsTimer' \in [Log!LogVisit -> {"none", "set", "dead"}]
    BY <1>1, <1>2 DEF LogInv, Log!TypeOK
  <2> QED
    BY <1>1, <1>3, <1>4, <2>1, LogTypeFollows
<1>6. handed[logVisit'] = <<>> /\ pendingLogs[logVisit'] = <<>>
  BY <1>3 DEF LogInv
<1>7. Log!ShowsRest(<<>>, logVisit', <<>>, <<>>)
  <2>1. OwnOf(<<>>, logVisit') = {}
    BY <1>4 DEF OwnOf
  <2> QED
    BY <1>4, <2>1, RestOfAll
<1>8. Log!NoLineLost'
  BY <1>1, <1>6, <1>7 DEF Log!NoLineLost
<1>9. Log!FilterApplied'
  BY <1>1, <1>4 DEF Log!FilterApplied
<1>10. \A v \in Log!LogVisit : v > logVisits' => v > logVisits
  BY <1>1, <1>2 DEF Log!LogVisit
<1>11. \A v \in Log!LogVisit : v > logVisits' => handed'[v] = <<>> /\ pendingLogs'[v] = <<>>
  BY <1>1, <1>10 DEF LogInv
<1>12. logVisit' <= logVisits'
  BY <1>1, <1>2
<1>13. lines' \in Seq(LogChild) /\ handed' \in [Log!LogVisit -> Seq(Log!LogLine)]
  BY <1>1, <1>4, LogTypes
<1> QED
  BY <1>5, <1>8, <1>9, <1>11, <1>12, <1>13 DEF LogInv

LEMMA LeaveKeeps ==
  ASSUME LogInv, Log!LeaveLog
  PROVE  LogInv'
<1>1. /\ logVisit' = 0
      /\ UNCHANGED <<logged, logVisits, filterValue, query, lines, pendingLogs, batchLogsTimer,
                     handed, thrown>>
  BY DEF Log!LeaveLog
<1>2. LogVisits \in Nat /\ logVisits \in Nat
  BY PagesAssumption, LogTypes
<1>3. Log!TypeOK'
  BY <1>1, <1>2 DEF LogInv, Log!TypeOK
<1>4. Log!NoLineLost' /\ Log!FilterApplied'
  BY <1>1 DEF Log!NoLineLost, Log!FilterApplied
<1> QED
  BY <1>1, <1>2, <1>3, <1>4 DEF LogInv

\* Where lines come to the visit on screen, and only its own are touched.
LEMMA VisitKeeps ==
  ASSUME LogInv, logVisit # 0, UNCHANGED <<logVisit, logVisits, filterValue, query>>,
         NEW more \in Seq(Log!LogLine), Log!Handed(more), logged' \in 0 .. LogCount,
         batchLogsTimer' \in [Log!LogVisit -> {"none", "set", "dead"}],
         lines' \in Seq(LogChild), pendingLogs' \in [Log!LogVisit -> Seq(Log!LogLine)],
         \A v \in Log!LogVisit : v # logVisit => pendingLogs'[v] = pendingLogs[v],
         Rightly(lines', filterValue) \/ filterValue \notin Log!Valid,
         logVisit \notin thrown' =>
           Log!ShowsRest(lines', logVisit, handed[logVisit] \o more, pendingLogs'[logVisit])
  PROVE  LogInv'
<1>1. handed' = [handed EXCEPT ![logVisit] = handed[logVisit] \o more] /\ logVisit \in Log!LogVisit
  BY LogTypes DEF Log!Handed
<1>2. /\ handed' \in [Log!LogVisit -> Seq(Log!LogLine)] /\ handed'[logVisit] = handed[logVisit] \o more
      /\ \A v \in Log!LogVisit : v # logVisit => handed'[v] = handed[v]
  <2>1. handed \in [Log!LogVisit -> Seq(Log!LogLine)] /\ handed[logVisit] \o more \in Seq(Log!LogLine)
    BY <1>1, LogTypes, ConcatProperties
  <2> QED
    BY <1>1, <2>1
<1>3. Log!TypeOK'
  <2>1. /\ logVisit' \in 0 .. LogVisits /\ logVisits' \in 0 .. LogVisits
        /\ filterValue' \in Filter /\ query' \in Filter
    BY DEF LogInv, Log!TypeOK
  <2> QED
    BY <2>1, LogTypeFollows
<1>4. Log!NoLineLost'
  BY <1>2 DEF Log!NoLineLost
<1>5. Log!FilterApplied'
  BY DEF Log!FilterApplied, Rightly
<1>6. \A v \in Log!LogVisit : v > logVisits => v # logVisit
  <2>1. logVisit <= logVisits /\ logVisit \in Nat /\ logVisits \in Nat
    BY LogTypes DEF LogInv
  <2> QED
    BY <2>1 DEF Log!LogVisit
<1>7. \A v \in Log!LogVisit : v > logVisits' => handed'[v] = <<>> /\ pendingLogs'[v] = <<>>
  BY <1>2, <1>6 DEF LogInv
<1>8. logVisit' <= logVisits'
  BY DEF LogInv
<1> QED
  BY <1>2, <1>3, <1>4, <1>5, <1>7, <1>8 DEF LogInv

\* Its lines are shown, or the handler throws.
LEMMA ShownOrThrown ==
  ASSUME LogInv, logVisit # 0, NEW more \in Seq(Log!LogLine),
         Log!Show(logVisit, more) \/ Log!Throws(logVisit)
  PROVE  /\ lines' \in Seq(LogChild) /\ pendingLogs' \in [Log!LogVisit -> Seq(Log!LogLine)]
         /\ \A v \in Log!LogVisit : v # logVisit => pendingLogs'[v] = pendingLogs[v]
         /\ Rightly(lines', filterValue) \/ filterValue \notin Log!Valid
         /\ logVisit \notin thrown' =>
              Log!ShowsRest(lines', logVisit, handed[logVisit] \o more, pendingLogs'[logVisit])
<1>1. logVisit \in Log!LogVisit /\ pendingLogs \in [Log!LogVisit -> Seq(Log!LogLine)]
  BY LogTypes
<1>2. CASE Log!Show(logVisit, more)
  <2>1. /\ lines' \in Seq(LogChild)
        /\ pendingLogs' = [pendingLogs EXCEPT ![logVisit] = <<>>] /\ thrown' = thrown
        /\ pendingLogs' \in [Log!LogVisit -> Seq(Log!LogLine)]
        /\ Rightly(lines', filterValue)
        /\ logVisit \notin thrown =>
             Log!ShowsRest(lines', logVisit, handed[logVisit] \o more, <<>>)
    BY <1>1, <1>2, ShowKeepsRest
  <2>2. pendingLogs'[logVisit] = <<>>
        /\ \A v \in Log!LogVisit : v # logVisit => pendingLogs'[v] = pendingLogs[v]
    BY <1>1, <2>1
  <2> QED
    BY <2>1, <2>2
<1>3. CASE Log!Throws(logVisit)
  <2>1. /\ filterValue \notin Log!Valid /\ thrown' = thrown \union {logVisit}
        /\ lines' = lines /\ pendingLogs' = pendingLogs
    BY <1>3 DEF Log!Throws
  <2> QED
    BY <2>1, LogTypes
<1> QED
  BY <1>2, <1>3

LEMMA LogEventKeeps ==
  ASSUME LogInv, Log!systemLogEvent
  PROVE  LogInv'
<1> DEFINE log == logged + 1
<1>1. /\ logged < LogCount /\ logged' = log
      /\ UNCHANGED <<logVisit, logVisits, filterValue, query>>
      /\ \/ logVisit = 0 /\ UNCHANGED <<lines, pendingLogs, batchLogsTimer, handed, thrown>>
         \/ /\ logVisit # 0 /\ Log!Handed(<<log>>)
            /\ \/ /\ Log!Show(logVisit, <<log>>) \/ Log!Throws(logVisit)
                  /\ Log!SetTimer(logVisit, "set") \/ UNCHANGED batchLogsTimer
               \/ /\ pendingLogs' = [pendingLogs EXCEPT ![logVisit] = Append(@, log)]
                  /\ UNCHANGED <<lines, batchLogsTimer, thrown>>
  BY DEF Log!systemLogEvent
<1>2. log \in Log!LogLine /\ logged' \in 0 .. LogCount
  <2>1. LogCount \in Nat /\ logged \in Nat
    BY PagesAssumption, LogTypes
  <2> QED
    BY <1>1, <2>1 DEF Log!LogLine
<1> HIDE DEF log
<1>3. <<log>> \in Seq(Log!LogLine)
  BY <1>2
<1>4. CASE logVisit = 0
  <2>1. Log!TypeOK'
    BY <1>1, <1>2, <1>4 DEF LogInv, Log!TypeOK
  <2>2. Log!NoLineLost' /\ Log!FilterApplied'
    BY <1>1, <1>4 DEF Log!NoLineLost, Log!FilterApplied
  <2> QED
    BY <1>1, <1>4, <2>1, <2>2 DEF LogInv
<1>5. CASE /\ logVisit # 0 /\ Log!Handed(<<log>>)
           /\ Log!Show(logVisit, <<log>>) \/ Log!Throws(logVisit)
           /\ Log!SetTimer(logVisit, "set") \/ UNCHANGED batchLogsTimer
  <2>1. batchLogsTimer' \in [Log!LogVisit -> {"none", "set", "dead"}]
    BY <1>5, LogTypes DEF Log!SetTimer
  <2> QED
    BY <1>1, <1>2, <1>3, <1>5, <2>1, ShownOrThrown, VisitKeeps
<1>6. CASE /\ logVisit # 0 /\ Log!Handed(<<log>>)
           /\ pendingLogs' = [pendingLogs EXCEPT ![logVisit] = Append(@, log)]
           /\ UNCHANGED <<lines, batchLogsTimer, thrown>>
  <2>1. /\ logVisit \in Log!LogVisit /\ pendingLogs[logVisit] \in Seq(Log!LogLine)
        /\ handed[logVisit] \in Seq(Log!LogLine) /\ lines' \in Seq(LogChild)
        /\ batchLogsTimer' \in [Log!LogVisit -> {"none", "set", "dead"}]
    BY <1>6, LogTypes
  <2>2. Append(pendingLogs[logVisit], log) \in Seq(Log!LogLine)
    BY <1>2, <2>1, AppendProperties
  <2>3. /\ pendingLogs' \in [Log!LogVisit -> Seq(Log!LogLine)]
        /\ pendingLogs'[logVisit] = Append(pendingLogs[logVisit], log)
        /\ \A v \in Log!LogVisit : v # logVisit => pendingLogs'[v] = pendingLogs[v]
    BY <1>6, <2>1, <2>2, LogTypes
  <2>4. Rightly(lines', filterValue) \/ filterValue \notin Log!Valid
    BY <1>6 DEF LogInv, Log!FilterApplied, Rightly
  <2>5. ASSUME logVisit \notin thrown'
        PROVE  Log!ShowsRest(lines', logVisit, handed[logVisit] \o <<log>>, pendingLogs'[logVisit])
    <3>1. Log!ShowsRest(lines, logVisit, handed[logVisit], pendingLogs[logVisit])
      BY <1>6, <2>5 DEF LogInv, Log!NoLineLost
    <3>2. Log!ShowsRest(lines, logVisit, handed[logVisit] \o <<log>>,
                        Append(pendingLogs[logVisit], log))
      BY <1>2, <2>1, <3>1, LogTypes, OneMoreWaits
    <3> QED
      BY <1>6, <2>3, <3>2
  <2> QED
    BY <1>1, <1>2, <1>3, <1>6, <2>1, <2>3, <2>4, <2>5, VisitKeeps
<1> QED
  BY <1>1, <1>4, <1>5, <1>6

LEMMA CurrentLogsKeep ==
  ASSUME LogInv, Log!currentSystemLogs
  PROVE  LogInv'
<1> DEFINE items == [i \in 1 .. logged |-> i]
<1>1. /\ logVisit # 0 /\ Log!Handed(items)
      /\ Log!Show(logVisit, items) \/ Log!Throws(logVisit)
      /\ UNCHANGED <<logged, logVisit, logVisits, filterValue, query, batchLogsTimer>>
  BY DEF Log!currentSystemLogs
<1>2. items \in Seq(Log!LogLine)
  <2>1. logged \in 0 .. LogCount /\ logged \in Nat /\ LogCount \in Nat
    BY PagesAssumption, LogTypes DEF LogInv, Log!TypeOK
  <2>2. \A i \in 1 .. logged : i \in Log!LogLine
    BY <2>1 DEF Log!LogLine
  <2> QED
    BY <2>1, <2>2
<1> HIDE DEF items
<1>3. logged' \in 0 .. LogCount /\ batchLogsTimer' \in [Log!LogVisit -> {"none", "set", "dead"}]
  BY <1>1 DEF LogInv, Log!TypeOK
<1> QED
  BY <1>1, <1>2, <1>3, ShownOrThrown, VisitKeeps

\* The timer of any visit.
LEMMA TimerKeeps ==
  ASSUME LogInv, NEW v \in Log!LogVisit, Log!BatchLogsTimer(v)
  PROVE  LogInv'
<1>1. /\ UNCHANGED <<logged, logVisit, logVisits, filterValue, query, handed>>
      /\ \/ Log!Show(v, <<>>) /\ Log!SetTimer(v, "none")
         \/ Log!Throws(v) /\ Log!SetTimer(v, "dead")
         \/ /\ filterValue \notin Log!Valid
            /\ lines' = Log!postLogAction(v, lines)
            /\ Log!SetTimer(v, "none") /\ UNCHANGED <<pendingLogs, thrown>>
  BY DEF Log!BatchLogsTimer
<1>2. batchLogsTimer' \in [Log!LogVisit -> {"none", "set", "dead"}]
  BY <1>1, LogTypes DEF Log!SetTimer
<1>3. <<>> \in Seq(Log!LogLine)
  BY EmptySeq
<1>4. /\ logVisit # 0 => /\ logVisit \in Log!LogVisit /\ handed[logVisit] \in Seq(Log!LogLine)
                         /\ pendingLogs[logVisit] \in Seq(Log!LogLine)
      /\ pendingLogs \in [Log!LogVisit -> Seq(Log!LogLine)] /\ lines \in Seq(LogChild)
  BY LogTypes
<1>5. ASSUME lines' \in Seq(LogChild), pendingLogs' \in [Log!LogVisit -> Seq(Log!LogLine)],
             \A w \in Log!LogVisit : pendingLogs'[w] \in {<<>>, pendingLogs[w]},
             logVisit # 0 => Rightly(lines', filterValue) \/ filterValue \notin Log!Valid,
             logVisit # 0 /\ logVisit \notin thrown' =>
               Log!ShowsRest(lines', logVisit, handed[logVisit], pendingLogs'[logVisit])
      PROVE  LogInv'
  <2>1. /\ logged' \in 0 .. LogCount /\ logVisit' \in 0 .. LogVisits /\ logVisits' \in 0 .. LogVisits
        /\ filterValue' \in Filter /\ query' \in Filter
    BY <1>1 DEF LogInv, Log!TypeOK
  <2>2. Log!TypeOK'
    BY <1>2, <1>5, <2>1, LogTypeFollows
  <2>3. Log!NoLineLost'
    BY <1>1, <1>5 DEF Log!NoLineLost
  <2>4. Log!FilterApplied'
    BY <1>1, <1>5 DEF Log!FilterApplied, Rightly
  <2>5. \A w \in Log!LogVisit : w > logVisits' => handed'[w] = <<>> /\ pendingLogs'[w] = <<>>
    BY <1>1, <1>5 DEF LogInv
  <2>6. logVisit' <= logVisits' /\ handed' \in [Log!LogVisit -> Seq(Log!LogLine)]
    BY <1>1 DEF LogInv
  <2> QED
    BY <1>5, <2>2, <2>3, <2>4, <2>5, <2>6 DEF LogInv
<1>6. CASE Log!Show(v, <<>>)
  <2>1. /\ lines' \in Seq(LogChild)
        /\ pendingLogs' = [pendingLogs EXCEPT ![v] = <<>>] /\ thrown' = thrown
        /\ pendingLogs' \in [Log!LogVisit -> Seq(Log!LogLine)]
        /\ logVisit # 0 => Rightly(lines', filterValue)
        /\ logVisit # 0 /\ logVisit \notin thrown =>
             IF v = logVisit THEN Log!ShowsRest(lines', v, handed[v] \o <<>>, <<>>)
             ELSE Log!ShowsRest(lines', logVisit, handed[logVisit], pendingLogs[logVisit])
    BY <1>3, <1>6, ShowKeepsRest
  <2>2. \A w \in Log!LogVisit : pendingLogs'[w] = IF w = v THEN <<>> ELSE pendingLogs[w]
    BY <1>4, <2>1
  <2>3. v = logVisit /\ logVisit # 0 => handed[v] \o <<>> = handed[v]
    BY <1>4, ConcatEmptySeq
  <2>4. logVisit # 0 /\ logVisit \notin thrown' =>
          Log!ShowsRest(lines', logVisit, handed[logVisit], pendingLogs'[logVisit])
    BY <1>4, <2>1, <2>2, <2>3
  <2> QED
    BY <1>5, <2>1, <2>2, <2>4
<1>7. CASE Log!Throws(v)
  <2>1. /\ filterValue \notin Log!Valid /\ thrown' = thrown \union {v}
        /\ lines' = lines /\ pendingLogs' = pendingLogs
    BY <1>7 DEF Log!Throws
  <2>2. logVisit # 0 /\ logVisit \notin thrown' =>
          Log!ShowsRest(lines', logVisit, handed[logVisit], pendingLogs'[logVisit])
    BY <2>1 DEF LogInv, Log!NoLineLost
  <2> QED
    BY <1>4, <1>5, <2>1, <2>2
<1>8. CASE /\ filterValue \notin Log!Valid
           /\ lines' = Log!postLogAction(v, lines)
           /\ UNCHANGED <<pendingLogs, thrown>>
  <2>1. lines' \in Seq(LogChild)
    BY <1>4, <1>8, PostKeeps
  <2>2. logVisit # 0 /\ logVisit \notin thrown =>
          Log!ShowsRest(lines, logVisit, handed[logVisit], pendingLogs[logVisit])
    BY DEF LogInv, Log!NoLineLost
  <2>3. logVisit # 0 /\ logVisit \notin thrown =>
          Log!ShowsRest(lines', logVisit, handed[logVisit], pendingLogs[logVisit])
    BY <1>4, <1>8, <2>2, PostKeeps
  <2> QED
    BY <1>4, <1>5, <1>8, <2>1, <2>3
<1> QED
  BY <1>1, <1>6, <1>7, <1>8

LEMMA Redisplayed ==
  ASSUME NEW child \in LogChild, NEW matching
  PROVE  LET new == [child EXCEPT !.display = child.log \in matching]
         IN /\ new \in LogChild /\ new.log = child.log /\ new.by = child.by
            /\ new.display = (child.log \in matching)
<1> DEFINE matches == child.log \in matching
           new == [child EXCEPT !.display = matches]
<1>1. matches \in BOOLEAN
  OBVIOUS
<1> HIDE DEF matches
<1>2. /\ new \in LogChild /\ new.log = child.log /\ new.by = child.by
      /\ new.display = matches
  BY <1>1 DEF LogChild
<1> QED
  BY <1>2 DEF matches

LEMMA KeyUpKeeps ==
  ASSUME LogInv, Log!KeyUp
  PROVE  LogInv'
<1>1. PICK text \in Filter :
        /\ logVisit # 0 /\ query' = text /\ filterValue' = text
        /\ \/ text \in Log!Valid /\ lines' = Log!filterLogs(text)
           \/ text \notin Log!Valid /\ UNCHANGED lines
        /\ UNCHANGED <<logged, logVisit, logVisits, pendingLogs, batchLogsTimer, handed, thrown>>
  BY DEF Log!KeyUp
<1>2. /\ lines' \in Seq(LogChild) /\ DOMAIN lines' = DOMAIN lines
      /\ \A i \in DOMAIN lines : lines'[i].log = lines[i].log /\ lines'[i].by = lines[i].by
      /\ Rightly(lines', text) \/ text \notin Log!Valid
  <2>1. lines \in Seq(LogChild) /\ Len(lines) \in Nat /\ DOMAIN lines = 1 .. Len(lines)
    BY LogTypes, LenProperties
  <2>2. CASE UNCHANGED lines /\ text \notin Log!Valid
    BY <2>1, <2>2
  <2>3. CASE lines' = Log!filterLogs(text)
    <3>1. lines' = [i \in 1 .. Len(lines) |->
                      [lines[i] EXCEPT !.display = lines[i].log \in Matches[text]]]
      BY <2>1, <2>3 DEF Log!filterLogs
    <3>2. ASSUME NEW i \in 1 .. Len(lines)
          PROVE  LET child == [lines[i] EXCEPT !.display = lines[i].log \in Matches[text]]
                 IN /\ child \in LogChild /\ child.log = lines[i].log /\ child.by = lines[i].by
                    /\ child.display = (lines[i].log \in Matches[text])
      <4>1. lines[i] \in LogChild
        BY <2>1, ElementOfSeq
      <4> QED
        BY <4>1, Redisplayed
    <3>3. \A i \in 1 .. Len(lines) : lines'[i] = [lines[i] EXCEPT !.display = lines[i].log \in Matches[text]]
      BY <3>1
    <3>4. DOMAIN lines' = 1 .. Len(lines) /\ \A i \in 1 .. Len(lines) : lines'[i] \in LogChild
      BY <3>1, <3>2, <3>3
    <3>5. lines' \in Seq(LogChild)
      BY <2>1, <3>1, <3>2
    <3>6. \A i \in 1 .. Len(lines) :
             /\ lines'[i].log = lines[i].log /\ lines'[i].by = lines[i].by
             /\ lines'[i].display = (lines[i].log \in Matches[text])
      BY <3>2, <3>3
    <3>7. Rightly(lines', text)
      BY <3>4, <3>6 DEF Rightly
    <3> QED
      BY <2>1, <3>4, <3>5, <3>6, <3>7
  <2> QED
    BY <1>1, <2>2, <2>3
<1>3. Log!TypeOK'
  <2>1. /\ logged' \in 0 .. LogCount /\ logVisit' \in 0 .. LogVisits /\ logVisits' \in 0 .. LogVisits
        /\ pendingLogs' \in [Log!LogVisit -> Seq(Log!LogLine)]
        /\ batchLogsTimer' \in [Log!LogVisit -> {"none", "set", "dead"}]
    BY <1>1 DEF LogInv, Log!TypeOK
  <2> QED
    BY <1>1, <1>2, <2>1, LogTypeFollows
<1>4. Log!NoLineLost'
  BY <1>1, <1>2, DisplayKeeps DEF LogInv, Log!NoLineLost
<1>5. Log!FilterApplied'
  BY <1>1, <1>2 DEF Log!FilterApplied, Rightly
<1> QED
  BY <1>1, <1>2, <1>3, <1>4, <1>5 DEF LogInv

LEMMA LogStep ==
  ASSUME LogInv, [Log!Next]_logVars
  PROVE  LogInv'
<1>1. ASSUME UNCHANGED <<logged, logVisit, logVisits, filterValue, query, lines, pendingLogs,
                         batchLogsTimer, handed, thrown>>
      PROVE  LogInv'
  BY <1>1 DEF LogInv, Log!TypeOK, Log!NoLineLost, Log!FilterApplied
<1>2. CASE UNCHANGED logVars
  BY <1>1, <1>2 DEF logVars
<1>3. CASE Log!onAutoScrollChange
  BY <1>1, <1>3 DEF Log!onAutoScrollChange
<1>4. CASE Log!Next /\ ~Log!onAutoScrollChange
  BY <1>4, OpenKeeps, LeaveKeeps, LogEventKeeps, CurrentLogsKeep, KeyUpKeeps, TimerKeeps DEF Log!Next
<1> QED
  BY <1>2, <1>3, <1>4

\* Batching and filtering of the log lose, double, reorder and hide no line of
\* a visit none of whose handlers threw, in every reachable state.
THEOREM LogHolds == PagesSpec => []LogShown
<1>1. PagesInit => LogInv
  BY LogInit
<1>2. LogInv /\ [PagesNext]_pagesVars => LogInv'
  BY EachPartSteps, LogStep
<1>3. LogInv => LogShown
  BY DEF LogInv, LogShown
<1> QED
  BY <1>1, <1>2, <1>3, PTL DEF PagesSpec
\* A visit that scrolls leaves at most LINES_LIMIT children.
LEMMA PostBounds ==
  ASSUME NEW children \in Seq(LogChild), NEW v, isAutoScroll[v],
         NEW left, left = Log!postLogAction(v, children)
  PROVE  Len(left) <= LINES_LIMIT
<1>1. LINES_LIMIT \in Nat /\ Len(children) \in Nat
  BY PagesAssumption, LenProperties
<1>2. CASE Len(children) <= LINES_LIMIT
  <2>1. left = children
    BY <1>1, <1>2 DEF Log!postLogAction
  <2> QED
    BY <1>2, <2>1
<1>3. CASE ~(Len(children) <= LINES_LIMIT)
  <2> DEFINE d == Len(children) - LINES_LIMIT
  <2>1. left = SubSeq(children, d + 1, Len(children))
    BY <1>1, <1>3 DEF Log!postLogAction
  <2>2. d \in 0 .. Len(children) /\ Len(children) - d = LINES_LIMIT
    BY <1>1, <1>3
  <2> HIDE DEF d
  <2>3. Len(left) = Len(children) - d
    BY <2>1, <2>2, LastOnes
  <2> QED
    BY <1>1, <2>2, <2>3
<1> QED
  BY <1>2, <1>3

LEMMA ShowBounds ==
  ASSUME LogInv, NEW v \in Log!LogVisit, NEW more \in Seq(Log!LogLine), Log!Show(v, more),
         isAutoScroll[v]
  PROVE  Len(lines') <= LINES_LIMIT
<1> DEFINE batch == pendingLogs[v] \o more
           added == [i \in DOMAIN batch |-> Log!Child(batch[i], v)]
           all == lines \o added
<1>1. lines' = Log!postLogAction(v, all)
  BY DEF Log!Show, Log!addLogLines
<1>2. lines \in Seq(LogChild) /\ pendingLogs[v] \in Seq(Log!LogLine)
  BY LogTypes
<1>3. batch \in Seq(Log!LogLine)
  BY <1>2, ConcatProperties
<1> HIDE DEF batch
<1>4. added \in Seq(LogChild)
  BY <1>3, ChildrenMade
<1> HIDE DEF added
<1>5. all \in Seq(LogChild)
  BY <1>2, <1>4, ConcatProperties
<1> HIDE DEF all
<1> QED
  BY <1>1, <1>5, PostBounds

LEMMA KeyUpLength ==
  ASSUME LogInv, Log!KeyUp
  PROVE  Len(lines') = Len(lines) /\ UNCHANGED pendingLogs
<1>1. PICK text \in Filter :
        /\ lines' = Log!filterLogs(text) \/ UNCHANGED lines
        /\ UNCHANGED pendingLogs
  BY DEF Log!KeyUp
<1>2. lines \in Seq(LogChild) /\ Len(lines) \in Nat /\ DOMAIN lines = 1 .. Len(lines)
  BY LogTypes, LenProperties
<1>3. CASE lines' = Log!filterLogs(text)
  <2>1. DOMAIN lines' = 1 .. Len(lines)
    BY <1>2, <1>3 DEF Log!filterLogs
  <2> DEFINE n == Len(lines)
             E(i) == [lines[i] EXCEPT !.display = lines[i].log \in Matches[text]]
  <2>2. lines' = [i \in 1 .. n |-> E(i)]
    BY <1>2, <1>3 DEF Log!filterLogs
  <2>3. n \in Nat
    BY <1>2
  <2> HIDE DEF n, E
  <2>4. Len(lines') = n
    BY <2>2, <2>3
  <2> QED
    BY <1>1, <2>4 DEF n
<1> QED
  BY <1>1, <1>3

ContainerBounded ==
  lines' # lines /\ Len(lines') > LINES_LIMIT =>
    \/ \E v \in Log!LogVisit : ~isAutoScroll[v]
    \/ UNCHANGED pendingLogs /\ Len(lines') = Len(lines)

LEMMA LogStepBounded ==
  ASSUME LogInv, [Log!Next]_logVars
  PROVE  ContainerBounded
<1> SUFFICES ASSUME lines' # lines, \A v \in Log!LogVisit : isAutoScroll[v]
             PROVE  \/ ~(Len(lines') > LINES_LIMIT)
                    \/ UNCHANGED pendingLogs /\ Len(lines') = Len(lines)
  BY DEF ContainerBounded
<1>1. LINES_LIMIT \in Nat
  BY PagesAssumption
<1>2. ASSUME NEW v \in Log!LogVisit, NEW more \in Seq(Log!LogLine), Log!Show(v, more)
      PROVE  ~(Len(lines') > LINES_LIMIT)
  <2>1. Len(lines') <= LINES_LIMIT
    BY <1>2, ShowBounds
  <2>2. lines' \in Seq(LogChild)
    BY <1>2, ShowKeepsRest
  <2>3. Len(lines') \in Nat
    BY <2>2, LenProperties
  <2> QED
    BY <1>1, <2>1, <2>3
<1>3. CASE Log!OpenLog
  BY <1>1, <1>3, EmptySeq DEF Log!OpenLog
<1>4. CASE Log!systemLogEvent
  <2> DEFINE log == logged + 1
  <2>1. /\ logged < LogCount /\ logVisit # 0 /\ Log!Show(logVisit, <<log>>)
    BY <1>4 DEF Log!systemLogEvent, Log!Throws
  <2>2. log \in Log!LogLine
    <3>1. LogCount \in Nat /\ logged \in Nat
      BY PagesAssumption, LogTypes
    <3> QED
      BY <2>1, <3>1 DEF Log!LogLine
  <2> HIDE DEF log
  <2>3. <<log>> \in Seq(Log!LogLine) /\ logVisit \in Log!LogVisit
    BY <2>1, <2>2, LogTypes
  <2> QED
    BY <1>2, <2>1, <2>3
<1>5. CASE Log!currentSystemLogs
  <2> DEFINE items == [i \in 1 .. logged |-> i]
  <2>1. logVisit # 0 /\ Log!Show(logVisit, items)
    BY <1>5 DEF Log!currentSystemLogs, Log!Throws
  <2>2. items \in Seq(Log!LogLine)
    <3>1. logged \in 0 .. LogCount /\ logged \in Nat /\ LogCount \in Nat
      BY PagesAssumption, LogTypes DEF LogInv, Log!TypeOK
    <3>2. \A i \in 1 .. logged : i \in Log!LogLine
      BY <3>1 DEF Log!LogLine
    <3> QED
      BY <3>1, <3>2
  <2> HIDE DEF items
  <2>3. logVisit \in Log!LogVisit
    BY <2>1, LogTypes
  <2> QED
    BY <1>2, <2>1, <2>2, <2>3
<1>6. ASSUME NEW v \in Log!LogVisit, Log!BatchLogsTimer(v)
      PROVE  ~(Len(lines') > LINES_LIMIT)
  <2>1. Log!Show(v, <<>>) \/ lines' = Log!postLogAction(v, lines)
    BY <1>6 DEF Log!BatchLogsTimer, Log!Throws
  <2>2. <<>> \in Seq(Log!LogLine) /\ lines \in Seq(LogChild)
    BY EmptySeq, LogTypes
  <2>3. CASE lines' = Log!postLogAction(v, lines)
    <3>1. Len(lines') <= LINES_LIMIT
      BY <2>2, <2>3, PostBounds
    <3>2. lines' \in Seq(LogChild)
      BY <2>2, <2>3, PostKeeps
    <3>3. Len(lines') \in Nat
      BY <3>2, LenProperties
    <3> QED
      BY <1>1, <3>1, <3>3
  <2> QED
    BY <1>2, <2>1, <2>2, <2>3
<1>7. CASE Log!KeyUp
  BY <1>7, KeyUpLength
<1>8. Log!LeaveLog \/ Log!onAutoScrollChange \/ UNCHANGED logVars => lines' = lines
  BY DEF Log!LeaveLog, Log!onAutoScrollChange, logVars
<1> QED
  BY <1>3, <1>4, <1>5, <1>6, <1>7, <1>8 DEF Log!Next

\* While every visit scrolls, no step leaves more than LINES_LIMIT lines in the
\* container, unless all it did was to filter those that were there.
THEOREM LogBounded == PagesSpec => Log!BoundedWhileScrolling
<1>1. PagesInit => LogInv
  BY LogInit
<1>2. LogInv /\ [PagesNext]_pagesVars => LogInv'
  BY EachPartSteps, LogStep
<1>3. LogInv /\ [PagesNext]_pagesVars => [ContainerBounded]_logVars
  BY EachPartSteps, LogStepBounded
<1>4. PagesSpec => [][ContainerBounded]_logVars
  BY <1>1, <1>2, <1>3, PTL DEF PagesSpec
<1>5. [][ContainerBounded]_logVars => Log!BoundedWhileScrolling
  BY PTL DEF ContainerBounded, Log!BoundedWhileScrolling, logVars, Log!logVars
<1> QED
  BY <1>4, <1>5
-----------------------------------------------------------------------------
\* PeersPage.  The list is made by splicing the indexes of missing peers out of
\* it one after the other; however it shifts under them, no peer comes twice.
Item == Peer \X BOOLEAN

\* The list after index n, from the list before.
SplicedAt(items, target, n, before) ==
  IF n \in Peers!indexesForRemove(items, target) THEN Peers!Splice(before, n) ELSE before

\* g[m] is the list once the indexes up to m are done.
Takes(items, target, n, g) ==
  g = [m \in 0 .. n |-> IF m = 0 THEN Peers!Updated(items, target)
                        ELSE SplicedAt(items, target, m, g[m - 1])]

\* Lists each peer once, and only such as were listed.
Lists(target, s) ==
  /\ s \in Seq(Item)
  /\ \A i, j \in 1 .. Len(s) : s[i][1] = s[j][1] => i = j
  /\ \A i \in 1 .. Len(s) : s[i][1] \in Peers!Known(target)

LEMMA OneMoreTaken ==
  ASSUME NEW items, NEW target, NEW n \in Nat, NEW g, Takes(items, target, n, g)
  PROVE  \E h : Takes(items, target, n + 1, h)
<1> DEFINE u == Peers!Updated(items, target)
           h == [m \in 0 .. n + 1 |-> IF m <= n THEN g[m] ELSE SplicedAt(items, target, m, g[n])]
<1>1. g = [m \in 0 .. n |-> IF m = 0 THEN u ELSE SplicedAt(items, target, m, g[m - 1])]
  BY DEF Takes
<1>2. ASSUME NEW m \in 0 .. n + 1
      PROVE  h[m] = IF m = 0 THEN u ELSE SplicedAt(items, target, m, h[m - 1])
  <2>1. CASE m = 0
    <3>1. h[m] = g[m] /\ m \in 0 .. n
      BY <2>1
    <3> QED
      BY <3>1, <1>1, <2>1
  <2>2. CASE m # 0 /\ m <= n
    <3>1. m \in 0 .. n /\ m - 1 \in 0 .. n /\ m - 1 \in 0 .. n + 1 /\ m - 1 <= n
      BY <2>2
    <3>2. h[m] = g[m] /\ h[m - 1] = g[m - 1]
      BY <3>1, <2>2
    <3>3. g[m] = SplicedAt(items, target, m, g[m - 1])
      BY <3>1, <1>1, <2>2
    <3> QED
      BY <3>2, <3>3, <2>2
  <2>3. CASE ~(m <= n)
    <3>1. m = n + 1 /\ m - 1 = n /\ n \in 0 .. n + 1 /\ n <= n /\ m # 0
      BY <2>3
    <3>2. h[m] = SplicedAt(items, target, m, g[n]) /\ h[n] = g[n]
      BY <3>1, <2>3
    <3> QED
      BY <3>1, <3>2
  <2> QED
    BY <2>1, <2>2, <2>3
<1>3. h = [m \in 0 .. n + 1 |-> h[m]]
  OBVIOUS
<1> HIDE DEF h
<1>4. [m \in 0 .. n + 1 |-> h[m]]
        = [m \in 0 .. n + 1 |-> IF m = 0 THEN u ELSE SplicedAt(items, target, m, h[m - 1])]
  BY <1>2
<1> QED
  BY <1>3, <1>4 DEF Takes

LEMMA AllTaken ==
  ASSUME NEW items, NEW target, NEW n \in Nat
  PROVE  \E g : Takes(items, target, n, g)
<1> DEFINE S == {m \in Nat : ~\E g : Takes(items, target, m, g)}
<1>1. SUFFICES S = {}
  OBVIOUS
<1>2. SUFFICES ASSUME S # {} PROVE FALSE
  OBVIOUS
<1>3. PICK x \in S : \A y \in S : x <= y
  <2>1. S \in SUBSET Nat
    OBVIOUS
  <2> HIDE DEF S
  <2> QED
    BY <2>1, <1>2, LeastExists
<1>4. x # 0
  <2> DEFINE g == [m \in 0 .. 0 |-> Peers!Updated(items, target)]
  <2>1. Takes(items, target, 0, g)
    BY DEF Takes
  <2> QED
    BY <2>1
<1>5. x - 1 \in Nat /\ ~(x <= x - 1) /\ (x - 1) + 1 = x
  BY <1>4
<1>6. x - 1 \notin S
  BY <1>3, <1>5
<1>7. PICK g : Takes(items, target, x - 1, g)
  BY <1>5, <1>6
<1>8. \E h : Takes(items, target, (x - 1) + 1, h)
  BY <1>5, <1>7, OneMoreTaken
<1> QED
  BY <1>5, <1>8

LEMMA SplicedTakes ==
  ASSUME NEW items, NEW target \in Seq(Item)
  PROVE  \E g : Takes(items, target, Len(target), g)
                /\ Peers!Spliced(items, target) = g[Len(target)]
<1> DEFINE g == CHOOSE f : Takes(items, target, Len(target), f)
<1>1. Len(target) \in Nat
  BY LenProperties
<1>2. Takes(items, target, Len(target), g)
  BY <1>1, AllTaken
<1>3. Peers!Spliced(items, target) = g[Len(target)]
  BY DEF Peers!Spliced, Takes, SplicedAt
<1> QED
  BY <1>2, <1>3

LEMMA UpdatedLists ==
  ASSUME NEW items \in SUBSET Item, NEW target, Lists(target, target)
  PROVE  Lists(target, Peers!Updated(items, target))
<1> DEFINE u == Peers!Updated(items, target)
           N == Len(target)
<1>1. target \in Seq(Item) /\ N \in Nat /\ DOMAIN target = 1 .. N
  BY LenProperties DEF Lists
<1>2. u = [i \in 1 .. N |-> u[i]] /\ \A i \in 1 .. N : u[i] \in Item /\ u[i][1] = target[i][1]
  <2>1. u = [i \in 1 .. N |->
               IF \E x \in items : x[1] = target[i][1]
               THEN CHOOSE x \in items : x[1] = target[i][1] ELSE target[i]]
    BY <1>1 DEF Peers!Updated, Peers!Node
  <2> HIDE DEF u, N
  <2>2. ASSUME NEW i \in 1 .. N PROVE u[i] \in Item /\ u[i][1] = target[i][1]
    <3>1. target[i] \in Item
      BY <1>1, ElementOfSeq DEF N
    <3>2. CASE \E x \in items : x[1] = target[i][1]
      <4>1. u[i] = CHOOSE x \in items : x[1] = target[i][1]
        BY <2>1, <3>2
      <4> QED
        BY <3>2, <4>1
    <3>3. CASE ~\E x \in items : x[1] = target[i][1]
      BY <2>1, <3>1, <3>3
    <3> QED
      BY <3>2, <3>3
  <2> QED
    BY <2>1, <2>2
<1>3. u \in Seq(Item) /\ Len(u) = N
  <2> HIDE DEF u
  <2>1. u \in [1 .. N -> Item]
    BY <1>2
  <2> HIDE DEF N
  <2> QED
    BY <1>1, <2>1
<1> HIDE DEF u, N
<1>4. \A i, j \in 1 .. N : u[i][1] = u[j][1] => i = j
  BY <1>2 DEF Lists, N
<1>5. \A i \in 1 .. N : u[i][1] \in Peers!Known(target)
  BY <1>2 DEF Lists, N
<1> QED
  BY <1>3, <1>4, <1>5 DEF Lists, u

LEMMA AfterLists ==
  ASSUME NEW items, NEW target, NEW n \in Nat, NEW s, Lists(target, s)
  PROVE  Lists(target, SplicedAt(items, target, n, s))
<1>1. s \in Seq(Item) /\ Len(s) \in Nat /\ DOMAIN s = 1 .. Len(s)
  BY LenProperties DEF Lists
<1>2. CASE SplicedAt(items, target, n, s) = s
  BY <1>2
<1>3. CASE n \in 1 .. Len(s) /\ SplicedAt(items, target, n, s) = RemoveAt(s, n)
  <2> DEFINE r == RemoveAt(s, n)
             N == Len(s)
  <2>1. /\ r \in Seq(Item) /\ Len(r) = N - 1
        /\ \A j \in 1 .. N - 1 : r[j] = IF j < n THEN s[j] ELSE s[j + 1]
    BY <1>1, <1>3, RemoveAtProperties
  <2> HIDE DEF r
  <2>2. /\ N \in Nat /\ \A i \in 1 .. N : s[i][1] \in Peers!Known(target)
        /\ \A i, j \in 1 .. N : s[i][1] = s[j][1] => i = j
    BY <1>1 DEF Lists
  <2> HIDE DEF N
  <2>3. \A i \in 1 .. N - 1 : i \in 1 .. N /\ i + 1 \in 1 .. N
    BY <2>2
  <2>4. \A i, j \in 1 .. N - 1 : r[i][1] = r[j][1] => i = j
    <3> TAKE i, j \in 1 .. N - 1
    <3> HAVE r[i][1] = r[j][1]
    <3> DEFINE k == IF i < n THEN i ELSE i + 1
               l == IF j < n THEN j ELSE j + 1
    <3>1. k \in 1 .. N /\ l \in 1 .. N /\ r[i] = s[k] /\ r[j] = s[l]
      BY <2>1, <2>3
    <3>2. s[k][1] = s[l][1]
      BY <3>1
    <3>3. k = l
      BY <2>2, <3>1, <3>2
    <3>4. n \in Nat /\ i \in Nat /\ j \in Nat
      BY <2>2
    <3> QED
      BY <3>3, <3>4
  <2>5. \A i \in 1 .. N - 1 : r[i][1] \in Peers!Known(target)
    BY <2>1, <2>2, <2>3
  <2>6. Lists(target, r)
    BY <2>1, <2>4, <2>5 DEF Lists
  <2> QED
    BY <1>3, <2>6 DEF r
<1>4. Peers!RemoveAt(s, n) = RemoveAt(s, n)
  BY DEF Peers!RemoveAt, RemoveAt
<1> QED
  BY <1>1, <1>2, <1>3, <1>4 DEF SplicedAt, Peers!Splice

LEMMA SplicedLists ==
  ASSUME NEW items \in SUBSET Item, NEW target, Lists(target, target)
  PROVE  Lists(target, Peers!Spliced(items, target))
<1> DEFINE N == Len(target)
<1>1. target \in Seq(Item) /\ N \in Nat
  BY LenProperties DEF Lists
<1>2. PICK g : Takes(items, target, N, g) /\ Peers!Spliced(items, target) = g[N]
  BY <1>1, SplicedTakes
<1> HIDE DEF N
<1>3. /\ g[0] = Peers!Updated(items, target)
      /\ \A m \in 1 .. N : g[m] = SplicedAt(items, target, m, g[m - 1])
  BY <1>1, <1>2 DEF Takes
<1> DEFINE S == {m \in 0 .. N : ~Lists(target, g[m])}
<1>4. S = {}
  <2> SUFFICES ASSUME S # {} PROVE FALSE
    OBVIOUS
  <2>1. PICK x \in S : \A y \in S : x <= y
    <3>1. S \in SUBSET Nat
      BY <1>1
    <3> HIDE DEF S
    <3> QED
      BY <3>1, LeastExists
  <2>2. x # 0
    BY <1>3, UpdatedLists
  <2>3. x \in 1 .. N /\ x \in Nat /\ x - 1 \in 0 .. N /\ ~(x <= x - 1)
    BY <1>1, <2>2
  <2>4. Lists(target, g[x - 1])
    BY <2>1, <2>3
  <2>5. Lists(target, SplicedAt(items, target, x, g[x - 1]))
    BY <2>3, <2>4, AfterLists
  <2>6. Lists(target, g[x])
    BY <1>3, <2>3, <2>5
  <2> QED
    BY <2>6
<1>5. N \in 0 .. N
  BY <1>1
<1> QED
  BY <1>2, <1>4, <1>5

\* SetToSeq lists the members of a finite set, each once.
LEMMA SetToSeqLists ==
  ASSUME NEW S, IsFiniteSet(S)
  PROVE  \E n \in Nat : /\ Peers!SetToSeq(S) \in [1 .. n -> S]
                        /\ \A i, j \in 1 .. n :
                             Peers!SetToSeq(S)[i] = Peers!SetToSeq(S)[j] => i = j
<1> DEFINE n == Peers!Cardinality(S)
           Once(f) == f \in [1 .. n -> S] /\ \A i, j \in 1 .. n : f[i] = f[j] => i = j
<1>1. n = Cardinality(S)
  BY DEF Peers!Cardinality, Cardinality
<1>2. n \in Nat /\ ExistsBijection(1 .. n, S)
  BY <1>1, FS_CardinalityType
<1> HIDE DEF n
<1>3. PICK f \in Bijection(1 .. n, S) : TRUE
  BY <1>2 DEF ExistsBijection
<1>4. Once(f)
  BY <1>3 DEF Bijection, Injection, IsInjective
<1>5. Peers!SetToSeq(S) = CHOOSE h \in [1 .. n -> S] : \A i, j \in DOMAIN h : h[i] = h[j] => i = j
  BY DEF Peers!SetToSeq, Peers!IsInjective, n
<1>6. Once(Peers!SetToSeq(S))
  BY <1>4, <1>5
<1> QED
  BY <1>2, <1>6

LEMMA SynchronizedLists ==
  ASSUME NEW items \in SUBSET Item, IsFiniteSet(items),
         \A p \in Peer : ~(<<p, TRUE>> \in items /\ <<p, FALSE>> \in items),
         NEW target, Lists(target, target)
  PROVE  /\ Peers!synchronizeArrays(items, target) \in Seq(Item)
         /\ \A i, j \in DOMAIN Peers!synchronizeArrays(items, target) :
              Peers!synchronizeArrays(items, target)[i][1]
                = Peers!synchronizeArrays(items, target)[j][1] => i = j
<1> DEFINE F == Peers!newItems(items, target)
           s == Peers!Spliced(items, target)
           t == Peers!SetToSeq(F)
           r == s \o t
<1>1. F \subseteq items /\ \A x \in F : x[1] \notin Peers!Known(target)
  BY DEF Peers!newItems, Peers!Node
<1>2. IsFiniteSet(F)
  BY <1>1, FS_Subset
<1>3. PICK n \in Nat : t \in [1 .. n -> F] /\ \A i, j \in 1 .. n : t[i] = t[j] => i = j
  BY <1>2, SetToSeqLists
<1>4. Lists(target, s)
  BY SplicedLists
<1>5. Peers!synchronizeArrays(items, target) = r
  BY DEF Peers!synchronizeArrays
<1> HIDE DEF F, s, t
<1>6. t \in Seq(Item) /\ Len(t) = n
  BY <1>1, <1>3
<1>7. s \in Seq(Item)
  BY <1>4 DEF Lists
<1> DEFINE m == Len(s)
<1>8. m = Len(s) /\ n = Len(t)
  BY <1>6
<1>9. \A i, j \in 1 .. m : s[i][1] = s[j][1] => i = j
  BY <1>4 DEF Lists
<1>10. \A i \in 1 .. m : s[i][1] \in Peers!Known(target)
  BY <1>4 DEF Lists
<1> HIDE DEF m
<1>11. /\ m \in Nat /\ DOMAIN r = 1 .. m + n /\ r \in Seq(Item)
       /\ \A i \in 1 .. m : r[i] = s[i]
       /\ \A i \in 1 .. n : r[m + i] = t[i]
  BY <1>3, <1>6, <1>7, <1>8, ConcatExact
<1> HIDE DEF r
<1>12. \A i \in 1 .. n : t[i] \in F
  BY <1>3
<1>13. \A i, j \in 1 .. n : t[i][1] = t[j][1] => i = j
  <2> TAKE i, j \in 1 .. n
  <2> HAVE t[i][1] = t[j][1]
  <2>1. t[i] \in items /\ t[j] \in items /\ t[i] \in Item /\ t[j] \in Item
    BY <1>1, <1>12
  <2>2. \A x, y \in items : x[1] = y[1] => x = y
    <3> TAKE x, y \in items
    <3> HAVE x[1] = y[1]
    <3>1. /\ x = <<x[1], x[2]>> /\ x[1] \in Peer /\ x[2] \in BOOLEAN
          /\ y = <<y[1], y[2]>> /\ y[2] \in BOOLEAN
      BY DEF Item
    <3>2. CASE x[2] = y[2]
      BY <3>1, <3>2
    <3>3. CASE x[2] # y[2]
      BY <3>1, <3>3
    <3> QED
      BY <3>2, <3>3
  <2>3. t[i] = t[j]
    BY <2>1, <2>2
  <2> QED
    BY <1>3, <2>3
<1>14. \A k \in 1 .. m + n : k \in 1 .. m \/ (k - m \in 1 .. n /\ r[k] = t[k - m])
  <2> TAKE k \in 1 .. m + n
  <2>1. CASE k <= m
    BY <1>11, <2>1
  <2>2. CASE ~(k <= m)
    <3>1. k - m \in 1 .. n /\ m + (k - m) = k
      BY <1>3, <1>11, <2>2
    <3> QED
      BY <1>11, <3>1
  <2> QED
    BY <2>1, <2>2
<1>15. \A i, j \in 1 .. m + n : r[i][1] = r[j][1] => i = j
  <2> TAKE i, j \in 1 .. m + n
  <2> HAVE r[i][1] = r[j][1]
  <2>1. CASE i \in 1 .. m /\ j \in 1 .. m
    BY <1>9, <1>11, <2>1
  <2>2. CASE i \in 1 .. m /\ j \notin 1 .. m
    BY <1>1, <1>10, <1>11, <1>12, <1>14, <2>2
  <2>3. CASE i \notin 1 .. m /\ j \in 1 .. m
    BY <1>1, <1>10, <1>11, <1>12, <1>14, <2>3
  <2>4. CASE i \notin 1 .. m /\ j \notin 1 .. m
    <3>1. /\ i - m \in 1 .. n /\ r[i] = t[i - m]
          /\ j - m \in 1 .. n /\ r[j] = t[j - m]
      BY <1>14, <2>4
    <3>2. i - m = j - m
      BY <1>13, <3>1
    <3> QED
      BY <3>2, <1>11
  <2> QED
    BY <2>1, <2>2, <2>3, <2>4
<1> QED
  BY <1>5, <1>11, <1>15

\* What PeersShown says is inductive as it stands.
PeersInv ==
  /\ serverPeers \in ServerLists /\ received \in ServerLists \union {{}}
  /\ peers \in Seq(Item)
  /\ opts \in [Peers!Places -> {"none", "FILLED", "NOT_FILLED", "BLINKED"}]
  /\ bubble \in Peers!Places \union {"none"}
  /\ Peers!ListedOnce /\ Peers!MapShowsActive

LEMMA ServerListIs ==
  ASSUME NEW items \in ServerLists
  PROVE  /\ items \subseteq Item /\ IsFiniteSet(items)
         /\ \A p \in Peer : ~(<<p, TRUE>> \in items /\ <<p, FALSE>> \in items)
<1>1. items \subseteq Item
  <2>1. ServerLists \subseteq SUBSET (Peer \X BOOLEAN)
    BY PagesAssumption, Zenon
  <2> QED
    BY <2>1 DEF Item
<1>2. IsFiniteSet(items)
  BY PagesAssumption, Zenon
<1>3. \A p \in Peer : {<<p, TRUE>>, <<p, FALSE>>} \cap items # {<<p, TRUE>>, <<p, FALSE>>}
  BY PagesAssumption, Zenon
<1> QED
  BY <1>1, <1>2, <1>3

LEMMA PeersInit == PagesInit => PeersInv
<1> SUFFICES ASSUME PagesInit PROVE PeersInv
  OBVIOUS
<1>1. /\ serverPeers \in ServerLists /\ received = {} /\ peers = <<>> /\ bubble = "none"
      /\ opts = [c \in Peers!Places |-> "none"]
  BY DEF PagesInit, Peers!Init
<1>2. Peers!ListedOnce
  BY <1>1 DEF Peers!ListedOnce
<1>3. Peers!MapShowsActive
  <2>1. Peers!Active(received) = {}
    BY <1>1 DEF Peers!Active
  <2>2. {c \in Peers!Places : opts[c] \in {"FILLED", "BLINKED"}} = {}
    BY <1>1
  <2> QED
    BY <2>1, <2>2 DEF Peers!MapShowsActive
<1> QED
  BY <1>1, <1>2, <1>3 DEF PeersInv

LEMMA ListEventKeeps ==
  ASSUME PeersInv, Peers!peersListEvent
  PROVE  PeersInv'
<1> DEFINE fresh == Peers!newItems(serverPeers, peers)
<1>1. /\ received' = serverPeers /\ serverPeers' = serverPeers /\ bubble' = bubble
      /\ peers' = Peers!synchronizeArrays(serverPeers, peers)
      /\ opts' = Peers!mapColours(serverPeers, fresh)
  BY DEF Peers!peersListEvent
<1>2. /\ serverPeers \in SUBSET Item /\ IsFiniteSet(serverPeers)
      /\ \A p \in Peer : ~(<<p, TRUE>> \in serverPeers /\ <<p, FALSE>> \in serverPeers)
  BY ServerListIs DEF PeersInv
<1>3. Lists(peers, peers)
  <2>1. peers \in Seq(Item) /\ DOMAIN peers = 1 .. Len(peers)
    BY LenProperties DEF PeersInv
  <2> QED
    BY <2>1 DEF PeersInv, Lists, Peers!ListedOnce, Peers!Known, Peers!Node
<1>4. peers' \in Seq(Item) /\ Peers!ListedOnce'
  BY <1>1, <1>2, <1>3, SynchronizedLists DEF Peers!ListedOnce, Peers!Node
<1>5. fresh \subseteq serverPeers
  BY DEF Peers!newItems
<1> HIDE DEF fresh
<1>6. /\ opts' = [c \in Peers!Places |-> opts'[c]]
      /\ \A c \in Peers!Places :
           /\ opts'[c] \in {"none", "FILLED", "NOT_FILLED", "BLINKED"}
           /\ opts'[c] \in {"FILLED", "BLINKED"}
                <=> \E x \in Peers!Active(serverPeers) : Country[x[1]] = c
  <2>1. Peers!Active(fresh) \subseteq Peers!Active(serverPeers)
    BY <1>5 DEF Peers!Active
  <2>2. opts' = [c \in Peers!Places |->
                  IF fresh # serverPeers /\ \E x \in Peers!Active(fresh) : Country[x[1]] = c
                  THEN "BLINKED"
                  ELSE IF \E x \in Peers!Active(serverPeers) : Country[x[1]] = c THEN "FILLED"
                  ELSE IF opts[c] = "none" THEN "none" ELSE "NOT_FILLED"]
    BY <1>1 DEF Peers!mapColours, Peers!Node
  <2> QED
    BY <2>1, <2>2
<1>7. opts' \in [Peers!Places -> {"none", "FILLED", "NOT_FILLED", "BLINKED"}]
  BY <1>6
<1>8. \A x \in Peers!Active(serverPeers) : Country[x[1]] \in Peers!Places
  BY <1>2 DEF Peers!Active, Peers!Places, Item
<1>9. Peers!MapShowsActive'
  BY <1>1, <1>6, <1>8 DEF Peers!MapShowsActive, Peers!Active, Peers!Places, Peers!Node
<1> QED
  BY <1>1, <1>4, <1>7, <1>9 DEF PeersInv, Peers!Places

LEMMA PeersStep ==
  ASSUME PeersInv, [Peers!Next]_peersVars
  PROVE  PeersInv'
<1>1. CASE UNCHANGED peersVars
  BY <1>1 DEF PeersInv, peersVars, Peers!ListedOnce, Peers!MapShowsActive, Peers!Places
<1>2. CASE Peers!peersListEvent
  BY <1>2, ListEventKeeps
<1>3. CASE Peers!BlinkTimer
  <2>1. /\ UNCHANGED <<serverPeers, received, peers, bubble>>
        /\ opts' = [c \in Peers!Places |-> IF opts[c] = "BLINKED" THEN "FILLED" ELSE opts[c]]
    BY <1>3 DEF Peers!BlinkTimer
  <2>2. opts' \in [Peers!Places -> {"none", "FILLED", "NOT_FILLED", "BLINKED"}]
    BY <2>1 DEF PeersInv
  <2>3. \A c \in Peers!Places : opts'[c] \in {"FILLED", "BLINKED"} <=> opts[c] \in {"FILLED", "BLINKED"}
    BY <2>1
  <2> QED
    BY <2>1, <2>2, <2>3 DEF PeersInv, Peers!ListedOnce, Peers!MapShowsActive, Peers!Places
<1>4. CASE Peers!newBlockFromEvent
  BY <1>4 DEF Peers!newBlockFromEvent, PeersInv, Peers!ListedOnce, Peers!MapShowsActive, Peers!Places
<1>5. CASE Peers!BubbleTimer
  BY <1>5 DEF Peers!BubbleTimer, PeersInv, Peers!ListedOnce, Peers!MapShowsActive, Peers!Places
<1>6. CASE Peers!ServerChanges
  BY <1>6 DEF Peers!ServerChanges, PeersInv, Peers!ListedOnce, Peers!MapShowsActive, Peers!Places
<1> QED
  BY <1>1, <1>2, <1>3, <1>4, <1>5, <1>6 DEF Peers!Next

\* In every behaviour each peer is listed once, and the map shows a country just
\* if the last update has an active peer there (peers.controller.js).
THEOREM PeersHold == PagesSpec => []PeersShown
<1>1. PeersInv /\ [PagesNext]_pagesVars => PeersInv'
  BY EachPartSteps, PeersStep
<1>2. PeersInv => PeersShown
  BY DEF PeersInv, PeersShown, Peers!TypeOK, Item
<1> QED
  BY PeersInit, <1>1, <1>2, PTL DEF PagesSpec
=============================================================================
