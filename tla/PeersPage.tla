----------------------------- MODULE PeersPage ------------------------------
(***************************************************************************)
(* The page of the peers (PeersCtrl): a list that each update from the     *)
(* server brings up to date in place, and a world map that shows the       *)
(* countries of the active peers.  Countries of peers that have just       *)
(* appeared blink for 700 ms; timers of several updates may be under way.  *)
(***************************************************************************)
EXTENDS Naturals, FiniteSets, Sequences, SequencesExt

CONSTANTS
  Peer,         \* node ids
  Country,      \* peer -> its country
  ServerLists,  \* what the server may send: sets of <<peer, isActive>>
  MaxUpdates,   \* bound: times the node's peers change
  MaxBlinks     \* bound: updates whose 700 ms are not over

VARIABLES
  serverPeers,   \* the node's peers
  changes,       \* bound counter
  received,      \* items of the last update that was handled
  peers,         \* $scope.peers: a sequence of <<peer, isActive>>
  peersCount, activePeersCount,
  opts,          \* country -> FILLED, NOT_FILLED, BLINKED, or none
  blinkTimers,   \* timers of 700 ms under way
  bubble,        \* country a new block is shown from, or none
  bubbleTimer

peersVars == <<serverPeers, changes, received, peers, peersCount, activePeersCount,
               opts, blinkTimers, bubble, bubbleTimer>>

Node(item) == item[1]
Active(items) == {item \in items : item[2]}
Places == {Country[p] : p \in Peer}

Init ==
  /\ serverPeers \in ServerLists
  /\ changes = 0
  /\ received = {}
  /\ peers = <<>> /\ peersCount = 0 /\ activePeersCount = 0
  /\ opts = [c \in Places |-> "none"]
  /\ blinkTimers = 0
  /\ bubble = "none" /\ bubbleTimer = FALSE

\* Peers of the list that the update does not have, as positions.
indexesForRemove(items, target) ==
  {i \in DOMAIN target : \A x \in items : Node(x) # Node(target[i])}

\* Mutant of Splice: an index of 0 (here 1) is taken for none.
SpliceTruthy(target, index) ==
  IF index \in DOMAIN target \ {1} THEN RemoveAt(target, index) ELSE target

\* splice(index, 1), which does nothing beyond the end.
Splice(target, index) == IF index \in DOMAIN target THEN RemoveAt(target, index) ELSE target

\* Items with a peer of the list replaced by the update's.
Updated(items, target) ==
  [i \in DOMAIN target |->
     IF \E x \in items : Node(x) = Node(target[i])
     THEN CHOOSE x \in items : Node(x) = Node(target[i]) ELSE target[i]]

Known(target) == {Node(target[i]) : i \in DOMAIN target}

newItems(items, target) == {x \in items : Node(x) \notin Known(target)}

\* The list once the indexes up to n have been taken out, the lowest first.
Spliced(items, target) ==
  LET left[n \in 0 .. Len(target)] ==
        IF n = 0 THEN Updated(items, target)
        ELSE IF n \in indexesForRemove(items, target) THEN Splice(left[n - 1], n)
        ELSE left[n - 1]
  IN left[Len(target)]

\* synchronizeArrays: items are updated in place, then those that are gone
\* removed and the new ones added.
synchronizeArrays(items, target) ==
  Spliced(items, target) \o SetToSeq(newItems(items, target))

\* Mutant of mapColours: countries keep their colour.
mapColoursKeep(items, fresh) ==
  [c \in Places |->
     IF \E x \in Active(fresh) : Country[Node(x)] = c THEN "BLINKED"
     ELSE IF \E x \in Active(items) : Country[Node(x)] = c THEN "FILLED"
     ELSE opts[c]]

\* Colours of the map: active peers only, new ones blink but not the first time.
mapColours(items, fresh) ==
  [c \in Places |->
     IF fresh # items /\ \E x \in Active(fresh) : Country[Node(x)] = c THEN "BLINKED"
     ELSE IF \E x \in Active(items) : Country[Node(x)] = c THEN "FILLED"
     ELSE IF opts[c] = "none" THEN "none" ELSE "NOT_FILLED"]

peersListEvent ==
  /\ blinkTimers < MaxBlinks
  /\ received' = serverPeers
  /\ peers' = synchronizeArrays(serverPeers, peers)
  /\ peersCount' = Cardinality(serverPeers)
  /\ activePeersCount' = Cardinality(Active(serverPeers))
  /\ opts' = mapColours(serverPeers, newItems(serverPeers, peers))
  /\ blinkTimers' = blinkTimers + 1
  /\ UNCHANGED <<serverPeers, changes, bubble, bubbleTimer>>

\* The end of a blink, of whichever update set it.
BlinkTimer ==
  /\ blinkTimers > 0
  /\ blinkTimers' = blinkTimers - 1
  /\ opts' = [c \in Places |-> IF opts[c] = "BLINKED" THEN "FILLED" ELSE opts[c]]
  /\ UNCHANGED <<serverPeers, changes, received, peers, peersCount, activePeersCount,
                 bubble, bubbleTimer>>

\* A new block: its country's bubble replaces the one that is shown.
newBlockFromEvent ==
  /\ \E c \in Places : bubble' = c
  /\ bubbleTimer' = TRUE
  /\ UNCHANGED <<serverPeers, changes, received, peers, peersCount, activePeersCount,
                 opts, blinkTimers>>

BubbleTimer ==
  /\ bubbleTimer
  /\ bubbleTimer' = FALSE /\ bubble' = "none"
  /\ UNCHANGED <<serverPeers, changes, received, peers, peersCount, activePeersCount,
                 opts, blinkTimers>>

\* The node's peers change.
ServerChanges ==
  /\ changes < MaxUpdates
  /\ changes' = changes + 1
  /\ serverPeers' \in ServerLists \ {serverPeers}
  /\ UNCHANGED <<received, peers, peersCount, activePeersCount, opts, blinkTimers,
                 bubble, bubbleTimer>>

Next ==
  \/ peersListEvent \/ BlinkTimer \/ newBlockFromEvent \/ BubbleTimer
  \/ ServerChanges

\* The server sends its list again and again, and timers fire.
Fairness == WF_peersVars(peersListEvent) /\ WF_peersVars(BlinkTimer)

Spec == Init /\ [][Next]_peersVars /\ Fairness

-----------------------------------------------------------------------------
TypeOK ==
  /\ serverPeers \in ServerLists /\ received \in ServerLists \union {{}}
  /\ peers \in Seq(Peer \X BOOLEAN)
  /\ opts \in [Places -> {"none", "FILLED", "NOT_FILLED", "BLINKED"}]
  /\ bubble \in Places \union {"none"}

\* A peer is listed once, though wrong items are removed and added again.
ListedOnce == \A i, j \in DOMAIN peers : Node(peers[i]) = Node(peers[j]) => i = j

\* Every update that is handled leaves exactly the server's peers listed.
ListShowsServer == received = ToSet(peers)

\* The list agrees with the server in the end, if the node's peers do not
\* change any more: each update repairs some of the damage of the last.
ListConverges == <>[](ToSet(peers) = serverPeers)

\* The map shows a country just if it has an active peer, whichever timers of
\* earlier updates fire late.
MapShowsActive ==
  {c \in Places : opts[c] \in {"FILLED", "BLINKED"}} = {Country[Node(x)] : x \in Active(received)}
=============================================================================
