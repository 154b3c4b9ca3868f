---------------------------- MODULE WalletPending ----------------------------
(***************************************************************************)
(* The pending side of WalletService: which transactions it holds as       *)
(* pending for the addresses of the wallet, which confirmations it sends,  *)
(* and what the wallet page shows.                                         *)
(*                                                                         *)
(* The listener thread handles one event of the node at a time:            *)
(* checkForChangesInWallet takes a snapshot of the addresses, then handles *)
(* the transactions one by one, then pushes getWalletInfo to the page.     *)
(* Clients add and remove addresses meanwhile, and every change pushes the *)
(* wallet info too, as does a schedule: three threads compute what they    *)
(* push before they send it, so pushes can overtake each other.            *)
(***************************************************************************)
EXTENDS Integers, Sequences, FiniteSets

CONSTANTS
  Address,      \* addresses clients put in the wallet
  Tx,           \* transactions of the network
  Sender,       \* [Tx -> address]: in the wallet or not
  Receiver,     \* [Tx -> address]
  Client,       \* threads that add and remove addresses
  Removable,    \* addresses clients remove
  ChangeBound,  \* bound: changes of the wallet
  Nothing       \* no event, no info

ASSUME PendingAssumption ==
  /\ ChangeBound \in Nat
  /\ Removable \subseteq Address
  /\ DOMAIN Sender = Tx /\ DOMAIN Receiver = Tx

VARIABLES
  addresses,                  \* addresses of the wallet
  pendingSendTransactions,    \* transactions, by hash
  pendingReceiveTransactions,
  subscribedForEvents,        \* subscribeOnce has run
  handling,                   \* the event the listener handles, or Nothing
  outbox,                     \* per thread: the push it is about to make
  page,                       \* the wallet info the page has received last

  \* The node.
  status,                     \* per transaction
  syncDone,                   \* syncManager.isSyncDone()
  queue,                      \* events not handled yet

  \* History and bounds.
  handled,                    \* transactions whose block has been handled
  noted,                      \* outgoing transactions noted as pending
  confirmed,                  \* confirmations sent
  removed,                    \* addresses that have been removed
  changes

walletVars  == <<addresses, pendingSendTransactions, pendingReceiveTransactions>>
nodeVars    == <<status, syncDone>>
historyVars == <<handled, noted, confirmed, removed>>
vars == <<walletVars, subscribedForEvents, handling, outbox, page, nodeVars,
          queue, historyVars, changes>>

Listener  == "listener"
Scheduler == "scheduler"
Pusher == {Listener, Scheduler} \union Client

\* A push is due, then its info is computed, then it is sent.  The scheduled
\* one computes at once.
NoPush  == [stage |-> "none", info |-> Nothing]
DuePush == [stage |-> "due", info |-> Nothing]
PushOf(info) == [stage |-> "computed", info |-> info]

PendingEvent(tx) == [type |-> "onPendingTransactionsReceived", txs |-> {tx}]
BlockEvent(txs)  == [type |-> "onBlock", txs |-> txs]
SyncEvent        == [type |-> "onSyncDone", txs |-> {}]

\* getWalletInfo: per address what it is sending and receiving, and the
\* balances, which are those of the best block.
getWalletInfo ==
  [pending |-> [a \in addresses |->
                  [sending   |-> {tx \in pendingSendTransactions : Sender[tx] = a},
                   receiving |-> {tx \in pendingReceiveTransactions : Receiver[tx] = a}]],
   ledger |-> {tx \in Tx : status[tx] = "included"}]

\* init: with mine.start the service subscribes at once, otherwise when sync
\* is done.
Init ==
  /\ addresses \in SUBSET Address
  /\ pendingSendTransactions = {}
  /\ pendingReceiveTransactions = {}
  /\ subscribedForEvents \in BOOLEAN
  /\ handling = Nothing
  /\ outbox = [p \in Pusher |-> NoPush]
  /\ status = [tx \in Tx |-> "new"]
  /\ page = getWalletInfo
  /\ syncDone = FALSE
  /\ queue = <<>>
  /\ handled = {} /\ noted = {} /\ confirmed = {} /\ removed = {}
  /\ changes = 0

-----------------------------------------------------------------------------
\* The node.

Broadcast(tx) ==
  /\ status[tx] = "new"
  /\ status' = [status EXCEPT ![tx] = "pending"]
  /\ queue' = Append(queue, PendingEvent(tx))
  /\ UNCHANGED <<walletVars, subscribedForEvents, handling, outbox, page,
                 syncDone, historyVars, changes>>

\* A block with some transactions, pending ones or ones never seen before.
Include(txs) ==
  /\ txs # {}
  /\ \A tx \in txs : status[tx] \in {"new", "pending"}
  /\ status' = [tx \in Tx |-> IF tx \in txs THEN "included" ELSE status[tx]]
  /\ queue' = Append(queue, BlockEvent(txs))
  /\ UNCHANGED <<walletVars, subscribedForEvents, handling, outbox, page,
                 syncDone, historyVars, changes>>

Drop(tx) ==
  /\ status[tx] = "pending"
  /\ status' = [status EXCEPT ![tx] = "dropped"]
  /\ UNCHANGED <<walletVars, subscribedForEvents, handling, outbox, page,
                 syncDone, queue, historyVars, changes>>

SyncDone ==
  /\ ~syncDone
  /\ syncDone' = TRUE
  /\ queue' = Append(queue, SyncEvent)
  /\ UNCHANGED <<walletVars, subscribedForEvents, handling, outbox, page,
                 status, historyVars, changes>>

-----------------------------------------------------------------------------
\* The listener thread.

\* Takes an event.  subscribeOnce adds the listener at the first onSyncDone;
\* events before that pass by.
TakeEvent ==
  LET event == Head(queue)
  IN  /\ handling = Nothing
      /\ outbox[Listener] = NoPush
      /\ queue # <<>>
      /\ queue' = Tail(queue)
      /\ subscribedForEvents' = (subscribedForEvents \/ event.type = "onSyncDone")
      /\ handling' = IF subscribedForEvents /\ event.type # "onSyncDone"
                     THEN [event |-> event.type, todo |-> event.txs,
                           subscribed |-> addresses, matched |-> FALSE]
                     ELSE Nothing
      /\ UNCHANGED <<walletVars, outbox, page, nodeVars, historyVars, changes>>

hasSender(tx)   == Sender[tx] \in handling.subscribed
hasReceiver(tx) == Receiver[tx] \in handling.subscribed

Handled(tx) ==
  handling' = [handling EXCEPT !.todo = @ \ {tx},
                               !.matched = @ \/ hasSender(tx) \/ hasReceiver(tx)]

\* handlePendingTransactionsReceived, for one transaction.
NotePending(tx) ==
  /\ handling # Nothing
  /\ handling.event = "onPendingTransactionsReceived"
  /\ tx \in handling.todo
  /\ pendingSendTransactions' =
       IF hasSender(tx) THEN pendingSendTransactions \union {tx}
                        ELSE pendingSendTransactions
  /\ pendingReceiveTransactions' =
       IF hasReceiver(tx) THEN pendingReceiveTransactions \union {tx}
                          ELSE pendingReceiveTransactions
  /\ noted' = IF hasSender(tx) THEN noted \union {tx} ELSE noted
  /\ Handled(tx)
  /\ UNCHANGED <<addresses, subscribedForEvents, outbox, page, nodeVars, queue,
                 handled, confirmed, removed, changes>>

\* Mutant of SendingDone: the entry goes only if the confirmation is sent.
SendingDoneIfTold(pending, tx) == IF syncDone THEN pending ELSE pending \ {tx}

\* pendingSendTransactions.remove, whatever else the handler does.
SendingDone(pending, tx) == pending \ {tx}

\* handleBlock, for one transaction.  The confirmation goes out only while
\* the node is still syncing.
NoteBlock(tx) ==
  /\ handling # Nothing
  /\ handling.event = "onBlock"
  /\ tx \in handling.todo
  /\ IF hasSender(tx)
     THEN /\ pendingSendTransactions' = SendingDone(pendingSendTransactions, tx)
          /\ confirmed' = IF ~syncDone THEN confirmed \union {tx} ELSE confirmed
     ELSE UNCHANGED <<pendingSendTransactions, confirmed>>
  /\ pendingReceiveTransactions' =
       IF hasReceiver(tx) THEN pendingReceiveTransactions \ {tx}
                          ELSE pendingReceiveTransactions
  /\ handled' = handled \union {tx}
  /\ Handled(tx)
  /\ UNCHANGED <<addresses, subscribedForEvents, outbox, page, nodeVars, queue,
                 noted, removed, changes>>

\* The info is pushed if a transaction concerned the wallet, or the block's
\* reward did.
EventDone ==
  /\ handling # Nothing
  /\ handling.todo = {}
  /\ \E matchCoinbase \in IF handling.event = "onBlock" THEN BOOLEAN ELSE {FALSE} :
       outbox' = [outbox EXCEPT ![Listener] =
                    IF matchCoinbase \/ handling.matched THEN DuePush ELSE @]
  /\ handling' = Nothing
  /\ UNCHANGED <<walletVars, subscribedForEvents, page, nodeVars, queue,
                 historyVars, changes>>

-----------------------------------------------------------------------------
\* Clients, and the pushes.

Change(c) ==
  /\ outbox[c] = NoPush
  /\ changes < ChangeBound
  /\ changes' = changes + 1
  /\ outbox' = [outbox EXCEPT ![c] = DuePush]
  /\ UNCHANGED <<pendingSendTransactions, pendingReceiveTransactions,
                 subscribedForEvents, handling, page, nodeVars, queue, handled,
                 noted, confirmed>>

importAddress(c, a) ==
  /\ Change(c)
  /\ addresses' = addresses \union {a}
  /\ UNCHANGED removed

removeAddress(c, a) ==
  /\ Change(c)
  /\ addresses' = addresses \ {a}
  /\ removed' = removed \union {a}

\* Mutant of doSendWalletInfo: there is no such schedule.
NoSchedule == FALSE /\ UNCHANGED vars

\* @Scheduled(fixedRate = 60000).
doSendWalletInfo ==
  /\ outbox[Scheduler] = NoPush
  /\ outbox' = [outbox EXCEPT ![Scheduler] = PushOf(getWalletInfo)]
  /\ UNCHANGED <<walletVars, subscribedForEvents, handling, page, nodeVars,
                 queue, historyVars, changes>>

ComputeInfo(p) ==
  /\ outbox[p] = DuePush
  /\ outbox' = [outbox EXCEPT ![p] = PushOf(getWalletInfo)]
  /\ UNCHANGED <<walletVars, subscribedForEvents, handling, page, nodeVars,
                 queue, historyVars, changes>>

\* clientMessageService.sendToTopic("/topic/getWalletInfo", ...).
SendInfo(p) ==
  /\ outbox[p].stage = "computed"
  /\ page' = outbox[p].info
  /\ outbox' = [outbox EXCEPT ![p] = NoPush]
  /\ UNCHANGED <<walletVars, subscribedForEvents, handling, nodeVars, queue,
                 historyVars, changes>>

-----------------------------------------------------------------------------
Node ==
  \/ \E tx \in Tx : Broadcast(tx) \/ Drop(tx)
  \/ \E txs \in SUBSET Tx : Include(txs)
  \/ SyncDone

Listen == TakeEvent \/ (\E tx \in Tx : NotePending(tx) \/ NoteBlock(tx)) \/ EventDone

Push(p) == ComputeInfo(p) \/ SendInfo(p)

Next ==
  \/ Node
  \/ Listen
  \/ \E c \in Client :
       \/ \E a \in Address : importAddress(c, a)
       \/ \E a \in Removable : removeAddress(c, a)
  \/ doSendWalletInfo
  \/ \E p \in Pusher : Push(p)

Spec == Init /\ [][Next]_vars

\* The dispatch thread handles what is queued, a computed push is sent, and
\* the schedule comes round.
Fairness ==
  /\ WF_vars(Listen)
  /\ WF_vars(doSendWalletInfo)
  /\ \A p \in Pusher : WF_vars(Push(p))

FairSpec == Spec /\ Fairness

-----------------------------------------------------------------------------
\* Properties.

IsInfo(i) ==
  /\ DOMAIN i = {"pending", "ledger"}
  /\ DOMAIN i.pending \subseteq Address
  /\ \A a \in DOMAIN i.pending :
       i.pending[a] \in [sending : SUBSET Tx, receiving : SUBSET Tx]
  /\ i.ledger \subseteq Tx

\* Types.  The listener keeps to the transactions of the event it took, and
\* a transaction is held for an address that was in the wallet.
TypeOK ==
  /\ addresses \subseteq Address
  /\ \A tx \in pendingSendTransactions : Sender[tx] \in Address
  /\ \A tx \in pendingReceiveTransactions : Receiver[tx] \in Address
  /\ handling # Nothing => /\ handling.todo \subseteq Tx
                           /\ handling.subscribed \subseteq Address
  /\ \A p \in Pusher : outbox[p] \in {NoPush, DuePush} \/ IsInfo(outbox[p].info)
  /\ IsInfo(page)
  /\ status \in [Tx -> {"new", "pending", "included", "dropped"}]

\* For an address nobody has removed, an outgoing transaction is held as
\* pending exactly from its arrival to its block, also if its sender entered the
\* wallet in between, if sync was done in between, or if both came at once.
HeldUntilIncluded ==
  /\ \A tx \in Tx : Sender[tx] \notin removed =>
       (tx \in pendingSendTransactions <=> tx \in noted \ handled)
  /\ \A tx \in Tx : Receiver[tx] \notin removed =>
       ~(tx \in pendingReceiveTransactions /\ tx \in handled)

\* What WalletService holds is typed, and held exactly as long as it should be.
PendingSound == TypeOK /\ HeldUntilIncluded

\* The wallet page ends up showing what the wallet holds, although pushes of
\* the listener and of several clients can overtake each other.
PageConverges == <>[](page = getWalletInfo)
=============================================================================
