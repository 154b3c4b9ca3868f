------------------------ MODULE WalletPendingProofs ------------------------
(***************************************************************************)
(* PendingSound for any addresses, transactions and clients, and any       *)
(* number of changes of the wallet.                                        *)
(*                                                                         *)
(* HeldUntilIncluded is not inductive.  It needs that the news of a        *)
(* transaction is never handled after its block (EventsInOrder), and that  *)
(* the snapshot of the addresses an event is handled with still has every  *)
(* address a transaction is held for (HeldForSubscribed).                  *)
(***************************************************************************)
EXTENDS WalletPending, TLAPS

EventType == {"onPendingTransactionsReceived", "onBlock", "onSyncDone"}
Event     == [type : EventType, txs : SUBSET Tx]

Types ==
  /\ addresses \subseteq Address
  /\ pendingSendTransactions \subseteq Tx
  /\ pendingReceiveTransactions \subseteq Tx
  /\ handling # Nothing =>
       handling \in [event : {"onPendingTransactionsReceived", "onBlock"},
                     todo : SUBSET Tx, subscribed : SUBSET Address, matched : BOOLEAN]
  /\ DOMAIN outbox = Pusher
  /\ \A p \in Pusher : outbox[p] \in {NoPush, DuePush} \/ IsInfo(outbox[p].info)
  /\ IsInfo(page)
  /\ status \in [Tx -> {"new", "pending", "included", "dropped"}]
  /\ queue \in Seq(Event)

Announces(e, tx) == e.type = "onPendingTransactionsReceived" /\ tx \in e.txs
Includes(e, tx)  == e.type = "onBlock" /\ tx \in e.txs

\* The listener is about to handle the announcement, or the block, of tx.
Announcing(tx) == /\ handling # Nothing
                  /\ handling.event = "onPendingTransactionsReceived"
                  /\ tx \in handling.todo
Including(tx)  == /\ handling # Nothing
                  /\ handling.event = "onBlock"
                  /\ tx \in handling.todo

\* No event is about a transaction nobody has seen.
Unseen(tx) ==
  status[tx] = "new" =>
    /\ \A i \in 1..Len(queue) : ~Includes(queue[i], tx)
    /\ ~Including(tx)
    /\ tx \notin handled

\* The announcement of a transaction comes before its block: in the queue,
\* between the queue and the listener, and at the listener.
InOrder(tx) ==
  /\ \A i, j \in 1..Len(queue) :
       Includes(queue[i], tx) /\ Announces(queue[j], tx) => j < i
  /\ tx \in handled \/ Including(tx) =>
       \A j \in 1..Len(queue) : ~Announces(queue[j], tx)
  /\ tx \in handled => ~Announcing(tx)

EventsInOrder == \A tx \in Tx : Unseen(tx) /\ InOrder(tx)

\* What is held for an address nobody has removed is held for an address that
\* is in the wallet, and was when the listener took the event it handles.
Subscribed(a) == a \in addresses /\ (handling # Nothing => a \in handling.subscribed)

HeldForSubscribed ==
  /\ handling # Nothing => handling.subscribed \subseteq addresses \union removed
  /\ \A tx \in pendingSendTransactions :
       Sender[tx] \in Address /\ (Sender[tx] \notin removed => Subscribed(Sender[tx]))
  /\ \A tx \in pendingReceiveTransactions :
       Receiver[tx] \in Address /\ (Receiver[tx] \notin removed => Subscribed(Receiver[tx]))

IInv == Types /\ EventsInOrder /\ HeldForSubscribed /\ HeldUntilIncluded

-----------------------------------------------------------------------------
\* What getWalletInfo computes has the shape of an info.
LEMMA InfoIsInfo ==
  ASSUME addresses \subseteq Address, pendingSendTransactions \subseteq Tx,
         pendingReceiveTransactions \subseteq Tx
  PROVE  IsInfo(getWalletInfo)
  BY DEF IsInfo, getWalletInfo

LEMMA InitIInv == Init => IInv
<1> SUFFICES ASSUME Init PROVE IInv
  OBVIOUS
<1>1. Types
  <2>1. IsInfo(page)
    BY InfoIsInfo DEF Init
  <2> QED
    BY <2>1 DEF Init, Types
<1>2. EventsInOrder
  BY DEF Init, EventsInOrder, Unseen, InOrder, Including, Announcing
<1>3. HeldForSubscribed /\ HeldUntilIncluded
  BY DEF Init, HeldForSubscribed, HeldUntilIncluded
<1> QED
  BY <1>1, <1>2, <1>3 DEF IInv

-----------------------------------------------------------------------------
\* Types.

LEMMA TypesStep == Types /\ [Next]_vars => Types'
<1> SUFFICES ASSUME Types, [Next]_vars PROVE Types'
  OBVIOUS
<1> USE DEF walletVars, nodeVars, historyVars
<1>1. CASE Node
  <2>1. ASSUME NEW tx \in Tx, Broadcast(tx) PROVE Types'
    <3>1. PendingEvent(tx) \in Event
      BY DEF PendingEvent, Event, EventType
    <3>2. queue' \in Seq(Event)
      BY <2>1, <3>1 DEF Broadcast, Types
    <3> QED
      BY <2>1, <3>2 DEF Broadcast, Types, IsInfo
  <2>2. ASSUME NEW tx \in Tx, Drop(tx) PROVE Types'
    BY <2>2 DEF Drop, Types, IsInfo
  <2>3. ASSUME NEW txs \in SUBSET Tx, Include(txs) PROVE Types'
    <3>1. BlockEvent(txs) \in Event
      BY DEF BlockEvent, Event, EventType
    <3>2. queue' \in Seq(Event)
      BY <2>3, <3>1 DEF Include, Types
    <3> QED
      BY <2>3, <3>2 DEF Include, Types, IsInfo
  <2>4. CASE SyncDone
    <3>1. SyncEvent \in Event
      BY DEF SyncEvent, Event, EventType
    <3>2. queue' \in Seq(Event)
      BY <2>4, <3>1 DEF SyncDone, Types
    <3> QED
      BY <2>4, <3>2 DEF SyncDone, Types, IsInfo
  <2> QED
    BY <1>1, <2>1, <2>2, <2>3, <2>4 DEF Node
<1>2. CASE TakeEvent
  <2>1. Head(queue) \in Event /\ queue' \in Seq(Event)
    BY <1>2 DEF TakeEvent, Types
  <2>2. handling' # Nothing =>
          handling' \in [event : {"onPendingTransactionsReceived", "onBlock"},
                         todo : SUBSET Tx, subscribed : SUBSET Address, matched : BOOLEAN]
    BY <1>2, <2>1 DEF TakeEvent, Types, Event, EventType
  <2> QED
    BY <1>2, <2>1, <2>2 DEF TakeEvent, Types, IsInfo
<1>3. ASSUME NEW tx \in Tx, NotePending(tx) PROVE Types'
  <2>1. handling' \in [event : {"onPendingTransactionsReceived", "onBlock"},
                       todo : SUBSET Tx, subscribed : SUBSET Address, matched : BOOLEAN]
    BY <1>3 DEF NotePending, Handled, hasSender, hasReceiver, Types
  <2> QED
    BY <1>3, <2>1 DEF NotePending, Types, IsInfo
<1>4. ASSUME NEW tx \in Tx, NoteBlock(tx) PROVE Types'
  <2>1. handling' \in [event : {"onPendingTransactionsReceived", "onBlock"},
                       todo : SUBSET Tx, subscribed : SUBSET Address, matched : BOOLEAN]
    BY <1>4 DEF NoteBlock, Handled, hasSender, hasReceiver, Types
  <2> QED
    BY <1>4, <2>1 DEF NoteBlock, SendingDone, Types, IsInfo
<1>5. CASE EventDone
  BY <1>5 DEF EventDone, Types, IsInfo
<1>6. ASSUME NEW c \in Client, NEW a \in Address, importAddress(c, a) PROVE Types'
  BY <1>6 DEF importAddress, Change, Types, IsInfo
<1>7. ASSUME NEW c \in Client, NEW a \in Removable, removeAddress(c, a) PROVE Types'
  BY <1>7 DEF removeAddress, Change, Types, IsInfo
<1>8. CASE doSendWalletInfo
  <2>1. IsInfo(getWalletInfo)
    BY InfoIsInfo DEF Types
  <2> HIDE DEF walletVars, nodeVars, historyVars
  <2>2. \A p \in Pusher : outbox'[p] \in {NoPush, DuePush} \/ IsInfo(outbox'[p].info)
    BY <1>8, <2>1 DEF doSendWalletInfo, Types, PushOf
  <2> QED
    BY <1>8, <2>2 DEF doSendWalletInfo, Types, IsInfo, walletVars, nodeVars, historyVars
<1>9. ASSUME NEW p \in Pusher, Push(p) PROVE Types'
  <2>1. CASE ComputeInfo(p)
    <3>1. IsInfo(getWalletInfo)
      BY InfoIsInfo DEF Types
    <3>2. \A q \in Pusher : outbox'[q] \in {NoPush, DuePush} \/ IsInfo(outbox'[q].info)
      BY <2>1, <3>1 DEF ComputeInfo, Types, PushOf
    <3> QED
      BY <2>1, <3>2 DEF ComputeInfo, Types, IsInfo
  <2>2. CASE SendInfo(p)
    <3>1. outbox[p] \notin {NoPush, DuePush}
      BY <2>2 DEF SendInfo, NoPush, DuePush
    <3>2. IsInfo(page')
      BY <2>2, <3>1 DEF SendInfo, Types
    <3> QED
      BY <2>2, <3>2 DEF SendInfo, Types, IsInfo
  <2> QED
    BY <1>9, <2>1, <2>2 DEF Push
<1>10. CASE UNCHANGED vars
  BY <1>10 DEF vars, Types, IsInfo
<1> QED
  BY <1>1, <1>2, <1>3, <1>4, <1>5, <1>6, <1>7, <1>8, <1>9, <1>10 DEF Next, Listen

-----------------------------------------------------------------------------
\* The order of the events.

\* It is a matter of these variables alone.
LEMMA OrderKept ==
  EventsInOrder /\ UNCHANGED <<status, queue, handling, handled>> => EventsInOrder'
  BY DEF EventsInOrder, Unseen, InOrder, Including, Announcing, Includes, Announces

\* An event that joins the queue keeps the order if no transaction it announces
\* has been seen and none it includes is new any more.
LEMMA OrderAppend ==
  ASSUME EventsInOrder, queue \in Seq(Event), NEW e \in Event,
         queue' = Append(queue, e), UNCHANGED <<handling, handled>>,
         \A tx \in Tx : status'[tx] = "new" => status[tx] = "new",
         \A tx \in Tx : Announces(e, tx) => status[tx] = "new",
         \A tx \in Tx : Includes(e, tx) => status'[tx] # "new"
  PROVE  EventsInOrder'
<1>1. /\ Len(queue') = Len(queue) + 1
      /\ Len(queue) \in Nat
      /\ \A i \in 1..Len(queue) : queue'[i] = queue[i]
      /\ queue'[Len(queue) + 1] = e
  OBVIOUS
<1>2. \A i \in 1..Len(queue') :
        \/ i \in 1..Len(queue) /\ queue'[i] = queue[i]
        \/ i = Len(queue) + 1 /\ queue'[i] = e
  BY <1>1
<1>3. SUFFICES ASSUME NEW tx \in Tx PROVE Unseen(tx)' /\ InOrder(tx)'
  BY DEF EventsInOrder
<1>4. Unseen(tx) /\ InOrder(tx)
  BY <1>3 DEF EventsInOrder
<1>5. ~(Announces(e, tx) /\ Includes(e, tx))
  BY DEF Announces, Includes
<1>6. Unseen(tx)'
  BY <1>2, <1>4 DEF Unseen, Including, Includes
<1>7. ASSUME NEW i \in 1..Len(queue'), NEW j \in 1..Len(queue'),
             Includes(queue'[i], tx), Announces(queue'[j], tx)
      PROVE  j < i
  <2>1. CASE i \in 1..Len(queue) /\ j \in 1..Len(queue)
    BY <1>1, <1>4, <1>7, <2>1 DEF InOrder
  <2>2. CASE i \in 1..Len(queue) /\ j = Len(queue) + 1
    BY <1>1, <1>4, <1>7, <2>2 DEF Unseen
  <2>3. CASE i = Len(queue) + 1
    <3>1. j # Len(queue) + 1
      BY <1>1, <1>5, <1>7, <2>3
    <3> QED
      BY <1>1, <3>1, <2>3
  <2> QED
    BY <1>1, <2>1, <2>2, <2>3
<1>8. (tx \in handled \/ Including(tx))' => \A j \in 1..Len(queue') : ~Announces(queue'[j], tx)
  <2>1. tx \in handled \/ Including(tx) => ~Announces(e, tx)
    BY <1>4 DEF Unseen
  <2> QED
    BY <1>2, <1>4, <2>1 DEF InOrder, Including
<1>9. (tx \in handled => ~Announcing(tx))'
  BY <1>4 DEF InOrder, Announcing
<1> QED
  BY <1>6, <1>7, <1>8, <1>9 DEF InOrder, Announces, Includes

\* The listener takes the head of a queue that is in order.
LEMMA OrderTake == Types /\ EventsInOrder /\ TakeEvent => EventsInOrder'
<1> SUFFICES ASSUME Types, EventsInOrder, TakeEvent, NEW tx \in Tx
             PROVE  Unseen(tx)' /\ InOrder(tx)'
  BY DEF EventsInOrder
<1>1. Unseen(tx) /\ InOrder(tx)
  BY DEF EventsInOrder
<1>2. /\ Len(queue) \in Nat \ {0}
      /\ Len(queue') = Len(queue) - 1
      /\ \A i \in 1..Len(queue') : i + 1 \in 1..Len(queue) /\ queue'[i] = queue[i + 1]
      /\ Head(queue) = queue[1]
  BY DEF Types, TakeEvent
<1>3. handling = Nothing /\ UNCHANGED <<status, handled>>
  BY DEF TakeEvent, nodeVars, historyVars
<1>4. Including(tx)' => Includes(queue[1], tx)
  BY <1>2 DEF TakeEvent, Including, Includes
<1>5. Announcing(tx)' => Announces(queue[1], tx)
  BY <1>2 DEF TakeEvent, Announcing, Announces
<1>6. Unseen(tx)'
  BY <1>1, <1>2, <1>3, <1>4 DEF Unseen, Includes
<1>7. \A i, j \in 1..Len(queue') :
        Includes(queue'[i], tx) /\ Announces(queue'[j], tx) => j < i
  BY <1>1, <1>2 DEF InOrder
<1>8. (tx \in handled \/ Including(tx))' => \A j \in 1..Len(queue') : ~Announces(queue'[j], tx)
  <2>1. ASSUME Includes(queue[1], tx), NEW j \in 1..Len(queue) PROVE ~Announces(queue[j], tx)
    BY <1>1, <1>2, <2>1 DEF InOrder
  <2> QED
    BY <1>1, <1>2, <1>3, <1>4, <2>1 DEF InOrder
<1>9. (tx \in handled => ~Announcing(tx))'
  BY <1>1, <1>2, <1>3, <1>5 DEF InOrder
<1> QED
  BY <1>6, <1>7, <1>8, <1>9 DEF InOrder, Announces, Includes

\* Handling a transaction moves it from the event's to the handled ones.
LEMMA OrderHandle ==
  ASSUME Types, EventsInOrder, NEW t \in Tx, NotePending(t) \/ NoteBlock(t)
  PROVE  EventsInOrder'
<1> SUFFICES ASSUME NEW tx \in Tx PROVE Unseen(tx)' /\ InOrder(tx)'
  BY DEF EventsInOrder
<1>1. Unseen(tx) /\ InOrder(tx)
  BY DEF EventsInOrder
<1>2. UNCHANGED <<status, queue>>
  BY DEF NotePending, NoteBlock, nodeVars
<1>3. /\ handling # Nothing
      /\ handling'.event = handling.event
      /\ handling'.todo = handling.todo \ {t}
  BY DEF NotePending, NoteBlock, Handled, Types
<1>4. Including(tx)' => Including(tx)
  BY <1>3 DEF Including
<1>5. Announcing(tx)' => Announcing(tx)
  BY <1>3 DEF Announcing
<1>6. handled' = handled \/ (handled' = handled \union {t} /\ Including(t))
  BY DEF NotePending, NoteBlock, Including
<1>7. (tx \in handled \/ Including(tx))' => tx \in handled \/ Including(tx)
  BY <1>4, <1>6
<1>8. Including(t) => ~Announcing(tx)
  BY DEF Including, Announcing
<1> QED
  BY <1>1, <1>2, <1>4, <1>5, <1>6, <1>7, <1>8 DEF Unseen, InOrder, Includes, Announces

LEMMA OrderStep == Types /\ EventsInOrder /\ [Next]_vars => EventsInOrder'
<1> SUFFICES ASSUME Types, EventsInOrder, [Next]_vars PROVE EventsInOrder'
  OBVIOUS
<1> USE DEF nodeVars, historyVars
<1>1. CASE Node
  <2>1. ASSUME NEW tx \in Tx, Broadcast(tx) PROVE EventsInOrder'
    <3>1. PendingEvent(tx) \in Event
      BY DEF PendingEvent, Event, EventType
    <3> QED
      BY <2>1, <3>1, OrderAppend DEF Broadcast, Types, PendingEvent, Announces, Includes
  <2>2. ASSUME NEW tx \in Tx, Drop(tx) PROVE EventsInOrder'
    BY <2>2 DEF Drop, Types, EventsInOrder, Unseen, InOrder, Including, Announcing,
                Includes, Announces
  <2>3. ASSUME NEW txs \in SUBSET Tx, Include(txs) PROVE EventsInOrder'
    <3>1. BlockEvent(txs) \in Event
      BY DEF BlockEvent, Event, EventType
    <3> QED
      BY <2>3, <3>1, OrderAppend DEF Include, Types, BlockEvent, Announces, Includes
  <2>4. CASE SyncDone
    <3>1. SyncEvent \in Event
      BY DEF SyncEvent, Event, EventType
    <3> QED
      BY <2>4, <3>1, OrderAppend DEF SyncDone, Types, SyncEvent, Announces, Includes
  <2> QED
    BY <1>1, <2>1, <2>2, <2>3, <2>4 DEF Node
<1>2. CASE Listen
  <2>1. CASE EventDone
    BY <2>1 DEF EventDone, EventsInOrder, Unseen, InOrder, Including, Announcing,
                Includes, Announces
  <2> QED
    BY <1>2, <2>1, OrderTake, OrderHandle DEF Listen
<1>3. ASSUME NEW c \in Client, NEW a \in Address, importAddress(c, a) PROVE EventsInOrder'
  BY <1>3, OrderKept DEF importAddress, Change
<1>4. ASSUME NEW c \in Client, NEW a \in Removable, removeAddress(c, a) PROVE EventsInOrder'
  BY <1>4, OrderKept DEF removeAddress, Change
<1>5. CASE doSendWalletInfo
  BY <1>5, OrderKept DEF doSendWalletInfo
<1>6. ASSUME NEW p \in Pusher, Push(p) PROVE EventsInOrder'
  BY <1>6, OrderKept DEF Push, ComputeInfo, SendInfo
<1>7. CASE UNCHANGED vars
  BY <1>7, OrderKept DEF vars
<1> QED
  BY <1>1, <1>2, <1>3, <1>4, <1>5, <1>6, <1>7 DEF Next

-----------------------------------------------------------------------------
\* What is held.

LEMMA HeldKept ==
  /\ HeldForSubscribed /\ HeldUntilIncluded
  /\ UNCHANGED <<addresses, pendingSendTransactions, pendingReceiveTransactions, handling,
                 handled, noted, removed>>
  => HeldForSubscribed' /\ HeldUntilIncluded'
  BY DEF HeldForSubscribed, HeldUntilIncluded, Subscribed

\* The announcement of a transaction, which has not been in a block yet.
LEMMA HeldNotePending ==
  ASSUME IInv, NEW t \in Tx, NotePending(t)
  PROVE  HeldForSubscribed' /\ HeldUntilIncluded'
<1> USE DEF IInv
<1>1. /\ handling # Nothing
      /\ handling'.subscribed = handling.subscribed
      /\ handling.subscribed \subseteq Address
  BY DEF NotePending, Handled, Types
<1>2. UNCHANGED <<addresses, handled, removed>>
  BY DEF NotePending
<1>3. t \notin handled
  BY DEF EventsInOrder, InOrder, Announcing, NotePending
<1>4. handling.subscribed \subseteq addresses \union removed
  BY <1>1 DEF HeldForSubscribed
<1>5. HeldForSubscribed'
  <2>1. ASSUME NEW tx \in pendingSendTransactions'
        PROVE  Sender[tx] \in Address /\ (Sender[tx] \notin removed => Subscribed(Sender[tx])')
    <3>1. CASE tx \in pendingSendTransactions
      BY <1>1, <1>2, <3>1 DEF HeldForSubscribed, Subscribed
    <3>2. CASE tx = t /\ hasSender(t)
      BY <1>1, <1>2, <1>4, <3>2 DEF hasSender, Subscribed
    <3> QED
      BY <2>1, <3>1, <3>2 DEF NotePending
  <2>2. ASSUME NEW tx \in pendingReceiveTransactions'
        PROVE  Receiver[tx] \in Address /\ (Receiver[tx] \notin removed => Subscribed(Receiver[tx])')
    <3>1. CASE tx \in pendingReceiveTransactions
      BY <1>1, <1>2, <3>1 DEF HeldForSubscribed, Subscribed
    <3>2. CASE tx = t /\ hasReceiver(t)
      BY <1>1, <1>2, <1>4, <3>2 DEF hasReceiver, Subscribed
    <3> QED
      BY <2>2, <3>1, <3>2 DEF NotePending
  <2> QED
    BY <1>1, <1>2, <1>4, <2>1, <2>2 DEF HeldForSubscribed
<1>6. HeldUntilIncluded'
  BY <1>2, <1>3 DEF HeldUntilIncluded, NotePending
<1> QED
  BY <1>5, <1>6

\* The block of a transaction: whoever it is held for is in the snapshot.
LEMMA HeldNoteBlock ==
  ASSUME IInv, NEW t \in Tx, NoteBlock(t)
  PROVE  HeldForSubscribed' /\ HeldUntilIncluded'
<1> USE DEF IInv
<1>1. /\ handling # Nothing
      /\ handling'.subscribed = handling.subscribed
  BY DEF NoteBlock, Handled, Types
<1>2. UNCHANGED <<addresses, noted, removed>> /\ handled' = handled \union {t}
  BY DEF NoteBlock
<1>3. /\ pendingSendTransactions' =
           IF hasSender(t) THEN pendingSendTransactions \ {t} ELSE pendingSendTransactions
      /\ pendingReceiveTransactions' =
           IF hasReceiver(t) THEN pendingReceiveTransactions \ {t}
                             ELSE pendingReceiveTransactions
  BY DEF NoteBlock, SendingDone
<1>4. HeldForSubscribed'
  BY <1>1, <1>2, <1>3 DEF HeldForSubscribed, Subscribed
<1>5. /\ t \in pendingSendTransactions /\ Sender[t] \notin removed => hasSender(t)
      /\ t \in pendingReceiveTransactions /\ Receiver[t] \notin removed => hasReceiver(t)
  BY <1>1 DEF HeldForSubscribed, Subscribed, hasSender, hasReceiver
<1>6. HeldUntilIncluded'
  BY <1>2, <1>3, <1>5 DEF HeldUntilIncluded
<1> QED
  BY <1>4, <1>6

LEMMA HeldStep == IInv /\ [Next]_vars => HeldForSubscribed' /\ HeldUntilIncluded'
<1> SUFFICES ASSUME IInv, [Next]_vars PROVE HeldForSubscribed' /\ HeldUntilIncluded'
  OBVIOUS
<1> USE DEF IInv, walletVars, nodeVars, historyVars
<1>1. CASE Node
  BY <1>1, HeldKept DEF Node, Broadcast, Drop, Include, SyncDone
<1>2. CASE Listen
  <2>1. CASE TakeEvent
    <3>1. handling' # Nothing => handling'.subscribed = addresses
      BY <2>1 DEF TakeEvent
    <3>2. handling = Nothing
          /\ UNCHANGED <<addresses, pendingSendTransactions, pendingReceiveTransactions,
                         handled, noted, removed>>
      BY <2>1 DEF TakeEvent
    <3> QED
      BY <3>1, <3>2 DEF HeldForSubscribed, HeldUntilIncluded, Subscribed
  <2>2. CASE EventDone
    BY <2>2 DEF EventDone, HeldForSubscribed, HeldUntilIncluded, Subscribed
  <2> QED
    BY <1>2, <2>1, <2>2, HeldNotePending, HeldNoteBlock DEF Listen
<1>3. ASSUME NEW c \in Client, NEW a \in Address, importAddress(c, a)
      PROVE  HeldForSubscribed' /\ HeldUntilIncluded'
  BY <1>3 DEF importAddress, Change, HeldForSubscribed, HeldUntilIncluded, Subscribed
<1>4. ASSUME NEW c \in Client, NEW a \in Removable, removeAddress(c, a)
      PROVE  HeldForSubscribed' /\ HeldUntilIncluded'
  BY <1>4 DEF removeAddress, Change, HeldForSubscribed, HeldUntilIncluded, Subscribed
<1>5. CASE doSendWalletInfo
  BY <1>5, HeldKept DEF doSendWalletInfo
<1>6. ASSUME NEW p \in Pusher, Push(p) PROVE HeldForSubscribed' /\ HeldUntilIncluded'
  BY <1>6, HeldKept DEF Push, ComputeInfo, SendInfo
<1>7. CASE UNCHANGED vars
  BY <1>7, HeldKept DEF vars
<1> QED
  BY <1>1, <1>2, <1>3, <1>4, <1>5, <1>6, <1>7 DEF Next

-----------------------------------------------------------------------------
LEMMA IInvStep == IInv /\ [Next]_vars => IInv'
  BY TypesStep, OrderStep, HeldStep DEF IInv

LEMMA IInvSound == IInv => PendingSound
  BY DEF IInv, PendingSound, Types, HeldForSubscribed, TypeOK, HeldUntilIncluded

\* However announcements and blocks, the end of sync and changes of the wallet
\* follow each other, a transaction counts as pending for an address that was not
\* removed from its announcement to its block (handlePendingTransactionsReceived,
\* handleBlock).
THEOREM PendingAlwaysSound == Spec => []PendingSound
<1>1. Spec => []IInv
  BY InitIInv, IInvStep, PTL DEF Spec
<1> QED
  BY <1>1, IInvSound, PTL
=============================================================================
