--------------------------- MODULE FilterRegistry ---------------------------
(***************************************************************************)
(* The table of installed filters of EthJsonRpcImpl, between               *)
(*                                                                         *)
(*   - the import thread of the node, which extends the chain and queues   *)
(*     an event for the listener;                                          *)
(*   - the listener thread, which takes one event at a time and walks the  *)
(*     table, filter by filter.  The table is a Hashtable: its iterator    *)
(*     throws ConcurrentModificationException at the next filter if a      *)
(*     filter was installed or uninstalled meanwhile, and the rest of the  *)
(*     table misses the event;                                             *)
(*   - the RPC threads (Client).  eth_newFilter installs the filter, reads *)
(*     the first and the last block of the range one after the other, adds *)
(*     the history block by block, and only then lets live events in, with *)
(*     the chain growing and the listener running all the while.           *)
(*                                                                         *)
(* Blocks are the numbers 0 .. best of the main chain; every block has one *)
(* log that every log filter matches.  A filter that matches less sees a   *)
(* subset of these events.                                                 *)
(***************************************************************************)
EXTENDS FilterBuffer, FiniteSets, SequencesExt

CONSTANTS
  Client,        \* RPC threads
  Tx,            \* transactions the pending state reports
  Request,       \* the eth_newFilter / eth_getLogs requests clients make
  ReceiptLimit,  \* capacity of the LRUMap of pending receipts: 1024 in the code
  BlockBound,    \* bound: blocks imported after the start
  PendingBound,  \* bound: pending-state events
  FilterBound,   \* bound: filters ever installed
  None           \* no block identifier, Java's null

UpdateState == {"PENDING", "DROPPED", "INCLUDED"}

\* What the listener receives, and its iteration over the table.
ListenerEvent ==
  [type : {"onBlock"}, ref : 1 .. BlockBound] \union
  [type : {"onPendingTransactionsReceived"}, ref : Tx] \union
  [type : {"onPendingTransactionUpdate"}, ref : Tx, state : UpdateState]

Walk == [event : ListenerEvent, todo : SUBSET (1 .. FilterBound), fresh : BOOLEAN]

\* How a request names a block.
BlockId == [tag : {"earliest", "latest", "pending"}] \union [tag : {"number"}, number : Nat]

ASSUME RegistryAssumption ==
  /\ ReceiptLimit \in Nat \ {0}
  /\ {BlockBound, PendingBound, FilterBound} \subseteq Nat
  /\ \A r \in Request : /\ {r.fromBlock, r.toBlock, r.blockHash} \subseteq BlockId \union {None}
                        /\ r.blockHash # None => r.blockHash.tag = "number"
  /\ None \notin Walk /\ None \notin UpdateState

VARIABLES
  best,       \* number of the best block
  queue,      \* listener events not handled yet, oldest first
  receipts,   \* pendingReceipts: transactions, least recently used first
  filters,    \* every filter object ever created, indexed by its id
  installed,  \* installedFilters: the ids in the table
  walk,       \* the listener's iteration: [event, todo, fresh]
  task,       \* what each RPC thread is doing

  \* History; the code keeps none of it.
  reported,   \* per filter: every event ever added to it
  origin,     \* per filter: [request, askedAt, first, last, armedAt], where
              \* askedAt is the best block when the call began, and first and
              \* last are its blockFrom and blockTo
  dispatched, \* number of the last block whose event was taken from the queue
  cut,        \* <<id, n>>: the walk for block n ended before filter id
  lastUpdate, \* per transaction: the last pending-state update handled
  pendings    \* pending-state events raised

chainVars == <<best, queue, pendings>>
tableVars == <<filters, installed, reported, origin>>
walkVars  == <<walk, receipts, dispatched, cut, lastUpdate>>
vars == <<chainVars, tableVars, walkVars, task>>

-----------------------------------------------------------------------------
\* What filters report.
BlockEvent(n)    == [type |-> "block", ref |-> n]
PendingEvent(tx) == [type |-> "pending", ref |-> tx]

\* What the listener receives.
BlockArrived(n)        == [type |-> "onBlock", ref |-> n]
PendingReceived(tx)    == [type |-> "onPendingTransactionsReceived", ref |-> tx]
PendingUpdate(tx, st)  == [type |-> "onPendingTransactionUpdate", ref |-> tx,
                           state |-> st]

Ids == 1 .. Len(filters)

NewObject(kind) ==
  [events |-> <<>>, pollStart |-> 0,
   kind |-> kind, onNewBlock |-> FALSE, onPendingTx |-> FALSE]

Walking == walk # None

\* getByJsonBlockId: -1 stands for the null it returns for "pending" and for
\* a number above the best block.
Resolve(id) ==
  CASE id.tag = "earliest" -> 0
    [] id.tag = "latest"   -> best
    [] id.tag = "pending"  -> -1
    [] id.tag = "number"   -> IF id.number <= best THEN id.number ELSE -1

NullableBlock(id) == IF id = None THEN -1 ELSE Resolve(id)

HasTag(id, tag) == id # None /\ id.tag = tag

\* The flags eth_newFilter sets once the history is in.
WantsPending(r) == HasTag(r.fromBlock, "pending") \/ HasTag(r.toBlock, "pending")
WantsNewBlocks(r) ==
  /\ ~WantsPending(r)
  /\ \/ r.toBlock = None
     \/ HasTag(r.fromBlock, "latest")
     \/ HasTag(r.toBlock, "latest")

\* The blocks a request names; a hash names the only block.
FromBlock(r) == IF r.blockHash # None THEN r.blockHash ELSE r.fromBlock
ToBlock(r)   == IF r.blockHash # None THEN r.blockHash ELSE r.toBlock

\* Mutant of Takes: log filters take blocks from their installation on.
TakesUnarmed(f, event) ==
  \/ event.type = "onBlock" /\ f.kind \in {"block", "log"}
  \/ event.type = "onPendingTransactionsReceived" /\ f.kind = "pending"
  \/ event.type = "onPendingTransactionUpdate" /\ f.kind = "log" /\ f.onPendingTx

\* Whether a filter adds something for a listener event: newBlockReceived,
\* newPendingTx and updatePendingTx of the three kinds of filter.
Takes(f, event) ==
  \/ event.type = "onBlock" /\ f.kind = "block"
  \/ event.type = "onBlock" /\ f.kind = "log" /\ f.onNewBlock
  \/ event.type = "onPendingTransactionsReceived" /\ f.kind = "pending"
  \/ event.type = "onPendingTransactionUpdate" /\ f.kind = "log" /\ f.onPendingTx

\* What it adds.
Report(event) ==
  IF event.type = "onBlock" THEN BlockEvent(event.ref) ELSE PendingEvent(event.ref)

\* LRUMap.remove; a key has one entry.
Without(lru, tx) ==
  IF Contains(lru, tx)
  THEN RemoveAt(lru, CHOOSE i \in 1 .. Len(lru) : lru[i] = tx)
  ELSE lru

\* LRUMap.put and LRUMap.get make the key the most recently used one.
Touch(lru, tx) == Append(Without(lru, tx), tx)

PutReceipt(lru, tx) ==
  LET touched == Touch(lru, tx)
  IN  IF Len(touched) > ReceiptLimit THEN Tail(touched) ELSE touched

\* Mutant of ReceiptsAfter: an included transaction keeps its receipt.
ReceiptsNeverRemoved(lru, tx, state) == PutReceipt(lru, tx)

\* What onPendingTransactionUpdate does to the pending receipts.
ReceiptsAfter(lru, tx, state) ==
  IF state = "INCLUDED" THEN Without(lru, tx) ELSE PutReceipt(lru, tx)

IdleTask == [at |-> "idle", id |-> 0, once |-> FALSE, next |-> 0, answer |-> <<>>]

\* A client uses the ids it was given: no other thread is still inside the
\* call that created the filter.
Known(id) == id \in Ids /\ \A c \in Client : task[c].id # id

-----------------------------------------------------------------------------
Init ==
  /\ best = 0
  /\ queue = <<>>
  /\ receipts = <<>>
  /\ filters = <<>>
  /\ installed = {}
  /\ walk = None
  /\ task = [c \in Client |-> IdleTask]
  /\ reported = <<>>
  /\ origin = <<>>
  /\ dispatched = 0
  /\ cut = {}
  /\ lastUpdate = [tx \in Tx |-> None]
  /\ pendings = 0

-----------------------------------------------------------------------------
\* The node.

ImportBlock ==
  /\ best < BlockBound
  /\ best' = best + 1
  /\ queue' = Append(queue, BlockArrived(best + 1))
  /\ UNCHANGED <<pendings, tableVars, walkVars, task>>

RaisePending(tx) ==
  /\ pendings < PendingBound
  /\ pendings' = pendings + 1
  /\ \/ queue' = Append(queue, PendingReceived(tx))
     \/ \E st \in UpdateState : queue' = Append(queue, PendingUpdate(tx, st))
  /\ UNCHANGED <<best, tableVars, walkVars, task>>

-----------------------------------------------------------------------------
\* The listener thread.

\* onBlock, onPendingTransactionsReceived and onPendingTransactionUpdate up to
\* the creation of the iterator.
BeginWalk ==
  /\ ~Walking
  /\ queue # <<>>
  /\ LET event == Head(queue)
         included == /\ event.type = "onPendingTransactionUpdate"
                     /\ event.state = "INCLUDED"
     IN  /\ walk' = [event |-> event, fresh |-> TRUE,
                     todo  |-> IF included THEN {} ELSE installed]
         /\ IF event.type = "onPendingTransactionUpdate"
            THEN /\ receipts' = ReceiptsAfter(receipts, event.ref, event.state)
                 /\ lastUpdate' = [lastUpdate EXCEPT ![event.ref] = event.state]
            ELSE UNCHANGED <<receipts, lastUpdate>>
         /\ dispatched' = IF event.type = "onBlock" THEN event.ref ELSE dispatched
  /\ queue' = Tail(queue)
  /\ UNCHANGED <<best, pendings, tableVars, cut, task>>

\* One turn of the loop over installedFilters.values().
Visit(id) ==
  /\ Walking
  /\ walk.fresh
  /\ id \in walk.todo
  /\ IF Takes(filters[id], walk.event)
     THEN /\ filters' = [filters EXCEPT ![id] = Added(@, Report(walk.event))]
          /\ reported' = [reported EXCEPT ![id] = Append(@, Report(walk.event))]
     ELSE UNCHANGED <<filters, reported>>
  /\ walk' = [walk EXCEPT !.todo = @ \ {id}]
  /\ UNCHANGED <<chainVars, installed, origin, receipts, dispatched, cut,
                 lastUpdate, task>>

\* Mutant of WalkOver: the exception never leaves the loop.
WalkExhausted == walk.todo = {}

\* The loop ends at the end of the table or with the exception of a table
\* that changed under it; the exception ends the handling of this event only.
WalkOver == walk.todo = {} \/ ~walk.fresh

EndWalk ==
  /\ Walking
  /\ WalkOver
  /\ walk' = None
  /\ cut' = IF walk.event.type = "onBlock"
            THEN cut \union {<<id, walk.event.ref>> : id \in walk.todo}
            ELSE cut
  /\ UNCHANGED <<chainVars, tableVars, receipts, dispatched, lastUpdate, task>>

-----------------------------------------------------------------------------
\* The RPC threads.

\* Any change of the Hashtable invalidates the listener's iterator.
TableChanged == walk' = IF Walking THEN [walk EXCEPT !.fresh = FALSE] ELSE walk

\* Blocks handled before the filter takes live events.  The event the
\* listener is handling counts as still to come if it has yet to reach id.
HandledBefore(id) ==
  IF Walking /\ walk.event.type = "onBlock" /\ id \in walk.todo
  THEN dispatched - 1 ELSE dispatched

Install(object, o) ==
  /\ Len(filters) < FilterBound
  /\ filters' = Append(filters, object)
  /\ installed' = installed \union {Len(filters) + 1}
  /\ reported' = Append(reported, <<>>)
  /\ origin' = Append(origin, o)
  /\ TableChanged
  /\ UNCHANGED <<receipts, dispatched, cut, lastUpdate>>

eth_newBlockFilter(c) ==
  /\ task[c].at = "idle"
  /\ Install(NewObject("block"),
             [request |-> None, askedAt |-> 0, first |-> 0, last |-> -1,
              armedAt |-> dispatched])
  /\ UNCHANGED <<chainVars, task>>

eth_newPendingTransactionFilter(c) ==
  /\ task[c].at = "idle"
  /\ Install(NewObject("pending"),
             [request |-> None, askedAt |-> 0, first |-> 0, last |-> -1,
              armedAt |-> dispatched])
  /\ UNCHANGED <<chainVars, task>>

\* eth_newFilter (once = FALSE), or the first call of eth_getLogs.
eth_newFilter(c, request, once) ==
  /\ task[c].at = "idle"
  /\ Install(NewObject("log"),
             [request |-> request, askedAt |-> best, first |-> 0, last |-> -1,
              armedAt |-> -1])
  /\ task' = [task EXCEPT ![c] = [IdleTask EXCEPT !.at = "resolveFrom", !.once = once,
                                                  !.id = Len(filters) + 1]]
  /\ UNCHANGED chainVars

\* blockFrom, or -1, is read from the chain.
ResolveFrom(c) ==
  /\ task[c].at = "resolveFrom"
  /\ task' = [task EXCEPT ![c].at = "resolveTo",
                          ![c].next = NullableBlock(FromBlock(origin[task[c].id].request))]
  /\ UNCHANGED <<chainVars, tableVars, walkVars>>

BeginHistory(c, first, last) ==
  /\ origin' = [origin EXCEPT ![task[c].id].first = first, ![task[c].id].last = last]
  /\ task' = [task EXCEPT ![c].at = "history", ![c].next = first]
  /\ UNCHANGED <<chainVars, filters, installed, reported, walkVars>>

\* blockTo is read from the chain as it is by now; a block named by its hash is
\* not read again.  There is no history without a first block.
ResolveTo(c) ==
  LET r    == origin[task[c].id].request
      from == task[c].next
      to   == IF r.blockHash # None THEN from ELSE NullableBlock(r.toBlock)
  IN  /\ task[c].at = "resolveTo"
      /\ \/ from = -1 /\ BeginHistory(c, 0, -1)
         \/ from # -1 /\ to # -1 /\ BeginHistory(c, from, to)
         \/ /\ from # -1 /\ to = -1
            /\ task' = [task EXCEPT ![c].at = "resolveBest"]
            /\ UNCHANGED <<chainVars, tableVars, walkVars>>

\* A last block that is not named, or was not there yet, is the best one, read
\* a step later.
ResolveBest(c) ==
  /\ task[c].at = "resolveBest"
  /\ BeginHistory(c, task[c].next, best)

AddHistory(c) ==
  LET id    == task[c].id
      event == BlockEvent(task[c].next)
  IN  /\ task[c].at = "history"
      /\ task[c].next <= origin[id].last
      /\ filters' = [filters EXCEPT ![id] = Added(@, event)]
      /\ reported' = [reported EXCEPT ![id] = Append(@, event)]
      /\ task' = [task EXCEPT ![c].next = @ + 1]
      /\ UNCHANGED <<chainVars, installed, origin, walkVars>>

HistoryDone(c) == task[c].next > origin[task[c].id].last

\* Mutant of Armed: onNewBlock is set outside the `else`.
ArmedForBlocks(f, r) ==
  [f EXCEPT !.onPendingTx = WantsPending(r), !.onNewBlock = TRUE]

Armed(f, r) ==
  [f EXCEPT !.onPendingTx = WantsPending(r), !.onNewBlock = WantsNewBlocks(r)]

\* The flags are set and the id is returned (to eth_getLogs if once).
Arm(c) ==
  LET id == task[c].id
  IN  /\ task[c].at = "history"
      /\ HistoryDone(c)
      /\ filters' = [filters EXCEPT ![id] = Armed(@, origin[id].request)]
      /\ origin' = [origin EXCEPT ![id].armedAt = HandledBefore(id)]
      /\ task' = [task EXCEPT ![c] = IF task[c].once
                                     THEN [@ EXCEPT !.at = "poll"]
                                     ELSE IdleTask]
      /\ UNCHANGED <<chainVars, installed, reported, walkVars>>

\* The two other calls of eth_getLogs.
GetLogsPoll(c) ==
  LET id == task[c].id
  IN  /\ task[c].at = "poll"
      /\ task' = [task EXCEPT ![c].at = "uninstall",
                              ![c].answer = Unread(filters[id])]
      /\ filters' = [filters EXCEPT ![id] = Polled(@)]
      /\ UNCHANGED <<chainVars, installed, reported, origin, walkVars>>

GetLogsUninstall(c) ==
  /\ task[c].at = "uninstall"
  /\ installed' = installed \ {task[c].id}
  /\ TableChanged
  /\ task' = [task EXCEPT ![c] = IdleTask]
  /\ UNCHANGED <<chainVars, filters, reported, origin, receipts, dispatched,
                 cut, lastUpdate>>

\* remove() of an id that is not in the table changes nothing.
eth_uninstallFilter(c, id) ==
  /\ task[c].at = "idle"
  /\ Known(id)
  /\ id \in installed
  /\ installed' = installed \ {id}
  /\ TableChanged
  /\ UNCHANGED <<chainVars, filters, reported, origin, receipts, dispatched,
                 cut, lastUpdate, task>>

\* The answer for an id that is not in the table is null.
eth_getFilterChanges(c, id) ==
  /\ task[c].at = "idle"
  /\ Known(id)
  /\ filters' = IF id \in installed THEN [filters EXCEPT ![id] = Polled(@)]
                                    ELSE filters
  /\ UNCHANGED <<chainVars, installed, reported, origin, walkVars, task>>

\* A pending receipt is answered from the LRU map, which moves it to the end.
ethj_getTransactionReceipt(c, tx) ==
  /\ task[c].at = "idle"
  /\ receipts' = IF Contains(receipts, tx) THEN Touch(receipts, tx) ELSE receipts
  /\ UNCHANGED <<chainVars, tableVars, walk, dispatched, cut, lastUpdate, task>>

-----------------------------------------------------------------------------
Listener == BeginWalk \/ (\E id \in Ids : Visit(id)) \/ EndWalk

Call(c) ==
  \/ ResolveFrom(c) \/ ResolveTo(c) \/ ResolveBest(c) \/ AddHistory(c) \/ Arm(c)
  \/ GetLogsPoll(c) \/ GetLogsUninstall(c)

StartCall(c) ==
  \/ eth_newBlockFilter(c)
  \/ eth_newPendingTransactionFilter(c)
  \/ \E r \in Request, once \in BOOLEAN : eth_newFilter(c, r, once)
  \/ \E id \in Ids : eth_uninstallFilter(c, id) \/ eth_getFilterChanges(c, id)
  \/ \E tx \in Tx : ethj_getTransactionReceipt(c, tx)

Next ==
  \/ ImportBlock
  \/ \E tx \in Tx : RaisePending(tx)
  \/ Listener
  \/ \E c \in Client : Call(c) \/ StartCall(c)

Spec == Init /\ [][Next]_vars

\* The listener's dispatch thread keeps running; nobody has to import a block,
\* to make a call or to finish one.
Fairness == WF_vars(Listener)

FairSpec == Spec /\ Fairness

-----------------------------------------------------------------------------
\* Properties.

Event == [type : {"block"}, ref : 0 .. BlockBound] \union
         [type : {"pending"}, ref : Tx]

\* A filter, and what an RPC thread is doing.
Object == [events : Seq(Event), pollStart : Nat, kind : {"block", "pending", "log"},
           onNewBlock : BOOLEAN, onPendingTx : BOOLEAN]

Task == [at : {"idle", "resolveFrom", "resolveTo", "resolveBest", "history", "poll",
               "uninstall"},
         id : {0} \union Ids, once : BOOLEAN, next : Int, answer : Seq(Event)]

\* Types.  The table and the iteration only name filters that exist, and the
\* two bounded stores (the events of a filter, the pending receipts) keep
\* within their limits.
TypeOK ==
  /\ best \in 0 .. BlockBound
  /\ queue \in Seq(ListenerEvent)
  /\ receipts \in Seq(Tx) /\ Len(receipts) <= ReceiptLimit
  /\ filters \in Seq(Object)
  /\ \A id \in Ids : /\ Len(filters[id].events) <= MaxEventCount
                     /\ filters[id].pollStart <= Len(filters[id].events)
  /\ installed \subseteq Ids
  /\ walk \in Walk \union {None} /\ (Walking => walk.todo \subseteq Ids)
  /\ task \in [Client -> Task]
  /\ Len(reported) = Len(filters) /\ Len(origin) = Len(filters)

HistoryLength(id) ==
  IF origin[id].last < origin[id].first THEN 0
  ELSE origin[id].last - origin[id].first + 1

TimesIn(s, x) == Cardinality({i \in DOMAIN s : s[i] = x})

Occurrences(id, event) == TimesIn(reported[id], event)

\* The walk for block n is over, or has at least left filter id behind.
Handled(id, n) ==
  /\ n <= dispatched
  /\ ~(Walking /\ walk.event = BlockArrived(n) /\ id \in walk.todo)

TakesBlocks(id) ==
  /\ id \in installed
  /\ origin[id].armedAt # -1
  /\ filters[id].kind = "block" \/ filters[id].onNewBlock

\* How often a filter that takes new blocks has reported a block, exactly:
\* once for the history that eth_newFilter added, and once for the listener
\* if the block's turn came after the filter was armed and the walk was not
\* cut short by a change of the table.  So a block is missed only between
\* the end of the history and the arming of the filter or in a cut walk, and
\* is reported twice only if it was history before it was the listener's turn.
ExactDelivery ==
  \A id \in Ids : TakesBlocks(id) =>
    \A n \in 1 .. best : Handled(id, n) =>
      Occurrences(id, BlockEvent(n)) =
        (IF n \in origin[id].first .. origin[id].last THEN 1 ELSE 0) +
        (IF n > origin[id].armedAt /\ <<id, n>> \notin cut THEN 1 ELSE 0)

\* A filter reports the history in ascending order and after it the new
\* blocks in ascending order; the two may overlap, never interleave.
HistoryThenNews ==
  \A id \in Ids : \A i, j \in DOMAIN reported[id] :
    LET early == reported[id][i]
        late  == reported[id][j]
    IN  /\ i < j
        /\ early.type = "block" /\ late.type = "block"
        /\ early.ref >= late.ref
        => i <= HistoryLength(id) /\ j > HistoryLength(id)

\* The logs of first .. last that a filter holds: the newest MAX_EVENT_COUNT.
NewestLogs(first, last) ==
  LET start == IF last - first + 1 > MaxEventCount THEN last - MaxEventCount + 1 ELSE first
  IN  [i \in 1 .. last - start + 1 |-> BlockEvent(start + i - 1)]

\* A request whose filter takes no live events names its last block.
IsClosed(r) == ~WantsNewBlocks(r) /\ ~WantsPending(r)

NumberOf(id) == IF id.tag = "earliest" THEN 0 ELSE id.number

\* What eth_getLogs answers to a request that takes no live events, whatever
\* the node and the other clients do meanwhile, in terms of the request and
\* of the chain when it was made.  If the last block it names was there, the
\* answer is all of that range and nothing else: each block once, in order,
\* the newest MAX_EVENT_COUNT of them if there are more.  If not, the answer
\* ends at some block from the best one of then on: it leaves out nothing that
\* was there, but it may go beyond the last block the request names.  It is
\* empty only for want of a first block.
ClosedRangeAnswer ==
  \A c \in Client :
    LET answer == task[c].answer
        o      == origin[task[c].id]
        from   == FromBlock(o.request)
        to     == ToBlock(o.request)
    IN  task[c].at = "uninstall" /\ IsClosed(o.request) =>
          \/ answer = <<>> /\ (from = None \/ NumberOf(from) > o.askedAt)
          \/ /\ from # None
             /\ \E last \in 0 .. best :
                  /\ IF NumberOf(to) <= o.askedAt THEN last = NumberOf(to) ELSE last >= o.askedAt
                  /\ answer = NewestLogs(NumberOf(from), last)

\* What a client is told of blocks is complete, in order and within bounds: the
\* answers of eth_getFilterChanges and eth_getLogs taken together.
AnswersInOrder == TypeOK /\ HistoryThenNews /\ ClosedRangeAnswer

\* A transaction that was included in a block never has a pending receipt:
\* ethj_getTransactionReceipt then answers from the chain.  One transaction
\* has one receipt.
ReceiptsArePending ==
  /\ \A i \in DOMAIN receipts : lastUpdate[receipts[i]] \in {"PENDING", "DROPPED"}
  /\ IsInjective(receipts)

\* Transactions the listener has been told of.
Updated == {tx \in Tx : lastUpdate[tx] # None}

\* The map forgets a receipt only for want of room: while the listener was told
\* of no more transactions than the map holds, no pending or dropped one is
\* missing from it.
RecentReceiptsKept ==
  Cardinality(Updated) <= ReceiptLimit
    => \A tx \in Tx : lastUpdate[tx] \in {"PENDING", "DROPPED"} => Contains(receipts, tx)

\* ethj_getTransactionReceipt finds a pending receipt just for the transactions
\* that are pending, and for the recent ones of them, within the map's limit.
ReceiptsTracked == TypeOK /\ ReceiptsArePending /\ RecentReceiptsKept

\* Every imported block gets its turn: a walk cut short by a change of the
\* table costs that one event for the rest of the table, never the listener.
EveryBlockDispatched ==
  \A n \in 1 .. BlockBound : best >= n ~> dispatched >= n
=============================================================================
