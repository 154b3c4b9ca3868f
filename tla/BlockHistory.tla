---------------------------- MODULE BlockHistory ----------------------------
(***************************************************************************)
(* The last blocks BlockchainInfoService keeps: one queue for the hash     *)
(* rate and one for the block tree of the pages.  Both are concurrent      *)
(* queues filled by addBlock, which no lock protects.  At start two        *)
(* threads call it: the listener thread, for blocks that arrive, and the   *)
(* thread that runs postConstruct, which registers the listener first and  *)
(* then replays the history.                                               *)
(***************************************************************************)
EXTENDS Integers, Sequences, FiniteSets

CONSTANTS
  HashRateLimit,  \* BLOCK_COUNT_FOR_HASH_RATE: 100 in the code
  ClientLimit,    \* KEEP_BLOCKS_FOR_CLIENT: 50 in the code
  StoredBest,     \* best block of the chain when the program starts
  BlockBound      \* bound: number of the last block imported

ASSUME HistoryAssumption ==
  /\ {HashRateLimit, ClientLimit} \subseteq Nat \ {0}
  /\ {StoredBest, BlockBound} \subseteq Nat

VARIABLES
  best,                   \* best block of the chain
  queue,                  \* blocks the listener has yet to be told of
  lastBlocksForHashRate,
  lastBlocksForClient,
  start,                  \* postConstruct: [at, next, last]
  adding,                 \* per thread: [at, block] in addBlock

  \* History.
  late,                   \* live blocks added after the replay
  early                   \* was a block imported while postConstruct replayed?

queueVars == <<lastBlocksForHashRate, lastBlocksForClient>>
historyVars == <<late, early>>
vars == <<best, queue, queueVars, start, adding, historyVars>>

Starter  == "main"
Listener == "listener"
Thread == {Starter, Listener}

Larger(a, b) == IF a >= b THEN a ELSE b

Idle == [at |-> "idle", block |-> 0]
Ready(t) == adding[t].at = "idle"
Goto(t, place) == adding' = [adding EXCEPT ![t].at = place]
Call(t, n) == adding' = [adding EXCEPT ![t] = [at |-> "hashRate", block |-> n]]

\* Mutant of Dropped: the newest element goes.
DroppedLast(q) == IF q = <<>> THEN q ELSE SubSeq(q, 1, Len(q) - 1)

\* Queue.poll(): null, and nothing done, if the queue is empty.
Dropped(q) == IF q = <<>> THEN q ELSE Tail(q)

Init ==
  /\ best = StoredBest
  /\ queue = <<>>
  /\ lastBlocksForHashRate = <<>>
  /\ lastBlocksForClient = <<>>
  /\ start = [at |-> "listen", next |-> 0, last |-> 0]
  /\ adding = [t \in Thread |-> Idle]
  /\ late = 0
  /\ early = FALSE

-----------------------------------------------------------------------------
\* The node.  It tells the listeners that are registered by then.

ImportBlock ==
  /\ best < BlockBound
  /\ best' = best + 1
  /\ queue' = IF start.at = "listen" THEN queue ELSE Append(queue, best + 1)
  /\ early' = (early \/ start.at \in {"read", "replay"})
  /\ UNCHANGED <<queueVars, start, adding, late>>

\* onBlock of the listener.
OnBlock ==
  /\ queue # <<>>
  /\ Ready(Listener)
  /\ Call(Listener, Head(queue))
  /\ queue' = Tail(queue)
  /\ UNCHANGED <<best, queueVars, start, historyVars>>

-----------------------------------------------------------------------------
\* postConstruct.

AddListener ==
  /\ start.at = "listen"
  /\ start' = [start EXCEPT !.at = "read"]
  /\ UNCHANGED <<best, queue, queueVars, adding, historyVars>>

\* The replay starts HashRateLimit or ClientLimit blocks before the last one,
\* whichever is more.
FirstReplayed(last) == Larger(0, last - Larger(HashRateLimit, ClientLimit))

ReadBest ==
  /\ start.at = "read"
  /\ start' = [at |-> "replay", last |-> best, next |-> FirstReplayed(best)]
  /\ UNCHANGED <<best, queue, queueVars, adding, historyVars>>

ReplayBlock ==
  /\ start.at = "replay"
  /\ start.next <= start.last
  /\ Ready(Starter)
  /\ Call(Starter, start.next)
  /\ start' = [start EXCEPT !.next = @ + 1]
  /\ UNCHANGED <<best, queue, queueVars, historyVars>>

ReplayDone ==
  /\ start.at = "replay"
  /\ start.next > start.last
  /\ Ready(Starter)
  /\ start' = [start EXCEPT !.at = "done"]
  /\ UNCHANGED <<best, queue, queueVars, adding, historyVars>>

-----------------------------------------------------------------------------
\* addBlock, one access to a queue at a time.

AddForHashRate(t) ==
  /\ adding[t].at = "hashRate"
  /\ lastBlocksForHashRate' = Append(lastBlocksForHashRate, adding[t].block)
  /\ Goto(t, "checkHashRate")
  /\ UNCHANGED <<best, queue, lastBlocksForClient, start, historyVars>>

HashRateFull == Len(lastBlocksForHashRate) > HashRateLimit

CheckHashRate(t) ==
  /\ adding[t].at = "checkHashRate"
  /\ Goto(t, IF HashRateFull THEN "trimHashRate" ELSE "checkClient")
  /\ UNCHANGED <<best, queue, queueVars, start, historyVars>>

TrimHashRate(t) ==
  /\ adding[t].at = "trimHashRate"
  /\ lastBlocksForHashRate' = Dropped(lastBlocksForHashRate)
  /\ Goto(t, "checkClient")
  /\ UNCHANGED <<best, queue, lastBlocksForClient, start, historyVars>>

\* Mutant of ClientFull: every block replaces one.
AlwaysFull == TRUE

\* Compared before the block is added, so the queue holds one block more
\* than KEEP_BLOCKS_FOR_CLIENT.
ClientFull == Len(lastBlocksForClient) > ClientLimit

CheckClient(t) ==
  /\ adding[t].at = "checkClient"
  /\ Goto(t, IF ClientFull THEN "trimClient" ELSE "addClient")
  /\ UNCHANGED <<best, queue, queueVars, start, historyVars>>

TrimClient(t) ==
  /\ adding[t].at = "trimClient"
  /\ lastBlocksForClient' = Dropped(lastBlocksForClient)
  /\ Goto(t, "addClient")
  /\ UNCHANGED <<best, queue, lastBlocksForHashRate, start, historyVars>>

\* The block is appended and sent to the pages.
AddForClient(t) ==
  /\ adding[t].at = "addClient"
  /\ lastBlocksForClient' = Append(lastBlocksForClient, adding[t].block)
  /\ adding' = [adding EXCEPT ![t] = Idle]
  /\ late' = IF t = Listener /\ start.at = "done" THEN late + 1 ELSE late
  /\ UNCHANGED <<best, queue, lastBlocksForHashRate, start, early>>

-----------------------------------------------------------------------------
addBlock(t) ==
  \/ AddForHashRate(t) \/ CheckHashRate(t) \/ TrimHashRate(t)
  \/ CheckClient(t) \/ TrimClient(t) \/ AddForClient(t)

postConstruct == AddListener \/ ReadBest \/ ReplayBlock \/ ReplayDone

Next ==
  \/ ImportBlock
  \/ OnBlock
  \/ postConstruct
  \/ \E t \in Thread : addBlock(t)

Spec == Init /\ [][Next]_vars

-----------------------------------------------------------------------------
\* Properties.

Place == {"idle", "hashRate", "checkHashRate", "trimHashRate", "checkClient",
          "trimClient", "addClient"}

\* Types.  Blocks are never made up: every queue holds numbers of the chain.
TypeOK ==
  /\ best \in 0 .. Larger(StoredBest, BlockBound)
  /\ queue \in Seq(1 .. best)
  /\ lastBlocksForHashRate \in Seq(0 .. best)
  /\ lastBlocksForClient \in Seq(0 .. best)
  /\ start \in [at : {"listen", "read", "replay", "done"}, next : Nat, last : 0 .. best]
  /\ adding \in [Thread -> [at : Place, block : 0 .. best]]

Quiet == \A t \in Thread : Ready(t)

\* The queues stay bounded although the limits are compared and enforced in
\* separate steps by two threads: between calls the hash rate queue is within
\* its limit, and the client queue at most one above it per thread.
QueuesBounded ==
  /\ Quiet => Len(lastBlocksForHashRate) <= HashRateLimit
  /\ Len(lastBlocksForHashRate) <= HashRateLimit + Cardinality(Thread)
  /\ Len(lastBlocksForClient) <= ClientLimit + Cardinality(Thread)

Ascending(q) == \A i \in 1 .. Len(q) - 1 : q[i + 1] = q[i] + 1

\* What a start with a live node leaves behind heals: once the client queue
\* has been filled by the listener alone, it is the newest blocks without a
\* gap or a repetition, and as many as a quiet start would keep.
HealsAfterStart ==
  Quiet /\ late > ClientLimit + 1 =>
    /\ Ascending(lastBlocksForClient)
    /\ Len(lastBlocksForClient) > ClientLimit
    /\ queue = <<>> => lastBlocksForClient[Len(lastBlocksForClient)] = best

\* After a start that no block interrupts, and with every event handled, both
\* queues are the newest blocks of the chain without a gap.
NewestBlocksKept ==
  start.at = "done" /\ ~early /\ Quiet /\ queue = <<>> =>
    /\ Ascending(lastBlocksForClient)
    /\ lastBlocksForClient[Len(lastBlocksForClient)] = best
    /\ Ascending(lastBlocksForHashRate)
    /\ lastBlocksForHashRate[Len(lastBlocksForHashRate)] = best

\* addBlock keeps both queues within their limits, and what they hold is the
\* newest blocks of the chain.
NewestWithinLimits == TypeOK /\ QueuesBounded /\ NewestBlocksKept
=============================================================================
