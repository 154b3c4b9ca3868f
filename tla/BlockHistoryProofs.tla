------------------------- MODULE BlockHistoryProofs -------------------------
(***************************************************************************)
(* The properties of BlockHistory for any limits, any stored chain and any *)
(* number of blocks.                                                       *)
(*                                                                         *)
(* None of them is inductive.  Bounds counts the threads that may still    *)
(* add or trim; Undisturbed follows the one thread that adds blocks while  *)
(* no import has disturbed the start; Healing follows the listener once    *)
(* the start is done, whatever the start left in the queues.               *)
(***************************************************************************)
EXTENDS BlockHistory, FiniteSetTheorems, SequenceTheorems, TLAPS

Types == TypeOK /\ late \in Nat /\ early \in BOOLEAN

\* A thread that has added and not trimmed yet, or made room and not added yet.
MayTrim(t) == IF adding[t].at \in {"checkHashRate", "trimHashRate"} THEN 1 ELSE 0
MayAdd(t)  == IF adding[t].at = "addClient" THEN 1 ELSE 0

Bounds ==
  /\ Len(lastBlocksForHashRate) <= HashRateLimit + MayTrim(Starter) + MayTrim(Listener)
  /\ Len(lastBlocksForClient) + MayAdd(Starter) + MayAdd(Listener) <= ClientLimit + 2

\* The last m elements of q are consecutive and end with block n.
Run(q, m, n) == \A k \in 1..Len(q) : k > Len(q) - m => q[k] = n - Len(q) + k

\* The last block the listener has been told of.
Told == best - Len(queue)

\* Events come in order; the listener is told nothing before postConstruct
\* registers it, and postConstruct adds blocks only while it replays.
Events ==
  /\ \A i \in 1..Len(queue) : queue[i] = Told + i
  /\ ~Ready(Listener) => adding[Listener].block = Told
  /\ ~Ready(Starter) => adding[Starter].block = start.next - 1
  /\ start.at = "listen" => queue = <<>> /\ Ready(Listener)
  /\ start.at # "replay" => Ready(Starter)

\* The block of the call in flight is in the queues from its place in addBlock on.
Before(t, places) == IF adding[t].at \in places THEN 1 ELSE 0
InHashRate(t) == Before(t, {"hashRate"})
InClient(t)   == Before(t, Place \ {"idle"})

\* Once the start is done the listener has added `late` blocks in a row, and
\* makes room only in a full queue.
Healing ==
  /\ late > 0 => start.at = "done"
  /\ Run(lastBlocksForClient, late, Told - InClient(Listener))
  /\ \/ Len(lastBlocksForClient) >= late
     \/ Len(lastBlocksForClient) > ClientLimit - MayAdd(Listener)
  /\ late > 0 /\ adding[Listener].at = "trimClient" => Len(lastBlocksForClient) > ClientLimit

\* While no import disturbs the start one thread adds blocks at a time, and both
\* queues are the newest of them.
Adder   == IF start.at = "replay" THEN Starter ELSE Listener
Entered == IF start.at = "replay" THEN start.next - 1 ELSE Told

Undisturbed ==
  /\ start.at \in {"listen", "read", "replay"} => queue = <<>> /\ Ready(Listener)
  /\ start.at \in {"listen", "read"} => lastBlocksForHashRate = <<>> /\ lastBlocksForClient = <<>>
  /\ start.at = "replay" =>
       /\ start.last = best /\ start.next <= best + 1
       /\ start.next > best /\ Ready(Starter) =>
            lastBlocksForHashRate # <<>> /\ lastBlocksForClient # <<>>
  /\ start.at = "done" => lastBlocksForHashRate # <<>> /\ lastBlocksForClient # <<>>
  /\ ~Ready(Adder) /\ adding[Adder].at # "hashRate" => lastBlocksForHashRate # <<>>
  /\ adding[Adder].at = "trimHashRate" => Len(lastBlocksForHashRate) > HashRateLimit
  /\ adding[Adder].at = "trimClient" => Len(lastBlocksForClient) > ClientLimit
  /\ Run(lastBlocksForHashRate, Len(lastBlocksForHashRate), Entered - InHashRate(Adder))
  /\ Run(lastBlocksForClient, Len(lastBlocksForClient), Entered - InClient(Adder))

IInv == Types /\ Bounds /\ Events /\ Healing /\ (~early => Undisturbed)

-----------------------------------------------------------------------------
\* Queues.

LEMMA WiderSeq ==
  ASSUME NEW S, NEW T, S \subseteq T, NEW q \in Seq(S)
  PROVE  q \in Seq(T)
  OBVIOUS

LEMMA AppendFacts ==
  ASSUME NEW S, NEW q \in Seq(S), NEW n \in S
  PROVE  /\ Append(q, n) \in Seq(S)
         /\ Len(Append(q, n)) = Len(q) + 1
         /\ \A k \in 1..Len(q) : Append(q, n)[k] = q[k]
         /\ Append(q, n)[Len(q) + 1] = n
  OBVIOUS

LEMMA EmptyIffNoLen ==
  ASSUME NEW S, NEW q \in Seq(S)
  PROVE  Len(q) \in Nat /\ (q = <<>> <=> Len(q) = 0)
  OBVIOUS

LEMMA DroppedFacts ==
  ASSUME NEW S, NEW q \in Seq(S)
  PROVE  /\ Dropped(q) \in Seq(S)
         /\ Len(q) > 0 => Len(Dropped(q)) = Len(q) - 1
         /\ Len(q) = 0 => Len(Dropped(q)) = 0
         /\ \A k \in 1..Len(Dropped(q)) : k + 1 \in 1..Len(q) /\ Dropped(q)[k] = q[k + 1]
<1>1. CASE q = <<>>
  BY <1>1 DEF Dropped
<1>2. CASE q # <<>>
  BY <1>2 DEF Dropped
<1> QED
  BY <1>1, <1>2

\* Appending the next block makes the run longer.
LEMMA RunAppend ==
  ASSUME NEW q \in Seq(Nat), NEW m \in Nat, NEW n \in Nat, Run(q, m, n - 1)
  PROVE  Run(Append(q, n), m + 1, n)
  BY AppendFacts DEF Run

\* Dropping the oldest block leaves the run as it is.
LEMMA RunDropped ==
  ASSUME NEW q \in Seq(Nat), NEW m \in Nat, NEW n \in Int, Run(q, m, n)
  PROVE  Run(Dropped(q), m, n)
<1> DEFINE d == Dropped(q)
<1>1. /\ Len(q) \in Nat
      /\ Len(d) = IF Len(q) > 0 THEN Len(q) - 1 ELSE 0
      /\ \A k \in 1..Len(d) : k + 1 \in 1..Len(q) /\ d[k] = q[k + 1]
  BY DroppedFacts, EmptyIffNoLen
<1> HIDE DEF d
<1>2. ASSUME NEW k \in 1..Len(d), k > Len(d) - m PROVE d[k] = n - Len(d) + k
  <2>1. Len(q) > 0 /\ Len(d) = Len(q) - 1
    BY <1>1, <1>2
  <2>2. k + 1 \in 1..Len(q) /\ k + 1 > Len(q) - m /\ d[k] = q[k + 1]
    BY <1>1, <1>2, <2>1
  <2> QED
    BY <2>1, <2>2 DEF Run
<1> QED
  BY <1>2 DEF Run, d

\* A run over the whole queue.
LEMMA RunWhole ==
  ASSUME NEW q \in Seq(Nat), NEW m \in Nat, NEW n \in Int, m >= Len(q), Run(q, m, n)
  PROVE  Run(q, Len(q), n)
  BY EmptyIffNoLen DEF Run

-----------------------------------------------------------------------------
\* Types.

LEMMA FirstReplayedType ==
  ASSUME NEW n \in Nat
  PROVE  FirstReplayed(n) \in Nat /\ FirstReplayed(n) <= n
  BY HistoryAssumption DEF FirstReplayed, Larger

LEMMA TypesStep == Types /\ Events /\ [Next]_vars => Types'
<1> SUFFICES ASSUME Types, Events, [Next]_vars PROVE Types'
  OBVIOUS
<1> USE DEF Types, TypeOK, queueVars, historyVars
<1>0. best \in Nat
  BY HistoryAssumption DEF Larger
<1>1. CASE ImportBlock
  <2>1. best' = best + 1 /\ best' \in 0 .. Larger(StoredBest, BlockBound)
    BY <1>1, HistoryAssumption DEF ImportBlock, Larger
  <2>2. queue' \in Seq(1 .. best')
    <3>1. queue \in Seq(1 .. best')
      BY <1>0, <2>1, WiderSeq, 1 .. best \subseteq 1 .. best'
    <3>2. best + 1 \in 1 .. best'
      BY <1>0, <2>1
    <3> QED
      BY <1>1, <3>1, <3>2, AppendFacts DEF ImportBlock
  <2>3. 0 .. best \subseteq 0 .. best'
    BY <1>0, <2>1
  <2>4. lastBlocksForHashRate' \in Seq(0 .. best') /\ lastBlocksForClient' \in Seq(0 .. best')
    BY <1>1, <2>3, WiderSeq DEF ImportBlock
  <2>5. start' \in [at : {"listen", "read", "replay", "done"}, next : Nat, last : 0 .. best']
    BY <1>1, <2>3 DEF ImportBlock
  <2>6. adding' \in [Thread -> [at : Place, block : 0 .. best']]
    BY <1>1, <2>3 DEF ImportBlock
  <2> QED
    BY <1>1, <2>1, <2>2, <2>4, <2>5, <2>6 DEF ImportBlock
<1>2. CASE OnBlock
  <2>1. Head(queue) \in 0 .. best /\ queue' \in Seq(1 .. best)
    BY <1>2 DEF OnBlock
  <2> QED
    BY <1>2, <2>1 DEF OnBlock, Call, Place
<1>3. CASE postConstruct
  <2>1. CASE AddListener
    BY <2>1 DEF AddListener
  <2>2. CASE ReadBest
    <3>1. FirstReplayed(best) \in Nat /\ best \in 0 .. best
      BY <1>0, FirstReplayedType
    <3> QED
      BY <2>2, <3>1 DEF ReadBest
  <2>3. CASE ReplayBlock
    <3>1. start.next \in 0 .. best
      BY <1>0, <2>3 DEF ReplayBlock
    <3>2. start' \in [at : {"listen", "read", "replay", "done"}, next : Nat, last : 0 .. best]
      BY <1>0, <2>3 DEF ReplayBlock
    <3>3. adding' \in [Thread -> [at : Place, block : 0 .. best]]
      BY <2>3, <3>1 DEF ReplayBlock, Call, Place
    <3> QED
      BY <2>3, <3>2, <3>3 DEF ReplayBlock
  <2>4. CASE ReplayDone
    BY <2>4 DEF ReplayDone
  <2> QED
    BY <1>3, <2>1, <2>2, <2>3, <2>4 DEF postConstruct
<1>4. ASSUME NEW t \in Thread, addBlock(t) PROVE Types'
  <2>1. adding[t].block \in 0 .. best /\ adding[t].at \in Place
    OBVIOUS
  <2>2. CASE AddForHashRate(t)
    <3>1. lastBlocksForHashRate' \in Seq(0 .. best)
      BY <2>1, <2>2, AppendFacts DEF AddForHashRate
    <3> QED
      BY <2>2, <3>1 DEF AddForHashRate, Goto, Place
  <2>3. CASE CheckHashRate(t)
    BY <2>3 DEF CheckHashRate, Goto, Place
  <2>4. CASE TrimHashRate(t)
    <3>1. lastBlocksForHashRate' \in Seq(0 .. best)
      BY <2>4, DroppedFacts DEF TrimHashRate
    <3> QED
      BY <2>4, <3>1 DEF TrimHashRate, Goto, Place
  <2>5. CASE CheckClient(t)
    BY <2>5 DEF CheckClient, Goto, Place
  <2>6. CASE TrimClient(t)
    <3>1. lastBlocksForClient' \in Seq(0 .. best)
      BY <2>6, DroppedFacts DEF TrimClient
    <3> QED
      BY <2>6, <3>1 DEF TrimClient, Goto, Place
  <2>7. CASE AddForClient(t)
    <3>1. lastBlocksForClient' \in Seq(0 .. best)
      BY <2>1, <2>7, AppendFacts DEF AddForClient
    <3> QED
      BY <1>0, <2>7, <3>1 DEF AddForClient, Idle, Place
  <2> QED
    BY <1>4, <2>2, <2>3, <2>4, <2>5, <2>6, <2>7 DEF addBlock
<1>5. CASE UNCHANGED vars
  BY <1>5 DEF vars
<1> QED
  BY <1>1, <1>2, <1>3, <1>4, <1>5 DEF Next

-----------------------------------------------------------------------------
\* A step of addBlock moves one thread.

Other(t) == IF t = Starter THEN Listener ELSE Starter

LEMMA TwoThreads ==
  /\ Thread = {Starter, Listener} /\ Starter # Listener
  /\ \A t \in Thread : Other(t) \in Thread /\ Other(t) # t
  BY DEF Thread, Starter, Listener, Other

LEMMA Moves ==
  ASSUME Types, NEW t \in Thread
  PROVE  /\ \A place : Goto(t, place) =>
                adding'[t].at = place /\ adding'[t].block = adding[t].block
                /\ adding'[Other(t)] = adding[Other(t)]
         /\ \A n : Call(t, n) =>
                adding'[t].at = "hashRate" /\ adding'[t].block = n
                /\ adding'[Other(t)] = adding[Other(t)]
         /\ AddForClient(t) =>
                adding[t].at = "addClient" /\ adding'[t].at = "idle"
                /\ adding'[Other(t)] = adding[Other(t)]
  BY TwoThreads DEF Goto, Call, AddForClient, Idle, Types, TypeOK

\* What the queues become, in numbers.
LEMMA Lengths ==
  ASSUME Types
  PROVE  /\ {Len(queue), Len(lastBlocksForHashRate), Len(lastBlocksForClient)} \subseteq Nat
         /\ \A n \in 0 .. best :
              /\ Len(Append(lastBlocksForHashRate, n)) = Len(lastBlocksForHashRate) + 1
              /\ Len(Append(lastBlocksForClient, n)) = Len(lastBlocksForClient) + 1
         /\ \A q \in {lastBlocksForHashRate, lastBlocksForClient} :
              Len(Dropped(q)) = IF Len(q) > 0 THEN Len(q) - 1 ELSE 0
  BY AppendFacts, DroppedFacts, EmptyIffNoLen DEF Types, TypeOK

LEMMA BoundsStep == Types /\ Bounds /\ [Next]_vars => Bounds'
<1> SUFFICES ASSUME Types, Bounds, [Next]_vars PROVE Bounds'
  OBVIOUS
<1> USE DEF queueVars, historyVars
<1>0. {HashRateLimit, ClientLimit, Len(lastBlocksForHashRate), Len(lastBlocksForClient)} \subseteq Nat
  BY HistoryAssumption, Lengths
<1>1. CASE ImportBlock \/ OnBlock \/ postConstruct
  <2>1. UNCHANGED queueVars
    BY <1>1 DEF ImportBlock, OnBlock, postConstruct, AddListener, ReadBest, ReplayBlock, ReplayDone
  <2>2. \/ UNCHANGED adding
        \/ \E t \in Thread : Ready(t) /\ \E n : Call(t, n)
    BY <1>1, TwoThreads DEF ImportBlock, OnBlock, postConstruct, AddListener, ReadBest,
                            ReplayBlock, ReplayDone
  <2>3. \A t \in Thread : MayTrim(t)' = MayTrim(t) /\ MayAdd(t)' = MayAdd(t)
    BY <2>2, Moves, TwoThreads DEF MayTrim, MayAdd, Ready, Other
  <2> QED
    BY <2>1, <2>3, TwoThreads DEF Bounds
<1>2. ASSUME NEW t \in Thread, addBlock(t) PROVE Bounds'
  <2> DEFINE hr == Len(lastBlocksForHashRate)
             c  == Len(lastBlocksForClient)
             o  == Other(t)
  <2>1. /\ {MayTrim(t), MayTrim(o), MayAdd(t), MayAdd(o)} \subseteq {0, 1}
        /\ hr <= HashRateLimit + MayTrim(t) + MayTrim(o)
        /\ c + MayAdd(t) + MayAdd(o) <= ClientLimit + 2
    <3>1. \A u : MayTrim(u) \in {0, 1} /\ MayAdd(u) \in {0, 1}
      BY DEF MayTrim, MayAdd
    <3> QED
      BY <1>0, <3>1, TwoThreads DEF Bounds, Other
  <2>2. adding'[o] = adding[o]
    BY <1>2, Moves DEF addBlock, AddForHashRate, CheckHashRate, TrimHashRate, CheckClient,
                       TrimClient
  <2>3. MayTrim(o)' = MayTrim(o) /\ MayAdd(o)' = MayAdd(o)
    BY <2>2 DEF MayTrim, MayAdd
  <2>4. /\ {MayTrim(t)', MayAdd(t)'} \subseteq {0, 1}
        /\ hr' <= HashRateLimit + MayTrim(t)' + MayTrim(o)
        /\ c' + MayAdd(t)' + MayAdd(o) <= ClientLimit + 2
    <3>1. adding[t].block \in 0 .. best
      BY DEF Types, TypeOK
    <3>2. CASE AddForHashRate(t)
      <4>1. /\ hr' = hr + 1 /\ c' = c
            /\ MayTrim(t) = 0 /\ MayTrim(t)' = 1 /\ MayAdd(t) = 0 /\ MayAdd(t)' = 0
        BY <3>1, <3>2, Moves, Lengths DEF AddForHashRate, MayTrim, MayAdd
      <4> QED
        BY <1>0, <2>1, <4>1
    <3>3. CASE CheckHashRate(t)
      <4>1. /\ hr' = hr /\ c' = c /\ MayAdd(t) = 0 /\ MayAdd(t)' = 0
            /\ IF hr > HashRateLimit THEN MayTrim(t) = 1 /\ MayTrim(t)' = 1 ELSE MayTrim(t)' = 0
        BY <3>3, Moves DEF CheckHashRate, HashRateFull, MayTrim, MayAdd
      <4> QED
        BY <1>0, <2>1, <4>1
    <3>4. CASE TrimHashRate(t)
      <4>1. /\ hr' = IF hr > 0 THEN hr - 1 ELSE 0
            /\ c' = c
            /\ MayTrim(t) = 1 /\ MayTrim(t)' = 0 /\ MayAdd(t) = 0 /\ MayAdd(t)' = 0
        BY <3>4, Moves, Lengths DEF TrimHashRate, MayTrim, MayAdd
      <4> QED
        BY <1>0, <2>1, <4>1
    <3>5. CASE CheckClient(t)
      <4>1. /\ hr' = hr /\ c' = c /\ MayTrim(t) = 0 /\ MayTrim(t)' = 0 /\ MayAdd(t) = 0
            /\ IF c > ClientLimit THEN MayAdd(t)' = 0 ELSE MayAdd(t)' = 1
        BY <3>5, Moves DEF CheckClient, ClientFull, MayTrim, MayAdd
      <4> QED
        BY <1>0, <2>1, <4>1
    <3>6. CASE TrimClient(t)
      <4>1. /\ c' = IF c > 0 THEN c - 1 ELSE 0
            /\ hr' = hr
            /\ MayTrim(t) = 0 /\ MayTrim(t)' = 0 /\ MayAdd(t) = 0 /\ MayAdd(t)' = 1
        BY <3>6, Moves, Lengths DEF TrimClient, MayTrim, MayAdd
      <4> QED
        BY <1>0, <2>1, <4>1, HistoryAssumption
    <3>7. CASE AddForClient(t)
      <4>1. c' = c + 1 /\ hr' = hr
        BY <3>1, <3>7, Lengths DEF AddForClient
      <4>2. adding[t].at = "addClient" /\ adding'[t].at = "idle"
        BY <3>7, Moves
      <4>3. MayTrim(t) = 0 /\ MayTrim(t)' = 0 /\ MayAdd(t) = 1 /\ MayAdd(t)' = 0
        BY <4>2 DEF MayTrim, MayAdd
      <4> QED
        BY <1>0, <2>1, <4>1, <4>3
    <3> QED
      BY <1>2, <3>2, <3>3, <3>4, <3>5, <3>6, <3>7 DEF addBlock
  <2> QED
    BY <1>0, <2>1, <2>3, <2>4, TwoThreads DEF Bounds, Other
<1>3. CASE UNCHANGED vars
  BY <1>3 DEF vars, Bounds, MayTrim, MayAdd
<1> QED
  BY <1>1, <1>2, <1>3 DEF Next

-----------------------------------------------------------------------------
\* The events, and who adds blocks.

\* addBlock is local to its thread but for the two queues and the count.
LEMMA AddBlockLocal ==
  ASSUME Types, NEW t \in Thread, addBlock(t)
  PROVE  /\ UNCHANGED <<best, queue, start, early>>
         /\ ~Ready(t)
         /\ adding'[Other(t)] = adding[Other(t)]
         /\ ~Ready(t)' => adding'[t].block = adding[t].block
<1>1. UNCHANGED <<best, queue, start, early>> /\ ~Ready(t)
  BY DEF addBlock, AddForHashRate, CheckHashRate, TrimHashRate, CheckClient, TrimClient,
         AddForClient, queueVars, historyVars, Ready
<1>2. CASE AddForClient(t)
  BY <1>1, <1>2, Moves DEF Ready
<1>3. CASE \E place : Goto(t, place)
  BY <1>1, <1>3, Moves DEF Ready
<1> QED
  BY <1>1, <1>2, <1>3 DEF addBlock, AddForHashRate, CheckHashRate, TrimHashRate, CheckClient,
                          TrimClient

LEMMA EventsStep == Types /\ Events /\ [Next]_vars => Events'
<1> SUFFICES ASSUME Types, Events, [Next]_vars PROVE Events'
  OBVIOUS
<1> USE DEF queueVars, historyVars
<1>0. best \in Nat /\ queue \in Seq(Nat) /\ Len(queue) \in Nat /\ Told \in Int
  BY HistoryAssumption, WiderSeq, 1 .. best \subseteq Nat, Lengths DEF Types, TypeOK, Larger, Told
<1>1. CASE ImportBlock
  <2>1. CASE start.at = "listen"
    BY <1>0, <1>1, <2>1 DEF ImportBlock, Events, Told, Ready
  <2>2. CASE start.at # "listen"
    <3>1. /\ Len(queue') = Len(queue) + 1
          /\ \A i \in 1..Len(queue) : queue'[i] = queue[i]
          /\ queue'[Len(queue) + 1] = best + 1
      BY <1>0, <1>1, <2>2, AppendFacts DEF ImportBlock
    <3>2. Told' = Told
      BY <1>0, <1>1, <3>1 DEF ImportBlock, Told
    <3>3. \A i \in 1..Len(queue') : queue'[i] = Told + i
      BY <1>0, <3>1 DEF Events, Told
    <3> QED
      BY <1>1, <2>2, <3>2, <3>3 DEF ImportBlock, Events, Ready
  <2> QED
    BY <2>1, <2>2
<1>2. CASE OnBlock
  <2>1. /\ Len(queue) > 0
        /\ Len(queue') = Len(queue) - 1
        /\ Head(queue) = queue[1]
        /\ \A i \in 1..Len(queue') : queue'[i] = queue[i + 1]
    BY <1>0, <1>2 DEF OnBlock
  <2>2. Told' = Told + 1
    BY <1>0, <1>2, <2>1 DEF OnBlock, Told
  <2>3. \A i \in 1..Len(queue') : queue'[i] = Told' + i
    BY <1>0, <2>1, <2>2 DEF Events
  <2>4. adding'[Listener].block = Told' /\ adding'[Starter] = adding[Starter]
    BY <1>0, <1>2, <2>1, <2>2, Moves, TwoThreads DEF OnBlock, Events, Other
  <2>5. start.at # "listen"
    BY <1>2 DEF OnBlock, Events
  <2> QED
    BY <1>2, <2>3, <2>4, <2>5 DEF OnBlock, Events, Ready
<1>3. CASE postConstruct
  <2>1. CASE AddListener \/ ReadBest \/ ReplayDone
    BY <2>1 DEF AddListener, ReadBest, ReplayDone, Events, Told, Ready, Types, TypeOK
  <2>2. CASE ReplayBlock
    <3>1. adding'[Starter].block = start.next /\ adding'[Listener] = adding[Listener]
      BY <2>2, Moves, TwoThreads DEF ReplayBlock, Other
    <3>2. start'.at = "replay" /\ start'.next = start.next + 1 /\ start.next \in Nat
      BY <2>2 DEF ReplayBlock, Types, TypeOK
    <3>3. start'.next - 1 = start.next
      BY <3>2
    <3> QED
      BY <2>2, <3>1, <3>2, <3>3 DEF ReplayBlock, Events, Told, Ready
  <2> QED
    BY <1>3, <2>1, <2>2 DEF postConstruct
<1>4. ASSUME NEW t \in Thread, addBlock(t) PROVE Events'
  BY <1>4, AddBlockLocal, TwoThreads DEF Events, Told, Ready, Other
<1>5. CASE UNCHANGED vars
  BY <1>5 DEF vars, Events, Told, Ready
<1> QED
  BY <1>1, <1>2, <1>3, <1>4, <1>5 DEF Next

-----------------------------------------------------------------------------
\* The queue of the pages once the start is done.

LEMMA HealingBefore ==
  ASSUME Types', late' = 0
  PROVE  Healing'
<1>1. Len(lastBlocksForClient') \in Nat
  BY EmptyIffNoLen DEF Types, TypeOK
<1> QED
  BY <1>1 DEF Healing, Run

\* A step of the listener in addBlock.
LEMMA HealingAdd ==
  ASSUME Types, Types', Events, Healing, start.at = "done", late' > 0, addBlock(Listener)
  PROVE  Healing'
<1> DEFINE c == lastBlocksForClient
<1> USE DEF queueVars, historyVars
<1>0. /\ ClientLimit \in Nat /\ Len(c) \in Nat /\ late \in Nat /\ c \in Seq(Nat)
      /\ Told \in Nat /\ Told' = Told /\ adding[Listener].block = Told
      /\ ~Ready(Listener) /\ start'.at = "done" /\ InClient(Listener) = 1
  <2>1. UNCHANGED <<best, queue, start>> /\ ~Ready(Listener)
    BY AddBlockLocal, TwoThreads
  <2>2. adding[Listener].block = Told /\ adding[Listener].block \in 0 .. best
        /\ adding[Listener].at \in Place
    BY <2>1, TwoThreads DEF Events, Types, TypeOK
  <2>3. c \in Seq(Nat) /\ late \in Nat
    BY WiderSeq, 0 .. best \subseteq Nat DEF Types, TypeOK
  <2> QED
    BY <2>1, <2>2, <2>3, HistoryAssumption, EmptyIffNoLen DEF Told, InClient, Before, Ready
<1>1. /\ Run(c, late, Told - 1)
      /\ Len(c) >= late \/ Len(c) > ClientLimit - MayAdd(Listener)
      /\ late > 0 /\ adding[Listener].at = "trimClient" => Len(c) > ClientLimit
  BY <1>0 DEF Healing
<1>2. SUFFICES /\ Run(c', late', Told - InClient(Listener)')
               /\ Len(c') >= late' \/ Len(c') > ClientLimit - MayAdd(Listener)'
               /\ adding'[Listener].at = "trimClient" => Len(c') > ClientLimit
  BY <1>0 DEF Healing
<1>3. CASE AddForHashRate(Listener) \/ CheckHashRate(Listener) \/ TrimHashRate(Listener)
  <2>1. /\ adding[Listener].at \notin {"addClient", "trimClient"}
        /\ adding'[Listener].at \in {"checkHashRate", "trimHashRate", "checkClient"}
        /\ UNCHANGED <<c, late>>
    BY <1>3, Moves, TwoThreads DEF AddForHashRate, CheckHashRate, TrimHashRate
  <2>2. MayAdd(Listener) = 0 /\ MayAdd(Listener)' = 0 /\ InClient(Listener)' = 1
    BY <2>1 DEF MayAdd, InClient, Before, Place
  <2> QED
    BY <1>0, <1>1, <2>1, <2>2
<1>4. CASE CheckClient(Listener)
  <2>1. /\ adding[Listener].at = "checkClient"
        /\ adding'[Listener].at = IF Len(c) > ClientLimit THEN "trimClient" ELSE "addClient"
        /\ UNCHANGED <<c, late>>
    BY <1>4, Moves, TwoThreads DEF CheckClient, ClientFull
  <2>2. MayAdd(Listener) = 0 /\ MayAdd(Listener)' \in {0, 1} /\ InClient(Listener)' = 1
    BY <2>1 DEF MayAdd, InClient, Before, Place
  <2> QED
    BY <1>0, <1>1, <2>1, <2>2
<1>5. CASE TrimClient(Listener)
  <2>1. /\ adding[Listener].at = "trimClient" /\ adding'[Listener].at = "addClient"
        /\ c' = Dropped(c) /\ late' = late
    BY <1>5, Moves, TwoThreads DEF TrimClient
  <2>2. MayAdd(Listener)' = 1 /\ InClient(Listener)' = 1
    BY <2>1 DEF MayAdd, InClient, Before, Place
  <2>3. Len(c) > ClientLimit /\ Len(c') = Len(c) - 1
    BY <1>0, <1>1, <2>1, DroppedFacts
  <2>4. Run(c', late, Told - 1)
    BY <1>0, <1>1, <2>1, RunDropped
  <2> QED
    BY <1>0, <2>1, <2>2, <2>3, <2>4
<1>6. CASE AddForClient(Listener)
  <2>1. adding[Listener].at = "addClient" /\ adding'[Listener].at = "idle"
    BY <1>6, Moves, TwoThreads
  <2>2. c' = Append(c, Told) /\ late' = late + 1
    BY <1>0, <1>6, <1>1 DEF AddForClient
  <2>3. MayAdd(Listener) = 1 /\ MayAdd(Listener)' = 0 /\ InClient(Listener)' = 0
    BY <2>1 DEF MayAdd, InClient, Before, Place
  <2>4. Len(c') = Len(c) + 1
    BY <1>0, <2>2, AppendFacts
  <2>5. Run(c', late', Told)
    BY <1>0, <1>1, <2>2, RunAppend
  <2> QED
    BY <1>0, <1>1, <2>1, <2>2, <2>3, <2>4, <2>5
<1> QED
  BY <1>3, <1>4, <1>5, <1>6 DEF addBlock

LEMMA HealingStep == Types /\ Types' /\ Events /\ Healing /\ [Next]_vars => Healing'
<1> SUFFICES ASSUME Types, Types', Events, Healing, [Next]_vars, late' > 0 PROVE Healing'
  BY HealingBefore DEF Types
<1> USE DEF queueVars, historyVars
<1>1. start.at = "done" /\ Ready(Starter)
  <2>1. CASE late > 0
    BY <2>1 DEF Healing, Events
  <2>2. CASE late = 0
    <3>1. \E t \in Thread : AddForClient(t) /\ start.at = "done"
      BY <2>2 DEF Next, ImportBlock, OnBlock, postConstruct, AddListener, ReadBest, ReplayBlock,
                  ReplayDone, addBlock, AddForHashRate, CheckHashRate, TrimHashRate, CheckClient,
                  TrimClient, AddForClient, vars
    <3> QED
      BY <3>1 DEF Events
  <2> QED
    BY <2>1, <2>2 DEF Types
<1>0. best \in Nat /\ Len(queue) \in Nat /\ queue \in Seq(1 .. best)
  BY HistoryAssumption, Lengths DEF Types, TypeOK, Larger
<1>2. CASE ImportBlock
  <2>1. Told' = Told
    <3>1. Len(queue') = Len(queue) + 1 /\ best' = best + 1
      BY <1>0, <1>1, <1>2 DEF ImportBlock
    <3> QED
      BY <1>0, <3>1 DEF Told
  <2> QED
    BY <1>2, <2>1 DEF ImportBlock, Healing, InClient, Before, MayAdd
<1>3. CASE OnBlock
  <2>1. Told' = Told + 1 /\ Told \in Int
    <3>1. Len(queue') = Len(queue) - 1 /\ best' = best
      BY <1>0, <1>3 DEF OnBlock
    <3> QED
      BY <1>0, <3>1 DEF Told
  <2>2. adding[Listener].at = "idle" /\ adding'[Listener].at = "hashRate"
    BY <1>3, Moves, TwoThreads DEF OnBlock, Ready
  <2>3. /\ InClient(Listener) = 0 /\ InClient(Listener)' = 1
        /\ MayAdd(Listener) = 0 /\ MayAdd(Listener)' = 0
    BY <2>2 DEF InClient, Before, MayAdd, Place
  <2>4. Told' - InClient(Listener)' = Told - InClient(Listener)
    BY <2>1, <2>3
  <2> QED
    BY <1>3, <2>2, <2>3, <2>4 DEF OnBlock, Healing
<1>4. CASE postConstruct
  BY <1>1, <1>4 DEF postConstruct, AddListener, ReadBest, ReplayBlock, ReplayDone
<1>5. ASSUME NEW t \in Thread, addBlock(t) PROVE Healing'
  <2>1. t = Listener
    BY <1>1, <1>5, AddBlockLocal, TwoThreads
  <2> QED
    BY <1>1, <1>5, <2>1, HealingAdd
<1>6. CASE UNCHANGED vars
  BY <1>6 DEF vars, Healing, Told, InClient, Before, MayAdd
<1> QED
  BY <1>2, <1>3, <1>4, <1>5, <1>6 DEF Next

-----------------------------------------------------------------------------
\* Both queues while no import disturbs the start.

LEMMA QueueTypes ==
  ASSUME Types
  PROVE  /\ lastBlocksForHashRate \in Seq(Nat) /\ Len(lastBlocksForHashRate) \in Nat
         /\ lastBlocksForClient \in Seq(Nat) /\ Len(lastBlocksForClient) \in Nat
         /\ HashRateLimit \in Nat /\ HashRateLimit > 0
         /\ ClientLimit \in Nat /\ ClientLimit > 0
  BY HistoryAssumption, WiderSeq, EmptyIffNoLen, 0 .. best \subseteq Nat DEF Types, TypeOK

\* A step of the one thread that adds.
LEMMA UndisturbedAdd ==
  ASSUME Types, Events, Undisturbed, addBlock(Adder)
  PROVE  Undisturbed'
<1> DEFINE hr == lastBlocksForHashRate
           c  == lastBlocksForClient
<1> USE DEF queueVars, historyVars
<1>0. /\ Adder \in Thread /\ Adder' = Adder /\ UNCHANGED <<best, queue, start>>
      /\ start.at \in {"replay", "done"} /\ ~Ready(Adder)
      /\ adding'[Other(Adder)] = adding[Other(Adder)]
  <2>1. Adder \in Thread
    BY TwoThreads DEF Adder
  <2>2. UNCHANGED <<best, queue, start>> /\ ~Ready(Adder)
        /\ adding'[Other(Adder)] = adding[Other(Adder)]
    BY <2>1, AddBlockLocal
  <2>3. start.at \in {"replay", "done"}
    BY <2>2 DEF Adder, Undisturbed, Types, TypeOK
  <2> QED
    BY <2>1, <2>2, <2>3 DEF Adder
<1>1. /\ adding[Adder].block = Entered /\ Entered \in Nat /\ Entered' = Entered
      /\ adding[Adder].block \in 0 .. best
  <2>1. adding[Adder].block \in 0 .. best
    BY <1>0 DEF Types, TypeOK
  <2> QED
    BY <1>0, <2>1 DEF Adder, Entered, Events, Told, Types, TypeOK
<1>2. /\ adding[Adder].at # "hashRate" => hr # <<>>
      /\ start.at = "done" => hr # <<>> /\ c # <<>>
      /\ adding[Adder].at = "trimHashRate" => Len(hr) > HashRateLimit
      /\ adding[Adder].at = "trimClient" => Len(c) > ClientLimit
      /\ Run(hr, Len(hr), Entered - InHashRate(Adder))
      /\ Run(c, Len(c), Entered - 1)
  <2>1. InClient(Adder) = 1
    BY <1>0 DEF InClient, Before, Ready, Types, TypeOK
  <2> QED
    BY <1>0, <2>1 DEF Undisturbed
<1>3. SUFFICES /\ adding'[Adder].at \notin {"idle", "hashRate"} => hr' # <<>>
               /\ start.at = "done" \/ adding'[Adder].at = "idle" => hr' # <<>> /\ c' # <<>>
               /\ adding'[Adder].at = "trimHashRate" => Len(hr') > HashRateLimit
               /\ adding'[Adder].at = "trimClient" => Len(c') > ClientLimit
               /\ Run(hr', Len(hr'), Entered - InHashRate(Adder)')
               /\ Run(c', Len(c'), Entered - InClient(Adder)')
  <2>1. start.at = "replay" => queue = <<>> /\ Ready(Listener)' /\ start.last = best
                               /\ start.next <= best + 1 /\ Adder = Starter
    BY <1>0, TwoThreads DEF Undisturbed, Ready, Adder, Other
  <2>2. /\ InHashRate(Adder)' = (IF adding'[Adder].at = "hashRate" THEN 1 ELSE 0)
        /\ InClient(Adder)' = (IF adding'[Adder].at \in Place \ {"idle"} THEN 1 ELSE 0)
    BY <1>0 DEF InHashRate, InClient, Before
  <2> QED
    BY <1>0, <1>1, <1>3, <2>1, <2>2 DEF Undisturbed, Ready, Entered, InHashRate, InClient, Before
<1>4. CASE AddForHashRate(Adder)
  <2>1. adding[Adder].at = "hashRate" /\ adding'[Adder].at = "checkHashRate"
    BY <1>0, <1>4, Moves DEF AddForHashRate
  <2>2. hr' = Append(hr, Entered) /\ c' = c
    BY <1>1, <1>4 DEF AddForHashRate
  <2>3. InHashRate(Adder) = 1 /\ InHashRate(Adder)' = 0 /\ InClient(Adder)' = 1
    BY <1>0, <2>1 DEF InHashRate, InClient, Before, Place
  <2>4. Len(hr') = Len(hr) + 1 /\ hr' # <<>>
    <3>1. hr \in Seq(Nat) /\ Len(hr) \in Nat /\ Entered \in Nat
      BY <1>1, QueueTypes
    <3>2. hr' \in Seq(Nat) /\ Len(hr') = Len(hr) + 1
      BY <2>2, <3>1, AppendFacts
    <3>3. Len(hr') # 0
      BY <3>1, <3>2
    <3> QED
      BY <3>2, <3>3, EmptyIffNoLen
  <2>5. Run(hr', Len(hr'), Entered)
    BY <1>1, <1>2, <2>2, <2>3, <2>4, QueueTypes, RunAppend
  <2> QED
    BY <1>1, <1>2, <2>1, <2>2, <2>3, <2>4, <2>5
<1>5. CASE CheckHashRate(Adder)
  <2>1. /\ adding[Adder].at = "checkHashRate"
        /\ adding'[Adder].at = IF Len(hr) > HashRateLimit THEN "trimHashRate" ELSE "checkClient"
        /\ UNCHANGED <<hr, c>>
    BY <1>0, <1>5, Moves DEF CheckHashRate, HashRateFull
  <2>2. InHashRate(Adder) = 0 /\ InHashRate(Adder)' = 0 /\ InClient(Adder)' = 1
    BY <1>0, <2>1 DEF InHashRate, InClient, Before, Place
  <2> QED
    BY <1>1, <1>2, <2>1, <2>2
<1>6. CASE TrimHashRate(Adder)
  <2>1. /\ adding[Adder].at = "trimHashRate" /\ adding'[Adder].at = "checkClient"
        /\ hr' = Dropped(hr) /\ c' = c
    BY <1>0, <1>6, Moves DEF TrimHashRate
  <2>2. InHashRate(Adder) = 0 /\ InHashRate(Adder)' = 0 /\ InClient(Adder)' = 1
    BY <1>0, <2>1 DEF InHashRate, InClient, Before, Place
  <2>3. Len(hr') = Len(hr) - 1 /\ hr' \in Seq(Nat) /\ Len(hr) > 1
    BY <1>2, <2>1, QueueTypes, DroppedFacts
  <2>4. Run(hr', Len(hr), Entered)
    BY <1>1, <1>2, <2>1, <2>2, QueueTypes, RunDropped
  <2>5. Run(hr', Len(hr'), Entered)
    BY <1>1, <2>3, <2>4, QueueTypes, RunWhole
  <2>6. hr' # <<>>
    BY <2>3, QueueTypes, EmptyIffNoLen
  <2> QED
    BY <1>1, <1>2, <2>1, <2>2, <2>5, <2>6
<1>7. CASE CheckClient(Adder)
  <2>1. /\ adding[Adder].at = "checkClient"
        /\ adding'[Adder].at = IF Len(c) > ClientLimit THEN "trimClient" ELSE "addClient"
        /\ UNCHANGED <<hr, c>>
    BY <1>0, <1>7, Moves DEF CheckClient, ClientFull
  <2>2. InHashRate(Adder) = 0 /\ InHashRate(Adder)' = 0 /\ InClient(Adder)' = 1
    BY <1>0, <2>1 DEF InHashRate, InClient, Before, Place
  <2> QED
    BY <1>1, <1>2, <2>1, <2>2
<1>8. CASE TrimClient(Adder)
  <2>1. /\ adding[Adder].at = "trimClient" /\ adding'[Adder].at = "addClient"
        /\ c' = Dropped(c) /\ hr' = hr
    BY <1>0, <1>8, Moves DEF TrimClient
  <2>2. InHashRate(Adder) = 0 /\ InHashRate(Adder)' = 0 /\ InClient(Adder)' = 1
    BY <1>0, <2>1 DEF InHashRate, InClient, Before, Place
  <2>3. Len(c') = Len(c) - 1 /\ c' \in Seq(Nat) /\ Len(c) > 1
    BY <1>2, <2>1, QueueTypes, DroppedFacts
  <2>4. Run(c', Len(c), Entered - 1)
    BY <1>1, <1>2, <2>1, QueueTypes, RunDropped
  <2>5. Run(c', Len(c'), Entered - 1)
    BY <1>1, <2>3, <2>4, QueueTypes, RunWhole
  <2>6. c' # <<>>
    BY <2>3, QueueTypes, EmptyIffNoLen
  <2> QED
    BY <1>1, <1>2, <2>1, <2>2, <2>5, <2>6
<1>9. CASE AddForClient(Adder)
  <2>1. adding[Adder].at = "addClient" /\ adding'[Adder].at = "idle"
    BY <1>0, <1>9, Moves
  <2>2. c' = Append(c, Entered) /\ hr' = hr
    BY <1>1, <1>9 DEF AddForClient
  <2>3. InHashRate(Adder) = 0 /\ InHashRate(Adder)' = 0 /\ InClient(Adder)' = 0
    BY <1>0, <2>1 DEF InHashRate, InClient, Before, Place
  <2>4. Len(c') = Len(c) + 1 /\ c' # <<>>
    <3>1. c \in Seq(Nat) /\ Len(c) \in Nat /\ Entered \in Nat
      BY <1>1, QueueTypes
    <3>2. c' \in Seq(Nat) /\ Len(c') = Len(c) + 1
      BY <2>2, <3>1, AppendFacts
    <3>3. Len(c') # 0
      BY <3>1, <3>2
    <3> QED
      BY <3>2, <3>3, EmptyIffNoLen
  <2>5. Run(c', Len(c'), Entered)
    BY <1>1, <1>2, <2>2, <2>4, QueueTypes, RunAppend
  <2> QED
    BY <1>1, <1>2, <2>1, <2>2, <2>3, <2>4, <2>5
<1> QED
  BY <1>4, <1>5, <1>6, <1>7, <1>8, <1>9 DEF addBlock

LEMMA UndisturbedStep ==
  Types /\ Events /\ (~early => Undisturbed) /\ [Next]_vars => (~early => Undisturbed)'
<1> SUFFICES ASSUME Types, Events, ~early => Undisturbed, [Next]_vars, ~early'
             PROVE  Undisturbed'
  OBVIOUS
<1> USE DEF queueVars, historyVars
<1>0. Undisturbed /\ best \in Nat /\ Len(queue) \in Nat /\ queue \in Seq(1 .. best)
  <2>1. ~early
    BY AddBlockLocal DEF Next, ImportBlock, OnBlock, postConstruct, AddListener, ReadBest,
                         ReplayBlock, ReplayDone, vars, Types
  <2> QED
    BY <2>1, HistoryAssumption, Lengths DEF Types, TypeOK, Larger
<1>1. CASE ImportBlock
  <2>1. start.at \in {"listen", "done"}
    BY <1>1 DEF ImportBlock, Types, TypeOK
  <2>2. CASE start.at = "listen"
    BY <1>0, <1>1, <2>2
       DEF ImportBlock, Undisturbed, Run, Adder, Ready, InHashRate, InClient, Before
  <2>3. CASE start.at = "done"
    <3>1. Len(queue') = Len(queue) + 1 /\ best' = best + 1
      BY <1>0, <1>1, <2>3 DEF ImportBlock
    <3>2. Entered' = Entered /\ Adder' = Adder
      BY <1>0, <1>1, <2>3, <3>1 DEF ImportBlock, Entered, Told, Adder
    <3> QED
      BY <1>0, <1>1, <2>3, <3>2 DEF ImportBlock, Undisturbed, Ready, InHashRate, InClient, Before
  <2> QED
    BY <2>1, <2>2, <2>3
<1>2. CASE OnBlock
  <2>1. start.at = "done" /\ start' = start
    BY <1>0, <1>2 DEF OnBlock, Undisturbed, Types, TypeOK
  <2>2. Entered' = Entered + 1 /\ Entered \in Int /\ Adder' = Adder /\ Adder = Listener
    <3>1. Len(queue') = Len(queue) - 1 /\ best' = best
      BY <1>0, <1>2 DEF OnBlock
    <3> QED
      BY <1>0, <2>1, <3>1 DEF Entered, Told, Adder
  <2>3. adding[Listener].at = "idle" /\ adding'[Listener].at = "hashRate"
    BY <1>2, Moves, TwoThreads DEF OnBlock, Ready
  <2>4. /\ InHashRate(Adder) = 0 /\ InHashRate(Adder)' = 1
        /\ InClient(Adder) = 0 /\ InClient(Adder)' = 1
    BY <2>2, <2>3 DEF InHashRate, InClient, Before, Place
  <2>5. /\ Entered' - InHashRate(Adder)' = Entered - InHashRate(Adder)
        /\ Entered' - InClient(Adder)' = Entered - InClient(Adder)
    BY <2>2, <2>4
  <2> QED
    BY <1>0, <1>2, <2>1, <2>2, <2>3, <2>5 DEF OnBlock, Undisturbed
<1>3. CASE AddListener
  <2>1. Adder = Listener /\ Adder' = Listener
    BY <1>3 DEF AddListener, Adder, Types, TypeOK
  <2> QED
    BY <1>0, <1>3, <2>1 DEF AddListener, Undisturbed, Run, Ready, Types, TypeOK
<1>4. CASE ReadBest
  <2>1. /\ start'.at = "replay" /\ start'.last = best /\ start'.next \in Nat
        /\ start'.next <= best /\ Adder' = Starter
    BY <1>0, <1>4, FirstReplayedType DEF ReadBest, Adder
  <2>2. adding'[Starter].at = "idle"
    BY <1>4 DEF ReadBest, Events, Ready
  <2> QED
    BY <1>0, <1>4, <2>1, <2>2 DEF ReadBest, Undisturbed, Run, Ready
<1>5. CASE ReplayBlock
  <2>1. /\ start.at = "replay" /\ start'.at = "replay" /\ start'.last = start.last
        /\ start'.next = start.next + 1 /\ start.next \in Nat /\ start.last = best
        /\ start.next <= best
    BY <1>0, <1>5 DEF ReplayBlock, Undisturbed, Types, TypeOK
  <2>2. adding[Starter].at = "idle" /\ adding'[Starter].at = "hashRate"
        /\ adding'[Listener] = adding[Listener]
    BY <1>5, Moves, TwoThreads DEF ReplayBlock, Ready, Other
  <2>3. Adder = Starter /\ Adder' = Starter /\ Entered' = Entered + 1 /\ Entered \in Int
    BY <2>1 DEF Adder, Entered
  <2>4. /\ InHashRate(Adder) = 0 /\ InHashRate(Adder)' = 1
        /\ InClient(Adder) = 0 /\ InClient(Adder)' = 1
    BY <2>2, <2>3 DEF InHashRate, InClient, Before, Place
  <2>5. /\ Entered' - InHashRate(Adder)' = Entered - InHashRate(Adder)
        /\ Entered' - InClient(Adder)' = Entered - InClient(Adder)
    BY <2>3, <2>4
  <2> QED
    BY <1>0, <1>5, <2>1, <2>2, <2>3, <2>5 DEF ReplayBlock, Undisturbed, Ready
<1>6. CASE ReplayDone
  <2>1. /\ start.at = "replay" /\ start'.at = "done" /\ start.next = best + 1
        /\ queue = <<>> /\ adding[Starter].at = "idle" /\ adding[Listener].at = "idle"
    BY <1>0, <1>6 DEF ReplayDone, Undisturbed, Ready, Types, TypeOK
  <2>2. /\ Adder = Starter /\ Adder' = Listener
        /\ Entered = best /\ Entered' = best
    BY <1>0, <1>6, <2>1 DEF ReplayDone, Adder, Entered, Told
  <2>3. /\ InHashRate(Adder) = 0 /\ InHashRate(Adder)' = 0
        /\ InClient(Adder) = 0 /\ InClient(Adder)' = 0
    BY <1>6, <2>1, <2>2 DEF ReplayDone, InHashRate, InClient, Before
  <2> QED
    BY <1>0, <1>6, <2>1, <2>2, <2>3 DEF ReplayDone, Undisturbed, Ready
<1>7. ASSUME NEW t \in Thread, addBlock(t) PROVE Undisturbed'
  <2>1. t = Adder
    BY <1>0, <1>7, AddBlockLocal, TwoThreads DEF Undisturbed, Events, Adder
  <2> QED
    BY <1>0, <1>7, <2>1, UndisturbedAdd
<1>8. CASE UNCHANGED vars
  BY <1>0, <1>8 DEF vars, Undisturbed, Run, Adder, Entered, Told, Ready, InHashRate, InClient, Before
<1> QED
  BY <1>1, <1>2, <1>3, <1>4, <1>5, <1>6, <1>7, <1>8 DEF Next, postConstruct

-----------------------------------------------------------------------------
\* The theorems.

LEMMA InitIInv == Init => IInv
<1> SUFFICES ASSUME Init PROVE IInv
  OBVIOUS
<1>1. Types
  <2>1. best \in 0 .. Larger(StoredBest, BlockBound) /\ 0 \in 0 .. best
    BY HistoryAssumption DEF Init, Larger
  <2>2. <<>> \in Seq(1 .. best) /\ <<>> \in Seq(0 .. best)
    OBVIOUS
  <2> QED
    BY <2>1, <2>2 DEF Init, Types, TypeOK, Idle, Place
<1>2. \A t \in Thread : adding[t].at = "idle"
  BY DEF Init, Idle
<1>3. Bounds
  BY <1>2, TwoThreads, HistoryAssumption DEF Init, Bounds, MayTrim, MayAdd
<1>4. Events
  BY <1>2, TwoThreads DEF Init, Events, Ready
<1>5. Healing
  BY <1>2, TwoThreads DEF Init, Healing, Run
<1>6. Undisturbed
  BY <1>2, TwoThreads DEF Init, Undisturbed, Run, Ready, Adder
<1> QED
  BY <1>1, <1>3, <1>4, <1>5, <1>6 DEF IInv

LEMMA IInvStep == IInv /\ [Next]_vars => IInv'
  BY TypesStep, BoundsStep, EventsStep, HealingStep, UndisturbedStep DEF IInv

LEMMA IInvHolds == Spec => []IInv
  BY InitIInv, IInvStep, PTL DEF Spec

LEMMA RunAscending ==
  ASSUME NEW q \in Seq(Nat), NEW m \in Nat, NEW n \in Int, Run(q, m, n), m >= Len(q)
  PROVE  Ascending(q) /\ (q # <<>> => q[Len(q)] = n)
<1>1. Len(q) \in Nat /\ (q = <<>> <=> Len(q) = 0)
  BY EmptyIffNoLen
<1>2. \A k \in 1..Len(q) : q[k] = n - Len(q) + k
  BY <1>1 DEF Run
<1>3. Ascending(q)
  <2>1. ASSUME NEW i \in 1 .. Len(q) - 1 PROVE q[i + 1] = q[i] + 1
    <3>1. i \in 1..Len(q) /\ i + 1 \in 1..Len(q)
      BY <1>1
    <3>2. q[i] = n - Len(q) + i /\ q[i + 1] = n - Len(q) + (i + 1)
      BY <1>2, <3>1
    <3> QED
      BY <1>1, <3>1, <3>2
  <2> QED
    BY <2>1 DEF Ascending
<1>4. q # <<>> => q[Len(q)] = n
  BY <1>1, <1>2
<1> QED
  BY <1>3, <1>4

LEMMA BoundsSound == Types /\ Bounds => QueuesBounded
<1> SUFFICES ASSUME Types, Bounds PROVE QueuesBounded
  OBVIOUS
<1>1. Cardinality(Thread) = 2
  <2>1. Cardinality({Starter}) = 1 /\ IsFiniteSet({Starter})
    BY FS_Singleton
  <2>2. Cardinality({Starter} \union {Listener}) = 2
    BY <2>1, TwoThreads, FS_AddElement
  <2>3. Thread = {Starter} \union {Listener}
    BY DEF Thread
  <2> QED
    BY <2>2, <2>3
<1>2. \A t : MayTrim(t) \in {0, 1} /\ MayAdd(t) \in {0, 1}
  BY DEF MayTrim, MayAdd
<1>3. Quiet => MayTrim(Starter) = 0 /\ MayTrim(Listener) = 0
  BY TwoThreads DEF Quiet, Ready, MayTrim
<1> DEFINE hr == Len(lastBlocksForHashRate)
           c  == Len(lastBlocksForClient)
<1>4. /\ Quiet => hr <= HashRateLimit
      /\ hr <= HashRateLimit + 2
      /\ c <= ClientLimit + 2
  <2>1. {HashRateLimit, ClientLimit, hr, c} \subseteq Nat
    BY QueueTypes
  <2>2. {MayTrim(Starter), MayTrim(Listener), MayAdd(Starter), MayAdd(Listener)} \subseteq {0, 1}
    BY <1>2
  <2>3. /\ hr <= HashRateLimit + MayTrim(Starter) + MayTrim(Listener)
        /\ c + MayAdd(Starter) + MayAdd(Listener) <= ClientLimit + 2
    BY DEF Bounds
  <2> QED
    BY <1>3, <2>1, <2>2, <2>3
<1> QED
  BY <1>1, <1>4 DEF QueuesBounded

LEMMA HealingSound == Types /\ Bounds /\ Healing => HealsAfterStart
<1> SUFFICES ASSUME Types, Bounds, Healing, Quiet, late > ClientLimit + 1
             PROVE  /\ Ascending(lastBlocksForClient)
                    /\ Len(lastBlocksForClient) > ClientLimit
                    /\ queue = <<>> => lastBlocksForClient[Len(lastBlocksForClient)] = best
  BY DEF HealsAfterStart
<1> DEFINE c == lastBlocksForClient
<1>1. /\ MayAdd(Listener) = 0 /\ MayAdd(Starter) = 0 /\ InClient(Listener) = 0
  BY TwoThreads DEF Quiet, Ready, MayAdd, InClient, Before
<1>2. late \in Nat /\ best \in Nat /\ Len(queue) \in Nat
  BY HistoryAssumption, Lengths DEF Types, TypeOK, Larger
<1>3. c \in Seq(Nat) /\ Len(c) > ClientLimit /\ Len(c) <= late
  BY <1>1, <1>2, QueueTypes DEF Healing, Bounds
<1>4. Run(c, late, Told) /\ Told \in Int
  BY <1>1, <1>2 DEF Healing, Told
<1>5. Ascending(c) /\ c[Len(c)] = Told
  BY <1>2, <1>3, <1>4, QueueTypes, EmptyIffNoLen, RunAscending
<1> QED
  BY <1>2, <1>3, <1>5 DEF Told

LEMMA UndisturbedSound == Types /\ (~early => Undisturbed) => NewestBlocksKept
<1> SUFFICES ASSUME Types, Undisturbed, start.at = "done", Quiet, queue = <<>>
             PROVE  /\ Ascending(lastBlocksForClient)
                    /\ lastBlocksForClient[Len(lastBlocksForClient)] = best
                    /\ Ascending(lastBlocksForHashRate)
                    /\ lastBlocksForHashRate[Len(lastBlocksForHashRate)] = best
  BY DEF NewestBlocksKept
<1>1. InHashRate(Adder) = 0 /\ InClient(Adder) = 0
  BY TwoThreads DEF Quiet, Ready, Adder, InHashRate, InClient, Before
<1>2. best \in Nat /\ Entered = best
  BY HistoryAssumption DEF Entered, Told, Types, TypeOK, Larger
<1> QED
  BY <1>1, <1>2, QueueTypes, RunAscending DEF Undisturbed

\* addBlock keeps both queues within their limits, and a start that no block
\* interrupts leaves the newest blocks in them (addBlock, postConstruct).
THEOREM HistoryWithinLimits == Spec => []NewestWithinLimits
<1>1. IInv => NewestWithinLimits
  BY BoundsSound, UndisturbedSound DEF IInv, NewestWithinLimits, Types
<1> QED
  BY <1>1, IInvHolds, PTL

\* Whatever the start left in the queue of the pages, ClientLimit + 2 blocks
\* later it is the newest blocks without a gap or a repetition (addBlock).
THEOREM HistoryHeals == Spec => []HealsAfterStart
<1>1. IInv => HealsAfterStart
  BY HealingSound DEF IInv
<1> QED
  BY <1>1, IInvHolds, PTL
=============================================================================
