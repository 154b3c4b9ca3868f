---------------------------- MODULE ExternalMiner ----------------------------
(***************************************************************************)
(* External mining through JSON-RPC: the node hands EthJsonRpcImpl a block *)
(* (externalMiner.mine) and waits on a future for the result; programs     *)
(* outside fetch the work with eth_getWork and answer with eth_submitWork. *)
(*                                                                         *)
(* The node and the RPC threads meet in three fields that no lock ties     *)
(* together: miningBlock, miningTask (both volatile) and miningBlocks (a   *)
(* ConcurrentHashMap).  A step is one access to one of them.               *)
(***************************************************************************)
EXTENDS Integers, Sequences, FiniteSets

CONSTANTS
  Thread,     \* RPC threads
  Block,      \* blocks the node wants mined; a header names its block
  TaskBound,  \* bound: calls of mine()
  WorkBound,  \* bound: works of a block handed out before a call of eth_getWork
  None,       \* Java's null for miningBlock
  Open        \* a future nobody has completed

ASSUME MinerAssumption ==
  /\ {TaskBound, WorkBound} \subseteq Nat
  /\ {None, Open} \cap Block = {}
  /\ IsFiniteSet(Thread)

VARIABLES
  miningBlock,   \* the block the node wants mined now
  miningTask,    \* number of the future in the field; 0 is null
  miningBlocks,  \* blocks whose work was handed out and not submitted yet
  minerInitialized,
  tasks,         \* the futures mine() made: Open, or the block that was set
  node,          \* where the node is in mine(): "out", "create", "return"
  call,          \* per thread: where it is, and with which block

  \* History.
  handed,        \* per block: how often its work was handed out
  accepted       \* per block: how often eth_submitWork answered true

minerVars == <<miningBlock, miningTask, miningBlocks, minerInitialized, tasks>>
historyVars == <<handed, accepted>>
vars == <<minerVars, node, call, historyVars>>

Outside == [at |-> "out", block |-> None]

At(t, place) == call[t].at = place
Goto(t, place) == call' = [call EXCEPT ![t].at = place]
Return(t) == call' = [call EXCEPT ![t] = Outside]

\* SettableFuture.set: only the first call has an effect.
Completed(future, block) == IF future = Open THEN block ELSE future

Init ==
  /\ miningBlock = None
  /\ miningTask = 0
  /\ miningBlocks = {}
  /\ minerInitialized = FALSE
  /\ tasks = <<>>
  /\ node = "out"
  /\ call = [t \in Thread |-> Outside]
  /\ handed = [b \in Block |-> 0]
  /\ accepted = [b \in Block |-> 0]

-----------------------------------------------------------------------------
\* The node: externalMiner.mine, once it knows the external miner.

mine(b) ==
  /\ node = "out"
  /\ minerInitialized
  /\ Len(tasks) < TaskBound
  /\ miningBlock' = b
  /\ node' = "create"
  /\ UNCHANGED <<miningTask, miningBlocks, minerInitialized, tasks, call,
                 historyVars>>

CreateTask ==
  /\ node = "create"
  /\ tasks' = Append(tasks, Open)
  /\ miningTask' = Len(tasks) + 1
  /\ node' = "return"
  /\ UNCHANGED <<miningBlock, miningBlocks, minerInitialized, call, historyVars>>

\* `return miningTask` reads the field again.
ReturnTask ==
  /\ node = "return"
  /\ node' = "out"
  /\ UNCHANGED <<minerVars, call, historyVars>>

-----------------------------------------------------------------------------
\* eth_getWork.

\* The first call registers the miner with the node, which may call mine()
\* before the block is read.
eth_getWork(t) ==
  /\ At(t, "out")
  /\ \A b \in Block : handed[b] < WorkBound
  /\ minerInitialized' = TRUE
  /\ Goto(t, "read")
  /\ UNCHANGED <<miningBlock, miningTask, miningBlocks, tasks, node, historyVars>>

\* Without a block the call fails; the miner stays registered.
ReadBlock(t) ==
  /\ At(t, "read")
  /\ IF miningBlock = None THEN Return(t)
     ELSE call' = [call EXCEPT ![t] = [at |-> "put", block |-> miningBlock]]
  /\ UNCHANGED <<minerVars, node, historyVars>>

\* miningBlocks.put; the work is the answer.
PutWork(t) ==
  LET b == call[t].block
  IN  /\ At(t, "put")
      /\ miningBlocks' = miningBlocks \union {b}
      /\ handed' = [handed EXCEPT ![b] = @ + 1]
      /\ Return(t)
      /\ UNCHANGED <<miningBlock, miningTask, minerInitialized, tasks, node,
                     accepted>>

-----------------------------------------------------------------------------
\* eth_submitWork.

\* Mutant of eth_submitWork: the block stays in the map.
SubmitGet(t, b) ==
  /\ At(t, "out")
  /\ call' = IF b \in miningBlocks
             THEN [call EXCEPT ![t] = [at |-> "check", block |-> b]] ELSE call
  /\ UNCHANGED <<minerVars, node, historyVars>>

\* miningBlocks.remove: an unknown header is answered with false.
eth_submitWork(t, b) ==
  /\ At(t, "out")
  /\ miningBlocks' = miningBlocks \ {b}
  /\ call' = IF b \in miningBlocks
             THEN [call EXCEPT ![t] = [at |-> "check", block |-> b]] ELSE call
  /\ UNCHANGED <<miningBlock, miningTask, minerInitialized, tasks, node,
                 historyVars>>

\* miningTask != null, or the answer is false.
CheckTask(t) ==
  /\ At(t, "check")
  /\ IF miningTask # 0 THEN Goto(t, "set") ELSE Return(t)
  /\ UNCHANGED <<minerVars, node, historyVars>>

\* Mutant of SetResult: the future gets the block the node wants now.
SetCurrent(t) ==
  /\ At(t, "set")
  /\ IF miningTask # 0
     THEN /\ tasks' = [tasks EXCEPT ![miningTask] = Completed(@, miningBlock)]
          /\ Goto(t, "clear")
     ELSE Return(t) /\ UNCHANGED tasks
  /\ UNCHANGED <<miningBlock, miningTask, miningBlocks, minerInitialized, node,
                 historyVars>>

\* miningTask.set, of whatever the field holds by now.  If another thread has
\* cleared it the exception is caught and the answer is false.
SetResult(t) ==
  /\ At(t, "set")
  /\ IF miningTask # 0
     THEN /\ tasks' = [tasks EXCEPT ![miningTask] = Completed(@, call[t].block)]
          /\ Goto(t, "clear")
     ELSE Return(t) /\ UNCHANGED tasks
  /\ UNCHANGED <<miningBlock, miningTask, miningBlocks, minerInitialized, node,
                 historyVars>>

\* Mutant of ClearTask: the completed future stays in the field.
KeepTask(t) ==
  /\ At(t, "clear")
  /\ accepted' = [accepted EXCEPT ![call[t].block] = @ + 1]
  /\ Return(t)
  /\ UNCHANGED <<minerVars, node, handed>>

\* miningTask = null, of whatever the field holds by now; the answer is true.
ClearTask(t) ==
  /\ At(t, "clear")
  /\ miningTask' = 0
  /\ accepted' = [accepted EXCEPT ![call[t].block] = @ + 1]
  /\ Return(t)
  /\ UNCHANGED <<miningBlock, miningBlocks, minerInitialized, tasks, node, handed>>

-----------------------------------------------------------------------------
Node == (\E b \in Block : mine(b)) \/ CreateTask \/ ReturnTask

Rpc(t) ==
  \/ eth_getWork(t) \/ ReadBlock(t) \/ PutWork(t)
  \/ \E b \in Block : eth_submitWork(t, b)
  \/ CheckTask(t) \/ SetResult(t) \/ ClearTask(t)

Next == Node \/ \E t \in Thread : Rpc(t)

Spec == Init /\ [][Next]_vars

-----------------------------------------------------------------------------
\* Properties.

\* A call that works on a block has one.
Call == [at : {"out", "read"}, block : Block \union {None}]
          \union [at : {"put", "check", "set", "clear"}, block : Block]

\* Types.  The field never names a future that was not made.
TypeOK ==
  /\ miningBlock \in Block \union {None}
  /\ tasks \in Seq(Block \union {Open})
  /\ miningTask \in 0 .. Len(tasks)
  /\ miningBlocks \subseteq Block
  /\ minerInitialized \in BOOLEAN
  /\ node \in {"out", "create", "return"}
  /\ call \in [Thread -> Call]
  /\ handed \in [Block -> Nat]
  /\ accepted \in [Block -> Nat]

\* Threads whose submission of block b got past the map.
Submitting(b) ==
  {t \in Thread : call[t].at \in {"check", "set", "clear"} /\ call[t].block = b}

\* Every work handed out is accepted at most once, however many threads
\* submit it at the same moment: the remove of miningBlocks decides.
AcceptedOncePerWork ==
  \A b \in Block : accepted[b] + Cardinality(Submitting(b)) <= handed[b]

\* The task on offer is one the node still waits for, unless a submission is
\* just about to clear it: a finished task does not stay in the field, where
\* it would swallow the work submitted next.
OfferedTaskIsOpen ==
  /\ miningTask # 0
  /\ tasks[miningTask] # Open
  => \E t \in Thread : At(t, "clear")

\* The node gets no block whose work was not accepted: at most as many of its
\* futures hold a block as submissions of it were answered true or are about
\* to be, also when the node replaces block and task meanwhile.  Fewer do if
\* two submissions complete one future.
DeliveredWasAccepted ==
  \A b \in Block :
    Cardinality({i \in DOMAIN tasks : tasks[i] = b})
      <= accepted[b] + Cardinality({t \in Thread : At(t, "clear") /\ call[t].block = b})
=============================================================================
