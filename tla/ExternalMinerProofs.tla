------------------------ MODULE ExternalMinerProofs ------------------------
(***************************************************************************)
(* The invariants of ExternalMiner for any finite number of RPC threads    *)
(* and any number of blocks, tasks and works.                              *)
(*                                                                         *)
(* OfferedTaskIsOpen is inductive over the types.  AcceptedOncePerWork     *)
(* needs one more unit in the sum: the work that lies in miningBlocks and  *)
(* is still to be submitted.  DeliveredWasAccepted is inductive over the   *)
(* types: a block that a completed future holds is accepted already or by  *)
(* a submission about to answer.                                           *)
(***************************************************************************)
EXTENDS ExternalMiner, FiniteSetTheorems, SequenceTheorems, TLAPS

Waiting(b) == IF b \in miningBlocks THEN 1 ELSE 0

WorkAccounted ==
  \A b \in Block : accepted[b] + Cardinality(Submitting(b)) + Waiting(b) <= handed[b]

IInv == TypeOK /\ OfferedTaskIsOpen

-----------------------------------------------------------------------------
LEMMA InitIInv == Init => IInv
<1> SUFFICES ASSUME Init PROVE IInv
  OBVIOUS
<1>1. tasks \in Seq(Block \union {Open}) /\ miningTask \in 0 .. Len(tasks)
  BY DEF Init
<1>2. call \in [Thread -> Call]
  BY DEF Init, Call, Outside
<1>3. TypeOK
  BY <1>1, <1>2 DEF Init, TypeOK
<1>4. OfferedTaskIsOpen
  BY DEF Init, OfferedTaskIsOpen
<1> QED
  BY <1>3, <1>4 DEF IInv

\* The places a call can go to keep its type.
LEMMA ReturnTyped ==
  ASSUME call \in [Thread -> Call], NEW t \in Thread, Return(t)
  PROVE  call' \in [Thread -> Call]
<1>1. Outside \in Call
  BY DEF Outside, Call
<1> QED
  BY <1>1 DEF Return

LEMMA WorkTyped ==
  ASSUME call \in [Thread -> Call], NEW t \in Thread, NEW b \in Block,
         NEW place \in {"put", "check", "set", "clear"},
         call' = [call EXCEPT ![t] = [at |-> place, block |-> b]]
  PROVE  call' \in [Thread -> Call]
<1>1. [at |-> place, block |-> b] \in Call
  BY DEF Call
<1> QED
  BY <1>1

LEMMA GotoTyped ==
  ASSUME call \in [Thread -> Call], NEW t \in Thread,
         NEW place \in {"read", "set", "clear"}, Goto(t, place),
         (At(t, "out") /\ place = "read") \/ At(t, "check") \/ At(t, "set")
  PROVE  call' \in [Thread -> Call]
<1>1. [call[t] EXCEPT !.at = place] \in Call
  BY DEF Call, At
<1>2. call' = [call EXCEPT ![t] = [call[t] EXCEPT !.at = place]]
  BY DEF Goto
<1> QED
  BY <1>1, <1>2

\* A step that completes no task and takes nobody out of "clear" keeps the
\* offer open.
LEMMA OfferUntouched ==
  ASSUME OfferedTaskIsOpen, UNCHANGED <<miningTask, tasks>>,
         \A t \in Thread : At(t, "clear") => At(t, "clear")'
  PROVE  OfferedTaskIsOpen'
  BY DEF OfferedTaskIsOpen

-----------------------------------------------------------------------------
\* One lemma per step.

LEMMA MinePreserves ==
  ASSUME IInv, NEW b \in Block, mine(b)
  PROVE  IInv'
  BY OfferUntouched DEF IInv, TypeOK, mine, historyVars, At

LEMMA CreatePreserves ==
  ASSUME IInv, CreateTask
  PROVE  IInv'
<1> USE DEF IInv, CreateTask, historyVars
<1>1. TypeOK'
  BY DEF TypeOK
<1>2. tasks'[miningTask'] = Open
  BY DEF TypeOK
<1>3. OfferedTaskIsOpen'
  BY <1>2 DEF OfferedTaskIsOpen
<1> QED
  BY <1>1, <1>3

LEMMA ReturnPreserves ==
  ASSUME IInv, ReturnTask
  PROVE  IInv'
  BY OfferUntouched DEF IInv, TypeOK, ReturnTask, historyVars, minerVars, At

LEMMA GetWorkPreserves ==
  ASSUME IInv, NEW t \in Thread, eth_getWork(t)
  PROVE  IInv'
<1>1. call' \in [Thread -> Call]
  BY GotoTyped DEF IInv, TypeOK, eth_getWork
<1>2. \A u \in Thread : At(u, "clear") => At(u, "clear")'
  BY DEF IInv, TypeOK, eth_getWork, At, Goto
<1> QED
  BY <1>1, <1>2, OfferUntouched DEF IInv, TypeOK, eth_getWork, historyVars

LEMMA ReadPreserves ==
  ASSUME IInv, NEW t \in Thread, ReadBlock(t)
  PROVE  IInv'
<1>1. call' \in [Thread -> Call]
  <2>1. CASE miningBlock = None
    BY <2>1, ReturnTyped DEF IInv, TypeOK, ReadBlock
  <2>2. CASE miningBlock # None
    <3>1. miningBlock \in Block
      BY <2>2 DEF IInv, TypeOK
    <3> QED
      BY <2>2, <3>1, WorkTyped DEF IInv, TypeOK, ReadBlock
  <2> QED
    BY <2>1, <2>2
<1>2. \A u \in Thread : At(u, "clear") => At(u, "clear")'
  BY DEF IInv, TypeOK, ReadBlock, At, Return
<1> QED
  BY <1>1, <1>2, OfferUntouched DEF IInv, TypeOK, ReadBlock, historyVars, minerVars

LEMMA PutPreserves ==
  ASSUME IInv, NEW t \in Thread, PutWork(t)
  PROVE  IInv'
<1>1. call' \in [Thread -> Call]
  BY ReturnTyped DEF IInv, TypeOK, PutWork
<1>2. \A u \in Thread : At(u, "clear") => At(u, "clear")'
  BY DEF IInv, TypeOK, PutWork, At, Return
<1>3. call[t].block \in Block
  BY DEF IInv, TypeOK, Call, PutWork, At
<1>4. miningBlocks' \subseteq Block /\ handed' \in [Block -> Nat]
  BY <1>3 DEF IInv, TypeOK, PutWork
<1> QED
  BY <1>1, <1>2, <1>4, OfferUntouched DEF IInv, TypeOK, PutWork

LEMMA SubmitPreserves ==
  ASSUME IInv, NEW t \in Thread, NEW b \in Block, eth_submitWork(t, b)
  PROVE  IInv'
<1>1. call' \in [Thread -> Call]
  <2>1. CASE b \in miningBlocks
    BY <2>1, WorkTyped DEF IInv, TypeOK, eth_submitWork
  <2>2. CASE b \notin miningBlocks
    BY <2>2 DEF IInv, TypeOK, eth_submitWork
  <2> QED
    BY <2>1, <2>2
<1>2. \A u \in Thread : At(u, "clear") => At(u, "clear")'
  BY DEF IInv, TypeOK, eth_submitWork, At
<1> QED
  BY <1>1, <1>2, OfferUntouched DEF IInv, TypeOK, eth_submitWork, historyVars

LEMMA CheckPreserves ==
  ASSUME IInv, NEW t \in Thread, CheckTask(t)
  PROVE  IInv'
<1>1. call' \in [Thread -> Call]
  <2>1. CASE miningTask # 0
    BY <2>1, GotoTyped DEF IInv, TypeOK, CheckTask
  <2>2. CASE miningTask = 0
    BY <2>2, ReturnTyped DEF IInv, TypeOK, CheckTask
  <2> QED
    BY <2>1, <2>2
<1>2. \A u \in Thread : At(u, "clear") => At(u, "clear")'
  BY DEF IInv, TypeOK, CheckTask, At, Goto, Return
<1> QED
  BY <1>1, <1>2, OfferUntouched DEF IInv, TypeOK, CheckTask, historyVars, minerVars

\* The thread that completes a task has yet to clear the field.
LEMMA SetPreserves ==
  ASSUME IInv, NEW t \in Thread, SetResult(t)
  PROVE  IInv'
<1>1. CASE miningTask = 0
  <2>1. call' \in [Thread -> Call]
    BY <1>1, ReturnTyped DEF IInv, TypeOK, SetResult
  <2>2. TypeOK'
    BY <1>1, <2>1 DEF IInv, TypeOK, SetResult, historyVars
  <2>3. OfferedTaskIsOpen'
    <3>1. miningTask' = 0
      BY <1>1 DEF SetResult
    <3> QED
      BY <3>1 DEF OfferedTaskIsOpen
  <2> QED
    BY <2>2, <2>3 DEF IInv
<1>2. CASE miningTask # 0
  <2>1. call' \in [Thread -> Call]
    <3>1. Goto(t, "clear") /\ At(t, "set")
      BY <1>2 DEF SetResult
    <3> QED
      BY <3>1, GotoTyped DEF IInv, TypeOK
  <2>2. call[t].block \in Block /\ tasks[miningTask] \in Block \union {Open}
    <3>1. miningTask \in 1 .. Len(tasks)
      BY <1>2 DEF IInv, TypeOK
    <3>2. tasks[miningTask] \in Block \union {Open}
      BY <3>1 DEF IInv, TypeOK
    <3>3. call[t].block \in Block
      BY DEF IInv, TypeOK, Call, SetResult, At
    <3> QED
      BY <3>2, <3>3
  <2>3. Completed(tasks[miningTask], call[t].block) \in Block \union {Open}
    BY <2>2 DEF Completed
  <2>4. tasks' \in Seq(Block \union {Open}) /\ Len(tasks') = Len(tasks)
    <3>1. tasks' = [tasks EXCEPT ![miningTask] =
                      Completed(tasks[miningTask], call[t].block)]
      BY <1>2 DEF SetResult
    <3>2. tasks \in Seq(Block \union {Open}) /\ miningTask \in 1 .. Len(tasks)
      BY <1>2 DEF IInv, TypeOK
    <3> QED
      BY <2>3, <3>1, <3>2, ExceptSeq
  <2>5. TypeOK'
    BY <2>1, <2>4 DEF IInv, TypeOK, SetResult, historyVars
  <2>6. At(t, "clear")'
    BY <1>2 DEF IInv, TypeOK, SetResult, Goto, At, Call
  <2>7. OfferedTaskIsOpen'
    BY <2>6 DEF OfferedTaskIsOpen
  <2> QED
    BY <2>5, <2>7 DEF IInv
<1> QED
  BY <1>1, <1>2

LEMMA ClearPreserves ==
  ASSUME IInv, NEW t \in Thread, ClearTask(t)
  PROVE  IInv'
<1>1. call' \in [Thread -> Call]
  BY ReturnTyped DEF IInv, TypeOK, ClearTask
<1>2. call[t].block \in Block
  BY DEF IInv, TypeOK, Call, ClearTask, At
<1>3. accepted' \in [Block -> Nat]
  BY <1>2 DEF IInv, TypeOK, ClearTask
<1>4. TypeOK'
  BY <1>1, <1>3 DEF IInv, TypeOK, ClearTask
<1>5. OfferedTaskIsOpen'
  BY DEF OfferedTaskIsOpen, ClearTask
<1> QED
  BY <1>4, <1>5 DEF IInv

LEMMA IInvInductive == IInv /\ [Next]_vars => IInv'
<1> SUFFICES ASSUME IInv, [Next]_vars PROVE IInv'
  OBVIOUS
<1>1. CASE Node
  BY <1>1, MinePreserves, CreatePreserves, ReturnPreserves DEF Node
<1>2. ASSUME NEW t \in Thread, Rpc(t) PROVE IInv'
  BY <1>2, GetWorkPreserves, ReadPreserves, PutPreserves, SubmitPreserves,
     CheckPreserves, SetPreserves, ClearPreserves DEF Rpc
<1>3. CASE UNCHANGED vars
  <2>1. TypeOK'
    BY <1>3 DEF IInv, TypeOK, vars, minerVars, historyVars
  <2>2. OfferedTaskIsOpen'
    BY <1>3, OfferUntouched DEF IInv, At, vars, minerVars, historyVars
  <2> QED
    BY <2>1, <2>2 DEF IInv
<1> QED
  BY <1>1, <1>2, <1>3 DEF Next

\* IInv holds in every reachable state.
THEOREM IInvAlways == Spec => []IInv
<1>1. Init => IInv
  BY InitIInv
<1>2. IInv /\ [Next]_vars => IInv'
  BY IInvInductive
<1> QED
  BY <1>1, <1>2, PTL DEF Spec

\* The miner fields keep their types: miningTask never names a future that
\* was not made.
THEOREM TypeCorrect == Spec => []TypeOK
<1>1. IInv => TypeOK
  BY DEF IInv
<1> QED
  BY <1>1, IInvAlways, PTL

\* A completed task is in the field only until the thread that completed it,
\* or another submission, clears it.
THEOREM OfferCorrect == Spec => []OfferedTaskIsOpen
<1>1. IInv => OfferedTaskIsOpen
  BY DEF IInv
<1> QED
  BY <1>1, IInvAlways, PTL

-----------------------------------------------------------------------------
\* How the number of submissions of a block changes with a step.

LEMMA SubmittingFinite ==
  ASSUME NEW b
  PROVE  /\ IsFiniteSet(Submitting(b)) /\ Cardinality(Submitting(b)) \in Nat
         /\ IsFiniteSet(Submitting(b)') /\ Cardinality(Submitting(b)') \in Nat
<1>1. Submitting(b) \subseteq Thread /\ Submitting(b)' \subseteq Thread
  BY DEF Submitting
<1> QED
  BY <1>1, MinerAssumption, FS_Subset, FS_CardinalityType

LEMMA SubmittingNoMore ==
  ASSUME NEW b, Submitting(b)' \subseteq Submitting(b)
  PROVE  Cardinality(Submitting(b)') <= Cardinality(Submitting(b))
  BY SubmittingFinite, FS_Subset

LEMMA SubmittingLess ==
  ASSUME NEW b, NEW t, t \in Submitting(b), Submitting(b)' = Submitting(b) \ {t}
  PROVE  Cardinality(Submitting(b)') = Cardinality(Submitting(b)) - 1
  BY SubmittingFinite, FS_RemoveElement

LEMMA SubmittingMore ==
  ASSUME NEW b, NEW t, t \notin Submitting(b),
         Submitting(b)' = Submitting(b) \union {t}
  PROVE  Cardinality(Submitting(b)') = Cardinality(Submitting(b)) + 1
  BY SubmittingFinite, FS_AddElement

\* Steps that only end submissions keep the account.
LEMMA AccountKept ==
  ASSUME TypeOK, WorkAccounted, UNCHANGED <<handed, accepted, miningBlocks>>,
         \A b \in Block : Submitting(b)' \subseteq Submitting(b)
  PROVE  WorkAccounted'
<1> SUFFICES ASSUME NEW b \in Block
             PROVE  accepted'[b] + Cardinality(Submitting(b)') + Waiting(b)' <= handed'[b]
  BY DEF WorkAccounted
<1>1. Cardinality(Submitting(b)') <= Cardinality(Submitting(b))
  BY SubmittingNoMore
<1>2. Waiting(b)' = Waiting(b) /\ Waiting(b) \in 0 .. 1
  BY DEF Waiting
<1>3. accepted[b] \in Nat /\ handed[b] \in Nat
  BY DEF TypeOK
<1> QED
  BY <1>1, <1>2, <1>3, SubmittingFinite DEF WorkAccounted

LEMMA PutAccounted ==
  ASSUME TypeOK, WorkAccounted, NEW t \in Thread, PutWork(t)
  PROVE  WorkAccounted'
<1> SUFFICES ASSUME NEW b \in Block
             PROVE  accepted'[b] + Cardinality(Submitting(b)') + Waiting(b)' <= handed'[b]
  BY DEF WorkAccounted
<1>1. Submitting(b)' \subseteq Submitting(b)
  BY DEF TypeOK, PutWork, At, Return, Outside, Submitting
<1>2. Cardinality(Submitting(b)') <= Cardinality(Submitting(b))
  BY <1>1, SubmittingNoMore
<1>3. accepted'[b] = accepted[b] /\ accepted[b] \in Nat /\ handed[b] \in Nat
  BY DEF PutWork, TypeOK
<1>4. Waiting(b) \in 0 .. 1 /\ Waiting(b)' \in 0 .. 1
  BY DEF Waiting
<1>5. CASE b = call[t].block
  <2>1. handed'[b] = handed[b] + 1
    BY <1>5 DEF PutWork, TypeOK
  <2> QED
    BY <2>1, <1>2, <1>3, <1>4, SubmittingFinite DEF WorkAccounted
<1>6. CASE b # call[t].block
  <2>1. handed'[b] = handed[b] /\ Waiting(b)' = Waiting(b)
    BY <1>6 DEF PutWork, TypeOK, Waiting
  <2> QED
    BY <2>1, <1>2, <1>3, <1>4, SubmittingFinite DEF WorkAccounted
<1> QED
  BY <1>5, <1>6

\* A submission takes its unit from the map.
LEMMA SubmitAccounted ==
  ASSUME TypeOK, WorkAccounted, NEW t \in Thread, NEW b \in Block,
         eth_submitWork(t, b)
  PROVE  WorkAccounted'
<1>1. CASE b \notin miningBlocks
  <2>1. UNCHANGED <<handed, accepted, miningBlocks, call>>
    BY <1>1 DEF eth_submitWork, historyVars, TypeOK
  <2> QED
    BY <2>1, AccountKept DEF Submitting
<1>2. CASE b \in miningBlocks
  <2> SUFFICES ASSUME NEW c \in Block
               PROVE  accepted'[c] + Cardinality(Submitting(c)') + Waiting(c)' <= handed'[c]
    BY DEF WorkAccounted
  <2>1. accepted'[c] = accepted[c] /\ handed'[c] = handed[c]
        /\ accepted[c] \in Nat /\ handed[c] \in Nat
    BY DEF eth_submitWork, historyVars, TypeOK
  <2>2. call' = [call EXCEPT ![t] = [at |-> "check", block |-> b]] /\ call[t].at = "out"
    BY <1>2 DEF eth_submitWork, At
  <2>3. CASE c = b
    <3>1. t \notin Submitting(c) /\ Submitting(c)' = Submitting(c) \union {t}
      BY <2>2, <2>3 DEF TypeOK, Submitting
    <3>2. Waiting(c) = 1 /\ Waiting(c)' = 0
      BY <1>2, <2>3 DEF eth_submitWork, Waiting
    <3>3. Cardinality(Submitting(c)') = Cardinality(Submitting(c)) + 1
      BY <3>1, SubmittingMore
    <3>4. Cardinality(Submitting(c)) \in Nat
      BY SubmittingFinite
    <3>5. accepted[c] + Cardinality(Submitting(c)) + Waiting(c) <= handed[c]
      BY DEF WorkAccounted
    <3> QED
      BY <2>1, <3>2, <3>3, <3>4, <3>5
  <2>4. CASE c # b
    <3>1. \A u \in Thread : u \in Submitting(c)' <=> u \in Submitting(c)
      BY <2>2, <2>4 DEF TypeOK, Submitting
    <3>2. Waiting(c)' = Waiting(c)
      BY <2>4 DEF eth_submitWork, Waiting
    <3>3. Submitting(c)' = Submitting(c)
      BY <3>1 DEF Submitting
    <3> QED
      BY <2>1, <3>2, <3>3 DEF WorkAccounted
  <2> QED
    BY <2>3, <2>4
<1> QED
  BY <1>1, <1>2

\* The answer `true` takes the place of the submission it ends.
LEMMA ClearAccounted ==
  ASSUME TypeOK, WorkAccounted, NEW t \in Thread, ClearTask(t)
  PROVE  WorkAccounted'
<1> SUFFICES ASSUME NEW b \in Block
             PROVE  accepted'[b] + Cardinality(Submitting(b)') + Waiting(b)' <= handed'[b]
  BY DEF WorkAccounted
<1>1. handed'[b] = handed[b] /\ accepted[b] \in Nat /\ handed[b] \in Nat
  BY DEF ClearTask, TypeOK
<1>2. Waiting(b)' = Waiting(b) /\ Waiting(b) \in 0 .. 1
  BY DEF ClearTask, Waiting
<1>3. call' = [call EXCEPT ![t] = Outside] /\ call[t].at = "clear"
  BY DEF ClearTask, At, Return
<1>4. CASE b = call[t].block
  <2>1. t \in Submitting(b) /\ Submitting(b)' = Submitting(b) \ {t}
    BY <1>3, <1>4 DEF TypeOK, Submitting, Outside
  <2>2. accepted'[b] = accepted[b] + 1
    BY <1>4 DEF ClearTask, TypeOK
  <2>3. Cardinality(Submitting(b)') = Cardinality(Submitting(b)) - 1
    BY <2>1, SubmittingLess
  <2>4. Cardinality(Submitting(b)) \in Nat
    BY SubmittingFinite
  <2>5. accepted[b] + Cardinality(Submitting(b)) + Waiting(b) <= handed[b]
    BY DEF WorkAccounted
  <2> QED
    BY <1>1, <1>2, <2>2, <2>3, <2>4, <2>5
<1>5. CASE b # call[t].block
  <2>1. \A u \in Thread : u \in Submitting(b)' <=> u \in Submitting(b)
    BY <1>3, <1>5 DEF TypeOK, Submitting, Outside
  <2>2. accepted'[b] = accepted[b]
    BY <1>5 DEF ClearTask, TypeOK
  <2>3. Submitting(b)' = Submitting(b)
    BY <2>1 DEF Submitting
  <2> QED
    BY <1>1, <1>2, <2>2, <2>3 DEF WorkAccounted
<1> QED
  BY <1>4, <1>5

LEMMA AccountInductive == TypeOK /\ WorkAccounted /\ [Next]_vars => WorkAccounted'
<1> SUFFICES ASSUME TypeOK, WorkAccounted, [Next]_vars PROVE WorkAccounted'
  OBVIOUS
<1>1. CASE Node \/ UNCHANGED vars
  <2>1. UNCHANGED <<handed, accepted, miningBlocks, call>>
    BY <1>1 DEF Node, mine, CreateTask, ReturnTask, vars, minerVars, historyVars
  <2> QED
    BY <2>1, AccountKept DEF Submitting
<1>2. ASSUME NEW t \in Thread,
             eth_getWork(t) \/ ReadBlock(t) \/ CheckTask(t) \/ SetResult(t)
      PROVE  WorkAccounted'
  <2>1. UNCHANGED <<handed, accepted, miningBlocks>>
    BY <1>2 DEF eth_getWork, ReadBlock, CheckTask, SetResult, minerVars, historyVars
  <2>2. ASSUME NEW b \in Block PROVE Submitting(b)' \subseteq Submitting(b)
    <3> SUFFICES ASSUME NEW u \in Submitting(b)' PROVE u \in Submitting(b)
      OBVIOUS
    <3>1. CASE eth_getWork(t)
      BY <3>1 DEF eth_getWork, TypeOK, At, Goto, Submitting
    <3>2. CASE ReadBlock(t)
      <4>1. call'[t].at \in {"out", "put"}
        BY <3>2 DEF ReadBlock, TypeOK, Return, Outside
      <4>2. \A v \in Thread \ {t} : call'[v] = call[v]
        BY <3>2 DEF ReadBlock, TypeOK, Return
      <4> QED
        BY <4>1, <4>2 DEF Submitting
    <3>3. CASE CheckTask(t) \/ SetResult(t)
      <4>1. /\ call[t].at \in {"check", "set"}
            /\ Goto(t, "set") \/ Goto(t, "clear") \/ Return(t)
        BY <3>3 DEF CheckTask, SetResult, At
      <4>2. CASE Return(t)
        BY <4>2 DEF TypeOK, Return, Outside, Submitting
      <4>3. ASSUME NEW place \in {"set", "clear"}, Goto(t, place)
            PROVE  u \in Submitting(b)
        <5>1. \A v \in Thread : call'[v].block = call[v].block
          BY <4>3 DEF TypeOK, Call, Goto
        <5>2. \A v \in Thread \ {t} : call'[v] = call[v]
          BY <4>3 DEF TypeOK, Goto
        <5>3. u \in Thread /\ call[u].block = b
          BY <5>1 DEF Submitting
        <5>4. call[u].at \in {"check", "set", "clear"}
          BY <4>1, <5>2, <5>3 DEF Submitting
        <5> QED
          BY <5>3, <5>4 DEF Submitting
      <4> QED
        BY <4>1, <4>2, <4>3
    <3> QED
      BY <1>2, <3>1, <3>2, <3>3
  <2> QED
    BY <2>1, <2>2, AccountKept
<1>3. ASSUME NEW t \in Thread, Rpc(t) PROVE WorkAccounted'
  BY <1>2, <1>3, PutAccounted, SubmitAccounted, ClearAccounted DEF Rpc
<1> QED
  BY <1>1, <1>3 DEF Next

\* Every work handed out is accepted at most once, for any number of threads.
THEOREM AcceptedOnceCorrect == Spec => []AcceptedOncePerWork
<1>1. Init => WorkAccounted
  <2> SUFFICES ASSUME Init, NEW b \in Block
               PROVE  accepted[b] + Cardinality(Submitting(b)) + Waiting(b) <= handed[b]
    BY DEF WorkAccounted
  <2>1. Submitting(b) = {}
    BY DEF Init, Outside, Submitting
  <2> QED
    BY <2>1, FS_EmptySet DEF Init, Waiting
<1>2. TypeOK /\ WorkAccounted /\ [Next]_vars => WorkAccounted'
  BY AccountInductive
<1>3. TypeOK /\ WorkAccounted => AcceptedOncePerWork
  <2> SUFFICES ASSUME TypeOK, WorkAccounted, NEW b \in Block
               PROVE  accepted[b] + Cardinality(Submitting(b)) <= handed[b]
    BY DEF AcceptedOncePerWork
  <2>1. Waiting(b) \in 0 .. 1 /\ accepted[b] \in Nat /\ handed[b] \in Nat
    BY DEF Waiting, TypeOK
  <2> QED
    BY <2>1, SubmittingFinite DEF WorkAccounted
<1> QED
  BY <1>1, <1>2, <1>3, TypeCorrect, PTL DEF Spec

-----------------------------------------------------------------------------
\* DeliveredWasAccepted: the futures that hold a block against the answers
\* `true` given for it and about to be given.  It is inductive over the types.

Holding(b) == {i \in DOMAIN tasks : tasks[i] = b}

Answering(b) == {t \in Thread : At(t, "clear") /\ call[t].block = b}

LEMMA OneMore ==
  ASSUME NEW S, IsFiniteSet(S), NEW x
  PROVE  /\ IsFiniteSet(S \union {x})
         /\ Cardinality(S \union {x}) <= Cardinality(S) + 1
<1>1. Cardinality(S) \in Nat
  BY FS_CardinalityType
<1>2. CASE x \in S
  <2>1. S \union {x} = S
    BY <1>2
  <2>2. Cardinality(S \union {x}) = Cardinality(S) /\ IsFiniteSet(S \union {x})
    BY <2>1, Zenon
  <2> QED
    BY <1>1, <2>2
<1>3. CASE x \notin S
  BY <1>1, <1>3, FS_AddElement
<1> QED
  BY <1>2, <1>3

LEMMA HoldingFinite ==
  ASSUME TypeOK, NEW b
  PROVE  IsFiniteSet(Holding(b)) /\ Cardinality(Holding(b)) \in Nat
<1>1. Len(tasks) \in Nat /\ DOMAIN tasks = 1 .. Len(tasks)
  BY DEF TypeOK
<1>2. Holding(b) \subseteq 1 .. Len(tasks)
  BY <1>1 DEF Holding
<1>3. IsFiniteSet(1 .. Len(tasks))
  BY <1>1, FS_Interval
<1> QED
  BY <1>2, <1>3, FS_Subset, FS_CardinalityType

LEMMA AnsweringFinite ==
  ASSUME NEW b
  PROVE  /\ IsFiniteSet(Answering(b)) /\ Cardinality(Answering(b)) \in Nat
         /\ IsFiniteSet(Answering(b)') /\ Cardinality(Answering(b)') \in Nat
<1>1. Answering(b) \subseteq Thread /\ Answering(b)' \subseteq Thread
  BY DEF Answering
<1> QED
  BY <1>1, MinerAssumption, FS_Subset, FS_CardinalityType

\* Where no future gets the block and no submission of it leaves "clear", the
\* account of the block stands.
LEMMA DeliveryKept ==
  ASSUME TypeOK, NEW b \in Block,
         Cardinality(Holding(b)) <= accepted[b] + Cardinality(Answering(b)),
         Holding(b)' \subseteq Holding(b), Answering(b) \subseteq Answering(b)',
         accepted'[b] = accepted[b]
  PROVE  Cardinality(Holding(b)') <= accepted'[b] + Cardinality(Answering(b)')
<1>1. Cardinality(Holding(b)') <= Cardinality(Holding(b))
      /\ Cardinality(Holding(b)') \in Nat
  BY HoldingFinite, FS_Subset, FS_CardinalityType
<1>2. Cardinality(Answering(b)) <= Cardinality(Answering(b)')
  BY AnsweringFinite, FS_Subset
<1>3. accepted[b] \in Nat
  BY DEF TypeOK
<1> QED
  BY <1>1, <1>2, <1>3, HoldingFinite, AnsweringFinite

LEMMA SetDelivers ==
  ASSUME TypeOK, DeliveredWasAccepted, NEW t \in Thread, SetResult(t)
  PROVE  DeliveredWasAccepted'
<1> SUFFICES ASSUME NEW b \in Block
             PROVE  Cardinality(Holding(b)') <= accepted'[b] + Cardinality(Answering(b)')
  BY DEF DeliveredWasAccepted, Holding, Answering
<1>1. Cardinality(Holding(b)) <= accepted[b] + Cardinality(Answering(b))
  BY DEF DeliveredWasAccepted, Holding, Answering
<1>2. accepted'[b] = accepted[b] /\ accepted[b] \in Nat /\ call[t].at = "set"
  BY DEF SetResult, historyVars, TypeOK, At
<1>3. CASE miningTask = 0
  <2>1. Holding(b)' = Holding(b)
    BY <1>3 DEF SetResult, Holding
  <2>2. Answering(b) \subseteq Answering(b)'
    BY <1>2, <1>3 DEF SetResult, Return, Outside, Answering, At, TypeOK
  <2> QED
    BY <1>1, <1>2, <2>1, <2>2, DeliveryKept
<1>4. CASE miningTask # 0
  <2>1. /\ miningTask \in DOMAIN tasks
        /\ tasks' = [tasks EXCEPT ![miningTask] =
                       Completed(tasks[miningTask], call[t].block)]
        /\ call' = [call EXCEPT ![t] = [call[t] EXCEPT !.at = "clear"]]
    BY <1>4 DEF SetResult, Goto, TypeOK
  <2>2. /\ call'[t].at = "clear" /\ call'[t].block = call[t].block
        /\ \A u \in Thread \ {t} : call'[u] = call[u]
    BY <2>1 DEF TypeOK, Call
  <2>3. CASE b # call[t].block
    <3>1. Holding(b)' \subseteq Holding(b)
      BY <2>1, <2>3 DEF Holding, Completed
    <3>2. Answering(b) \subseteq Answering(b)'
      BY <2>2, <2>3 DEF Answering, At
    <3> QED
      BY <1>1, <1>2, <3>1, <3>2, DeliveryKept
  <2>4. CASE b = call[t].block
    <3>1. Holding(b)' \subseteq Holding(b) \union {miningTask}
      BY <2>1 DEF Holding
    <3>2. /\ IsFiniteSet(Holding(b) \union {miningTask})
          /\ Cardinality(Holding(b) \union {miningTask}) <= Cardinality(Holding(b)) + 1
      BY HoldingFinite, OneMore
    <3>3. /\ Cardinality(Holding(b)') <= Cardinality(Holding(b)) + 1
          /\ Cardinality(Holding(b)') \in Nat
      BY <3>1, <3>2, HoldingFinite, FS_Subset, FS_CardinalityType
    <3>4. t \notin Answering(b) /\ Answering(b)' = Answering(b) \union {t}
      BY <1>2, <2>2, <2>4 DEF Answering, At
    <3>5. Cardinality(Answering(b)') = Cardinality(Answering(b)) + 1
      BY <3>4, AnsweringFinite, FS_AddElement
    <3> QED
      BY <1>1, <1>2, <3>3, <3>5, HoldingFinite, AnsweringFinite
  <2> QED
    BY <2>3, <2>4
<1> QED
  BY <1>3, <1>4

LEMMA ClearDelivers ==
  ASSUME TypeOK, DeliveredWasAccepted, NEW t \in Thread, ClearTask(t)
  PROVE  DeliveredWasAccepted'
<1> SUFFICES ASSUME NEW b \in Block
             PROVE  Cardinality(Holding(b)') <= accepted'[b] + Cardinality(Answering(b)')
  BY DEF DeliveredWasAccepted, Holding, Answering
<1>1. Cardinality(Holding(b)) <= accepted[b] + Cardinality(Answering(b))
  BY DEF DeliveredWasAccepted, Holding, Answering
<1>2. Holding(b)' = Holding(b)
  BY DEF ClearTask, Holding
<1>3. call' = [call EXCEPT ![t] = Outside] /\ call[t].at = "clear"
  BY DEF ClearTask, At, Return
<1>4. CASE b = call[t].block
  <2>1. accepted'[b] = accepted[b] + 1 /\ accepted[b] \in Nat
    BY <1>4 DEF ClearTask, TypeOK
  <2>2. t \in Answering(b) /\ Answering(b)' = Answering(b) \ {t}
    BY <1>3, <1>4 DEF TypeOK, Answering, At, Outside
  <2>3. Cardinality(Answering(b)') = Cardinality(Answering(b)) - 1
    BY <2>2, AnsweringFinite, FS_RemoveElement
  <2> QED
    BY <1>1, <1>2, <2>1, <2>3, HoldingFinite, AnsweringFinite
<1>5. CASE b # call[t].block
  <2>1. accepted'[b] = accepted[b]
    BY <1>5 DEF ClearTask, TypeOK
  <2>2. Answering(b) \subseteq Answering(b)'
    BY <1>3, <1>5 DEF TypeOK, Answering, At
  <2> QED
    BY <1>1, <1>2, <2>1, <2>2, DeliveryKept
<1> QED
  BY <1>4, <1>5

\* The other calls neither complete a future nor answer a submission.
LEMMA OthersDeliver ==
  ASSUME TypeOK, DeliveredWasAccepted, UNCHANGED accepted,
         \A b \in Block : Holding(b)' \subseteq Holding(b),
         \A t \in Thread : At(t, "clear") => call'[t] = call[t]
  PROVE  DeliveredWasAccepted'
<1> SUFFICES ASSUME NEW b \in Block
             PROVE  Cardinality(Holding(b)') <= accepted'[b] + Cardinality(Answering(b)')
  BY DEF DeliveredWasAccepted, Holding, Answering
<1>1. Cardinality(Holding(b)) <= accepted[b] + Cardinality(Answering(b))
  BY DEF DeliveredWasAccepted, Holding, Answering
<1>2. Answering(b) \subseteq Answering(b)'
  BY DEF Answering, At
<1> QED
  BY <1>1, <1>2, DeliveryKept

LEMMA DeliveryInductive ==
  TypeOK /\ DeliveredWasAccepted /\ [Next]_vars => DeliveredWasAccepted'
<1> SUFFICES ASSUME TypeOK, DeliveredWasAccepted, [Next]_vars
             PROVE  DeliveredWasAccepted'
  OBVIOUS
<1>1. CASE CreateTask
  <2>1. \A b \in Block : Holding(b)' \subseteq Holding(b)
    BY <1>1, MinerAssumption DEF CreateTask, Holding, TypeOK
  <2> QED
    BY <1>1, <2>1, OthersDeliver DEF CreateTask, historyVars
<1>2. CASE ReturnTask \/ UNCHANGED vars
  BY <1>2, OthersDeliver DEF ReturnTask, Holding, vars, minerVars, historyVars
<1>3. ASSUME NEW b \in Block, mine(b) PROVE DeliveredWasAccepted'
  BY <1>3, OthersDeliver DEF mine, Holding, historyVars
<1>4. ASSUME NEW t \in Thread,
             eth_getWork(t) \/ ReadBlock(t) \/ PutWork(t) \/ CheckTask(t)
               \/ \E b \in Block : eth_submitWork(t, b)
      PROVE  DeliveredWasAccepted'
  <2>1. UNCHANGED <<tasks, accepted>> /\ call[t].at # "clear"
    BY <1>4 DEF eth_getWork, ReadBlock, PutWork, CheckTask, eth_submitWork,
                minerVars, historyVars, At
  <2>2. \A u \in Thread \ {t} : call'[u] = call[u]
    BY <1>4 DEF eth_getWork, ReadBlock, PutWork, CheckTask, eth_submitWork,
                Goto, Return, TypeOK
  <2>3. \A u \in Thread : At(u, "clear") => call'[u] = call[u]
    BY <2>1, <2>2 DEF At
  <2> QED
    BY <2>1, <2>3, OthersDeliver DEF Holding
<1>5. ASSUME NEW t \in Thread, Rpc(t) PROVE DeliveredWasAccepted'
  BY <1>4, <1>5, SetDelivers, ClearDelivers DEF Rpc
<1> QED
  BY <1>1, <1>2, <1>3, <1>5 DEF Next, Node

\* However the node replaces block and task while submissions are under way,
\* it gets no block whose work was not accepted, for any number of threads.
THEOREM DeliveryCorrect == Spec => []DeliveredWasAccepted
<1>1. Init => DeliveredWasAccepted
  <2> SUFFICES ASSUME Init, NEW b \in Block
               PROVE  Cardinality(Holding(b)) <= accepted[b] + Cardinality(Answering(b))
    BY DEF DeliveredWasAccepted, Holding, Answering
  <2>1. Holding(b) = {} /\ accepted[b] = 0
    BY DEF Init, Holding
  <2> QED
    BY <2>1, FS_EmptySet, AnsweringFinite
<1>2. TypeOK /\ DeliveredWasAccepted /\ [Next]_vars => DeliveredWasAccepted'
  BY DeliveryInductive
<1> QED
  BY <1>1, <1>2, TypeCorrect, PTL DEF Spec
=============================================================================
