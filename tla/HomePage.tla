------------------------------ MODULE HomePage ------------------------------
(***************************************************************************)
(* The home page (HomeCtrl) and its tree chart.  Blocks come from the      *)
(* server one by one, as they are imported, and as a snapshot of the last  *)
(* ones that the page asks for when it is opened or connects again.  They  *)
(* are buffered in chartData and handed to the chart at most every two     *)
(* seconds.  The chart component and what it draws outlive the page; a     *)
(* page that was left still has its timers.                                *)
(*                                                                         *)
(* The server is external: it handles the subscription and the request in  *)
(* any order, and a new block may overtake a snapshot.                     *)
(***************************************************************************)
EXTENDS BlockTree

CONSTANTS
  ImportOrder,   \* the blocks, in the order the node imports them
  PendingLimit,  \* blocks that chartData holds
  MaxRequests    \* bound: times the page asks for the last blocks

Visit == 1 .. MaxRequests
None == <<"none">>

ASSUME HomePageAssumption ==
  /\ ImportOrder \in Seq(Block)
  /\ PendingLimit \in 1 .. MAX_BLOCK_COUNT
  /\ MaxRequests \in Nat

VARIABLES
  imported,       \* blocks the node has imported so far
  visit,          \* the visit that is on screen, 0 on another page
  visits,         \* visits so far
  reconnects,     \* connections lost while the page was open
  configLoaded,   \* vm.data.featureRpc is known
  chart,          \* state of BlockchainView
  svg,            \* the visit whose container BlockchainView draws into
  created,        \* visits whose variable chart is set
  polling,        \* visits with awaitConfigLoadRun scheduled
  chartData,      \* per visit
  timeoutPromise, \* per visit: none, set, or failed (set, and never cleared)
  subscribed,     \* to newBlockInfo: no, pending, yes
  snapshot        \* currentBlocks: None, asked, or the answer on its way

serverVars == <<imported, subscribed, snapshot>>
pageVars == <<visit, visits, reconnects, configLoaded>>
chartVars == <<chart, svg, created, polling, chartData, timeoutPromise>>
vars == <<serverVars, pageVars, chartVars>>

Asked == <<"asked">>
Answer(blocks) == <<"answer", blocks>>

\* What the server keeps for its clients: one more than the page takes.
LastBlocks ==
  SubSeq(ImportOrder, IF imported > PendingLimit + 1 THEN imported - PendingLimit ELSE 1,
         imported)

Init ==
  /\ imported \in 0 .. 1 /\ imported <= Len(ImportOrder)
  /\ visit = 0 /\ visits = 0 /\ reconnects = 0
  /\ configLoaded \in BOOLEAN
  /\ chart = EmptyChart
  /\ svg = 0
  /\ created = {} /\ polling = {}
  /\ chartData = [v \in Visit |-> <<>>]
  /\ timeoutPromise = [v \in Visit |-> "none"]
  /\ subscribed = "no"
  /\ snapshot = None

\* Known blocks are ignored, the oldest one goes if there are too many.
addBlock(data, b) ==
  IF Contains(data, b) THEN data
  ELSE IF Len(data) >= PendingLimit THEN Append(Tail(data), b)
  ELSE Append(data, b)

\* The blocks of a snapshot, one after the other.
addAll(data, blocks) ==
  LET all[i \in 0 .. Len(blocks)] == IF i = 0 THEN data ELSE addBlock(all[i - 1], blocks[i])
  IN all[Len(blocks)]

\* Mutant of Draw: the buffer is not emptied.
DrawKeeps(v, data) ==
  /\ chart' = addBlocks(chart, data)
  /\ chartData' = [chartData EXCEPT ![v] = data]

\* chart.addBlocks(chartData); chartData = []
Draw(v, data) ==
  /\ chart' = addBlocks(chart, data)
  /\ chartData' = [chartData EXCEPT ![v] = <<>>]

\* redrawChartLater with data in the buffer: drawn at once if the last time
\* is more than two seconds ago (long), and a timer for what comes next.
\* With no chart yet, drawing at once throws before the timer is set.
redrawChartLater(v, data, made, long) ==
  IF timeoutPromise[v] # "none"
  THEN /\ chartData' = [chartData EXCEPT ![v] = data]
       /\ UNCHANGED <<chart, timeoutPromise>>
  ELSE IF ~long
  THEN /\ timeoutPromise' = [timeoutPromise EXCEPT ![v] = "set"]
       /\ chartData' = [chartData EXCEPT ![v] = data]
       /\ UNCHANGED chart
  ELSE IF v \in made
  THEN /\ timeoutPromise' = [timeoutPromise EXCEPT ![v] = "set"]
       /\ Draw(v, data)
  ELSE /\ chartData' = [chartData EXCEPT ![v] = data]
       /\ UNCHANGED <<chart, timeoutPromise>>

\* createChart: nothing until the configuration is known.  create() points
\* the chart component to this visit's container.
createChart(v, long) ==
  IF configLoaded
  THEN /\ created' = created \union {v}
       /\ svg' = v
       /\ redrawChartLater(v, chartData[v], created \union {v}, long)
  ELSE UNCHANGED <<created, svg, chart, chartData, timeoutPromise>>

\* The page is opened.  Its controller starts, and AppCtrl asks for the
\* blocks and subscribes to new ones.
Open ==
  LET v == visits + 1 IN
  /\ visit = 0 /\ visits + reconnects < MaxRequests
  /\ visit' = v /\ visits' = v
  /\ createChart(v, FALSE)
  /\ polling' = IF configLoaded THEN polling ELSE polling \union {v}
  /\ subscribed' = "pending" /\ snapshot' = Asked
  /\ UNCHANGED <<imported, reconnects, configLoaded>>

Leave ==
  /\ visit # 0
  /\ visit' = 0
  /\ subscribed' = "no" /\ snapshot' = None
  /\ UNCHANGED <<imported, visits, reconnects, configLoaded, chartVars>>

\* connectedEvent, for the loss of the connection and for the new one.
connectedEvent ==
  /\ visit # 0 /\ visits + reconnects < MaxRequests
  /\ reconnects' = reconnects + 1
  /\ chartData' = [chartData EXCEPT ![visit] = <<>>]
  /\ subscribed' = "pending" /\ snapshot' = Asked
  /\ UNCHANGED <<imported, visit, visits, configLoaded, chart, svg, created,
                 polling, timeoutPromise>>

\* awaitConfigLoadRun, every 20 ms until there is a chart, even on a page
\* that was left.
awaitConfigLoadRun(v) ==
  /\ v \in polling
  /\ IF v \in created
     THEN polling' = polling \ {v} /\ UNCHANGED <<created, svg, chart, chartData, timeoutPromise>>
     ELSE configLoaded /\ (\E long \in BOOLEAN : createChart(v, long)) /\ UNCHANGED polling
  /\ UNCHANGED <<serverVars, pageVars>>

initialInfo ==
  /\ ~configLoaded
  /\ configLoaded' = TRUE
  /\ UNCHANGED <<serverVars, visit, visits, reconnects, chartVars>>

\* The timer of redrawChartLater.  With no chart, because initialInfo takes more
\* than two seconds, it throws, and timeoutPromise keeps the promise.
RedrawTimer(v) ==
  /\ timeoutPromise[v] = "set"
  /\ IF v \in created
     THEN /\ Draw(v, chartData[v])
          /\ timeoutPromise' = [timeoutPromise EXCEPT ![v] = "none"]
     ELSE /\ timeoutPromise' = [timeoutPromise EXCEPT ![v] = "failed"]
          /\ UNCHANGED <<chart, chartData>>
  /\ UNCHANGED <<serverVars, pageVars, svg, created, polling>>

\* The node imports a block; the page gets it if the server has its
\* subscription.
newBlockInfoEvent ==
  /\ imported < Len(ImportOrder)
  /\ imported' = imported + 1
  /\ IF subscribed = "yes"
     THEN \E long \in BOOLEAN :
            redrawChartLater(visit, addBlock(chartData[visit], ImportOrder[imported']),
                             created, long)
     ELSE UNCHANGED <<chart, chartData, timeoutPromise>>
  /\ UNCHANGED <<pageVars, subscribed, snapshot, svg, created, polling>>

ServerSubscribes ==
  /\ subscribed = "pending"
  /\ subscribed' = "yes"
  /\ UNCHANGED <<imported, snapshot, pageVars, chartVars>>

ServerAnswers ==
  /\ snapshot = Asked
  /\ snapshot' = Answer(LastBlocks)
  /\ UNCHANGED <<imported, subscribed, pageVars, chartVars>>

currentBlocksEvent ==
  /\ snapshot \notin {None, Asked}
  /\ \E long \in BOOLEAN :
       redrawChartLater(visit, addAll(chartData[visit], snapshot[2]),
                        created, long)
  /\ snapshot' = None
  /\ UNCHANGED <<imported, subscribed, pageVars, svg, created, polling>>

Next ==
  \/ Open \/ Leave \/ connectedEvent \/ initialInfo
  \/ \E v \in Visit : awaitConfigLoadRun(v) \/ RedrawTimer(v)
  \/ newBlockInfoEvent \/ ServerSubscribes \/ ServerAnswers \/ currentBlocksEvent

Spec == Init /\ [][Next]_vars

\* What awaitConfigLoadRun(v) and RedrawTimer(v) do to the variables that only
\* they change in this way: enough to say that they happen, and cheaper to
\* evaluate than what they draw.
PollRuns(v) ==
  /\ v \in polling
  /\ IF v \in created THEN polling' = polling \ {v} /\ UNCHANGED created
     ELSE configLoaded /\ created' = created \union {v} /\ UNCHANGED polling

TimerFires(v) ==
  /\ timeoutPromise[v] = "set"
  /\ timeoutPromise' = [timeoutPromise EXCEPT ![v] = IF v \in created THEN "none" ELSE "failed"]

\* Timers fire and initialInfo is answered.
Fairness ==
  /\ WF_configLoaded(initialInfo)
  /\ \A v \in Visit : /\ WF_<<created, polling>>(PollRuns(v))
                       /\ WF_timeoutPromise(TimerFires(v))

FairSpec == Spec /\ Fairness

-----------------------------------------------------------------------------
Kept == ToSet(chart.rawData)
Grid == chart.renderColumns

TypeOK ==
  /\ imported \in 0 .. Len(ImportOrder)
  /\ visit \in 0 .. MaxRequests /\ visits \in 0 .. MaxRequests
  /\ configLoaded \in BOOLEAN
  /\ svg \in 0 .. MaxRequests
  /\ created \subseteq Visit /\ polling \subseteq Visit
  /\ \A v \in Visit : Len(chartData[v]) <= PendingLimit
  /\ timeoutPromise \in [Visit -> {"none", "set", "failed"}]
  /\ subscribed \in {"no", "pending", "yes"}

\* The chart's three structures agree whatever was sent twice: blockStore has
\* the blocks of rawData, each once, no more than the limit, and each has its
\* object in the grid, once.
ChartConsistent ==
  /\ Len(chart.rawData) <= MAX_BLOCK_COUNT
  /\ IsInjective(chart.rawData)
  /\ chart.blockStore = Kept
  /\ \A b \in Kept :
       Quantify(DOMAIN Grid, LAMBDA i : Cell(b, "kept", RowOf(chart.rawData, b)) \in Grid[i]) = 1
  /\ \A i \in DOMAIN Grid : \A x \in Grid[i] : x.kind = "kept" => x.block \in Kept

\* Every block kept is drawn, and no two in the same place.
NoOverlap ==
  LET place == renderState(chart).place
  IN DOMAIN place = Kept /\ IsInjective(place)

\* Reference: the ancestors of b among the blocks kept, b included.
Lineage(b) ==
  LET line[c \in Kept] == {c} \union (IF Parent[c] \in Kept THEN line[Parent[c]] ELSE {})
  IN line[b]

\* Their difficulties, added up.
Weight(b) ==
  LET sum[c \in Kept] == Difficulty[c] + (IF Parent[c] \in Kept THEN sum[Parent[c]] ELSE 0)
  IN sum[b]

ParentsFirst ==
  \A i, j \in DOMAIN chart.rawData :
    chart.rawData[i] = Parent[chart.rawData[j]] => i < j

\* If blocks came parents first, the canonical marks are on the heaviest of
\* the chains that end in a block kept, and on all of it.
CanonicalIsHeaviest ==
  ParentsFirst /\ Kept # {} =>
    \E leaf \in Kept :
      /\ isCanonical(chart.rawData) = Lineage(leaf)
      /\ \A b \in Kept : Weight(b) <= Weight(leaf)

\* If blocks came parents first, the dashed lines go from the block under the
\* mouse pointer to its oldest ancestor in the chart, and the brackets, told
\* apart by row, are one for each canonical block.
LinesReachTheRoot ==
  ParentsFirst /\ Kept # {} =>
    /\ \A over \in Kept :
         parentLines(chart, over) = {b \in Lineage(over) : Parent[b] \in Kept}
    /\ Cardinality(renderState(chart).bracket) = Cardinality(isCanonical(chart.rawData))

\* What the chart shows of chains, by marks and by lines, is so.
ChainsShown == CanonicalIsHeaviest /\ LinesReachTheRoot

\* The chart has the last blocks, each of them drawn and in a place of its own.
ChartSound == TypeOK /\ ChartConsistent /\ NoOverlap

\* What the page on screen has buffered reaches the chart, or is dropped with
\* the connection, or the page is left: through every order of blocks, snapshots,
\* timers and the configuration but one.  Where the timer came before there was
\* a chart, its exception leaves timeoutPromise set for good, and what the visit
\* buffers from then on is not drawn.
BlocksDrawn ==
  \A v \in Visit :
    visit = v /\ chartData[v] # <<>>
      ~> visit # v \/ chartData[v] = <<>> \/ timeoutPromise[v] = "failed"
=============================================================================
