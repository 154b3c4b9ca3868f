---------------------------- MODULE StatusPanel -----------------------------
(***************************************************************************)
(* What AppCtrl shows above every page: the state of the synchronisation,  *)
(* and bubbles for confirmed transactions.  The home page's texts of the   *)
(* same state are in module HomeInfo.                                      *)
(***************************************************************************)
EXTENDS Integers, Sequences, SequencesExt, FiniteSets

CONSTANTS
  Transaction,
  CONFIRMED_LIMIT,    \* transactions remembered (100)
  Counts,             \* numbers of state nodes, headers, ... reported
  Times,              \* seconds between two reports
  MaxReports          \* bound: reports and confirmations

Stage == {"PivotBlock", "StateNodes", "Headers", "BlockBodies", "Receipts",
          "Regular", "Complete", "Off"}

VARIABLES
  syncStatus,           \* the last one received, or none
  loadingItemsProgress, syncProgressMessage,
  loadingStateSpeed,    \* in tenths of nodes per second
  lastStateUpdateTime,  \* 0 or the reports since the last of a loading state
  confirmedTransactions,
  notified,             \* history: transactions a bubble was shown for
  reports               \* bound counter

syncVars == <<syncStatus, loadingItemsProgress, syncProgressMessage, loadingStateSpeed,
              lastStateUpdateTime>>
txVars == <<confirmedTransactions, notified>>
statusVars == <<syncVars, txVars, reports>>

NoStatus == [stage |-> "none", curCnt |-> 0, knownCnt |-> 0]
Status == {s \in [stage : Stage, curCnt : Counts, knownCnt : Counts] : s.curCnt <= s.knownCnt}

Init ==
  /\ syncStatus = NoStatus
  /\ loadingItemsProgress = 0 /\ syncProgressMessage = "" /\ loadingStateSpeed = 0
  /\ lastStateUpdateTime = 0
  /\ confirmedTransactions = <<>> /\ notified = <<>>
  /\ reports = 0

Report == reports < MaxReports /\ reports' = reports + 1

isLoadingState(s) == s.stage \in {"PivotBlock", "StateNodes"}

loadingMessages(stage) ==
  CASE stage = "Headers" -> "Validating headers" [] stage = "BlockBodies" -> "Loading bodies"
    [] stage = "Receipts" -> "Loading receipts" [] OTHER -> ""

Rounded(a, b) == (2 * a + b) \div (2 * b)

\* The speed, in tenths: the exponent in 10^0 is an exclusive or, and gives 10.
Speed(old, new, seconds) == IF new < old THEN 0 ELSE Rounded(10 * (new - old), seconds)

Progress(s) ==
  IF s.knownCnt = 0 \/ s.stage = "PivotBlock" THEN 0 ELSE Rounded(100 * s.curCnt, s.knownCnt)

\* setSyncStatus, seconds after the last report of a loading state.
setSyncStatus(s, seconds) ==
  /\ syncStatus' = s
  /\ IF s.stage = "Complete"
     THEN UNCHANGED <<loadingItemsProgress, syncProgressMessage, loadingStateSpeed,
                      lastStateUpdateTime>>
     ELSE /\ syncProgressMessage' = IF s.stage = "StateNodes" THEN "counts"
                                    ELSE loadingMessages(s.stage)
          /\ loadingItemsProgress' = Progress(s)
          /\ IF isLoadingState(s)
             THEN /\ loadingStateSpeed' = IF lastStateUpdateTime = 0 THEN loadingStateSpeed
                                          ELSE Speed(syncStatus.curCnt, s.curCnt, seconds)
                  /\ lastStateUpdateTime' = 1
             ELSE UNCHANGED <<loadingStateSpeed, lastStateUpdateTime>>

onBlockchainInfoResult ==
  /\ Report
  /\ \E s \in Status, seconds \in Times : setSyncStatus(s, seconds)
  /\ UNCHANGED <<txVars>>

\* Mutant of Remembered: the newest is forgotten, not the oldest.
RememberedOldest(txs) == IF Len(txs) > CONFIRMED_LIMIT THEN Front(txs) ELSE txs

Remembered(txs) == IF Len(txs) > CONFIRMED_LIMIT THEN Tail(txs) ELSE txs

\* The server reports a transaction of a block, maybe more than once.
onConfirmedTransaction ==
  /\ Report
  /\ \E t \in Transaction :
       \/ Contains(confirmedTransactions, t) /\ UNCHANGED txVars
       \/ /\ ~Contains(confirmedTransactions, t)
          /\ confirmedTransactions' = Remembered(Append(confirmedTransactions, t))
          /\ notified' = Append(notified, t)
  /\ UNCHANGED <<syncVars>>

Next == onBlockchainInfoResult \/ onConfirmedTransaction

Spec == Init /\ [][Next]_statusVars

-----------------------------------------------------------------------------
\* Of any CONFIRMED_LIMIT bubbles in a row no two are for one transaction,
\* however often and in whatever order the server repeats its reports.
NotifiedOnce ==
  \A i, j \in DOMAIN notified :
    i < j /\ j - i < CONFIRMED_LIMIT => notified[i] # notified[j]

\* The bar is within its frame, empty until the state's download begins, and
\* full when all that is known is loaded; the speed is never negative, although
\* counts of different stages are compared.
ProgressInFrame ==
  /\ loadingItemsProgress \in 0 .. 100 /\ loadingStateSpeed >= 0
  /\ syncStatus.stage = "PivotBlock" => loadingItemsProgress = 0
  /\ syncStatus.stage = "StateNodes" /\ syncStatus.curCnt > 0
       /\ syncStatus.curCnt = syncStatus.knownCnt => loadingItemsProgress = 100

=============================================================================
