------------------------------- MODULE Pages --------------------------------
(***************************************************************************)
(* The pages of the web interface under one roof: the connection they      *)
(* share (module PageConnection) and the controllers of the routes, of the *)
(* status panel and of the dialogs, each a module of its own.  They share  *)
(* no state but the connection, so a behaviour is one of a single part,    *)
(* picked at the start; the others stay as their Init has them.            *)
(*                                                                         *)
(* The tree chart of the home page is module HomePage.                     *)
(***************************************************************************)
EXTENDS PageConnection, FiniteSets, Sequences, SequencesExt

CONSTANTS
  Filter, Matches, NoFilter, LINES_LIMIT, LogCount, LogVisits, LogFetches,
  Peer, Country, ServerLists, MaxUpdates, MaxBlinks,
  PAGE_SIZE, ShowAllSize, Sizes, MaxRequests,
  Contract, None, MaxAsked,
  File, MaxFiles, MaxSubmits,
  Method, MaxCalls,
  TermVisits, MaxLoads, MaxCommands,
  Transaction, CONFIRMED_LIMIT, Counts, Times, MaxReports, MaxNetworkInfos, MaxTests,
  MaxInfos, MaxPhrases, MaxClicks, MaxEdits

ASSUME PagesAssumption ==
  /\ LINES_LIMIT \in Nat \ {0} /\ LogCount \in Nat /\ LogVisits \in Nat /\ LogFetches \in Nat
  /\ NoFilter \in DOMAIN Matches /\ DOMAIN Matches \subseteq Filter
  /\ Matches[NoFilter] = 1 .. LogCount
  /\ DOMAIN Country = Peer /\ ServerLists \subseteq SUBSET (Peer \X BOOLEAN)
  /\ \A items \in ServerLists : IsFiniteSet(items)
  /\ \A items \in ServerLists, p \in Peer : {<<p, TRUE>>, <<p, FALSE>>} \cap items # {<<p, TRUE>>, <<p, FALSE>>}
  /\ PAGE_SIZE \in Nat \ {0} /\ ShowAllSize \in Nat \ {0} /\ Sizes \subseteq Nat
  /\ None \notin Contract
  /\ CONFIRMED_LIMIT \in Nat \ {0} /\ Counts \subseteq Nat /\ Times \subseteq Nat \ {0}
  /\ {MaxUpdates, MaxBlinks, MaxRequests, MaxAsked, MaxFiles, MaxSubmits, MaxCalls, TermVisits,
      MaxLoads, MaxCommands, MaxReports, MaxNetworkInfos, MaxTests, MaxInfos, MaxPhrases, MaxClicks,
      MaxEdits} \subseteq Nat

VARIABLES
  part,  \* the part this behaviour is about
  logged, logVisit, logVisits, fetches, filterValue, query, lines, pendingLogs,
  batchLogsTimer, isAutoScroll, handed, thrown,
  serverPeers, changes, received, peers, peersCount, activePeersCount, opts, blinkTimers,
  bubble, bubbleTimer,
  size, expanded, entries, totalElements, requests, requested, overlapped,
  watched, contracts, isViewingStorage, address, balance, fields, lastViewingItem,
  isImporting, importingError, asked, clicks, overtaken, synced, syncedBlock,
  newContract, files, allowFileUpload, submitErrorMessage, sent, submits, path, uploadLost,
  stats, calls, updates, rpcItems, visible, lastUpdate,
  termVisit, termVisits, hash, featureRpc, words, loads, polling, container, awaiting,
  executed, commands, running, modal,
  syncStatus, loadingItemsProgress, syncProgressMessage, loadingStateSpeed,
  lastStateUpdateTime, confirmedTransactions, notified, reports,
  homeStatus, homePending, networkInfos, testing, checks, portResult, tests,
  walletTotal, walletTimers, infosSent, prices, totalUSD, priceMissed, phrase,
  phraseAddress, generating, phraseTimer, phrases, importedOf,
  txData, sendOpen, edits, flows, submitted, unlockedBy

Log      == INSTANCE SystemLogPage
Peers    == INSTANCE PeersPage
Tree     == INSTANCE StorageTree
View     == INSTANCE ContractsPage
ViewForm == INSTANCE ContractForm
Usage    == INSTANCE RpcUsagePage
Term     == INSTANCE TerminalPage
Panel    == INSTANCE StatusPanel
Home     == INSTANCE HomeInfo
Purse    == INSTANCE WalletPage
Send     == INSTANCE SendDialog

Part == {"connection", "log", "peers", "tree", "view", "form", "usage", "term", "panel",
         "home", "purse", "send"}

logVars == <<logged, logVisit, logVisits, fetches, filterValue, query, lines,
  pendingLogs, batchLogsTimer, isAutoScroll, handed, thrown>>
peersVars == <<serverPeers, changes, received, peers, peersCount, activePeersCount,
  opts, blinkTimers, bubble, bubbleTimer>>
treeVars == <<size, expanded, entries, totalElements, requests, requested, overlapped>>
contractVars == <<watched, contracts, isViewingStorage, address, balance, fields,
  lastViewingItem, isImporting, importingError, asked, clicks, overtaken, synced,
  syncedBlock>>
formVars == <<newContract, files, allowFileUpload, submitErrorMessage, sent, submits,
  path, uploadLost>>
usageVars == <<stats, calls, updates, rpcItems, visible, lastUpdate>>
termVars == <<termVisit, termVisits, hash, featureRpc, words, loads, polling, container,
  awaiting, executed, commands, running, modal>>
statusVars == <<syncStatus, loadingItemsProgress, syncProgressMessage, loadingStateSpeed,
  lastStateUpdateTime, confirmedTransactions, notified, reports>>
homeVars == <<homeStatus, homePending, networkInfos, testing, checks, portResult, tests>>
walletPageVars == <<walletTotal, walletTimers, infosSent, prices, totalUSD, priceMissed,
  phrase, phraseAddress, generating, phraseTimer, phrases, importedOf>>
sendVars == <<txData, sendOpen, edits, flows, submitted, unlockedBy>>

pagesVars == <<part, vars, logVars, peersVars, treeVars, contractVars,
               formVars, usageVars, termVars, statusVars, homeVars,
               walletPageVars, sendVars>>

\* Parts that a behaviour is not about start in one state.
PagesInit ==
  /\ part \in Part
  /\ Init
  /\ Log!Init
  /\ Peers!Init /\ (part # "peers" => serverPeers = CHOOSE items \in ServerLists : TRUE)
  /\ Tree!Init /\ (part # "tree" => size = CHOOSE n \in Sizes : TRUE)
  /\ View!Init /\ (part # "view" => watched = {} /\ synced)
  /\ ViewForm!Init
  /\ Usage!Init
  /\ Term!Init /\ (part # "term" => hash = {} /\ featureRpc)
  /\ Panel!Init
  /\ Home!Init
  /\ Purse!Init
  /\ Send!Init /\ (part # "send" => txData.secret = "right" /\ txData.signType = "keystore")

\* Only part p moves.
Only(p) ==
  /\ part = p /\ UNCHANGED part
  /\ p # "connection" => UNCHANGED vars
  /\ p # "log"   => UNCHANGED logVars
  /\ p # "peers" => UNCHANGED peersVars
  /\ p # "tree"  => UNCHANGED treeVars
  /\ p # "view"  => UNCHANGED contractVars
  /\ p # "form"  => UNCHANGED formVars
  /\ p # "usage" => UNCHANGED usageVars
  /\ p # "term"  => UNCHANGED termVars
  /\ p # "panel" => UNCHANGED statusVars
  /\ p # "home"  => UNCHANGED homeVars
  /\ p # "purse" => UNCHANGED walletPageVars
  /\ p # "send"  => UNCHANGED sendVars

PagesNext ==
  \/ Only("connection") /\ Next
  \/ Only("log")   /\ Log!Next
  \/ Only("peers") /\ Peers!Next
  \/ Only("tree")  /\ Tree!Next
  \/ Only("view")  /\ View!Next
  \/ Only("form")  /\ ViewForm!Next
  \/ Only("usage") /\ Usage!Next
  \/ Only("term")  /\ Term!Next
  \/ Only("panel") /\ Panel!Next
  \/ Only("home")  /\ Home!Next
  \/ Only("purse") /\ Purse!Next
  \/ Only("send")  /\ Send!Next

PagesSpec == PagesInit /\ [][PagesNext]_pagesVars

\* The fairness of the parts, each where it is the one that moves.
PagesFairness ==
  /\ WF_vars(part = "connection" /\ SocketOpen)
  /\ WF_vars(part = "connection" /\ ConnectedFrame)
  /\ WF_vars(part = "connection" /\ OnConnected)
  /\ WF_vars(part = "connection" /\ ReconnectTimer)
  /\ WF_vars(part = "connection" /\ ServerHandles)
  /\ WF_vars(part = "connection" /\ \E t \in PageTopic : Push(t))
  /\ WF_logVars(part = "log" /\ \E v \in Log!LogVisit : Log!BatchLogsTimer(v))
  /\ WF_peersVars(part = "peers" /\ Peers!peersListEvent)
  /\ WF_peersVars(part = "peers" /\ Peers!BlinkTimer)
  /\ WF_contractVars(part = "view" /\ View!newBlockFromEvent)
  /\ WF_contractVars(part = "view" /\ View!IndexReady)
  /\ WF_contractVars(part = "view" /\
       \E i \in DOMAIN asked : View!Answer(i) \/ View!RequestFailed(i))
  /\ SF_contractVars(part = "view" /\ \E i \in DOMAIN asked : View!StatusAnswered(i))
  /\ SF_contractVars(part = "view" /\ \E i \in DOMAIN asked :
       View!ImportAnswered(i) \/ (View!Answered(i, "import") /\ View!RequestFailed(i)))
  /\ WF_termVars(part = "term" /\ Term!initialInfo)
  /\ WF_termVars(part = "term" /\ \E v \in Term!TermVisit : Term!ExecTimer(v))
  /\ \A v \in Term!TermVisit :
       /\ WF_termVars(part = "term" /\ Term!Poll(v))
       /\ WF_termVars(part = "term" /\ (Term!MethodsAnswered(v) \/ Term!MethodsFailed(v)))
       /\ SF_termVars(part = "term" /\ Term!MethodsAnswered(v))
  /\ WF_sendVars(part = "send" /\ \E f \in DOMAIN flows : Send!FlowSteps(f))

PagesFairSpec == PagesSpec /\ PagesFairness

-----------------------------------------------------------------------------
\* AppCtrl has one way forward, and the page, its subscriptions and the server
\* agree on what it listens to (module PageConnection).
ConnectionAgrees == TypeOK /\ SingleLifeline /\ SubscribedForPage /\ ServerAgrees

\* A route that stays on screen is served by each of its topics, through
\* losses of the connection and changes of route while it was down, unless a
\* callback that came after a loss has stored them dead (module PageConnection).
RouteServed == part = "connection" => PageServed

\* Batching and filtering of the log lose and hide no line they should not
\* (module SystemLogPage).
LogShown == Log!TypeOK /\ Log!NoLineLost /\ Log!FilterApplied

\* A line that waits for its batch is shown, and lines above the limit are
\* removed as soon as the page scrolls (module SystemLogPage).
LogCatchesUp == Log!PendingShown /\ Log!BoundedWhileScrolling

\* Peers are listed once and the map is coloured by the last update, whichever
\* timers fire late (module PeersPage).
PeersShown == Peers!TypeOK /\ Peers!ListedOnce /\ Peers!MapShowsActive

\* Later updates repair the list (module PeersPage).
ListConverges == part = "peers" => Peers!ListConverges

\* What is shown of a contract belongs together: its balance and fields, and
\* the order of its storage's entries (modules ContractsPage, StorageTree).
ContractShown ==
  View!TypeOK /\ View!ShownBelongsTogether /\ Tree!TypeOK /\ Tree!ChildrenInOrder

\* An import ends and the index's status is known at last (module
\* ContractsPage).
ImportAndStatusEnd == View!ImportEnds /\ (part = "view" => View!StatusKnown)

\* Answers and updates are shown whatever their number or order: a submitted
\* contract's (module ContractForm), the counts of the methods (RpcUsagePage),
\* the value of the wallet (WalletPage); and those with the names of the
\* methods run a command of the URL at most once (TerminalPage).
AnswersShown ==
  /\ ViewForm!SubmitShown /\ Usage!CountsShown
  /\ Purse!TypeOK /\ Purse!UsdOfTotal
  /\ Term!TypeOK /\ Term!UrlCommandOnce

\* A visit that lasts gets its terminal, and the command in the URL is run
\* (module TerminalPage).
TerminalServed == Term!TerminalOpens

\* Bubbles, progress bar and port test show each report for what it is
\* (module StatusPanel).
StatusShown == Panel!NotifiedOnce /\ Panel!ProgressInFrame /\ Home!PortsAnswered

\* A transfer is that of the click, and an imported address that of the phrase
\* on screen (modules SendDialog, WalletPage).
DialogsConfirmed == Send!TypeOK /\ Send!SpendsAsConfirmed /\ Purse!ImportedOfPhrase

\* An account the dialog has unlocked is asked to be locked again
\* (module SendDialog).
LockFollowsUnlock == Send!LockFollowsUnlock
=============================================================================
