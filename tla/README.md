# Verification of Harmony

Harmony is a web front end and a JSON-RPC server around an Ethereum node
(ethereumj). The node itself (sync, block import, the EVM, the pending state)
is a library. What this repository adds, and what these modules are about, is
the state that the server and its pages keep *next to* the node: installed
filters, unlocked accounts, wallet entries and key files, the external miner's
work, block history, call statistics, contract metadata; and what the browser
keeps: subscriptions, buffers, charts, forms, and the keys it signs with. Every
part of the server is a few hundred lines, has no transaction and mostly no lock,
and is entered by several threads at once:

| thread | enters through | source |
|---|---|---|
| RPC threads | `JsonRpcController` -> `EthJsonRpcImpl`, `JsonRpcUsageFilter` | `jsonrpc/`, `web/filter/` |
| web-socket threads | `WalletController`, `WebSocketController`, `ContractsController` | `web/controller/` |
| listener dispatch thread | ethereumj's `EventDispatchThread` calls `EthereumListener`s one event at a time | `EthJsonRpcImpl:261`, `WalletService:154`, `BlockchainInfoService:160`, `PrivateMinerService:67` |
| import thread | extends the chain, queues listener events; calls `MinerIfc.mine` | ethereumj |
| scheduled threads | `@Scheduled` methods | `BlockchainInfoService`, `JsonRpcUsageService`, `PeersService`, `WalletService:239` |

The browser has one thread. There what interleaves are handlers: clicks, timers,
messages of the socket, answers of requests, each of which runs to its end.

Paths below are relative to `src/src/main/java/com/ethercamp/harmony/` unless
they start with `static/` (`src/src/main/resources/static/`).

## 1. Inventory

**JSON-RPC filters** (`jsonrpc/EthJsonRpcImpl.java`). State: `installedFilters`
(a Hashtable id -> Filter), inside each filter a list of at most 1024 events and
a poll start, `pendingReceipts` (an LRU map of 1024). Operations: `eth_newFilter`,
`eth_newBlockFilter`, `eth_newPendingTransactionFilter`, `eth_getFilterChanges`,
`eth_getFilterLogs`, `eth_getLogs`, `eth_uninstallFilter`,
`ethj_getTransactionReceipt`; the listener's `onBlock`,
`onPendingTransactionsReceived`, `onPendingTransactionUpdate`. Hard: the listener
iterates the table while RPC threads change it; `eth_newFilter` is visible before
it is armed. Correct when: a poll hands out each event once and in order, loses
only what overflow pushed out; each filter reports the history it asked for and
then the news; receipts of included transactions are not pending.

**Unlocked accounts and signing** (same file). State: `unlockedAccounts`, and
the keystore it reads. Operations: `personal_unlockAccount`,
`personal_lockAccount`, `eth_sign`, `eth_sendTransaction`,
`personal_signAndSendTransaction`. Hard: lock and unlock racing, address forms,
keys removed while unlocked, two sends reading one nonce. Correct when: an
account is usable only after its password was proved and not after it was locked.

**External miner** (same file). State: `miningBlock`, `miningTask`,
`miningBlocks`, `minerInitialized`. Operations: `eth_getWork`, `eth_submitWork`,
the `mine` callback of the node. Hard: three unsynchronised fields between RPC
threads and the node; work handed out for a block that is no longer mined.
Correct when: a task is completed at most once, with the work that was handed
out for a block.

**Wallet addresses and stores** (`service/WalletService.java`,
`service/wallet/FileSystemWalletStore.java`). State: `addresses` in memory,
wallet.json, key files. Operations: `newAddress`, `importPersonal`,
`importAddress`, `removeAddress`, `init`. Hard: three stores changed one after
the other, crashes between, concurrent requests. Correct when: no key is lost,
every key is listed, a removed address stays away, disk and memory agree.

**Wallet balances and confirmations** (`service/WalletService.java`). State:
`pendingSendTransactions`, `pendingReceiveTransactions`, the subscription flag.
Operations: `handleBlock`, `handlePendingTransactionsReceived`,
`getWalletInfo`. Hard: addresses come and go between a transaction's arrival
and its block. Correct when: a pending amount is shown exactly while its
transaction is pending, and the client hears of the confirmation.

**Keystore files** (`keystore/FileSystemKeystore.java`). State: a directory of
files named by minute and address. Operations: store, remove, list, has, load.
Correct when: an address has one file and removing it removes the key.

**Block history and sync status** (`service/BlockchainInfoService.java`,
`util/BlockUtils.java`). State: the queues `lastBlocksForHashRate` (100) and
`lastBlocksForClient` (50), the last log lines, four snapshots for the pages
(machine, chain, network, initial info), the cached size of the database.
Operations: `postConstruct`, `onBlock`, `addBlock`, the schedules. Hard: the
listener is added before the history is replayed; `addBlock` checks and trims
without a lock. Correct when: the queues are the newest blocks in order.

**Private miner status** (`service/PrivateMinerService.java`). State: `status`,
`latestBlocks`. Operations: `init`, the callbacks of the node's miner
(`miningStarted`, `miningStopped`, `blockMined`, `onDatasetUpdate`), which
`miner_start` and `miner_stop` of `EthJsonRpcImpl` set off. Hard: callbacks of
several threads write one plain field; only some of them push it to the pages.
Correct when: status and page follow the miner.

**RPC usage statistics** (`service/JsonRpcUsageService.java`,
`web/filter/JsonRpcUsageFilter.java`). State: `stats`, per method a count, the
last call and the last result. Operations: `methodInvoked` (batch requests
method by method), the scheduled `doSendRpcUsage`. Hard: the three values are
updated separately; a batch is counted by position.

**Contracts** (`service/contracts/*`). State: four stores on disk (sources,
creation blocks, settings, the storage dictionary) and `syncedBlock`.
Operations: `addContract`, `uploadContract`, `deleteContract`,
`importContractFromExplorer`, `clearContractStorage`, the listener's `onBlock`.
Hard: stores written one after the other; steps that fail in between. Correct
when: what is listed was added and matched, and a contract is shown as fully
indexed only if it is.

**Configuration and port filter** (`config/*`). State: none after start.
Correct when: a request reaches a module only through the port that module is
configured for.

**Transaction sending and block parameters** (`jsonrpc/EthJsonRpcImpl.java`,
`TypeConverter.java`). State: none of its own; the nonce of a sent transaction
is read from the node's pending state. Hard: two sends at once.

**Peers** (`service/PeersService.java`). State: none beside the node's tables;
a copy is sent every 1.5 s.

**Web interface: connection and routes** (`static/js/app/app.controller.js`).
State: the STOMP client, `isConnected`, `topicStorage`, the route. Operations:
`connect`, its callbacks, `disconnect`, `updatePageSubscriptions` on a change of
route, the five-second timer. Hard: a promise's callback runs after the event
that resolved it; connections fail at any time; the server handles frames in any
order. Correct when: there is one connection or one timer, and the page holds
live subscriptions to its route's topics and to no others.

**Web interface: home page and tree chart** (`home.controller.js`,
`blockchain-view/blockchain-view.js`). State: buffered blocks, timers, the
chart's `rawData`, `blockStore` and `renderColumns`, status texts. Hard: pushed
blocks, snapshots, reconnects and visits of the page interleave; the chart
outlives the page. Correct when: every block comes to be drawn, the three
structures hold the same blocks, and the marked chain is the heaviest.

**Web interface: the other pages**. System log (`systemLog.controller.js`: lines
in batches, filter, limit), peers (`peers.controller.js`: list and map updated in
place), contracts (`contracts.controller.js`, `contract.new.controller.js`:
list, storage tree, import, form), RPC usage (`rpcUsage.controller.js`), terminal
(`terminal.controller.js`), status panel and bubbles (`app.controller.js`),
wallet and its dialogs (`wallet.controller.js`, `popups.controller.js`). Hard:
requests answered in any order, late, or not at all; timers that outlive the page;
forms edited while a chain of requests runs. Correct when: what is shown belongs
together and to what is asked for, what is sent is what was confirmed, and what
was begun ends.

**Signing library** (`static/js/eth/eth-util.js`, `rlpBuilder.js`). A bundle that
the pages reach as `EthUtil` and `RlpBuilder`: big integers, modular arithmetic,
curve points, keys and signatures, RLP, transactions, hashes. State: what a
hasher, a generator of nonces, a transaction or a `TxRlpFormatter` keeps between
calls. Hard: estimated quotient digits, carries, sparse digit forms, tables,
paddings, codings; a nonce that must be tried again; prototype methods that the
last constructor takes over. Correct when: every operation returns what the
number, point or text it stands for is, and a transaction that is sent is the one
confirmed, signed by its sender.

**Start-up, controllers, DTOs, encryption**. Forwarding, wiring and formatting,
no state that outlives a call.

## 2. Plan

Written in this order, the parts that keep the most shared state first:

| step | modules | subject | status |
|---|---|---|---|
| 1 | `FilterBuffer`, `RecentEvents`, `EventFilter` | one filter, its abstract promise, the refinement | done, proved in `FilterRegistryProofs` |
| 2 | `FilterRegistry`, `FilterRegistryProofs` | table of filters, listener walk, pending receipts | done, proved |
| 3 | `Wallet`, `WalletProofs` | wallet entries, key files, wallet.json, crashes | done, proved |
| 4 | `Accounts`, `AccountsProofs` | unlock, lock, sign | done, proved |
| 5 | `ExternalMiner`, `ExternalMinerProofs` | work handed out and submitted | done, proved |
| 6 | `WalletPending`, `WalletPendingProofs` | pending entries, confirmations, page pushes | done, proved |
| 7 | `BlockHistory`, `BlockHistoryProofs` | last blocks at start and after | done, proved |
| 8 | `PageConnection` | the pages' connection and subscriptions | done, proved in `PagesProofs` |
| 9 | `BlockTree`, `HomePage`, `HomePageProofs` | the tree chart and what feeds it | done, invariants proved |
| 10 | `SystemLogPage`, `PeersPage`, `StorageTree`, `ContractsPage`, `ContractForm`, `RpcUsagePage`, `TerminalPage`, `StatusPanel`, `HomeInfo`, `WalletPage`, `SendDialog`, `Pages`, `PagesProofs` | the controllers of the other pages and dialogs | done, invariants proved |
| 11 | `BigNumber`, `BigNumberText`, `ModularNumber` | integers of the signing library | done |
| 12 | `CurvePoints`, `Secp256k1` | points, keys, signatures and their codings | done |
| 13 | `Rlp`, `Transactions`, `TransactionBuilder`, `Hashing` | what is signed and sent, and its hashes | done |
| 14 | `Contracts`, `MinerStatus`, `RpcUsage`, `ModulePorts` | the server's other services | left |
| 15 | reorganisations in `FilterRegistry` and `WalletPending`; failures of the block store in `eth_getLogs` | | left |

`FilterRegistry` and `EventFilter` share the operators of `FilterBuffer`, so
what is proved of one filter is about the buffers of the table too. `Accounts` sees the keystore as a
function from addresses to passwords, which is what `Wallet` maintains
(one file per address while requests come one at a time). `HomePage` extends
`BlockTree`; `Pages` extends `PageConnection` and instantiates the other pages.
`TransactionBuilder` extends `Transactions`, which extends `Secp256k1`
and `CurvePoints`. `SendDialog` is the same dialog from the other side: there the
requests and the edits interleave and signing is one step, in `TransactionBuilder`
signing is unfolded.

Every invariant of the runs is proved, except the two of the run `library`: its
modules are recursive, which the provers do not handle (section 7).

## 3. Modules and code

### The server

A step of a module is one access to a shared object of the code: one call on a
concurrent map, one file operation, one read or write of a volatile field. What
a thread keeps in local variables between two accesses is its record in `task`,
`call`, `walk`, `handling`, `start` or `adding`. Variables named under "History"
or "bounds" in a module are not in the code: they remember what the properties
speak about. Guards read the bounds, and `fresh` of `Wallet` (a key just
generated has an address nobody has used); nothing else of them.

`FilterBuffer`: `Filter`'s bounded list and poll start as pure operators
(`Added` = `add`, `Polled` = `poll`, `Retained` = `getAll`). `EventFilter` runs
them with a full log beside them; `RecentEvents` is the abstract promise, a log
and the place of the last poll, and `Promise` in `EventFilter` maps the buffer
to it.

`FilterRegistry`: every filter object ever made, the table of ids, the walk of
the listener over it, the LRU map, and per RPC thread the steps of
`eth_newFilter`: install, read the range, add history block by block, arm. The
chain grows between the reads: `ResolveFrom` reads the first block, `ResolveTo` the
last, which is null if it is not there yet, and `ResolveBest` the best block in its
place.
`eth_getLogs` continues with poll and uninstall. `Visit` handles the next
filter while the table is as it was when the walk began; `EndWalk` ends the walk
otherwise, as the fail-fast iterator of a Hashtable does. Every block has one log that every
filter matches; topic and bloom matching would only remove events.

`Wallet`: the keystore is a set of files [minute, address];
`removeKey` deletes the first match. `newAddress`, `importPersonal`,
`importAddress` and `removeAddress` are chains of steps (check, create, fill,
put, snapshot, truncate, write); `FlushFails` and `Crash` can hit between any
two, and `Restart` is `init` over what is on disk.

`Accounts`: `unlockedAccounts` holds pairs of address and written form. Unlock
loads and later puts; lock removes the form it was given; signing looks up the
plain form.

`ExternalMiner`: `mine` writes `miningBlock`, `miningTask`, and reads
`miningTask` again; `eth_getWork` registers the miner, reads the block, puts the
work; `eth_submitWork` removes the work, checks, sets and clears the task, each
a step.

`WalletPending`: the listener takes an event with a snapshot of the addresses
and handles its transactions one by one; clients, the schedule and the listener
push the wallet info in two steps, computing and sending. Amounts are
abstracted to the set of transactions that count for an address.

`BlockHistory`: `postConstruct` registers the listener, reads the best block
and replays; both threads run `addBlock` one queue access at a time.

### The pages

A step is one handler: a click, a timer, a message of the socket, an answer. A
scope of a controller that was left still has its timers, so state that belongs
to a scope is a function of the visit (`LogVisit`, `Visit`, `TermVisit`), and
state of the script or of a service is one variable. Requests under way are
elements of a sequence or a set that is answered, or fails, in any order.

`PageConnection`: `client` (socket connecting, opened, open, closed), the promise's
callback due (`resolved`), the timers, the frames the server has not handled yet, and
its subscriptions; the broker is external and handles frames in any order. `$q` calls
the callback in a task of its own, so `ConnectionLost` may come between
`ConnectedFrame` and `OnConnected`. `updatePageSubscriptions` goes through the topics in
the code's order: a socket that is connecting throws at the first one to be subscribed
to, one that is closed drops the frame in silence, and the topic is stored all the same.
The reconnect timer waits for a callback that is due: its task was set with no delay,
the timer with five seconds.

`BlockTree`: one operator per function of the chart, over a record of its three
structures; a cell of the grid holds a block, a copy that `rawData` does not have
("ghost"), or a block whose copy was removed in its place ("stale"), which is what
comparing by object and removing by hash can leave. `HomePage` adds the controller:
buffering, the two-second timer, visits, reconnects and the server.

`Pages` puts the other controllers under one specification. They share no state
but the connection, so its behaviours are those of one part each, picked at the
start: the same behaviours as in twelve runs, with one bound and one
configuration each. Formatting, colours and scrolling are left out; what a list,
a map or a dialog holds is kept.

### The signing library

Words are of `W` bits and not 26, so that carries, estimates of quotient digits and
multiplications of every kind happen with integers that TLC can compute as they
are; digits, windows, tables and thresholds are constants too. `BigNumber`
transcribes bn.js word by word, sign and leading zeros included; `BigNumberText`
its text and byte forms; `ModularNumber` the contexts of reduction, Montgomery form
and the fast reductions. The last section of `BigNumber` says what each operation
is to return for two integers.

`CurvePoints` computes with integers modulo P, since `ModularNumber` shows that the
contexts do: affine and Jacobian points, doublings for A = 0, A = -3 and others,
the four ways to multiply, the endomorphism. `Secp256k1` adds keys, the generator of
nonces, `sign`, `verify` and the recovery of keys, and then the codings and the
checks of the outer interface; where the code throws, the value is `NoBytes`,
`NoPoint` or `NoSignature`. `Rlp` and `Transactions` are rlp, ethereumjs-util and
ethereumjs-tx. Their hashes are parameters, and small in the run; `Hashing` is the
real ones at their real size, a word being the set of its bits.

`TransactionBuilder` is the one part with a state: formatters made so far, the loop
of nonces, what was sent. `MCLibrary` calls everything else: an action picks the
operands of a call, and the property of that step (`AnswersExact`) compares what the
functions return for them with what they should.

### Mutants

The modules `MC...` hold the requests, senders, operands and the symmetry set that the
configurations name. In every module an operator whose comment begins with
"Mutant of" is a plausible slip of the operator it names; it is used by no
action, and putting it in the place of that operator breaks the property that
`PROJECT.json` pairs it with. That each property can be broken this way is
evidence that it depends on the code it is about.

## 4. Runs

| run | shows | bounds |
|---|---|---|
| `event_filter` | `RetainsNewest`, `CursorAtFirstUnread`: the buffer is the newest events and the poll start is at the first unread one; `ImplementsRecentEvents`: refinement of `RecentEvents` | limit 3, two events, 7 adds: overflow more than twice over, polled and unpolled |
| `filter_blocks` | `ExactDelivery`: an armed filter gets each block of a completed walk once; `AnswersInOrder`: history and then news, in order, a closed range exactly if its end was there | limit 2, two clients, two filters, two blocks after genesis: an install races a walk and a second filter, blocks are imported between the reads of a range |
| `filter_pending` | `ReceiptsTracked`: which receipts the LRU map holds; `EveryBlockDispatched` under fairness | three events of two transactions over a map of one, one client, one filter, one block: a receipt is pushed out, removed after its eviction, and removed by its block |
| `wallet_stores` | `GeneratedKeyKept`, `StoredKeysListed` whatever overlaps; `DiskMatchesMemory`, `RemovedStaysGone`, `NothingTwice` until two calls overlap | two threads, three operations over one generated, two imported and one watched address, two crashes, one failed write, two minutes |
| `accounts_plain` | `UsableOnlyIfProven`, `LockHolds` | two threads, addresses, passwords; no other bound |
| `accounts_prefixed` | violated `LockHolds` | |
| `miner_pair` | `AcceptedOncePerWork`, `OfferedTaskIsOpen`, `DeliveredWasAccepted` | two threads, two blocks, three tasks, two works per block |
| `pending` | `PendingSound`: a transaction counts from its arrival to its block; `PageConverges` under fairness | one transaction that leaves the wallet and one from an address to itself, the address added or removed at any time by one client: three pushers overtake each other |
| `history` | `NewestWithinLimits`: bounded queues, the newest blocks if none arrives during the replay; `HealsAfterStart` | limits 3 and 2 (100 and 50 in the code), block 2 stored, six more at any time: the replay starts over a chain shorter than the limits or longer |
| `home_chart` | `ChartSound`: `rawData`, `blockStore` and cells hold the same blocks, no two cells overlap; `ChainsShown`: the marks are the heaviest chain, the lines reach the root; `BlocksDrawn` under fairness, but for a visit whose timer came before the chart | six blocks with two forks, five imported in order, three kept by the chart, two visits: blocks are evicted, repeated after their eviction, and overtaken by snapshots |
| `pages` | see below | every part: two or three clicks, visits, updates, files, failures, and every order of their answers |
| `library` | `AnswersExact`: each call returns what its operands stand for; `SignedRight`: what is sent is what was confirmed, signed by its sender, within a few nonces | words of 10 bits, factors of up to ten words by every way to multiply, three curves with P near 2^7, bytes of 4 bits; hashes at real size over texts around the ends of blocks |

The properties of `pages`, each with the module it is about: `ConnectionAgrees` and
`RouteServed` (`PageConnection`: one way forward, subscriptions of page and server
agree, a route that stays is served unless a late callback left its topics dead),
`LogShown` and `LogCatchesUp`
(`SystemLogPage`: no line lost or out of order, none waits for ever), `PeersShown`
and `ListConverges` (`PeersPage`: map of the last update; later updates repair the
list), `ContractShown` and `ImportAndStatusEnd` (`ContractsPage`, `StorageTree`),
`AnswersShown` (`ContractForm`, `RpcUsagePage`, `WalletPage`, and a command of the
URL run at most once), `TerminalServed`
(`TerminalPage`), `StatusShown` (`StatusPanel`, `HomeInfo`), `DialogsConfirmed` and
`LockFollowsUnlock` (`SendDialog`, `WalletPage`: the amount and secret of the click
are what is signed; an account the dialog has unlocked is asked to be locked).

The limits of the code (1024 events, 1024 receipts, 100 and 50 blocks, 100
transactions) become 1 to 3: what matters is that queues fill, overflow and wrap
within the run, and every run goes past its limits. The bounds on operations stop
the counters, not the behaviour: they let every pair of operations overlap at
every step. In `library` words and curves are small so that every case of the
library happens with a few hundred operands: estimates of a quotient digit that
are one too large, carries out of the top word, every digit of a window, points
that add to infinity, an abscissa above N, nonces that cannot be used, s above
half of N, a coding with a high first bit.

Deadlock is checked, with exceptions where the system really stops. In `Wallet`, a
start over a torn wallet.json throws and the server stays down, and the operations
end at their bound. In `BlockHistory`, a program whose blocks have all arrived is
idle. A page whose user does nothing more is idle, and a library nobody calls is.

## 5. Fairness

`FilterRegistry!FairSpec`: the dispatch thread keeps handling its queue; it takes no
lock that anyone holds for long. Nothing is assumed of clients, of calls that have
begun, of the chain or of the pending state: those may stop for ever.

`WalletPending!FairSpec`: the dispatch thread handles what is queued, a thread
that has a push to make makes it, and `@Scheduled(fixedRate = 60000)` comes
round again and again. Weak fairness is enough: none of these steps can be
disabled by another thread except by being done.

`Pages!PagesFairSpec`, `HomePage!FairSpec`: a socket that is not lost opens, the browser
calls timers and callbacks
that are due, the server handles frames and keeps sending, requests are answered
or fail. Strong fairness is assumed in three places, of answers that do come: a
request that is sent again and again (the terminal's poll, the status of the
index, an import's) is answered in the end. Nothing is assumed of the user or of how
soon the configuration comes, and connections may fail up to their bound at any time,
between the CONNECTED frame and the callback of its promise too.

## 6. Findings

`accounts_prefixed`: locking an address written with 0x locks nothing
(`EthJsonRpcImpl:1550`), and the pages write it so (`popups.controller.js:196`);
after a transfer from the send dialog the account stays unlocked.

Other things the models do as the code does, and which the properties leave out
by their conditions:

- The chain is read up to three times for one range (`EthJsonRpcImpl:1067-1073`). If
  the last block a request names is not there at 1068, the best one of 1073 stands in
  for it, and that may by then be a later one: `eth_getLogs` for 0 to 1 can answer
  block 2. `ClosedRangeAnswer` therefore asks for exactly the range only if its end was
  there when the call began, and otherwise that nothing of it is left out that was.
- A filter for one block hash goes on to report new blocks
  (`EthJsonRpcImpl:1082`, against EIP-234 as `JsonRpc.java:169` cites it);
  confirmations are sent only while the node is syncing (`WalletService:176`); a
  block that arrives during the replay of the history pushes out the newest ones
  (`BlockchainInfoService:161`).
- Two imports at once can take the same vacant name, or leave two key files for
  one address, and two flushes at once can leave the older map in wallet.json
  (`WalletService:335`, `FileSystemKeystore:65`, `WalletService:420`): the
  properties of `Wallet` about names, files and wallet.json hold until
  two calls overlap (`overlapped`).
- An unlocked account signs after its key was removed (`EthJsonRpcImpl:360`).
- A transaction the node dropped, or whose address was removed, stays in the
  pending maps (`WalletService:154`).
- Two submissions at once can complete one future, so that an accepted solution
  goes nowhere (`EthJsonRpcImpl:1173`).
- A connection can be lost between the CONNECTED frame and the callback of `connect`
  (`app.controller.js:301`). The callback does not ask: the page counts as connected and
  `topicStorage` keeps subscriptions that were never sent. The next connection finds
  them stored and does not subscribe (`app.controller.js:345-346`), so the topics of
  that route are not served until the route changes or the connection is lost once
  more; a change of route while the next socket is connecting throws half-way through
  `updatePageSubscriptions`. `SubscribedForPage` and `PageServed` except only what such a
  callback left (`calledLate`): they say what is stored then, that the client open by then
  serves every other topic, and that nothing else leaves a topic dead.
- The two-second timer of the home page has no guard for a chart that is not there
  (`home.controller.js:130-135`): if `initialInfo` takes longer, it throws,
  `timeoutPromise` is never reset, and what that visit buffers from then on is not
  drawn, the chart coming or not. `BlocksDrawn` excepts such a visit
  (`timeoutPromise[v] = "failed"`) and no other.
- Answers that come late are shown for the contract or the tree entry on screen by
  then (`contracts.controller.js:215`): `ContractShown` stops where one did. The marks of
  the chart are of total difficulties counted from the oldest block it keeps
  (`blockchain-view.js:117`), and so is the reference of `ChainsShown`. An unlock and a
  lock of one account at once end either way (`EthJsonRpcImpl:1537`).
- The list of peers is wrong for a moment when two peers go at once:
  `peers.controller.js:41` says "sorted DESC indexes", and they are ascending.
  `ListShowsServer` of `PeersPage` states what is meant and does not hold;
  `ListConverges` does.
- The chart does not reject every duplicate (`blockchain-view.js:96`): a block
  that was evicted and comes again is drawn as a copy ("ghost").
- While the filter of the log is no regular expression, lines are not shown and
  the batch's timer is not reset until the next visit (`systemLog.controller.js:135`).
- The recipient of a transfer is read when the prices are there and not when the
  user clicks (`popups.controller.js:107`), so it may be the edited one.
- Of the library: `imaskn` is wrong for a number shorter than the mask,
  `iaddn`/`isubn` can leave -0, `divRound` is wrong for negative quotients, text
  in base 16 loses its zero padding, `invmp` returns a congruent number, `sign`
  never takes the nonces 1 and N - 1, `recoverPubKey` does not truncate the
  message, a compressed key is not checked to be on the curve, the getter of RLP
  lengths returns the header's length of a long buffer, `hash.update` of
  `SHA3Hash` in `eth-util.js:19461` replaces what it was given before, and the
  defaults of gas limit and gas price in `rlpBuilder.js:149-157` are swapped. A
  signature with a recovery parameter of 2 or 3, one in 2^127, makes a transaction
  whose sender cannot be found. The pages call none of these with operands that
  matter.

## 7. Proofs

Each theorem holds for every value of the constants, under the assumption its
module names (`MaxEventCountAssumption`, `AccountsAssumption`,
`MinerAssumption`, `WalletAssumption`, `PendingAssumption`, `HistoryAssumption`,
`PageConnectionAssumption`, `PagesAssumption`, `RegistryAssumption`, `BlockTreeAssumption`,
`HomePageAssumption`), which TLC evaluates in the runs.

`FilterRegistryProofs`, one filter alone (`EventFilter`). The
invariant `OneInv` is `FilterTypeOK`, `RetainsNewest` and `CursorAtFirstUnread`
together: the buffer is the newest events of the log, and
the poll start is as many places from its end as there are unread events, cut
off at the limit. `FilterTypeOK` alone is not inductive: nothing in it keeps the poll
start inside the buffer when `add` drops an event.
`OneTypeCorrect`, `BufferCorrect` and `CursorCorrect` follow. `Implementation`
maps a poll to the abstract poll and an add to the abstract add; it needs the
invariant, because the list and the poll start are shifted together only when
the buffer is full. Lemmas on `SubSeq` of an appended and of a shifted sequence
carry the arithmetic.

`FilterRegistryProofs`, the table. Three theorems. `FilterDelivery`: `ExactDelivery` for any clients,
requests, transactions and limits. It speaks of filters that take blocks and of
blocks whose turn has come, so it cannot be carried from step to step alone.
`EventsInOrder` says that the queue holds the blocks after the one dispatched
last, each once and in order, so a walk is always for the next block. `Histories`
says that a filter between `eth_newFilter`'s put and its flags belongs to one
thread, takes no event, and reports exactly the history up to the thread's
counter. `Arming` says that a filter is armed for blocks that have yet to reach
it, whether the arming falls before, in or after a walk. `Delivered` is
`ExactDelivery` for all numbers, blocks to come included. What an action does to
the table is stated once per action (`VisitFacts`, `ArmFacts`, ...), and the three
parts are proved from these facts.
`AnswersCorrect` builds on that invariant. `Retains` says that a buffer is the
newest part of all its filter was ever told, as long as the limit lets it be;
`Told` and `Complete`, that this is the whole history, then news, each in order;
`Progress`, how far a call has brought its filter, which nobody polls before the
call does; `Ranges`, between which best blocks the range of a call was read, one read at
a time. A filter that takes an event is not being built, so its history is
complete: that is where the order of `eth_newFilter` is needed. `WholeRange`
reads the answer of a closed range off these.
`ReceiptsCorrect`: the map has no key twice, so it is full only if as many
transactions were updated (`LengthBound`, by the pigeonhole theorem). The lemmas
`WithoutFacts`, `TouchFacts` and `PutFacts` say what the LRU map's operations keep.

`AccountsProofs`. `UsableOnlyIfProven` is not inductive: a thread that has
loaded a key has yet to put it, so the invariant adds that a loaded account has
been proved. `LockCorrect` assumes `LockForm = {"plain"}`, without which it is
false (`accounts_prefixed`); its invariant adds that an account being put has
not been locked since its unlock began.

`ExternalMinerProofs`. `OfferCorrect`: only `SetResult` completes a task, and it
leaves its thread about to clear. `AcceptedOnceCorrect` strengthens the count
by the work that waits in the map: for each block, works accepted, being
submitted and waiting are at most those handed out. Only `eth_submitWork` moves
a unit from the map to a submission; lemmas on the cardinality of the set of
submitting threads give the arithmetic, with the set of threads finite.
`DeliveryCorrect` compares, per block, the completed futures that hold it with the
submissions accepted or about to answer; `set` on a completed future changes
nothing, and on an open one adds one to both sides.

`PagesProofs`. The seven invariants of `pages`, each for any routes, contracts, lines,
limits and any number of events. A step of the pages is a step of one part and leaves
the others alone (`EachPartSteps`), so each part has an invariant of its own.

- Connection (`ConnectionHolds`, and its parts `OneLifeline`, `SubscriptionsOfRoute`,
  `ServerAndPageAgree`). The invariant adds `ClientState`: a callback is due only for a
  client that was open, a live subscription belongs to a client that sends, and but for
  a late callback the page is known as connected only while it has run for the open
  client. Without it a timer could fire while a live topic is stored. `UpdateKeeps` says
  of every client and route that `updatePageSubscriptions` leaves page and server agreed,
  also where it stops half-way.
- Status panel and ports (`StatusHolds`). The transactions remembered are the last ones
  a bubble was shown for; a percentage that is rounded stays between 0 and 100. The
  proof failed for a first version of `ProgressInFrame`, by which a full bar means that
  everything is there: the bar is rounded, so it can be full a little earlier, and the
  property now says only that it is full when everything is there.
- Dialogs (`DialogsHold`). A chain of requests carries the amount and the secret of its
  click to its end, and is sent only with a secret that fits.
- Form, counts, terminal and value (`AnswersHold`). The counts carry the number of the
  update they are from; a visit of the terminal has run the command of its URL, waits to
  run it, or never will; while a price is awaited it will be multiplied with the total
  shown then.
- Contracts (`ContractsHold`). As long as nothing was overtaken, the fields shown are of
  the contract whose name is shown, or are still asked for. A tree's request under way
  continues the whole pages it has loaded.
- Log (`LogHolds`). What a visit shows and holds back are the last lines it was handed,
  by positions, whichever visits' timers append to the container meanwhile; lemmas on
  the cardinality of a visit's own lines carry the trimming. `LogBounded` is the action
  property `BoundedWhileScrolling` from the same invariant.
- Peers (`PeersHold`). `PeersShown` is inductive as it stands; what needs proof is that
  splicing indexes out of a list that shifts under them leaves each peer once
  (`SplicedLists`, by the least index at which it would not), that what is pushed is
  new, and that a list of the new ones exists. `PagesAssumption` says that the lists the
  server sends are finite and name a peer once.

`HomePageProofs`. `ChartHolds`: `ChartSound` for any blocks, forks, limit and order of
pushes, snapshots, repetitions and visits. Between two calls of `addBlocks` the chart
satisfies `ChartInv`: a block of `rawData` has its object in one cell of one column, at
its row, and no other object of that number is there. Inside a call it does not hold:
blocks are added first and placed later, and each may evict another. `Adding` says what
holds after any number of blocks added (the objects missing from the grid are those of
this call), `PlacedKeeps` that placing them one by one brings them back. It works
because the page buffers no more blocks than the chart keeps and none twice
(`Buffer`), so a block that is evicted meanwhile is an old one and is drawn. The
functions by which the model adds and places are recursive over the numbers up to a
length: `ValuesExist` says that such a function has a value, and `Reached` is induction up to a
number, stated over sets and proved from the least counterexample. The proof failed
for a first `Init`, by which a block was imported although the order of import could be
empty; the page is now opened with at most as many blocks as there are.
`ChainsHold`: `ChainsShown`, which follows from the chart's blocks alone, if they came
parents first. A block's place in the order of arrival is then above its parent's, so
lineages and weights have values (`RecursionHasValue`); the total difficulties, added up
in that order, are the weights (`TotalIsWeight`), and a pass in the other order meets
each ancestor after its child, so it reaches the oldest one (`Reaches`, `ChainIs`). A
lineage has each number once (`LineageNumbers`), so brackets told apart by rows are as
many as the blocks.

`WalletProofs`. `KeyNeverLost`: `GeneratedKeyKept` for any threads and any number
of operations, crashes and failed writes. Alone it does not survive
`StoreKeyFill` or a crash, so the invariant adds what the calls under way owe the
disk: two calls of `newAddress` never store the same address (`NewDiffer`), the
file one has created is there until it is filled (`NewFileThere`), and a file is
only deleted for an address somebody asked to remove (`Requests`).
`KeysListed`, `MapsAgreeOnDisk`, `RemovalsLast` and `ChecksHold` prove the other four
invariants of `wallet_stores` from `Stores`, a second invariant on top of that one.
`KeyFiles` says of one address that it has at most one file, none while a key is about
to be stored, and that the map shows it or a request will; it holds for a generated
address whatever overlaps, because `NewDiffer` keeps others away, and for an imported
one until the first overlap. `InTurn` holds until then too and says where one request
leaves the stores at each of its places: what its snapshot, its name and its removal
promise (`Known`), that nothing removed is left (`GoneEverywhere`), that memory and
`wallet.json` agree but for the address being removed (`MapsAgree`) and that no made-up
name is there twice (`NamesDiffer`). `FilesCounted` bounds the files a restart numbers.
That the name `importPersonal` takes is vacant (`VacantIsVacant`) uses that one of
`Account #1` to `Account #(n+1)` is free when `n` addresses can have such a name (the
pigeonhole theorem), and that the least free one exists (`LeastExists`, from the
well-foundedness of the natural numbers).
`WalletAssumption` says that nobody imports a key `newAddress` has yet to
generate, that nobody chooses a name of the form `importPersonal` makes up, and that
the addresses with keys are finitely many.

`WalletPendingProofs`. `PendingAlwaysSound`: `HeldUntilIncluded` speaks of the
moment a transaction is handled and not of the events before it. The invariant
adds that the announcement of a transaction comes before its block wherever the
two are, in the queue or with the listener (`EventsInOrder`), and that the
snapshot an event is handled with still has every address a transaction is held
for (`HeldForSubscribed`); a snapshot taken earlier than the entry would leave
it behind for ever.

`BlockHistoryProofs`. `HistoryWithinLimits` and `HistoryHeals`. Between its check
and its removal a thread may be overtaken by the other, so a queue alone has no
invariant bound: `Bounds` counts the threads that may still remove from it or add
to it. `Healing` says how much of the queue's end is an ascending run when the
listener works alone, `Undisturbed` the same of whichever thread adds while no
block came during the replay, and `Events` that the blocks waiting for the
listener follow the one it has. Lemmas on an ascending run that is appended to and
shortened carry the arithmetic.

Only model-checked: the two properties of the library and every liveness property.
Liveness under fairness and ENABLED are beyond the proof system here. The library's
modules use RECURSIVE operators, which the provers do not handle, so no theorem speaks
of them; where a module with a theorem needs recursion it is a recursive function
over numbers, as in the chart.

## 8. Not modelled

- The node: import, reorganisation, the EVM and the peers are ethereumj's. What
  the modules need of it (a chain that grows, events in order on one thread,
  pending transactions that are included or dropped) is marked external, as are
  the STOMP broker, `$stomp`, jquery.terminal and D3's rendering.
- Encryption of key files, JSON and hexadecimal conversions of the server,
  compiling contracts and matching their byte code.
- Of the server: the stores of contracts, the private miner's status, call
  statistics, the port filter, and the nonces of concurrent sends.
- Of the pages: formatting, colours, scrolling, completion in the terminal, and
  dialogs that make one request.
- Of `eth-util.js`: the code that no page reaches (Edwards and Montgomery curves,
  other hashes, ciphers, Node's `Buffer`, streams and events), and texts of 2^29
  bytes or more in the hashes.
- RLP items cut short inside a list, over which `_decode` can loop without end:
  the model has them as errors.
- Failures of disk writes other than wallet.json; deleted key files on disk by
  hand.
