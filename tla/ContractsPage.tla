--------------------------- MODULE ContractsPage ----------------------------
(***************************************************************************)
(* The page of the contracts (ContractsCtrl): the list, the view of one    *)
(* contract's balance and fields, removal, clearing and import, and the    *)
(* status of the index.  Every request runs on its own, so answers come in *)
(* any order, and may come to a page that shows something else by then.    *)
(* The form for a new contract (ContractNewCtrl) is at the end.            *)
(***************************************************************************)
EXTENDS Naturals, Sequences, SequencesExt, FiniteSets

CONSTANTS
  Contract,
  None,
  MaxAsked     \* bound: clicks that make requests

VARIABLES
  watched,        \* contracts the server watches
  contracts,      \* $scope.contracts
  isViewingStorage,
  address,        \* storage.address
  balance,        \* contract whose balance is shown, or None ("n/a")
  fields,         \* contract whose entries are shown, or None
  lastViewingItem,
  isImporting,    \* isImportingInProgress
  importingError, \* a message is shown
  asked,          \* requests not answered, oldest first
  clicks,         \* bound counter
  overtaken,      \* history: fields came that were not the last asked for, or
                  \* came to the list, or did not come
  synced,         \* the server's index is ready
  syncedBlock     \* the page knows it is

viewVars == <<isViewingStorage, address, balance, fields, lastViewingItem>>
contractVars == <<watched, contracts, viewVars, isImporting, importingError, asked,
                  clicks, overtaken, synced, syncedBlock>>

Request(kind, c) == [kind |-> kind, of |-> c]
Status == Request("status", None)
List(then) == Request("list", then)

Init ==
  /\ watched \in SUBSET Contract
  /\ contracts = {}
  /\ isViewingStorage = FALSE /\ address = None
  /\ balance = None /\ fields = None /\ lastViewingItem = None
  /\ isImporting = FALSE /\ importingError = FALSE
  /\ asked = <<List(None), Status>>
  /\ clicks = 0
  /\ overtaken = FALSE
  /\ synced \in BOOLEAN /\ syncedBlock = FALSE

Click == clicks < MaxAsked /\ clicks' = clicks + 1

Ask(rs) == asked' = asked \o rs

\* Mutant of onViewStorage: the balance shown is kept until the new one comes.
onViewStorageKeeps(c, rest) ==
  /\ isViewingStorage' = TRUE
  /\ address' = c /\ lastViewingItem' = c
  /\ importingError' = FALSE
  /\ asked' = rest \o <<Request("balance", c), Request("fields", c)>>
  /\ UNCHANGED <<fields, balance>>

\* The view of a contract: its balance and fields are asked for; the entries
\* shown stay until they come.
onViewStorage(c, rest) ==
  /\ isViewingStorage' = TRUE
  /\ address' = c /\ lastViewingItem' = c
  /\ balance' = None
  /\ importingError' = FALSE
  /\ asked' = rest \o <<Request("balance", c), Request("fields", c)>>
  /\ UNCHANGED fields

ViewContract ==
  /\ ~isViewingStorage /\ Click
  /\ \E c \in contracts : onViewStorage(c, asked)
  /\ UNCHANGED <<watched, contracts, isImporting, overtaken, synced, syncedBlock>>

onBackToList ==
  /\ isViewingStorage
  /\ isViewingStorage' = FALSE /\ fields' = None
  /\ UNCHANGED <<watched, contracts, address, balance, lastViewingItem, isImporting,
                 importingError, asked, clicks, overtaken, synced, syncedBlock>>

onRemoveClick ==
  /\ ~isViewingStorage /\ Click
  /\ \E c \in contracts : Ask(<<Request("delete", c)>>)
  /\ UNCHANGED <<watched, contracts, viewVars, isImporting, importingError, overtaken,
                 synced, syncedBlock>>

\* The import link is disabled while an import is under way.
onImportContract ==
  /\ isViewingStorage /\ ~isImporting /\ Click
  /\ isImporting' = TRUE /\ importingError' = FALSE
  /\ Ask(<<[kind |-> "import", of |-> address, then |-> lastViewingItem]>>)
  /\ UNCHANGED <<watched, contracts, viewVars, overtaken, synced, syncedBlock>>

\* A block was imported: the status is asked for again until it is known.
newBlockFromEvent ==
  /\ ~syncedBlock
  /\ ~Contains(asked, Status)
  /\ Ask(<<Status>>)
  /\ UNCHANGED <<watched, contracts, viewVars, isImporting, importingError, clicks,
                 overtaken, synced, syncedBlock>>

Answered(i, kind) == i \in DOMAIN asked /\ asked[i].kind = kind
Rest(i) == RemoveAt(asked, i)

\* The list; after a clearing or an import the view follows, of a contract
\* that must still be in the list: if not, the handler throws.
ListAnswered(i) ==
  LET c == asked[i].of IN
  /\ Answered(i, "list")
  /\ contracts' = watched
  /\ \/ c \in watched /\ onViewStorage(c, Rest(i))
     \/ c \notin watched /\ asked' = Rest(i) /\ UNCHANGED <<viewVars, importingError>>
  /\ UNCHANGED <<watched, isImporting, clicks, overtaken, synced, syncedBlock>>

BalanceAnswered(i) ==
  /\ Answered(i, "balance")
  /\ balance' = asked[i].of
  /\ asked' = Rest(i)
  /\ overtaken' = (overtaken \/ asked[i].of # address)
  /\ UNCHANGED <<watched, contracts, isViewingStorage, address, fields, lastViewingItem,
                 isImporting, importingError, clicks, synced, syncedBlock>>

FieldsAnswered(i) ==
  /\ Answered(i, "fields")
  /\ fields' = asked[i].of
  /\ asked' = Rest(i)
  /\ overtaken' = (overtaken \/ asked[i].of # address \/ ~isViewingStorage)
  /\ UNCHANGED <<watched, contracts, isViewingStorage, address, balance, lastViewingItem,
                 isImporting, importingError, clicks, synced, syncedBlock>>

DeleteAnswered(i) ==
  /\ Answered(i, "delete")
  /\ watched' = watched \ {asked[i].of}
  /\ asked' = Rest(i) \o <<List(None)>>
  /\ UNCHANGED <<contracts, viewVars, isImporting, importingError, clicks, overtaken,
                 synced, syncedBlock>>

ImportAnswered(i) ==
  /\ Answered(i, "import")
  /\ isImporting' = FALSE
  /\ \/ asked' = Rest(i) \o <<List(asked[i].then)>> /\ UNCHANGED importingError
     \/ asked' = Rest(i) /\ importingError' = TRUE
  /\ UNCHANGED <<watched, contracts, viewVars, clicks, overtaken, synced, syncedBlock>>

StatusAnswered(i) ==
  /\ Answered(i, "status")
  /\ syncedBlock' = synced
  /\ asked' = Rest(i)
  /\ UNCHANGED <<watched, contracts, viewVars, isImporting, importingError, clicks,
                 overtaken, synced>>

\* Mutant of RequestFailed: only an import that was refused ends.
RequestFailedSilent(i) ==
  /\ i \in DOMAIN asked
  /\ asked' = Rest(i)
  /\ overtaken' = (overtaken \/ asked[i].kind \in {"balance", "fields"})
  /\ UNCHANGED <<watched, contracts, viewVars, isImporting, importingError, clicks,
                 synced, syncedBlock>>

\* A request fails: only that of an import has a handler that shows it.
RequestFailed(i) ==
  /\ i \in DOMAIN asked
  /\ asked' = Rest(i)
  /\ IF asked[i].kind = "import" THEN isImporting' = FALSE /\ importingError' = TRUE
     ELSE UNCHANGED <<isImporting, importingError>>
  /\ overtaken' = (overtaken \/ asked[i].kind \in {"balance", "fields"})
  /\ UNCHANGED <<watched, contracts, viewVars, clicks, synced, syncedBlock>>

IndexReady ==
  /\ ~synced /\ synced' = TRUE
  /\ UNCHANGED <<watched, contracts, viewVars, isImporting, importingError, asked, clicks,
                 overtaken, syncedBlock>>

Answer(i) ==
  \/ ListAnswered(i) \/ BalanceAnswered(i) \/ FieldsAnswered(i) \/ DeleteAnswered(i)
  \/ ImportAnswered(i) \/ StatusAnswered(i)

Next ==
  \/ ViewContract \/ onBackToList \/ onRemoveClick \/ onImportContract
  \/ newBlockFromEvent \/ IndexReady
  \/ \E i \in DOMAIN asked : Answer(i) \/ RequestFailed(i)

\* Blocks keep coming, the index is ready at last, and a request that is made
\* again and again is answered with success at some time.
Fairness ==
  /\ WF_contractVars(newBlockFromEvent) /\ WF_contractVars(IndexReady)
  /\ WF_contractVars(\E i \in DOMAIN asked : Answer(i) \/ RequestFailed(i))
  /\ SF_contractVars(\E i \in DOMAIN asked : StatusAnswered(i))
  /\ SF_contractVars(\E i \in DOMAIN asked :
       ImportAnswered(i) \/ (Answered(i, "import") /\ RequestFailed(i)))

Spec == Init /\ [][Next]_contractVars /\ Fairness

-----------------------------------------------------------------------------
TypeOK ==
  /\ watched \subseteq Contract /\ contracts \subseteq Contract
  /\ {address, balance, fields, lastViewingItem} \subseteq Contract \union {None}
  /\ {isViewingStorage, isImporting, importingError, synced, syncedBlock} \subseteq BOOLEAN

Waiting(kind) == \E i \in DOMAIN asked : asked[i].kind = kind

\* The balance and the fields on screen are those of the contract whose name
\* is on screen, unless an answer was overtaken or lost; until they come the
\* balance is not available.
ShownBelongsTogether ==
  isViewingStorage /\ ~overtaken =>
    /\ balance \in {None, address}
    /\ ~Waiting("fields") => fields = address

\* An import ends for the user, whatever the server does, and the state of the
\* index is known at last although requests fail.
ImportEnds == isImporting ~> ~isImporting
StatusKnown == <>[]syncedBlock
=============================================================================
