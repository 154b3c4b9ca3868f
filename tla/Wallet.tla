------------------------------- MODULE Wallet -------------------------------
(***************************************************************************)
(* WalletService over FileSystemKeystore and FileSystemWalletStore: three  *)
(* stores of the same accounts that no lock ties together.                 *)
(*                                                                         *)
(*   addresses   the map in memory, address -> name (a ConcurrentHashMap)  *)
(*   dir         the keystore directory, one file per generated key        *)
(*   walletFile  wallet.json: all addresses with their names               *)
(*                                                                         *)
(* The operations run on the RPC and web-socket threads (Thread), several  *)
(* at a time.  A step is one access to one of the stores; a file is        *)
(* truncated and then written, so it can be found empty.  The process can  *)
(* die at any point and start again from the two stores on disk.           *)
(***************************************************************************)
EXTENDS Integers, Sequences, FiniteSets, Functions

CONSTANTS
  Thread,      \* threads that serve wallet requests
  Generated,   \* addresses newAddress may come up with
  Imported,    \* addresses whose private key clients import
  Watched,     \* addresses clients import without a key
  Name,        \* names clients choose
  OpBound,     \* bound: operations started
  CrashBound,  \* bound: crashes
  FailBound,   \* bound: failed writes of wallet.json
  MinuteBound, \* bound: minutes that pass
  Missing,     \* wallet.json does not exist
  Torn,        \* wallet.json was truncated and not written
  Empty        \* a key file created and not written

\* Nobody imports a key newAddress will generate, and nobody chooses a name of
\* the form importPersonal makes up, "Account #i".
ASSUME WalletAssumption ==
  /\ {OpBound, CrashBound, FailBound, MinuteBound} \subseteq Nat
  /\ Generated \intersect Imported = {} /\ IsFiniteSet(Generated \union Imported)
  /\ Name \intersect [auto : Nat] = {}
  /\ Empty \notin Thread

VARIABLES
  server,      \* "up", "down", or "failed" when init throws at start
  addresses, dir, walletFile,
  minute,      \* the clock, in minutes
  task,        \* what each thread is doing

  \* History and bounds.
  fresh,       \* generated addresses not yet used
  held,        \* generated addresses with a key on disk that nobody removed
  withdrawn,   \* addresses somebody asked to remove
  gone,        \* addresses whose removal has been completed
  lostFlush,   \* the last write of wallet.json failed
  overlapped,  \* two requests have been in progress at once
  ops, crashes, fails

storeVars   == <<addresses, dir, walletFile>>
historyVars == <<fresh, held, withdrawn, gone, lostFlush, overlapped,
                 ops, crashes, fails>>
vars == <<server, storeVars, minute, task, historyVars>>

-----------------------------------------------------------------------------
\* The keystore directory of FileSystemKeystore, a set of key files.  A file is
\* named after the minute it was written in and the address of its key ("UTC--"
\* minute "--" address): an address can have several files, and a file written
\* twice in one minute is the same file.  The directory is listed in no
\* particular order: "the first file" of an address is any of its files.

\* A file of the directory.  `secret` is what the file was encrypted with,
\* or the caller's marker for a file created but not yet written.
KeyFile(address, written, secret) ==
  [owner |-> address, minute |-> written, secret |-> secret]

SameName(f, g) == f.owner = g.owner /\ f.minute = g.minute

\* Files whose name ends with the address: hasAddressInName.
FilesOf(files, address) == {f \in files : f.owner = address}

hasStoredKey(files, address) == FilesOf(files, address) # {}

listStoredKeys(files) == {f.owner : f \in files}

\* Files.write to the name of f: truncates the file of that name if there is
\* one, creates it otherwise.
WriteFile(files, f) == {g \in files : ~SameName(g, f)} \union {f}

\* Mutant of DeleteFile: files of one minute are taken for the same file.
DeleteFilesOfMinute(files, f) == {g \in files : g.minute # f.minute}

\* File.delete: false, and nothing done, if the file is gone.
DeleteFile(files, f) == {g \in files : ~SameName(g, f)}

-----------------------------------------------------------------------------
Address == Generated \union Imported \union Watched

\* Names the code makes up: "Account #i" by importPersonal, "Account i" for
\* the i-th file of the keystore directory at start.
AutoName(i)   == [auto |-> i]
ListedName(i) == [listed |-> i]

KeyCount == Cardinality(Generated \union Imported)

\* The first "Account #i" that no address has.
VacantName(names) ==
  LET taken == {i \in 1 .. KeyCount : AutoName(i) \in names}
  IN  AutoName(CHOOSE i \in 1 .. KeyCount + 1 :
                 i \notin taken /\ \A j \in 1 .. i - 1 : j \in taken)

NoMap == [a \in {} |-> {}]

\* The entries of m put over those of n.
Merged(m, n) ==
  [a \in DOMAIN m \union DOMAIN n |-> IF a \in DOMAIN m THEN m[a] ELSE n[a]]

PutEntry(map, a, name) == Merged([b \in {a} |-> name], map)

\* Mutant of RemoveEntry: null is put instead.
NullEntry(map, a) == [b \in DOMAIN map |-> IF b = a THEN Empty ELSE map[b]]

RemoveEntry(map, a) == Restrict(map, DOMAIN map \ {a})

IdleTask == [at |-> "idle"]
NoName == AutoName(0)

\* What a thread knows while it serves a request: the address, the name it
\* will put, the key file it works on and the snapshot it will flush.
Serving(at, op, a, name) ==
  [at |-> at, op |-> op, address |-> a, name |-> name,
   file |-> KeyFile(a, 0, Empty), snapshot |-> NoMap]

Ready(t) == server = "up" /\ task[t].at = "idle" /\ ops < OpBound

At(t, place) == server = "up" /\ task[t].at = place

Goto(t, place) == task' = [task EXCEPT ![t].at = place]

-----------------------------------------------------------------------------
Init ==
  /\ server = "up"
  /\ addresses = NoMap
  /\ dir = {}
  /\ walletFile = Missing
  /\ minute = 0
  /\ task = [t \in Thread |-> IdleTask]
  /\ fresh = Generated
  /\ held = {}
  /\ withdrawn = {}
  /\ gone = {}
  /\ lostFlush = FALSE
  /\ overlapped = FALSE
  /\ ops = 0 /\ crashes = 0 /\ fails = 0

-----------------------------------------------------------------------------
\* Requests.

Start(t, request) ==
  /\ Ready(t)
  /\ task' = [task EXCEPT ![t] = request]
  /\ ops' = ops + 1
  /\ overlapped' = (overlapped \/ \E u \in Thread : task[u].at # "idle")
  /\ gone' = gone \ {request.address}
  /\ UNCHANGED <<server, dir, walletFile, minute, lostFlush, crashes, fails>>

newAddress(t, a, name) ==
  /\ a \in fresh
  /\ Start(t, Serving("check", "new", a, name))
  /\ fresh' = fresh \ {a}
  /\ UNCHANGED <<addresses, held, withdrawn>>

\* The name is chosen now and put only after the key is stored.
importPersonal(t, a) ==
  /\ Start(t, Serving("check", "import", a, VacantName(Range(addresses))))
  /\ UNCHANGED <<addresses, fresh, held, withdrawn>>

importAddress(t, a, name) ==
  /\ Start(t, Serving("put", "watch", a, name))
  /\ UNCHANGED <<addresses, fresh, held, withdrawn>>

\* addresses.remove, the first of the three removals.  Clients know the
\* addresses they imported and those the server lists.
removeAddress(t, a) ==
  /\ a \in Imported \union Watched \union DOMAIN addresses \union listStoredKeys(dir)
  /\ Start(t, Serving("find", "remove", a, NoName))
  /\ addresses' = RemoveEntry(addresses, a)
  /\ held' = held \ {a}
  /\ withdrawn' = withdrawn \union {a}
  /\ UNCHANGED fresh

-----------------------------------------------------------------------------
\* FileSystemKeystore.storeKey.

\* Mutant of StoreKeyCheck: the key is stored unchecked.
StoreKeyUnchecked(t) ==
  /\ At(t, "check")
  /\ Goto(t, "create")
  /\ UNCHANGED <<server, storeVars, minute, historyVars>>

\* "Keystore is already exist for address": the request ends there.
StoreKeyCheck(t) ==
  /\ At(t, "check")
  /\ IF hasStoredKey(dir, task[t].address)
     THEN task' = [task EXCEPT ![t] = IdleTask]
     ELSE Goto(t, "create")
  /\ UNCHANGED <<server, storeVars, minute, historyVars>>

\* Files.write opens the file...
StoreKeyCreate(t) ==
  LET f == KeyFile(task[t].address, minute, Empty)
  IN  /\ At(t, "create")
      /\ dir' = WriteFile(dir, f)
      /\ task' = [task EXCEPT ![t].at = "fill", ![t].file = f]
      /\ UNCHANGED <<server, addresses, walletFile, minute, historyVars>>

\* ... and writes it; what is written to a file deleted meanwhile is lost.
StoreKeyFill(t) ==
  LET f == task[t].file
  IN  /\ At(t, "fill")
      /\ dir' = {IF SameName(g, f) THEN [g EXCEPT !.secret = t] ELSE g : g \in dir}
      /\ held' = IF task[t].op = "new" /\ f.owner \notin withdrawn
                 THEN held \union {f.owner} ELSE held
      /\ Goto(t, "put")
      /\ UNCHANGED <<server, addresses, walletFile, minute, fresh, withdrawn, gone,
                     lostFlush, overlapped, ops, crashes, fails>>

\* FileSystemKeystore.removeKey: the first file of the address, if any.
RemoveKeyFind(t) ==
  LET found == FilesOf(dir, task[t].address)
  IN  /\ At(t, "find")
      /\ \/ /\ found = {}
            /\ Goto(t, "snapshot")
         \/ \E f \in found :
              task' = [task EXCEPT ![t].at = "delete", ![t].file = f]
      /\ UNCHANGED <<server, storeVars, minute, historyVars>>

RemoveKeyDelete(t) ==
  /\ At(t, "delete")
  /\ dir' = DeleteFile(dir, task[t].file)
  /\ Goto(t, "snapshot")
  /\ UNCHANGED <<server, addresses, walletFile, minute, historyVars>>

-----------------------------------------------------------------------------
\* addresses.put, then flushWalletToDisk.

\* Mutant of PutAddress: the request ends without flushWalletToDisk.
PutOnly(t) ==
  /\ At(t, "put")
  /\ addresses' = PutEntry(addresses, task[t].address, task[t].name)
  /\ task' = [task EXCEPT ![t] = IdleTask]
  /\ UNCHANGED <<server, dir, walletFile, minute, historyVars>>

PutAddress(t) ==
  /\ At(t, "put")
  /\ addresses' = PutEntry(addresses, task[t].address, task[t].name)
  /\ Goto(t, "snapshot")
  /\ UNCHANGED <<server, dir, walletFile, minute, historyVars>>

TakeSnapshot(t) ==
  /\ At(t, "snapshot")
  /\ task' = [task EXCEPT ![t].at = "truncate", ![t].snapshot = addresses]
  /\ UNCHANGED <<server, storeVars, minute, historyVars>>

TruncateWallet(t) ==
  /\ At(t, "truncate")
  /\ walletFile' = Torn
  /\ Goto(t, "write")
  /\ UNCHANGED <<server, addresses, dir, minute, historyVars>>

\* The end of the request; the client then gets its answer.
WriteWallet(t) ==
  /\ At(t, "write")
  /\ walletFile' = task[t].snapshot
  /\ lostFlush' = FALSE
  /\ gone' = IF task[t].op = "remove" THEN gone \union {task[t].address} ELSE gone
  /\ task' = [task EXCEPT ![t] = IdleTask]
  /\ UNCHANGED <<server, addresses, dir, minute, fresh, held, withdrawn,
                     overlapped, ops, crashes, fails>>

\* toStore cannot open the file: the request ends with an exception, the
\* changes it made so far stay.
FlushFails(t) ==
  /\ At(t, "truncate")
  /\ fails < FailBound
  /\ fails' = fails + 1
  /\ lostFlush' = TRUE
  /\ task' = [task EXCEPT ![t] = IdleTask]
  /\ UNCHANGED <<server, storeVars, minute, fresh, held, withdrawn,
                     gone, overlapped, ops, crashes>>

-----------------------------------------------------------------------------
MinutePasses ==
  /\ minute < MinuteBound
  /\ minute' = minute + 1
  /\ UNCHANGED <<server, storeVars, task, historyVars>>

Crash ==
  /\ server = "up"
  /\ crashes < CrashBound
  /\ crashes' = crashes + 1
  /\ server' = "down"
  /\ addresses' = NoMap
  /\ task' = [t \in Thread |-> IdleTask]
  /\ UNCHANGED <<dir, walletFile, minute, fresh, held, withdrawn, gone,
                     lostFlush, overlapped, ops, fails>>

\* Mutant of ListedNames: init reads wallet.json only.
NoNames(listing) == NoMap

\* The names init gives the addresses of the keystore directory: the i-th
\* file listed becomes "Account i".
ListedNames(listing) ==
  [a \in {listing[i].owner : i \in DOMAIN listing} |->
     ListedName(CHOOSE i \in DOMAIN listing :
                  /\ listing[i].owner = a
                  /\ \A j \in DOMAIN listing : listing[j].owner = a => j <= i)]

\* init: the keystore first, then wallet.json over it.  A torn wallet.json
\* makes fromStore throw, and the application does not start.
Restart ==
  /\ server = "down"
  /\ \/ /\ walletFile = Torn
        /\ server' = "failed"
        /\ UNCHANGED addresses
     \/ /\ walletFile # Torn
        /\ server' = "up"
        /\ \E listing \in Bijection(1 .. Cardinality(dir), dir) :
             addresses' = IF walletFile = Missing THEN ListedNames(listing)
                          ELSE Merged(walletFile, ListedNames(listing))
  /\ UNCHANGED <<dir, walletFile, minute, task, historyVars>>

-----------------------------------------------------------------------------
StartRequest(t) ==
  \/ \E a \in Generated, n \in Name : newAddress(t, a, n)
  \/ \E a \in Imported : importPersonal(t, a)
  \/ \E a \in Watched, n \in Name : importAddress(t, a, n)
  \/ \E a \in Address : removeAddress(t, a)

Proceed(t) ==
  \/ StoreKeyCheck(t) \/ StoreKeyCreate(t) \/ StoreKeyFill(t)
  \/ RemoveKeyFind(t) \/ RemoveKeyDelete(t)
  \/ PutAddress(t)
  \/ TakeSnapshot(t) \/ TruncateWallet(t) \/ WriteWallet(t) \/ FlushFails(t)

Next ==
  \/ \E t \in Thread : StartRequest(t) \/ Proceed(t)
  \/ MinutePasses
  \/ Crash
  \/ Restart

Spec == Init /\ [][Next]_vars

-----------------------------------------------------------------------------
\* Properties.

Names == Name \union {AutoName(i) : i \in 0 .. KeyCount + 1}
              \union {ListedName(i) : i \in 1 .. OpBound}

IsAddressMap(m) == DOMAIN m \subseteq Address /\ Range(m) \subseteq Names

\* Types.  A request that still has to write a key file or wallet.json knows
\* which address it is about.
TypeOK ==
  /\ server \in {"up", "down", "failed"}
  /\ IsAddressMap(addresses)
  /\ \A f \in dir : /\ f.owner \in Generated \union Imported
                    /\ f.minute \in 0 .. MinuteBound
                    /\ f.secret \in Thread \union {Empty}
  /\ walletFile \in {Missing, Torn} \/ IsAddressMap(walletFile)
  /\ \A t \in Thread : task[t].at # "idle" =>
       /\ task[t].op \in {"new", "import", "watch", "remove"}
       /\ task[t].address \in Address
       /\ IsAddressMap(task[t].snapshot)

Working(a) == \E t \in Thread : task[t].at # "idle" /\ task[t].address = a

\* No request in progress anywhere.
Quiet == \A t \in Thread : task[t].at = "idle"

\* The key of a generated address stays in the keystore, complete, until
\* somebody removes the address: neither a crash in the middle of any other
\* request, nor a failed or torn wallet.json, nor two requests at once lose
\* it.  (The user's money is behind it.)
GeneratedKeyKept ==
  \A a \in held : \E f \in dir : f.owner = a /\ f.secret # Empty

\* The wallet shows every address it has a key for, also after a restart
\* that found no entry of it in wallet.json: a generated key always, an
\* imported one as long as requests come one at a time (two imports of one
\* key at once can leave two files, and a removal deletes one of them).
StoredKeysListed ==
  server = "up" =>
    \A a \in listStoredKeys(dir) :
      a \in Generated \/ ~overlapped => Working(a) \/ a \in DOMAIN addresses

\* With one request at a time, what the wallet shows is what wallet.json
\* says once the request is answered, unless writing it failed or a restart
\* has merged the keystore into it.
DiskMatchesMemory ==
  server = "up" /\ Quiet /\ ~overlapped /\ ~lostFlush /\ walletFile \notin {Missing, Torn} =>
    /\ \A a \in DOMAIN walletFile :
         a \in DOMAIN addresses /\ addresses[a] = walletFile[a]
    /\ \A a \in DOMAIN addresses \ DOMAIN walletFile : hasStoredKey(dir, a)

\* With one request at a time, an address whose removal was answered does not
\* come back: not from the keystore directory, not from wallet.json at a
\* restart.
RemovedStaysGone ==
  ~overlapped => \A a \in gone : a \notin DOMAIN addresses /\ ~hasStoredKey(dir, a)

\* "Keystore is already exist for address ... Please remove old one first"
\* (FileSystemKeystore:66-67): with one request at a time an address never has
\* two key files, whatever crashes left behind.
OneFilePerAddress ==
  ~overlapped => \A a \in Address : Cardinality(FilesOf(dir, a)) <= 1

\* "Giving next vacant name to this unnamed account" (WalletService:329): with
\* one request at a time no two addresses get the same "Account #i".
VacantNamesDiffer ==
  ~overlapped => \A a, b \in DOMAIN addresses :
    a # b /\ addresses[a] = addresses[b] =>
      \A i \in 1 .. KeyCount + 1 : addresses[a] # AutoName(i)

\* No key file and no name twice: what storeKey and the naming of new accounts
\* check before they act still holds when they have acted.
NothingTwice == TypeOK /\ OneFilePerAddress /\ VacantNamesDiffer
=============================================================================
