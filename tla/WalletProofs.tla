---------------------------- MODULE WalletProofs ----------------------------
(***************************************************************************)
(* The safety properties of Wallet for any threads and addresses, and any  *)
(* number of requests, crashes and failed writes.                          *)
(*                                                                         *)
(* GeneratedKeyKept is not inductive (IInv): between the creation of a key *)
(* file and its filling the file has to survive (NewFileThere), nobody     *)
(* else may be storing the same generated address (NewDiffer), and what a  *)
(* request deletes belongs to an address somebody asked to remove          *)
(* (Requests).                                                             *)
(*                                                                         *)
(* What the three stores say of each other (Stores) holds on top of it.    *)
(* KeyFiles, about the key files of one address, holds for a generated     *)
(* address whatever overlaps; InTurn holds until two requests overlap and  *)
(* says where a request in progress leaves the stores between two of its   *)
(* steps.  That the name importPersonal finds is vacant needs the pigeon-  *)
(* hole principle: the names it makes up go to addresses with a key only.  *)
(***************************************************************************)
EXTENDS Wallet, FiniteSetTheorems, TLAPS

File == [owner : Address, minute : Nat, secret : Thread \union {Empty}]

\* A request in progress.
IsServing(r) ==
  /\ r = [at |-> r.at, op |-> r.op, address |-> r.address, name |-> r.name,
          file |-> r.file, snapshot |-> r.snapshot]
  /\ r.at # "idle" /\ r.address \in Address /\ r.file \in File

Types ==
  /\ dir \subseteq File
  /\ minute \in Nat
  /\ fresh \subseteq Generated
  /\ DOMAIN task = Thread
  /\ \A t \in Thread : task[t] = IdleTask \/ IsServing(task[t])

Storing(t) == task[t].at \in {"check", "create", "fill"}

\* Only newAddress and importPersonal store keys, and only removeAddress
\* deletes files, those of its address.
Requests ==
  \A t \in Thread : task[t].at # "idle" =>
    /\ task[t].op = "new" => task[t].address \in Generated \ fresh
    /\ Storing(t) => \/ task[t].op = "new" /\ task[t].address \notin held
                     \/ task[t].op = "import" /\ task[t].address \in Imported
    /\ task[t].at = "fill" => task[t].file.owner = task[t].address
    /\ task[t].at \in {"find", "delete"} => task[t].address \in withdrawn
    /\ task[t].at = "delete" => task[t].file.owner = task[t].address

\* A generated address comes up once.
NewDiffer ==
  \A t, u \in Thread : Storing(t) /\ Storing(u) /\ task[t].op = "new" /\ task[u].op = "new" =>
    t = u \/ task[t].address # task[u].address

\* The file newAddress has created is there until it is filled, unless somebody
\* removes the address.
NewFileThere ==
  \A t \in Thread : task[t].at = "fill" /\ task[t].address \notin withdrawn =>
    \E g \in dir : SameName(g, task[t].file)

HeldKeys == held \subseteq Generated \ (fresh \union withdrawn)

IInv == Types /\ Requests /\ NewDiffer /\ NewFileThere /\ HeldKeys /\ GeneratedKeyKept

-----------------------------------------------------------------------------
LEMMA InitIInv == Init => IInv
  BY WalletAssumption DEF Init, IInv, Types, IdleTask, Requests, NewDiffer, NewFileThere,
                          HeldKeys, GeneratedKeyKept, Storing

\* What a thread works on changes in one place.
LEMMA GotoFacts ==
  ASSUME Types, NEW t \in Thread, task[t].at # "idle", NEW place, place # "idle", Goto(t, place)
  PROVE  /\ DOMAIN task' = Thread
         /\ \A u \in Thread \ {t} : task'[u] = task[u]
         /\ IsServing(task'[t]) /\ task'[t].at = place
         /\ task'[t].op = task[t].op /\ task'[t].address = task[t].address
         /\ task'[t].file = task[t].file /\ task'[t].name = task[t].name
         /\ task'[t].snapshot = task[t].snapshot
<1>1. IsServing(task[t])
  BY DEF Types, IdleTask
<1>2. task'[t] = [task[t] EXCEPT !.at = place]
  BY DEF Goto, Types
<1>3. task'[t] = [at |-> place, op |-> task[t].op, address |-> task[t].address,
                  name |-> task[t].name, file |-> task[t].file, snapshot |-> task[t].snapshot]
  BY <1>1, <1>2 DEF IsServing
<1>4. IsServing(task'[t])
  BY <1>1, <1>3 DEF IsServing
<1> QED
  BY <1>3, <1>4 DEF Goto, Types

\* A step that leaves the keys alone: the thread ends its request, or goes on
\* from "check" to "create", from "find" to "delete", or past the keystore.
LEMMA MoveKeeps ==
  ASSUME IInv, NEW t \in Thread, task[t].at # "idle",
         UNCHANGED <<dir, minute, fresh, held, withdrawn>>,
         DOMAIN task' = Thread, \A u \in Thread \ {t} : task'[u] = task[u],
         \/ task'[t] = IdleTask
         \/ /\ IsServing(task'[t])
            /\ task'[t].op = task[t].op /\ task'[t].address = task[t].address
            /\ \/ task'[t].at = "create" /\ task[t].at = "check"
               \/ /\ task'[t].at = "delete" /\ task[t].at = "find"
                  /\ task'[t].file.owner = task[t].address
               \/ task'[t].at \in {"snapshot", "truncate", "write"}
  PROVE  IInv'
<1> USE DEF IInv
<1>1. Types'
  BY DEF Types
<1>2. Requests'
  <2>1. ASSUME NEW u \in Thread, task'[u].at # "idle"
        PROVE  /\ task'[u].op = "new" => task'[u].address \in Generated \ fresh
               /\ Storing(u)' => \/ task'[u].op = "new" /\ task'[u].address \notin held
                                 \/ task'[u].op = "import" /\ task'[u].address \in Imported
               /\ task'[u].at = "fill" => task'[u].file.owner = task'[u].address
               /\ task'[u].at \in {"find", "delete"} => task'[u].address \in withdrawn
               /\ task'[u].at = "delete" => task'[u].file.owner = task'[u].address
    <3>1. CASE u = t
      BY <2>1, <3>1 DEF Requests, Storing, IdleTask
    <3>2. CASE u # t
      BY <2>1, <3>2 DEF Requests, Storing
    <3> QED
      BY <3>1, <3>2
  <2> QED
    BY <2>1 DEF Requests
<1>3. NewDiffer'
  BY DEF NewDiffer, Storing, IdleTask
<1>4. NewFileThere'
  BY DEF NewFileThere, IdleTask
<1>5. HeldKeys' /\ GeneratedKeyKept'
  BY DEF HeldKeys, GeneratedKeyKept
<1> QED
  BY <1>1, <1>2, <1>3, <1>4, <1>5

\* A request begins: of newAddress, with an address nobody has generated yet.
LEMMA StartKeeps ==
  ASSUME IInv, NEW t \in Thread, NEW r, Start(t, r), IsServing(r),
         \/ /\ r.op = "new" /\ r.at = "check" /\ r.address \in fresh
            /\ fresh' = fresh \ {r.address} /\ UNCHANGED <<held, withdrawn>>
         \/ /\ r.op = "import" /\ r.at = "check" /\ r.address \in Imported
            /\ UNCHANGED <<fresh, held, withdrawn>>
         \/ /\ r.op = "watch" /\ r.at = "put" /\ UNCHANGED <<fresh, held, withdrawn>>
         \/ /\ r.op = "remove" /\ r.at = "find" /\ UNCHANGED fresh
            /\ held' = held \ {r.address} /\ withdrawn' = withdrawn \union {r.address}
  PROVE  IInv'
<1> USE DEF IInv
<1>1. /\ UNCHANGED <<dir, minute>> /\ task[t].at = "idle" /\ task'[t] = r
      /\ DOMAIN task' = Thread /\ \A u \in Thread \ {t} : task'[u] = task[u]
      /\ fresh' \subseteq fresh /\ held' \subseteq held /\ withdrawn \subseteq withdrawn'
      /\ r.at # "idle"
  BY DEF Start, Ready, Types, IsServing
<1>2. Types'
  BY <1>1 DEF Types
<1>3. Requests'
  <2>1. ASSUME NEW u \in Thread, task'[u].at # "idle"
        PROVE  /\ task'[u].op = "new" => task'[u].address \in Generated \ fresh'
               /\ Storing(u)' => \/ task'[u].op = "new" /\ task'[u].address \notin held'
                                 \/ task'[u].op = "import" /\ task'[u].address \in Imported
               /\ task'[u].at = "fill" => task'[u].file.owner = task'[u].address
               /\ task'[u].at \in {"find", "delete"} => task'[u].address \in withdrawn'
               /\ task'[u].at = "delete" => task'[u].file.owner = task'[u].address
    <3>1. CASE u = t
      BY <1>1, <2>1, <3>1 DEF HeldKeys, Storing, Types
    <3>2. CASE u # t
      BY <1>1, <2>1, <3>2 DEF Requests, Storing
    <3> QED
      BY <3>1, <3>2
  <2> QED
    BY <2>1 DEF Requests
<1>4. NewDiffer'
  <2>1. ASSUME NEW u \in Thread, NEW v \in Thread, u # v, Storing(u)', Storing(v)',
               task'[u].op = "new", task'[v].op = "new"
        PROVE  task'[u].address # task'[v].address
    <3>1. \A x \in Thread \ {t} : Storing(x)' /\ task'[x].op = "new" =>
            task'[x].address \notin fresh
      BY <1>1 DEF Requests, Storing
    <3>2. CASE u = t \/ v = t
      BY <1>1, <2>1, <3>1, <3>2
    <3>3. CASE u # t /\ v # t
      BY <1>1, <2>1, <3>3 DEF NewDiffer, Storing
    <3> QED
      BY <3>2, <3>3
  <2> QED
    BY <2>1 DEF NewDiffer
<1>5. NewFileThere'
  BY <1>1 DEF NewFileThere
<1>6. HeldKeys' /\ GeneratedKeyKept'
  BY <1>1 DEF HeldKeys, GeneratedKeyKept
<1> QED
  BY <1>2, <1>3, <1>4, <1>5, <1>6

LEMMA ServingIsServing ==
  ASSUME NEW at, at # "idle", NEW op, NEW a \in Address, NEW name
  PROVE  /\ IsServing(Serving(at, op, a, name))
         /\ Serving(at, op, a, name).at = at /\ Serving(at, op, a, name).op = op
         /\ Serving(at, op, a, name).address = a
  BY DEF IsServing, Serving, KeyFile, File

LEMMA RequestStep ==
  ASSUME IInv, NEW t \in Thread, StartRequest(t)
  PROVE  IInv'
<1>1. ASSUME NEW a \in Generated, NEW n \in Name, newAddress(t, a, n) PROVE IInv'
  <2>1. a \in Address
    BY DEF Address
  <2> QED
    BY <1>1, <2>1, ServingIsServing, StartKeeps DEF newAddress
<1>2. ASSUME NEW a \in Imported, importPersonal(t, a) PROVE IInv'
  <2>1. a \in Address
    BY DEF Address
  <2> QED
    BY <1>2, <2>1, ServingIsServing, StartKeeps DEF importPersonal
<1>3. ASSUME NEW a \in Watched, NEW n \in Name, importAddress(t, a, n) PROVE IInv'
  <2>1. a \in Address
    BY DEF Address
  <2> QED
    BY <1>3, <2>1, ServingIsServing, StartKeeps DEF importAddress
<1>4. ASSUME NEW a \in Address, removeAddress(t, a) PROVE IInv'
  BY <1>4, ServingIsServing, StartKeeps DEF removeAddress
<1> QED
  BY <1>1, <1>2, <1>3, <1>4 DEF StartRequest

\* The new file takes the place of one of the same name only.  It belongs to an
\* address no generated key of which is held.
LEMMA CreateStep ==
  ASSUME IInv, NEW t \in Thread, StoreKeyCreate(t)
  PROVE  IInv'
<1> DEFINE f == KeyFile(task[t].address, minute, Empty)
<1> USE DEF IInv, historyVars
<1>1. /\ task[t].at = "create" /\ IsServing(task[t])
      /\ dir' = WriteFile(dir, f)
      /\ UNCHANGED <<minute, fresh, held, withdrawn>>
      /\ task' = [task EXCEPT ![t].at = "fill", ![t].file = f]
  BY DEF StoreKeyCreate, At, Types, IdleTask
<1>2. f \in File /\ f.owner = task[t].address /\ f.owner \in Address
  BY <1>1 DEF KeyFile, File, Types, IsServing
<1>3. /\ DOMAIN task' = Thread /\ \A u \in Thread \ {t} : task'[u] = task[u]
      /\ task'[t] = [at |-> "fill", op |-> task[t].op, address |-> task[t].address,
                     name |-> task[t].name, file |-> f, snapshot |-> task[t].snapshot]
  <2>1. task'[t] = [task[t] EXCEPT !.at = "fill", !.file = f]
    BY <1>1 DEF Types
  <2> QED
    BY <1>1, <2>1 DEF Types, IsServing
<1> HIDE DEF f
<1>4. IsServing(task'[t])
  BY <1>1, <1>2, <1>3 DEF IsServing
<1>5. f \in dir' /\ \A g \in dir : g \in dir' \/ SameName(g, f)
  BY <1>1 DEF WriteFile
<1>6. Types'
  BY <1>1, <1>2, <1>3, <1>4 DEF Types, WriteFile
<1>7. Requests'
  BY <1>1, <1>2, <1>3 DEF Requests, Storing
<1>8. NewDiffer'
  BY <1>1, <1>3 DEF NewDiffer, Storing
<1>9. NewFileThere'
  <2>1. ASSUME NEW u \in Thread, task'[u].at = "fill", task'[u].address \notin withdrawn
        PROVE  \E g \in dir' : SameName(g, task'[u].file)
    <3>1. CASE u = t
      BY <1>3, <1>5, <3>1 DEF SameName
    <3>2. CASE u # t
      <4>1. PICK g \in dir : SameName(g, task[u].file)
        BY <1>3, <2>1, <3>2 DEF NewFileThere
      <4>2. g \in dir' \/ SameName(f, task[u].file)
        BY <1>5, <4>1 DEF SameName
      <4> QED
        BY <1>3, <1>5, <3>2, <4>1, <4>2
    <3> QED
      BY <3>1, <3>2
  <2> QED
    BY <1>1, <2>1 DEF NewFileThere
<1>10. GeneratedKeyKept'
  <2>1. f.owner \notin held
    BY <1>1, <1>2, WalletAssumption DEF Requests, Storing, HeldKeys
  <2>2. ASSUME NEW a \in held PROVE \E g \in dir' : g.owner = a /\ g.secret # Empty
    <3>1. PICK g \in dir : g.owner = a /\ g.secret # Empty
      BY DEF GeneratedKeyKept
    <3>2. ~SameName(g, f)
      BY <2>1, <3>1 DEF SameName
    <3> QED
      BY <1>5, <3>1, <3>2
  <2> QED
    BY <1>1, <2>2 DEF GeneratedKeyKept
<1> QED
  BY <1>1, <1>6, <1>7, <1>8, <1>9, <1>10 DEF HeldKeys

\* The file gets its content; from here on a generated key is held.
LEMMA FillStep ==
  ASSUME IInv, NEW t \in Thread, StoreKeyFill(t)
  PROVE  IInv'
<1> DEFINE f == task[t].file
           filled(g) == IF SameName(g, f) THEN [g EXCEPT !.secret = t] ELSE g
<1> USE DEF IInv
<1>1. /\ task[t].at = "fill" /\ IsServing(task[t]) /\ f \in File /\ f.owner = task[t].address
      /\ dir' = {filled(g) : g \in dir}
      /\ UNCHANGED <<minute, fresh, withdrawn>>
      /\ held' = IF task[t].op = "new" /\ f.owner \notin withdrawn
                 THEN held \union {f.owner} ELSE held
      /\ Goto(t, "put")
  BY DEF StoreKeyFill, At, Types, IdleTask, Requests, IsServing
<1>2. /\ DOMAIN task' = Thread /\ \A u \in Thread \ {t} : task'[u] = task[u]
      /\ IsServing(task'[t]) /\ task'[t].at = "put"
      /\ task'[t].op = task[t].op /\ task'[t].address = task[t].address
  BY <1>1, GotoFacts
<1>3. \A g \in dir : /\ filled(g) \in File /\ SameName(filled(g), g) /\ filled(g).owner = g.owner
                     /\ filled(g).secret = IF SameName(g, f) THEN t ELSE g.secret
  <2>1. ASSUME NEW g \in dir
        PROVE  /\ filled(g) \in File /\ SameName(filled(g), g) /\ filled(g).owner = g.owner
               /\ filled(g).secret = IF SameName(g, f) THEN t ELSE g.secret
    <3>1. g \in File
      BY DEF Types
    <3> QED
      BY <3>1 DEF File, SameName
  <2> QED
    BY <2>1
<1>4. t # Empty
  BY WalletAssumption
<1> HIDE DEF f, filled
<1>5. Types'
  BY <1>1, <1>2, <1>3 DEF Types
<1>6. Requests'
  <2>1. ASSUME NEW u \in Thread \ {t}, Storing(u), task[u].op = "new" PROVE task[u].address \notin held'
    <3>1. task[u].address \notin held
      BY <2>1, WalletAssumption DEF Requests, Storing
    <3>2. task[t].op = "new" => task[u].address # task[t].address
      BY <1>1, <2>1 DEF NewDiffer, Storing
    <3> QED
      BY <1>1, <3>1, <3>2
  <2> QED
    BY <1>1, <1>2, <2>1 DEF Requests, Storing
<1>7. NewDiffer'
  BY <1>2 DEF NewDiffer, Storing
<1>8. NewFileThere'
  BY <1>1, <1>2, <1>3 DEF NewFileThere, SameName
<1>9. HeldKeys'
  BY <1>1 DEF HeldKeys, Requests
<1>10. GeneratedKeyKept'
  <2>1. ASSUME NEW a \in held PROVE \E g \in dir' : g.owner = a /\ g.secret # Empty
    <3>1. PICK g \in dir : g.owner = a /\ g.secret # Empty
      BY DEF GeneratedKeyKept
    <3> QED
      BY <1>1, <1>3, <1>4, <3>1
  <2>2. ASSUME task[t].op = "new", f.owner \notin withdrawn
        PROVE  \E g \in dir' : g.owner = f.owner /\ g.secret # Empty
    <3>1. PICK g \in dir : SameName(g, f)
      BY <1>1, <2>2 DEF NewFileThere, f
    <3> QED
      BY <1>1, <1>3, <1>4, <3>1 DEF SameName
  <2> QED
    BY <1>1, <2>1, <2>2 DEF GeneratedKeyKept
<1> QED
  BY <1>5, <1>6, <1>7, <1>8, <1>9, <1>10

\* Only files of an address somebody asked to remove are deleted.
LEMMA DeleteStep ==
  ASSUME IInv, NEW t \in Thread, RemoveKeyDelete(t)
  PROVE  IInv'
<1> DEFINE f == task[t].file
<1> USE DEF IInv, historyVars
<1>1. /\ task[t].at = "delete" /\ f.owner \in withdrawn
      /\ dir' = {g \in dir : ~SameName(g, f)}
      /\ UNCHANGED <<minute, fresh, held, withdrawn>>
      /\ Goto(t, "snapshot")
  BY DEF RemoveKeyDelete, DeleteFile, At, Requests
<1>2. /\ DOMAIN task' = Thread /\ \A u \in Thread \ {t} : task'[u] = task[u]
      /\ IsServing(task'[t]) /\ task'[t].at = "snapshot"
      /\ task'[t].op = task[t].op /\ task'[t].address = task[t].address
  BY <1>1, GotoFacts
<1> HIDE DEF f
<1>3. Types'
  BY <1>1, <1>2 DEF Types
<1>4. Requests'
  BY <1>1, <1>2 DEF Requests, Storing
<1>5. NewDiffer'
  BY <1>2 DEF NewDiffer, Storing
<1>6. NewFileThere'
  <2>1. ASSUME NEW u \in Thread, task'[u].at = "fill", task'[u].address \notin withdrawn
        PROVE  \E g \in dir' : SameName(g, task'[u].file)
    <3>1. u # t /\ task'[u] = task[u]
      BY <1>2, <2>1
    <3>2. PICK g \in dir : SameName(g, task[u].file)
      BY <2>1, <3>1 DEF NewFileThere
    <3>3. task[u].file.owner = task[u].address
      BY <2>1, <3>1 DEF Requests
    <3>4. ~SameName(g, f)
      BY <1>1, <2>1, <3>1, <3>2, <3>3 DEF SameName
    <3> QED
      BY <1>1, <3>1, <3>2, <3>4
  <2> QED
    BY <1>1, <2>1 DEF NewFileThere
<1>7. GeneratedKeyKept'
  BY <1>1 DEF GeneratedKeyKept, HeldKeys, SameName
<1> QED
  BY <1>1, <1>3, <1>4, <1>5, <1>6, <1>7 DEF HeldKeys

LEMMA ProceedStep ==
  ASSUME IInv, NEW t \in Thread, Proceed(t)
  PROVE  IInv'
<1> USE DEF historyVars, storeVars
<1>1. Types /\ DOMAIN task = Thread /\ (task[t].at # "idle" => IsServing(task[t]))
  BY DEF IInv, Types, IdleTask
<1>2. CASE StoreKeyCheck(t)
  <2>1. CASE task' = [task EXCEPT ![t] = IdleTask]
    BY <1>1, <1>2, <2>1, MoveKeeps DEF StoreKeyCheck, At
  <2>2. CASE Goto(t, "create")
    BY <1>1, <1>2, <2>2, GotoFacts, MoveKeeps DEF StoreKeyCheck, At
  <2> QED
    BY <1>2, <2>1, <2>2 DEF StoreKeyCheck
<1>3. CASE RemoveKeyFind(t)
  <2>1. task[t].at = "find" /\ UNCHANGED <<dir, minute, fresh, held, withdrawn>>
    BY <1>3 DEF RemoveKeyFind, At
  <2>2. CASE Goto(t, "snapshot")
    BY <1>1, <2>1, <2>2, GotoFacts, MoveKeeps
  <2>3. ASSUME NEW f \in FilesOf(dir, task[t].address),
               task' = [task EXCEPT ![t].at = "delete", ![t].file = f]
        PROVE  IInv'
    <3>1. f \in File /\ f.owner = task[t].address
      BY <1>1 DEF FilesOf, Types
    <3>2. task'[t] = [at |-> "delete", op |-> task[t].op, address |-> task[t].address,
                      name |-> task[t].name, file |-> f, snapshot |-> task[t].snapshot]
      BY <1>1, <2>1, <2>3 DEF IsServing
    <3>3. IsServing(task'[t])
      BY <1>1, <2>1, <3>1, <3>2 DEF IsServing
    <3> QED
      BY <1>1, <2>1, <2>3, <3>1, <3>2, <3>3, MoveKeeps
  <2> QED
    BY <1>3, <2>2, <2>3 DEF RemoveKeyFind
<1>4. CASE PutAddress(t)
  BY <1>1, <1>4, GotoFacts, MoveKeeps DEF PutAddress, At
<1>5. CASE TakeSnapshot(t)
  <2>1. task[t].at = "snapshot" /\ UNCHANGED <<dir, minute, fresh, held, withdrawn>>
        /\ task' = [task EXCEPT ![t].at = "truncate", ![t].snapshot = addresses]
    BY <1>5 DEF TakeSnapshot, At
  <2>2. task'[t] = [at |-> "truncate", op |-> task[t].op, address |-> task[t].address,
                    name |-> task[t].name, file |-> task[t].file, snapshot |-> addresses]
    BY <1>1, <2>1 DEF IsServing
  <2>3. IsServing(task'[t])
    BY <1>1, <2>1, <2>2 DEF IsServing
  <2> QED
    BY <1>1, <2>1, <2>2, <2>3, MoveKeeps
<1>6. CASE TruncateWallet(t)
  BY <1>1, <1>6, GotoFacts, MoveKeeps DEF TruncateWallet, At
<1>7. CASE WriteWallet(t) \/ FlushFails(t)
  BY <1>1, <1>7, MoveKeeps DEF WriteWallet, FlushFails, At
<1> QED
  BY <1>2, <1>3, <1>4, <1>5, <1>6, <1>7, CreateStep, FillStep, DeleteStep DEF Proceed

-----------------------------------------------------------------------------
LEMMA IInvStep == IInv /\ [Next]_vars => IInv'
<1> SUFFICES ASSUME IInv, [Next]_vars PROVE IInv'
  OBVIOUS
<1> USE DEF historyVars, storeVars
<1>1. ASSUME NEW t \in Thread, StartRequest(t) \/ Proceed(t) PROVE IInv'
  BY <1>1, RequestStep, ProceedStep
<1>2. CASE MinutePasses
  BY <1>2 DEF MinutePasses, IInv, Types, Requests, NewDiffer, NewFileThere, HeldKeys,
              GeneratedKeyKept, Storing
<1>3. CASE Crash
  BY <1>3 DEF Crash, IInv, Types, IdleTask, Requests, NewDiffer, NewFileThere, HeldKeys,
              GeneratedKeyKept, Storing
<1>4. CASE Restart \/ UNCHANGED vars
  BY <1>4 DEF Restart, vars, IInv, Types, Requests, NewDiffer, NewFileThere, HeldKeys,
              GeneratedKeyKept, Storing
<1> QED
  BY <1>1, <1>2, <1>3, <1>4 DEF Next

LEMMA KeysAlways == Spec => []IInv
  BY InitIInv, IInvStep, PTL DEF Spec

\* The key of a generated address is never lost before somebody removes the
\* address, whatever requests run at once and wherever the process dies
\* (newAddress, storeKey, removeKey, flushWalletToDisk).
THEOREM KeyNeverLost == Spec => []GeneratedKeyKept
<1>1. IInv => GeneratedKeyKept
  BY DEF IInv
<1> QED
  BY <1>1, KeysAlways, PTL

-----------------------------------------------------------------------------
\* What the three stores say of each other.

HasWallet == walletFile \notin {Missing, Torn}

\* A key will be stored for the address: there is no file of it, and nobody is
\* about to delete one.
Unborn(a) ==
  \/ a \in fresh
  \/ \E t \in Thread : /\ task[t].at = "create" \/ (task[t].at = "check" /\ task[t].op = "new")
                       /\ task[t].address = a

OneFile(a) ==
  /\ \A f, g \in FilesOf(dir, a) : f = g
  /\ Unborn(a) =>
       /\ FilesOf(dir, a) = {}
       /\ \A t \in Thread : task[t].at = "delete" => task[t].address # a
  /\ \A t \in Thread : task[t].at = "delete" /\ task[t].address = a =>
       \A g \in FilesOf(dir, a) : SameName(g, task[t].file)

\* The wallet shows the address of a key file, or a request will see to the
\* address or to the file.
Shown(a) ==
  server = "up" /\ FilesOf(dir, a) # {} =>
    \/ a \in DOMAIN addresses
    \/ \E t \in Thread : /\ task[t].at \in {"fill", "put", "find", "delete"}
                         /\ task[t].address = a

KeyFiles == \A a \in Address : a \in Generated \/ ~overlapped => OneFile(a) /\ Shown(a)

\* Where a request is in its course tells what it is, and only a server that is
\* up serves requests.
Course ==
  /\ server # "up" => Quiet
  /\ \A t \in Thread : task[t].at # "idle" =>
       /\ task[t].op \in {"new", "import", "watch", "remove"}
       /\ task[t].at \in {"check", "create", "fill", "put", "find", "delete",
                          "snapshot", "truncate", "write"}
       /\ task[t].at \in {"check", "create", "fill", "put"} => task[t].op # "remove"
       /\ task[t].at \in {"find", "delete"} => task[t].op = "remove"
       /\ task[t].op = "import" => task[t].address \in Imported

\* Every file was started by a request of its own.
Creating == {t \in Thread : task[t].at \in {"check", "create"}}

FilesCounted ==
  /\ IsFiniteSet(dir) /\ IsFiniteSet(Creating) /\ ops \in 0 .. OpBound
  /\ Cardinality(dir) + Cardinality(Creating) <= ops

\* Types of the maps and the names in them.
Naming(t) == task[t].at \in {"check", "create", "fill", "put"}

MapTypes ==
  /\ server \in {"up", "down", "failed"} /\ minute \in 0 .. MinuteBound
  /\ \A f \in dir : f.owner \in Generated \union Imported /\ f.minute \in 0 .. MinuteBound
  /\ IsAddressMap(addresses) /\ (HasWallet => IsAddressMap(walletFile))
  /\ \A t \in Thread : task[t].at # "idle" =>
       IsAddressMap(task[t].snapshot) /\ (Naming(t) => task[t].name \in Names)

\* No name "Account #i" twice in a map, and only imported addresses have one.
AutoNames == {AutoName(i) : i \in 1 .. KeyCount + 1}

NamesDiffer(map) ==
  /\ \A a \in DOMAIN map : map[a] \in AutoNames => a \in Imported
  /\ \A a, b \in DOMAIN map : map[a] = map[b] /\ map[a] \in AutoNames => a = b

Flushing(t) == task[t].at \in {"snapshot", "truncate", "write"}

\* While requests come one at a time: what the request in progress knows, ...
OneAtATime == \A t, u \in Thread : task[t].at # "idle" /\ task[u].at # "idle" => t = u

Known(t) ==
  /\ task[t].at \in {"truncate", "write"} => task[t].snapshot = addresses
  /\ task[t].at # "idle" =>
       /\ task[t].address \notin gone
       /\ task[t].op = "remove" =>
            /\ task[t].address \notin DOMAIN addresses
            /\ Flushing(t) => FilesOf(dir, task[t].address) = {}
       /\ Naming(t) => IF task[t].op = "import"
                       THEN task[t].name \in AutoNames /\ task[t].name \notin Range(addresses)
                       ELSE task[t].name \in Name

\* ... no trace is left of the addresses removed, ...
GoneEverywhere ==
  \A a \in gone : /\ a \notin DOMAIN addresses /\ FilesOf(dir, a) = {}
                  /\ HasWallet => a \notin DOMAIN walletFile

\* ... and the maps in memory and on disk agree, but for the address that is
\* being removed.
MapsAgree ==
  server = "up" /\ ~lostFlush /\ HasWallet /\ (\A t \in Thread : ~Flushing(t)) =>
    \A a : \/ \E t \in Thread : task[t].at \in {"find", "delete"} /\ task[t].address = a
           \/ /\ a \in DOMAIN walletFile => a \in DOMAIN addresses /\ addresses[a] = walletFile[a]
              /\ a \in DOMAIN addresses \ DOMAIN walletFile => FilesOf(dir, a) # {}

InTurn ==
  /\ OneAtATime /\ (\A t \in Thread : Known(t)) /\ GoneEverywhere /\ MapsAgree
  /\ NamesDiffer(addresses) /\ (HasWallet => NamesDiffer(walletFile))

Stores ==
  Course /\ FilesCounted /\ MapTypes /\ KeyFiles /\ (~overlapped => InTurn)

-----------------------------------------------------------------------------
\* Maps and files.

LEMMA MergedFacts ==
  \A m, n :
     /\ DOMAIN Merged(m, n) = DOMAIN m \union DOMAIN n
     /\ \A a \in DOMAIN m : Merged(m, n)[a] = m[a]
     /\ \A a \in DOMAIN n \ DOMAIN m : Merged(m, n)[a] = n[a]
  BY DEF Merged

LEMMA PutFacts ==
  \A m, a, n :
     /\ DOMAIN PutEntry(m, a, n) = DOMAIN m \union {a} /\ PutEntry(m, a, n)[a] = n
     /\ \A b \in DOMAIN m \ {a} : PutEntry(m, a, n)[b] = m[b]
  BY DEF PutEntry, Merged

LEMMA RemoveFacts ==
  \A m, a :
     /\ DOMAIN RemoveEntry(m, a) = DOMAIN m \ {a}
     /\ \A b \in DOMAIN m \ {a} : RemoveEntry(m, a)[b] = m[b]
  BY DEF RemoveEntry, Restrict

LEMMA AddressMapFacts ==
  \A m :
     /\ IsAddressMap(m) => DOMAIN m \subseteq Address /\ \A a \in DOMAIN m : m[a] \in Names
     /\ DOMAIN m \subseteq Address /\ (\A a \in DOMAIN m : m[a] \in Names) => IsAddressMap(m)
  BY DEF IsAddressMap, Range

LEMMA KeyCountNat == KeyCount \in Nat
  BY WalletAssumption, FS_CardinalityType DEF KeyCount

LEMMA LeastExists ==
  ASSUME NEW S \in SUBSET Nat, S # {}
  PROVE  \E x \in S : \A y \in S : x <= y
<1>1. PICK x \in S : \A y \in S : ~(<<y, x>> \in OpToRel(<, Nat))
  BY NatLessThanWellFounded, WFMin
<1>2. \A y \in S : ~(y < x)
  BY <1>1 DEF OpToRel
<1> QED
  BY <1>2

\* The first vacant name is one of "Account #1" to "Account #(KeyCount + 1)".
LEMMA VacantIsAuto ==
  ASSUME NEW names
  PROVE  \E i \in 1 .. KeyCount + 1 :
           VacantName(names) = AutoName(i) /\ (i <= KeyCount => AutoName(i) \notin names)
                                /\ \A j \in 1 .. i - 1 : AutoName(j) \in names
<1> DEFINE taken == {i \in 1 .. KeyCount : AutoName(i) \in names}
           vacant(i) == i \notin taken /\ \A j \in 1 .. i - 1 : j \in taken
           Free == {i \in 1 .. KeyCount + 1 : i \notin taken}
<1>1. KeyCount \in Nat
  BY KeyCountNat
<1>2. KeyCount + 1 \in Free /\ Free \in SUBSET Nat
  BY <1>1
<1> HIDE DEF Free
<1>3. PICK i \in Free : \A j \in Free : i <= j
  BY <1>2, LeastExists
<1> USE DEF Free
<1>4. i \in 1 .. KeyCount + 1 /\ vacant(i)
  BY <1>1, <1>3
<1>5. PICK k \in 1 .. KeyCount + 1 : k = (CHOOSE x \in 1 .. KeyCount + 1 : vacant(x)) /\ vacant(k)
  BY <1>4
<1>6. VacantName(names) = AutoName(k)
  BY <1>5 DEF VacantName
<1> QED
  BY <1>1, <1>5, <1>6

LEMMA AutoNamesDiffer ==
  /\ \A i, j \in Nat : AutoName(i) = AutoName(j) => i = j
  /\ \A i, j \in Nat : AutoName(i) # ListedName(j)
  /\ \A i \in Nat : AutoName(i) \in [auto : Nat] /\ AutoName(i) \notin Name
  BY WalletAssumption DEF AutoName, ListedName

\* It is vacant: more "Account #i" than addresses with a key are never taken.
LEMMA VacantIsVacant ==
  ASSUME NEW map, NamesDiffer(map)
  PROVE  VacantName(Range(map)) \in AutoNames \ Range(map)
<1> DEFINE names == Range(map)
<1>1. PICK i \in 1 .. KeyCount + 1 :
        VacantName(names) = AutoName(i) /\ (i <= KeyCount => AutoName(i) \notin names)
        /\ \A j \in 1 .. i - 1 : AutoName(j) \in names
  BY VacantIsAuto
<1>2. KeyCount \in Nat
  BY KeyCountNat
<1>3. ASSUME AutoName(i) \in names PROVE FALSE
  <2> DEFINE S == 1 .. KeyCount + 1
             T == Generated \union Imported
             at == [j \in S |-> CHOOSE a \in DOMAIN map : map[a] = AutoName(j)]
  <2>1. \A j \in S : AutoName(j) \in names
    BY <1>1, <1>2, <1>3
  <2>2. \A j \in S : at[j] \in DOMAIN map /\ map[at[j]] = AutoName(j)
    BY <2>1 DEF Range
  <2>3. at \in [S -> T]
    BY <2>2 DEF NamesDiffer, AutoNames
  <2>4. /\ IsFiniteSet(S) /\ Cardinality(S) = KeyCount + 1
        /\ IsFiniteSet(T) /\ Cardinality(T) = KeyCount
    BY <1>2, FS_Interval, WalletAssumption DEF KeyCount
  <2> HIDE DEF at
  <2>5. PICK x, y \in S : x # y /\ at[x] = at[y]
    BY <1>2, <2>3, <2>4, FS_PigeonHole
  <2> QED
    BY <1>2, <2>2, <2>5, AutoNamesDiffer
<1> QED
  BY <1>1, <1>3 DEF AutoNames

-----------------------------------------------------------------------------
\* What the steps of a thread do.

\* Only t changes what it is doing, while the server is up.
Moves(t) ==
  /\ server = "up" /\ server' = "up"
  /\ DOMAIN task' = Thread /\ \A u \in Thread \ {t} : task'[u] = task[u]

\* It goes on from one place to the next with its request.
Continues(t, from, to) ==
  /\ Moves(t) /\ task[t].at = from /\ task'[t].at = to
  /\ task'[t].op = task[t].op /\ task'[t].address = task[t].address
  /\ task'[t].name = task[t].name

Ends(t) == Moves(t) /\ task'[t] = IdleTask /\ task'[t].at = "idle"

LEMMA GotoContinues ==
  ASSUME Types, NEW t \in Thread, NEW from, from # "idle", NEW to, to # "idle",
         At(t, from), Goto(t, to), UNCHANGED server
  PROVE  /\ Continues(t, from, to) /\ task'[t].file = task[t].file
         /\ task'[t].snapshot = task[t].snapshot
  BY GotoFacts DEF Continues, Moves, At

LEMMA EndFacts ==
  ASSUME Types, NEW t \in Thread, server = "up", UNCHANGED server,
         task' = [task EXCEPT ![t] = IdleTask]
  PROVE  Ends(t)
  BY DEF Types, Ends, Moves, IdleTask

LEMMA StartFacts ==
  ASSUME Types, NEW t \in Thread, NEW r, Start(t, r)
  PROVE  /\ Moves(t) /\ task[t].at = "idle" /\ task'[t] = r
         /\ ops' = ops + 1 /\ ops < OpBound /\ gone' = gone \ {r.address}
         /\ overlapped => overlapped'
         /\ ~overlapped' => \A u \in Thread : task[u].at = "idle"
         /\ UNCHANGED <<dir, walletFile, minute, lostFlush>>
  BY DEF Start, Ready, Types, Moves

LEMMA CreateFacts ==
  ASSUME Types, NEW t \in Thread, StoreKeyCreate(t)
  PROVE  /\ Continues(t, "create", "fill") /\ task'[t].file = KeyFile(task[t].address, minute, Empty)
         /\ dir' = WriteFile(dir, KeyFile(task[t].address, minute, Empty))
         /\ task'[t].snapshot = task[t].snapshot
<1> DEFINE f == KeyFile(task[t].address, minute, Empty)
<1> HIDE DEF f
<1>1. /\ task[t].at = "create" /\ IsServing(task[t])
      /\ task' = [task EXCEPT ![t].at = "fill", ![t].file = f]
      /\ server = "up" /\ server' = "up"
  BY DEF StoreKeyCreate, At, Types, IdleTask, f
<1>2. task'[t] = [at |-> "fill", op |-> task[t].op, address |-> task[t].address,
                  name |-> task[t].name, file |-> f, snapshot |-> task[t].snapshot]
  BY <1>1 DEF IsServing, Types
<1>3. DOMAIN task' = Thread /\ \A u \in Thread \ {t} : task'[u] = task[u]
  BY <1>1 DEF Types
<1> QED
  BY <1>1, <1>2, <1>3 DEF StoreKeyCreate, Continues, Moves, f

LEMMA FindFacts ==
  ASSUME Types, NEW t \in Thread, RemoveKeyFind(t)
  PROVE  \/ FilesOf(dir, task[t].address) = {} /\ Continues(t, "find", "snapshot")
            /\ task'[t].snapshot = task[t].snapshot
         \/ Continues(t, "find", "delete") /\ task'[t].file \in FilesOf(dir, task[t].address)
            /\ task'[t].snapshot = task[t].snapshot
<1>1. CASE FilesOf(dir, task[t].address) = {} /\ Goto(t, "snapshot")
  BY <1>1, GotoContinues DEF RemoveKeyFind
<1>2. ASSUME NEW f \in FilesOf(dir, task[t].address),
             task' = [task EXCEPT ![t].at = "delete", ![t].file = f]
      PROVE  Continues(t, "find", "delete") /\ task'[t].file = f /\ task'[t].snapshot = task[t].snapshot
  <2>1. task[t].at = "find" /\ server = "up" /\ server' = "up" /\ IsServing(task[t])
    BY DEF RemoveKeyFind, At, Types, IdleTask
  <2>2. task'[t] = [at |-> "delete", op |-> task[t].op, address |-> task[t].address,
                    name |-> task[t].name, file |-> f, snapshot |-> task[t].snapshot]
    BY <1>2, <2>1 DEF IsServing, Types
  <2>3. DOMAIN task' = Thread /\ \A u \in Thread \ {t} : task'[u] = task[u]
    BY <1>2 DEF Types
  <2> QED
    BY <2>1, <2>2, <2>3 DEF Continues, Moves
<1> QED
  BY <1>1, <1>2 DEF RemoveKeyFind

LEMMA SnapshotFacts ==
  ASSUME Types, NEW t \in Thread, TakeSnapshot(t)
  PROVE  Continues(t, "snapshot", "truncate") /\ task'[t].snapshot = addresses
<1>1. /\ task[t].at = "snapshot" /\ server = "up" /\ server' = "up" /\ IsServing(task[t])
      /\ task' = [task EXCEPT ![t].at = "truncate", ![t].snapshot = addresses]
  BY DEF TakeSnapshot, At, Types, IdleTask
<1>2. task'[t] = [at |-> "truncate", op |-> task[t].op, address |-> task[t].address,
                  name |-> task[t].name, file |-> task[t].file, snapshot |-> addresses]
  BY <1>1 DEF IsServing, Types
<1>3. DOMAIN task' = Thread /\ \A u \in Thread \ {t} : task'[u] = task[u]
  BY <1>1 DEF Types
<1> QED
  BY <1>1, <1>2, <1>3 DEF Continues, Moves

\* Every step of a request, with what it does to the request.
StepOf(t) ==
  \/ StoreKeyCheck(t) /\ Ends(t)
  \/ /\ StoreKeyCheck(t) /\ Continues(t, "check", "create") /\ FilesOf(dir, task[t].address) = {}
     /\ task'[t].snapshot = task[t].snapshot
  \/ /\ StoreKeyCreate(t) /\ Continues(t, "create", "fill") /\ task'[t].snapshot = task[t].snapshot
     /\ task'[t].file = KeyFile(task[t].address, minute, Empty)
  \/ /\ StoreKeyFill(t) /\ Continues(t, "fill", "put") /\ task'[t].snapshot = task[t].snapshot
  \/ /\ RemoveKeyFind(t) /\ Continues(t, "find", "snapshot") /\ task'[t].snapshot = task[t].snapshot
     /\ FilesOf(dir, task[t].address) = {}
  \/ /\ RemoveKeyFind(t) /\ Continues(t, "find", "delete") /\ task'[t].snapshot = task[t].snapshot
     /\ task'[t].file \in FilesOf(dir, task[t].address)
  \/ RemoveKeyDelete(t) /\ Continues(t, "delete", "snapshot") /\ task'[t].snapshot = task[t].snapshot
  \/ PutAddress(t) /\ Continues(t, "put", "snapshot") /\ task'[t].snapshot = task[t].snapshot
  \/ TakeSnapshot(t) /\ Continues(t, "snapshot", "truncate") /\ task'[t].snapshot = addresses
  \/ TruncateWallet(t) /\ Continues(t, "truncate", "write") /\ task'[t].snapshot = task[t].snapshot
  \/ (WriteWallet(t) \/ FlushFails(t)) /\ Ends(t)

LEMMA EveryStepOf ==
  ASSUME Types, NEW t \in Thread, Proceed(t)
  PROVE  StepOf(t)
<1>1. CASE StoreKeyCheck(t)
  <2>1. CASE task' = [task EXCEPT ![t] = IdleTask]
    BY <1>1, <2>1, EndFacts DEF StoreKeyCheck, At, StepOf
  <2>2. CASE Goto(t, "create") /\ ~hasStoredKey(dir, task[t].address)
    BY <1>1, <2>2, GotoContinues DEF StoreKeyCheck, StepOf, hasStoredKey
  <2> QED
    BY <1>1, <2>1, <2>2 DEF StoreKeyCheck
<1>2. CASE StoreKeyCreate(t)
  BY <1>2, CreateFacts DEF StepOf
<1>3. CASE StoreKeyFill(t)
  BY <1>3, GotoContinues DEF StoreKeyFill, StepOf
<1>4. CASE RemoveKeyFind(t)
  BY <1>4, FindFacts DEF StepOf
<1>5. CASE RemoveKeyDelete(t)
  BY <1>5, GotoContinues DEF RemoveKeyDelete, StepOf
<1>6. CASE PutAddress(t)
  BY <1>6, GotoContinues DEF PutAddress, StepOf
<1>7. CASE TakeSnapshot(t)
  BY <1>7, SnapshotFacts DEF StepOf
<1>8. CASE TruncateWallet(t)
  BY <1>8, GotoContinues DEF TruncateWallet, StepOf
<1>9. CASE WriteWallet(t) \/ FlushFails(t)
  BY <1>9, EndFacts DEF WriteWallet, FlushFails, At, StepOf
<1> QED
  BY <1>1, <1>2, <1>3, <1>4, <1>5, <1>6, <1>7, <1>8, <1>9 DEF Proceed

\* The beginning of a request.
StartOf(t) ==
  /\ Moves(t) /\ task[t].at = "idle"
  /\ ops' = ops + 1 /\ ops < OpBound /\ gone' = gone \ {task'[t].address}
  /\ overlapped => overlapped'
  /\ ~overlapped' => \A u \in Thread : task[u].at = "idle"
  /\ UNCHANGED <<dir, walletFile, minute, lostFlush>>
  /\ task'[t].address \in Address /\ task'[t].snapshot = NoMap
  /\ \/ /\ task'[t].op = "new" /\ task'[t].at = "check" /\ task'[t].name \in Name
        /\ task'[t].address \in fresh /\ fresh' = fresh \ {task'[t].address}
        /\ UNCHANGED addresses
     \/ /\ task'[t].op = "import" /\ task'[t].at = "check" /\ task'[t].address \in Imported
        /\ task'[t].name = VacantName(Range(addresses))
        /\ UNCHANGED <<addresses, fresh>>
     \/ /\ task'[t].op = "watch" /\ task'[t].at = "put" /\ task'[t].name \in Name
        /\ UNCHANGED <<addresses, fresh>>
     \/ /\ task'[t].op = "remove" /\ task'[t].at = "find"
        /\ addresses' = RemoveEntry(addresses, task'[t].address)
        /\ UNCHANGED fresh

LEMMA ServingFields ==
  ASSUME NEW at, NEW op, NEW a, NEW name
  PROVE  /\ Serving(at, op, a, name).at = at /\ Serving(at, op, a, name).op = op
         /\ Serving(at, op, a, name).address = a /\ Serving(at, op, a, name).name = name
         /\ Serving(at, op, a, name).snapshot = NoMap
  BY DEF Serving

LEMMA EveryStartOf ==
  ASSUME Types, NEW t \in Thread, StartRequest(t)
  PROVE  StartOf(t)
<1>1. ASSUME NEW a \in Generated, NEW n \in Name, newAddress(t, a, n) PROVE StartOf(t)
  <2> DEFINE r == Serving("check", "new", a, n)
  <2>1. Start(t, r) /\ a \in fresh /\ fresh' = fresh \ {a} /\ UNCHANGED addresses /\ a \in Address
    BY <1>1 DEF newAddress, Address
  <2>2. r.at = "check" /\ r.op = "new" /\ r.address = a /\ r.name = n /\ r.snapshot = NoMap
    BY ServingFields
  <2> HIDE DEF r
  <2> QED
    BY <2>1, <2>2, StartFacts DEF StartOf
<1>2. ASSUME NEW a \in Imported, importPersonal(t, a) PROVE StartOf(t)
  <2> DEFINE n == VacantName(Range(addresses))
             r == Serving("check", "import", a, n)
  <2>1. Start(t, r) /\ UNCHANGED <<addresses, fresh>> /\ a \in Address
    BY <1>2 DEF importPersonal, Address
  <2>2. r.at = "check" /\ r.op = "import" /\ r.address = a /\ r.name = n /\ r.snapshot = NoMap
    BY ServingFields
  <2> HIDE DEF r
  <2> QED
    BY <2>1, <2>2, StartFacts DEF StartOf
<1>3. ASSUME NEW a \in Watched, NEW n \in Name, importAddress(t, a, n) PROVE StartOf(t)
  <2> DEFINE r == Serving("put", "watch", a, n)
  <2>1. Start(t, r) /\ UNCHANGED <<addresses, fresh>> /\ a \in Address
    BY <1>3 DEF importAddress, Address
  <2>2. r.at = "put" /\ r.op = "watch" /\ r.address = a /\ r.name = n /\ r.snapshot = NoMap
    BY ServingFields
  <2> HIDE DEF r
  <2> QED
    BY <2>1, <2>2, StartFacts DEF StartOf
<1>4. ASSUME NEW a \in Address, removeAddress(t, a) PROVE StartOf(t)
  <2> DEFINE r == Serving("find", "remove", a, NoName)
  <2>1. Start(t, r) /\ addresses' = RemoveEntry(addresses, a) /\ UNCHANGED fresh
    BY <1>4 DEF removeAddress
  <2>2. r.at = "find" /\ r.op = "remove" /\ r.address = a /\ r.snapshot = NoMap
    BY ServingFields
  <2> HIDE DEF r
  <2> QED
    BY <2>1, <2>2, StartFacts DEF StartOf
<1> QED
  BY <1>1, <1>2, <1>3, <1>4 DEF StartRequest

-----------------------------------------------------------------------------
\* Course.

LEMMA CourseProceeds ==
  ASSUME Course, NEW t \in Thread, StepOf(t)
  PROVE  Course'
<1> DEFINE fine(x) ==
      x.at # "idle" =>
       /\ x.op \in {"new", "import", "watch", "remove"}
       /\ x.at \in {"check", "create", "fill", "put", "find", "delete",
                    "snapshot", "truncate", "write"}
       /\ x.at \in {"check", "create", "fill", "put"} => x.op # "remove"
       /\ x.at \in {"find", "delete"} => x.op = "remove"
       /\ x.op = "import" => x.address \in Imported
<1>1. \A u \in Thread : fine(task[u])
  BY DEF Course
<1>2. fine(task[t])
  BY <1>1
<1>3. Moves(t) /\ fine(task'[t])
  BY <1>2 DEF StepOf, Continues, Ends
<1>4. \A u \in Thread \ {t} : fine(task'[u])
  BY <1>1, <1>3 DEF Moves
<1>5. \A u \in Thread : fine(task'[u])
  BY <1>3, <1>4
<1> QED
  BY <1>3, <1>5 DEF Course, Moves

LEMMA CourseStarts ==
  ASSUME Course, NEW t \in Thread, StartOf(t)
  PROVE  Course' 
  BY WalletAssumption DEF Course, StartOf, Moves

-----------------------------------------------------------------------------
\* FilesCounted.

LEMMA CountAdded ==
  ASSUME NEW S, IsFiniteSet(S), NEW x
  PROVE  /\ IsFiniteSet(S \union {x}) /\ Cardinality(S \union {x}) <= Cardinality(S) + 1
         /\ Cardinality(S \union {x}) \in Nat /\ Cardinality(S) \in Nat
<1>1. IsFiniteSet(S \union {x}) /\ Cardinality(S) \in Nat
  BY FS_AddElement, FS_CardinalityType
<1>2. Cardinality(S \union {x}) \in Nat
  BY <1>1, FS_CardinalityType
<1>3. Cardinality(S \union {x}) = IF x \in S THEN Cardinality(S) ELSE Cardinality(S) + 1
  BY FS_AddElement
<1> QED
  BY <1>1, <1>2, <1>3

LEMMA CountSame ==
  ASSUME FilesCounted, UNCHANGED <<dir, ops>>, Creating' \subseteq Creating
  PROVE  FilesCounted'
<1>1. IsFiniteSet(Creating') /\ Cardinality(Creating') <= Cardinality(Creating)
      /\ Cardinality(Creating') \in Nat /\ Cardinality(Creating) \in Nat /\ Cardinality(dir) \in Nat
  BY FS_Subset, FS_CardinalityType DEF FilesCounted
<1>2. ops' = ops /\ dir' = dir /\ Cardinality(dir') = Cardinality(dir) /\ OpBound \in Nat
  BY WalletAssumption
<1> HIDE DEF Creating
<1> QED
  BY <1>1, <1>2 DEF FilesCounted

LEMMA CountStarts ==
  ASSUME FilesCounted, NEW t \in Thread, StartOf(t)
  PROVE  FilesCounted'
<1> DEFINE C == Creating \union {t}
<1>1. Creating' \subseteq C /\ UNCHANGED dir /\ ops' = ops + 1 /\ ops < OpBound
  BY DEF StartOf, Moves, Creating
<1>2. IsFiniteSet(C) /\ Cardinality(C) <= Cardinality(Creating) + 1
      /\ Cardinality(C) \in Nat /\ Cardinality(Creating) \in Nat /\ Cardinality(dir) \in Nat
  BY CountAdded, FS_CardinalityType DEF FilesCounted
<1> HIDE DEF C
<1>3. IsFiniteSet(Creating') /\ Cardinality(Creating') <= Cardinality(C) /\ Cardinality(Creating') \in Nat
  BY <1>1, <1>2, FS_Subset, FS_CardinalityType
<1>4. dir' = dir /\ Cardinality(dir') = Cardinality(dir) /\ OpBound \in Nat
  BY <1>1, WalletAssumption
<1> QED
  BY <1>1, <1>2, <1>3, <1>4 DEF FilesCounted

LEMMA CountProceeds ==
  ASSUME FilesCounted, NEW t \in Thread, StepOf(t)
  PROVE  FilesCounted'
<1> USE DEF historyVars, storeVars
<1>1. Creating' \subseteq Creating /\ UNCHANGED ops
  BY DEF StepOf, Continues, Ends, Moves, Creating, StoreKeyCheck, StoreKeyCreate, StoreKeyFill,
         RemoveKeyFind, RemoveKeyDelete, PutAddress, TakeSnapshot, TruncateWallet, WriteWallet, FlushFails
<1>2. Cardinality(dir) \in Nat /\ Cardinality(Creating) \in Nat /\ OpBound \in Nat
  BY WalletAssumption, FS_CardinalityType DEF FilesCounted
<1>3. /\ IsFiniteSet(Creating') /\ Cardinality(Creating') <= Cardinality(Creating)
      /\ Cardinality(Creating') \in Nat
  BY <1>1, FS_Subset, FS_CardinalityType DEF FilesCounted
<1>4. CASE UNCHANGED dir
  BY <1>1, <1>4, CountSame
<1>5. CASE StoreKeyCreate(t) /\ Continues(t, "create", "fill")
  <2> DEFINE f == KeyFile(task[t].address, minute, Empty)
             D == dir \union {f}
             C == Creating \ {t}
  <2>1. dir' \subseteq D
    BY <1>5 DEF StoreKeyCreate, WriteFile
  <2>2. t \in Creating /\ Creating' \subseteq C
    BY <1>5 DEF Continues, Moves, Creating
  <2>3. IsFiniteSet(D) /\ Cardinality(D) <= Cardinality(dir) + 1 /\ Cardinality(D) \in Nat
    BY <1>2, CountAdded DEF FilesCounted
  <2>4. IsFiniteSet(C) /\ Cardinality(C) = Cardinality(Creating) - 1 /\ Cardinality(C) \in Nat
    BY <1>2, <2>2, FS_RemoveElement, FS_CardinalityType DEF FilesCounted
  <2> HIDE DEF C, D
  <2>5. IsFiniteSet(dir') /\ Cardinality(dir') <= Cardinality(D) /\ Cardinality(dir') \in Nat
    BY <2>1, <2>3, FS_Subset, FS_CardinalityType
  <2>6. Cardinality(Creating') <= Cardinality(C)
    BY <2>2, <2>4, FS_Subset
  <2> QED
    BY <1>1, <1>2, <1>3, <2>3, <2>4, <2>5, <2>6 DEF FilesCounted
<1>6. CASE StoreKeyFill(t)
  <2> DEFINE filled(g) == IF SameName(g, task[t].file) THEN [g EXCEPT !.secret = t] ELSE g
             h == [g \in dir |-> filled(g)]
  <2>1. dir' = {filled(g) : g \in dir}
    BY <1>6 DEF StoreKeyFill
  <2>2. h \in Surjection(dir, dir')
    BY <2>1 DEF Surjection
  <2>3. IsFiniteSet(dir') /\ Cardinality(dir') <= Cardinality(dir)
    BY <2>2, FS_Surjection DEF FilesCounted
  <2>4. Cardinality(dir') \in Nat
    BY <2>3, FS_CardinalityType
  <2> QED
    BY <1>1, <1>2, <1>3, <2>3, <2>4 DEF FilesCounted
<1>7. CASE RemoveKeyDelete(t)
  <2>1. dir' \subseteq dir
    BY <1>7 DEF RemoveKeyDelete, DeleteFile
  <2>2. IsFiniteSet(dir') /\ Cardinality(dir') <= Cardinality(dir) /\ Cardinality(dir') \in Nat
    BY <2>1, FS_Subset, FS_CardinalityType DEF FilesCounted
  <2> QED
    BY <1>1, <1>2, <1>3, <2>2 DEF FilesCounted
<1> QED
  BY <1>4, <1>5, <1>6, <1>7 DEF StepOf, StoreKeyCheck, RemoveKeyFind, PutAddress, TakeSnapshot,
                               TruncateWallet, WriteWallet, FlushFails

-----------------------------------------------------------------------------
\* MapTypes.

LEMMA MergedIsMap ==
  ASSUME NEW m, NEW n, IsAddressMap(m), IsAddressMap(n)
  PROVE  IsAddressMap(Merged(m, n))
  BY DEF IsAddressMap, Merged, Range

LEMMA PutIsMap ==
  ASSUME NEW m, IsAddressMap(m), NEW a \in Address, NEW n \in Names
  PROVE  IsAddressMap(PutEntry(m, a, n))
  BY DEF IsAddressMap, PutEntry, Merged, Range

LEMMA RemovedIsMap ==
  ASSUME NEW m, IsAddressMap(m), NEW a
  PROVE  IsAddressMap(RemoveEntry(m, a))
  BY DEF IsAddressMap, RemoveEntry, Restrict, Range

LEMMA NoMapIsMap == IsAddressMap(NoMap)
  BY DEF IsAddressMap, NoMap, Range

LEMMA VacantIsName ==
  ASSUME NEW names
  PROVE  VacantName(names) \in Names
<1>1. PICK i \in 1 .. KeyCount + 1 : VacantName(names) = AutoName(i)
  BY VacantIsAuto
<1>2. i \in 0 .. KeyCount + 1
  BY KeyCountNat
<1> QED
  BY <1>1, <1>2 DEF Names

LEMMA GreatestExists ==
  ASSUME NEW n \in Nat, NEW S \in SUBSET (1 .. n), S # {}
  PROVE  \E x \in S : \A y \in S : y <= x
<1> DEFINE T == {n - i : i \in S}
<1>1. T \in SUBSET Nat /\ T # {}
  <2>1. \A i \in S : n - i \in Nat
    OBVIOUS
  <2> QED
    BY <2>1
<1> HIDE DEF T
<1>2. PICK x \in T : \A y \in T : x <= y
  BY <1>1, LeastExists
<1>3. PICK i \in S : x = n - i
  BY DEF T
<1>4. ASSUME NEW j \in S PROVE j <= i
  <2>1. n - j \in T
    BY DEF T
  <2>2. n - i <= n - j
    BY <1>2, <1>3, <2>1
  <2> QED
    BY <2>2
<1> QED
  BY <1>4

\* A restart names the address of every key file, "Account 1" to "Account n".
LEMMA ListedFacts ==
  ASSUME FilesCounted, NEW listing \in Bijection(1 .. Cardinality(dir), dir)
  PROVE  /\ DOMAIN ListedNames(listing) = {f.owner : f \in dir}
         /\ \A a \in {f.owner : f \in dir} :
              ListedNames(listing)[a] \in {ListedName(i) : i \in 1 .. OpBound}
<1> DEFINE n == Cardinality(dir)
<1>1. n \in Nat /\ n <= OpBound /\ OpBound \in Nat
  BY FS_CardinalityType, WalletAssumption DEF FilesCounted
<1>2. /\ DOMAIN listing = 1 .. n /\ \A i \in 1 .. n : listing[i] \in dir
      /\ \A f \in dir : \E i \in 1 .. n : listing[i] = f
  BY DEF Bijection, Injection, Surjection
<1> HIDE DEF n
<1>3. {listing[i].owner : i \in DOMAIN listing} = {f.owner : f \in dir}
  BY <1>2
<1>4. ASSUME NEW a \in {f.owner : f \in dir}
      PROVE  ListedNames(listing)[a] \in {ListedName(i) : i \in 1 .. OpBound}
  <2> DEFINE S == {i \in 1 .. n : listing[i].owner = a}
             last_(i) == listing[i].owner = a /\ \A j \in DOMAIN listing : listing[j].owner = a => j <= i
             k == CHOOSE i \in DOMAIN listing : last_(i)
  <2>1. S \in SUBSET (1 .. n) /\ S # {}
    BY <1>2
  <2>2. PICK i \in S : \A j \in S : j <= i
    BY <1>1, <2>1, GreatestExists
  <2>3. i \in DOMAIN listing /\ last_(i)
    BY <1>2, <2>2
  <2>4. k \in DOMAIN listing
    BY <2>3
  <2>5. ListedNames(listing)[a] = ListedName(k)
    BY <1>3 DEF ListedNames
  <2> HIDE DEF k
  <2> QED
    BY <1>1, <1>2, <2>4, <2>5
<1> QED
  BY <1>3, <1>4 DEF ListedNames

LEMMA ListedIsMap ==
  ASSUME Types, FilesCounted, NEW listing \in Bijection(1 .. Cardinality(dir), dir)
  PROVE  IsAddressMap(ListedNames(listing))
<1>1. {f.owner : f \in dir} \subseteq Address
  BY DEF Types, File
<1>2. {ListedName(i) : i \in 1 .. OpBound} \subseteq Names
  BY DEF Names
<1> QED
  BY <1>1, <1>2, ListedFacts, AddressMapFacts

LEMMA MapTypesStart ==
  ASSUME MapTypes, NEW t \in Thread, StartOf(t)
  PROVE  MapTypes'
<1>1. IsAddressMap(addresses')
  BY RemovedIsMap DEF MapTypes, StartOf
<1>2. IsAddressMap(task'[t].snapshot)
  BY NoMapIsMap DEF StartOf
<1>3. Naming(t)' => task'[t].name \in Names
  <2>1. Name \subseteq Names
    BY DEF Names
  <2> QED
    BY <2>1, VacantIsName DEF StartOf, Naming
<1>4. /\ server' = server /\ UNCHANGED <<dir, minute, walletFile>>
      /\ \A u \in Thread \ {t} : task'[u] = task[u]
  BY DEF StartOf, Moves
<1>5. ASSUME NEW u \in Thread, task'[u].at # "idle"
      PROVE  IsAddressMap(task'[u].snapshot) /\ (Naming(u)' => task'[u].name \in Names)
  BY <1>2, <1>3, <1>4, <1>5 DEF MapTypes, Naming
<1> QED
  BY <1>1, <1>4, <1>5 DEF MapTypes, HasWallet

LEMMA MapTypesProceed ==
  ASSUME IInv, Course, MapTypes, NEW t \in Thread, StepOf(t)
  PROVE  MapTypes'
<1> USE DEF historyVars, storeVars
<1>1. /\ server' = server /\ UNCHANGED minute /\ \A u \in Thread \ {t} : task'[u] = task[u]
      /\ task[t].at # "idle"
  BY DEF StepOf, Continues, Ends, Moves, StoreKeyCheck, StoreKeyCreate, StoreKeyFill, At,
         RemoveKeyFind, RemoveKeyDelete, PutAddress, TakeSnapshot, TruncateWallet, WriteWallet, FlushFails
<1>2. IsAddressMap(task[t].snapshot) /\ (Naming(t) => task[t].name \in Names) /\ IsAddressMap(addresses)
      /\ task[t].address \in Address
  BY <1>1 DEF MapTypes, IInv, Types, IdleTask, IsServing
<1>3. ASSUME task'[t].at # "idle"
      PROVE  IsAddressMap(task'[t].snapshot) /\ (Naming(t)' => task'[t].name \in Names)
  BY <1>2, <1>3 DEF StepOf, Continues, Ends, Naming
<1>4. ASSUME NEW u \in Thread, task'[u].at # "idle"
      PROVE  IsAddressMap(task'[u].snapshot) /\ (Naming(u)' => task'[u].name \in Names)
  BY <1>1, <1>3, <1>4 DEF MapTypes, Naming
<1>5. IsAddressMap(addresses')
  <2>1. CASE PutAddress(t)
    <3>1. task[t].name \in Names
      BY <1>2, <2>1 DEF PutAddress, At, Naming
    <3> QED
      BY <1>2, <2>1, <3>1, PutIsMap DEF PutAddress
  <2>2. CASE ~PutAddress(t)
    BY <1>2, <2>2 DEF StepOf, StoreKeyCheck, StoreKeyCreate, StoreKeyFill, RemoveKeyFind,
         RemoveKeyDelete, TakeSnapshot, TruncateWallet, WriteWallet, FlushFails
  <2> QED
    BY <2>1, <2>2
<1>6. HasWallet' => IsAddressMap(walletFile')
  BY <1>2 DEF HasWallet, MapTypes, StepOf, StoreKeyCheck, StoreKeyCreate, StoreKeyFill, RemoveKeyFind,
         RemoveKeyDelete, PutAddress, TakeSnapshot, TruncateWallet, WriteWallet, FlushFails
<1>7. \A f \in dir' : f.owner \in Generated \union Imported /\ f.minute \in 0 .. MinuteBound
  <2> DEFINE fine(f) == f.owner \in Generated \union Imported /\ f.minute \in 0 .. MinuteBound
  <2>1. \A f \in dir : fine(f)
    BY DEF MapTypes
  <2>2. CASE StoreKeyCreate(t)
    <3> DEFINE f == KeyFile(task[t].address, minute, Empty)
    <3>1. dir' \subseteq dir \union {f}
      BY <2>2 DEF StoreKeyCreate, WriteFile
    <3>2. task[t].address \in Generated \union Imported
      BY <2>2 DEF StoreKeyCreate, At, IInv, Requests, Storing
    <3>3. f.owner = task[t].address /\ f.minute = minute
      BY DEF KeyFile
    <3>4. minute \in 0 .. MinuteBound
      BY DEF MapTypes
    <3> HIDE DEF f
    <3>5. fine(f)
      BY <3>2, <3>3, <3>4
    <3> QED
      BY <2>1, <3>1, <3>5
  <2>3. CASE StoreKeyFill(t)
    <3> DEFINE filled(g) == IF SameName(g, task[t].file) THEN [g EXCEPT !.secret = t] ELSE g
    <3>1. dir' = {filled(g) : g \in dir}
      BY <2>3 DEF StoreKeyFill
    <3>2. ASSUME NEW g \in dir PROVE fine(filled(g))
      <4>1. g \in File
        BY DEF IInv, Types
      <4>2. filled(g).owner = g.owner /\ filled(g).minute = g.minute
        BY <4>1 DEF File
      <4> HIDE DEF filled
      <4> QED
        BY <2>1, <4>2
    <3> HIDE DEF filled, fine
    <3>3. \A f \in dir' : fine(f)
      BY <3>1, <3>2
    <3> QED
      BY <3>3 DEF fine
  <2>4. CASE dir' \subseteq dir
    BY <2>1, <2>4
  <2> QED
    BY <2>2, <2>3, <2>4 DEF StepOf, StoreKeyCheck, RemoveKeyFind,
         RemoveKeyDelete, DeleteFile, PutAddress, TakeSnapshot, TruncateWallet, WriteWallet, FlushFails
<1> QED
  BY <1>1, <1>4, <1>5, <1>6, <1>7 DEF MapTypes

-----------------------------------------------------------------------------
\* KeyFiles.

LEMMA KeyFilesStart ==
  ASSUME IInv, KeyFiles, NEW t \in Thread, StartOf(t)
  PROVE  KeyFiles'
<1>1. /\ \A u \in Thread \ {t} : task'[u] = task[u]
      /\ task'[t].at \in {"check", "put", "find"} /\ task[t].at = "idle"
      /\ server' = server /\ UNCHANGED dir /\ fresh' \subseteq fresh
      /\ overlapped => overlapped'
      /\ task'[t].at = "check" /\ task'[t].op = "new" => task'[t].address \in fresh
      /\ \/ UNCHANGED addresses
         \/ task'[t].at = "find" /\ addresses' = RemoveEntry(addresses, task'[t].address)
  BY DEF StartOf, Moves
<1>2. ASSUME NEW a \in Address, a \in Generated \/ ~overlapped' PROVE OneFile(a)' /\ Shown(a)'
  <2>1. OneFile(a) /\ Shown(a)
    BY <1>1, <1>2 DEF KeyFiles
  <2>2. Unborn(a)' => Unborn(a)
    BY <1>1 DEF Unborn
  <2>3. OneFile(a)'
    BY <1>1, <2>1, <2>2 DEF OneFile, FilesOf
  <2>4. Shown(a)'
    <3>1. CASE a \in DOMAIN addresses
      <4>1. DOMAIN RemoveEntry(addresses, task'[t].address) = DOMAIN addresses \ {task'[t].address}
        BY RemoveFacts
      <4>2. a \in DOMAIN addresses' \/ (task'[t].at = "find" /\ task'[t].address = a)
        BY <1>1, <3>1, <4>1
      <4> QED
        BY <4>2 DEF Shown
    <3>2. CASE a \notin DOMAIN addresses
      BY <1>1, <2>1, <3>2 DEF Shown, FilesOf
    <3> QED
      BY <3>1, <3>2
  <2> QED
    BY <2>3, <2>4
<1> QED
  BY <1>2 DEF KeyFiles

\* Steps that leave the directory and the map in memory alone, and do not bring
\* an address to "create" or "delete".
LEMMA KeyFilesStay ==
  ASSUME NEW a, OneFile(a), Shown(a), NEW t \in Thread, Moves(t),
         UNCHANGED <<dir, addresses, fresh>>,
         task'[t].at \in {"idle", "snapshot", "truncate", "write"},
         \/ task[t].at \in {"check", "snapshot", "truncate", "write"}
         \/ FilesOf(dir, task[t].address) = {}
  PROVE  OneFile(a)' /\ Shown(a)'
<1>1. Unborn(a)' => Unborn(a)
  BY DEF Unborn, Moves
<1>2. OneFile(a)'
  BY <1>1 DEF OneFile, FilesOf, Moves
<1>3. Shown(a)'
  BY DEF Shown, FilesOf, Moves
<1> QED
  BY <1>2, <1>3

\* storeKey finds no file and goes on to create one.
LEMMA KeyFilesCheck ==
  ASSUME IInv, Course, NEW a, OneFile(a), Shown(a), a \in Generated \/ OneAtATime,
         NEW t \in Thread, Continues(t, "check", "create"), FilesOf(dir, task[t].address) = {},
         UNCHANGED <<dir, addresses, fresh>>
  PROVE  OneFile(a)' /\ Shown(a)'
<1>1. CASE a # task[t].address \/ task[t].op = "new"
  <2>1. Unborn(a)' => Unborn(a)
    BY <1>1 DEF Unborn, Continues, Moves
  <2> QED
    BY <2>1 DEF OneFile, Shown, FilesOf, Continues, Moves
<1>2. CASE a = task[t].address /\ task[t].op # "new"
  <2>1. task[t].op = "import" /\ a \in Imported
    BY <1>2 DEF IInv, Requests, Storing, Continues
  <2>2. OneAtATime
    BY <2>1, WalletAssumption
  <2>3. \A u \in Thread : task'[u].at # "delete"
    BY <2>2 DEF OneAtATime, Continues, Moves
  <2> QED
    BY <1>2, <2>3 DEF OneFile, Shown, FilesOf, Continues, Moves
<1> QED
  BY <1>1, <1>2

\* The file that is created is the only one of its address, and nobody else is
\* about to create or delete one.
LEMMA KeyFilesCreate ==
  ASSUME IInv, Course, NEW a, OneFile(a), Shown(a), a \in Generated \/ OneAtATime,
         NEW t \in Thread, Continues(t, "create", "fill"),
         NEW f, f.owner = task[t].address, dir' = WriteFile(dir, f),
         UNCHANGED <<addresses, fresh>>
  PROVE  OneFile(a)' /\ Shown(a)'
<1>1. CASE a # task[t].address
  <2>1. FilesOf(dir', a) = FilesOf(dir, a)
    BY <1>1 DEF FilesOf, WriteFile, SameName
  <2>2. Unborn(a)' => Unborn(a)
    BY <1>1 DEF Unborn, Continues, Moves
  <2>3. OneFile(a)'
    BY <1>1, <2>1, <2>2 DEF OneFile, Continues, Moves
  <2>4. Shown(a)'
    BY <1>1, <2>1 DEF Shown, Continues, Moves
  <2> QED
    BY <2>3, <2>4
<1>2. CASE a = task[t].address
  <2>1. Unborn(a)
    BY <1>2 DEF Unborn, Continues
  <2>2. FilesOf(dir, a) = {} /\ \A u \in Thread : task[u].at = "delete" => task[u].address # a
    BY <2>1 DEF OneFile
  <2>3. FilesOf(dir', a) = {f}
    BY <1>2, <2>2 DEF FilesOf, WriteFile
  <2>4. a \notin fresh
    BY <1>2, WalletAssumption DEF IInv, Types, Requests, Storing, Continues
  <2>5. ASSUME NEW u \in Thread, u # t, task[u].address = a,
               task[u].at = "create" \/ (task[u].at = "check" /\ task[u].op = "new")
        PROVE  FALSE
    <3>1. CASE OneAtATime
      BY <2>5, <3>1 DEF OneAtATime, Continues
    <3>2. CASE a \in Generated
      <4>1. task[t].op = "new" /\ task[u].op = "new"
        BY <1>2, <2>5, <3>2, WalletAssumption DEF IInv, Requests, Storing, Continues
      <4> QED
        BY <1>2, <2>5, <4>1 DEF IInv, NewDiffer, Storing, Continues
    <3> QED
      BY <3>1, <3>2
  <2>6. ~Unborn(a)'
    BY <2>4, <2>5 DEF Unborn, Continues, Moves
  <2>7. \A u \in Thread : task'[u].at = "delete" => task'[u].address # a
    BY <2>2 DEF Continues, Moves
  <2>8. OneFile(a)'
    BY <2>3, <2>6, <2>7 DEF OneFile
  <2>9. Shown(a)'
    BY <1>2 DEF Shown, Continues
  <2> QED
    BY <2>8, <2>9
<1> QED
  BY <1>1, <1>2

LEMMA KeyFilesFill ==
  ASSUME IInv, Course, NEW a, OneFile(a), Shown(a), 
         NEW t \in Thread, Continues(t, "fill", "put"),
         dir' = {IF SameName(g, task[t].file) THEN [g EXCEPT !.secret = t] ELSE g : g \in dir},
         UNCHANGED <<addresses, fresh>>
  PROVE  OneFile(a)' /\ Shown(a)'
<1> DEFINE filled(g) == IF SameName(g, task[t].file) THEN [g EXCEPT !.secret = t] ELSE g
<1>1. ASSUME NEW g \in dir PROVE filled(g).owner = g.owner /\ filled(g).minute = g.minute
  <2>1. g \in File
    BY DEF IInv, Types
  <2> QED
    BY <2>1 DEF File
<1>2. dir' = {filled(g) : g \in dir}
  OBVIOUS
<1> HIDE DEF filled
<1>3. \A h \in FilesOf(dir', a) : \E g \in FilesOf(dir, a) : h = filled(g) /\ SameName(h, g)
  BY <1>1, <1>2 DEF FilesOf, SameName
<1>4. Unborn(a)' => Unborn(a)
  BY DEF Unborn, Continues, Moves
<1>5. OneFile(a)'
  <2>1. \A u \in Thread : task'[u].at = "delete" => u # t /\ task'[u] = task[u]
    BY DEF Continues, Moves
  <2>2. \A h, k \in FilesOf(dir', a) : h = k
    BY <1>3 DEF OneFile
  <2>3. Unborn(a)' => FilesOf(dir', a) = {} /\ \A u \in Thread : task'[u].at = "delete" => task'[u].address # a
    BY <1>3, <1>4, <2>1 DEF OneFile
  <2>4. ASSUME NEW u \in Thread, task'[u].at = "delete", task'[u].address = a, NEW h \in FilesOf(dir', a)
        PROVE  SameName(h, task'[u].file)
    <3>1. PICK g \in FilesOf(dir, a) : SameName(h, g)
      BY <1>3, <2>4
    <3>2. SameName(g, task[u].file)
      BY <2>1, <2>4, <3>1 DEF OneFile
    <3>3. task'[u].file = task[u].file
      BY <2>1, <2>4
    <3> QED
      BY <3>1, <3>2, <3>3 DEF SameName
  <2> QED
    BY <2>2, <2>3, <2>4 DEF OneFile
<1>6. Shown(a)'
  <2>1. FilesOf(dir', a) # {} => FilesOf(dir, a) # {}
    BY <1>3
  <2> QED
    BY <2>1 DEF Shown, Continues, Moves
<1> QED
  BY <1>5, <1>6

\* removeKey takes the file of the address, the only one.
LEMMA KeyFilesFind ==
  ASSUME NEW a, OneFile(a), Shown(a), NEW t \in Thread, Continues(t, "find", "delete"),
         task'[t].file \in FilesOf(dir, task[t].address),
         UNCHANGED <<dir, addresses, fresh>>
  PROVE  OneFile(a)' /\ Shown(a)'
<1>1. Unborn(a)' => Unborn(a)
  BY DEF Unborn, Continues, Moves
<1>2. OneFile(a)'
  <2>1. Unborn(a)' => task[t].address # a
    BY <1>1 DEF OneFile
  <2>2. \A u \in Thread : task'[u].at = "delete" /\ task'[u].address = a =>
          \A g \in FilesOf(dir, a) : SameName(g, task'[u].file)
    BY DEF OneFile, Continues, Moves, SameName
  <2>3. UNCHANGED FilesOf(dir, a)
    BY DEF FilesOf
  <2> QED
    BY <1>1, <2>1, <2>2, <2>3 DEF OneFile, Continues, Moves
<1>3. Shown(a)'
  BY DEF Shown, FilesOf, Continues, Moves
<1> QED
  BY <1>2, <1>3

LEMMA KeyFilesDelete ==
  ASSUME IInv, NEW a, OneFile(a), Shown(a), NEW t \in Thread, Continues(t, "delete", "snapshot"),
         dir' = DeleteFile(dir, task[t].file), UNCHANGED <<addresses, fresh>>
  PROVE  OneFile(a)' /\ Shown(a)' /\ (task[t].address = a => FilesOf(dir', a) = {})
<1>1. task[t].file.owner = task[t].address
  BY DEF IInv, Requests, Continues
<1>2. Unborn(a)' => Unborn(a)
  BY DEF Unborn, Continues, Moves
<1>3. FilesOf(dir', a) \subseteq FilesOf(dir, a)
  BY DEF FilesOf, DeleteFile
<1>4. CASE task[t].address = a
  <2>1. \A g \in FilesOf(dir, a) : SameName(g, task[t].file)
    BY <1>4 DEF OneFile, Continues
  <2>2. FilesOf(dir', a) = {}
    BY <2>1 DEF FilesOf, DeleteFile
  <2>3. OneFile(a)'
    BY <1>2, <2>2 DEF OneFile, Continues, Moves
  <2> QED
    BY <2>2, <2>3 DEF Shown
<1>5. CASE task[t].address # a
  <2>1. OneFile(a)'
    BY <1>2, <1>3 DEF OneFile, Continues, Moves
  <2>2. Shown(a)'
    BY <1>3, <1>5 DEF Shown, Continues, Moves
  <2> QED
    BY <1>5, <2>1, <2>2
<1> QED
  BY <1>4, <1>5

LEMMA KeyFilesPut ==
  ASSUME NEW a, OneFile(a), Shown(a), NEW t \in Thread, Continues(t, "put", "snapshot"),
         addresses' = PutEntry(addresses, task[t].address, task[t].name), UNCHANGED <<dir, fresh>>
  PROVE  OneFile(a)' /\ Shown(a)'
<1>1. DOMAIN addresses' = DOMAIN addresses \union {task[t].address}
  <2>1. \A x, n : DOMAIN PutEntry(addresses, x, n) = DOMAIN addresses \union {x}
    BY PutFacts
  <2> QED
    BY <2>1
<1>2. Unborn(a)' => Unborn(a)
  BY DEF Unborn, Continues, Moves
<1>3. OneFile(a)'
  BY <1>2 DEF OneFile, FilesOf, Continues, Moves
<1>4. Shown(a)'
  BY <1>1 DEF Shown, FilesOf, Continues, Moves
<1> QED
  BY <1>3, <1>4

LEMMA KeyFilesProceed ==
  ASSUME IInv, Course, KeyFiles, ~overlapped => OneAtATime, NEW t \in Thread, StepOf(t)
  PROVE  KeyFiles'
<1> USE DEF historyVars, storeVars
<1>1. UNCHANGED overlapped
  BY DEF StepOf, StoreKeyCheck, StoreKeyCreate, StoreKeyFill, RemoveKeyFind, RemoveKeyDelete,
         PutAddress, TakeSnapshot, TruncateWallet, WriteWallet, FlushFails
<1>2. ASSUME NEW a \in Address, a \in Generated \/ ~overlapped PROVE OneFile(a)' /\ Shown(a)'
  <2>1. OneFile(a) /\ Shown(a) /\ (a \in Generated \/ OneAtATime)
    BY <1>2 DEF KeyFiles
  <2>2. CASE StoreKeyCheck(t) /\ Ends(t)
    BY <2>1, <2>2, KeyFilesStay DEF StoreKeyCheck, At, Ends
  <2>3. CASE StoreKeyCheck(t) /\ Continues(t, "check", "create") /\ FilesOf(dir, task[t].address) = {}
    BY <2>1, <2>3, KeyFilesCheck DEF StoreKeyCheck
  <2>4. CASE StoreKeyCreate(t) /\ Continues(t, "create", "fill")
    <3> DEFINE f == KeyFile(task[t].address, minute, Empty)
    <3>1. f.owner = task[t].address
      BY DEF KeyFile
    <3>2. dir' = WriteFile(dir, f) /\ UNCHANGED <<addresses, fresh>>
      BY <2>4 DEF StoreKeyCreate
    <3> HIDE DEF f
    <3> QED
      BY <2>1, <2>4, <3>1, <3>2, KeyFilesCreate
  <2>5. CASE StoreKeyFill(t) /\ Continues(t, "fill", "put")
    BY <2>1, <2>5, KeyFilesFill DEF StoreKeyFill
  <2>6. CASE RemoveKeyFind(t) /\ Continues(t, "find", "snapshot") /\ FilesOf(dir, task[t].address) = {}
    BY <2>1, <2>6, KeyFilesStay DEF RemoveKeyFind, Continues
  <2>7. CASE RemoveKeyFind(t) /\ Continues(t, "find", "delete")
             /\ task'[t].file \in FilesOf(dir, task[t].address)
    BY <2>1, <2>7, KeyFilesFind DEF RemoveKeyFind
  <2>8. CASE RemoveKeyDelete(t) /\ Continues(t, "delete", "snapshot")
    BY <2>1, <2>8, KeyFilesDelete DEF RemoveKeyDelete
  <2>9. CASE PutAddress(t) /\ Continues(t, "put", "snapshot")
    BY <2>1, <2>9, KeyFilesPut DEF PutAddress
  <2>10. CASE TakeSnapshot(t) /\ Continues(t, "snapshot", "truncate")
    BY <2>1, <2>10, KeyFilesStay DEF TakeSnapshot, Continues
  <2>11. CASE TruncateWallet(t) /\ Continues(t, "truncate", "write")
    BY <2>1, <2>11, KeyFilesStay DEF TruncateWallet, Continues
  <2>12. CASE (WriteWallet(t) \/ FlushFails(t)) /\ Ends(t)
    BY <2>1, <2>12, KeyFilesStay DEF WriteWallet, FlushFails, At, Ends
  <2> QED
    BY <2>2, <2>3, <2>4, <2>5, <2>6, <2>7, <2>8, <2>9, <2>10, <2>11, <2>12 DEF StepOf
<1> QED
  BY <1>1, <1>2 DEF KeyFiles

LEMMA KeyFilesCrash ==
  ASSUME KeyFiles, Crash
  PROVE  KeyFiles'
<1>1. /\ server' # "up" /\ UNCHANGED <<dir, fresh, overlapped>>
      /\ task' = [t \in Thread |-> IdleTask] /\ \A t \in Thread : task'[t].at = "idle"
  BY DEF Crash, IdleTask
<1>2. ASSUME NEW a \in Address, OneFile(a) PROVE OneFile(a)' /\ Shown(a)'
  BY <1>1, <1>2 DEF OneFile, Unborn, Shown, FilesOf
<1> QED
  BY <1>1, <1>2 DEF KeyFiles

\* A restart shows every address with a file.
LEMMA KeyFilesRestart ==
  ASSUME FilesCounted, KeyFiles, Restart
  PROVE  KeyFiles'
<1> USE DEF historyVars, storeVars
<1>1. UNCHANGED <<dir, fresh, overlapped, task>>
  BY DEF Restart
<1>2. server' = "up" => {f.owner : f \in dir} \subseteq DOMAIN addresses'
  <2>1. ASSUME NEW listing \in Bijection(1 .. Cardinality(dir), dir)
        PROVE  DOMAIN ListedNames(listing) = {f.owner : f \in dir}
               /\ DOMAIN Merged(walletFile, ListedNames(listing)) = DOMAIN walletFile \union {f.owner : f \in dir}
    BY ListedFacts, MergedFacts
  <2> QED
    BY <2>1 DEF Restart
<1>3. ASSUME NEW a \in Address, OneFile(a) PROVE OneFile(a)' /\ Shown(a)'
  <2>1. OneFile(a)'
    BY <1>1, <1>3 DEF OneFile, Unborn, FilesOf
  <2>2. Shown(a)'
    BY <1>1, <1>2 DEF Shown, FilesOf
  <2> QED
    BY <2>1, <2>2
<1> QED
  BY <1>1, <1>3 DEF KeyFiles

-----------------------------------------------------------------------------
\* InTurn.

\* While requests come one at a time, the other threads are idle before and
\* after the step of one.
Alone(t) == \A u \in Thread : u # t => task[u].at = "idle" /\ task'[u].at = "idle"

LEMMA AloneFacts ==
  ASSUME OneAtATime, NEW t \in Thread, task[t].at # "idle", Moves(t)
  PROVE  Alone(t) /\ OneAtATime'
  BY DEF OneAtATime, Moves, Alone

\* What has to be shown of the thread that takes the step.
LEMMA TurnFrom ==
  ASSUME NEW t \in Thread, Alone(t), Known(t)', GoneEverywhere', MapsAgree',
         NamesDiffer(addresses'), HasWallet' => NamesDiffer(walletFile')
  PROVE  InTurn'
<1>1. OneAtATime'
  BY DEF OneAtATime, Alone
<1>2. \A u \in Thread : Known(u)'
  BY DEF Known, Alone
<1> QED
  BY <1>1, <1>2 DEF InTurn

LEMMA TurnStart ==
  ASSUME IInv, ~overlapped => InTurn, NEW t \in Thread, StartOf(t), ~overlapped'
  PROVE  InTurn'
<1>1. /\ \A u \in Thread : task[u].at = "idle" /\ (u # t => task'[u] = task[u])
      /\ server' = server /\ UNCHANGED <<dir, walletFile, lostFlush>>
      /\ gone' = gone \ {task'[t].address} /\ InTurn
  BY DEF StartOf, Moves
<1>2. Alone(t)
  BY <1>1 DEF Alone
<1> DEFINE a == task'[t].address
<1>3. /\ DOMAIN addresses' \subseteq DOMAIN addresses
      /\ \A b \in DOMAIN addresses' : addresses'[b] = addresses[b]
      /\ \A b \in DOMAIN addresses \ DOMAIN addresses' : b = a /\ task'[t].at = "find"
      /\ task'[t].op = "remove" => a \notin DOMAIN addresses'
  <2>1. DOMAIN RemoveEntry(addresses, a) = DOMAIN addresses \ {a}
        /\ \A b \in DOMAIN addresses \ {a} : RemoveEntry(addresses, a)[b] = addresses[b]
    BY RemoveFacts
  <2> QED
    BY <2>1 DEF StartOf
<1>4. Known(t)'
  <2>1. /\ task'[t].at \in {"check", "put", "find"} /\ a \notin gone'
        /\ task'[t].op = "remove" => task'[t].at = "find"
    BY DEF StartOf
  <2>2. Naming(t)' => IF task'[t].op = "import"
                      THEN task'[t].name \in AutoNames /\ task'[t].name \notin Range(addresses')
                      ELSE task'[t].name \in Name
    BY <1>1, VacantIsVacant DEF StartOf, Naming, InTurn
  <2> QED
    BY <1>3, <2>1, <2>2 DEF Known, Flushing
<1>5. GoneEverywhere'
  BY <1>1, <1>3 DEF InTurn, GoneEverywhere, FilesOf, HasWallet
<1>6. MapsAgree'
  <2>1. ASSUME server = "up", ~lostFlush, HasWallet, NEW b
        PROVE  \/ task'[t].at = "find" /\ task'[t].address = b
               \/ /\ b \in DOMAIN walletFile => b \in DOMAIN addresses' /\ addresses'[b] = walletFile[b]
                  /\ b \in DOMAIN addresses' \ DOMAIN walletFile => FilesOf(dir, b) # {}
    <3>1. /\ b \in DOMAIN walletFile => b \in DOMAIN addresses /\ addresses[b] = walletFile[b]
          /\ b \in DOMAIN addresses \ DOMAIN walletFile => FilesOf(dir, b) # {}
      BY <1>1, <2>1 DEF InTurn, MapsAgree, Flushing
    <3> QED
      BY <1>3, <3>1
  <2> QED
    BY <1>1, <2>1 DEF MapsAgree, HasWallet, FilesOf
<1>7. NamesDiffer(addresses') /\ (HasWallet' => NamesDiffer(walletFile'))
  BY <1>1, <1>3 DEF InTurn, NamesDiffer, HasWallet
<1> QED
  BY <1>2, <1>4, <1>5, <1>6, <1>7, TurnFrom

\* Steps that change none of the stores.
LEMMA TurnStay ==
  ASSUME InTurn, Course, NEW t \in Thread, Alone(t), Moves(t),
         UNCHANGED <<addresses, dir, walletFile, gone, lostFlush>>,
         \/ task[t].at = "check" /\ Ends(t)
         \/ Continues(t, "check", "create") \/ Continues(t, "find", "delete")
         \/ Continues(t, "find", "snapshot") /\ FilesOf(dir, task[t].address) = {}
         \/ Continues(t, "snapshot", "truncate") /\ task'[t].snapshot = addresses
  PROVE  InTurn'
<1>1. Known(t)
  BY DEF InTurn
<1>2. Known(t)'
  <2>1. CASE Ends(t)
    BY <2>1 DEF Known, Ends, Naming
  <2>2. CASE Continues(t, "check", "create")
    <3>1. task[t].op # "remove"
      BY <2>2 DEF Course, Continues
    <3> QED
      BY <1>1, <2>2, <3>1 DEF Known, Continues, Naming
  <2>3. CASE Continues(t, "find", "delete")
    BY <1>1, <2>3 DEF Known, Continues, Naming, Flushing
  <2>4. CASE Continues(t, "find", "snapshot") /\ FilesOf(dir, task[t].address) = {}
    BY <1>1, <2>4 DEF Known, Continues, Naming, FilesOf
  <2>5. CASE Continues(t, "snapshot", "truncate") /\ task'[t].snapshot = addresses
    BY <1>1, <2>5 DEF Known, Continues, Naming, Flushing, FilesOf
  <2> QED
    BY <2>1, <2>2, <2>3, <2>4, <2>5
<1>3. GoneEverywhere'
  BY DEF InTurn, GoneEverywhere, FilesOf, HasWallet
<1>4. MapsAgree'
  <2>1. CASE Flushing(t)'
    BY <2>1 DEF MapsAgree
  <2>2. CASE ~Flushing(t)'
    <3>1. /\ \A u \in Thread : ~Flushing(u)
          /\ task[t].at \in {"find", "delete"} =>
               task'[t].at \in {"find", "delete"} /\ task'[t].address = task[t].address
      BY <2>2 DEF Alone, Flushing, Continues, Ends
    <3>2. \A u \in Thread : task[u].at \in {"find", "delete"} => u = t
      BY DEF Alone
    <3> QED
      BY <3>1, <3>2 DEF InTurn, MapsAgree, HasWallet, FilesOf, Moves
  <2> QED
    BY <2>1, <2>2
<1>5. NamesDiffer(addresses') /\ (HasWallet' => NamesDiffer(walletFile'))
  BY DEF InTurn, HasWallet
<1> QED
  BY <1>2, <1>3, <1>4, <1>5, TurnFrom

\* Steps on the key files of an address: they touch no others.
LEMMA TurnFile ==
  ASSUME InTurn, Course, NEW t \in Thread, Alone(t),
         UNCHANGED <<addresses, walletFile, gone, lostFlush>>,
         \A b : b # task[t].address => (FilesOf(dir', b) = {} <=> FilesOf(dir, b) = {}),
         \/ Continues(t, "create", "fill") /\ FilesOf(dir', task[t].address) # {}
         \/ Continues(t, "fill", "put")
            /\ (FilesOf(dir', task[t].address) = {} <=> FilesOf(dir, task[t].address) = {})
         \/ Continues(t, "delete", "snapshot") /\ FilesOf(dir', task[t].address) = {}
  PROVE  InTurn'
<1>1. Known(t) /\ task[t].at # "idle" /\ Moves(t)
  BY DEF InTurn, Continues
<1>2. Known(t)'
  <2>1. CASE Continues(t, "delete", "snapshot") /\ FilesOf(dir', task[t].address) = {}
    BY <1>1, <2>1 DEF Known, Continues, Naming
  <2>2. CASE Continues(t, "create", "fill") \/ Continues(t, "fill", "put")
    BY <1>1, <2>2 DEF Known, Continues, Naming, Flushing
  <2> QED
    BY <2>1, <2>2
<1>3. GoneEverywhere'
  <2>1. task[t].address \notin gone
    BY <1>1 DEF Known
  <2>2. ASSUME NEW b \in gone PROVE FilesOf(dir', b) = {}
    BY <2>1 DEF InTurn, GoneEverywhere
  <2> QED
    BY <2>2 DEF InTurn, GoneEverywhere, HasWallet
<1>4. MapsAgree'
  <2>1. CASE Flushing(t)'
    BY <2>1 DEF MapsAgree
  <2>2. CASE ~Flushing(t)'
    <3>1. /\ \A u \in Thread : ~Flushing(u)
          /\ \A u \in Thread : task[u].at \notin {"find", "delete"}
          /\ \A b : FilesOf(dir, b) # {} => FilesOf(dir', b) # {}
      BY <2>2 DEF Alone, Flushing, Continues
    <3> QED
      BY <1>1, <3>1 DEF InTurn, MapsAgree, HasWallet, Moves
  <2> QED
    BY <2>1, <2>2
<1>5. NamesDiffer(addresses') /\ (HasWallet' => NamesDiffer(walletFile'))
  BY DEF InTurn, HasWallet
<1> QED
  BY <1>2, <1>3, <1>4, <1>5, TurnFrom

\* A new entry: its name is vacant, or one that clients choose.
LEMMA TurnPut ==
  ASSUME InTurn, Course, NEW t \in Thread, Alone(t), Continues(t, "put", "snapshot"),
         addresses' = PutEntry(addresses, task[t].address, task[t].name),
         UNCHANGED <<dir, walletFile, gone, lostFlush>>
  PROVE  InTurn'
<1> DEFINE a == task[t].address
           n == task[t].name
<1>1. /\ DOMAIN addresses' = DOMAIN addresses \union {a} /\ addresses'[a] = n
      /\ \A b \in DOMAIN addresses \ {a} : addresses'[b] = addresses[b]
  BY DEF PutEntry, Merged
<1>2. /\ Known(t) /\ task[t].at = "put" /\ task[t].op # "remove" /\ a \notin gone
      /\ IF task[t].op = "import" THEN a \in Imported /\ n \in AutoNames /\ n \notin Range(addresses)
                                  ELSE n \in Name
  BY DEF InTurn, Course, Continues, Known, Naming
<1>3. Known(t)'
  BY <1>2 DEF Known, Continues, Naming
<1>4. GoneEverywhere'
  BY <1>1, <1>2 DEF InTurn, GoneEverywhere, FilesOf, HasWallet
<1>5. MapsAgree'
  BY DEF MapsAgree, Flushing, Continues
<1>6. NamesDiffer(addresses')
  <2>1. n \in AutoNames => a \in Imported /\ \A b \in DOMAIN addresses : addresses[b] # n
    <3>1. AutoNames \intersect Name = {}
      BY KeyCountNat, AutoNamesDiffer DEF AutoNames
    <3> QED
      BY <1>2, <3>1 DEF Range
  <2>2. NamesDiffer(addresses)
    BY DEF InTurn
  <2> HIDE DEF a, n
  <2> QED
    BY <1>1, <2>1, <2>2 DEF NamesDiffer
<1>7. HasWallet' => NamesDiffer(walletFile')
  BY DEF InTurn, HasWallet
<1> QED
  BY <1>3, <1>4, <1>5, <1>6, <1>7, TurnFrom

\* The flush of wallet.json.
LEMMA TurnTruncate ==
  ASSUME InTurn, NEW t \in Thread, Alone(t), Continues(t, "truncate", "write"),
         task'[t].snapshot = task[t].snapshot, walletFile' = Torn,
         UNCHANGED <<addresses, dir, gone, lostFlush>>
  PROVE  InTurn'
<1>1. Known(t) /\ ~HasWallet'
  BY DEF InTurn, HasWallet
<1>2. Known(t)'
  BY <1>1 DEF Known, Continues, Flushing, Naming, FilesOf
<1>3. GoneEverywhere' /\ MapsAgree'
  BY <1>1 DEF InTurn, GoneEverywhere, MapsAgree, FilesOf
<1>4. NamesDiffer(addresses')
  BY DEF InTurn
<1> QED
  BY <1>1, <1>2, <1>3, <1>4, TurnFrom

LEMMA TurnWrite ==
  ASSUME InTurn, Course, NEW t \in Thread, Alone(t), Ends(t), task[t].at = "write",
         walletFile' = task[t].snapshot, UNCHANGED <<addresses, dir>>,
         gone' = IF task[t].op = "remove" THEN gone \union {task[t].address} ELSE gone
  PROVE  InTurn'
<1>1. Known(t) /\ walletFile' = addresses
  BY DEF InTurn, Known
<1>2. Known(t)'
  BY DEF Known, Ends, Naming
<1>3. GoneEverywhere'
  <2>1. task[t].op = "remove" => task[t].address \notin DOMAIN addresses /\ FilesOf(dir, task[t].address) = {}
    BY <1>1 DEF Known, Flushing
  <2> QED
    BY <1>1, <2>1 DEF InTurn, GoneEverywhere, FilesOf
<1>4. MapsAgree'
  BY <1>1 DEF MapsAgree
<1>5. NamesDiffer(addresses') /\ NamesDiffer(walletFile')
  BY <1>1 DEF InTurn
<1> QED
  BY <1>2, <1>3, <1>4, <1>5, TurnFrom

LEMMA TurnFail ==
  ASSUME InTurn, NEW t \in Thread, Alone(t), Ends(t), lostFlush' = TRUE,
         UNCHANGED <<addresses, dir, walletFile, gone>>
  PROVE  InTurn'
<1>1. Known(t)'
  BY DEF Known, Ends, Naming
<1>2. GoneEverywhere' /\ MapsAgree'
  BY DEF InTurn, GoneEverywhere, MapsAgree, FilesOf, HasWallet
<1>3. NamesDiffer(addresses') /\ (HasWallet' => NamesDiffer(walletFile'))
  BY DEF InTurn, HasWallet
<1> QED
  BY <1>1, <1>2, <1>3, TurnFrom

LEMMA TurnProceed ==
  ASSUME IInv, Course, KeyFiles, InTurn, ~overlapped, NEW t \in Thread, StepOf(t)
  PROVE  InTurn'
<1> USE DEF historyVars, storeVars
<1>1. /\ Alone(t) /\ Moves(t) /\ task[t].address \in Address
      /\ OneFile(task[t].address) /\ Shown(task[t].address)
  <2>1. task[t].at # "idle" /\ Moves(t)
    BY DEF StepOf, StoreKeyCheck, At, Ends, Continues, WriteWallet, FlushFails
  <2>2. task[t].address \in Address
    BY <2>1 DEF IInv, Types, IdleTask, IsServing
  <2> QED
    BY <2>1, <2>2, AloneFacts DEF InTurn, KeyFiles
<1>2. CASE StoreKeyCheck(t) /\ Ends(t)
  BY <1>1, <1>2, TurnStay DEF StoreKeyCheck, At
<1>3. CASE StoreKeyCheck(t) /\ Continues(t, "check", "create")
  BY <1>1, <1>3, TurnStay DEF StoreKeyCheck
<1>4. CASE StoreKeyCreate(t) /\ Continues(t, "create", "fill")
  <2> DEFINE f == KeyFile(task[t].address, minute, Empty)
  <2>1. f.owner = task[t].address
    BY DEF KeyFile
  <2>2. dir' = WriteFile(dir, f) /\ UNCHANGED <<addresses, walletFile, gone, lostFlush>>
    BY <1>4 DEF StoreKeyCreate
  <2> HIDE DEF f
  <2>3. f \in FilesOf(dir', task[t].address)
    BY <2>1, <2>2 DEF FilesOf, WriteFile
  <2>4. \A b : b # task[t].address => FilesOf(dir', b) = FilesOf(dir, b)
    BY <2>1, <2>2 DEF FilesOf, WriteFile, SameName
  <2> QED
    BY <1>1, <1>4, <2>2, <2>3, <2>4, TurnFile
<1>5. CASE StoreKeyFill(t) /\ Continues(t, "fill", "put")
  <2> DEFINE filled(g) == IF SameName(g, task[t].file) THEN [g EXCEPT !.secret = t] ELSE g
  <2>1. dir' = {filled(g) : g \in dir} /\ UNCHANGED <<addresses, walletFile, gone, lostFlush>>
    BY <1>5 DEF StoreKeyFill
  <2>2. ASSUME NEW g \in dir PROVE filled(g).owner = g.owner
    <3>1. g \in File
      BY DEF IInv, Types
    <3> QED
      BY <3>1 DEF File
  <2> HIDE DEF filled
  <2>3. \A b : FilesOf(dir', b) = {} <=> FilesOf(dir, b) = {}
    BY <2>1, <2>2 DEF FilesOf
  <2> QED
    BY <1>1, <1>5, <2>1, <2>3, TurnFile
<1>6. CASE RemoveKeyFind(t) /\ Continues(t, "find", "snapshot") /\ FilesOf(dir, task[t].address) = {}
  BY <1>1, <1>6, TurnStay DEF RemoveKeyFind
<1>7. CASE RemoveKeyFind(t) /\ Continues(t, "find", "delete")
  BY <1>1, <1>7, TurnStay DEF RemoveKeyFind
<1>8. CASE RemoveKeyDelete(t) /\ Continues(t, "delete", "snapshot")
  <2>1. dir' = DeleteFile(dir, task[t].file) /\ UNCHANGED <<addresses, walletFile, gone, lostFlush, fresh>>
    BY <1>8 DEF RemoveKeyDelete
  <2>2. FilesOf(dir', task[t].address) = {}
    BY <1>1, <1>8, <2>1, KeyFilesDelete
  <2>3. task[t].file.owner = task[t].address
    BY <1>8 DEF IInv, Requests, Continues
  <2>4. \A b : b # task[t].address => FilesOf(dir', b) = FilesOf(dir, b)
    BY <2>1, <2>3 DEF FilesOf, DeleteFile, SameName
  <2> QED
    BY <1>1, <1>8, <2>1, <2>2, <2>4, TurnFile
<1>9. CASE PutAddress(t) /\ Continues(t, "put", "snapshot")
  BY <1>1, <1>9, TurnPut DEF PutAddress
<1>10. CASE TakeSnapshot(t) /\ Continues(t, "snapshot", "truncate") /\ task'[t].snapshot = addresses
  BY <1>1, <1>10, TurnStay DEF TakeSnapshot
<1>11. CASE TruncateWallet(t) /\ Continues(t, "truncate", "write") /\ task'[t].snapshot = task[t].snapshot
  BY <1>1, <1>11, TurnTruncate DEF TruncateWallet
<1>12. CASE WriteWallet(t) /\ Ends(t)
  BY <1>1, <1>12, TurnWrite DEF WriteWallet, At
<1>13. CASE FlushFails(t) /\ Ends(t)
  BY <1>1, <1>13, TurnFail DEF FlushFails
<1> QED
  BY <1>2, <1>3, <1>4, <1>5, <1>6, <1>7, <1>8, <1>9, <1>10, <1>11, <1>12, <1>13 DEF StepOf

LEMMA TurnCrash ==
  ASSUME InTurn, Crash
  PROVE  InTurn'
<1>1. /\ server' # "up" /\ UNCHANGED <<dir, walletFile, gone>> /\ addresses' = NoMap
      /\ \A t \in Thread : task'[t] = IdleTask /\ task'[t].at = "idle"
  BY DEF Crash, IdleTask
<1>2. DOMAIN addresses' = {}
  BY <1>1 DEF NoMap
<1>3. OneAtATime' /\ (\A t \in Thread : Known(t)') /\ MapsAgree'
  BY <1>1 DEF OneAtATime, Known, MapsAgree, Naming
<1>4. GoneEverywhere'
  BY <1>1, <1>2 DEF InTurn, GoneEverywhere, FilesOf, HasWallet
<1>5. NamesDiffer(addresses') /\ (HasWallet' => NamesDiffer(walletFile'))
  BY <1>1, <1>2 DEF InTurn, NamesDiffer, HasWallet
<1> QED
  BY <1>3, <1>4, <1>5 DEF InTurn

LEMMA ListedDiffer ==
  ASSUME FilesCounted, NEW listing \in Bijection(1 .. Cardinality(dir), dir)
  PROVE  \A a \in DOMAIN ListedNames(listing) : ListedNames(listing)[a] \notin AutoNames
<1>1. OpBound \in Nat /\ KeyCount \in Nat
  BY KeyCountNat, WalletAssumption
<1>2. \A i \in 1 .. OpBound : ListedName(i) \notin AutoNames
  BY <1>1, AutoNamesDiffer DEF AutoNames
<1> QED
  BY <1>2, ListedFacts

\* A restart merges the keystore into wallet.json.
LEMMA TurnRestart ==
  ASSUME FilesCounted, Course, InTurn, Restart
  PROVE  InTurn'
<1> USE DEF historyVars, storeVars
<1>1. /\ server # "up" /\ UNCHANGED <<dir, walletFile, task, gone, lostFlush>>
      /\ \A t \in Thread : task[t].at = "idle"
  BY DEF Restart, Course, Quiet
<1>2. OneAtATime' /\ \A t \in Thread : Known(t)'
  BY <1>1 DEF OneAtATime, Known, Naming
<1>3. CASE UNCHANGED addresses /\ server' # "up"
  <2>1. GoneEverywhere' /\ MapsAgree'
    BY <1>1, <1>3 DEF InTurn, GoneEverywhere, MapsAgree, HasWallet, FilesOf
  <2> QED
    BY <1>1, <1>2, <1>3, <2>1 DEF InTurn, HasWallet
<1>4. ASSUME NEW listing \in Bijection(1 .. Cardinality(dir), dir),
             addresses' = IF walletFile = Missing THEN ListedNames(listing)
                          ELSE Merged(walletFile, ListedNames(listing)),
             walletFile # Torn
      PROVE  InTurn'
  <2> DEFINE names == ListedNames(listing)
  <2>1. DOMAIN names = {f.owner : f \in dir} /\ \A a \in DOMAIN names : names[a] \notin AutoNames
    BY ListedFacts, ListedDiffer
  <2>2. \A a : a \in DOMAIN names <=> FilesOf(dir, a) # {}
    BY <2>1 DEF FilesOf
  <2> HIDE DEF names
  <2>3. ~HasWallet => addresses' = names
    BY <1>4 DEF HasWallet, names
  <2>4. HasWallet => /\ DOMAIN addresses' = DOMAIN walletFile \union DOMAIN names
                     /\ \A a \in DOMAIN walletFile : addresses'[a] = walletFile[a]
                     /\ \A a \in DOMAIN names \ DOMAIN walletFile : addresses'[a] = names[a]
    BY <1>4 DEF HasWallet, names, Merged
  <2>5. GoneEverywhere'
    BY <1>1, <2>2, <2>3, <2>4 DEF InTurn, GoneEverywhere, HasWallet, FilesOf
  <2>6. MapsAgree'
    BY <1>1, <2>2, <2>4 DEF MapsAgree, HasWallet, FilesOf
  <2>7. NamesDiffer(addresses')
    <3>1. CASE ~HasWallet
      BY <2>1, <2>3, <3>1 DEF NamesDiffer
    <3>2. CASE HasWallet
      BY <2>1, <2>4, <3>2 DEF InTurn, NamesDiffer
    <3> QED
      BY <3>1, <3>2
  <2>8. HasWallet' => NamesDiffer(walletFile')
    BY <1>1 DEF InTurn, HasWallet
  <2> QED
    BY <1>2, <2>5, <2>6, <2>7, <2>8 DEF InTurn
<1> QED
  BY <1>3, <1>4 DEF Restart

-----------------------------------------------------------------------------
LEMMA InitStores == Init => Stores
<1> SUFFICES ASSUME Init PROVE Stores
  OBVIOUS
<1>1. /\ \A t \in Thread : task[t] = IdleTask /\ task[t].at = "idle"
      /\ DOMAIN addresses = {} /\ ~HasWallet /\ gone = {} /\ Creating = {}
  BY DEF Init, IdleTask, NoMap, HasWallet, Creating
<1>2. Course
  BY <1>1 DEF Course, Quiet
<1>3. FilesCounted
  BY <1>1, FS_EmptySet, WalletAssumption DEF Init, FilesCounted
<1>4. MapTypes
  BY <1>1, NoMapIsMap, WalletAssumption DEF Init, MapTypes
<1>5. KeyFiles
  BY <1>1 DEF Init, KeyFiles, OneFile, Shown, FilesOf
<1>6. InTurn
  BY <1>1 DEF InTurn, OneAtATime, Known, Naming, GoneEverywhere, MapsAgree, NamesDiffer
<1> QED
  BY <1>2, <1>3, <1>4, <1>5, <1>6 DEF Stores

LEMMA StoresThread ==
  ASSUME IInv, Stores, NEW t \in Thread, StartRequest(t) \/ Proceed(t)
  PROVE  Stores'
<1> USE DEF Stores
<1>1. CASE StartRequest(t)
  <2>1. StartOf(t)
    BY <1>1, EveryStartOf DEF IInv
  <2> QED
    BY <2>1, CourseStarts, CountStarts, MapTypesStart, KeyFilesStart, TurnStart DEF StartOf
<1>2. CASE Proceed(t)
  <2>1. StepOf(t)
    BY <1>2, EveryStepOf DEF IInv
  <2>2. UNCHANGED overlapped
    BY <2>1 DEF StepOf, StoreKeyCheck, StoreKeyCreate, StoreKeyFill, RemoveKeyFind, RemoveKeyDelete,
         PutAddress, TakeSnapshot, TruncateWallet, WriteWallet, FlushFails, historyVars
  <2>3. ~overlapped => OneAtATime
    BY DEF InTurn
  <2>4. ~overlapped' => InTurn'
    BY <2>1, <2>2, TurnProceed
  <2> QED
    BY <2>1, <2>3, <2>4, CourseProceeds, CountProceeds, MapTypesProceed, KeyFilesProceed
<1> QED
  BY <1>1, <1>2

LEMMA StoresStep == IInv /\ Stores /\ [Next]_vars => Stores'
<1> SUFFICES ASSUME IInv, Stores, [Next]_vars PROVE Stores'
  OBVIOUS
<1> USE DEF Stores, historyVars, storeVars
<1>1. ASSUME NEW t \in Thread, StartRequest(t) \/ Proceed(t) PROVE Stores'
  BY <1>1, StoresThread
<1>2. CASE MinutePasses \/ UNCHANGED vars
  <2>1. /\ UNCHANGED <<server, addresses, dir, walletFile, task, fresh, gone, lostFlush, overlapped, ops>>
        /\ minute' \in 0 .. MinuteBound
    BY <1>2, WalletAssumption DEF MinutePasses, vars, MapTypes
  <2>2. Course' /\ FilesCounted' /\ MapTypes'
    BY <2>1 DEF Course, Quiet, FilesCounted, Creating, MapTypes, HasWallet, Naming
  <2>3. KeyFiles'
    BY <2>1 DEF KeyFiles, OneFile, Unborn, Shown, FilesOf
  <2>4. ~overlapped' => InTurn'
    BY <2>1 DEF InTurn, OneAtATime, Known, Naming, Flushing, GoneEverywhere, MapsAgree, HasWallet, FilesOf
  <2> QED
    BY <2>2, <2>3, <2>4
<1>3. CASE Crash
  <2>1. /\ UNCHANGED <<dir, walletFile, minute, ops, overlapped>> /\ addresses' = NoMap
        /\ server' = "down" /\ \A t \in Thread : task'[t].at = "idle"
    BY <1>3 DEF Crash, IdleTask
  <2>2. Course' /\ MapTypes'
    BY <2>1, NoMapIsMap DEF Course, Quiet, MapTypes, HasWallet
  <2>3. FilesCounted'
    <3>1. Creating' \subseteq Creating
      BY <2>1 DEF Creating
    <3> QED
      BY <2>1, <3>1, CountSame
  <2> QED
    BY <1>3, <2>1, <2>2, <2>3, KeyFilesCrash, TurnCrash
<1>4. CASE Restart
  <2>1. /\ UNCHANGED <<dir, walletFile, minute, ops, overlapped, task>> /\ server # "up"
        /\ server' \in {"up", "failed"}
    BY <1>4 DEF Restart
  <2>2. Course' /\ FilesCounted'
    BY <2>1 DEF Course, Quiet, FilesCounted, Creating
  <2>3. IsAddressMap(addresses')
    <3>1. ASSUME NEW listing \in Bijection(1 .. Cardinality(dir), dir)
          PROVE  /\ IsAddressMap(ListedNames(listing))
                 /\ HasWallet => IsAddressMap(Merged(walletFile, ListedNames(listing)))
      BY ListedIsMap, MergedIsMap DEF IInv, MapTypes
    <3> QED
      BY <1>4, <3>1 DEF Restart, HasWallet, MapTypes
  <2>4. MapTypes'
    BY <2>1, <2>3 DEF MapTypes, HasWallet, Naming
  <2> QED
    BY <1>4, <2>1, <2>2, <2>4, KeyFilesRestart, TurnRestart
<1> QED
  BY <1>1, <1>2, <1>3, <1>4 DEF Next

LEMMA StoresAlways == Spec => [](IInv /\ Stores)
<1>1. Init => IInv /\ Stores
  BY InitIInv, InitStores
<1>2. IInv /\ Stores /\ [Next]_vars => IInv' /\ Stores'
  BY IInvStep, StoresStep
<1> QED
  BY <1>1, <1>2, PTL DEF Spec

\* The wallet shows every address of the keystore directory, or is at work on
\* it, also after a restart: a generated one whatever overlaps, an imported one
\* while requests come one at a time (init, storeKey, removeKey).
THEOREM KeysListed == Spec => []StoredKeysListed
<1>1. Stores => StoredKeysListed
  <2> SUFFICES ASSUME Stores, server = "up", NEW a \in listStoredKeys(dir), a \in Generated \/ ~overlapped
               PROVE  Working(a) \/ a \in DOMAIN addresses
    BY DEF StoredKeysListed
  <2>1. a \in Address /\ FilesOf(dir, a) # {}
    BY DEF listStoredKeys, FilesOf, Stores, MapTypes, Address
  <2>2. Shown(a)
    BY <2>1 DEF Stores, KeyFiles
  <2> QED
    BY <2>1, <2>2 DEF Shown, Working
<1> QED
  BY <1>1, StoresAlways, PTL

\* With requests one at a time, the addresses map and wallet.json agree between
\* two of them, whatever crashes came before (flushWalletToDisk, init).
THEOREM MapsAgreeOnDisk == Spec => []DiskMatchesMemory
<1>1. Stores => DiskMatchesMemory
  BY DEF Stores, InTurn, MapsAgree, DiskMatchesMemory, Quiet, HasWallet, Flushing, hasStoredKey
<1> QED
  BY <1>1, StoresAlways, PTL

\* With requests one at a time, no restart and no later request brings an
\* address back whose removal was answered (removeAddress, removeKey, init).
THEOREM RemovalsLast == Spec => []RemovedStaysGone
<1>1. Stores => RemovedStaysGone
  BY DEF Stores, InTurn, GoneEverywhere, RemovedStaysGone, hasStoredKey
<1> QED
  BY <1>1, StoresAlways, PTL

\* With requests one at a time, an address never has two key files and no two
\* addresses the same vacant name (storeKey, importPersonal).
THEOREM ChecksHold == Spec => []NothingTwice
<1>1. IInv /\ Stores => TypeOK
  <2> SUFFICES ASSUME IInv, Stores PROVE TypeOK
    OBVIOUS
  <2>1. \A f \in dir : /\ f.owner \in Generated \union Imported
                       /\ f.minute \in 0 .. MinuteBound
                       /\ f.secret \in Thread \union {Empty}
    BY DEF IInv, Types, File, Stores, MapTypes
  <2>2. \A t \in Thread : task[t].at # "idle" =>
          /\ task[t].op \in {"new", "import", "watch", "remove"}
          /\ task[t].address \in Address
          /\ IsAddressMap(task[t].snapshot)
    BY DEF IInv, Types, IdleTask, IsServing, Stores, Course, MapTypes
  <2> QED
    BY <2>1, <2>2 DEF TypeOK, Stores, MapTypes, HasWallet
<1>2. Stores => OneFilePerAddress
  <2> SUFFICES ASSUME Stores, ~overlapped, NEW a \in Address PROVE Cardinality(FilesOf(dir, a)) <= 1
    BY DEF OneFilePerAddress
  <2>1. \A f, g \in FilesOf(dir, a) : f = g
    BY DEF Stores, KeyFiles, OneFile
  <2>2. CASE FilesOf(dir, a) = {}
    BY <2>2, FS_EmptySet
  <2>3. ASSUME NEW f \in FilesOf(dir, a) PROVE Cardinality(FilesOf(dir, a)) <= 1
    <3>1. FilesOf(dir, a) = {f}
      BY <2>1
    <3>2. Cardinality({f}) = 1
      BY FS_Singleton
    <3> QED
      BY <3>1, <3>2
  <2> QED
    BY <2>2, <2>3
<1>3. Stores => VacantNamesDiffer
  BY DEF Stores, InTurn, NamesDiffer, VacantNamesDiffer, AutoNames
<1>4. IInv /\ Stores => NothingTwice
  BY <1>1, <1>2, <1>3 DEF NothingTwice
<1> QED
  BY <1>4, StoresAlways, PTL
=============================================================================
