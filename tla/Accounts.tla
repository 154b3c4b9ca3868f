------------------------------ MODULE Accounts ------------------------------
(***************************************************************************)
(* The unlocked accounts of EthJsonRpcImpl and the calls that sign with    *)
(* them, over a keystore that other requests change (module Wallet shows   *)
(* how; here storing and removing a key are single steps).                 *)
(*                                                                         *)
(* unlockedAccounts is a map whose keys are lowercase hex addresses        *)
(* without "0x".  The calls receive addresses as strings, with or without  *)
(* the prefix, so an entry of the map is named by an address and the form  *)
(* it was written in.                                                      *)
(***************************************************************************)
EXTENDS Naturals, FiniteSets

CONSTANTS
  Thread,    \* RPC threads
  Address,   \* accounts
  Password,
  LockForm,  \* forms clients use in personal_lockAccount: "plain", "0x"
  NoKey      \* the keystore has no key for the address

Nobody == "nobody"

ASSUME AccountsAssumption ==
  /\ LockForm \subseteq {"plain", "0x"}
  /\ NoKey \notin Password
  /\ Nobody \notin Address

VARIABLES
  keystore,         \* address -> the password its key file is encrypted with
  unlockedAccounts, \* keys of the map
  unlocking,        \* per thread: the account it has loaded and not yet put

  \* History.
  proven,   \* addresses whose password some unlock call has proved
  locked,   \* addresses locked, with no unlock call since
  signed    \* the last signature made: [address, by], or none

vars == <<keystore, unlockedAccounts, unlocking, proven, locked, signed>>

MapKey(a, form) == <<a, form>>

\* The key that personal_unlockAccount puts: cleaned of "0x".
Unlocked(map, a) == map \union {MapKey(a, "plain")}

\* Mutant of Locked: the entry of another form is removed.
LockedPrefixed(map, a, form) == map \ {MapKey(a, "0x")}

\* The key that personal_lockAccount removes: lowercased, not cleaned.
Locked(map, a, form) == map \ {MapKey(a, form)}

\* getAccountFromKeystore finds the account: the key it looks up has no "0x".
IsUnlocked(a) == MapKey(a, "plain") \in unlockedAccounts

\* Mutant of Loads: the password is not checked.
LoadsAny(a, p) == keystore[a] # NoKey

\* loadStoredKey: no key file gives null, a wrong password an exception; the
\* callers fail in both cases.
Loads(a, p) == keystore[a] # NoKey /\ keystore[a] = p

NoSignature == [address |-> Nobody, by |-> "none"]

Init ==
  /\ keystore \in [Address -> Password \union {NoKey}]
  /\ unlockedAccounts = {}
  /\ unlocking = [t \in Thread |-> Nobody]
  /\ proven = {}
  /\ locked = Address
  /\ signed = NoSignature

\* WalletService.importPersonal or newAddress: refused if there is a key.
storeKey(a, p) ==
  /\ keystore[a] = NoKey
  /\ keystore' = [keystore EXCEPT ![a] = p]
  /\ UNCHANGED <<unlockedAccounts, unlocking, proven, locked, signed>>

\* WalletService.removeAddress removes the key, and nothing else here.
removeKey(a) ==
  /\ keystore' = [keystore EXCEPT ![a] = NoKey]
  /\ UNCHANGED <<unlockedAccounts, unlocking, proven, locked, signed>>

\* Reads and decrypts the key file, which takes about a second...
personal_unlockAccount(t, a, p) ==
  /\ unlocking[t] = Nobody
  /\ Loads(a, p)
  /\ unlocking' = [unlocking EXCEPT ![t] = a]
  /\ proven' = IF keystore[a] = p THEN proven \union {a} ELSE proven
  /\ locked' = locked \ {a}
  /\ UNCHANGED <<keystore, unlockedAccounts, signed>>

\* ... and then puts the account in the map.
UnlockPut(t) ==
  /\ unlocking[t] # Nobody
  /\ unlockedAccounts' = Unlocked(unlockedAccounts, unlocking[t])
  /\ unlocking' = [unlocking EXCEPT ![t] = Nobody]
  /\ UNCHANGED <<keystore, proven, locked, signed>>

\* Lowercases its argument, and keeps the "0x" if it has one.  The account
\* counts as locked unless an unlock call is under way.
personal_lockAccount(t, a, form) ==
  /\ unlocking[t] = Nobody
  /\ unlockedAccounts' = Locked(unlockedAccounts, a, form)
  /\ locked' = IF \E u \in Thread : unlocking[u] = a THEN locked
               ELSE locked \union {a}
  /\ UNCHANGED <<keystore, unlocking, proven, signed>>

\* eth_sign and eth_sendTransaction: an account that is not unlocked is an
\* error, 101 if the keystore has its key and 102 if not.
signUnlocked(t, a) ==
  /\ unlocking[t] = Nobody
  /\ IsUnlocked(a)
  /\ signed' = [address |-> a, by |-> "unlocked"]
  /\ UNCHANGED <<keystore, unlockedAccounts, unlocking, proven, locked>>

\* Signs with a key loaded for this one call.
personal_signAndSendTransaction(t, a, p) ==
  /\ unlocking[t] = Nobody
  /\ Loads(a, p)
  /\ signed' = [address |-> a, by |-> "password"]
  /\ UNCHANGED <<keystore, unlockedAccounts, unlocking, proven, locked>>

Next ==
  \/ \E a \in Address, p \in Password : storeKey(a, p)
  \/ \E a \in Address : removeKey(a)
  \/ \E t \in Thread, a \in Address :
       \/ \E p \in Password : personal_unlockAccount(t, a, p)
       \/ UnlockPut(t)
       \/ \E form \in LockForm : personal_lockAccount(t, a, form)
       \/ signUnlocked(t, a)
       \/ \E p \in Password : personal_signAndSendTransaction(t, a, p)

Spec == Init /\ [][Next]_vars

-----------------------------------------------------------------------------
\* Types.  Entries of the map are written without prefix, whatever form
\* callers use.
TypeOK ==
  /\ keystore \in [Address -> Password \union {NoKey}]
  /\ unlockedAccounts \subseteq {MapKey(a, "plain") : a \in Address}
  /\ unlocking \in [Thread -> Address \union {Nobody}]
  /\ proven \subseteq Address
  /\ locked \subseteq Address
  /\ signed \in [address : Address \union {Nobody},
                 by : {"none", "unlocked", "password"}]

\* An account is never usable without its password unless some call of
\* personal_unlockAccount has proved it: personal_signAndSendTransaction and
\* failed calls leave nothing behind.
UsableOnlyIfProven ==
  /\ \A a \in Address : IsUnlocked(a) => a \in proven
  /\ signed.by = "unlocked" => signed.address \in proven

\* "Attempt to lock account back" (popups.controller.js:196): once
\* personal_lockAccount has answered, with no unlock call under way, nobody
\* can sign with the account until it is unlocked again.
LockHolds == \A a \in locked : ~IsUnlocked(a)
=============================================================================
