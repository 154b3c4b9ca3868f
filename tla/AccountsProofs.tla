--------------------------- MODULE AccountsProofs ---------------------------
(***************************************************************************)
(* The invariants of Accounts for any number of threads, addresses and     *)
(* passwords.                                                              *)
(*                                                                         *)
(* Neither invariant is inductive alone: a key loaded by an unlock call    *)
(* under way reaches the map in a later step, so IInv says of it what the  *)
(* invariants say of the map.  LockHolds needs clients that lock accounts  *)
(* in the form the map uses; with the other form it is false.              *)
(***************************************************************************)
EXTENDS Accounts, TLAPS

LoadedIsProven ==
  \A t \in Thread : unlocking[t] # Nobody => unlocking[t] \in proven

LoadedIsNotLocked ==
  \A t \in Thread : unlocking[t] # Nobody => unlocking[t] \notin locked

IInv == TypeOK /\ UsableOnlyIfProven /\ LoadedIsProven

-----------------------------------------------------------------------------
LEMMA InitIInv == Init => IInv
  BY AccountsAssumption DEF Init, IInv, TypeOK, UsableOnlyIfProven,
     LoadedIsProven, IsUnlocked, NoSignature, MapKey

\* Storing or removing a key touches the keystore only.
LEMMA KeystorePreserves ==
  ASSUME IInv,
         NEW a \in Address,
         removeKey(a) \/ \E p \in Password : storeKey(a, p)
  PROVE  IInv'
  BY DEF IInv, TypeOK, UsableOnlyIfProven, LoadedIsProven, IsUnlocked, MapKey,
     removeKey, storeKey

LEMMA UnlockPreserves ==
  ASSUME IInv,
         NEW t \in Thread, NEW a \in Address, NEW p \in Password,
         personal_unlockAccount(t, a, p)
  PROVE  IInv'
<1> USE DEF personal_unlockAccount, Loads
<1>1. TypeOK'
  BY DEF IInv, TypeOK
<1>2. UsableOnlyIfProven'
  BY DEF IInv, UsableOnlyIfProven, IsUnlocked
<1>3. LoadedIsProven'
  BY DEF IInv, TypeOK, LoadedIsProven
<1> QED
  BY <1>1, <1>2, <1>3 DEF IInv

LEMMA PutPreserves ==
  ASSUME IInv, NEW t \in Thread, UnlockPut(t)
  PROVE  IInv'
<1> USE DEF UnlockPut, Unlocked, MapKey
<1>1. unlocking[t] \in Address /\ unlocking[t] \in proven
  BY DEF IInv, TypeOK, LoadedIsProven
<1>2. TypeOK'
  BY <1>1 DEF IInv, TypeOK
<1>3. UsableOnlyIfProven'
  BY <1>1 DEF IInv, TypeOK, UsableOnlyIfProven, IsUnlocked
<1>4. LoadedIsProven'
  BY DEF IInv, TypeOK, LoadedIsProven
<1> QED
  BY <1>2, <1>3, <1>4 DEF IInv

LEMMA LockPreserves ==
  ASSUME IInv,
         NEW t \in Thread, NEW a \in Address, NEW form \in LockForm,
         personal_lockAccount(t, a, form)
  PROVE  IInv'
  BY DEF IInv, TypeOK, UsableOnlyIfProven, LoadedIsProven, IsUnlocked,
     personal_lockAccount, Locked, MapKey

LEMMA SignPreserves ==
  ASSUME IInv,
         NEW t \in Thread, NEW a \in Address,
         \/ signUnlocked(t, a)
         \/ \E p \in Password : personal_signAndSendTransaction(t, a, p)
  PROVE  IInv'
<1>1. TypeOK'
  BY DEF IInv, TypeOK, signUnlocked, personal_signAndSendTransaction
<1>2. UsableOnlyIfProven'
  BY DEF IInv, UsableOnlyIfProven, IsUnlocked, signUnlocked,
     personal_signAndSendTransaction
<1>3. LoadedIsProven'
  BY DEF IInv, LoadedIsProven, signUnlocked, personal_signAndSendTransaction
<1> QED
  BY <1>1, <1>2, <1>3 DEF IInv

LEMMA IInvInductive == IInv /\ [Next]_vars => IInv'
<1> SUFFICES ASSUME IInv, [Next]_vars PROVE IInv'
  OBVIOUS
<1>1. CASE \E a \in Address : removeKey(a) \/ \E p \in Password : storeKey(a, p)
  BY <1>1, KeystorePreserves
<1>2. ASSUME NEW t \in Thread, NEW a \in Address, NEW p \in Password,
             personal_unlockAccount(t, a, p)
      PROVE  IInv'
  BY <1>2, UnlockPreserves
<1>3. ASSUME NEW t \in Thread, UnlockPut(t)
      PROVE  IInv'
  BY <1>3, PutPreserves
<1>4. ASSUME NEW t \in Thread, NEW a \in Address, NEW form \in LockForm,
             personal_lockAccount(t, a, form)
      PROVE  IInv'
  BY <1>4, LockPreserves
<1>5. ASSUME NEW t \in Thread, NEW a \in Address,
             \/ signUnlocked(t, a)
             \/ \E p \in Password : personal_signAndSendTransaction(t, a, p)
      PROVE  IInv'
  BY <1>5, SignPreserves
<1>6. CASE UNCHANGED vars
  BY <1>6 DEF IInv, TypeOK, UsableOnlyIfProven, LoadedIsProven, IsUnlocked, vars
<1> QED
  BY <1>1, <1>2, <1>3, <1>4, <1>5, <1>6 DEF Next

\* IInv holds in every reachable state.
THEOREM IInvAlways == Spec => []IInv
<1>1. Init => IInv
  BY InitIInv
<1>2. IInv /\ [Next]_vars => IInv'
  BY IInvInductive
<1> QED
  BY <1>1, <1>2, PTL DEF Spec

\* unlockedAccounts only ever holds keys without "0x".
THEOREM TypeCorrect == Spec => []TypeOK
<1>1. IInv => TypeOK
  BY DEF IInv
<1> QED
  BY <1>1, IInvAlways, PTL

\* No account can be used, and no signature with an unlocked account is made,
\* before personal_unlockAccount has proved its password.
THEOREM UsableCorrect == Spec => []UsableOnlyIfProven
<1>1. IInv => UsableOnlyIfProven
  BY DEF IInv
<1> QED
  BY <1>1, IInvAlways, PTL

-----------------------------------------------------------------------------
LockInv == IInv /\ LockHolds /\ LoadedIsNotLocked

LEMMA InitLockInv == Init => LockInv
  BY InitIInv DEF Init, LockInv, LockHolds, LoadedIsNotLocked, IsUnlocked, MapKey

\* An unlock call takes the account out of `locked` before its key reaches
\* the map, and a lock call leaves it out while one is under way.
LEMMA LockInvInductive ==
  ASSUME LockForm = {"plain"}
  PROVE  LockInv /\ [Next]_vars => LockInv'
<1> SUFFICES ASSUME LockInv, [Next]_vars PROVE LockHolds' /\ LoadedIsNotLocked'
  BY IInvInductive DEF LockInv
<1> USE DEF LockInv, LockHolds, LoadedIsNotLocked, IsUnlocked, MapKey
<1>1. CASE \E a \in Address : removeKey(a) \/ \E p \in Password : storeKey(a, p)
  BY <1>1 DEF removeKey, storeKey
<1>2. ASSUME NEW t \in Thread, NEW a \in Address, NEW p \in Password,
             personal_unlockAccount(t, a, p)
      PROVE  LockHolds' /\ LoadedIsNotLocked'
  BY <1>2 DEF personal_unlockAccount, IInv, TypeOK
<1>3. ASSUME NEW t \in Thread, UnlockPut(t)
      PROVE  LockHolds' /\ LoadedIsNotLocked'
  BY <1>3 DEF UnlockPut, Unlocked, IInv, TypeOK
<1>4. ASSUME NEW t \in Thread, NEW a \in Address, NEW form \in LockForm,
             personal_lockAccount(t, a, form)
      PROVE  LockHolds' /\ LoadedIsNotLocked'
  <2>1. unlockedAccounts' = unlockedAccounts \ {<<a, "plain">>}
    BY <1>4 DEF personal_lockAccount, Locked
  <2>2. LockHolds'
    BY <1>4, <2>1 DEF personal_lockAccount
  <2>3. LoadedIsNotLocked'
    BY <1>4 DEF personal_lockAccount
  <2> QED
    BY <2>2, <2>3
<1>5. ASSUME NEW t \in Thread, NEW a \in Address,
             \/ signUnlocked(t, a)
             \/ \E p \in Password : personal_signAndSendTransaction(t, a, p)
      PROVE  LockHolds' /\ LoadedIsNotLocked'
  BY <1>5 DEF signUnlocked, personal_signAndSendTransaction
<1>6. CASE UNCHANGED vars
  BY <1>6 DEF vars
<1> QED
  BY <1>1, <1>2, <1>3, <1>4, <1>5, <1>6 DEF Next

\* An account locked by its plain address stays locked until it is unlocked.
THEOREM LockCorrect ==
  ASSUME LockForm = {"plain"}
  PROVE  Spec => []LockHolds
<1>1. Init => LockInv
  BY InitLockInv
<1>2. LockInv /\ [Next]_vars => LockInv'
  BY LockInvInductive
<1>3. LockInv => LockHolds
  BY DEF LockInv
<1> QED
  BY <1>1, <1>2, <1>3, PTL DEF Spec
=============================================================================
