------------------------- MODULE TransactionBuilder --------------------------
(***************************************************************************)
(* The transfer that a page signs itself: the dialog finds the key of the   *)
(* entered secret, RlpBuilder collects the transaction's data, and          *)
(* EthUtil.createTx signs it, nonce by nonce until one makes a signature.   *)
(* The handler runs to its end before another event is handled.             *)
(***************************************************************************)
EXTENDS Transactions

CONSTANTS
  Form,            \* what a transfer is confirmed with: the fields of the dialog
                   \* and the node's answers
  GasLimit,        \* 21000
  PhraseKey(_),    \* key of a phrase by generateKeyByPhrase
  MaxSends,        \* transfers
  MaxTurns         \* turns of the loop of nonces, and one

VARIABLES
  builders,   \* data of the TxRlpFormatters made so far
  signing,    \* the loop of EC.sign
  sent        \* confirmed transfers with the bytes that were sent, or none

builderVars == <<builders, signing, sent>>

Idle == [phase |-> "idle"]

BuilderInit == builders = <<>> /\ signing = Idle /\ sent = <<>>

\* The entered secret as a key: as it is, or hashed once, or by the phrase.
SecretKey(secret) == IF secret.isKey THEN secret.of ELSE Sha3(secret.of)

FirstOf(keys) == IF keys = <<>> THEN NoBytes ELSE keys[1]

KeyFor(form) ==
  IF ~isValidPrivate(SecretKey(form.secret)) THEN NoBytes
  ELSE FirstOf(SelectSeq(<<SecretKey(form.secret), PhraseKey(form.secret.of)>>,
                         LAMBDA key : privateToAddress(key) = form.from))

\* Mutant of Self: the methods stay those of the first formatter.
SelfFirst(formatters) == 1

\* Every constructor replaces the methods of all formatters by its own: they
\* work on the data of the last one.
Self(formatters) == Len(formatters)

\* The chain from the constructor to format, in one handler.
Chain(form, key) ==
  LET made == Append(builders, [to |-> form.to, sender |-> form.from])
      self == Self(made)
  IN [made EXCEPT ![self] =
        [to |-> made[self].to, sender |-> form.from, from |-> privateToAddress(key), pkey |-> key,
         gasLimit |-> GasLimit, gasPrice |-> form.gasPrice, value |-> form.amount,
         nonce |-> form.nonce, data |-> <<>>]]

\* The last formatter's data become a transaction and its signing starts, or an
\* error ends the flow.
StartSigning(form, key, made) ==
  LET data == made[Self(made)]
      tx == createUnsigned(data)
      msg == Number(hash(tx, FALSE))
      failed == key = NoBytes \/ data.sender # data.from \/ tx = NoTransaction
  IN /\ builders' = IF key = NoBytes THEN builders ELSE made
     /\ IF failed
        THEN signing' = Idle /\ sent' = Append(sent, [form |-> form, raw |-> NoBytes])
        ELSE /\ signing' = [phase |-> "signing", form |-> form, tx |-> tx, msg |-> msg,
                            priv |-> Number(data.pkey), drbg |-> Drbg(msg, Number(data.pkey), NoBytes)]
             /\ UNCHANGED sent

ConfirmWith(form, key) == StartSigning(form, key, Chain(form, key))

\* The dialog has the gas price and the nonce.
Confirm(form) == signing = Idle /\ Len(sent) < MaxSends /\ ConfirmWith(form, KeyFor(form))

\* A turn of the loop: the next nonce signs, or is passed over.
TurnedWith(drbg, sig) ==
  IF sig = NoSignature
  THEN signing' = [signing EXCEPT !.drbg = drbg] /\ UNCHANGED <<builders, sent>>
  ELSE /\ signing' = Idle
       /\ sent' = Append(sent, [form |-> signing.form, raw |-> serialize(WithSignature(signing.tx, sig))])
       /\ UNCHANGED builders

SignTurn ==
  /\ signing.phase = "signing"
  /\ LET g == generate(signing.drbg, ByteLength(N), NoBytes)
     IN TurnedWith(g.drbg, SignWith(signing.msg, signing.priv, Number(g.bytes), TRUE))

BuilderNext == (\E form \in Form : Confirm(form)) \/ SignTurn

-----------------------------------------------------------------------------
\* What a node finds in a transaction that was sent: the fields of its form, a
\* sender whose address is the form's, a signature that verifies with the
\* sender's key and whose s is low.  A point whose abscissa is not below N
\* (one in 2^127) has no parameter in a transaction: its sender is not found.
SentRight(transfer) ==
  LET form == transfer.form
      tx == Deserialized(transfer.raw)
      known == getSenderAddress(tx)
      sig == Sig(Number(tx.raw[8]), Number(tx.raw[9]), -1)
  IN /\ Number(tx.raw[1]) = form.nonce /\ Number(tx.raw[2]) = form.gasPrice
     /\ Number(tx.raw[3]) = GasLimit /\ tx.raw[4] = form.to
     /\ Number(tx.raw[5]) = form.amount /\ tx.raw[6] = <<>>
     /\ serialize(tx) = transfer.raw
     /\ sig.s <= nh
     /\ verify(hash(tx, FALSE), Compact(sig), <<4>> \o privateToPublic(KeyFor(form)))
     /\ tx.raw[7][1] - V0 \in {0, 1} => verifySignature(tx).valid /\ known.from = form.from

\* Every transfer that is sent can be read as what was confirmed, and signed
\* by its sender; nonces that cannot be used are passed over for a few turns
\* only.  (A step's property: its new transfer is the last one.)
SignedRight ==
  [][/\ sent' # sent => Last(sent').raw = NoBytes \/ SentRight(Last(sent'))
     /\ signing' # Idle => signing'.drbg.reseed <= MaxTurns]_builderVars

=============================================================================
