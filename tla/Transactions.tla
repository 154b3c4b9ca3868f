---------------------------- MODULE Transactions -----------------------------
(***************************************************************************)
(* Ethereum's transactions (ethereumjs-tx), the functions on keys, hashes   *)
(* and addresses they use (ethereumjs-util), and EthUtil, which the pages   *)
(* call.  A transaction holds nine buffers, and keeps its sender's key and  *)
(* address once they were asked for.                                        *)
(***************************************************************************)
EXTENDS Secp256k1

CONSTANTS
  Sha3(_),     \* of a buffer, LEN bytes
  SHORT,       \* longest short length of RLP (55)
  ADDRESS,     \* bytes of an address (20), at most LEN
  V0           \* 27: of a signature whose point is even

INSTANCE Rlp

-----------------------------------------------------------------------------
\* Buffers.
zeros(n) == [i \in 1 .. n |-> 0]

\* Padded with zeros, or cut off, in front.
setLength(b, n) == IF Len(b) < n THEN zeros(n - Len(b)) \o b ELSE From(b, Len(b) - n + 1)

unpad(b) == From(b, Min({i \in DOMAIN b : b[i] # 0} \union {Len(b) + 1}))

bufferToInt(b) == Number(b)   \* 0 if there are no bytes

rlphash(item) == Sha3(rlpEncode(item))

-----------------------------------------------------------------------------
\* Keys and addresses.  Public keys have no first byte here.
isValidPrivate(key) == privateKeyVerify(key)
isValidPublic(b, sanitize) ==
  IF Len(b) = 2 * LEN THEN publicKeyVerify(<<4>> \o b) ELSE sanitize /\ publicKeyVerify(b)

Rest(b) == IF b = NoBytes THEN NoBytes ELSE Tail(b)

importPublic(b) == IF Len(b) = 2 * LEN THEN b ELSE Rest(publicKeyConvert(b, FALSE))
publicToAddress(b, sanitize) ==
  LET key == IF sanitize THEN importPublic(b) ELSE b
  IN IF Len(key) # 2 * LEN THEN NoBytes ELSE From(Sha3(key), LEN - ADDRESS + 1)
privateToPublic(key) == Rest(publicKeyCreate(key, FALSE))
privateToAddress(key) == publicToAddress(privateToPublic(key), FALSE)

\* The parts of a signature in a transaction.
ecsignOf(sig) == [r |-> Bytes(sig.r, LEN), s |-> Bytes(sig.s, LEN), v |-> sig.recovery + V0]

ecrecover(hash, v, r, s) ==
  LET key == recover(hash, setLength(r, LEN) \o setLength(s, LEN), bufferToInt(v) - V0, TRUE)
  IN IF bufferToInt(v) - V0 \notin {0, 1} \/ key = NoBytes THEN NoBytes
     ELSE Rest(publicKeyConvert(key, FALSE))

\* The form of eth_sign; readers take the parameter with or without V0.
toRpcSig(v, r, s) == r \o s \o intToBuffer(v - V0)
fromRpcSig(b) ==
  LET v == b[2 * LEN + 1]
  IN [v |-> IF v < V0 THEN v + V0 ELSE v, r |-> SubSeq(b, 1, LEN), s |-> SubSeq(b, LEN + 1, 2 * LEN)]

\* A text of digits; the digit of the hash of its lower case tells which of
\* its letters are capital.  A byte has two digits.
Digit(b, i) == (b[(i + 1) \div 2] \div 2 ^ (IF i % 2 = 1 THEN BYTE \div 2 ELSE 0)) % 2 ^ (BYTE \div 2)
Letter(c) == 16 * c.digit >= 10 * 2 ^ (BYTE \div 2)   \* a to f

toChecksumAddress(text) ==
  LET hash == Sha3([i \in DOMAIN text |-> text[i].digit])
  IN [i \in DOMAIN text |->
        [digit |-> text[i].digit,
         upper |-> Letter(text[i]) /\ Digit(hash, i) >= 2 ^ (BYTE \div 2 - 1)]]

isValidAddress(text) == Len(text) = 2 * ADDRESS
isValidChecksumAddress(text) == isValidAddress(text) /\ toChecksumAddress(text) = text

\* Of the contract that a sender's transaction creates: a nonce of zero is
\* encoded as nothing.
generateAddress(from, nonce) ==
  From(rlphash(List(<<Buffer(from), Buffer(IF nonce = 0 THEN <<>> ELSE toArray(nonce))>>)),
       LEN - ADDRESS + 1)

isPrecompiled(address) == Len(unpad(address)) = 1 /\ unpad(address)[1] \in 1 .. 4

-----------------------------------------------------------------------------
\* Transactions.
Fields == <<"nonce", "gasPrice", "gasLimit", "to", "value", "data", "v", "r", "s">>
Index(name) == CHOOSE i \in DOMAIN Fields : Fields[i] = name
AllowZero == {"to", "data"}
FieldLength(name) == CASE name = "to" -> ADDRESS [] name = "v" -> 1 [] name = "data" -> 0 [] OTHER -> LEN

NoTransaction == [raw |-> <<>>, senderPubKey |-> NoBytes, from |-> NoBytes]

\* What a field holds when b is assigned: a single zero is nothing, numbers
\* lose their zeros in front.
FieldValue(name, b) ==
  LET v == IF b = <<0>> /\ name \notin AllowZero THEN <<>> ELSE b
  IN IF name \in {"to", "data", "v"} THEN v ELSE unpad(v)

\* "must not have more" bytes, or exactly as many; to may be empty.
FieldAccepts(name, v) ==
  \/ FieldLength(name) = 0
  \/ name = "to" /\ v = <<>>
  \/ IF name \in {"to", "v"} THEN Len(v) = FieldLength(name) ELSE Len(v) <= FieldLength(name)

setter(tx, name, b) ==
  LET v == FieldValue(name, b)
  IN IF tx = NoTransaction \/ ~FieldAccepts(name, v) THEN NoTransaction
     ELSE [tx EXCEPT !.raw[Index(name)] = v]

\* A new transaction with some fields assigned, in their order; from its RLP,
\* all of them.
defaults == [NoTransaction EXCEPT !.raw = [i \in DOMAIN Fields |-> IF Fields[i] = "v" THEN <<V0 + 1>> ELSE <<>>]]

NewTransaction(assigned) == FoldLeft(LAMBDA tx, a : setter(tx, a[1], a[2]), defaults, assigned)

Deserialized(b) ==
  LET item == rlpDecode(b)
  IN IF item.type # "list" \/ Len(item.of) > Len(Fields) THEN NoTransaction
     ELSE NewTransaction([i \in DOMAIN item.of |-> <<Fields[i], item.of[i].of>>])

serialize(tx) == rlpEncode(List([i \in DOMAIN tx.raw |-> Buffer(tx.raw[i])]))

toCreationAddress(tx) == tx.raw[4] = <<>>

hash(tx, signature) ==
  rlphash(List([i \in 1 .. IF signature THEN Len(Fields) ELSE 6 |-> Buffer(tx.raw[i])]))

\* The sender's key is kept when the signature is valid.
verifySignature(tx) ==
  LET key == ecrecover(hash(tx, FALSE), tx.raw[7], tx.raw[8], tx.raw[9])
  IN IF Number(tx.raw[9]) > nh \/ key = NoBytes THEN [valid |-> FALSE, tx |-> tx]
     ELSE [valid |-> TRUE, tx |-> [tx EXCEPT !.senderPubKey = key]]

getSenderPublicKey(tx) == IF tx.senderPubKey = NoBytes THEN verifySignature(tx).tx ELSE tx

getSenderAddress(tx) ==
  IF tx.from # NoBytes THEN tx
  ELSE LET known == getSenderPublicKey(tx) IN [known EXCEPT !.from =
                                                                    publicToAddress(known.senderPubKey, FALSE)]

\* Signed: with the parts of the signature assigned.
WithSignature(tx, sig) ==
  LET parts == ecsignOf(sig)
  IN setter(setter(setter(tx, "r", parts.r), "s", parts.s), "v", intToBuffer(parts.v))

\* Gas, with the fees of params.json.
getDataFee(tx) ==
  FoldLeft(LAMBDA cost, b : cost + (IF b = 0 THEN 4 ELSE 68), 0, tx.raw[6])
getBaseFee(tx) == getDataFee(tx) + 21000 + (IF toCreationAddress(tx) THEN 32000 ELSE 0)
getUpfrontCost(tx) == Number(tx.raw[3]) * Number(tx.raw[2]) + Number(tx.raw[5])
validateTx(tx) == verifySignature(tx).valid /\ getBaseFee(tx) <= Number(tx.raw[3])

-----------------------------------------------------------------------------
\* EthUtil.  The transaction to be signed: data loses its first byte's two
\* digits, which are taken for "0x"; the page passes none.
createUnsigned(options) ==
  NewTransaction(<<<<"nonce", intToBuffer(options.nonce)>>, <<"to", options.to>>,
                   <<"value", intToBuffer(options.value)>>,
                   <<"data", IF options.data = <<>> THEN <<>> ELSE Tail(options.data)>>,
                   <<"gasLimit", intToBuffer(options.gasLimit)>>,
                   <<"gasPrice", intToBuffer(options.gasPrice)>>>>)
=============================================================================
