----------------------------- MODULE MCLibrary ------------------------------
(***************************************************************************)
(* The signing library on small curves and words: a page that sends         *)
(* transfers it signs itself, and single calls of the library's functions.  *)
(***************************************************************************)
EXTENDS TransactionBuilder

CONSTANTS
  Operand, Divisor, Bit,   \* integers, integers but 0, numbers of bits
  Scalar, Factor,          \* scalars, below 2^BYTE^LEN; factors in 1 .. N - 1
  Nonces                   \* of signatures

VARIABLE call   \* of the library

vars == <<builders, signing, sent, call>>

\* The same numbers in words of three sizes; a prime of secp256k1's form and
\* texts with digits of one bit.
N2 == INSTANCE BigNumber WITH W <- 2, COMB <- 2, SMALL <- 3, BIG <- 6
N4 == INSTANCE BigNumber WITH W <- 4, COMB <- 2, SMALL <- 3, BIG <- 6
N8 == INSTANCE BigNumber WITH W <- 8, COMB <- 2, SMALL <- 3, BIG <- 6
M4 == INSTANCE ModularNumber
        WITH W <- 4, COMB <- 2, SMALL <- 3, BIG <- 6, LIMBS <- 1, TOP <- 2, K0 <- 5, K1 <- 1, WINDOW <- 2
T8 == INSTANCE BigNumberText WITH W <- 8, COMB <- 2, SMALL <- 3, BIG <- 6, HEX <- 1
R8 == INSTANCE Rlp WITH BYTE <- 8, SHORT <- 55
C5 == INSTANCE CurvePoints WITH P <- 107, A <- 5, B <- 2, GX <- 3, GY <- 30, N <- 103, STEP <- 2, WINDOW <- 3
C3 == INSTANCE CurvePoints WITH P <- 131, A <- 128, B <- 1, GX <- 0, GY <- 1, N <- 127, STEP <- 3, WINDOW <- 3

Calls(c) ==
  /\ sent = <<>> /\ signing = Idle /\ call.kind = "none"
  /\ call' = c
  /\ UNCHANGED builderVars

-----------------------------------------------------------------------------
\* Numbers.
Arithmetic ==
  \E x \in Operand, y \in Divisor, b \in Bit : Calls([kind |-> "arithmetic", x |-> x, y |-> y, b |-> b])

ArithmeticExact(c) ==
  /\ N2!Exact(N2!Results(c.x, c.y, c.b), N2!Reference(c.x, c.y, c.b))
  /\ N4!Exact(N4!Results(c.x, c.y, c.b), N4!Reference(c.x, c.y, c.b))
  /\ N8!Exact(N8!Results(c.x, c.y, c.b), N8!Reference(c.x, c.y, c.b))

\* Residues, of primes of different forms and in Montgomery's form.
Primes == {"k256", "p25519", "223", "97", "131"}
Context(prime) ==
  CASE prime = "k256"   -> M4!Red(M4!P256, "k256")
    [] prime = "p25519" -> M4!Red(N4!OfInteger(59), "p25519")
    [] prime = "223"    -> M4!Red(N4!OfInteger(223), "other")
    [] prime = "97"     -> M4!Red(N4!OfInteger(97), "none")
    [] prime = "131"    -> M4!Red(N4!OfInteger(131), "none")

Residues ==
  \E prime \in Primes, x \in Operand, y \in Divisor :
     Calls([kind |-> "residues", prime |-> prime, x |-> x, y |-> y])

ResiduesExact(c) ==
  LET ctx == Context(c.prime)
      m == N4!Value(ctx.m)
      x == c.x % m
      y == c.y % m
      X == N4!OfInteger(x)
      Y == N4!OfInteger(y)
      mont == M4!Mont(ctx.m)
      To(v) == M4!montConvertTo(mont, v)
      is(v, n) == N4!Value(v) = n % m /\ N4!Normal(v)
      inverse == Power(x, m - 2, m)
      root == N4!Value(M4!redSqrt(ctx, M4!redSqr(ctx, X)))
  IN /\ is(M4!redAdd(ctx, X, Y), x + y) /\ is(M4!redSub(ctx, X, Y), x - y)
     /\ is(M4!redMul(ctx, X, Y), x * y) /\ is(M4!redNeg(ctx, X), -x)
     /\ is(M4!redShl(ctx, X, 3), 8 * x) /\ is(M4!redPow(ctx, X, N4!OfInteger(21)), Power(x, 21, m))
     /\ is(M4!montConvertFrom(mont, M4!montMul(mont, To(X), To(Y))), x * y)
     /\ x # 0 => /\ is(M4!redInvm(ctx, X), inverse)
                 /\ is(M4!montConvertFrom(mont, M4!montInvm(mont, To(X))), inverse)
     /\ root \in 0 .. m - 1 /\ (root * root - x * x) % m = 0

\* Texts in several bases, and bytes.
Texts ==
  \E x \in Operand \union {y * 1000 + 1 : y \in Divisor}, base \in {2, 3, 10}, padding \in {1, 8} :
     Calls([kind |-> "texts", x |-> x, base |-> base, padding |-> padding])

TextsExact(c) ==
  LET number == T8!BN(IF c.x < 0 THEN 1 ELSE 0, N8!OfInteger(c.x).words)
      text == T8!toText(number, c.base, c.padding)
      bytes == T8!toArrayLike(T8!iabs(number), "be", 12)
      reversed == T8!toArrayLike(T8!iabs(number), "le", 0)
      digits == FoldLeft(LAMBDA n, d : n * c.base + d, 0, text.digits)
  IN /\ digits = N8!Abs(c.x) /\ text.minus = (c.x < 0)
     /\ Len(text.digits) % c.padding = 0
     /\ c.padding = 1 => Len(text.digits) = 1 \/ text.digits[1] # 0
     /\ T8!Value(T8!initText(text, c.base, "be")) = c.x /\ T8!toNumber(number) = c.x
     /\ FoldLeft(LAMBDA n, d : n * 4 + d, 0, bytes) = N8!Abs(c.x)
     /\ T8!Value(T8!initArray(bytes, "be")) = N8!Abs(c.x)
     /\ T8!initArray(reversed, "le") = T8!initArray(bytes, "be")

-----------------------------------------------------------------------------
\* Points: the multiples of the base point by addition alone.
MultiplesOf(plus(_, _), double(_), point, infinity, n) ==
  LET multiple[k \in 0 .. n] ==
        IF k = 0 THEN infinity
        ELSE LET half == multiple[k \div 2]
             IN IF k % 2 = 0 THEN double(half) ELSE plus(double(half), point)
  IN multiple

Multiple(k) == MultiplesOf(add, dbl, Point(GX, GY), Infinity, N)[k % N]
Multiple5(k) == MultiplesOf(C5!add, C5!dbl, C5!Point(3, 30), C5!Infinity, 103)[k % 103]
Multiple3(k) == MultiplesOf(C3!add, C3!dbl, C3!Point(0, 1), C3!Infinity, 127)[k % 127]

Points == \E k \in Scalar, l \in Factor : Calls([kind |-> "points", k |-> k, l |-> l])

PointsAgree(c) ==
  LET k == c.k
      l == c.l
      Q == Multiple(l)
      is(p, n) == eq(p, Multiple(n))
  IN /\ is(mul(G, k), k) /\ is(mul(Q, k), k * l) /\ is(_wnafMul(Q, k), k * l) /\ is(toP(trpl(toJ(Q))), 3 * l)
     /\ is(mulAdd(G, k, Q, l), k + l * l)
     /\ is(toP(_wnafMulAdd(<<Point(GX, GY), Q>>, <<k, l>>)), k + l * l)
     /\ is(toP(jadd(jdbl(toJ(Q)), mixedAdd(toJ(Point(GX, GY)), Q))), 3 * l + 1)
     /\ jeq(jadd(jdbl(toJ(Q)), toJ(Multiple(k))), toJ(Multiple(2 * l + k)))
     /\ is(pointFromX(Q.x, Q.y % 2 = 1), l)
     /\ C5!eq(C5!mulAdd(Multiple5(3), k, Multiple5(l), l), Multiple5(3 * k + l * l))
     /\ C3!eq(C3!mulAdd(Multiple3(3), k, Multiple3(l), l), Multiple3(3 * k + l * l))
     /\ C5!eq(C5!_wnafMul(Multiple5(l), k), Multiple5(k * l))
     /\ C3!eq(C3!_wnafMul(Multiple3(l), k), Multiple3(k * l))

-----------------------------------------------------------------------------
\* Keys: k is a private key and l a tweak, or the key of another.
Keys == \E k \in Scalar \cap 1 .. N - 1, l \in Factor : Calls([kind |-> "keys", k |-> k, l |-> l])

\* Both forms of a public key are one point; a key that is tweaked has the
\* public key that is tweaked alike; two parties share a secret; an address is
\* that of the key in each of its forms.
KeysAgree(c) ==
  LET key == Bytes(c.k, LEN)
      other == Bytes(c.l, LEN)
      public == publicKeyCreate(key, TRUE)
      full == publicKeyConvert(public, FALSE)
      address == privateToAddress(key)
      Of(n) == IF n % N = 0 THEN NoBytes ELSE publicKeyCreate(Bytes(n % N, LEN), TRUE)
      text == [i \in 1 .. 2 * ADDRESS |-> [digit |-> Digit(address, i), upper |-> FALSE]]
      shown == toChecksumAddress(text)
  IN /\ publicKeyConvert(publicKeyCreate(key, FALSE), TRUE) = public
     /\ \A b \in {public, full} :
          /\ eq(loadPublicKey(b), Multiple(c.k)) /\ decodePoint(b) = loadPublicKey(b)
          /\ isValidPublic(b, TRUE) /\ ~isValidPublic(b, FALSE)
          /\ publicToAddress(b, TRUE) = address
     /\ isValidPublic(Rest(full), FALSE) /\ KeyValid(Multiple(c.k))
     /\ \A compressed \in BOOLEAN : privateKeyImport(privateKeyExport(key, compressed)) = key
     /\ isValidPrivate(key)
     /\ publicKeyTweakAdd(public, other, TRUE) = Of(c.k + c.l)
     /\ publicKeyCombine(<<publicKeyCreate(other, FALSE), public>>, TRUE) = Of(c.k + c.l)
     /\ privateKeyTweakAdd(key, other) = IF (c.k + c.l) % N = 0 THEN NoBytes ELSE Bytes((c.k + c.l) % N, LEN)
     /\ publicKeyTweakMul(public, other, TRUE) = publicKeyCreate(privateKeyTweakMul(key, other), TRUE)
     /\ ecdh(public, other) = ecdh(publicKeyCreate(other, FALSE), key)
     /\ derive(c.k, Multiple(c.l)) = Multiple(c.k * c.l).x
     /\ privateKeyVerify(genKeyPair(key, other))
     /\ isValidChecksumAddress(shown) /\ shown # text => ~isValidChecksumAddress(text)
     /\ Len(generateAddress(address, c.l)) = ADDRESS

-----------------------------------------------------------------------------
\* Signatures of a message, with nonces that can be used and others.
Signatures ==
  \E k \in Factor, msg \in Scalar, nonce \in Nonces :
     Calls([kind |-> "signatures", k |-> k, msg |-> msg, nonce |-> nonce])

\* A signature verifies, the one with high s only after it was normalised; its
\* codings are read back, and of the strict one each byte is needed as it is;
\* its parameter leads to the key.
SignaturesAgree(c) ==
  LET message == Bytes(c.msg, LEN)
      public == publicKeyCreate(Bytes(c.k, LEN), TRUE)
      sig == SignWith(c.msg, c.k, c.nonce, TRUE)
      plain == SignWith(c.msg, c.k, c.nonce, FALSE)
      compact == Compact(sig)
      bip66 == signatureExport(compact)
      changed == {[bip66 EXCEPT ![i] = b] : i \in DOMAIN bip66, b \in 0 .. 2 ^ BYTE - 1}
      parameter == getKeyRecoveryParam(c.msg, [sig EXCEPT !.recovery = -1], Multiple(c.k))
      parts == ecsignOf(sig)
  IN sig # NoSignature =>
       /\ verify(message, compact, public)
       /\ verify(message, Compact(plain), public) = (plain.s <= nh)
       /\ signatureNormalize(Compact(plain)) = compact
       /\ _importDER(toDER(sig)) = Sig(sig.r, sig.s, -1)
       /\ Len(bip66) < HighBit + 2 => toDER(sig) = bip66
       /\ \A b \in changed : signatureImport(b) = compact <=> b = bip66
       /\ recover(message, compact, sig.recovery, TRUE) = public
       /\ parameter <= sig.recovery /\ recover(message, compact, parameter, TRUE) = public
       /\ fromRpcSig(toRpcSig(parts.v, parts.r, parts.s)) = parts

-----------------------------------------------------------------------------
\* RLP, at the lengths that decide about the form.
Filled(n, byte) == [i \in 1 .. n |-> byte]
Buffers == {R8!Buffer(Filled(n, byte)) : n \in {0, 1, 2, 54, 55, 56, 255, 256}, byte \in {0, 127, 128}}
Lists == {R8!List(<<>>)} \union {R8!List(<<x, R8!List(<<x>>)>>) : x \in Buffers}
         \union {R8!List(<<R8!Buffer(Filled(n, 1))>>) : n \in {53, 54, 55, 56}}

RlpItems == \E item \in Buffers \union Lists : Calls([kind |-> "items", item |-> item])

\* An item is read back, its first bytes tell its length, and nothing may
\* follow it.  The length of a long buffer is that of its header.
ItemsAgree(c) ==
  LET b == R8!rlpEncode(c.item)
      short == c.item.type = "list" \/ Len(c.item.of) <= 55
  IN /\ R8!rlpDecode(b) = c.item /\ R8!rlpDecode(b \o <<0>>) = R8!Invalid
     /\ R8!getLength(b) = IF short THEN Len(b) ELSE Len(b) - Len(c.item.of)

\* A transaction with all of its fields.
Transaction(c) ==
  createUnsigned([nonce |-> c.nonce, gasPrice |-> 30, gasLimit |-> 250, to |-> c.to, value |-> c.nonce,
                  data |-> <<0, 7, 0>>])

FieldTransactions ==
  \E key \in Factor, nonce \in Nonces, to \in {<<>>, <<0>>, <<3>>} :
     Calls([kind |-> "transactions", key |-> key, nonce |-> nonce, to |-> to])

\* A transaction is read back as it was, and signing it leaves what is signed
\* alone.  Its sender, once asked for, does not change.
TransactionsAgree(c) ==
  LET tx == Transaction(c)
      sig == SignWith(Number(hash(tx, FALSE)), c.key, c.nonce, TRUE)
      signed == IF sig = NoSignature THEN tx ELSE WithSignature(tx, sig)
      sender == getSenderAddress(signed)
  IN /\ Deserialized(serialize(signed)).raw = signed.raw
     /\ hash(signed, FALSE) = hash(tx, FALSE)
     /\ getUpfrontCost(signed) = 30 * 250 + c.nonce
     /\ getBaseFee(signed) = 21000 + 4 + 68 + (IF c.to = <<>> THEN 32000 ELSE 0)
     /\ toCreationAddress(tx) <=> c.to = <<>>
     /\ isPrecompiled(tx.raw[4]) <=> c.to = <<3>>
     /\ ~validateTx(signed)   \* the fee is above the limit
     /\ sig # NoSignature /\ sig.recovery < 2 =>
          /\ sender.from = privateToAddress(Bytes(c.key, LEN))
          /\ getSenderAddress(sender) = sender

-----------------------------------------------------------------------------
\* Hashes of texts around the ends of blocks, given at once or in two parts.
H == INSTANCE Hashing

Text(n) == [i \in 1 .. n |-> (37 * i + n) % 256]

Hashes ==
  \E text \in {<<>>, <<128>>, <<192>>} \union {Text(n) : n \in {55, 56, 64, 135, 136, 137, 272}}, first \in {0, 5, 64, 136} :
     /\ first <= Len(text)
     /\ Calls([kind |-> "hashes", text |-> text, a |-> SubSeq(text, 1, first), b |-> SubSeq(text, first + 1, Len(text))])

\* Both implementations of a hash give the same, however a text comes in; the
\* named ones are right; and the keyed hash is what it is defined as.
HashesAgree(c) ==
  LET Sha(m) == H!shaDigest(H!shaUpdate(H!NewSha256, m))
      key == IF Len(c.text) > 64 THEN Sha(c.text) ELSE c.text
      Keyed(pad) == [i \in 1 .. 64 |-> H!ByteOf(H!xor(H!Bits(IF i > Len(key) THEN 0 ELSE key[i]), H!Bits(pad)), 0)]
      hasher == H!update(H!update(H!reset(256), H!parse(c.a)), H!parse(c.b))
      page == H!sha3(c.text)
  IN /\ H!stringify(H!finalize(hasher, H!parse(<<>>))) = page
     /\ H!digest(<<c.a, c.b>>) = page
     /\ c.text = <<>> => page = H!SHA3_NULL
     /\ c.text = <<128>> => page = H!SHA3_RLP
     /\ c.text = <<192>> => page = H!SHA3_RLP_ARRAY
     /\ H!blockDigest(H!blockUpdate(H!blockUpdate(H!BlockHash, c.a), c.b))
          = H!shaDigest(H!shaUpdate(H!shaUpdate(H!NewSha256, c.a), c.b))
     /\ H!hmacDigest(H!hmacUpdate(H!hmacUpdate(H!HmacOf(c.text), c.a), c.b))
          = Sha(Keyed(92) \o Sha(Keyed(54) \o c.text))

MCOperand == {-291, -64, -5, 0, 7, 255, 1023}
MCDivisor == {-64, -7, 1, 16, 260}

-----------------------------------------------------------------------------
\* Hashes of a few bits, and the transfers of a page.
Hash(seed, b) == FoldLeft(LAMBDA h, x : ((h + x + 1) * seed) % 46337, seed, b \o <<1, 2>>)
MCHmac(k, m) == Bytes(Hash(12347, k \o m) % 256, 2)
MCSha3(b) == Bytes(Hash(20011, b) % 256, 2)
MCSha256(b) == Bytes(Hash(30103, b) % 256, 2)
MCPhraseKey(b) == MCSha3(b \o b)

\* A key, a text that is hashed to one or is a phrase, and a key of no account.
PlainKey == [isKey |-> TRUE, of |-> <<2, 5>>]
Phrase == [isKey |-> FALSE, of |-> <<3, 1>>]
NoKey == [isKey |-> FALSE, of |-> <<1, 1>>]
KeyAddress == privateToAddress(<<2, 5>>)

Transfer(secret, from, to, amount, nonce) ==
  [secret |-> secret, from |-> from, to |-> to, amount |-> amount, nonce |-> nonce, gasPrice |-> 200]

MCForm ==
  {Transfer(PlainKey, KeyAddress, to, amount, nonce) : to \in {<<7>>, <<11>>}, amount \in {0, 9}, nonce \in {0, 17}}
  \union {Transfer(Phrase, from, <<11>>, 129, 1) : from \in {<<7>>, <<2>>, <<3>>}}
  \union {Transfer(PlainKey, KeyAddress, <<7>>, 300, 0), Transfer(NoKey, <<15>>, <<7>>, 9, 0)}

-----------------------------------------------------------------------------
NoCall == [kind |-> "none"]
Init == BuilderInit /\ call = NoCall

Next ==
  \/ call = NoCall /\ BuilderNext /\ UNCHANGED call
  \/ Arithmetic \/ Residues \/ Texts \/ Points
  \/ Keys \/ Signatures \/ RlpItems \/ FieldTransactions \/ Hashes

Spec == Init /\ [][Next]_vars

\* Every call returns what its integers, points, keys, signatures or items are
\* in theory, whatever words, tables, representations and codings it goes
\* through.
Exact(c) ==
  CASE c.kind = "arithmetic"   -> ArithmeticExact(c)
    [] c.kind = "residues"     -> ResiduesExact(c)
    [] c.kind = "texts"        -> TextsExact(c)
    [] c.kind = "points"       -> PointsAgree(c)
    [] c.kind = "keys"         -> KeysAgree(c)
    [] c.kind = "signatures"   -> SignaturesAgree(c)
    [] c.kind = "items"        -> ItemsAgree(c)
    [] c.kind = "transactions" -> TransactionsAgree(c)
    [] c.kind = "hashes"       -> HashesAgree(c)
    [] OTHER                   -> TRUE

AnswersExact == [][Exact(call')]_call
=============================================================================
