------------------------------ MODULE Secp256k1 ------------------------------
(***************************************************************************)
(* Keys and signatures of the signing library: elliptic's EC and its        *)
(* generator of nonces; then the library's functions on buffers             *)
(* (secp256k1/elliptic.js and the checks of lengths in front of it), with   *)
(* the two codings of signatures: elliptic's own DER and bip66.  A buffer   *)
(* is a sequence of bytes of BYTE bits, a scalar or a coordinate has LEN of *)
(* them.  Where the code throws, or returns null, the value is NoPoint,     *)
(* NoSignature or NoBytes.                                                  *)
(***************************************************************************)
EXTENDS CurvePoints

CONSTANTS
  BYTE,           \* bits of a byte (8)
  LEN,            \* bytes of a scalar (32)
  Hmac(_, _),     \* of a key and a message, LEN bytes
  Sha256(_)

ASSUME SigningAssumption ==
  /\ BYTE \in Nat \ {0, 1} /\ LEN \in Nat \ {0}
  /\ P < 2 ^ (BYTE * LEN) /\ N < 2 ^ (BYTE * LEN)

HighBit == 2 ^ (BYTE - 1)
NoBytes == <<>>
Bytes(n, len) == [i \in 1 .. len |-> (n \div 2 ^ (BYTE * (len - i))) % 2 ^ BYTE]
ByteLength(n) == (BitLength(n) + BYTE - 1) \div BYTE
toArray(n) == Bytes(n, Max({1, ByteLength(n)}))
Number(bytes) == FoldLeft(LAMBDA n, b : n * 2 ^ BYTE + b, 0, bytes)

\* A byte, or what an index outside of the buffer reads.
At(b, i) == IF i \in DOMAIN b THEN b[i] ELSE -1
From(b, i) == SubSeq(b, i, Len(b))

nh == Shr(N, 1)

-----------------------------------------------------------------------------
\* The deterministic generator (HMAC_DRBG): K and V are mixed with the seed.
_update(d, seed) ==
  LET K1 == Hmac(d.K, d.V \o <<0>> \o seed)
      V1 == Hmac(K1, d.V)
      K2 == Hmac(K1, V1 \o <<1>> \o seed)
  IN IF seed = NoBytes THEN [d EXCEPT !.K = K1, !.V = V1]
     ELSE [d EXCEPT !.K = K2, !.V = Hmac(K2, V1)]

HmacDRBG(entropy, nonce, pers) ==
  _update([K |-> [i \in 1 .. LEN |-> 0], V |-> [i \in 1 .. LEN |-> 1], reseed |-> 1],
          entropy \o nonce \o pers)

generate(d, len, added) ==
  LET seeded == IF added = NoBytes THEN d ELSE _update(d, added)
      blocks[i \in 0 .. (len + LEN - 1) \div LEN] ==
        IF i = 0 THEN <<seeded.V>> ELSE Append(blocks[i - 1], Hmac(seeded.K, Last(blocks[i - 1])))
      all == blocks[(len + LEN - 1) \div LEN]
  IN [bytes |-> SubSeq(FlattenSeq(Tail(all)), 1, len),
      drbg |-> [_update([seeded EXCEPT !.V = Last(all)], added) EXCEPT !.reseed = @ + 1]]

-----------------------------------------------------------------------------
\* Key pairs.
_importPrivate(key) == Number(key) % N
getPublic(priv) == mul(G, priv)

RECURSIVE KeyFrom(_)

KeyFrom(d) ==
  LET g == generate(d, ByteLength(N), NoBytes)
      priv == Number(g.bytes)
  IN IF priv > N - 2 THEN KeyFrom(g.drbg) ELSE Bytes(priv + 1, LEN)

genKeyPair(entropy, pers) == KeyFrom(HmacDRBG(entropy, toArray(N), pers))

KeyValid(pub) == ~pub.inf /\ validate(pub) /\ mul(pub, N).inf

derive(priv, pub) == mul(pub, priv).x

-----------------------------------------------------------------------------
\* ECDSA.  A signature is a record of r, s and the recovery parameter, which
\* says if the ordinate of the nonce's point is odd (1) and if its abscissa is
\* not below N (2).
Sig(r, s, recovery) == [r |-> r, s |-> s, recovery |-> recovery]
NoSignature == Sig(0, 0, -1)

_truncateToN(msg, truncOnly) ==
  LET delta == ByteLength(msg) * BYTE - BitLength(N)
      m == IF delta > 0 THEN Shr(msg, delta) ELSE msg
  IN IF ~truncOnly /\ m >= N THEN m - N ELSE m

Drbg(msg, priv, pers) == HmacDRBG(Bytes(priv, LEN), Bytes(_truncateToN(msg, FALSE), LEN), pers)

\* One turn of the loop of sign: with nonce k, whose point is kp.
SignatureOf(msg, priv, k, kp, canonical) ==
  LET r == kp.x % N
      s == (InverseN[k] * ((r * priv + _truncateToN(msg, FALSE)) % N)) % N
      recovery == (kp.y % 2) + (IF kp.x # r THEN 2 ELSE 0)
  IN IF kp.inf \/ r = 0 \/ s = 0 THEN NoSignature
     ELSE IF canonical /\ s > nh
     THEN Sig(r, N - s, IF recovery % 2 = 1 THEN recovery - 1 ELSE recovery + 1)
     ELSE Sig(r, s, recovery)

SignWith(msg, priv, nonce, canonical) ==
  LET k == _truncateToN(nonce, TRUE)
  IN IF k <= 1 \/ k >= N - 1 THEN NoSignature ELSE SignatureOf(msg, priv, k, mul(G, k), canonical)

ecVerify(msg, sig, pub) ==
  LET sinv == InverseN[sig.s]
      u1 == (sinv * _truncateToN(msg, FALSE)) % N
      p == jmulAdd(G, u1, pub, (sinv * sig.r) % N)
  IN /\ sig.r \in 1 .. N - 1 /\ sig.s \in 1 .. N - 1
     /\ ~isInfinity(p) /\ eqXToP(p, sig.r)

recoverPubKey(msg, sig, j) ==
  LET r == pointFromX(IF j >= 2 THEN sig.r + N ELSE sig.r, j % 2 = 1)
  IN IF (j >= 2 /\ sig.r >= P % N) \/ r = NoPoint THEN NoPoint
     ELSE mul(mulAdd(G, N - msg, r, sig.s), InverseN[sig.r])

\* The first of the four parameters that leads to the key.
getKeyRecoveryParam(msg, sig, pub) ==
  LET found == {j \in 0 .. 3 : LET p == recoverPubKey(msg, sig, j) IN p # NoPoint /\ eq(p, pub)}
  IN IF sig.recovery # -1 THEN sig.recovery ELSE IF found = {} THEN -1 ELSE Min(found)

-----------------------------------------------------------------------------
\* Buffers.  Of 0x30, 0x02, 0x04, 0x06 and 0x07 the small byte keeps one digit.
Sequence == 3   \* 0x30
Integer == 2    \* 0x02
Octets == 4     \* 0x04

IsPublic(b) == Len(b) \in {LEN + 1, 2 * LEN + 1}

\* The zeros in front go, but one before a byte with its high bit set.
rmPadding(b) ==
  From(b, Min({i \in DOMAIN b : i = Len(b) \/ b[i] # 0 \/ b[i + 1] >= HighBit}))

-----------------------------------------------------------------------------
\* Elliptic's DER.  A length is a byte, or the number of its bytes with the
\* high bit set, and these.
derLength(b, place) ==
  LET initial == At(b, place)
      octets == initial % HighBit
  IN IF initial < HighBit THEN [val |-> initial, place |-> place + 1]
     ELSE [val |-> Number(SubSeq(b, place + 1, Min({place + octets, Len(b)}))),
           place |-> place + 1 + octets]

derConstructLength(len) ==
  LET octets == 1 + (BitLength(len) - 1) \div BYTE
  IN IF len < HighBit THEN <<len>> ELSE <<octets + HighBit>> \o Bytes(len, octets)

toDER(sig) ==
  LET DerInteger(n) ==
        LET bytes == rmPadding((IF toArray(n)[1] >= HighBit THEN <<0>> ELSE <<>>) \o toArray(n))
        IN <<Integer>> \o derConstructLength(Len(bytes)) \o bytes
      backHalf == DerInteger(sig.r) \o DerInteger(sig.s)
  IN <<Sequence>> \o derConstructLength(Len(backHalf)) \o backHalf

_importDER(b) ==
  LET len == derLength(b, 2)
      rlen == derLength(b, len.place + 1)
      second == rlen.place + rlen.val
      slen == derLength(b, second + 1)
  IN IF /\ At(b, 1) = Sequence /\ len.place - 1 + len.val = Len(b)
        /\ At(b, len.place) = Integer /\ At(b, second) = Integer
        /\ slen.place - 1 + slen.val = Len(b)
     THEN Sig(Number(SubSeq(b, rlen.place, second - 1)), Number(From(b, slen.place)), -1)
     ELSE NoSignature

-----------------------------------------------------------------------------
\* bip66's strict form: both lengths are bytes, no number is padded.
NegativeOrPadded(b) ==
  b[1] >= HighBit \/ (Len(b) > 1 /\ b[1] = 0 /\ b[2] < HighBit)

check(b) ==
  LET lenR == b[4]
      lenS == At(b, 6 + lenR)
  IN /\ Len(b) >= 8 /\ Len(b) <= 6 + 2 * (LEN + 1)
     /\ b[1] = Sequence /\ b[2] = Len(b) - 2 /\ b[3] = Integer
     /\ lenR # 0 /\ 5 + lenR < Len(b) /\ b[5 + lenR] = Integer
     /\ lenS # 0 /\ 6 + lenR + lenS = Len(b)
     /\ ~NegativeOrPadded(SubSeq(b, 5, 4 + lenR)) /\ ~NegativeOrPadded(From(b, 7 + lenR))

decode(b) == [r |-> SubSeq(b, 5, 4 + b[4]), s |-> From(b, 7 + b[4])]

bip66Encode(r, s) ==
  IF \E b \in {r, s} : b = NoBytes \/ Len(b) > LEN + 1 \/ NegativeOrPadded(b) THEN NoBytes
  ELSE <<Sequence, 4 + Len(r) + Len(s), Integer, Len(r)>> \o r \o <<Integer, Len(s)>> \o s

-----------------------------------------------------------------------------
\* Private keys.
privateKeyVerify(key) == Len(key) = LEN /\ Number(key) < N /\ Number(key) # 0

\* A point's bytes; that of infinity has no coordinates.
encode(p, compressed) ==
  IF p.inf THEN NoBytes
  ELSE IF compressed THEN <<2 + (p.y % 2)>> \o Bytes(p.x, LEN)
  ELSE <<4>> \o Bytes(p.x, LEN) \o Bytes(p.y, LEN)

publicKeyCreate(key, compressed) ==
  IF privateKeyVerify(key) THEN encode(getPublic(_importPrivate(key)), compressed) ELSE NoBytes

\* The DER form of a private key ends with the curve's parameters, which
\* nothing reads, and the public key.
Parameters(compressed) == [i \in 1 .. IF compressed THEN 2 ELSE 6 |-> 0]

privateKeyExport(key, compressed) ==
  LET body == <<Integer, 1, 1, Octets, LEN>> \o key \o Parameters(compressed)
                \o publicKeyCreate(key, compressed)
  IN IF privateKeyVerify(key) THEN <<Sequence>> \o derConstructLength(Len(body)) \o body ELSE NoBytes

privateKeyImport(b) ==
  LET lenb == At(b, 2) - HighBit
      index == 3 + lenb
      len == Number(SubSeq(b, 3, 2 + lenb))
      keyLen == b[index + 4]
      key == SubSeq(b, index + 5, index + 4 + keyLen)
  IN IF /\ At(b, 1) = Sequence /\ lenb \in {1, 2} /\ Len(b) >= 2 + lenb + len
        /\ Len(b) >= index + 4 /\ SubSeq(b, index, index + 3) = <<Integer, 1, 1, Octets>>
        /\ keyLen <= LEN /\ Len(b) >= index + 4 + keyLen
        /\ privateKeyVerify(key)
     THEN key ELSE NoBytes

privateKeyTweakAdd(key, tweak) ==
  LET t == Number(tweak)
      sum == t + Number(key)
      bn == IF sum >= N THEN sum - N ELSE sum
  IN IF t >= N \/ bn = 0 THEN NoBytes ELSE Bytes(bn, LEN)

privateKeyTweakMul(key, tweak) ==
  IF Number(tweak) \in 1 .. N - 1 THEN Bytes((Number(tweak) * Number(key)) % N, LEN) ELSE NoBytes

-----------------------------------------------------------------------------
\* Public keys.  The ordinate of a compressed key is the power that is a root
\* if there is one: nothing checks that it is.
loadCompressedPublicKey(first, x) ==
  LET y == Root((x * x * x + A * x + B) % P, P)
  IN IF x >= P THEN NoPoint ELSE Point(x, IF (first = 3) # (y % 2 = 1) THEN -y ELSE y)

loadUncompressedPublicKey(first, x, y) ==
  IF x >= P \/ y >= P \/ (first \in {6, 7} /\ (y % 2) # (first % 2)) \/ ~OnCurve(x, y) THEN NoPoint
  ELSE Point(x, y)

loadPublicKey(b) ==
  LET first == At(b, 1)
      x == Number(SubSeq(b, 2, LEN + 1))
  IN CASE first \in {2, 3} /\ Len(b) = LEN + 1        -> loadCompressedPublicKey(first, x)
       [] first \in {4, 6, 7} /\ Len(b) = 2 * LEN + 1 -> loadUncompressedPublicKey(first, x, Number(From(b, LEN + 2)))
       [] OTHER                                       -> NoPoint

\* Elliptic's own reading, which checks the ordinate of a compressed key only.
decodePoint(b) ==
  LET first == At(b, 1)
      x == Number(SubSeq(b, 2, LEN + 1))
  IN CASE first \in {4, 6, 7} /\ Len(b) = 2 * LEN + 1 ->
            IF first \in {6, 7} /\ (Last(b) % 2) # (first % 2) THEN NoPoint
            ELSE Point(x, Number(From(b, LEN + 2)))
       [] first \in {2, 3} /\ Len(b) = LEN + 1 -> pointFromX(x, first = 3)
       [] OTHER -> NoPoint

publicKeyVerify(b) == loadPublicKey(b) # NoPoint

\* What a function makes of a public key, if it is one.
OfPublic(b, compressed, f(_)) ==
  IF IsPublic(b) /\ publicKeyVerify(b) THEN encode(f(loadPublicKey(b)), compressed) ELSE NoBytes

publicKeyConvert(b, compressed) == OfPublic(b, compressed, LAMBDA p : p)

publicKeyTweakAdd(b, tweak, compressed) ==
  IF Number(tweak) >= N THEN NoBytes
  ELSE OfPublic(b, compressed, LAMBDA p : add(mul(G, Number(tweak)), p))

publicKeyTweakMul(b, tweak, compressed) ==
  IF Number(tweak) \notin 1 .. N - 1 THEN NoBytes
  ELSE OfPublic(b, compressed, LAMBDA p : mul(p, Number(tweak)))

publicKeyCombine(bs, compressed) ==
  IF bs = <<>> \/ \E i \in DOMAIN bs : ~(IsPublic(bs[i]) /\ publicKeyVerify(bs[i])) THEN NoBytes
  ELSE encode(FoldLeft(LAMBDA p, b : add(p, loadPublicKey(b)), loadPublicKey(Head(bs)), Tail(bs)), compressed)

ecdhUnsafe(b, key, compressed) ==
  IF ~privateKeyVerify(key) THEN NoBytes
  ELSE OfPublic(b, compressed, LAMBDA p : mul(p, Number(key)))

ecdh(b, key) == Sha256(ecdhUnsafe(b, key, TRUE))

-----------------------------------------------------------------------------
\* Signatures, as r and s of LEN bytes each.
Compact(sig) == Bytes(sig.r, LEN) \o Bytes(sig.s, LEN)
Parsed(b) == Sig(Number(SubSeq(b, 1, LEN)), Number(SubSeq(b, LEN + 1, 2 * LEN)), -1)
InRange(b) == Len(b) = 2 * LEN /\ Parsed(b).r < N /\ Parsed(b).s < N

signatureNormalize(b) ==
  LET s == Parsed(b).s
  IN IF ~InRange(b) THEN NoBytes
     ELSE IF s > nh THEN SubSeq(b, 1, LEN) \o Bytes(N - s, LEN) ELSE b

signatureExport(b) ==
  LET half(i) == rmPadding(<<0>> \o SubSeq(b, i, i + LEN - 1))
  IN IF ~InRange(b) THEN NoBytes ELSE bip66Encode(half(1), half(LEN + 1))

\* A number that is not below N becomes zero.
signatureImport(der) ==
  LET parsed == decode(der)
      short(b) == IF Len(b) = LEN + 1 /\ b[1] = 0 THEN Tail(b) ELSE b
      scalar(b) == IF Number(b) >= N THEN 0 ELSE Number(b)
  IN IF der = NoBytes \/ ~check(der) THEN NoBytes
     ELSE IF Len(short(parsed.r)) > LEN \/ Len(short(parsed.s)) > LEN THEN NoBytes
     ELSE Compact(Sig(scalar(parsed.r), scalar(parsed.s), -1))

\* High s is refused, as is zero.
verify(message, b, public) ==
  LET sig == Parsed(b)
      p == loadPublicKey(public)
  IN /\ InRange(b) /\ sig.s <= nh /\ sig.r # 0 /\ sig.s # 0
     /\ IsPublic(public) /\ p # NoPoint
     /\ ecVerify(Number(message), sig, p)

recover(message, b, recovery, compressed) ==
  LET p == recoverPubKey(Number(message), Parsed(b), recovery)
  IN IF ~InRange(b) \/ Parsed(b).r = 0 \/ Parsed(b).s = 0 \/ recovery \notin 0 .. 3 THEN NoBytes
     ELSE IF p = NoPoint THEN NoBytes ELSE encode(p, compressed)
=============================================================================
