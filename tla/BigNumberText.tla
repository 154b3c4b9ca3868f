---------------------------- MODULE BigNumberText ----------------------------
(***************************************************************************)
(* Numbers of class BN to and from texts and bytes.  A text is a sign and   *)
(* its digits, the highest first.  Words have two bits more than six hex    *)
(* digits or three bytes have, so that texts and words are out of step.     *)
(***************************************************************************)
EXTENDS BigNumber

CONSTANTS HEX  \* bits of a hex digit (4), where W = 6 * HEX + 2

Chunk == 6 * HEX
Byte == 2 ^ (2 * HEX)

\* Digits as one number.
Parsed(digits, base) == FoldLeft(LAMBDA r, d : r * base + d, 0, digits)

\* Parts of n elements, counted from the end; the first may be shorter.
Parts(s, n) ==
  [k \in 1 .. (Len(s) + n - 1) \div n |-> SubSeq(s, Max({1, Len(s) - k * n + 1}), Len(s) - (k - 1) * n)]

\* Chunks of Chunk bits, the lowest first, put into as many words; of what
\* goes into the next word only spill bits are kept.
Packed(chunks, spill) ==
  LET off(k) == ((k - 1) * Chunk) % W
      into(k) == ((k - 1) * Chunk) \div W + 1
      low(k) == (chunks[k] * 2 ^ off(k)) % Base
      high(k) == (chunks[k] \div 2 ^ (W - off(k))) % 2 ^ spill
  IN [i \in DOMAIN chunks |->
        MapThenSumSet(low, {k \in DOMAIN chunks : into(k) = i})
          + MapThenSumSet(high, {k \in DOMAIN chunks : into(k) + 1 = i})]

parseHexText(digits) ==
  LET parts == Parts(digits, 6)
  IN BN(0, Packed([k \in DOMAIN parts |-> Parsed(parts[k], 2 ^ HEX)], W - 4))

\* As many digits at a time as fit into a word.
LimbLen(base) == CHOOSE n \in 1 .. W : base ^ n >= Base \div base /\ base ^ n < Base

parseBaseText(digits, base) ==
  LET limb == LimbLen(base)
      rest == Len(digits) % limb
      first == SubSeq(digits, 1, Len(digits) - rest)
      step(x, part) == uaddn(imuln(x, base ^ Len(part)), Parsed(part, base))
  IN FoldLeft(step, Zero,
              Reverse(Parts(first, limb))
                \o (IF rest = 0 THEN <<>> ELSE <<SubSeq(digits, Len(digits) - rest + 1, Len(digits))>>))

\* Three bytes at a time, from the end or, little endian, from the start.
initArray(bytes, endian) ==
  LET big == IF endian = "be" THEN bytes ELSE Reverse(bytes)
      parts == Parts(big, 3)
  IN IF bytes = <<>> THEN Zero
     ELSE strip(BN(0, Packed([k \in DOMAIN parts |-> Parsed(parts[k], Byte)], W)))

\* As long as asked for; the code asserts that the number is not longer.
toArrayLike(x, endian, length) ==
  LET n == IF length = 0 THEN Max({1, byteLength(x, 2 * HEX)}) ELSE length
      byte[i \in 1 .. n + 1] == IF i = 1 THEN strip(x) ELSE iushrn(byte[i - 1], 2 * HEX)
      low == [i \in 1 .. n |-> andln(byte[i], Byte)]
  IN IF endian = "le" THEN low ELSE Reverse(low)

initText(text, base, endian) ==
  LET x == IF base = 2 ^ HEX THEN parseHexText(text.digits) ELSE parseBaseText(text.digits, base)
      signed == strip([x EXCEPT !.neg = IF text.minus THEN 1 ELSE 0])
  IN IF endian = "be" THEN signed
     ELSE [initArray(toArrayLike(signed, "be", 0), "le") EXCEPT !.neg = signed.neg]

\* Digits of a number that fits into a word, without leading zeros.
Digits(n, base) ==
  LET ds[k \in 0 .. n] ==   \* of k
        IF k < base THEN <<k>> ELSE Append(ds[k \div base], k % base)
  IN ds[n]

Padded(ds, n) == [i \in 1 .. Max({0, n - Len(ds)}) |-> 0] \o ds

RECURSIVE HexDigits(_, _, _, _, _)

\* Word i, of which off bits are needed to complete the chunk; when a whole
\* chunk is carried over the same word is read again.
HexDigits(x, i, off, carry, out) ==
  IF i > Len(x.words)
  THEN IF carry = 0 THEN out ELSE Digits(carry, 2 ^ HEX) \o out
  ELSE LET w == x.words[i]
           word == Digits((w * 2 ^ off + carry) % 2 ^ Chunk, 2 ^ HEX)
           c == (w \div 2 ^ (Chunk - off)) % 2 ^ Chunk
           more == (IF c # 0 \/ i # Len(x.words) THEN Padded(word, 6) ELSE word) \o out
       IN IF off + 2 >= W THEN HexDigits(x, i, off + 2 - W, c, more)
          ELSE HexDigits(x, i + 1, off + 2, c, more)

\* Groups of as many digits as fit below 2^W, by division.
GroupSize(base) == CHOOSE n \in 1 .. W : base ^ n >= Base \div base /\ base ^ (n - 1) < Base \div base

RECURSIVE BaseDigits(_, _, _)

BaseDigits(c, base, out) ==
  LET group == base ^ GroupSize(base)
      r == Digits(modn(c, group), base)
      rest == idivn(c, group)
  IN IF isZero(c) THEN out
     ELSE BaseDigits(rest, base, (IF isZero(rest) THEN r ELSE Padded(r, GroupSize(base))) \o out)

toText(x, base, padding) ==
  LET digits == IF base = 2 ^ HEX THEN HexDigits(x, 1, 0, 0, <<>>)
                ELSE IF isZero(x) THEN <<0>> ELSE BaseDigits(iabs(x), base, <<>>)
      missing == (-Len(digits)) % padding
  IN [minus |-> x.neg = 1, digits |-> Padded(digits, Len(digits) + missing)]

\* Of a number of up to two words, or of three of which the highest is one.
toNumber(x) ==
  LET n == FoldLeftDomain(LAMBDA sum, i : sum + x.words[i] * Base ^ (i - 1), 0, x.words)
  IN IF x.neg = 1 THEN -n ELSE n
=============================================================================
