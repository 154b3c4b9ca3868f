----------------------------- MODULE BigNumber ------------------------------
(***************************************************************************)
(* The integers of the signing library (class BN of the bundle eth-util.js, *)
(* which the pages reach as EthUtil): a sign and a sequence of words, the   *)
(* lowest first.  The code's words have 26 bits, here W.  A number is       *)
(* normal if its highest word is not zero and zero has no sign; several     *)
(* operations decide by the number of words or by the sign alone, and are   *)
(* right for normal numbers only.                                           *)
(***************************************************************************)
EXTENDS Integers, Sequences, SequencesExt, FiniteSetsExt, TLC

CONSTANTS
  W,            \* bits of a word (26), even
  COMB,         \* words of the factors that comb10MulTo is for (10)
  SMALL, BIG    \* words of a product, for the choice of an algorithm (63, 1024)

Base == 2 ^ W

BN(neg, words) == [neg |-> neg, words |-> words]
Zero == BN(0, <<0>>)
One == BN(0, <<1>>)

Word(x, i) == IF i \in DOMAIN x.words THEN x.words[i] ELSE 0
Negated(x) == [x EXCEPT !.neg = 1 - @]
iabs(x) == [x EXCEPT !.neg = 0]

\* Reference: the integer that is meant, and when its form is the normal one.
Value(x) ==
  (IF x.neg = 1 THEN -1 ELSE 1) *
    FoldLeftDomain(LAMBDA sum, i : sum + x.words[i] * Base ^ (i - 1), 0, x.words)

Normal(x) ==
  /\ x.words # <<>>
  /\ Len(x.words) > 1 => Last(x.words) # 0
  /\ x.words = <<0>> => x.neg = 0

\* Words of the digits d(1), ..., d(n), each carrying into the next.
Ripple(d(_), n) ==
  LET step[i \in 0 .. n] ==
        IF i = 0 THEN [words |-> <<>>, carry |-> 0]
        ELSE LET before == step[i - 1]
                 sum == d(i) + before.carry
             IN [words |-> Append(before.words, sum % Base), carry |-> sum \div Base]
  IN step[n]

WithCarry(r) == IF r.carry = 0 THEN r.words ELSE Append(r.words, r.carry)

normSign(x) == IF x.words = <<0>> THEN iabs(x) ELSE x

strip(x) ==
  LET top == Max({Min({1, Len(x.words)})} \union {i \in DOMAIN x.words : x.words[i] # 0})
  IN normSign(BN(x.neg, SubSeq(x.words, 1, top)))

\* new BN(number): up to twice the largest number of two words.
initNumber(n) ==
  LET a == IF n < 0 THEN -n ELSE n
  IN BN(IF n < 0 THEN 1 ELSE 0,
        IF a < Base THEN <<a>>
        ELSE IF a < Base * Base THEN <<a % Base, a \div Base>>
        ELSE <<a % Base, (a \div Base) % Base, 1>>)

isZero(x) == x.words = <<0>>
isOdd(x) == x.words[1] % 2 = 1
andln(x, low) == x.words[1] % low   \* low a power of two: & (low - 1)
neg(x) == IF isZero(x) THEN x ELSE Negated(x)

-----------------------------------------------------------------------------
\* Comparisons: -1, 0 or 1.
Sign(a, b) == IF a < b THEN -1 ELSE IF a > b THEN 1 ELSE 0

ucmp(x, y) ==
  LET differ == {i \in DOMAIN x.words : Word(x, i) # Word(y, i)}
  IN IF Len(x.words) # Len(y.words) THEN Sign(Len(x.words), Len(y.words))
     ELSE IF differ = {} THEN 0 ELSE Sign(x.words[Max(differ)], y.words[Max(differ)])

cmp(x, y) ==
  IF x.neg # y.neg THEN y.neg - x.neg
  ELSE IF x.neg = 1 THEN -ucmp(x, y) ELSE ucmp(x, y)

\* With a number of at most one word.
cmpn(x, n) ==
  LET a == strip(x)
      res == IF Len(a.words) > 1 THEN 1 ELSE Sign(a.words[1], IF n < 0 THEN -n ELSE n)
  IN IF x.neg = 1 /\ n >= 0 THEN -1
     ELSE IF x.neg = 0 /\ n < 0 THEN 1
     ELSE IF x.neg = 1 THEN -res ELSE res

gt(x, y) == cmp(x, y) = 1

-----------------------------------------------------------------------------
\* Sums and differences of magnitudes.
uadd(x, y) ==
  WithCarry(Ripple(LAMBDA i : Word(x, i) + Word(y, i), Max({Len(x.words), Len(y.words)})))

usub(x, y) ==
  LET difference(a, b) == Ripple(LAMBDA i : Word(a, i) - Word(b, i), Len(a.words)).words
  IN IF ucmp(x, y) = 0 THEN Zero
     ELSE IF ucmp(x, y) > 0 THEN strip(BN(0, difference(x, y)))
     ELSE strip(BN(1, difference(y, x)))

iadd(x, y) ==
  IF x.neg = 1 /\ y.neg = 0 THEN normSign(Negated(usub(iabs(x), y)))
  ELSE IF x.neg = 0 /\ y.neg = 1 THEN normSign(usub(x, iabs(y)))
  ELSE BN(x.neg, uadd(x, y))

isub(x, y) ==
  IF y.neg = 1 THEN normSign(iadd(x, iabs(y)))
  ELSE IF x.neg = 1 THEN normSign([iadd(iabs(x), y) EXCEPT !.neg = 1])
  ELSE usub(x, y)

add(x, y) ==
  IF y.neg = 1 /\ x.neg = 0 THEN isub(x, iabs(y))
  ELSE IF y.neg = 0 /\ x.neg = 1 THEN isub(y, iabs(x))
  ELSE IF Len(x.words) > Len(y.words) THEN iadd(x, y) ELSE iadd(y, x)

\* Numbers of one word: the sign is set back after the operation, so a sum
\* of zero stays negative.
uaddn(x, n) ==
  LET r == Ripple(LAMBDA i : x.words[i] + (IF i = 1 THEN n ELSE 0), Len(x.words))
  IN BN(x.neg, WithCarry(r))

usubn(x, n) ==
  IF Len(x.words) = 1 /\ x.words[1] < n THEN BN(1, <<n - x.words[1]>>)
  ELSE strip(BN(0, Ripple(LAMBDA i : x.words[i] - (IF i = 1 THEN n ELSE 0),
                          Len(x.words)).words))

plusn(x, n) ==
  IF x.neg = 0 THEN uaddn(x, n)
  ELSE IF Len(x.words) = 1 /\ x.words[1] < n THEN BN(0, <<n - x.words[1]>>)
  ELSE [usubn(iabs(x), n) EXCEPT !.neg = 1]

minusn(x, n) ==
  IF x.neg = 1 THEN [uaddn(iabs(x), n) EXCEPT !.neg = 1] ELSE usubn(x, n)

iaddn(x, n) == IF n < 0 THEN minusn(x, -n) ELSE plusn(x, n)
isubn(x, n) == IF n < 0 THEN plusn(x, -n) ELSE minusn(x, n)

-----------------------------------------------------------------------------
\* Products.
SignOf(x, y) == IF x.neg = y.neg THEN 0 ELSE 1

\* Pairs of words whose product belongs to column k.
Column(x, y, k) ==
  {<<k + 1 - j, j>> : j \in Max({1, k + 1 - Len(x.words)}) .. Min({k, Len(y.words)})}

SumOver(pairs, f(_)) == MapThenSumSet(f, pairs)

smallMulTo(x, y) ==
  LET column(k) == SumOver(Column(x, y, k), LAMBDA p : x.words[p[1]] * y.words[p[2]])
      r == Ripple(column, Len(x.words) + Len(y.words) - 1)
  IN strip(BN(SignOf(x, y), WithCarry(r)))

\* Each product is split, so that no sum of a column exceeds two words; what
\* does is carried two columns on.
bigMulTo(x, y) ==
  LET add1(acc, p) ==
        LET r == x.words[p[1]] * y.words[p[2]]
            lo == (r % Base) + acc.rword
            n == acc.ncarry + r \div Base + lo \div Base
        IN [rword |-> lo % Base, ncarry |-> n % Base, hncarry |-> acc.hncarry + n \div Base]
      column[k \in 0 .. Len(x.words) + Len(y.words) - 1] ==
        IF k = 0 THEN [rword |-> 0, ncarry |-> 0, hncarry |-> 0, words |-> <<>>]
        ELSE LET b == column[k - 1]
                 s == FoldLeft(add1, [rword |-> b.ncarry, ncarry |-> b.hncarry, hncarry |-> 0],
                               SetToSortSeq(Column(x, y, k), LAMBDA p, q : p[2] < q[2]))
             IN [rword |-> 0, ncarry |-> s.ncarry, hncarry |-> s.hncarry,
                 words |-> Append(b.words, s.rword)]
      end == column[Len(x.words) + Len(y.words) - 1]
  IN strip(BN(SignOf(x, y), IF end.ncarry = 0 THEN end.words ELSE Append(end.words, end.ncarry)))

\* comb10MulTo computes with halves of words, so that sums of products fit
\* into 32 bits, and does not strip: its factors have COMB words.
HalfBase == 2 ^ (W \div 2)
Low(w) == w % HalfBase
High(w) == w \div HalfBase

CombColumn(x, y, k) ==
  LET sum(f(_, _)) == SumOver(Column(x, y, k), LAMBDA p : f(x.words[p[1]], y.words[p[2]]))
  IN [lo |-> sum(LAMBDA a, b : Low(a) * Low(b)),
      mid |-> sum(LAMBDA a, b : Low(a) * High(b)) + sum(LAMBDA a, b : High(a) * Low(b)),
      hi |-> sum(LAMBDA a, b : High(a) * High(b))]

CombWord(column, c) ==
  LET w == c + column.lo + Low(column.mid) * HalfBase
  IN [word |-> w % Base, c |-> column.hi + High(column.mid) + w \div Base]

comb10MulTo(x, y) ==
  LET step[k \in 0 .. 2 * COMB - 1] ==
        IF k = 0 THEN [words |-> <<>>, carry |-> 0]
        ELSE LET w == CombWord(CombColumn(x, y, k), step[k - 1].carry)
             IN [words |-> Append(step[k - 1].words, w.word), carry |-> w.c]
  IN BN(SignOf(x, y), WithCarry(step[2 * COMB - 1]))

\* The transform of N half words, for very long numbers.
Bits(n) == IF n = 0 THEN 0 ELSE CHOOSE b \in 1 .. n : 2 ^ (b - 1) <= n /\ n < 2 ^ b

guessLen13b(n, m) == 2 ^ (Bits(Max({m, n, 1}) \div 2) + 2)

\* Half words, lowest first, padded with zeros.
convert13b(x, N) ==
  [i \in 1 .. N |-> IF i % 2 = 1 THEN Low(Word(x, (i + 1) \div 2)) ELSE High(Word(x, i \div 2))]

\* The two transforms, the products and the transform back, which the code
\* computes in floating point and rounds: the cyclic convolution.
Convolution(a, b, n13) ==
  [i \in 1 .. n13 |-> SumOver(1 .. n13, LAMBDA j : a[j] * b[((i - j) % n13) + 1])]

normalize13b(ws) == Ripple(LAMBDA i : ws[2 * i] * HalfBase + ws[2 * i - 1], Len(ws) \div 2).words

mulp(x, y) ==
  LET n13 == 2 * guessLen13b(Len(x.words), Len(y.words))
      ws == normalize13b(Convolution(convert13b(x, n13), convert13b(y, n13), n13))
  IN strip(BN(SignOf(x, y), SubSeq(ws, 1, Len(x.words) + Len(y.words))))

mul(x, y) ==
  LET len == Len(x.words) + Len(y.words)
  IN IF Len(x.words) = COMB /\ Len(y.words) = COMB THEN comb10MulTo(x, y)
     ELSE IF len < SMALL THEN smallMulTo(x, y)
     ELSE IF len < BIG THEN bigMulTo(x, y)
     ELSE mulp(x, y)

sqr(x) == mul(x, x)

\* By a number of one word; zeros are not stripped.
imuln(x, n) == BN(x.neg, WithCarry(Ripple(LAMBDA i : x.words[i] * n, Len(x.words))))

-----------------------------------------------------------------------------
\* Shifts, bits, division and common divisors: the long division that guesses
\* each word of the quotient from the highest words, and the binary algorithms
\* for inverses.

\* Shift to the left: within the words, then by words.
iushln(x, bits) ==
  LET shifted == Ripple(LAMBDA i : x.words[i] * 2 ^ (bits % W), Len(x.words))
  IN strip(BN(x.neg, [i \in 1 .. bits \div W |-> 0] \o WithCarry(shifted)))

\* Shift to the right: the number left, and the bits shifted out as words.
iushrnExtended(x, bits) ==
  LET r == bits % W
      s == Min({bits \div W, Len(x.words)})
      kept == IF Len(x.words) > s THEN SubSeq(x.words, s + 1, Len(x.words)) ELSE <<0>>
      above(i) == IF i < Len(kept) THEN kept[i + 1] % 2 ^ r ELSE 0
      carry == kept[1] % 2 ^ r
  IN [left |-> strip(BN(x.neg, [i \in DOMAIN kept |-> above(i) * 2 ^ (W - r)
                                                        + kept[i] \div 2 ^ r])),
      out |-> SubSeq(x.words, 1, s) \o (IF carry = 0 THEN <<>> ELSE <<carry>>)]

iushrn(x, bits) == iushrnExtended(x, bits).left

testn(x, bit) == (Word(x, bit \div W + 1) \div 2 ^ (bit % W)) % 2 = 1

\* "Return only lowers bits of number": the highest word left is masked, be
\* it the word of the last bit or, in a shorter number, a lower one.
imaskn(x, bits) ==
  LET r == bits % W
      s == bits \div W + (IF r = 0 THEN 0 ELSE 1)
      words == SubSeq(x.words, 1, Min({s, Len(x.words)}))
  IN IF r = 0 THEN strip(BN(x.neg, words))
     ELSE strip(BN(x.neg, [words EXCEPT ![Len(words)] = @ % 2 ^ r]))

bitLength(x) == (Len(x.words) - 1) * W + Bits(Last(x.words))

toBitArray(x) ==
  [i \in 1 .. bitLength(x) |-> (x.words[(i - 1) \div W + 1] \div 2 ^ ((i - 1) % W)) % 2]

\* Trailing zeros of a word, and of a number.
wordZeroBits(w) == Max({b \in 0 .. W : w % 2 ^ b = 0})

zeroBits(x) ==
  IF isZero(x) THEN 0
  ELSE LET first == Min({i \in DOMAIN x.words : x.words[i] # 0})
       IN (first - 1) * W + wordZeroBits(x.words[first])

byteLength(x, byte) == (bitLength(x) + byte - 1) \div byte

\* Words combined bit by bit.
BitsOf(w) == {b \in 0 .. W - 1 : (w \div 2 ^ b) % 2 = 1}
OfBits(S) == MapThenSumSet(LAMBDA b : 2 ^ b, S)

Combined(x, y, n, f(_, _)) ==
  strip(BN(0, [i \in 1 .. n |-> OfBits(f(BitsOf(Word(x, i)), BitsOf(Word(y, i))))]))

ior(x, y) == Combined(x, y, Max({Len(x.words), Len(y.words)}), LAMBDA a, b : a \union b)
iand(x, y) == Combined(x, y, Min({Len(x.words), Len(y.words)}), LAMBDA a, b : a \cap b)
ixor(x, y) ==
  Combined(x, y, Max({Len(x.words), Len(y.words)}), LAMBDA a, b : (a \ b) \union (b \ a))

\* The lowest width bits turned over; words above them stay.
inotn(x, width) ==
  LET n == Max({Len(x.words), (width + W - 1) \div W})
      flipped(i) == LET bits == Min({W, width - (i - 1) * W})
                    IN IF bits <= 0 THEN Word(x, i)
                       ELSE (2 ^ bits - 1) - (Word(x, i) % 2 ^ bits)
  IN strip(BN(x.neg, [i \in 1 .. n |-> flipped(i)]))

setn(x, bit, on) ==
  LET n == Max({Len(x.words), bit \div W + 1})
      word(i) == IF i # bit \div W + 1 THEN Word(x, i)
                 ELSE OfBits(IF on THEN BitsOf(Word(x, i)) \union {bit % W}
                             ELSE BitsOf(Word(x, i)) \ {bit % W})
  IN strip(BN(x.neg, [i \in 1 .. n |-> word(i)]))

\* Adds 2^bit.
bincn(x, bit) ==
  LET s == bit \div W + 1
      q == 2 ^ (bit % W)
      padded == [i \in 1 .. s |-> IF i = s THEN q ELSE Word(x, i)]
  IN IF Len(x.words) < s THEN BN(x.neg, padded)
     ELSE BN(x.neg, WithCarry(Ripple(LAMBDA i : x.words[i] + (IF i = s THEN q ELSE 0),
                                     Len(x.words))))

toTwos(x, width) == IF x.neg = 1 THEN iaddn(inotn(iabs(x), width), 1) ELSE x
fromTwos(x, width) ==
  IF testn(x, width - 1) THEN neg(iaddn(inotn(x, width), 1)) ELSE x

\* To the power of a number that is not negative, from its lowest bit up.
pow(x, e) ==
  LET bits == toBitArray(e)
      first == Min({i \in DOMAIN bits : bits[i] = 1})
      square[i \in 1 .. Len(bits)] == IF i = 1 THEN x ELSE sqr(square[i - 1])
      product[i \in first .. Len(bits)] ==
        IF i = first THEN square[first]
        ELSE IF bits[i] = 1 THEN mul(product[i - 1], square[i]) ELSE product[i - 1]
  IN IF bits = <<>> THEN One ELSE product[Len(bits)]

-----------------------------------------------------------------------------
\* x - y * n * Base^shift; a difference below zero is turned over.
ishlnsubmul(x, y, n, shift) ==
  LET len == Max({Len(x.words), Len(y.words) + shift})
      r == Ripple(LAMBDA i : Word(x, i) - (IF i > shift THEN Word(y, i - shift) * n ELSE 0), len)
      turned == Ripple(LAMBDA i : -r.words[i], len)
  IN IF r.carry = 0 THEN strip(BN(x.neg, r.words)) ELSE strip(BN(1, turned.words))

RECURSIVE Corrected(_, _, _, _)

\* The guess qj is too large as long as the rest is negative.
Corrected(rest, y, qj, j) ==
  IF rest.neg = 0 THEN [rest |-> rest, qj |-> qj]
  ELSE Corrected(neg(ishlnsubmul(iabs(rest), y, 1, j)), y, qj - 1, j)

\* One word of the quotient, guessed from two words of the rest.
QuotientWord(a, y, j) ==
  LET high == Word(a, Len(y.words) + j + 1) * Base + Word(a, Len(y.words) + j)
      qj == Min({high \div Last(y.words), Base - 1})
  IN Corrected(ishlnsubmul(a, y, qj, j), y, qj, j)

\* Long division of numbers that are not negative, y of several words and not
\* above x: y is shifted so that its highest bit is set.
wordDiv(x, y) ==
  LET shift == W - Bits(Last(y.words))
      b == IF shift = 0 THEN y ELSE iushln(y, shift)
      a == IF shift = 0 THEN x ELSE iushln(x, shift)
      m == Len(a.words) - Len(b.words)
      diff == ishlnsubmul(a, b, 1, m)
      step[j \in 0 .. m] ==   \* words m .. j are known
        IF j = m THEN [a |-> IF diff.neg = 0 THEN diff ELSE a,
                       q |-> <<IF diff.neg = 0 THEN 1 ELSE 0>>]
        ELSE LET w == QuotientWord(step[j + 1].a, b, j)
             IN [a |-> w.rest, q |-> <<w.qj>> \o step[j + 1].q]
  IN [div |-> strip(BN(0, step[0].q)), mod |-> iushrn(strip(step[0].a), shift)]

\* By a number of one word.
modn(x, n) ==
  FoldRight(LAMBDA w, acc : ((Base % n) * acc + w) % n, x.words, 0)

idivn(x, n) ==
  LET step[i \in 1 .. Len(x.words) + 1] ==
        IF i = Len(x.words) + 1 THEN [words |-> <<>>, carry |-> 0]
        ELSE LET w == x.words[i] + step[i + 1].carry * Base
             IN [words |-> <<w \div n>> \o step[i + 1].words, carry |-> w % n]
  IN strip(BN(x.neg, step[1].words))

\* Numbers that are not negative.
udivmod(x, y) ==
  IF Len(y.words) > Len(x.words) \/ cmp(x, y) < 0 THEN [div |-> Zero, mod |-> x]
  ELSE IF Len(y.words) = 1
  THEN [div |-> idivn(x, y.words[1]), mod |-> initNumber(modn(x, y.words[1]))]
  ELSE wordDiv(x, y)

\* The quotient is rounded to zero and the rest has the sign of x, or is not
\* negative if it is asked for so.
divmod(x, y, positive) ==
  LET u == udivmod(iabs(x), iabs(y))
      rest == IF x.neg = 1 THEN neg(u.mod) ELSE u.mod
  IN IF isZero(x) THEN [div |-> Zero, mod |-> Zero]
     ELSE [div |-> IF x.neg # y.neg THEN neg(u.div) ELSE u.div,
           mod |-> IF ~positive \/ rest.neg = 0 THEN rest
                   ELSE IF y.neg = 0 THEN iadd(rest, y) ELSE isub(rest, y)]

div(x, y) == divmod(x, y, FALSE).div
mod(x, y) == divmod(x, y, FALSE).mod
umod(x, y) == divmod(x, y, TRUE).mod

\* The quotient rounded to the next number, if it is not negative.
divRound(x, y) ==
  LET dm == divmod(x, y, FALSE)
      rest == IF dm.div.neg = 1 THEN isub(dm.mod, y) ELSE dm.mod
      c == cmp(rest, iushrn(y, 1))
  IN IF isZero(dm.mod) \/ c < 0 \/ (isOdd(y) /\ c = 0) THEN dm.div
     ELSE IF dm.div.neg = 1 THEN isubn(dm.div, 1) ELSE iaddn(dm.div, 1)

-----------------------------------------------------------------------------
\* Zeros at the end of the lowest word.
LowZeros(x) == wordZeroBits(x.words[1])

RECURSIVE Halved(_, _, _, _, _)

\* n halvings of the pair A, B, made even first by adding yp and -xp.
Halved(A, B, n, xp, yp) ==
  IF n = 0 THEN <<A, B>>
  ELSE LET odd == isOdd(A) \/ isOdd(B)
       IN Halved(iushrn(IF odd THEN iadd(A, yp) ELSE A, 1),
                 iushrn(IF odd THEN isub(B, xp) ELSE B, 1), n - 1, xp, yp)

RECURSIVE egcdLoop(_, _, _, _, _, _, _, _)

\* Invariant: A * xp + B * yp = x and C * xp + D * yp = y.
egcdLoop(x, y, A, B, C, D, xp, yp) ==
  IF isZero(x) THEN [a |-> C, b |-> D, gcd |-> y]
  ELSE LET i == LowZeros(x)
           j == LowZeros(y)
           x1 == iushrn(x, i)
           y1 == iushrn(y, j)
           AB == Halved(A, B, i, xp, yp)
           CD == Halved(C, D, j, xp, yp)
       IN IF cmp(x1, y1) >= 0
          THEN egcdLoop(isub(x1, y1), y1, isub(AB[1], CD[1]), isub(AB[2], CD[2]),
                        CD[1], CD[2], xp, yp)
          ELSE egcdLoop(x1, isub(y1, x1), AB[1], AB[2],
                        isub(CD[1], AB[1]), isub(CD[2], AB[2]), xp, yp)

\* Common factors of two go first.
egcd(n, p) ==
  LET x == IF n.neg = 1 THEN umod(n, p) ELSE n
      g == IF isZero(x) THEN zeroBits(p) ELSE Min({zeroBits(x), zeroBits(p)})
      e == egcdLoop(iushrn(x, g), iushrn(p, g), One, Zero, Zero, One, iushrn(x, g), iushrn(p, g))
  IN [e EXCEPT !.gcd = iushln(@, g)]

RECURSIVE HalvedMod(_, _, _)

HalvedMod(A, n, p) ==
  IF n = 0 THEN A
  ELSE HalvedMod(iushrn(IF isOdd(A) THEN iadd(A, p) ELSE A, 1), n - 1, p)

RECURSIVE invmpLoop(_, _, _, _, _)

invmpLoop(a, b, x1, x2, p) ==
  IF ~(cmpn(a, 1) > 0 /\ cmpn(b, 1) > 0) THEN IF cmpn(a, 1) = 0 THEN x1 ELSE x2
  ELSE LET i == LowZeros(a)
           j == LowZeros(b)
           a1 == iushrn(a, i)
           b1 == iushrn(b, j)
           h1 == HalvedMod(x1, i, p)
           h2 == HalvedMod(x2, j, p)
       IN IF cmp(a1, b1) >= 0 THEN invmpLoop(isub(a1, b1), b1, isub(h1, h2), h2, p)
          ELSE invmpLoop(a1, isub(b1, a1), h1, isub(h2, h1), p)

\* The inverse in a prime field.
invmp(x, p) ==
  LET res == invmpLoop(IF x.neg = 1 THEN umod(x, p) ELSE x, p, One, Zero, p)
  IN IF cmpn(res, 0) < 0 THEN iadd(res, p) ELSE res

RECURSIVE gcdLoop(_, _)

gcdLoop(x, y) ==
  LET a == iushrn(x, zeroBits(x))
      b == iushrn(y, zeroBits(y))
  IN IF cmp(a, b) = 0 THEN b
     ELSE IF cmp(a, b) < 0 THEN gcdLoop(isub(b, a), a)
     ELSE IF cmpn(b, 1) = 0 THEN b
     ELSE gcdLoop(isub(a, b), b)

gcd(x, y) ==
  LET g == Min({zeroBits(x), zeroBits(y)})
  IN IF isZero(x) THEN iabs(y)
     ELSE IF isZero(y) THEN iabs(x)
     ELSE iushln(gcdLoop(iushrn(iabs(x), g), iushrn(iabs(y), g)), g)

invm(x, p) == umod(egcd(x, p).a, p)

-----------------------------------------------------------------------------
\* Reference: what the operations return for two integers, and what they are
\* to return, the same integers for every size of the words.
Abs(k) == IF k < 0 THEN -k ELSE k
Quotient(x, y) == (IF (x < 0) = (y < 0) THEN 1 ELSE -1) * (Abs(x) \div Abs(y))

\* An integer as a normal number.
RECURSIVE WordsOf(_)
WordsOf(k) == IF k < Base THEN <<k>> ELSE <<k % Base>> \o WordsOf(k \div Base)
OfInteger(k) == BN(IF k < 0 THEN 1 ELSE 0, WordsOf(Abs(k)))

BitSet(k) == {b \in 0 .. 20 : (Abs(k) \div 2 ^ b) % 2 = 1}

\* Numbers as results of x and y; b is a number of bits and n is below Base.
Results(x, y, b) ==
  LET X == OfInteger(x)
      Y == OfInteger(y)
      n == (Abs(y) % (Base - 1)) + 1
      e == egcd(iabs(X), iabs(Y))
  IN [add |-> add(X, Y), sub |-> isub(X, Y), mul |-> mul(X, Y), mulp |-> mulp(X, Y), sqr |-> sqr(X),
      imuln |-> imuln(X, n), neg |-> neg(X), addn |-> iaddn(X, n), subn |-> isubn(X, n),
      cmp |-> initNumber(cmp(X, Y)), cmpn |-> initNumber(cmpn(X, n)),
      shl |-> iushln(X, b), shr |-> iushrn(X, b), bincn |-> bincn(iabs(X), b),
      set |-> setn(iabs(X), b, TRUE), or |-> ior(X, Y), and |-> iand(X, Y), xor |-> ixor(X, Y),
      twos |-> fromTwos(toTwos(X, 16), 16), bits |-> initNumber(bitLength(X)),
      pow |-> pow(OfInteger(x % 5), OfInteger(Abs(y) % 6))]
     @@ IF y = 0 THEN << >>
        ELSE [div |-> div(X, Y), mod |-> mod(X, Y), umod |-> umod(X, Y), modn |-> initNumber(modn(X, n)),
              idivn |-> idivn(X, n), gt |-> IF gt(X, Y) THEN One ELSE Zero,
              inverse |-> IF egcd(iabs(X), iabs(Y)).gcd # One \/ y \in {-1, 1} THEN Zero
                          ELSE umod(mul(iabs(X), invm(iabs(X), iabs(Y))), Y),
              round |-> divRound(iabs(X), iabs(Y)), gcd |-> gcd(X, Y),
              bezout |-> isub(add(mul(e.a, iabs(X)), mul(e.b, iabs(Y))), e.gcd)]

RECURSIVE Gcd(_, _)
Gcd(x, y) == IF y = 0 THEN x ELSE Gcd(y, x % y)

Reference(x, y, b) ==
  LET n == (Abs(y) % (Base - 1)) + 1
      TwoTo(S) == MapThenSumSet(LAMBDA i : 2 ^ i, S)
      rest == x - y * Quotient(x, y)
  IN [add |-> x + y, sub |-> x - y, mul |-> x * y, mulp |-> x * y, sqr |-> x * x,
      imuln |-> x * n, neg |-> -x, addn |-> x + n, subn |-> x - n,
      cmp |-> Sign(x, y), cmpn |-> Sign(x, n),
      shl |-> x * 2 ^ b, shr |-> Quotient(x, 2 ^ b), bincn |-> Abs(x) + 2 ^ b,
      set |-> TwoTo(BitSet(x) \union {b}), or |-> TwoTo(BitSet(x) \union BitSet(y)),
      and |-> TwoTo(BitSet(x) \cap BitSet(y)),
      xor |-> TwoTo((BitSet(x) \union BitSet(y)) \ (BitSet(x) \cap BitSet(y))),
      twos |-> x, bits |-> Cardinality({i \in 0 .. 20 : 2 ^ i <= Abs(x)}),
      pow |-> IF Abs(y) % 6 = 0 THEN 1 ELSE (x % 5) ^ (Abs(y) % 6)]
     @@ IF y = 0 THEN << >>
        ELSE [div |-> Quotient(x, y), mod |-> rest, umod |-> x % Abs(y), modn |-> Abs(x) % n,
              idivn |-> Quotient(x, n), gt |-> IF x > y THEN 1 ELSE 0,
              inverse |-> IF Gcd(Abs(x), Abs(y)) = 1 /\ y \notin {-1, 1} THEN 1 ELSE 0,
              round |-> (2 * Abs(x) + Abs(y)) \div (2 * Abs(y)),
              gcd |-> Gcd(Abs(x), Abs(y)), bezout |-> 0]

\* Adding a small number to its negative leaves a zero with a sign.
Exact(results, reference) ==
  \A op \in DOMAIN reference :
     Value(results[op]) = reference[op] /\ (op = "addn" \/ Normal(results[op]))
=============================================================================
