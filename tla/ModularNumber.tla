---------------------------- MODULE ModularNumber ----------------------------
(***************************************************************************)
(* Arithmetic modulo m: the reduction contexts of class BN (Red, Mont) and  *)
(* the pseudo-Mersenne primes, whose numbers are reduced by adding the high *)
(* part times K to the low part.  A context is a record of the modulus and  *)
(* the name of the prime, or "none".                                        *)
(*                                                                          *)
(* secp256k1's prime has 256 bits, 9 words and 22 bits of a tenth, and      *)
(* K = 0x40 * 2^26 + 0x3d1; here LIMBS words and TOP bits, and              *)
(* K = K1 * Base + K0.                                                      *)
(***************************************************************************)
EXTENDS BigNumber

CONSTANTS LIMBS, TOP, K0, K1,
          WINDOW   \* bits that a power takes at a time (4)

N256 == LIMBS * W + TOP
K256 == BN(0, <<K0, K1>>)
P256 == isub(iushln(One, N256), K256)

\* The two parts of a number for the prime of secp256k1.  The low one may have
\* zeros at its end.
SplitK256(x) ==
  LET mask == 2 ^ TOP
      len == Len(x.words)
      high == [i \in 1 .. len - LIMBS |->
                 (Word(x, LIMBS + i + 1) % mask) * 2 ^ (W - TOP) + Word(x, LIMBS + i) \div mask]
  IN IF len <= LIMBS THEN [high |-> Zero, low |-> x]
     ELSE [high |-> BN(0, IF Last(high) = 0 /\ len > LIMBS + 1 THEN Front(high) ELSE high),
           low |-> BN(0, SubSeq(x.words, 1, LIMBS) \o <<x.words[LIMBS + 1] % mask>>)]

imulK256(x) ==
  LET words == Ripple(LAMBDA i : Word(x, i) * K0 + Word(x, i - 1) * K1, Len(x.words) + 2).words
  IN BN(0, IF Last(words) # 0 THEN words
           ELSE IF Last(Front(words)) # 0 THEN Front(words) ELSE Front(Front(words)))

\* For other primes of n bits, P = 2^n - k; k has one word for P25519.
SplitPlain(x, n) ==
  LET parts == iushrnExtended(x, n)
  IN [high |-> parts.left, low |-> BN(0, IF parts.out = <<>> THEN <<0>> ELSE parts.out)]

imulKPlain(x, k) == mul(x, k)
imulK25519(x, k) ==
  BN(0, WithCarry(Ripple(LAMBDA i : x.words[i] * k.words[1], Len(x.words))))

RECURSIVE ReduceLoop(_, _, _)

ReduceLoop(x, p, prime) ==
  LET n == bitLength(p)
      k == isub(iushln(One, n), p)
      parts == IF prime = "k256" THEN SplitK256(x) ELSE SplitPlain(x, n)
      r == iadd(CASE prime = "k256"   -> imulK256(parts.high)
                  [] prime = "p25519" -> imulK25519(parts.high, k)
                  [] OTHER            -> imulKPlain(parts.high, k), parts.low)
  IN IF bitLength(r) > n THEN ReduceLoop(r, p, prime) ELSE r

\* Below P^2 one subtraction at the end is enough.
ireduce(x, p, prime) ==
  LET r == ReduceLoop(x, p, prime)
      c == IF bitLength(r) < bitLength(p) THEN -1 ELSE ucmp(r, p)
  IN IF c = 0 THEN Zero ELSE IF c > 0 THEN isub(r, p) ELSE strip(r)

Red(m, prime) == [m |-> m, prime |-> prime]

imod(ctx, x) ==
  IF ctx.prime = "none" THEN umod(x, ctx.m) ELSE ireduce(x, ctx.m, ctx.prime)

redNeg(ctx, x) == IF isZero(x) THEN x ELSE isub(ctx.m, x)

redAdd(ctx, x, y) ==
  LET r == add(x, y) IN IF cmp(r, ctx.m) >= 0 THEN isub(r, ctx.m) ELSE r

redSub(ctx, x, y) ==
  LET r == isub(x, y) IN IF cmpn(r, 0) < 0 THEN iadd(r, ctx.m) ELSE r

redShl(ctx, x, bits) == imod(ctx, iushln(x, bits))
redMul(ctx, x, y) == imod(ctx, mul(x, y))
redSqr(ctx, x) == redMul(ctx, x, x)

\* invmp may return a number below -m.
redInvm(ctx, x) ==
  LET inv == invmp(x, ctx.m)
  IN IF inv.neg = 1 THEN redNeg(ctx, imod(ctx, iabs(inv))) ELSE imod(ctx, inv)

\* One bit of the exponent: bits are collected into windows that begin with a
\* one, and squared for one by one.
PowerBit(ctx, wnd, acc, bit, last) ==
  LET res == IF acc.started THEN redSqr(ctx, acc.res) ELSE acc.res
      current == 2 * acc.current + bit
      len == acc.currentLen + 1
  IN IF bit = 0 /\ acc.current = 0 THEN [acc EXCEPT !.res = res, !.currentLen = 0]
     ELSE IF len # WINDOW /\ ~last
     THEN [acc EXCEPT !.res = res, !.current = current, !.currentLen = len]
     ELSE [started |-> TRUE, res |-> redMul(ctx, res, wnd[current]), current |-> 0,
           currentLen |-> 0]

redPow(ctx, x, e) ==
  LET bits == Reverse(toBitArray(e))
      wnd[i \in 0 .. 2 ^ WINDOW - 1] ==
        IF i = 0 THEN One ELSE IF i = 1 THEN x ELSE redMul(ctx, wnd[i - 1], x)
      step[i \in 0 .. Len(bits)] ==
        IF i = 0 THEN [started |-> FALSE, res |-> One, current |-> 0, currentLen |-> 0]
        ELSE PowerBit(ctx, wnd, step[i - 1], bits[i], i = Len(bits))
  IN IF isZero(e) THEN One ELSE IF cmpn(e, 1) = 0 THEN x ELSE step[Len(bits)].res

RECURSIVE NonResidue(_, _, _), OrderLog(_, _), TonelliLoop(_, _, _, _, _), Squared(_, _, _)

NonResidue(ctx, z, lpow) ==
  IF redPow(ctx, z, lpow) = redNeg(ctx, One) THEN z
  ELSE NonResidue(ctx, redAdd(ctx, z, redNeg(ctx, One)), lpow)

\* Squarings that take t to one.
OrderLog(ctx, t) == IF t = One THEN 0 ELSE 1 + OrderLog(ctx, redSqr(ctx, t))

Squared(ctx, x, n) == IF n = 0 THEN x ELSE Squared(ctx, redSqr(ctx, x), n - 1)

TonelliLoop(ctx, c, r, t, m) ==
  IF t = One THEN r
  ELSE LET i == OrderLog(ctx, t)
           b == redPow(ctx, c, iushln(One, m - i - 1))
       IN TonelliLoop(ctx, redSqr(ctx, b), redMul(ctx, r, b),
                      redMul(ctx, t, redSqr(ctx, b)), i)

\* Of a quadratic residue modulo an odd prime.
redSqrt(ctx, x) ==
  LET m1 == isubn(ctx.m, 1)
      s == zeroBits(m1)
      q == iushrn(m1, s)
      bits == bitLength(ctx.m)
      z == NonResidue(ctx, umod(initNumber(2 * bits * bits), ctx.m), iushrn(m1, 1))
  IN IF isZero(x) THEN x
     ELSE IF andln(ctx.m, 4) = 3 THEN redPow(ctx, x, iushrn(add(ctx.m, One), 2))
     ELSE TonelliLoop(ctx, redPow(ctx, z, q), redPow(ctx, x, iushrn(iaddn(q, 1), 1)),
                      redPow(ctx, x, q), s)

-----------------------------------------------------------------------------
\* Montgomery's form: x stands for x * r modulo m, where r is a power of the
\* base above the odd modulus.
Mont(m) ==
  LET shift == ((bitLength(m) + W - 1) \div W) * W
      r == iushln(One, shift)
      rinv == invmp(r, m)
  IN [m |-> m, prime |-> "none", shift |-> shift, r |-> r,
      r2 |-> umod(sqr(r), m), rinv |-> rinv,
      minv |-> isub(r, umod(div(isubn(mul(rinv, r), 1), m), r))]

montConvertTo(ctx, x) == imod(ctx, iushln(x, ctx.shift))
montConvertFrom(ctx, x) == imod(ctx, mul(x, ctx.rinv))

montMul(ctx, x, y) ==
  LET t == mul(x, y)
      c == mul(imaskn(mul(imaskn(t, ctx.shift), ctx.minv), ctx.shift), ctx.m)
      u == iushrn(isub(t, c), ctx.shift)
  IN IF isZero(x) \/ isZero(y) THEN Zero
     ELSE IF cmp(u, ctx.m) >= 0 THEN isub(u, ctx.m)
     ELSE IF cmpn(u, 0) < 0 THEN iadd(u, ctx.m) ELSE u

montInvm(ctx, x) == imod(ctx, mul(invmp(x, ctx.m), ctx.r2))
=============================================================================
