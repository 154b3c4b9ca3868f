---------------------------- MODULE CurvePoints -----------------------------
(***************************************************************************)
(* Points of the curve y^2 = x^3 + A*x + B modulo P (elliptic's short       *)
(* curves, which the signing library is built on), in affine and in         *)
(* Jacobian coordinates, and the ways a point is multiplied: from a table   *)
(* of doubles, by windows of a non-adjacent form, by a joint sparse form,   *)
(* and split in two by the endomorphism of curves with A = 0.  Numbers are  *)
(* integers here; how the library computes with them is in BigNumber and    *)
(* ModularNumber.                                                           *)
(***************************************************************************)
EXTENDS Integers, Sequences, SequencesExt, FiniteSetsExt

CONSTANTS
  P,             \* prime of the field
  A, B,          \* the curve
  GX, GY,        \* its base point
  N,             \* order of the base point, a prime
  STEP, WINDOW   \* of the base point's tables (4 and 8)

ASSUME CurveAssumption ==
  /\ P % 4 = 3 /\ N % 4 = 3   \* roots are powers
  /\ GX \in 0 .. P - 1 /\ GY \in 0 .. P - 1
  /\ (GY * GY - GX * GX * GX - A * GX - B) % P = 0
  /\ STEP \in Nat \ {0} /\ WINDOW \in Nat \ {0}

Power(x, n, m) ==
  LET pow[k \in 0 .. n] ==
        IF k = 0 THEN 1
        ELSE LET half == pow[k \div 2]
             IN (((half * half) % m) * (IF k % 2 = 1 THEN x ELSE 1)) % m
  IN pow[n]

Inverses(m) == [x \in 1 .. m - 1 |-> Power(x, m - 2, m)]
InverseP == Inverses(P)
InverseN == Inverses(N)
Root(x, m) == Power(x, (m + 1) \div 4, m)   \* if there is one

Times(f(_), x, n) == FoldLeft(LAMBDA r, i : f(r), x, [i \in 1 .. n |-> i])

Shr(k, i) == k \div 2 ^ i
BitLength(k) == CHOOSE n \in 0 .. 24 : k < 2 ^ n /\ (n = 0 \/ 2 ^ (n - 1) <= k)

-----------------------------------------------------------------------------
\* Signed forms of a scalar, the lowest digit first.

\* Mutant of getNAF: the digit of an odd remainder is the remainder.
getNAFUnsigned(num, w) ==
  LET ws == 2 ^ w
      naf[k \in 0 .. num] == IF k < 1 THEN <<>> ELSE <<k % ws>> \o naf[Shr(k, 1)]
  IN naf[num]

\* Digits are odd or zero.
getNAF(num, w) ==
  LET ws == 2 ^ (w + 1)
      half == ws \div 2
      digit(k) == IF k % 2 = 0 THEN 0 ELSE IF k % ws > half - 1 THEN half - (k % ws) ELSE k % ws
      naf[k \in 0 .. num + ws] ==
        LET rest == k - digit(k)
            shift == IF rest # 0 /\ rest % ws = 0 THEN w + 1 ELSE 1
        IN IF k < 1 THEN <<>>
           ELSE <<digit(k)>> \o [i \in 1 .. shift - 1 |-> 0] \o naf[Shr(rest, shift)]
  IN naf[num]

\* Pairs of digits, of two scalars.
getJSF(n1, n2) ==
  LET modulo4(k, d) == IF (k + d) % 4 = 3 THEN -1 ELSE (k + d) % 4
      digit(k, d, m, other) ==
        IF m % 2 = 0 THEN 0
        ELSE IF (k + d) % 8 \in {3, 5} /\ other = 2 THEN -m ELSE m
      carry(d, u) == IF 2 * d = u + 1 THEN 1 - d ELSE d
      jsf[i \in 0 .. 24, d \in {0, 1} \X {0, 1}] ==
        LET k1 == Shr(n1, i)
            k2 == Shr(n2, i)
            m1 == modulo4(k1, d[1])
            m2 == modulo4(k2, d[2])
            u1 == digit(k1, d[1], m1, m2)
            u2 == digit(k2, d[2], m2, m1)
        IN IF k1 + d[1] <= 0 /\ k2 + d[2] <= 0 THEN <<>>
           ELSE <<<<u1, u2>>>> \o jsf[i + 1, <<carry(d[1], u1), carry(d[2], u2)>>]
  IN jsf[0, <<0, 0>>]

-----------------------------------------------------------------------------
\* Affine points.  A point may have tables of its multiples.

NoTables == [naf |-> <<>>, doubles |-> <<>>]

Point(x, y) == [type |-> "affine", inf |-> FALSE, x |-> x % P, y |-> y % P, tables |-> NoTables]
Infinity == [Point(0, 0) EXCEPT !.inf = TRUE]
NoPoint == [Point(0, 0) EXCEPT !.x = -1]   \* an error was thrown

OnCurve(x, y) == (y * y - x * x * x - A * x - B) % P = 0
validate(p) == p.inf \/ OnCurve(p.x, p.y)

eq(p, q) == p.inf = q.inf /\ (p.inf \/ (p.x = q.x /\ p.y = q.y))

neg(p) == IF p.inf THEN p ELSE Point(p.x, -p.y)

MapTables(f(_), t) ==
  [naf |-> [i \in DOMAIN t.naf |-> f(t.naf[i])], doubles |-> [i \in DOMAIN t.doubles |-> f(t.doubles[i])]]

negWithTables(p) == IF p.inf THEN p ELSE [neg(p) EXCEPT !.tables = MapTables(neg, p.tables)]

\* The point on the line of slope c through p and one with abscissa x2.
Chord(c, p, x2) ==
  LET nx == c * c - p.x - x2
  IN Point(nx, (c * ((p.x - nx) % P)) - p.y)

dbl(p) ==
  IF p.inf THEN p
  ELSE IF p.y = 0 THEN Infinity
  ELSE Chord(((3 * p.x * p.x + A) * InverseP[(2 * p.y) % P]) % P, p, p.x)

add(p, q) ==
  IF p.inf THEN q
  ELSE IF q.inf THEN p
  ELSE IF eq(p, q) THEN dbl(p)
  ELSE IF p.x = q.x THEN Infinity
  ELSE Chord(((p.y - q.y) * InverseP[(p.x - q.x) % P]) % P, p, q.x)

pointFromX(x, odd) ==
  LET x0 == x % P
      y == Root((x0 * x0 * x0 + A * x0 + B) % P, P)
  IN IF ~OnCurve(x0, y) THEN NoPoint ELSE Point(x0, IF odd # (y % 2 = 1) THEN -y ELSE y)

-----------------------------------------------------------------------------
\* Jacobian points: x is X / Z^2 and y is Y / Z^3.

JPoint(x, y, z) == [type |-> "jacobian", x |-> x % P, y |-> y % P, z |-> z % P, zOne |-> FALSE]
JInfinity == JPoint(1, 1, 0)
isInfinity(p) == p.z = 0

toJ(p) == IF p.inf THEN JInfinity ELSE [JPoint(p.x, p.y, 1) EXCEPT !.zOne = TRUE]

toP(p) ==
  LET zinv == InverseP[p.z]
      zinv2 == (zinv * zinv) % P
  IN IF isInfinity(p) THEN Infinity ELSE Point(p.x * zinv2, ((p.y * zinv2) % P) * zinv)

jneg(p) == [p EXCEPT !.y = (-@) % P]

\* Doublings: for A = 0, for A = -3, and for any A.
_zeroDbl(p) ==
  LET c == (p.y * p.y * p.y) % P
      s == (4 * p.x * ((p.y * p.y) % P)) % P
      m == (3 * p.x * p.x) % P
      t == (m * m - 2 * s) % P
  IN JPoint(t, m * (s - t) - 8 * c * p.y, 2 * p.y * (IF p.zOne THEN 1 ELSE p.z))

_threeDbl(p) ==
  LET gamma == (p.y * p.y) % P
      delta == (p.z * p.z) % P
      beta4 == (4 * p.x * gamma) % P
      alpha == (IF p.zOne THEN 3 * p.x * p.x + A ELSE 3 * (p.x - delta) * (p.x + delta)) % P
      nx == (alpha * alpha - 2 * beta4) % P
  IN JPoint(nx, alpha * (beta4 - nx) - 8 * gamma * gamma,
            IF p.zOne THEN 2 * p.y ELSE (p.y + p.z) * (p.y + p.z) - gamma - delta)

_dbl(p) ==
  LET z2 == (p.z * p.z) % P
      y2 == (p.y * p.y) % P
      c == (3 * p.x * p.x + A * ((z2 * z2) % P)) % P
      t == (4 * p.x * y2) % P
      nx == (c * c - 2 * t) % P
  IN JPoint(nx, c * (t - nx) - 8 * y2 * y2, 2 * p.y * p.z)

jdbl(p) ==
  IF isInfinity(p) THEN p
  ELSE IF A = 0 THEN _zeroDbl(p) ELSE IF (A + 3) % P = 0 THEN _threeDbl(p) ELSE _dbl(p)

\* Several doublings of which only the last computes y, and each z^4 comes
\* from the one before.
DblpAnyA(p, pow) ==
  LET z2 == (p.z * p.z) % P
      state[i \in 0 .. pow] ==
        IF i = 0 THEN [x |-> p.x, yd |-> (2 * p.y) % P, z |-> p.z, z4 |-> (z2 * z2) % P]
        ELSE LET s == state[i - 1]
                 yd2 == (s.yd * s.yd) % P
                 yd4 == (yd2 * yd2) % P
                 c == (3 * s.x * s.x + A * s.z4) % P
                 t == (s.x * yd2) % P
                 nx == (c * c - 2 * t) % P
             IN [x |-> nx, yd |-> (2 * c * (t - nx) - yd4) % P, z |-> (s.yd * s.z) % P,
                 z4 |-> (s.z4 * yd4) % P]
  IN JPoint(state[pow].x, state[pow].yd * ((P + 1) \div 2), state[pow].z)

dblp(p, pow) ==
  IF pow = 0 \/ isInfinity(p) THEN p
  ELSE IF A = 0 \/ (A + 3) % P = 0 THEN Times(jdbl, p, pow) ELSE DblpAnyA(p, pow)

\* The sum of p and a point whose coordinates are brought to the same z.
JSum(p, u1, u2, s1, s2, z) ==
  LET h == (u1 - u2) % P
      r == (s1 - s2) % P
      h2 == (h * h) % P
      h3 == (h2 * h) % P
      v == (u1 * h2) % P
      nx == (r * r + h3 - 2 * v) % P
  IN IF h # 0 THEN JPoint(nx, r * (v - nx) - s1 * h3, ((z * h) % P))
     ELSE IF r # 0 THEN JInfinity ELSE jdbl(p)

mixedAdd(p, q) ==
  LET z2 == (p.z * p.z) % P
  IN IF isInfinity(p) THEN toJ(q)
     ELSE IF q.inf THEN p
     ELSE JSum(p, p.x, q.x * z2, p.y, ((q.y * z2) % P) * p.z, p.z)

jadd(p, q) ==
  LET pz2 == (q.z * q.z) % P
      z2 == (p.z * p.z) % P
  IN IF isInfinity(p) THEN q
     ELSE IF isInfinity(q) THEN p
     ELSE JSum(p, p.x * pz2, q.x * z2, ((p.y * pz2) % P) * q.z, ((q.y * z2) % P) * p.z, p.z * q.z)

\* Three times p.
trpl(p) ==
  LET xx == (p.x * p.x) % P
      yy == (p.y * p.y) % P
      zz == (p.z * p.z) % P
      m == (3 * xx) % P
      mm == (m * m) % P
      e == (6 * ((p.x + yy) * (p.x + yy) - xx - yy * yy) - mm) % P
      ee == (e * e) % P
      t == (16 * yy * yy) % P
      u == ((m + e) * (m + e) - mm - ee - t) % P
  IN IF A # 0 THEN jadd(jdbl(p), p)
     ELSE JPoint(4 * (p.x * ee - 4 * ((yy * u) % P)), 8 * p.y * ((u * (t - u) - e * ee) % P),
                 (p.z + e) * (p.z + e) - zz - ee)

jeq(p, q) ==
  LET z2 == (p.z * p.z) % P
      pz2 == (q.z * q.z) % P
  IN /\ (p.x * pz2 - q.x * z2) % P = 0
     /\ (p.y * ((pz2 * q.z) % P) - q.y * ((z2 * p.z) % P)) % P = 0

\* Whether the abscissa of p is x modulo the order of the group: x, or x and
\* several times that order if this is a number of the field.
eqXToP(p, x) ==
  \E i \in 0 .. P \div N :
     /\ i = 0 \/ x + i * N < P
     /\ p.x = ((x + i * N) * ((p.z * p.z) % P)) % P

-----------------------------------------------------------------------------
\* Multiples of points.

\* Odd multiples p, 3p, 5p, ..., one less than 2^w of them.
OddMultiples(p, w, plus(_, _), double(_)) ==
  LET twice == double(p)
  IN Times(LAMBDA res : Append(res, plus(Last(res), twice)), <<p>>, 2 ^ w - 2)

_getNAFPoints(p, w) == IF p.tables.naf # <<>> THEN p.tables.naf ELSE OddMultiples(p, w, add, dbl)

\* Every STEP-th double.
_getDoubles(p, power) ==
  LET NextDouble(doubles) == Append(doubles, Times(dbl, Last(doubles), STEP))
  IN Times(NextDouble, <<p>>, (power + STEP - 1) \div STEP)

precompute(p, power) ==
  [p EXCEPT !.tables = [naf |-> _getNAFPoints(p, WINDOW), doubles |-> _getDoubles(p, power)]]

_hasDoubles(p, k) == Len(p.tables.doubles) >= (BitLength(k) + STEP) \div STEP /\ p.tables.doubles # <<>>

\* From the table of doubles: all multiples whose window of digits is i or
\* more are in the accumulator i times.
_fixedNafMul(p, k) ==
  LET naf == getNAF(k, 1)
      Digit(j) == IF j \in DOMAIN naf THEN naf[j] ELSE 0
      repr == [j \in 1 .. (Len(naf) + STEP - 1) \div STEP |->
                 FoldLeft(LAMBDA w, t : 2 * w + Digit((j - 1) * STEP + t), 0,
                          [t \in 1 .. STEP |-> STEP + 1 - t])]
      I == (2 ^ (STEP + 1) - (IF STEP % 2 = 0 THEN 2 ELSE 1)) \div 3
      Window(b, i) ==
        FoldLeftDomain(LAMBDA acc, j :
                         IF repr[j] = i THEN mixedAdd(acc, p.tables.doubles[j])
                         ELSE IF repr[j] = -i THEN mixedAdd(acc, neg(p.tables.doubles[j]))
                         ELSE acc, b, repr)
      step(sum, i) == LET b == Window(sum.b, I + 1 - i) IN [a |-> jadd(sum.a, b), b |-> b]
  IN toP(FoldLeft(step, [a |-> JInfinity, b |-> JInfinity], [i \in 1 .. I |-> i]).a)

\* Adds the point of a digit.
AddDigit(acc, points, z) ==
  LET p == points[((IF z > 0 THEN z ELSE -z) - 1) \div 2 + 1]
  IN IF z = 0 THEN acc
     ELSE IF p.type = "affine" THEN mixedAdd(acc, IF z > 0 THEN p ELSE neg(p))
     ELSE jadd(acc, IF z > 0 THEN p ELSE jneg(p))

\* A sum of terms, each a form and the points of its digits, from the highest
\* digits down: zeros in all forms are doubled past at once.
Term(digits, points) == [digits |-> digits, points |-> points]

Doubled(s) == dblp(s.acc, s.k)

Horner(terms) ==
  LET max == Max({Len(terms[j].digits) : j \in DOMAIN terms})
      digit(j, i) == IF i <= Len(terms[j].digits) THEN terms[j].digits[i] ELSE 0
      step(s, i) ==
        IF \A j \in DOMAIN terms : digit(j, i) = 0 THEN [s EXCEPT !.k = @ + 1]
        ELSE [acc |-> FoldLeftDomain(LAMBDA acc, j : AddDigit(acc, terms[j].points, digit(j, i)),
                                     dblp(s.acc, s.k + 1), terms),
              k |-> 0]
  IN Doubled(FoldLeft(step, [acc |-> JInfinity, k |-> 0], [i \in 1 .. max |-> max + 1 - i]))

HasTable(p) == p.tables.naf # <<>>

\* A window of four, or the table's.
_wnafMul(p, k) ==
  IF p.type = "affine"
  THEN toP(Horner(<<Term(getNAF(k, IF HasTable(p) THEN WINDOW ELSE 4), _getNAFPoints(p, 4))>>))
  ELSE Horner(<<Term(getNAF(k, 4), OddMultiples(p, 4, jadd, jdbl))>>)

\* The combinations of two points, in the order of their digits 1, 3, 5 and 7.
\* Those of points with the same or opposite ordinates may be affine.
Comb(p, q) ==
  <<p,
    IF p.y = q.y THEN add(p, q) ELSE mixedAdd(toJ(p), q),
    IF p.y # q.y /\ p.y = (-q.y) % P THEN add(p, neg(q)) ELSE mixedAdd(toJ(p), neg(q)),
    q>>

CombDigit == << <<-3, -1, -5>>, <<-7, 0, 7>>, <<5, 1, 3>> >>

\* Multiples of two points: by a joint form, unless one has a table.
PairTerms(p, k, q, l) ==
  LET jsf == getJSF(k, l)
      SingleForm(r, m) == Term(getNAF(m, IF HasTable(r) THEN WINDOW ELSE 1), _getNAFPoints(r, 1))
  IN IF HasTable(p) \/ HasTable(q) THEN <<SingleForm(p, k), SingleForm(q, l)>>
     ELSE <<Term([i \in DOMAIN jsf |-> CombDigit[jsf[i][1] + 2][jsf[i][2] + 2]], Comb(p, q))>>

_wnafMulAdd(points, coeffs) ==
  Horner(FlattenSeq([i \in 1 .. Len(points) \div 2 |->
           PairTerms(points[2 * i - 1], coeffs[2 * i - 1], points[2 * i], coeffs[2 * i])]))

-----------------------------------------------------------------------------
\* The endomorphism of curves with A = 0: lambda * (x, y) = (beta * x, y).

HasEndomorphism == A = 0 /\ P % 3 = 1

\* The roots of x^2 + x + 1.
_getEndoRoots(m) ==
  LET tinv == (m + 1) \div 2
      s == (Root(m - 3, m) * tinv) % m
  IN <<(s - tinv) % m, (m - tinv - s) % m>>

BetaRoot == Min(ToSet(_getEndoRoots(P)))

G == precompute(Point(GX, GY), BitLength(N) + 1)

LambdaRoot ==
  LET roots == _getEndoRoots(N)
  IN IF _fixedNafMul(G, roots[1]).x = (GX * BetaRoot) % P THEN roots[1] ELSE roots[2]

\* Two short vectors (a, b) with a + b * lambda = 0, from the remainders of N
\* and lambda: the first one below the root of N, and of the one before it and
\* the one two steps later the shorter.
_getEndoBasis(lambda) ==
  LET aprxSqrt == Shr(N, BitLength(N) \div 2)
      euclid[v \in 0 .. N, u \in 0 .. N, x2 \in -N .. N, x1 \in -N .. N] ==
        IF u = 0 THEN <<>>
        ELSE LET r == v % u
                 x == x2 - (v \div u) * x1
             IN <<[a |-> -r, b |-> x]>> \o euclid[u, r, x1, x]
      vectors == <<[a |-> -lambda, b |-> 1]>> \o euclid[N, lambda, 0, 1]
      first == Min({i \in 2 .. Len(vectors) : -vectors[i].a < aprxSqrt})
      last == Min({first + 2, Len(vectors)})
      Length(w) == w.a * w.a + w.b * w.b
      Normalized(w) == IF w.a < 0 THEN [a |-> -w.a, b |-> -w.b] ELSE w
  IN <<Normalized(vectors[first]),
       Normalized(vectors[IF Length(vectors[last]) >= Length(vectors[first]) THEN first - 1 ELSE last])>>

Basis == _getEndoBasis(LambdaRoot)

\* The nearest quotient; that of a negative number is cut off.
divRoundN(a) ==
  IF a < 0 THEN -((-a) \div N)
  ELSE IF (a % N) <= Shr(N, 1) THEN a \div N ELSE a \div N + 1

\* k as k1 + k2 * lambda.
SplitBy(basis, k) ==
  LET c1 == divRoundN(basis[2].b * k)
      c2 == divRoundN(-basis[1].b * k)
  IN [k1 |-> k - c1 * basis[1].a - c2 * basis[2].a,
      k2 |-> -(c1 * basis[1].b + c2 * basis[2].b)]

_endoSplit(k) == SplitBy(Basis, k)

_getBeta(p) ==
  LET endoMul(q) == Point(q.x * BetaRoot, q.y)
  IN [endoMul(p) EXCEPT !.tables = MapTables(endoMul, p.tables)]

\* Each point and its image, with the two parts of its scalar.
_endoWnafMulAdd(points, coeffs) ==
  LET Abs(k) == IF k < 0 THEN -k ELSE k
      signed(p, k) == IF k < 0 THEN negWithTables(p) ELSE p
      terms(p, split) == PairTerms(signed(p, split.k1), Abs(split.k1),
                                   signed(_getBeta(p), split.k2), Abs(split.k2))
  IN Horner(FlattenSeq([i \in DOMAIN points |-> terms(points[i], _endoSplit(coeffs[i]))]))

jmulAdd(p, k1, q, k2) ==
  IF HasEndomorphism THEN _endoWnafMulAdd(<<p, q>>, <<k1, k2>>) ELSE _wnafMulAdd(<<p, q>>, <<k1, k2>>)

mulAdd(p, k1, q, k2) == toP(jmulAdd(p, k1, q, k2))

mul(p, k) ==
  IF _hasDoubles(p, k) THEN _fixedNafMul(p, k)
  ELSE IF HasEndomorphism THEN toP(_endoWnafMulAdd(<<p>>, <<k>>))
  ELSE _wnafMul(p, k)
=============================================================================
