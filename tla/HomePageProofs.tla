-------------------------- MODULE HomePageProofs ---------------------------
(***************************************************************************)
(* ChartSound and ChainsShown for any blocks, numbers, forks, limits,      *)
(* orders of import and number of visits.                                  *)
(*                                                                         *)
(* Between two calls of addBlocks the chart satisfies ChartInv: each block *)
(* of rawData has its object in one column of the grid, at its row, where  *)
(* no other object of that number is.  While a call adds blocks the objects *)
(* of the new ones are missing (Adding, counted by blocks added), and while *)
(* it places them they come back one by one (PlacedKeeps).  It works       *)
(* because a call has no more blocks than the chart keeps and none twice   *)
(* (Buffer): so a block that is evicted meanwhile is an old one, and drawn. *)
(*                                                                         *)
(* The recursive functions of the model are taken apart by ValuesExist,    *)
(* which says that such a recursion has a value, and by Reached, induction *)
(* up to a number over a set.                                              *)
(*                                                                         *)
(* ChainsShown follows from what the chart has of its blocks: each block's *)
(* place in the order of arrival is a rank above its parent's, so lineages *)
(* and weights are well defined (RecursionHasValue); what is added up in   *)
(* that order is the weight (TotalIsWeight); a pass the other way meets    *)
(* every ancestor after its child (Reaches).                               *)
(***************************************************************************)
EXTENDS HomePage, FiniteSetTheorems, SequenceTheorems, TLAPS

-----------------------------------------------------------------------------
\* Recursion over the numbers up to N by functions F[n] has a value.
Values(S, base, F, n, h) ==
  h \in [0 .. n -> S] /\ h[0] = base /\ \A m \in 1 .. n : h[m] = F[m][h[m - 1]]

LEMMA OneMoreValue ==
  ASSUME NEW S, NEW base \in S, NEW N \in Nat, NEW F \in [1 .. N -> [S -> S]],
         NEW n \in 0 .. N, n + 1 \in 0 .. N, NEW g, Values(S, base, F, n, g)
  PROVE  \E h : Values(S, base, F, n + 1, h)
<1>0. g \in [0 .. n -> S] /\ g[0] = base /\ \A m \in 1 .. n : g[m] = F[m][g[m - 1]]
  BY DEF Values
<1> DEFINE h == [m \in 0 .. n + 1 |-> IF m <= n THEN g[m] ELSE F[m][g[n]]]
<1>1. n \in 0 .. n /\ 0 \in 0 .. n + 1 /\ 0 <= n /\ 0 \in 0 .. n
  OBVIOUS
<1>2. h[0] = base
  BY <1>0, <1>1
<1>3. \A m \in 0 .. n : h[m] = g[m]
  OBVIOUS
<1>4. h[n + 1] = F[n + 1][g[n]] /\ n + 1 \in 1 .. N
  OBVIOUS
<1>5. h \in [0 .. n + 1 -> S]
  <2> SUFFICES ASSUME NEW m \in 0 .. n + 1 PROVE h[m] \in S
    OBVIOUS
  <2>1. CASE m <= n
    <3>1. m \in 0 .. n
      BY <2>1
    <3> QED
      BY <3>1, <1>0, <1>3
  <2>2. CASE ~(m <= n)
    <3>1. m = n + 1 /\ g[n] \in S
      BY <2>2, <1>0, <1>1
    <3> QED
      BY <3>1, <1>4
  <2> QED
    BY <2>1, <2>2
<1> HIDE DEF h
<1>6. ASSUME NEW m \in 1 .. n + 1 PROVE h[m] = F[m][h[m - 1]]
  <2>1. CASE m <= n
    <3>1. m \in 1 .. n /\ m \in 0 .. n /\ m - 1 \in 0 .. n
      BY <2>1
    <3> QED
      BY <3>1, <1>0, <1>3
  <2>2. CASE ~(m <= n)
    <3>1. m = n + 1 /\ m - 1 = n
      BY <2>2
    <3> QED
      BY <3>1, <1>1, <1>3, <1>4
  <2> QED
    BY <2>1, <2>2
<1> QED
  BY <1>2, <1>5, <1>6 DEF Values

LEMMA LeastExists ==
  ASSUME NEW S \in SUBSET Nat, S # {}
  PROVE  \E x \in S : \A y \in S : x <= y
<1>1. PICK x \in S : \A y \in S : ~(<<y, x>> \in OpToRel(<, Nat))
  BY NatLessThanWellFounded, WFMin
<1>2. \A y \in S : ~(y < x)
  BY <1>1 DEF OpToRel
<1> QED
  BY <1>2

LEMMA ValuesExist ==
  ASSUME NEW S, NEW base \in S, NEW N \in Nat, NEW F \in [1 .. N -> [S -> S]]
  PROVE  \E h : Values(S, base, F, N, h)
<1> DEFINE bad == {n \in 0 .. N : ~\E h : Values(S, base, F, n, h)}
<1>0. SUFFICES ASSUME bad # {} PROVE FALSE
  <2>1. N \in 0 .. N
    OBVIOUS
  <2> QED
    BY <2>1
<1>1. PICK x \in bad : \A y \in bad : x <= y
  <2>1. bad \in SUBSET Nat
    OBVIOUS
  <2> HIDE DEF bad
  <2> QED
    BY <2>1, <1>0, LeastExists
<1>2. x # 0
  <2> DEFINE h == [m \in 0 .. 0 |-> base]
  <2>1. h \in [0 .. 0 -> S] /\ h[0] = base /\ 1 .. 0 = {}
    OBVIOUS
  <2> HIDE DEF h
  <2>2. Values(S, base, F, 0, h)
    BY <2>1 DEF Values
  <2> QED
    BY <2>2
<1>3. x \in 0 .. N /\ x - 1 \in 0 .. N /\ ~(x <= x - 1) /\ (x - 1) + 1 = x
  BY <1>2
<1>4. PICK g : Values(S, base, F, x - 1, g)
  BY <1>1, <1>3
<1>5. \E h : Values(S, base, F, (x - 1) + 1, h)
  BY <1>3, <1>4, OneMoreValue
<1> QED
  BY <1>3, <1>5

\* The lowest of some numbers is one of them.
LEMMA MinProperties ==
  ASSUME NEW S \in SUBSET Nat, S # {}
  PROVE  Min(S) \in S /\ \A y \in S : Min(S) <= y
<1>1. \E x \in S : \A y \in S : x <= y
  BY LeastExists
<1> QED
  BY <1>1 DEF Min
-----------------------------------------------------------------------------
\* The grid.  The objects of blocks that are kept, and where they stand.
Object ==
  {x \in [block : Block, kind : {"kept", "ghost", "stale"}, row : Nat \union {NoRow}] :
     x.kind # "ghost" => x.row # NoRow}

IsKept(x) == x.kind = "kept"

\* Block b has its object in the grid.
Drawn(columns, b) == \E i \in DOMAIN columns : \E x \in columns[i] : IsKept(x) /\ x.block = b

\* The objects are of blocks of K, at the rows counted from number m.
Fits(columns, K, m) ==
  \A i \in DOMAIN columns : \A x \in columns[i] :
    IsKept(x) => x.block \in K /\ x.row = Number[x.block] - m

\* A column has one object at most of each number.
Apart(columns) ==
  \A i \in DOMAIN columns : \A x, y \in columns[i] :
    IsKept(x) /\ IsKept(y) /\ Number[x.block] = Number[y.block] => x = y

\* A block's object is in one column.
InOneColumn(columns) ==
  \A i, j \in DOMAIN columns : \A x \in columns[i], y \in columns[j] :
    IsKept(x) /\ IsKept(y) /\ x.block = y.block => i = j

GoodGrid(columns, K, m) ==
  /\ columns \in Seq(SUBSET Object)
  /\ Fits(columns, K, m) /\ Apart(columns) /\ InOneColumn(columns)

LEMMA CellType ==
  ASSUME NEW b \in Block, NEW n \in Nat
  PROVE  Cell(b, "kept", n) \in Object /\ Cell(b, "stale", n) \in Object /\ Cell(b, "ghost", NoRow) \in Object
  BY DEF Object, Cell, NoRow

\* FirstCell finds an object of the block, if there is one: that with the lowest
\* row, or one without a row.
LEMMA FirstCellFound ==
  ASSUME NEW column \in SUBSET Object, NEW b, \E x \in column : x.block = b
  PROVE  FirstCell(column, b) \in column /\ FirstCell(column, b).block = b
<1> DEFINE match == {c \in column : c.block = b}
           First(c) == \A d \in match \ {c} : c.row # NoRow /\ (d.row = NoRow \/ c.row <= d.row)
           rows == {c.row : c \in match} \ {NoRow}
<1>1. match # {} /\ \A c \in match : c \in Object
  OBVIOUS
<1>2. \E c \in match : First(c)
  <2>1. CASE rows = {}
    <3>1. \A c \in match : c.row = NoRow
      BY <2>1
    <3>2. \A c \in match : c.kind = "ghost"
      BY <3>1, <1>1 DEF Object
    <3>3. \A c, d \in match : c = d
      <4> TAKE c, d \in match
      <4>1. /\ c = [block |-> c.block, kind |-> c.kind, row |-> c.row]
            /\ d = [block |-> d.block, kind |-> d.kind, row |-> d.row]
        BY <1>1 DEF Object
      <4>2. c.block = b /\ d.block = b
        OBVIOUS
      <4> QED
        BY <4>1, <4>2, <3>1, <3>2
    <3> QED
      BY <3>3, <1>1
  <2>2. CASE rows # {}
    <3>1. rows \in SUBSET Nat
      BY <1>1 DEF Object, NoRow
    <3> HIDE DEF rows
    <3>2. PICK n \in rows : \A k \in rows : n <= k
      BY <3>1, <2>2, LeastExists
    <3>3. PICK c \in match : c.row = n /\ n # NoRow
      BY <3>2 DEF rows
    <3>4. \A d \in match : d.row = NoRow \/ n <= d.row
      BY <3>2 DEF rows
    <3> QED
      BY <3>3, <3>4
  <2> QED
    BY <2>1, <2>2
<1>3. FirstCell(column, b) = CHOOSE c \in match : First(c)
  BY DEF FirstCell
<1> HIDE DEF First
<1>4. FirstCell(column, b) \in match
  BY <1>2, <1>3
<1> QED
  BY <1>4

\* Removing a block leaves the other blocks' objects where they are.
LEMMA RemovedCells ==
  ASSUME NEW columns \in Seq(SUBSET Object), NEW b
  PROVE  LET r == CellRemoved(columns, b)
         IN /\ r \in Seq(SUBSET Object) /\ DOMAIN r = DOMAIN columns
            /\ \A i \in DOMAIN columns : \A x :
                 IsKept(x) => (x \in r[i] <=> x \in columns[i] /\ x.block # b)
<1> DEFINE r == CellRemoved(columns, b)
           has == {i \in DOMAIN columns : \E x \in columns[i] : x.block = b}
           isFirst(i) == i \in has /\ \A j \in has : i <= j
           From(i) == IF isFirst(i) THEN columns[i] \ {FirstCell(columns[i], b)} ELSE columns[i]
           To(x) == IF x.block = b /\ x.kind = "kept" THEN Cell(b, "stale", x.row) ELSE x
           n == Len(columns)
<1>1. /\ n \in Nat /\ DOMAIN columns = 1 .. n /\ \A i \in 1 .. n : columns[i] \in SUBSET Object
  BY LenProperties, ElementOfSeq
<1>2. r = [i \in 1 .. n |-> {To(x) : x \in From(i)}]
  BY <1>1 DEF CellRemoved
<1>3. ASSUME NEW i \in 1 .. n
      PROVE  From(i) \subseteq columns[i] /\ \A x \in columns[i] : x.block # b => x \in From(i)
  <2>1. CASE isFirst(i)
    <3>1. FirstCell(columns[i], b).block = b
      BY <1>1, <2>1, FirstCellFound
    <3> QED
      BY <3>1
  <2>2. CASE ~isFirst(i)
    BY <2>2
  <2> QED
    BY <2>1, <2>2
<1> HIDE DEF From, r
<1>4. ASSUME NEW x \in Object
      PROVE  To(x) \in Object /\ (IsKept(To(x)) => To(x) = x /\ x.block # b) /\ (x.block # b => To(x) = x)
  <2>1. CASE x.block = b /\ x.kind = "kept"
    <3>1. x.block \in Block /\ x.row \in Nat
      BY <2>1 DEF Object, NoRow
    <3>2. To(x) = Cell(b, "stale", x.row)
      BY <2>1
    <3> QED
      BY <2>1, <3>1, <3>2, CellType DEF IsKept, Cell
  <2>2. CASE ~(x.block = b /\ x.kind = "kept")
    BY <2>2 DEF IsKept
  <2> QED
    BY <2>1, <2>2
<1> HIDE DEF To
<1>5. \A i \in 1 .. n : r[i] \in SUBSET Object
  BY <1>1, <1>2, <1>3, <1>4
<1>6. ASSUME NEW i \in 1 .. n, NEW x, IsKept(x)
      PROVE  x \in r[i] <=> x \in columns[i] /\ x.block # b
  <2>1. r[i] = {To(y) : y \in From(i)}
    BY <1>2
  <2>2. ASSUME x \in r[i] PROVE x \in columns[i] /\ x.block # b
    <3>1. PICK y \in From(i) : x = To(y)
      BY <2>1, <2>2
    <3>2. y \in columns[i] /\ y \in Object
      BY <1>1, <1>3
    <3> QED
      BY <1>4, <1>6, <3>1, <3>2
  <2>3. ASSUME x \in columns[i], x.block # b PROVE x \in r[i]
    <3>1. x \in From(i) /\ x \in Object
      BY <1>1, <1>3, <2>3
    <3>2. To(x) = x
      BY <1>4, <2>3, <3>1
    <3> QED
      BY <2>1, <3>1, <3>2
  <2> QED
    BY <2>2, <2>3
<1>7. r \in Seq(SUBSET Object) /\ DOMAIN r = 1 .. n
  <2>1. r \in [1 .. n -> SUBSET Object]
    BY <1>2, <1>5
  <2> HIDE DEF n
  <2> QED
    BY <1>1, <2>1
<1> QED
  BY <1>1, <1>6, <1>7 DEF r

LEMMA RemovedKeeps ==
  ASSUME NEW columns, NEW K, NEW m, GoodGrid(columns, K, m), NEW b
  PROVE  /\ GoodGrid(CellRemoved(columns, b), K \ {b}, m)
         /\ \A c : Drawn(CellRemoved(columns, b), c) <=> Drawn(columns, c) /\ c # b
<1> DEFINE r == CellRemoved(columns, b)
<1>1. columns \in Seq(SUBSET Object)
  BY DEF GoodGrid
<1>2. /\ r \in Seq(SUBSET Object) /\ DOMAIN r = DOMAIN columns
      /\ \A i \in DOMAIN columns : \A x :
           IsKept(x) => (x \in r[i] <=> x \in columns[i] /\ x.block # b)
  BY <1>1, RemovedCells
<1> HIDE DEF r
<1>3. Fits(r, K \ {b}, m)
  BY <1>2 DEF GoodGrid, Fits
<1>4. Apart(r)
  BY <1>2 DEF GoodGrid, Apart
<1>5. InOneColumn(r)
  BY <1>2 DEF GoodGrid, InOneColumn
<1>6. \A c : Drawn(r, c) <=> Drawn(columns, c) /\ c # b
  BY <1>2 DEF Drawn
<1> QED
  BY <1>2, <1>3, <1>4, <1>5, <1>6 DEF GoodGrid, r

\* prepareAndAddBlocks numbers the rows from the lowest number that is kept.
LEMMA ReindexedKeeps ==
  ASSUME NEW raw, NEW columns, NEW m, GoodGrid(columns, ToSet(raw), m),
         NEW low \in Nat, low = minBlockNumber(raw),
         \A b \in ToSet(raw) : b \in Block /\ low <= Number[b]
  PROVE  /\ GoodGrid(Reindexed(columns, raw), ToSet(raw), low)
         /\ \A b : Drawn(Reindexed(columns, raw), b) <=> Drawn(columns, b)
<1> DEFINE r == Reindexed(columns, raw)
           K == ToSet(raw)
           n == Len(columns)
           To(x) == IF x.kind = "kept" THEN Cell(x.block, "kept", RowOf(raw, x.block)) ELSE x
<1>1. columns \in Seq(SUBSET Object)
  BY DEF GoodGrid
<1>2. n \in Nat /\ DOMAIN columns = 1 .. n /\ \A i \in 1 .. n : columns[i] \in SUBSET Object
  BY <1>1, LenProperties, ElementOfSeq
<1>3. r = [i \in 1 .. n |-> {To(x) : x \in columns[i]}]
  BY <1>2 DEF Reindexed
<1> HIDE DEF r
<1>4. ASSUME NEW i \in 1 .. n, NEW x \in columns[i]
      PROVE  /\ To(x) \in Object /\ (IsKept(To(x)) <=> IsKept(x))
             /\ IsKept(x) => /\ x.block \in K /\ x.row = Number[x.block] - m
                             /\ To(x).block = x.block /\ To(x).row = Number[x.block] - low
  <2>1. x \in Object
    BY <1>2
  <2>2. CASE x.kind = "kept"
    <3>1. x.block \in K /\ x.row = Number[x.block] - m
      BY <1>2, <2>2 DEF GoodGrid, Fits, IsKept
    <3>2. x.block \in Block /\ Number[x.block] \in Nat
      BY <3>1, BlockTreeAssumption
    <3>3. Number[x.block] - low \in Nat
      BY <3>1, <3>2
    <3>4. To(x) = Cell(x.block, "kept", Number[x.block] - low)
      BY <2>2 DEF RowOf
    <3>5. To(x) \in Object
      BY <3>2, <3>3, <3>4, CellType
    <3> QED
      BY <2>2, <3>1, <3>4, <3>5 DEF Cell, IsKept
  <2>3. CASE ~(x.kind = "kept")
    BY <2>1, <2>3 DEF IsKept
  <2> QED
    BY <2>2, <2>3
<1> HIDE DEF To
<1>5. \A i \in 1 .. n : r[i] = {To(x) : x \in columns[i]}
  BY <1>3
<1>6. r \in Seq(SUBSET Object) /\ DOMAIN r = 1 .. n
  <2>1. \A i \in 1 .. n : r[i] \in SUBSET Object
    BY <1>4, <1>5
  <2>2. r \in [1 .. n -> SUBSET Object]
    BY <1>3, <2>1
  <2> HIDE DEF n
  <2> QED
    BY <1>2, <2>2
<1> HIDE DEF n, K
<1>7. Fits(r, K, low)
  <2> SUFFICES ASSUME NEW i \in 1 .. n, NEW y \in r[i], IsKept(y)
               PROVE  y.block \in K /\ y.row = Number[y.block] - low
    BY <1>6 DEF Fits
  <2>1. PICK x \in columns[i] : y = To(x)
    BY <1>5
  <2> QED
    BY <1>4, <2>1
<1>8. Apart(r)
  <2> SUFFICES ASSUME NEW i \in 1 .. n, NEW y \in r[i], NEW z \in r[i], IsKept(y), IsKept(z),
                      Number[y.block] = Number[z.block]
               PROVE  y = z
    BY <1>6 DEF Apart
  <2>1. PICK x \in columns[i] : y = To(x)
    BY <1>5
  <2>2. PICK w \in columns[i] : z = To(w)
    BY <1>5
  <2>3. IsKept(x) /\ IsKept(w) /\ Number[x.block] = Number[w.block]
    BY <1>4, <2>1, <2>2
  <2>4. x = w
    BY <1>2, <2>3 DEF GoodGrid, Apart
  <2> QED
    BY <2>1, <2>2, <2>4
<1>9. InOneColumn(r)
  <2> SUFFICES ASSUME NEW i \in 1 .. n, NEW j \in 1 .. n, NEW y \in r[i], NEW z \in r[j],
                      IsKept(y), IsKept(z), y.block = z.block
               PROVE  i = j
    BY <1>6 DEF InOneColumn
  <2>1. PICK x \in columns[i] : y = To(x)
    BY <1>5
  <2>2. PICK w \in columns[j] : z = To(w)
    BY <1>5
  <2>3. IsKept(x) /\ IsKept(w) /\ x.block = w.block
    BY <1>4, <2>1, <2>2
  <2> QED
    BY <1>2, <2>3 DEF GoodGrid, InOneColumn
<1>10. ASSUME NEW b PROVE Drawn(r, b) <=> Drawn(columns, b)
  <2>1. ASSUME Drawn(r, b) PROVE Drawn(columns, b)
    <3>0. PICK i \in 1 .. n : \E y \in r[i] : IsKept(y) /\ y.block = b
      BY <1>6, <2>1 DEF Drawn
    <3>1. PICK y \in r[i] : IsKept(y) /\ y.block = b
      BY <3>0
    <3>2. PICK x \in columns[i] : y = To(x)
      BY <1>5
    <3> QED
      BY <1>2, <1>4, <3>1, <3>2 DEF Drawn
  <2>2. ASSUME Drawn(columns, b) PROVE Drawn(r, b)
    <3>0. PICK i \in 1 .. n : \E x \in columns[i] : IsKept(x) /\ x.block = b
      BY <1>2, <2>2 DEF Drawn
    <3>1. PICK x \in columns[i] : IsKept(x) /\ x.block = b
      BY <3>0
    <3>2. To(x) \in r[i] /\ IsKept(To(x)) /\ To(x).block = b
      BY <1>4, <1>5, <3>1
    <3> QED
      BY <1>6, <3>2 DEF Drawn
  <2> QED
    BY <2>1, <2>2
<1> QED
  BY <1>6, <1>7, <1>8, <1>9, <1>10 DEF GoodGrid, r, K

\* placeBlock puts an object in one column at a row that is free, or leaves an
\* object without a row away.
LEMMA Placed ==
  ASSUME NEW columns \in Seq(SUBSET Object), NEW x \in Object
  PROVE  LET r == placeBlock(columns, x)
         IN /\ r \in Seq(SUBSET Object) /\ Len(columns) <= Len(r)
            /\ \E p \in Nat :
                 /\ \A i \in 1 .. Len(r) :
                      r[i] = (IF i <= Len(columns) THEN columns[i] ELSE {})
                               \union (IF i = p THEN {x} ELSE {})
                 /\ p \in 1 .. Len(columns) => ~Taken(columns[p], x)
                 /\ x.row # NoRow => p \in 1 .. Len(r)
<1> DEFINE n == Len(columns)
           into(i) == [columns EXCEPT ![i] = @ \union {x}]
           free == {i \in DOMAIN columns : ~Taken(columns[i], x)}
           over == {i \in free : \E y \in columns[i] : y.block = Parent[x.block]}
           r == placeBlock(columns, x)
           Fine(s) == /\ s \in Seq(SUBSET Object) /\ n <= Len(s)
                      /\ \E p \in Nat :
                           /\ \A i \in 1 .. Len(s) :
                                s[i] = (IF i <= n THEN columns[i] ELSE {})
                                         \union (IF i = p THEN {x} ELSE {})
                           /\ p \in 1 .. n => ~Taken(columns[p], x)
                           /\ x.row # NoRow => p \in 1 .. Len(s)
<1>1. n \in Nat /\ DOMAIN columns = 1 .. n /\ \A i \in 1 .. n : columns[i] \in SUBSET Object
  BY LenProperties, ElementOfSeq
<1>2. r = IF columns = <<>> THEN <<{}, {x}>>
          ELSE IF over # {} THEN into(Min(over))
          ELSE IF free # {} THEN into(Min(free))
          ELSE Append(columns, IF x.row = NoRow THEN {} ELSE {x})
  BY DEF placeBlock
<1>3. ASSUME NEW i \in free PROVE Fine(into(i))
  <2>1. i \in 1 .. n /\ ~Taken(columns[i], x) /\ i \in Nat
    BY <1>1
  <2>2. into(i) = [j \in 1 .. n |-> columns[j] \union (IF j = i THEN {x} ELSE {})]
    BY <1>1, <2>1
  <2> HIDE DEF into, free, over
  <2>3. \A j \in 1 .. n : columns[j] \union (IF j = i THEN {x} ELSE {}) \in SUBSET Object
    BY <1>1
  <2>4. into(i) \in [1 .. n -> SUBSET Object]
    BY <2>2, <2>3
  <2>5. into(i) \in Seq(SUBSET Object) /\ Len(into(i)) = n
    <3> HIDE DEF n
    <3> QED
      BY <1>1, <2>4
  <2>6. \A j \in 1 .. n : into(i)[j] = (IF j <= n THEN columns[j] ELSE {})
                                         \union (IF j = i THEN {x} ELSE {})
    BY <2>2
  <2> HIDE DEF n
  <2> QED
    BY <1>1, <2>1, <2>5, <2>6
<1>4. ASSUME columns = <<>> PROVE Fine(<<{}, {x}>>)
  <2> DEFINE s == <<{}, {x}>>
  <2>1. s \in Seq(SUBSET Object) /\ Len(s) = 2 /\ s[1] = {} /\ s[2] = {x}
    OBVIOUS
  <2>2. n = 0
    BY <1>4
  <2> HIDE DEF s, n
  <2>3. \A i \in 1 .. 2 : s[i] = (IF i <= n THEN columns[i] ELSE {}) \union (IF i = 2 THEN {x} ELSE {})
    BY <2>1, <2>2
  <2>4. 2 \in Nat /\ 2 \in 1 .. Len(s) /\ ~(2 \in 1 .. n)
    BY <2>1, <2>2
  <2> QED
    BY <2>1, <2>2, <2>3, <2>4 DEF s
<1>5. Fine(Append(columns, IF x.row = NoRow THEN {} ELSE {x}))
  <2> DEFINE last == IF x.row = NoRow THEN {} ELSE {x}
             s == Append(columns, last)
             p == IF x.row = NoRow THEN 0 ELSE n + 1
  <2>1. last \in SUBSET Object
    OBVIOUS
  <2>2. /\ s \in Seq(SUBSET Object) /\ Len(s) = n + 1 /\ s[n + 1] = last
        /\ \A i \in 1 .. n : s[i] = columns[i]
    BY <2>1, AppendProperties
  <2> HIDE DEF s
  <2>3. p \in Nat /\ p \notin 1 .. n /\ (x.row # NoRow => p \in 1 .. Len(s))
    BY <1>1, <2>2
  <2>4. ASSUME NEW i \in 1 .. n + 1
        PROVE  s[i] = (IF i <= n THEN columns[i] ELSE {}) \union (IF i = p THEN {x} ELSE {})
    <3>1. CASE i <= n
      <4>1. i \in 1 .. n /\ i # p
        BY <1>1, <2>3, <3>1
      <4> QED
        BY <2>2, <3>1, <4>1
    <3>2. CASE ~(i <= n)
      <4>1. i = n + 1 /\ i \in Nat /\ i # 0
        BY <1>1, <3>2
      <4> QED
        BY <2>2, <3>2, <4>1
    <3> QED
      BY <3>1, <3>2
  <2> HIDE DEF p, n
  <2> QED
    BY <1>1, <2>2, <2>3, <2>4 DEF s
<1>6. over # {} => Min(over) \in free
  <2>1. over \in SUBSET Nat
    BY <1>1
  <2> HIDE DEF over
  <2>2. over # {} => Min(over) \in over
    BY <2>1, MinProperties
  <2> QED
    BY <2>2 DEF over
<1>7. free # {} => Min(free) \in free
  <2>1. free \in SUBSET Nat
    BY <1>1
  <2> HIDE DEF free
  <2> QED
    BY <2>1, MinProperties
<1> HIDE DEF Fine, over, free, into, r
<1>8. Fine(r)
  BY <1>2, <1>3, <1>4, <1>5, <1>6, <1>7
<1> QED
  BY <1>8 DEF Fine, n, r

LEMMA PlaceKeeps ==
  ASSUME NEW columns, NEW K, NEW m, GoodGrid(columns, K, m), NEW x \in Object,
         IsKept(x) => /\ x.block \in K /\ x.row = Number[x.block] - m
                      /\ ~Drawn(columns, x.block)
  PROVE  /\ GoodGrid(placeBlock(columns, x), K, m)
         /\ \A b : Drawn(placeBlock(columns, x), b)
                     <=> Drawn(columns, b) \/ (IsKept(x) /\ x.block = b)
<1> DEFINE r == placeBlock(columns, x)
           n == Len(columns)
<1>1. columns \in Seq(SUBSET Object) /\ n \in Nat /\ DOMAIN columns = 1 .. n
  BY LenProperties DEF GoodGrid
<1>2. /\ r \in Seq(SUBSET Object) /\ n <= Len(r)
      /\ \E p \in Nat :
           /\ \A i \in 1 .. Len(r) : r[i] = (IF i <= n THEN columns[i] ELSE {})
                                              \union (IF i = p THEN {x} ELSE {})
           /\ p \in 1 .. n => ~Taken(columns[p], x)
           /\ x.row # NoRow => p \in 1 .. Len(r)
  BY <1>1, Placed
<1> HIDE DEF r
<1>3. PICK p \in Nat : /\ \A i \in 1 .. Len(r) : r[i] = (IF i <= n THEN columns[i] ELSE {})
                                                          \union (IF i = p THEN {x} ELSE {})
                       /\ p \in 1 .. n => ~Taken(columns[p], x)
                       /\ x.row # NoRow => p \in 1 .. Len(r)
  BY <1>2
<1> DEFINE k == Len(r)
<1>4. k \in Nat /\ DOMAIN r = 1 .. k /\ 1 .. n \subseteq 1 .. k
  BY <1>1, <1>2, LenProperties
<1> HIDE DEF n, k
<1>5. ASSUME NEW i \in 1 .. k, NEW y
      PROVE  y \in r[i] <=> (i \in 1 .. n /\ y \in columns[i]) \/ (i = p /\ y = x)
  BY <1>1, <1>3, <1>4 DEF k
<1>6. IsKept(x) => p \in 1 .. k
  BY <1>3 DEF IsKept, Object, k
<1>7. Fits(r, K, m)
  BY <1>1, <1>4, <1>5 DEF GoodGrid, Fits
<1>8. ASSUME NEW i \in 1 .. k, NEW y, NEW z, i \in 1 .. n, y \in columns[i], i = p, z = x,
             IsKept(y), IsKept(z), Number[y.block] = Number[z.block]
      PROVE  FALSE
  <2>1. y.row = Number[y.block] - m
    BY <1>1, <1>8 DEF GoodGrid, Fits
  <2>2. y.row = x.row
    BY <1>8, <2>1
  <2> QED
    BY <1>3, <1>8, <2>2 DEF Taken, n
<1>9. Apart(r)
  <2> SUFFICES ASSUME NEW i \in 1 .. k, NEW y \in r[i], NEW z \in r[i], IsKept(y), IsKept(z),
                      Number[y.block] = Number[z.block]
               PROVE  y = z
    BY <1>4 DEF Apart
  <2>1. CASE i \in 1 .. n /\ y \in columns[i] /\ z \in columns[i]
    BY <1>1, <2>1 DEF GoodGrid, Apart
  <2> QED
    BY <1>5, <1>8, <2>1
<1>10. ASSUME NEW j \in 1 .. n, NEW z \in columns[j], IsKept(z), IsKept(x), z.block = x.block
       PROVE  FALSE
  BY <1>1, <1>10 DEF Drawn
<1>11. InOneColumn(r)
  <2> SUFFICES ASSUME NEW i \in 1 .. k, NEW j \in 1 .. k, NEW y \in r[i], NEW z \in r[j],
                      IsKept(y), IsKept(z), y.block = z.block
               PROVE  i = j
    BY <1>4 DEF InOneColumn
  <2>1. CASE i \in 1 .. n /\ y \in columns[i] /\ j \in 1 .. n /\ z \in columns[j]
    BY <1>1, <2>1 DEF GoodGrid, InOneColumn
  <2> QED
    BY <1>5, <1>10, <2>1
<1>12. ASSUME NEW b
       PROVE  Drawn(r, b) <=> Drawn(columns, b) \/ (IsKept(x) /\ x.block = b)
  <2>1. Drawn(r, b) <=> \E i \in 1 .. k : \E y \in r[i] : IsKept(y) /\ y.block = b
    BY <1>4 DEF Drawn
  <2>2. Drawn(columns, b) <=> \E i \in 1 .. n : \E y \in columns[i] : IsKept(y) /\ y.block = b
    BY <1>1 DEF Drawn
  <2> QED
    BY <1>4, <1>5, <1>6, <2>1, <2>2
<1> QED
  BY <1>2, <1>7, <1>9, <1>11, <1>12 DEF GoodGrid, r

-----------------------------------------------------------------------------
\* The chart.
Chart == [rawData : Seq(Block), blockStore : SUBSET Block, renderColumns : Seq(SUBSET Object)]

Once(s) == \A i, j \in 1 .. Len(s) : s[i] = s[j] => i = j

LEMMA ToSetIs ==
  ASSUME NEW S, NEW s \in Seq(S)
  PROVE  ToSet(s) = {s[i] : i \in 1 .. Len(s)} /\ ToSet(s) \subseteq S
<1>1. DOMAIN s = 1 .. Len(s) /\ \A i \in 1 .. Len(s) : s[i] \in S
  BY LenProperties, ElementOfSeq
<1> QED
  BY <1>1 DEF ToSet

LEMMA AppendedOnce ==
  ASSUME NEW S, NEW s \in Seq(S), NEW b \in S, Once(s), b \notin ToSet(s)
  PROVE  /\ Append(s, b) \in Seq(S) /\ Len(Append(s, b)) = Len(s) + 1
         /\ Append(s, b)[Len(s) + 1] = b /\ \A i \in 1 .. Len(s) : Append(s, b)[i] = s[i]
         /\ Once(Append(s, b)) /\ ToSet(Append(s, b)) = ToSet(s) \union {b}
<1> DEFINE r == Append(s, b)
           n == Len(s)
<1>1. /\ r \in Seq(S) /\ Len(r) = n + 1 /\ r[n + 1] = b
      /\ \A i \in 1 .. n : r[i] = s[i]
  BY AppendProperties
<1>2. n \in Nat /\ ToSet(s) = {s[i] : i \in 1 .. n}
  BY LenProperties, ToSetIs
<1>3. ToSet(r) = {r[i] : i \in 1 .. n + 1}
  BY <1>1, ToSetIs
<1>4. \A i, j \in 1 .. n : s[i] = s[j] => i = j
  BY DEF Once
<1>5. \A i \in 1 .. n : s[i] # b
  BY <1>2
<1> HIDE DEF r, n
<1>6. \A i \in 1 .. n + 1 : i \in 1 .. n \/ i = n + 1
  BY <1>2
<1>7. \A i, j \in 1 .. n + 1 : r[i] = r[j] => i = j
  BY <1>1, <1>4, <1>5, <1>6
<1>8. 1 .. n \subseteq 1 .. n + 1 /\ n + 1 \in 1 .. n + 1
  BY <1>2
<1>9. {r[i] : i \in 1 .. n + 1} = {s[i] : i \in 1 .. n} \union {b}
  BY <1>1, <1>6, <1>8
<1> QED
  BY <1>1, <1>2, <1>3, <1>7, <1>9 DEF Once, r, n

LEMMA TailOnce ==
  ASSUME NEW S, NEW s \in Seq(S), s # <<>>, Once(s)
  PROVE  /\ Tail(s) \in Seq(S) /\ Len(Tail(s)) = Len(s) - 1 /\ Len(s) >= 1
         /\ Head(s) = s[1] /\ \A i \in 1 .. Len(s) - 1 : Tail(s)[i] = s[i + 1]
         /\ Once(Tail(s)) /\ ToSet(Tail(s)) = ToSet(s) \ {Head(s)}
<1> DEFINE t == Tail(s)
           n == Len(s)
<1>1. /\ t \in Seq(S) /\ Len(t) = n - 1 /\ \A i \in 1 .. n - 1 : t[i] = s[i + 1]
      /\ Head(s) = s[1]
  <2>1. /\ t \in Seq(S) /\ Len(t) = n - 1 /\ \A i \in 1 .. Len(t) : t[i] = s[i + 1]
    BY HeadTailProperties
  <2>2. Head(s) = s[1]
    OBVIOUS
  <2> QED
    BY <2>1, <2>2
<1>2. n \in Nat /\ n >= 1
  BY EmptySeq, LenProperties
<1>3. ToSet(s) = {s[i] : i \in 1 .. n}
  BY ToSetIs
<1>4. ToSet(t) = {t[i] : i \in 1 .. n - 1}
  BY <1>1, ToSetIs
<1>5. \A i, j \in 1 .. n : s[i] = s[j] => i = j
  BY DEF Once
<1> HIDE DEF t, n
<1>6. \A i \in 1 .. n - 1 : i + 1 \in 1 .. n /\ i + 1 # 1
  BY <1>2
<1>7. \A i \in 1 .. n : i = 1 \/ (i - 1 \in 1 .. n - 1 /\ (i - 1) + 1 = i)
  BY <1>2
<1>8. \A i, j \in 1 .. n - 1 : t[i] = t[j] => i = j
  <2> TAKE i, j \in 1 .. n - 1
  <2> HAVE t[i] = t[j]
  <2>1. i + 1 = j + 1
    BY <1>1, <1>5, <1>6
  <2> QED
    BY <2>1
<1>9. 1 \in 1 .. n
  BY <1>2
<1>10. ASSUME NEW y PROVE y \in {t[i] : i \in 1 .. n - 1} <=> y \in {s[i] : i \in 1 .. n} \ {s[1]}
  <2>1. ASSUME y \in {t[i] : i \in 1 .. n - 1} PROVE y \in {s[i] : i \in 1 .. n} \ {s[1]}
    BY <1>1, <1>5, <1>6, <1>9, <2>1
  <2>2. ASSUME y \in {s[i] : i \in 1 .. n} \ {s[1]} PROVE y \in {t[i] : i \in 1 .. n - 1}
    <3>1. PICK i \in 1 .. n : y = s[i] /\ i # 1
      BY <2>2
    <3>2. i - 1 \in 1 .. n - 1 /\ t[i - 1] = y
      BY <1>1, <1>7, <3>1
    <3> QED
      BY <3>2
  <2> QED
    BY <2>1, <2>2
<1> QED
  BY <1>1, <1>2, <1>3, <1>4, <1>8, <1>10 DEF Once, t, n

LEMMA AddBlockType ==
  ASSUME NEW c \in Chart, NEW b \in Block
  PROVE  AddBlock(c, b) \in Chart
<1>1. /\ c.rawData \in Seq(Block) /\ c.blockStore \in SUBSET Block
      /\ c.renderColumns \in Seq(SUBSET Object)
  BY DEF Chart
<1> DEFINE raw == Append(c.rawData, b)
           store == c.blockStore \union {b}
           columns == c.renderColumns
           grown == [rawData |-> raw, blockStore |-> store, renderColumns |-> columns]
<1>3. raw \in Seq(Block) /\ raw # <<>> /\ store \in SUBSET Block
  BY <1>1, AppendProperties
<1>4. CASE b \in c.blockStore
  BY <1>4 DEF AddBlock
<1>5. CASE b \notin c.blockStore
  <2>1. AddBlock(c, b) = checkForRemove(grown)
    BY <1>5 DEF AddBlock
  <2>2. /\ Tail(raw) \in Seq(Block)
        /\ CellRemoved(columns, Head(raw)) \in Seq(SUBSET Object)
    BY <1>1, <1>3, HeadTailProperties, RemovedCells
  <2> HIDE DEF raw, store, columns
  <2>3. columns \in Seq(SUBSET Object)
    BY <1>1 DEF columns
  <2> QED
    BY <1>3, <2>1, <2>2, <2>3 DEF checkForRemove, Chart
<1> QED
  BY <1>4, <1>5

\* What AddBlock does, in each of its cases.
LEMMA AddBlockCases ==
  ASSUME NEW c \in Chart, NEW b \in Block, b \notin c.blockStore
  PROVE  LET raw == Append(c.rawData, b) IN
         IF Len(raw) <= MAX_BLOCK_COUNT
         THEN AddBlock(c, b) = [rawData |-> raw, blockStore |-> c.blockStore \union {b},
                                renderColumns |-> c.renderColumns]
         ELSE Drawn(c.renderColumns, Head(raw)) =>
                AddBlock(c, b) = [rawData |-> Tail(raw),
                                  blockStore |-> (c.blockStore \union {b}) \ {Head(raw)},
                                  renderColumns |-> CellRemoved(c.renderColumns, Head(raw))]
<1> DEFINE raw == Append(c.rawData, b)
           store == c.blockStore \union {b}
           columns == c.renderColumns
           grown == [rawData |-> raw, blockStore |-> store, renderColumns |-> columns]
<1>2. AddBlock(c, b) = checkForRemove(grown)
  BY DEF AddBlock
<1> HIDE DEF raw, store, columns
<1>3. Drawn(columns, Head(raw)) =>
        \E i \in DOMAIN columns : \E x \in columns[i] : x.block = Head(raw)
  BY DEF Drawn
<1>4. IF Len(raw) <= MAX_BLOCK_COUNT THEN AddBlock(c, b) = grown
      ELSE Drawn(columns, Head(raw)) =>
             AddBlock(c, b) = [rawData |-> Tail(raw), blockStore |-> store \ {Head(raw)},
                               renderColumns |-> CellRemoved(columns, Head(raw))]
  BY <1>2, <1>3 DEF checkForRemove
<1> QED
  BY <1>4 DEF raw, store, columns

\* While the blocks of one call are added: after i of them all blocks but the
\* last i are drawn, those of them that are new are not, and there is nothing
\* else that is not.
Adding(c, i, m, fresh) ==
  /\ c \in Chart
  /\ Len(c.rawData) <= MAX_BLOCK_COUNT /\ Once(c.rawData)
  /\ i > 0 => Len(c.rawData) > 0
  /\ c.blockStore = ToSet(c.rawData)
  /\ GoodGrid(c.renderColumns, ToSet(c.rawData), m)
  /\ \A p \in 1 .. Len(c.rawData) - i : Drawn(c.renderColumns, c.rawData[p])
  /\ \A b \in fresh : ~Drawn(c.renderColumns, b)
  /\ \A b \in ToSet(c.rawData) : Drawn(c.renderColumns, b) \/ b \in fresh

LEMMA MoreKept ==
  ASSUME NEW columns, NEW K, NEW L, NEW m, GoodGrid(columns, K, m), K \subseteq L
  PROVE  GoodGrid(columns, L, m)
  BY DEF GoodGrid, Fits

LEMMA AddKeeps ==
  ASSUME NEW c, NEW i \in Nat, i + 1 <= MAX_BLOCK_COUNT, NEW m, NEW fresh, Adding(c, i, m, fresh),
         NEW b \in Block
  PROVE  Adding(AddBlock(c, b), i + 1, m, IF b \in c.blockStore THEN fresh ELSE fresh \union {b})
<1> DEFINE d == AddBlock(c, b)
           s == c.rawData
           n == Len(s)
           columns == c.renderColumns
           raw == Append(s, b)
<1>1. /\ c \in Chart /\ s \in Seq(Block) /\ columns \in Seq(SUBSET Object)
      /\ n \in Nat /\ n <= MAX_BLOCK_COUNT /\ Once(s) /\ c.blockStore = ToSet(s)
      /\ GoodGrid(columns, ToSet(s), m)
      /\ \A p \in 1 .. n - i : Drawn(columns, s[p])
      /\ \A x \in fresh : ~Drawn(columns, x)
      /\ \A x \in ToSet(s) : Drawn(columns, x) \/ x \in fresh
  BY LenProperties DEF Adding, Chart
<1>2. d \in Chart
  BY <1>1, AddBlockType
<1>3. MAX_BLOCK_COUNT \in Nat \ {0}
  BY BlockTreeAssumption
<1>4. CASE b \in c.blockStore
  <2>1. d = c
    BY <1>4 DEF AddBlock
  <2>2. n > 0
    <3>1. ToSet(s) = {s[j] : j \in 1 .. n}
      BY <1>1, ToSetIs
    <3> QED
      BY <1>1, <1>4, <3>1
  <2>3. 1 .. n - (i + 1) \subseteq 1 .. n - i
    BY <1>1
  <2> HIDE DEF d
  <2> QED
    BY <1>1, <1>4, <2>1, <2>2, <2>3 DEF Adding, d
<1>5. CASE b \notin c.blockStore
  <2>1. /\ raw \in Seq(Block) /\ Len(raw) = n + 1 /\ raw[n + 1] = b
        /\ \A p \in 1 .. n : raw[p] = s[p]
        /\ Once(raw) /\ ToSet(raw) = ToSet(s) \union {b}
    BY <1>1, <1>5, AppendedOnce
  <2>2. ~Drawn(columns, b)
    BY <1>1, <1>5 DEF GoodGrid, Fits, Drawn
  <2>3. IF Len(raw) <= MAX_BLOCK_COUNT
        THEN d = [rawData |-> raw, blockStore |-> c.blockStore \union {b}, renderColumns |-> columns]
        ELSE Drawn(columns, Head(raw)) =>
               d = [rawData |-> Tail(raw), blockStore |-> (c.blockStore \union {b}) \ {Head(raw)},
                    renderColumns |-> CellRemoved(columns, Head(raw))]
    BY <1>1, <1>5, AddBlockCases
  <2> HIDE DEF d, raw, columns, n, s
  <2>4. CASE Len(raw) <= MAX_BLOCK_COUNT
    <3>1. /\ d.rawData = raw /\ d.blockStore = ToSet(raw) /\ d.renderColumns = columns
      BY <1>1, <2>1, <2>3, <2>4
    <3>2. GoodGrid(columns, ToSet(raw), m)
      BY <1>1, <2>1, MoreKept
    <3>3. \A p \in 1 .. Len(raw) - (i + 1) : Drawn(columns, raw[p])
      <4>1. \A p \in 1 .. Len(raw) - (i + 1) : p \in 1 .. n - i /\ p \in 1 .. n
        BY <1>1, <2>1
      <4> QED
        BY <1>1, <2>1, <4>1
    <3>4. \A x \in fresh \union {b} : ~Drawn(columns, x)
      BY <1>1, <2>2
    <3>5. \A x \in ToSet(raw) : Drawn(columns, x) \/ x \in fresh \union {b}
      BY <1>1, <2>1
    <3>6. Len(raw) > 0
      BY <1>1, <2>1
    <3> QED
      BY <1>2, <1>5, <2>1, <2>4, <3>1, <3>2, <3>3, <3>4, <3>5, <3>6 DEF Adding, d
  <2>5. CASE ~(Len(raw) <= MAX_BLOCK_COUNT)
    <3> DEFINE old == Head(raw)
               t == Tail(raw)
    <3>1. n = MAX_BLOCK_COUNT /\ 1 \in 1 .. n /\ 1 \in 1 .. n - i
      BY <1>1, <1>3, <2>1, <2>5
    <3>2. raw # <<>>
      BY <1>1, <2>1
    <3>3. /\ t \in Seq(Block) /\ Len(t) = n /\ old = raw[1]
          /\ \A p \in 1 .. n : t[p] = raw[p + 1]
          /\ Once(t) /\ ToSet(t) = ToSet(raw) \ {old}
      <4>1. /\ t \in Seq(Block) /\ Len(t) = Len(raw) - 1 /\ old = raw[1]
            /\ \A p \in 1 .. Len(raw) - 1 : t[p] = raw[p + 1]
            /\ Once(t) /\ ToSet(t) = ToSet(raw) \ {old}
        BY <2>1, <3>2, TailOnce
      <4>2. Len(raw) - 1 = n
        BY <1>1, <2>1
      <4> QED
        BY <4>1, <4>2
    <3>4. old = s[1] /\ Drawn(columns, old)
      BY <1>1, <2>1, <3>1, <3>3
    <3> DEFINE left == CellRemoved(columns, old)
    <3>5. /\ d.rawData = t /\ d.blockStore = ToSet(t) /\ d.renderColumns = left
      <4>1. d = [rawData |-> t, blockStore |-> (c.blockStore \union {b}) \ {old},
                 renderColumns |-> left]
        BY <2>3, <2>5, <3>4
      <4>2. (c.blockStore \union {b}) \ {old} = ToSet(t)
        BY <1>1, <2>1, <3>3
      <4> HIDE DEF t, left, old
      <4> QED
        BY <4>1, <4>2
    <3>6. /\ GoodGrid(left, ToSet(s) \ {old}, m)
          /\ \A x : Drawn(left, x) <=> Drawn(columns, x) /\ x # old
      BY <1>1, RemovedKeeps
    <3> HIDE DEF t, left, old
    <3>7. GoodGrid(left, ToSet(t), m)
      BY <2>1, <3>3, <3>6, MoreKept
    <3>8. ASSUME NEW p \in 1 .. n - (i + 1) PROVE Drawn(left, t[p])
      <4>1. p \in 1 .. n /\ p + 1 \in 1 .. n - i /\ p + 1 \in 1 .. n /\ p + 1 # 1
        BY <1>1
      <4>2. t[p] = s[p + 1] /\ Drawn(columns, t[p])
        BY <1>1, <2>1, <3>3, <4>1
      <4>3. s[p + 1] # s[1]
        BY <1>1, <3>1, <4>1 DEF Once, n
      <4> QED
        BY <3>4, <3>6, <4>2, <4>3
    <3>9. \A x \in fresh \union {b} : ~Drawn(left, x)
      BY <1>1, <2>2, <3>6
    <3>10. \A x \in ToSet(t) : Drawn(left, x) \/ x \in fresh \union {b}
      BY <1>1, <2>1, <3>3, <3>6
    <3>11. Len(t) <= MAX_BLOCK_COUNT /\ Len(t) > 0 /\ Len(t) = n
      BY <1>3, <3>1, <3>3
    <3> QED
      BY <1>2, <1>5, <3>3, <3>5, <3>7, <3>8, <3>9, <3>10, <3>11 DEF Adding, d
  <2> QED
    BY <2>4, <2>5
<1> QED
  BY <1>4, <1>5

\* What holds of 0 and of each next number holds of all.
LEMMA Reached ==
  ASSUME NEW N \in Nat, NEW G, 0 \in G, \A j \in 1 .. N : j - 1 \in G => j \in G
  PROVE  0 .. N \subseteq G
<1> DEFINE missing == {j \in 0 .. N : j \notin G}
<1> SUFFICES ASSUME missing # {} PROVE FALSE
  OBVIOUS
<1>1. PICK x \in missing : \A y \in missing : x <= y
  <2>1. missing \in SUBSET Nat
    OBVIOUS
  <2> HIDE DEF missing
  <2> QED
    BY <2>1, LeastExists
<1>2. x \in 1 .. N /\ x - 1 \in 0 .. N /\ ~(x <= x - 1)
  BY <1>1
<1>3. x - 1 \notin missing
  BY <1>1, <1>2
<1> QED
  BY <1>2, <1>3

\* The charts after each of the blocks.
LEMMA AddedValues ==
  ASSUME NEW k \in Chart, NEW data \in Seq(Block)
  PROVE  LET a == Added(k, data) IN
         /\ \A j \in 0 .. Len(data) : a[j] \in Chart
         /\ a[0] = k
         /\ \A j \in 1 .. Len(data) : a[j] = AddBlock(a[j - 1], data[j])
<1> DEFINE n == Len(data)
           F == [m \in 1 .. n |-> [x \in Chart |-> AddBlock(x, data[m])]]
           Step(c) == [i \in 0 .. n |-> IF i = 0 THEN k ELSE AddBlock(c[i - 1], data[i])]
           a == Added(k, data)
<1>1. n \in Nat /\ \A j \in 1 .. n : data[j] \in Block
  BY LenProperties, ElementOfSeq
<1>2. F \in [1 .. n -> [Chart -> Chart]]
  BY <1>1, AddBlockType
<1>3. \A m \in 1 .. n : \A x \in Chart : F[m][x] = AddBlock(x, data[m])
  OBVIOUS
<1> HIDE DEF F, n
<1>4. PICK h : Values(Chart, k, F, n, h)
  BY <1>1, <1>2, ValuesExist
<1>5. h \in [0 .. n -> Chart] /\ h[0] = k /\ \A m \in 1 .. n : h[m] = F[m][h[m - 1]]
  BY <1>4 DEF Values
<1>6. \A i \in 0 .. n : i # 0 => i \in 1 .. n /\ i - 1 \in 0 .. n
  BY <1>1
<1>7. \A i \in 0 .. n : h[i] = IF i = 0 THEN k ELSE AddBlock(h[i - 1], data[i])
  BY <1>3, <1>5, <1>6
<1>8. h = Step(h)
  BY <1>5, <1>7
<1>9. a = CHOOSE c : c = Step(c)
  BY DEF Added, n
<1> HIDE DEF a
<1>10. a = Step(a)
  <2> HIDE DEF Step
  <2> QED
    BY <1>8, <1>9
<1>11. 0 \in 0 .. n /\ \A j \in 1 .. n : j \in 0 .. n /\ j # 0
  BY <1>1
<1>12. a[0] = k /\ \A j \in 1 .. n : a[j] = AddBlock(a[j - 1], data[j])
  BY <1>10, <1>11
<1> DEFINE G == {j \in 0 .. n : a[j] \in Chart}
<1>13. 0 .. n \subseteq G
  <2>1. 0 \in G
    BY <1>11, <1>12
  <2>2. \A j \in 1 .. n : j - 1 \in G => j \in G
    BY <1>1, <1>11, <1>12, AddBlockType
  <2> HIDE DEF G
  <2> QED
    BY <1>1, <2>1, <2>2, Reached
<1> QED
  BY <1>12, <1>13 DEF n, a

\* Block j of one call is not known when its turn comes; the blocks of which
\* this holds among the first i.
NewAt(k, data, j) == data[j] \notin Added(k, data)[j - 1].blockStore

NewTo(k, data, i) == {data[j] : j \in {x \in 1 .. i : NewAt(k, data, x)}}

LEMMA AddedKeeps ==
  ASSUME NEW k, NEW m, Adding(k, 0, m, {}), NEW data \in Seq(Block), Len(data) <= MAX_BLOCK_COUNT
  PROVE  \A i \in 0 .. Len(data) : Adding(Added(k, data)[i], i, m, NewTo(k, data, i))
<1> DEFINE n == Len(data)
           a == Added(k, data)
           G == {i \in 0 .. n : Adding(a[i], i, m, NewTo(k, data, i))}
<1>1. n \in Nat /\ n <= MAX_BLOCK_COUNT /\ \A j \in 1 .. n : data[j] \in Block
  BY LenProperties, ElementOfSeq
<1>2. MAX_BLOCK_COUNT \in Nat
  BY BlockTreeAssumption
<1>3. k \in Chart
  BY DEF Adding
<1>4. a[0] = k /\ \A j \in 1 .. n : a[j] = AddBlock(a[j - 1], data[j])
  BY <1>3, AddedValues
<1>5. \A j \in 1 .. n : NewAt(k, data, j) <=> data[j] \notin a[j - 1].blockStore
  BY DEF NewAt
<1> HIDE DEF n, a
<1>6. 0 \in G
  <2>1. NewTo(k, data, 0) = {}
    BY DEF NewTo
  <2>2. a[0] = k
    BY <1>4
  <2>3. Adding(a[0], 0, m, NewTo(k, data, 0))
    BY <2>1, <2>2, Zenon
  <2>4. 0 \in 0 .. n
    BY <1>1
  <2> QED
    BY <2>3, <2>4
<1>7. ASSUME NEW j \in 1 .. n, j - 1 \in G PROVE j \in G
  <2>1. j - 1 \in Nat /\ (j - 1) + 1 = j /\ j <= MAX_BLOCK_COUNT /\ j \in 0 .. n
    BY <1>1, <1>2
  <2>2. Adding(a[j - 1], j - 1, m, NewTo(k, data, j - 1))
    BY <1>7
  <2>3. data[j] \in Block
    BY <1>1
  <2>4. Adding(AddBlock(a[j - 1], data[j]), (j - 1) + 1, m,
               IF data[j] \in a[j - 1].blockStore THEN NewTo(k, data, j - 1)
               ELSE NewTo(k, data, j - 1) \union {data[j]})
    BY <1>2, <2>1, <2>2, <2>3, AddKeeps
  <2>5. NewTo(k, data, j) = IF data[j] \in a[j - 1].blockStore THEN NewTo(k, data, j - 1)
                            ELSE NewTo(k, data, j - 1) \union {data[j]}
    <3>1. \A x : x \in 1 .. j <=> x \in 1 .. j - 1 \/ x = j
      BY <2>1
    <3>2. NewAt(k, data, j) <=> data[j] \notin a[j - 1].blockStore
      BY <1>5
    <3> QED
      BY <3>1, <3>2 DEF NewTo
  <2>6. a[j] = AddBlock(a[j - 1], data[j])
    BY <1>4
  <2> QED
    BY <2>1, <2>4, <2>5, <2>6
<1> HIDE DEF G
<1>8. 0 .. n \subseteq G
  BY <1>1, <1>6, <1>7, Reached
<1> QED
  BY <1>8 DEF G, n, a

LEMMA WithColumns ==
  ASSUME NEW c \in Chart, NEW columns \in Seq(SUBSET Object)
  PROVE  LET d == [c EXCEPT !.renderColumns = columns]
         IN d \in Chart /\ d.rawData = c.rawData /\ d.blockStore = c.blockStore /\ d.renderColumns = columns
  BY DEF Chart

\* The lowest number of the blocks kept.
LEMMA LowestNumber ==
  ASSUME NEW raw \in Seq(Block), Len(raw) > 0
  PROVE  /\ minBlockNumber(raw) \in Nat
         /\ \A b \in ToSet(raw) : b \in Block /\ minBlockNumber(raw) <= Number[b]
<1> DEFINE S == {Number[b] : b \in ToSet(raw)}
<1>1. Len(raw) \in Nat /\ ToSet(raw) = {raw[i] : i \in 1 .. Len(raw)} /\ ToSet(raw) \subseteq Block
  BY LenProperties, ToSetIs
<1>2. 1 \in 1 .. Len(raw)
  BY <1>1
<1>3. \A b \in Block : Number[b] \in Nat
  BY BlockTreeAssumption
<1>4. S \in SUBSET Nat /\ S # {}
  BY <1>1, <1>2, <1>3
<1> HIDE DEF S
<1>5. Min(S) \in S /\ \A y \in S : Min(S) <= y
  BY <1>4, MinProperties
<1>6. minBlockNumber(raw) = Min(S)
  BY DEF minBlockNumber, S
<1>7. \A b \in ToSet(raw) : Number[b] \in S
  BY DEF S
<1> QED
  BY <1>1, <1>4, <1>5, <1>6, <1>7

\* placeBlock for one object after the other.
PlacedAll(base, objects, N, p) ==
  /\ p[0] = base
  /\ \A j \in 1 .. N : p[j] = placeBlock(p[j - 1], objects[j])

\* The blocks of the objects of blocks that are kept, among the first i.
BlocksTo(objects, i) == {objects[j].block : j \in {x \in 1 .. i : IsKept(objects[x])}}

LEMMA PlacedKeeps ==
  ASSUME NEW base, NEW K, NEW m, GoodGrid(base, K, m), NEW N \in Nat,
         NEW objects \in [1 .. N -> Object], NEW p, PlacedAll(base, objects, N, p),
         \A j \in 1 .. N : IsKept(objects[j]) =>
            /\ objects[j].block \in K /\ objects[j].row = Number[objects[j].block] - m
            /\ ~Drawn(base, objects[j].block) /\ objects[j].block \notin BlocksTo(objects, j - 1)
  PROVE  \A j \in 0 .. N : /\ GoodGrid(p[j], K, m)
                           /\ \A b : Drawn(p[j], b) <=> Drawn(base, b) \/ b \in BlocksTo(objects, j)
<1> DEFINE Good(j) == /\ GoodGrid(p[j], K, m)
                      /\ \A b : Drawn(p[j], b) <=> Drawn(base, b) \/ b \in BlocksTo(objects, j)
           G == {j \in 0 .. N : Good(j)}
<1>1. 0 \in G
  <2>1. BlocksTo(objects, 0) = {}
    BY DEF BlocksTo
  <2>2. p[0] = base
    BY DEF PlacedAll
  <2> QED
    BY <2>1, <2>2
<1>2. ASSUME NEW j \in 1 .. N, j - 1 \in G PROVE j \in G
  <2> DEFINE x == objects[j]
             q == p[j - 1]
  <2>1. x \in Object /\ p[j] = placeBlock(q, x) /\ j \in 0 .. N
    BY DEF PlacedAll
  <2>2. GoodGrid(q, K, m) /\ \A b : Drawn(q, b) <=> Drawn(base, b) \/ b \in BlocksTo(objects, j - 1)
    BY <1>2
  <2>3. IsKept(x) => /\ x.block \in K /\ x.row = Number[x.block] - m
                     /\ ~Drawn(base, x.block) /\ x.block \notin BlocksTo(objects, j - 1)
    OBVIOUS
  <2> HIDE DEF q
  <2>4. IsKept(x) => ~Drawn(q, x.block)
    BY <2>2, <2>3
  <2>5. \A b : b \in BlocksTo(objects, j) <=> b \in BlocksTo(objects, j - 1) \/ (IsKept(x) /\ x.block = b)
    <3>1. \A y : y \in 1 .. j <=> y \in 1 .. j - 1 \/ y = j
      OBVIOUS
    <3> QED
      BY <3>1 DEF BlocksTo
  <2> HIDE DEF x
  <2>6. /\ GoodGrid(placeBlock(q, x), K, m)
        /\ \A b : Drawn(placeBlock(q, x), b) <=> Drawn(q, b) \/ (IsKept(x) /\ x.block = b)
    BY <2>1, <2>2, <2>3, <2>4, PlaceKeeps
  <2>7. Good(j)
    BY <2>1, <2>2, <2>5, <2>6
  <2> QED
    BY <2>1, <2>7
<1> HIDE DEF G
<1>3. 0 .. N \subseteq G
  BY <1>1, <1>2, Reached
<1> QED
  BY <1>3 DEF G

LEMMA PlacedValues ==
  ASSUME NEW base \in Seq(SUBSET Object), NEW N \in Nat, NEW objects \in [1 .. N -> Object], NEW p,
         p = CHOOSE q : q = [i \in 0 .. N |-> IF i = 0 THEN base ELSE placeBlock(q[i - 1], objects[i])]
  PROVE  PlacedAll(base, objects, N, p)
<1> DEFINE S == Seq(SUBSET Object)
           F == [m \in 1 .. N |-> [x \in S |-> placeBlock(x, objects[m])]]
           Step(q) == [i \in 0 .. N |-> IF i = 0 THEN base ELSE placeBlock(q[i - 1], objects[i])]
<1>1. \A x \in S, m \in 1 .. N : placeBlock(x, objects[m]) \in S
  BY Placed
<1> HIDE DEF S
<1>2. F \in [1 .. N -> [S -> S]]
  BY <1>1
<1>3. \A m \in 1 .. N : \A x \in S : F[m][x] = placeBlock(x, objects[m])
  OBVIOUS
<1> HIDE DEF F
<1>4. PICK h : Values(S, base, F, N, h)
  BY <1>2, ValuesExist DEF S
<1>5. h \in [0 .. N -> S] /\ h[0] = base /\ \A m \in 1 .. N : h[m] = F[m][h[m - 1]]
  BY <1>4 DEF Values
<1>6. \A i \in 0 .. N : i # 0 => i \in 1 .. N /\ i - 1 \in 0 .. N
  OBVIOUS
<1>7. \A i \in 0 .. N : h[i] = IF i = 0 THEN base ELSE placeBlock(h[i - 1], objects[i])
  BY <1>3, <1>5, <1>6
<1>8. h = Step(h)
  BY <1>5, <1>7
<1>9. p = Step(p)
  <2>1. p = CHOOSE q : q = Step(q)
    OBVIOUS
  <2> HIDE DEF Step
  <2> QED
    BY <1>8, <2>1
<1>10. 0 \in 0 .. N /\ \A j \in 1 .. N : j \in 0 .. N /\ j # 0
  OBVIOUS
<1> QED
  BY <1>9, <1>10 DEF PlacedAll

\* The chart between two calls.
ChartInv(c) == Adding(c, 0, minBlockNumber(c.rawData), {})

\* After the blocks of one call, none twice and not too many, were added.
LEMMA AddBlocksKeep ==
  ASSUME NEW k, ChartInv(k), NEW data \in Seq(Block), Once(data), Len(data) <= MAX_BLOCK_COUNT
  PROVE  ChartInv(addBlocks(k, data))
<1> DEFINE n == Len(data)
           a == Added(k, data)
           last == a[n]
           raw == last.rawData
           K == ToSet(raw)
           low == minBlockNumber(raw)
           m == minBlockNumber(k.rawData)
           base == Reindexed(last.renderColumns, raw)
           c == prepareAndAddBlocks(k, data)
           fresh(i) == data[i] \notin a[i - 1].blockStore /\ data[i] \in ToSet(c.rawData)
           objects == [i \in 1 .. n |-> IF fresh(i) THEN Cell(data[i], "kept", RowOf(c.rawData, data[i]))
                                        ELSE Cell(data[i], "ghost", NoRow)]
           p == CHOOSE q : q = [i \in 0 .. n |-> IF i = 0 THEN c.renderColumns
                                                 ELSE placeBlock(q[i - 1], objects[i])]
           d == [c EXCEPT !.renderColumns = p[n]]
<1>1. n \in Nat /\ \A j \in 1 .. n : data[j] \in Block
  BY LenProperties, ElementOfSeq
<1>2. SUFFICES ASSUME data # <<>> PROVE ChartInv(d)
  BY DEF addBlocks
<1>3. n > 0
  BY <1>1, <1>2, EmptySeq
<1>4. \A i \in 0 .. n : Adding(a[i], i, m, NewTo(k, data, i))
  BY AddedKeeps DEF ChartInv
<1>5. n \in 0 .. n
  BY <1>1
<1>6. Adding(last, n, m, NewTo(k, data, n))
  BY <1>4, <1>5
<1>7. \A i, j \in 1 .. n : data[i] = data[j] => i = j
  BY DEF Once
<1>8. c = [last EXCEPT !.renderColumns = base]
  BY DEF prepareAndAddBlocks
<1>9. d = [c EXCEPT !.renderColumns = p[n]]
  OBVIOUS
<1> HIDE DEF n, a, last, raw, K, low, m, base, c, d
<1>10. /\ last \in Chart /\ raw \in Seq(Block) /\ last.renderColumns \in Seq(SUBSET Object)
       /\ Len(raw) <= MAX_BLOCK_COUNT /\ Once(raw) /\ Len(raw) > 0 /\ last.blockStore = K
       /\ GoodGrid(last.renderColumns, K, m)
       /\ \A b \in NewTo(k, data, n) : ~Drawn(last.renderColumns, b)
       /\ \A b \in K : Drawn(last.renderColumns, b) \/ b \in NewTo(k, data, n)
  BY <1>3, <1>6 DEF Adding, Chart, raw, K
<1>11. low \in Nat /\ \A b \in K : b \in Block /\ low <= Number[b]
  BY <1>10, LowestNumber DEF low, K
<1>12. GoodGrid(base, K, low) /\ \A b : Drawn(base, b) <=> Drawn(last.renderColumns, b)
  BY <1>10, <1>11, ReindexedKeeps DEF low, K, base
<1>13. base \in Seq(SUBSET Object)
  BY <1>12 DEF GoodGrid
<1>14. c \in Chart /\ c.rawData = raw /\ c.blockStore = K /\ c.renderColumns = base
  BY <1>8, <1>10, <1>13, WithColumns DEF raw
<1>15. ASSUME NEW j \in 1 .. n
       PROVE  /\ objects[j] \in Object /\ objects[j].block = data[j]
              /\ IsKept(objects[j]) <=> NewAt(k, data, j) /\ data[j] \in K
              /\ IsKept(objects[j]) => objects[j].row = Number[data[j]] - low
  <2>1. data[j] \in Block /\ objects[j] = (IF fresh(j) THEN Cell(data[j], "kept", RowOf(raw, data[j]))
                                           ELSE Cell(data[j], "ghost", NoRow))
    BY <1>1, <1>14
  <2>2. fresh(j) <=> NewAt(k, data, j) /\ data[j] \in K
    BY <1>14 DEF NewAt, a, K
  <2>3. RowOf(raw, data[j]) = Number[data[j]] - low
    BY DEF RowOf, low
  <2> HIDE DEF fresh, objects
  <2>4. CASE fresh(j)
    <3>1. objects[j] = Cell(data[j], "kept", Number[data[j]] - low)
      BY <2>1, <2>3, <2>4
    <3>2. Number[data[j]] \in Nat /\ low <= Number[data[j]]
      BY <1>11, <2>1, <2>2, <2>4, BlockTreeAssumption
    <3>3. Number[data[j]] - low \in Nat
      BY <1>11, <3>2
    <3>4. objects[j] \in Object
      BY <2>1, <3>1, <3>3, CellType
    <3> QED
      BY <2>2, <2>4, <3>1, <3>4 DEF Cell, IsKept
  <2>5. CASE ~fresh(j)
    <3>1. objects[j] = Cell(data[j], "ghost", NoRow)
      BY <2>1, <2>5
    <3>2. objects[j] \in Object
      BY <2>1, <3>1, CellType
    <3> QED
      BY <2>2, <2>5, <3>1, <3>2 DEF Cell, IsKept
  <2> QED
    BY <2>4, <2>5
<1>16. objects \in [1 .. n -> Object]
  BY <1>15
<1>17. PlacedAll(base, objects, n, p)
  BY <1>1, <1>13, <1>14, <1>16, PlacedValues
<1> HIDE DEF objects, p
<1>18. ASSUME NEW b PROVE b \in BlocksTo(objects, n) <=> b \in NewTo(k, data, n) /\ b \in K
  BY <1>15 DEF BlocksTo, NewTo
<1>19. ASSUME NEW j \in 1 .. n, IsKept(objects[j])
       PROVE  /\ objects[j].block \in K /\ objects[j].row = Number[objects[j].block] - low
              /\ ~Drawn(base, objects[j].block) /\ objects[j].block \notin BlocksTo(objects, j - 1)
  <2>1. /\ objects[j].block = data[j] /\ NewAt(k, data, j) /\ data[j] \in K
        /\ objects[j].row = Number[data[j]] - low
    BY <1>15, <1>19
  <2>2. data[j] \in NewTo(k, data, n)
    BY <2>1 DEF NewTo
  <2>3. ~Drawn(base, data[j])
    BY <1>10, <1>12, <2>2
  <2>4. ASSUME data[j] \in BlocksTo(objects, j - 1) PROVE FALSE
    <3>1. PICK i \in 1 .. j - 1 : data[j] = objects[i].block
      BY <2>4 DEF BlocksTo
    <3>2. i \in 1 .. n /\ i # j
      BY <1>1
    <3> QED
      BY <1>7, <1>15, <3>1, <3>2
  <2> QED
    BY <2>1, <2>3, <2>4
<1>20. /\ GoodGrid(p[n], K, low)
       /\ \A b : Drawn(p[n], b) <=> Drawn(base, b) \/ b \in BlocksTo(objects, n)
  BY <1>1, <1>5, <1>12, <1>16, <1>17, <1>19, PlacedKeeps
<1>21. \A b \in K : Drawn(p[n], b)
  BY <1>10, <1>12, <1>18, <1>20
<1>22. p[n] \in Seq(SUBSET Object)
  BY <1>20 DEF GoodGrid
<1>23. d \in Chart /\ d.rawData = raw /\ d.blockStore = K /\ d.renderColumns = p[n]
  BY <1>9, <1>14, <1>22, WithColumns
<1>24. \A j \in 1 .. Len(raw) : raw[j] \in K
  BY <1>10, ToSetIs DEF K
<1>25. Len(raw) - 0 = Len(raw)
  BY <1>10, LenProperties
<1> QED
  BY <1>10, <1>20, <1>21, <1>23, <1>24, <1>25 DEF Adding, ChartInv, K, low

\* The object of a block that is drawn is in one column, at the block's row.
LEMMA ObjectPlaces ==
  ASSUME ChartInv(chart), NEW b \in Kept
  PROVE  \E i \in DOMAIN Grid :
           /\ Cell(b, "kept", RowOf(chart.rawData, b)) \in Grid[i]
           /\ \A j \in DOMAIN Grid :
                (\E x \in Grid[j] : x.block = b /\ x.kind = "kept") => j = i
<1> DEFINE m == minBlockNumber(chart.rawData)
<1>1. /\ GoodGrid(Grid, Kept, m) /\ chart.rawData \in Seq(Block)
      /\ \A y \in Kept : Drawn(Grid, y)
  BY DEF ChartInv, Adding, Kept, Grid, Chart
<1>2. PICK i \in DOMAIN Grid : \E x \in Grid[i] : IsKept(x) /\ x.block = b
  BY <1>1 DEF Drawn
<1>3. PICK x \in Grid[i] : IsKept(x) /\ x.block = b
  BY <1>2
<1>4. x.row = Number[b] - m
  BY <1>1, <1>3 DEF GoodGrid, Fits
<1>5. x \in Object
  <2>1. Grid \in Seq(SUBSET Object)
    BY <1>1 DEF GoodGrid
  <2>2. Grid[i] \in SUBSET Object
    BY <2>1, LenProperties, ElementOfSeq
  <2> QED
    BY <2>2
<1>6. x = Cell(b, "kept", RowOf(chart.rawData, b))
  <2>1. x = [block |-> x.block, kind |-> x.kind, row |-> x.row]
    BY <1>5 DEF Object
  <2> QED
    BY <2>1, <1>3, <1>4 DEF Cell, IsKept, RowOf
<1>7. ASSUME NEW j \in DOMAIN Grid, NEW y \in Grid[j], y.block = b, y.kind = "kept" PROVE j = i
  BY <1>1, <1>3, <1>7 DEF GoodGrid, InOneColumn, IsKept
<1> QED
  BY <1>3, <1>6, <1>7

LEMMA ChartIsConsistent ==
  ASSUME ChartInv(chart) PROVE ChartConsistent
<1>1. /\ chart.rawData \in Seq(Block) /\ Len(chart.rawData) <= MAX_BLOCK_COUNT /\ Once(chart.rawData)
      /\ chart.blockStore = Kept /\ GoodGrid(Grid, Kept, minBlockNumber(chart.rawData))
  BY DEF ChartInv, Adding, Chart, Kept, Grid
<1>2. IsInjective(chart.rawData)
  BY <1>1, LenProperties DEF Once, IsInjective
<1>3. ASSUME NEW b \in Kept
      PROVE  Quantify(DOMAIN Grid, LAMBDA i : Cell(b, "kept", RowOf(chart.rawData, b)) \in Grid[i]) = 1
  <2> DEFINE x == Cell(b, "kept", RowOf(chart.rawData, b))
  <2>1. PICK i \in DOMAIN Grid :
          /\ x \in Grid[i]
          /\ \A j \in DOMAIN Grid : (\E y \in Grid[j] : y.block = b /\ y.kind = "kept") => j = i
    BY ObjectPlaces
  <2>2. x.block = b /\ x.kind = "kept"
    BY DEF Cell
  <2> HIDE DEF x
  <2>3. {j \in DOMAIN Grid : x \in Grid[j]} = {i}
    BY <2>1, <2>2
  <2>4. Cardinality({i}) = 1
    BY FS_Singleton
  <2>5. Quantify(DOMAIN Grid, LAMBDA j : x \in Grid[j]) = 1
    BY <2>3, <2>4 DEF Quantify
  <2> QED
    BY <2>5 DEF x
<1>4. \A i \in DOMAIN Grid : \A x \in Grid[i] : x.kind = "kept" => x.block \in Kept
  BY <1>1 DEF GoodGrid, Fits, IsKept
<1> QED
  BY <1>1, <1>2, <1>3, <1>4 DEF ChartConsistent

LEMMA NothingOverlaps ==
  ASSUME ChartInv(chart) PROVE NoOverlap
<1> DEFINE columnsOf(b) == {i \in DOMAIN Grid : \E x \in Grid[i] : x.block = b /\ x.kind = "kept"}
           place == renderState(chart).place
           shown == {b \in Kept : columnsOf(b) # {}}
<1>1. place = [b \in shown |-> <<Max(columnsOf(b)), RowOf(chart.rawData, b)>>]
  BY DEF renderState, Kept, Grid
<1>2. ASSUME NEW b \in Kept
      PROVE  \E i \in DOMAIN Grid :
               columnsOf(b) = {i} /\ Cell(b, "kept", RowOf(chart.rawData, b)) \in Grid[i]
  <2>1. PICK i \in DOMAIN Grid :
          /\ Cell(b, "kept", RowOf(chart.rawData, b)) \in Grid[i]
          /\ \A j \in DOMAIN Grid : (\E y \in Grid[j] : y.block = b /\ y.kind = "kept") => j = i
    BY ObjectPlaces
  <2>2. i \in columnsOf(b)
    BY <2>1 DEF Cell
  <2> QED
    BY <2>1, <2>2
<1>3. GoodGrid(Grid, Kept, minBlockNumber(chart.rawData)) /\ Grid \in Seq(SUBSET Object) /\ Kept \subseteq Block
  BY ToSetIs DEF ChartInv, Adding, Chart, Kept, Grid
<1> HIDE DEF columnsOf, place
<1>4. shown = Kept
  BY <1>2
<1>5. DOMAIN place = Kept
  BY <1>1, <1>4
<1>6. ASSUME NEW b \in Kept, NEW c \in Kept, place[b] = place[c] PROVE b = c
  <2>1. PICK i \in DOMAIN Grid :
          columnsOf(b) = {i} /\ Cell(b, "kept", RowOf(chart.rawData, b)) \in Grid[i]
    BY <1>2
  <2>2. PICK j \in DOMAIN Grid :
          columnsOf(c) = {j} /\ Cell(c, "kept", RowOf(chart.rawData, c)) \in Grid[j]
    BY <1>2
  <2>3. Max({i}) = i /\ Max({j}) = j
    <3>1. i \in Int /\ j \in Int
      BY <1>3, LenProperties
    <3> QED
      BY <3>1 DEF Max
  <2>4. i = j /\ RowOf(chart.rawData, b) = RowOf(chart.rawData, c)
    <3>1. place[b] = <<i, RowOf(chart.rawData, b)>> /\ place[c] = <<j, RowOf(chart.rawData, c)>>
      BY <1>1, <1>4, <2>1, <2>2, <2>3
    <3> DEFINE r == RowOf(chart.rawData, b)
               q == RowOf(chart.rawData, c)
    <3>2. <<i, r>> = <<j, q>>
      BY <1>6, <3>1, Zenon
    <3> HIDE DEF r, q
    <3>3. i = j /\ r = q
      BY <3>2
    <3> QED
      BY <3>3 DEF r, q
  <2> DEFINE x == Cell(b, "kept", RowOf(chart.rawData, b))
             y == Cell(c, "kept", RowOf(chart.rawData, c))
             m == minBlockNumber(chart.rawData)
  <2>5. /\ x \in Grid[i] /\ y \in Grid[i] /\ IsKept(x) /\ IsKept(y) /\ x.block = b /\ y.block = c
        /\ x.row = y.row
    BY <2>1, <2>2, <2>4 DEF Cell, IsKept
  <2>6. m \in Nat /\ Number[b] \in Nat /\ Number[c] \in Nat
    <3>1. chart.rawData \in Seq(Block)
      BY DEF ChartInv, Adding, Chart
    <3>2. Len(chart.rawData) > 0
      BY <3>1, ToSetIs, LenProperties DEF Kept
    <3>3. \A z \in Block : Number[z] \in Nat
      BY BlockTreeAssumption
    <3> QED
      BY <1>3, <3>1, <3>2, <3>3, LowestNumber
  <2>7. Number[b] = Number[c]
    <3>1. Number[b] - m = Number[c] - m
      BY <2>4 DEF RowOf
    <3> HIDE DEF m
    <3> QED
      BY <2>6, <3>1
  <2> HIDE DEF x, y, m
  <2>8. x = y
    BY <1>3, <2>5, <2>7 DEF GoodGrid, Apart
  <2> QED
    BY <2>5, <2>8
<1> QED
  BY <1>5, <1>6 DEF NoOverlap, IsInjective, place

-----------------------------------------------------------------------------
\* The page.  What chartData holds: no block twice, and not too many.
Buffer == {s \in Seq(Block) : Once(s) /\ Len(s) <= PendingLimit}

\* The inductive invariant: the chart and what will be handed to it ...
DrawingInv ==
  /\ chartData \in [Visit -> Buffer]
  /\ timeoutPromise \in [Visit -> {"none", "set", "failed"}]
  /\ ChartInv(chart)

\* ... and the rest: blocks come to a page that is open only, and an answer of
\* the server has blocks.
PageInv ==
  /\ imported \in 0 .. Len(ImportOrder)
  /\ visit \in 0 .. MaxRequests /\ visits \in 0 .. MaxRequests /\ reconnects \in Nat
  /\ configLoaded \in BOOLEAN
  /\ svg \in 0 .. MaxRequests
  /\ created \subseteq Visit /\ polling \subseteq Visit
  /\ subscribed \in {"no", "pending", "yes"}
  /\ visit = 0 => subscribed = "no" /\ snapshot = None
  /\ snapshot \notin {None, Asked} => \E s \in Seq(Block) : snapshot = Answer(s)

HomeInv == PageInv /\ DrawingInv

LEMMA HomeConstants ==
  /\ ImportOrder \in Seq(Block) /\ Len(ImportOrder) \in Nat
  /\ PendingLimit \in Nat \ {0} /\ PendingLimit <= MAX_BLOCK_COUNT /\ MAX_BLOCK_COUNT \in Nat
  /\ MaxRequests \in Nat
  BY HomePageAssumption, BlockTreeAssumption, LenProperties

LEMMA EmptyBuffer == <<>> \in Buffer
<1>1. <<>> \in Seq(Block) /\ Len(<<>>) = 0
  BY EmptySeq
<1> QED
  BY <1>1, HomeConstants DEF Buffer, Once

LEMMA BufferGrows ==
  ASSUME NEW s \in Buffer, NEW b \in Block
  PROVE  addBlock(s, b) \in Buffer
<1>1. s \in Seq(Block) /\ Once(s) /\ Len(s) <= PendingLimit /\ Len(s) \in Nat
  BY LenProperties DEF Buffer
<1>2. PendingLimit \in Nat /\ PendingLimit >= 1
  BY HomeConstants
<1>3. ToSet(s) = {s[i] : i \in 1 .. Len(s)}
  BY <1>1, ToSetIs
<1>4. Contains(s, b) <=> b \in ToSet(s)
  BY <1>3 DEF Contains
<1>5. CASE Contains(s, b)
  BY <1>5 DEF addBlock
<1>6. CASE ~Contains(s, b) /\ Len(s) >= PendingLimit
  <2>1. s # <<>>
    BY <1>1, <1>2, <1>6, EmptySeq
  <2>2. /\ Tail(s) \in Seq(Block) /\ Len(Tail(s)) = Len(s) - 1 /\ Once(Tail(s))
        /\ ToSet(Tail(s)) = ToSet(s) \ {Head(s)}
    BY <1>1, <2>1, TailOnce
  <2>3. b \notin ToSet(Tail(s))
    BY <1>4, <1>6, <2>2
  <2>4. /\ Append(Tail(s), b) \in Seq(Block) /\ Len(Append(Tail(s), b)) = Len(Tail(s)) + 1
        /\ Once(Append(Tail(s), b))
    BY <2>2, <2>3, AppendedOnce
  <2>5. Len(Append(Tail(s), b)) <= PendingLimit
    BY <1>1, <1>2, <2>2, <2>4
  <2>6. addBlock(s, b) = Append(Tail(s), b)
    BY <1>6 DEF addBlock
  <2> QED
    BY <2>4, <2>5, <2>6 DEF Buffer
<1>7. CASE ~Contains(s, b) /\ ~(Len(s) >= PendingLimit)
  <2>1. Append(s, b) \in Seq(Block) /\ Len(Append(s, b)) = Len(s) + 1 /\ Once(Append(s, b))
    BY <1>1, <1>4, <1>7, AppendedOnce
  <2>2. Len(Append(s, b)) <= PendingLimit
    BY <1>1, <1>2, <1>7, <2>1
  <2>3. addBlock(s, b) = Append(s, b)
    BY <1>7 DEF addBlock
  <2> QED
    BY <2>1, <2>2, <2>3 DEF Buffer
<1> QED
  BY <1>5, <1>6, <1>7

LEMMA BufferTakesAll ==
  ASSUME NEW s \in Buffer, NEW blocks \in Seq(Block)
  PROVE  addAll(s, blocks) \in Buffer
<1> DEFINE n == Len(blocks)
           F == [m \in 1 .. n |-> [x \in Buffer |-> addBlock(x, blocks[m])]]
           Step(c) == [i \in 0 .. n |-> IF i = 0 THEN s ELSE addBlock(c[i - 1], blocks[i])]
           all == CHOOSE c : c = Step(c)
<1>1. n \in Nat /\ \A j \in 1 .. n : blocks[j] \in Block
  BY LenProperties, ElementOfSeq
<1>2. F \in [1 .. n -> [Buffer -> Buffer]]
  BY <1>1, BufferGrows
<1>3. \A m \in 1 .. n : \A x \in Buffer : F[m][x] = addBlock(x, blocks[m])
  OBVIOUS
<1>4. addAll(s, blocks) = all[n]
  BY DEF addAll
<1> HIDE DEF F, n
<1>5. PICK h : Values(Buffer, s, F, n, h)
  BY <1>1, <1>2, ValuesExist
<1>6. h \in [0 .. n -> Buffer] /\ h[0] = s /\ \A m \in 1 .. n : h[m] = F[m][h[m - 1]]
  BY <1>5 DEF Values
<1>7. \A i \in 0 .. n : i # 0 => i \in 1 .. n /\ i - 1 \in 0 .. n
  BY <1>1
<1>8. \A i \in 0 .. n : h[i] = IF i = 0 THEN s ELSE addBlock(h[i - 1], blocks[i])
  BY <1>3, <1>6, <1>7
<1>9. h = Step(h)
  BY <1>6, <1>8
<1>10. all = Step(all)
  <2> HIDE DEF Step
  <2> QED
    BY <1>9
<1> HIDE DEF all
<1>11. n \in 0 .. n /\ 0 \in 0 .. n /\ \A j \in 1 .. n : j \in 0 .. n /\ j # 0
  BY <1>1
<1>12. all[0] = s /\ \A j \in 1 .. n : all[j] = addBlock(all[j - 1], blocks[j])
  BY <1>10, <1>11
<1> DEFINE G == {j \in 0 .. n : all[j] \in Buffer}
<1>13. 0 .. n \subseteq G
  <2>1. 0 \in G
    BY <1>11, <1>12
  <2>2. \A j \in 1 .. n : j - 1 \in G => j \in G
    BY <1>1, <1>11, <1>12, BufferGrows
  <2> HIDE DEF G
  <2> QED
    BY <1>1, <2>1, <2>2, Reached
<1> QED
  BY <1>4, <1>11, <1>13

LEMMA LastBlocksAre ==
  ASSUME imported \in 0 .. Len(ImportOrder)
  PROVE  LastBlocks \in Seq(Block)
<1> DEFINE lo == IF imported > PendingLimit + 1 THEN imported - PendingLimit ELSE 1
<1>1. lo \in Nat \ {0} /\ imported \in Int
  BY HomeConstants
<1>2. \A i \in lo .. imported : ImportOrder[i] \in Block
  <2>1. \A i \in lo .. imported : i \in 1 .. Len(ImportOrder)
    BY <1>1, HomeConstants
  <2> QED
    BY <2>1, HomeConstants, ElementOfSeq
<1>3. LastBlocks = SubSeq(ImportOrder, lo, imported)
  BY DEF LastBlocks
<1> HIDE DEF lo
<1> QED
  BY <1>1, <1>2, <1>3, SubSeqProperties

LEMMA EmptyChartInv == ChartInv(EmptyChart)
<1>1. <<>> \in Seq(Block) /\ <<>> \in Seq(SUBSET Object) /\ Len(<<>>) = 0
  BY EmptySeq
<1>2. EmptyChart \in Chart
  BY <1>1 DEF EmptyChart, Chart
<1>3. EmptyChart.rawData = <<>> /\ EmptyChart.blockStore = {} /\ EmptyChart.renderColumns = <<>>
  BY DEF EmptyChart
<1>4. ToSet(<<>>) = {}
  BY DEF ToSet
<1>5. 0 <= MAX_BLOCK_COUNT /\ Once(<<>>)
  BY <1>1, HomeConstants DEF Once
<1>6. ASSUME NEW m PROVE GoodGrid(<<>>, {}, m)
  BY <1>1 DEF GoodGrid, Fits, Apart, InOneColumn
<1> DEFINE e == EmptyChart
           m == minBlockNumber(<<>>)
<1>7. minBlockNumber(e.rawData) = m
  BY <1>3
<1> HIDE DEF e, m
<1>8. GoodGrid(e.renderColumns, ToSet(e.rawData), m)
  BY <1>3, <1>4, <1>6, Zenon DEF e
<1>9. Len(e.rawData) = 0 /\ Once(e.rawData) /\ e.blockStore = ToSet(e.rawData) /\ ToSet(e.rawData) = {}
  BY <1>1, <1>3, <1>4, <1>5, Zenon DEF e
<1>10. Adding(e, 0, m, {})
  BY <1>2, <1>5, <1>8, <1>9 DEF Adding, e
<1> QED
  BY <1>7, <1>10 DEF ChartInv, e

-----------------------------------------------------------------------------
LEMMA DrawHolds ==
  ASSUME DrawingInv, NEW v \in Visit, NEW data \in Buffer, Draw(v, data)
  PROVE  chartData' \in [Visit -> Buffer] /\ ChartInv(chart')
<1>1. data \in Seq(Block) /\ Once(data) /\ Len(data) <= MAX_BLOCK_COUNT
  BY HomeConstants, LenProperties DEF Buffer
<1>2. ChartInv(addBlocks(chart, data))
  BY <1>1, AddBlocksKeep DEF DrawingInv
<1> QED
  BY <1>2, EmptyBuffer DEF Draw, DrawingInv

LEMMA RedrawKeeps ==
  ASSUME DrawingInv, NEW v \in Visit, NEW data \in Buffer, NEW made, NEW long,
         redrawChartLater(v, data, made, long)
  PROVE  DrawingInv'
<1>1. CASE UNCHANGED chart /\ chartData' = [chartData EXCEPT ![v] = data]
  <2>1. chartData' \in [Visit -> Buffer] /\ ChartInv(chart')
    BY <1>1 DEF DrawingInv
  <2>2. timeoutPromise' \in [Visit -> {"none", "set", "failed"}]
    BY DEF redrawChartLater, DrawingInv
  <2> QED
    BY <2>1, <2>2 DEF DrawingInv
<1>2. CASE Draw(v, data) /\ timeoutPromise' = [timeoutPromise EXCEPT ![v] = "set"]
  <2>1. chartData' \in [Visit -> Buffer] /\ ChartInv(chart')
    BY <1>2, DrawHolds
  <2> QED
    BY <1>2, <2>1 DEF DrawingInv
<1> QED
  BY <1>1, <1>2 DEF redrawChartLater

LEMMA CreateKeeps ==
  ASSUME HomeInv, NEW v \in Visit, NEW long, createChart(v, long)
  PROVE  DrawingInv' /\ created' \subseteq Visit /\ svg' \in 0 .. MaxRequests
<1>1. DrawingInv /\ created \subseteq Visit /\ svg \in 0 .. MaxRequests /\ chartData[v] \in Buffer
  BY DEF HomeInv, PageInv, DrawingInv
<1>2. CASE configLoaded
  <2>1. DrawingInv'
    <3>1. redrawChartLater(v, chartData[v], created \union {v}, long)
      BY <1>2 DEF createChart
    <3> QED
      BY <1>1, <3>1, RedrawKeeps
  <2>2. created' = created \union {v} /\ svg' = v
    BY <1>2 DEF createChart
  <2>3. v \in 0 .. MaxRequests
    BY HomeConstants DEF Visit
  <2> QED
    BY <1>1, <2>1, <2>2, <2>3
<1>3. CASE ~configLoaded
  <2>1. UNCHANGED <<created, svg, chart, chartData, timeoutPromise>>
    BY <1>3 DEF createChart
  <2> QED
    BY <1>1, <2>1 DEF DrawingInv
<1> QED
  BY <1>2, <1>3

LEMMA HomeInvInit == Init => HomeInv
<1> SUFFICES ASSUME Init PROVE HomeInv
  OBVIOUS
<1>1. PageInv
  BY HomeConstants DEF Init, PageInv
<1>2. DrawingInv
  BY EmptyBuffer, EmptyChartInv DEF Init, DrawingInv
<1> QED
  BY <1>1, <1>2 DEF HomeInv

LEMMA HomeInvNext == HomeInv /\ [Next]_vars => HomeInv'
<1> SUFFICES ASSUME HomeInv, [Next]_vars PROVE HomeInv'
  OBVIOUS
<1> USE HomeConstants
<1>0. PageInv /\ DrawingInv
  BY DEF HomeInv
<1>1. CASE Open
  <2>1. visits + 1 \in Visit
    BY <1>0, <1>1 DEF Open, PageInv, Visit
  <2>2. DrawingInv' /\ created' \subseteq Visit /\ svg' \in 0 .. MaxRequests
    BY <1>1, <2>1, CreateKeeps DEF Open
  <2>3. polling' \subseteq Visit
    BY <1>0, <1>1, <2>1 DEF Open, PageInv
  <2>4. PageInv'
    BY <1>0, <1>1, <2>1, <2>2, <2>3 DEF Open, PageInv, Visit, Asked
  <2> QED
    BY <2>2, <2>4 DEF HomeInv
<1>2. CASE Leave
  BY <1>0, <1>2 DEF Leave, chartVars, HomeInv, PageInv, DrawingInv
<1>3. CASE connectedEvent
  <2>1. visit \in Visit
    BY <1>0, <1>3 DEF connectedEvent, PageInv, Visit
  <2>2. DrawingInv'
    BY <1>0, <1>3, <2>1, EmptyBuffer DEF connectedEvent, DrawingInv
  <2>3. PageInv'
    BY <1>0, <1>3 DEF connectedEvent, PageInv
  <2> QED
    BY <2>2, <2>3 DEF HomeInv
<1>4. CASE initialInfo
  BY <1>0, <1>4 DEF initialInfo, serverVars, chartVars, HomeInv, PageInv, DrawingInv
<1>5. ASSUME NEW v \in Visit, awaitConfigLoadRun(v) PROVE HomeInv'
  <2>1. UNCHANGED <<serverVars, pageVars>> /\ v \in polling
    BY <1>5 DEF awaitConfigLoadRun
  <2>2. CASE v \in created
    <3>1. polling' = polling \ {v} /\ UNCHANGED <<created, svg, chart, chartData, timeoutPromise>>
      BY <1>5, <2>2 DEF awaitConfigLoadRun
    <3> QED
      BY <1>0, <2>1, <3>1 DEF serverVars, pageVars, HomeInv, PageInv, DrawingInv
  <2>3. CASE v \notin created
    <3>1. PICK long \in BOOLEAN : createChart(v, long) /\ UNCHANGED polling
      BY <1>5, <2>3 DEF awaitConfigLoadRun
    <3>2. DrawingInv' /\ created' \subseteq Visit /\ svg' \in 0 .. MaxRequests
      BY <3>1, CreateKeeps
    <3> QED
      BY <1>0, <2>1, <3>1, <3>2 DEF serverVars, pageVars, HomeInv, PageInv
  <2> QED
    BY <2>2, <2>3
<1>6. ASSUME NEW v \in Visit, RedrawTimer(v) PROVE HomeInv'
  <2>1. DrawingInv'
    <3>1. CASE v \in created
      <4>1. Draw(v, chartData[v]) /\ timeoutPromise' = [timeoutPromise EXCEPT ![v] = "none"]
        BY <1>6, <3>1 DEF RedrawTimer
      <4>2. chartData[v] \in Buffer
        BY <1>0 DEF DrawingInv
      <4>3. chartData' \in [Visit -> Buffer] /\ ChartInv(chart')
        BY <1>0, <4>1, <4>2, DrawHolds
      <4> QED
        BY <1>0, <4>1, <4>3 DEF DrawingInv
    <3>2. CASE v \notin created
      BY <1>0, <1>6, <3>2 DEF RedrawTimer, DrawingInv
    <3> QED
      BY <3>1, <3>2
  <2> QED
    BY <1>0, <1>6, <2>1 DEF RedrawTimer, serverVars, pageVars, HomeInv, PageInv
<1>7. CASE newBlockInfoEvent
  <2>1. imported + 1 \in 1 .. Len(ImportOrder) /\ imported' = imported + 1
    BY <1>0, <1>7 DEF newBlockInfoEvent, PageInv
  <2>2. DrawingInv'
    <3>1. CASE subscribed = "yes"
      <4>1. visit \in Visit
        BY <1>0, <3>1 DEF PageInv, Visit
      <4>2. PICK long \in BOOLEAN :
              redrawChartLater(visit, addBlock(chartData[visit], ImportOrder[imported']), created, long)
        BY <1>7, <3>1 DEF newBlockInfoEvent
      <4>3. ImportOrder[imported'] \in Block
        BY <2>1, ElementOfSeq
      <4>4. addBlock(chartData[visit], ImportOrder[imported']) \in Buffer
        BY <1>0, <4>1, <4>3, BufferGrows DEF DrawingInv
      <4> QED
        BY <1>0, <4>1, <4>2, <4>4, RedrawKeeps
    <3>2. CASE subscribed # "yes"
      BY <1>0, <1>7, <3>2 DEF newBlockInfoEvent, DrawingInv
    <3> QED
      BY <3>1, <3>2
  <2> QED
    BY <1>0, <1>7, <2>1, <2>2 DEF newBlockInfoEvent, pageVars, HomeInv, PageInv
<1>8. CASE ServerSubscribes
  BY <1>0, <1>8 DEF ServerSubscribes, pageVars, chartVars, HomeInv, PageInv, DrawingInv
<1>9. CASE ServerAnswers
  <2>1. LastBlocks \in Seq(Block) /\ visit # 0
    BY <1>0, <1>9, LastBlocksAre DEF ServerAnswers, PageInv, Asked, None
  <2>2. snapshot' = Answer(LastBlocks)
    BY <1>9 DEF ServerAnswers
  <2> HIDE DEF HomeConstants
  <2>3. DrawingInv'
    BY <1>0, <1>9 DEF ServerAnswers, chartVars, DrawingInv
  <2>4. PageInv'
    BY <1>0, <1>9, <2>1, <2>2 DEF ServerAnswers, pageVars, chartVars, PageInv
  <2> QED
    BY <2>3, <2>4 DEF HomeInv
<1>10. CASE currentBlocksEvent
  <2>1. PICK s \in Seq(Block) : snapshot = Answer(s)
    BY <1>0, <1>10 DEF currentBlocksEvent, PageInv
  <2>2. snapshot[2] = s
    BY <2>1 DEF Answer
  <2>3. visit \in Visit
    BY <1>0, <1>10 DEF currentBlocksEvent, PageInv, Visit
  <2>4. PICK long \in BOOLEAN :
          redrawChartLater(visit, addAll(chartData[visit], snapshot[2]), created, long)
    BY <1>10 DEF currentBlocksEvent
  <2>5. addAll(chartData[visit], snapshot[2]) \in Buffer
    BY <1>0, <2>2, <2>3, BufferTakesAll DEF DrawingInv
  <2>6. DrawingInv'
    BY <1>0, <2>3, <2>4, <2>5, RedrawKeeps
  <2> QED
    BY <1>0, <1>10, <2>6 DEF currentBlocksEvent, pageVars, HomeInv, PageInv
<1>11. CASE UNCHANGED vars
  BY <1>0, <1>11 DEF vars, serverVars, pageVars, chartVars, HomeInv, PageInv, DrawingInv
<1> QED
  BY <1>1, <1>2, <1>3, <1>4, <1>5, <1>6, <1>7, <1>8, <1>9, <1>10, <1>11 DEF Next

\* ChartSound, of HomePage.tla: whatever was imported, sent twice, overtaken by
\* a snapshot or drawn by the timer of a page that was left (addBlocks and
\* checkForRemove of blockchain-view.js, addBlock and redrawChartLater of
\* home.controller.js), the chart's three structures agree and each block kept is
\* drawn once, in a place of its own.
THEOREM ChartHolds == Spec => []ChartSound
<1>1. HomeInv => ChartSound
  <2> SUFFICES ASSUME HomeInv PROVE ChartSound
    OBVIOUS
  <2>1. PageInv /\ DrawingInv /\ ChartInv(chart)
    BY DEF HomeInv, DrawingInv
  <2>2. \A v \in Visit : Len(chartData[v]) <= PendingLimit
    BY <2>1 DEF DrawingInv, Buffer
  <2>3. TypeOK
    BY <2>1, <2>2 DEF PageInv, DrawingInv, TypeOK
  <2> QED
    BY <2>1, <2>3, ChartIsConsistent, NothingOverlaps DEF ChartSound
<1> QED
  BY <1>1, HomeInvInit, HomeInvNext, PTL DEF Spec

-----------------------------------------------------------------------------
\* Recursion down from each element c of D to up[c], of lower rank, has a value.
Ranked(D, N, rank, Q, up) ==
  /\ N \in Nat /\ rank \in [D -> 1 .. N]
  /\ Q \in SUBSET D /\ up \in [Q -> D] /\ \A c \in Q : rank[up[c]] < rank[c]

HasValue(D, X, Q, up, base, F) ==
  \E h \in [D -> X] : \A c \in D : h[c] = IF c \in Q THEN F[c][h[up[c]]] ELSE base[c]

LEMMA RecursionHasValue ==
  ASSUME NEW D, NEW X, NEW N, NEW rank, NEW Q, NEW up, Ranked(D, N, rank, Q, up),
         NEW base \in [D -> X], NEW F \in [D -> [X -> X]]
  PROVE  HasValue(D, X, Q, up, base, F)
<1>0. /\ N \in Nat /\ rank \in [D -> 1 .. N]
      /\ Q \in SUBSET D /\ up \in [Q -> D] /\ \A c \in Q : rank[up[c]] < rank[c]
  BY DEF Ranked
<1> DEFINE S == [D -> X]
           Refined(g) == [c \in D |-> IF c \in Q THEN F[c][g[up[c]]] ELSE base[c]]
           Steps == [m \in 1 .. N |-> [g \in S |-> Refined(g)]]
<1>1. \A g \in S : Refined(g) \in S /\ \A c \in D : Refined(g)[c] = IF c \in Q THEN F[c][g[up[c]]] ELSE base[c]
  BY <1>0
<1>2. base \in S
  OBVIOUS
<1> HIDE DEF S, Refined
<1>3. Steps \in [1 .. N -> [S -> S]] /\ \A m \in 1 .. N : \A g \in S : Steps[m][g] = Refined(g)
  BY <1>1
<1> HIDE DEF Steps
<1>4. PICK v : Values(S, base, Steps, N, v)
  BY <1>0, <1>2, <1>3, ValuesExist
<1>5. /\ \A m \in 0 .. N : v[m] \in S
      /\ \A m \in 1 .. N : v[m] = Steps[m][v[m - 1]]
  BY <1>4 DEF Values
<1>6. \A m \in 1 .. N : m - 1 \in 0 .. N /\ m \in 0 .. N /\ v[m] = Refined(v[m - 1])
  BY <1>0, <1>3, <1>5
<1> DEFINE G == {m \in 0 .. N : \A c \in D : rank[c] <= m => Refined(v[m])[c] = v[m][c]}
<1>7. 0 \in G
  <2>1. \A c \in D : ~(rank[c] <= 0)
    BY <1>0
  <2> QED
    BY <1>0, <2>1
<1>8. ASSUME NEW m \in 1 .. N, m - 1 \in G PROVE m \in G
  <2>1. m \in 0 .. N /\ m - 1 \in 0 .. N /\ v[m] \in S /\ v[m - 1] \in S /\ v[m] = Refined(v[m - 1])
    BY <1>5, <1>6
  <2>2. \A c \in D : rank[c] <= m - 1 => v[m][c] = v[m - 1][c]
    BY <1>8, <2>1
  <2>3. ASSUME NEW c \in D, rank[c] <= m PROVE Refined(v[m])[c] = v[m][c]
    <3>1. CASE c \in Q
      <4>1. up[c] \in D /\ rank[up[c]] <= m - 1
        BY <1>0, <2>3, <3>1
      <4>2. v[m][up[c]] = v[m - 1][up[c]]
        BY <2>2, <4>1
      <4>3. Refined(v[m])[c] = F[c][v[m][up[c]]] /\ v[m][c] = F[c][v[m - 1][up[c]]]
        BY <1>1, <2>1, <3>1
      <4> QED
        BY <4>2, <4>3
    <3>2. CASE c \notin Q
      BY <1>1, <2>1, <3>2
    <3> QED
      BY <3>1, <3>2
  <2> QED
    BY <2>1, <2>3
<1> HIDE DEF G
<1>9. 0 .. N \subseteq G
  BY <1>0, <1>7, <1>8, Reached
<1>10. N \in G /\ v[N] \in S
  <2>1. N \in 0 .. N
    BY <1>0
  <2> QED
    BY <1>5, <1>9, <2>1
<1>11. \A c \in D : Refined(v[N])[c] = v[N][c]
  <2>1. \A c \in D : rank[c] <= N
    BY <1>0
  <2> QED
    BY <1>10, <2>1 DEF G
<1>12. \A c \in D : v[N][c] = IF c \in Q THEN F[c][v[N][up[c]]] ELSE base[c]
  BY <1>1, <1>10, <1>11
<1> QED
  BY <1>10, <1>12 DEF S, HasValue

\* One of finitely many numbers is the greatest.
LEMMA GreatestExists ==
  ASSUME NEW n \in Nat, n > 0, NEW f, \A i \in 1 .. n : f[i] \in Nat
  PROVE  \E i \in 1 .. n : \A j \in 1 .. n : f[i] >= f[j]
<1> DEFINE G == {j \in 0 .. n : j > 0 => \E i \in 1 .. j : \A k \in 1 .. j : f[i] >= f[k]}
<1>1. 0 \in G
  OBVIOUS
<1>2. ASSUME NEW j \in 1 .. n, j - 1 \in G PROVE j \in G
  <2>1. j \in 0 .. n /\ \A k \in 1 .. j : k \in 1 .. n /\ (k \in 1 .. j - 1 \/ k = j)
    OBVIOUS
  <2>2. CASE j = 1
    <3>1. \A k \in 1 .. j : k = j /\ f[k] \in Nat
      BY <2>1, <2>2
    <3>2. j \in 1 .. j /\ \A k \in 1 .. j : f[j] >= f[k]
      BY <2>2, <3>1
    <3> QED
      BY <2>1, <3>2
  <2>3. CASE j # 1
    <3>1. PICK i \in 1 .. j - 1 : \A k \in 1 .. j - 1 : f[i] >= f[k]
      BY <1>2, <2>3
    <3>2. i \in 1 .. j /\ j \in 1 .. j /\ f[i] \in Nat /\ f[j] \in Nat
      BY <2>1
    <3>3. CASE f[i] >= f[j]
      <4>1. \A k \in 1 .. j : f[i] >= f[k]
        BY <2>1, <3>1, <3>3
      <4> QED
        BY <2>1, <3>2, <4>1
    <3>4. CASE ~(f[i] >= f[j])
      <4>1. ASSUME NEW k \in 1 .. j PROVE f[j] >= f[k]
        <5>1. CASE k = j
          BY <3>2, <5>1
        <5>2. CASE k \in 1 .. j - 1
          <6>1. f[i] >= f[k] /\ f[k] \in Nat
            BY <3>1, <5>2, <2>1
          <6> QED
            BY <6>1, <3>2, <3>4
        <5> QED
          BY <2>1, <5>1, <5>2
      <4> QED
        BY <2>1, <3>2, <4>1
    <3> QED
      BY <3>3, <3>4
  <2> QED
    BY <2>2, <2>3
<1> HIDE DEF G
<1>3. 0 .. n \subseteq G
  BY <1>1, <1>2, Reached
<1>4. n \in G
  BY <1>3
<1> QED
  BY <1>4 DEF G

-----------------------------------------------------------------------------
\* Chains of blocks, when they came parents first.
Count == Len(chart.rawData)

\* When block b came.
Place(b) == CHOOSE i \in 1 .. Count : chart.rawData[i] = b

\* The blocks kept whose parent is kept.
Based == {b \in Kept : Parent[b] \in Kept}

InOrder ==
  /\ chart.rawData \in Seq(Block) /\ Once(chart.rawData) /\ chart.blockStore = Kept
  /\ ParentsFirst /\ Kept # {}

LEMMA PlaceFacts ==
  ASSUME InOrder
  PROVE  /\ Count \in Nat /\ Count > 0 /\ Kept \subseteq Block
         /\ \A i \in 1 .. Count : chart.rawData[i] \in Kept /\ Place(chart.rawData[i]) = i
         /\ \A b \in Kept : Place(b) \in 1 .. Count /\ chart.rawData[Place(b)] = b
         /\ \A b \in Based : Place(Parent[b]) < Place(b)
         /\ \A b \in Based : Number[Parent[b]] + 1 = Number[b]
         /\ \A b \in Kept : Number[b] \in Nat /\ Difficulty[b] \in Nat
<1> DEFINE raw == chart.rawData
<1>1. Count \in Nat /\ DOMAIN raw = 1 .. Count /\ Kept = {raw[i] : i \in 1 .. Count} /\ Kept \subseteq Block
  BY LenProperties, ToSetIs DEF InOrder, Count, Kept
<1>2. \A i, j \in 1 .. Count : raw[i] = raw[j] => i = j
  BY DEF InOrder, Once, Count
<1>3. \A i, j \in 1 .. Count : raw[i] = Parent[raw[j]] => i < j
  BY <1>1 DEF InOrder, ParentsFirst
<1>4. Kept # {}
  BY DEF InOrder
<1> HIDE DEF raw
<1>5. ASSUME NEW b \in Kept PROVE Place(b) \in 1 .. Count /\ raw[Place(b)] = b
  <2>1. \E i \in 1 .. Count : raw[i] = b
    BY <1>1
  <2> QED
    BY <2>1 DEF Place, raw
<1>6. \A i \in 1 .. Count : raw[i] \in Kept /\ Place(raw[i]) = i
  BY <1>1, <1>2, <1>5
<1>7. ASSUME NEW b \in Based PROVE Place(Parent[b]) < Place(b)
  <2>1. b \in Kept /\ Parent[b] \in Kept
    BY DEF Based
  <2>2. /\ Place(b) \in 1 .. Count /\ raw[Place(b)] = b
        /\ Place(Parent[b]) \in 1 .. Count /\ raw[Place(Parent[b])] = Parent[b]
    BY <1>5, <2>1
  <2> QED
    BY <1>3, <2>2
<1>8. Count > 0
  BY <1>1, <1>4
<1>9. \A b \in Block : Number[b] \in Nat /\ Difficulty[b] \in Nat /\ (Parent[b] \in Block => Number[Parent[b]] + 1 = Number[b])
  BY BlockTreeAssumption
<1>10. \A b \in Based : b \in Block /\ Parent[b] \in Block
  BY <1>1 DEF Based
<1> QED
  BY <1>1, <1>5, <1>6, <1>7, <1>8, <1>9, <1>10 DEF raw

\* The lineage of a block is the block and the lineage of its parent.
LEMMA LineageIs ==
  ASSUME InOrder
  PROVE  \A b \in Kept : /\ Lineage(b) \subseteq Kept
                         /\ Lineage(b) = {b} \union (IF b \in Based THEN Lineage(Parent[b]) ELSE {})
<1> DEFINE X == SUBSET Kept
           rank == [b \in Kept |-> Place(b)]
           up == [b \in Based |-> Parent[b]]
           base == [b \in Kept |-> {b}]
           F == [b \in Kept |-> [s \in X |-> {b} \union s]]
           Step(l) == [c \in Kept |-> {c} \union (IF Parent[c] \in Kept THEN l[Parent[c]] ELSE {})]
           line == CHOOSE l : l = Step(l)
<1>1. Count \in Nat /\ rank \in [Kept -> 1 .. Count] /\ Based \in SUBSET Kept /\ up \in [Based -> Kept]
      /\ base \in [Kept -> X] /\ F \in [Kept -> [X -> X]]
  BY PlaceFacts DEF Based
<1>2. \A c \in Based : rank[up[c]] < rank[c]
  BY PlaceFacts DEF Based
<1>3. /\ \A b \in Kept : base[b] = {b} /\ \A s \in X : F[b][s] = {b} \union s
      /\ \A b \in Based : up[b] = Parent[b]
  OBVIOUS
<1> HIDE DEF X, rank, up, base, F
<1>4. PICK h \in [Kept -> X] :
        \A c \in Kept : h[c] = IF c \in Based THEN F[c][h[up[c]]] ELSE base[c]
  <2>1. Ranked(Kept, Count, rank, Based, up)
    BY <1>1, <1>2 DEF Ranked
  <2>2. HasValue(Kept, X, Based, up, base, F)
    BY <1>1, <2>1, RecursionHasValue
  <2> QED
    BY <2>2 DEF HasValue
<1>5. ASSUME NEW c \in Kept
      PROVE  h[c] = {c} \union (IF Parent[c] \in Kept THEN h[Parent[c]] ELSE {})
  <2>1. CASE c \in Based
    <3>1. Parent[c] \in Kept /\ h[Parent[c]] \in X
      BY <2>1 DEF Based
    <3> QED
      BY <1>3, <1>4, <2>1, <3>1
  <2>2. CASE c \notin Based
    <3>1. Parent[c] \notin Kept
      BY <2>2 DEF Based
    <3> QED
      BY <1>3, <1>4, <2>2, <3>1
  <2> QED
    BY <2>1, <2>2
<1>6. h = Step(h)
  BY <1>5
<1>7. line = Step(line)
  <2> HIDE DEF Step
  <2> QED
    BY <1>6
<1>8. \A b \in Kept : Lineage(b) = line[b]
  BY DEF Lineage
<1> HIDE DEF line
<1>9. \A b \in Kept : line[b] = {b} \union (IF b \in Based THEN line[Parent[b]] ELSE {})
  BY <1>7 DEF Based
<1>10. \A b \in Based : Parent[b] \in Kept
  BY DEF Based
<1> DEFINE G == {j \in 0 .. Count : \A b \in Kept : Place(b) <= j => line[b] \subseteq Kept}
<1>11. 0 \in G
  <2>1. \A b \in Kept : ~(Place(b) <= 0)
    BY PlaceFacts
  <2> QED
    BY <1>1, <2>1
<1>12. ASSUME NEW j \in 1 .. Count, j - 1 \in G PROVE j \in G
  <2>1. ASSUME NEW b \in Kept, Place(b) <= j PROVE line[b] \subseteq Kept
    <3>1. CASE b \in Based
      <4>1. Parent[b] \in Kept /\ Place(Parent[b]) <= j - 1
        BY <1>10, <2>1, <3>1, PlaceFacts
      <4> QED
        BY <1>9, <1>12, <3>1, <4>1
    <3>2. CASE b \notin Based
      BY <1>9, <3>2
    <3> QED
      BY <3>1, <3>2
  <2> QED
    BY <1>1, <2>1
<1> HIDE DEF G
<1>13. 0 .. Count \subseteq G
  BY <1>1, <1>11, <1>12, Reached
<1>14. Count \in G /\ \A b \in Kept : Place(b) <= Count
  BY <1>1, <1>13, PlaceFacts
<1>15. \A b \in Kept : line[b] \subseteq Kept
  BY <1>14 DEF G
<1> QED
  BY <1>8, <1>9, <1>10, <1>15

\* So is its weight.
LEMMA WeightIs ==
  ASSUME InOrder
  PROVE  \A b \in Kept : /\ Weight(b) \in Nat
                         /\ Weight(b) = Difficulty[b] + (IF b \in Based THEN Weight(Parent[b]) ELSE 0)
<1> DEFINE rank == [b \in Kept |-> Place(b)]
           up == [b \in Based |-> Parent[b]]
           base == [b \in Kept |-> Difficulty[b]]
           F == [b \in Kept |-> [n \in Nat |-> Difficulty[b] + n]]
           Step(l) == [c \in Kept |-> Difficulty[c] + (IF Parent[c] \in Kept THEN l[Parent[c]] ELSE 0)]
           sum == CHOOSE l : l = Step(l)
<1>1. Count \in Nat /\ rank \in [Kept -> 1 .. Count] /\ Based \in SUBSET Kept /\ up \in [Based -> Kept]
      /\ base \in [Kept -> Nat] /\ F \in [Kept -> [Nat -> Nat]]
  BY PlaceFacts DEF Based
<1>2. \A c \in Based : rank[up[c]] < rank[c]
  BY PlaceFacts DEF Based
<1>3. /\ \A b \in Kept : base[b] = Difficulty[b] /\ \A n \in Nat : F[b][n] = Difficulty[b] + n
      /\ \A b \in Based : up[b] = Parent[b]
  OBVIOUS
<1>0. \A b \in Kept : Difficulty[b] \in Nat
  BY PlaceFacts
<1> HIDE DEF rank, up, base, F
<1>4. PICK h \in [Kept -> Nat] :
        \A c \in Kept : h[c] = IF c \in Based THEN F[c][h[up[c]]] ELSE base[c]
  <2>1. Ranked(Kept, Count, rank, Based, up)
    BY <1>1, <1>2 DEF Ranked
  <2>2. HasValue(Kept, Nat, Based, up, base, F)
    BY <1>1, <2>1, RecursionHasValue
  <2> QED
    BY <2>2 DEF HasValue
<1>5. ASSUME NEW c \in Kept
      PROVE  h[c] = Difficulty[c] + (IF Parent[c] \in Kept THEN h[Parent[c]] ELSE 0)
  <2>1. CASE c \in Based
    <3>1. Parent[c] \in Kept /\ h[Parent[c]] \in Nat
      BY <2>1 DEF Based
    <3> QED
      BY <1>3, <1>4, <2>1, <3>1
  <2>2. CASE c \notin Based
    <3>1. Parent[c] \notin Kept
      BY <2>2 DEF Based
    <3> QED
      BY <1>0, <1>3, <1>4, <2>2, <3>1
  <2> QED
    BY <2>1, <2>2
<1>6. h = Step(h)
  BY <1>5
<1>7. sum = Step(sum)
  <2> HIDE DEF Step
  <2> QED
    BY <1>6
<1>8. \A b \in Kept : Weight(b) = sum[b]
  BY DEF Weight
<1> HIDE DEF sum
<1>9. \A b \in Kept : sum[b] = Difficulty[b] + (IF b \in Based THEN sum[Parent[b]] ELSE 0)
  BY <1>7 DEF Based
<1>10. \A b \in Based : Parent[b] \in Kept
  BY DEF Based
<1> DEFINE G == {j \in 0 .. Count : \A b \in Kept : Place(b) <= j => sum[b] \in Nat}
<1>11. 0 \in G
  <2>1. \A b \in Kept : ~(Place(b) <= 0)
    BY PlaceFacts
  <2> QED
    BY <1>1, <2>1
<1>12. ASSUME NEW j \in 1 .. Count, j - 1 \in G PROVE j \in G
  <2>1. ASSUME NEW b \in Kept, Place(b) <= j PROVE sum[b] \in Nat
    <3>1. CASE b \in Based
      <4>1. Parent[b] \in Kept /\ Place(Parent[b]) <= j - 1
        BY <1>10, <2>1, <3>1, PlaceFacts
      <4>2. sum[Parent[b]] \in Nat
        BY <1>12, <4>1
      <4> QED
        BY <1>0, <1>9, <3>1, <4>2
    <3>2. CASE b \notin Based
      BY <1>0, <1>9, <3>2
    <3> QED
      BY <3>1, <3>2
  <2> QED
    BY <1>1, <2>1
<1> HIDE DEF G
<1>13. 0 .. Count \subseteq G
  BY <1>1, <1>11, <1>12, Reached
<1>14. Count \in G /\ \A b \in Kept : Place(b) <= Count
  BY <1>1, <1>13, PlaceFacts
<1>15. \A b \in Kept : sum[b] \in Nat
  BY <1>14 DEF G
<1> QED
  BY <1>8, <1>9, <1>10, <1>15

\* What the chart adds up in order of arrival is the weight of each block.
LEMMA TotalIsWeight ==
  ASSUME InOrder
  PROVE  \A i \in 1 .. Count : totalDifficulty(chart.rawData)[i] = Weight(chart.rawData[i])
<1> DEFINE raw == chart.rawData
           Above(i) == {j \in 1 .. i - 1 : raw[j] = Parent[raw[i]]}
           Step(t) == [i \in 1 .. Count |->
                         Difficulty[raw[i]] + (IF Above(i) = {} THEN 0
                                               ELSE t[CHOOSE j \in Above(i) : TRUE])]
           h == [i \in 1 .. Count |-> Weight(raw[i])]
           td == CHOOSE t : t = Step(t)
<1>1. /\ Count \in Nat /\ \A i \in 1 .. Count : raw[i] \in Kept /\ Place(raw[i]) = i
      /\ \A b \in Kept : Place(b) \in 1 .. Count /\ raw[Place(b)] = b
      /\ \A b \in Based : Parent[b] \in Kept /\ Place(Parent[b]) < Place(b)
  BY PlaceFacts DEF Based
<1>2. \A b \in Kept : /\ Weight(b) \in Nat
                      /\ Weight(b) = Difficulty[b] + (IF b \in Based THEN Weight(Parent[b]) ELSE 0)
  BY WeightIs
<1>3. totalDifficulty(raw) = td
  BY DEF totalDifficulty, Count
<1> HIDE DEF td, raw
<1>4. ASSUME NEW i \in 1 .. Count, raw[i] \in Based
      PROVE  /\ Above(i) # {} /\ (CHOOSE j \in Above(i) : TRUE) \in 1 .. i - 1
             /\ (CHOOSE j \in Above(i) : TRUE) = Place(Parent[raw[i]])
  <2> DEFINE j == Place(Parent[raw[i]])
  <2>1. Parent[raw[i]] \in Kept /\ j < Place(raw[i]) /\ Place(raw[i]) = i /\ j \in 1 .. Count
        /\ raw[j] = Parent[raw[i]]
    BY <1>1, <1>4
  <2> HIDE DEF j
  <2>2. j \in Above(i)
    BY <2>1
  <2>3. \A k \in Above(i) : k = j
    <3>1. \A k \in Above(i) : k \in 1 .. Count /\ raw[k] = raw[j]
      BY <1>1, <2>1
    <3> QED
      BY <1>1, <2>1, <3>1
  <2>4. (CHOOSE k \in Above(i) : TRUE) = j
    <3> HIDE DEF Above
    <3>1. (CHOOSE k \in Above(i) : TRUE) \in Above(i)
      BY <2>2
    <3> QED
      BY <2>3, <3>1
  <2> QED
    BY <2>1, <2>2, <2>4 DEF j
<1>5. ASSUME NEW i \in 1 .. Count, raw[i] \notin Based PROVE Above(i) = {}
  <2>1. Parent[raw[i]] \notin Kept
    BY <1>1, <1>5 DEF Based
  <2>2. \A j \in 1 .. i - 1 : raw[j] \in Kept
    BY <1>1
  <2> QED
    BY <2>1, <2>2
<1> HIDE DEF Above
<1>6. ASSUME NEW t, NEW i \in 1 .. Count, \A j \in 1 .. i - 1 : t[j] = Weight(raw[j])
      PROVE  Weight(raw[i]) =
               Difficulty[raw[i]] + (IF Above(i) = {} THEN 0 ELSE t[CHOOSE j \in Above(i) : TRUE])
  <2>1. CASE raw[i] \in Based
    <3>1. /\ Above(i) # {} /\ (CHOOSE j \in Above(i) : TRUE) \in 1 .. i - 1
          /\ (CHOOSE j \in Above(i) : TRUE) = Place(Parent[raw[i]])
      BY <1>4, <2>1
    <3>2. raw[Place(Parent[raw[i]])] = Parent[raw[i]]
      BY <1>1, <2>1
    <3>3. t[CHOOSE j \in Above(i) : TRUE] = Weight(Parent[raw[i]])
      BY <1>6, <3>1, <3>2
    <3>4. Weight(raw[i]) = Difficulty[raw[i]] + Weight(Parent[raw[i]])
      BY <1>1, <1>2, <2>1
    <3> QED
      BY <3>1, <3>3, <3>4
  <2>2. CASE raw[i] \notin Based
    <3>1. Above(i) = {}
      BY <1>5, <2>2
    <3>2. Weight(raw[i]) = Difficulty[raw[i]] + 0
      BY <1>1, <1>2, <2>2
    <3> QED
      BY <3>1, <3>2
  <2> QED
    BY <2>1, <2>2
<1>7. h = Step(h)
  <2>1. \A i \in 1 .. Count : h[i] = Weight(raw[i])
    OBVIOUS
  <2>2. \A i \in 1 .. Count : \A j \in 1 .. i - 1 : j \in 1 .. Count
    BY <1>1
  <2> HIDE DEF h
  <2>3. \A i \in 1 .. Count :
          Weight(raw[i]) =
            Difficulty[raw[i]] + (IF Above(i) = {} THEN 0 ELSE h[CHOOSE j \in Above(i) : TRUE])
    BY <1>6, <2>1, <2>2
  <2> QED
    BY <2>3 DEF h
<1>8. td = Step(td)
  <2> HIDE DEF Step, h
  <2> QED
    BY <1>7 DEF td
<1>9. \A i \in 1 .. Count :
        td[i] = Difficulty[raw[i]] + (IF Above(i) = {} THEN 0 ELSE td[CHOOSE j \in Above(i) : TRUE])
  <2>1. ASSUME NEW t, t = Step(t)
        PROVE  \A i \in 1 .. Count :
                 t[i] = Difficulty[raw[i]] + (IF Above(i) = {} THEN 0 ELSE t[CHOOSE j \in Above(i) : TRUE])
    BY <2>1
  <2> HIDE DEF Step
  <2> QED
    BY <1>8, <2>1
<1> DEFINE G == {j \in 0 .. Count : \A i \in 1 .. j : td[i] = Weight(raw[i])}
<1>10. 0 \in G
  BY <1>1
<1>11. ASSUME NEW j \in 1 .. Count, j - 1 \in G PROVE j \in G
  <2>1. \A i \in 1 .. j - 1 : td[i] = Weight(raw[i])
    BY <1>11
  <2>2. td[j] = Weight(raw[j])
    BY <1>6, <1>9, <2>1
  <2>3. \A i \in 1 .. j : i \in 1 .. j - 1 \/ i = j
    BY <1>1
  <2> QED
    BY <1>1, <2>1, <2>2, <2>3
<1> HIDE DEF G
<1>12. 0 .. Count \subseteq G
  BY <1>1, <1>10, <1>11, Reached
<1>13. Count \in G
  BY <1>1, <1>12
<1> QED
  BY <1>3, <1>13 DEF G, raw

\* The leaf the chart chooses is a heaviest block.
LEMMA LeafIsHeaviest ==
  ASSUME InOrder
  PROVE  LET leaf == canonicalLeaf(chart.rawData)
         IN leaf \in Kept /\ \A b \in Kept : Weight(b) <= Weight(leaf)
<1> DEFINE raw == chart.rawData
           td == totalDifficulty(raw)
           best == {i \in DOMAIN raw : \A j \in DOMAIN raw : td[i] >= td[j]}
<1>1. /\ Count \in Nat /\ Count > 0 /\ \A i \in 1 .. Count : raw[i] \in Kept
      /\ \A b \in Kept : Place(b) \in 1 .. Count /\ raw[Place(b)] = b
  BY PlaceFacts
<1>2. DOMAIN raw = 1 .. Count
  BY LenProperties DEF InOrder, Count
<1>3. \A i \in 1 .. Count : td[i] = Weight(raw[i]) /\ Weight(raw[i]) \in Nat
  BY <1>1, TotalIsWeight, WeightIs
<1>4. canonicalLeaf(raw) = raw[Min(best)]
  BY DEF canonicalLeaf
<1> HIDE DEF raw, td
<1>5. best # {} /\ best \in SUBSET Nat
  <2>1. \E i \in 1 .. Count : \A j \in 1 .. Count : td[i] >= td[j]
    BY <1>1, <1>3, GreatestExists
  <2> QED
    BY <1>2, <2>1
<1>6. Min(best) \in best
  <2> HIDE DEF best
  <2> QED
    BY <1>5, MinProperties
<1>7. Min(best) \in 1 .. Count /\ \A j \in 1 .. Count : td[Min(best)] >= td[j]
  <2> DEFINE k == Min(best)
  <2>1. k \in best
    BY <1>6
  <2> HIDE DEF k
  <2> QED
    BY <1>2, <2>1 DEF k
<1> DEFINE k == Min(best)
<1>8. k \in 1 .. Count /\ (\A j \in 1 .. Count : td[k] >= td[j]) /\ canonicalLeaf(raw) = raw[k]
  BY <1>4, <1>7
<1> HIDE DEF k
<1>9. \A b \in Kept : Weight(b) <= Weight(raw[k])
  BY <1>1, <1>3, <1>8
<1> QED
  BY <1>1, <1>8, <1>9 DEF raw

\* A pass from the last arrival to the first lengthens a column of blocks that
\* begins with top down to its oldest ancestor: ahead are, after k blocks, only
\* those that came before.
Reaches(column, top, k) ==
  /\ column \in Seq(Kept) /\ column # <<>>
  /\ ToSet(column) \union Lineage(Head(column)) = Lineage(top)
  /\ Head(column) \in Based => Place(Parent[Head(column)]) <= Count - k

LEMMA LengthenedIs ==
  ASSUME NEW column \in Seq(Kept), column # <<>>, NEW b \in Kept
  PROVE  /\ Lengthened(column, b) \in Seq(Kept) /\ Lengthened(column, b) # <<>>
         /\ Head(column) \in Kept
         /\ b # Parent[Head(column)] => Lengthened(column, b) = column
         /\ b = Parent[Head(column)] =>
              /\ Head(Lengthened(column, b)) = b
              /\ ToSet(Lengthened(column, b)) = {b} \union ToSet(column)
<1> DEFINE r == <<b>> \o column
           n == Len(column)
<1>1. n \in Nat /\ n > 0 /\ (\A i \in 1 .. n : column[i] \in Kept) /\ Head(column) = column[1]
  BY LenProperties, ElementOfSeq, EmptySeq
<1>2. <<b>> \in Seq(Kept) /\ Len(<<b>>) = 1 /\ <<b>>[1] = b
  OBVIOUS
<1>3. /\ r \in Seq(Kept) /\ Len(r) = 1 + n
      /\ \A i \in 1 .. 1 + n : r[i] = IF i <= 1 THEN <<b>>[i] ELSE column[i - 1]
  BY <1>2, ConcatProperties
<1>4. ToSet(r) = {r[i] : i \in 1 .. 1 + n} /\ ToSet(column) = {column[i] : i \in 1 .. n}
  BY <1>3, ToSetIs
<1> HIDE DEF r, n
<1>5. r[1] = b /\ \A i \in 1 .. n : r[i + 1] = column[i]
  <2>1. \A i \in 1 .. n : i + 1 \in 1 .. 1 + n /\ ~(i + 1 <= 1) /\ (i + 1) - 1 = i
    BY <1>1
  <2>2. 1 \in 1 .. 1 + n
    BY <1>1
  <2> QED
    BY <1>2, <1>3, <2>1, <2>2
<1>6. \A i \in 1 .. 1 + n : i = 1 \/ (i - 1 \in 1 .. n /\ (i - 1) + 1 = i)
  BY <1>1
<1>7. \A i \in 1 .. n : i + 1 \in 1 .. 1 + n
  BY <1>1
<1>8. 1 \in 1 .. 1 + n /\ 1 \in 1 .. n
  BY <1>1
<1>9. ToSet(r) = {b} \union ToSet(column)
  BY <1>4, <1>5, <1>6, <1>7, <1>8
<1>10. r # <<>> /\ Head(r) = b
  BY <1>1, <1>3, <1>5
<1>11. Lengthened(column, b) = IF b = Parent[Head(column)] THEN r ELSE column
  BY DEF Lengthened, r
<1> QED
  BY <1>1, <1>3, <1>8, <1>9, <1>10, <1>11

LEMMA ReachesFurther ==
  ASSUME InOrder, NEW column, NEW top, NEW k \in 1 .. Count, Reaches(column, top, k - 1)
  PROVE  Reaches(Lengthened(column, chart.rawData[Count - k + 1]), top, k)
<1> DEFINE p == Count - k + 1
           b == chart.rawData[p]
           c == Head(column)
           next == Lengthened(column, b)
<1>1. Count \in Nat /\ p \in 1 .. Count /\ b \in Kept /\ Place(b) = p
  BY PlaceFacts
<1>2. /\ column \in Seq(Kept) /\ column # <<>> /\ ToSet(column) \union Lineage(c) = Lineage(top)
      /\ c \in Based => Place(Parent[c]) <= Count - (k - 1)
  BY DEF Reaches
<1>p. p - 1 = Count - k /\ Count - (k - 1) = p
  BY <1>1
<1> HIDE DEF b, p, c, next
<1>3. /\ next \in Seq(Kept) /\ next # <<>> /\ c \in Kept
      /\ b # Parent[c] => next = column
      /\ b = Parent[c] => Head(next) = b /\ ToSet(next) = {b} \union ToSet(column)
  BY <1>1, <1>2, LengthenedIs DEF c, next
<1>4. \A x \in Kept : Lineage(x) = {x} \union (IF x \in Based THEN Lineage(Parent[x]) ELSE {})
  BY LineageIs
<1>5. c \in ToSet(column)
  <2>1. Len(column) \in Nat /\ Len(column) > 0 /\ c = column[1]
    BY <1>2, LenProperties, EmptySeq DEF c
  <2> QED
    BY <1>2, <2>1, ToSetIs
<1>6. CASE b = Parent[c]
  <2>1. c \in Based
    BY <1>1, <1>3, <1>6 DEF Based
  <2>2. ToSet(next) \union Lineage(b) = Lineage(top)
    <3>1. Lineage(c) = {c} \union Lineage(b) /\ b \in Lineage(b)
      BY <1>1, <1>3, <1>4, <1>6, <2>1
    <3> QED
      BY <1>2, <1>3, <1>5, <1>6, <3>1
  <2>3. b \in Based => Place(Parent[b]) <= Count - k
    <3>1. b \in Based => Place(Parent[b]) < Place(b) /\ Parent[b] \in Kept
      BY PlaceFacts DEF Based
    <3>2. \A x \in Kept : Place(x) \in Nat
      BY PlaceFacts
    <3> QED
      BY <1>1, <1>p, <3>1, <3>2
  <2> QED
    BY <1>3, <1>6, <2>2, <2>3 DEF Reaches, next, b, p
<1>7. CASE b # Parent[c]
  <2>1. next = column
    BY <1>3, <1>7
  <2>2. c \in Based => Place(Parent[c]) <= Count - k
    <3> SUFFICES ASSUME c \in Based PROVE Place(Parent[c]) <= Count - k
      OBVIOUS
    <3>1. Parent[c] \in Kept /\ Place(Parent[c]) \in 1 .. Count /\ chart.rawData[Place(Parent[c])] = Parent[c]
      BY PlaceFacts DEF Based
    <3>2. Place(Parent[c]) # p
      BY <1>7, <3>1 DEF b
    <3>3. Place(Parent[c]) <= p
      BY <1>2, <1>p
    <3> QED
      BY <1>1, <1>p, <3>1, <3>2, <3>3
  <2>3. Reaches(column, top, k)
    BY <1>2, <2>2 DEF Reaches, c
  <2> QED
    BY <2>1, <2>3 DEF next, b, p
<1> QED
  BY <1>6, <1>7

LEMMA ChainIs ==
  ASSUME InOrder, NEW top \in Kept
  PROVE  LET column == ChainTo(chart.rawData, top)[Count]
         IN /\ column \in Seq(Kept) /\ column # <<>> /\ ToSet(column) = Lineage(top)
            /\ Head(column) \in Kept /\ Head(column) \notin Based
<1> DEFINE raw == chart.rawData
           S == {s \in Seq(Kept) : s # <<>>}
           F == [m \in 1 .. Count |-> [s \in S |-> Lengthened(s, raw[Count - m + 1])]]
           Step(c) == [k \in 0 .. Count |-> IF k = 0 THEN <<top>>
                                            ELSE Lengthened(c[k - 1], raw[Count - k + 1])]
           col == ChainTo(raw, top)
<1>1. /\ Count \in Nat /\ \A i \in 1 .. Count : raw[i] \in Kept
      /\ \A b \in Kept : Place(b) \in 1 .. Count
  BY PlaceFacts
<1>2. <<top>> \in S
  OBVIOUS
<1>3. \A m \in 1 .. Count : \A s \in S : Lengthened(s, raw[Count - m + 1]) \in S
  <2>1. \A m \in 1 .. Count : Count - m + 1 \in 1 .. Count
    BY <1>1
  <2>2. \A m \in 1 .. Count : raw[Count - m + 1] \in Kept
    BY <1>1, <2>1
  <2> QED
    BY <2>2, LengthenedIs
<1>c. col = CHOOSE c : c = Step(c)
  BY DEF ChainTo, Count
<1> HIDE DEF S, raw
<1>4. F \in [1 .. Count -> [S -> S]]
  BY <1>3
<1>5. \A m \in 1 .. Count : \A s \in S : F[m][s] = Lengthened(s, raw[Count - m + 1])
  OBVIOUS
<1> HIDE DEF F
<1>6. PICK h : Values(S, <<top>>, F, Count, h)
  BY <1>1, <1>2, <1>4, ValuesExist
<1>7. h \in [0 .. Count -> S] /\ h[0] = <<top>> /\ \A m \in 1 .. Count : h[m] = F[m][h[m - 1]]
  BY <1>6 DEF Values
<1>8. \A i \in 0 .. Count : i # 0 => i \in 1 .. Count /\ i - 1 \in 0 .. Count
  BY <1>1
<1>9. \A i \in 0 .. Count : h[i] = IF i = 0 THEN <<top>> ELSE Lengthened(h[i - 1], raw[Count - i + 1])
  BY <1>5, <1>7, <1>8
<1>10. h = Step(h)
  BY <1>7, <1>9
<1> HIDE DEF col
<1>11. col = Step(col)
  <2> HIDE DEF Step
  <2> QED
    BY <1>10, <1>c
<1>12. 0 \in 0 .. Count /\ \A j \in 1 .. Count : j \in 0 .. Count /\ j # 0
  BY <1>1
<1>13. col[0] = <<top>> /\ \A j \in 1 .. Count : col[j] = Lengthened(col[j - 1], raw[Count - j + 1])
  BY <1>11, <1>12
<1> DEFINE G == {j \in 0 .. Count : Reaches(col[j], top, j)}
<1>14. 0 \in G
  <2> DEFINE one == <<top>>
  <2>1. one \in Seq(Kept) /\ one # <<>> /\ Head(one) = top /\ Len(one) = 1 /\ one[1] = top
    OBVIOUS
  <2> HIDE DEF one
  <2>2. ToSet(one) = {top}
    BY <2>1, ToSetIs
  <2>3. top \in Lineage(top)
    BY LineageIs
  <2>4. top \in Based => Place(Parent[top]) <= Count - 0
    BY <1>1 DEF Based
  <2>5. Reaches(one, top, 0)
    BY <2>1, <2>2, <2>3, <2>4 DEF Reaches
  <2> QED
    BY <1>12, <1>13, <2>5 DEF one
<1>15. ASSUME NEW j \in 1 .. Count, j - 1 \in G PROVE j \in G
  <2>1. Reaches(col[j - 1], top, j - 1)
    BY <1>15
  <2>2. Reaches(col[j], top, j)
    BY <1>13, <2>1, ReachesFurther DEF raw
  <2> QED
    BY <1>12, <2>2
<1> HIDE DEF G
<1>16. 0 .. Count \subseteq G
  BY <1>1, <1>14, <1>15, Reached
<1>17. Count \in G
  BY <1>1, <1>16
<1> DEFINE column == col[Count]
           low == Head(column)
<1>18. Reaches(column, top, Count)
  BY <1>17 DEF G
<1> HIDE DEF column
<1>19. /\ column \in Seq(Kept) /\ column # <<>> /\ ToSet(column) \union Lineage(low) = Lineage(top)
       /\ low \in Based => Place(Parent[low]) <= Count - Count
  BY <1>18 DEF Reaches
<1> HIDE DEF low
<1>20. low \notin Based
  <2>1. low \in Based => Place(Parent[low]) \in 1 .. Count
    BY <1>1 DEF Based
  <2> QED
    BY <1>1, <1>19, <2>1
<1>21. low \in ToSet(column) /\ low \in Kept
  <2>1. Len(column) \in Nat /\ Len(column) > 0 /\ low = column[1]
    BY <1>19, LenProperties, EmptySeq DEF low
  <2> QED
    BY <1>19, <2>1, ToSetIs
<1>22. Lineage(low) = {low}
  BY <1>20, <1>21, LineageIs
<1>23. ToSet(column) = Lineage(top)
  BY <1>19, <1>21, <1>22
<1> QED
  BY <1>19, <1>20, <1>21, <1>23 DEF low, column, col, raw

\* The blocks of a lineage have different numbers, which end with the block's.
LEMMA LineageNumbers ==
  ASSUME InOrder
  PROVE  \A b \in Kept : /\ \A x \in Lineage(b) : Number[x] <= Number[b]
                         /\ \A x, y \in Lineage(b) : Number[x] = Number[y] => x = y
<1> DEFINE Rising(b) == /\ \A x \in Lineage(b) : Number[x] <= Number[b]
                        /\ \A x, y \in Lineage(b) : Number[x] = Number[y] => x = y
           G == {j \in 0 .. Count : \A b \in Kept : Place(b) <= j => Rising(b)}
<1>1. /\ Count \in Nat /\ \A b \in Kept : Place(b) \in 1 .. Count /\ Number[b] \in Nat
      /\ \A b \in Based : /\ b \in Kept /\ Parent[b] \in Kept
                          /\ Place(Parent[b]) < Place(b) /\ Number[Parent[b]] + 1 = Number[b]
  BY PlaceFacts DEF Based
<1>2. \A b \in Kept : /\ Lineage(b) \subseteq Kept
                      /\ Lineage(b) = {b} \union (IF b \in Based THEN Lineage(Parent[b]) ELSE {})
  BY LineageIs
<1>3. 0 \in G
  <2>1. \A b \in Kept : ~(Place(b) <= 0)
    BY <1>1
  <2> QED
    BY <1>1, <2>1
<1>4. ASSUME NEW j \in 1 .. Count, j - 1 \in G PROVE j \in G
  <2>1. ASSUME NEW b \in Kept, Place(b) <= j PROVE Rising(b)
    <3>1. CASE b \in Based
      <4> DEFINE p == Parent[b]
      <4>1. p \in Kept /\ Place(p) <= j - 1 /\ Number[p] + 1 = Number[b] /\ Number[p] \in Nat
        BY <1>1, <2>1, <3>1
      <4>2. Rising(p)
        BY <1>4, <4>1
      <4>3. Lineage(b) = {b} \union Lineage(p) /\ Lineage(p) \subseteq Kept
        BY <1>2, <3>1, <4>1
      <4> HIDE DEF p
      <4>4. \A x \in Lineage(p) : Number[x] \in Nat /\ Number[x] < Number[b]
        BY <1>1, <4>1, <4>2, <4>3
      <4>5. Number[b] \in Nat
        BY <1>1
      <4> QED
        BY <4>2, <4>3, <4>4, <4>5
    <3>2. CASE b \notin Based
      <4>1. Lineage(b) = {b} /\ Number[b] \in Nat
        BY <1>1, <1>2, <3>2
      <4> QED
        BY <4>1
    <3> QED
      BY <3>1, <3>2
  <2> QED
    BY <1>1, <2>1
<1> HIDE DEF G
<1>5. 0 .. Count \subseteq G
  BY <1>1, <1>3, <1>4, Reached
<1>6. Count \in G /\ \A b \in Kept : Place(b) <= Count
  BY <1>1, <1>5
<1> QED
  BY <1>6 DEF G

LEMMA MarksAreHeaviest == InOrder => CanonicalIsHeaviest
<1> SUFFICES ASSUME InOrder PROVE CanonicalIsHeaviest
  OBVIOUS
<1> DEFINE leaf == canonicalLeaf(chart.rawData)
<1>1. leaf \in Kept /\ \A b \in Kept : Weight(b) <= Weight(leaf)
  BY LeafIsHeaviest
<1>2. isCanonical(chart.rawData) = ToSet(ChainTo(chart.rawData, leaf)[Count])
  <2>1. chart.rawData # <<>>
    BY PlaceFacts DEF Count
  <2> QED
    BY <2>1 DEF isCanonical, canonicalColumn, Count
<1> HIDE DEF leaf
<1>3. isCanonical(chart.rawData) = Lineage(leaf)
  BY <1>1, <1>2, ChainIs
<1> QED
  BY <1>1, <1>3 DEF CanonicalIsHeaviest

LEMMA LinesAreRight == InOrder => LinesReachTheRoot
<1> SUFFICES ASSUME InOrder PROVE LinesReachTheRoot
  OBVIOUS
<1>1. /\ renderState(chart).hasParent = {b \in Kept : Parent[b] \in chart.blockStore}
      /\ renderState(chart).bracket = {RowOf(chart.rawData, b) : b \in isCanonical(chart.rawData)}
  BY DEF renderState, Kept
<1>2. renderState(chart).hasParent = Based
  BY <1>1 DEF InOrder, Based
<1>3. ASSUME NEW over \in Kept
      PROVE  parentLines(chart, over) = {b \in Lineage(over) : Parent[b] \in Kept}
  <2> DEFINE column == ChainTo(chart.rawData, over)[Count]
             low == Head(column)
             rest == Tail(column)
  <2>1. /\ column \in Seq(Kept) /\ column # <<>> /\ ToSet(column) = Lineage(over)
        /\ low \in Kept /\ low \notin Based
    BY ChainIs
  <2>2. parentLines(chart, over) = {b \in ToSet(rest) : b \in Based}
    BY <1>2 DEF parentLines, AncestorsOf, Count
  <2> HIDE DEF column
  <2>3. ToSet(column) = {low} \union ToSet(rest)
    <3>1. /\ low = column[1] /\ rest \in Seq(Kept) /\ Len(rest) = Len(column) - 1
          /\ \A i \in 1 .. Len(rest) : rest[i] = column[i + 1]
      BY <2>1, HeadTailProperties
    <3>2. Len(column) \in Nat /\ Len(column) > 0
      BY <2>1, LenProperties, EmptySeq
    <3>3. /\ ToSet(column) = {column[i] : i \in 1 .. Len(column)}
          /\ ToSet(rest) = {rest[i] : i \in 1 .. Len(rest)}
      BY <2>1, <3>1, ToSetIs
    <3> HIDE DEF low, rest
    <3>4. /\ 1 \in 1 .. Len(column) /\ \A i \in 1 .. Len(rest) : i + 1 \in 1 .. Len(column)
          /\ \A i \in 1 .. Len(column) : i = 1 \/ (i - 1 \in 1 .. Len(rest) /\ (i - 1) + 1 = i)
      BY <3>1, <3>2
    <3>5. \A i \in 1 .. Len(column) : column[i] = low \/ column[i] \in ToSet(rest)
      BY <3>1, <3>3, <3>4
    <3>6. low \in ToSet(column) /\ \A i \in 1 .. Len(rest) : rest[i] \in ToSet(column)
      BY <3>1, <3>3, <3>4
    <3>7. ToSet(column) \subseteq {low} \union ToSet(rest)
      BY <3>3, <3>5
    <3>8. ToSet(rest) \subseteq ToSet(column)
      BY <3>3, <3>6
    <3> QED
      BY <3>6, <3>7, <3>8
  <2> HIDE DEF low, rest
  <2>4. Lineage(over) \subseteq Kept
    BY LineageIs
  <2> QED
    BY <2>1, <2>2, <2>3, <2>4 DEF Based
<1>4. Cardinality(renderState(chart).bracket) = Cardinality(isCanonical(chart.rawData))
  <2> DEFINE C == isCanonical(chart.rawData)
             R == renderState(chart).bracket
             m == minBlockNumber(chart.rawData)
             f == [b \in C |-> Number[b] - m]
  <2>1. PICK leaf \in Kept : C = Lineage(leaf)
    BY MarksAreHeaviest DEF CanonicalIsHeaviest, InOrder
  <2>2. C \subseteq Kept /\ \A x, y \in C : Number[x] = Number[y] => x = y
    BY <2>1, LineageIs, LineageNumbers
  <2>3. m \in Nat /\ \A b \in Kept : Number[b] \in Nat
    BY PlaceFacts, LowestNumber DEF InOrder, Count
  <2>4. R = {Number[b] - m : b \in C}
    BY <1>1 DEF RowOf
  <2>5. IsFiniteSet(C)
    <3>1. Kept = {chart.rawData[i] : i \in 1 .. Count} /\ Count \in Nat
      <4>1. chart.rawData \in Seq(Block)
        BY DEF InOrder
      <4> QED
        BY <4>1, PlaceFacts, ToSetIs DEF Kept, Count
    <3>2. IsFiniteSet(1 .. Count)
      BY <3>1, FS_Interval
    <3> DEFINE g == [i \in 1 .. Count |-> chart.rawData[i]]
    <3>3. g \in Surjection(1 .. Count, Kept)
      BY <3>1 DEF Surjection
    <3> HIDE DEF g
    <3>4. IsFiniteSet(Kept)
      BY <3>2, <3>3, FS_Surjection
    <3> QED
      BY <2>2, <3>4, FS_Subset
  <2> HIDE DEF C, R, m
  <2>6. \A x, y \in C : Number[x] - m = Number[y] - m => x = y
    BY <2>2, <2>3
  <2>7. f \in Bijection(C, R)
    BY <2>4, <2>6 DEF Bijection, Injection, Surjection, IsInjective
  <2> HIDE DEF f
  <2>8. ExistsBijection(C, R)
    BY <2>7 DEF ExistsBijection
  <2>9. Cardinality(R) = Cardinality(C)
    BY <2>5, <2>8, FS_Bijection
  <2> QED
    BY <2>9 DEF R, C
<1> QED
  BY <1>3, <1>4 DEF LinesReachTheRoot

\* CanonicalIsHeaviest and LinesReachTheRoot, in every state of the home page.
THEOREM ChainsHold == Spec => []ChainsShown
<1>1. HomeInv => ChainsShown
  <2> SUFFICES ASSUME HomeInv PROVE ChainsShown
    OBVIOUS
  <2>1. chart.rawData \in Seq(Block) /\ Once(chart.rawData) /\ chart.blockStore = Kept
    BY DEF HomeInv, DrawingInv, ChartInv, Adding, Chart, Kept
  <2>2. CASE ParentsFirst /\ Kept # {}
    <3>1. InOrder
      BY <2>1, <2>2 DEF InOrder
    <3> QED
      BY <3>1, MarksAreHeaviest, LinesAreRight DEF ChainsShown
  <2>3. CASE ~(ParentsFirst /\ Kept # {})
    BY <2>3 DEF ChainsShown, CanonicalIsHeaviest, LinesReachTheRoot
  <2> QED
    BY <2>2, <2>3
<1> QED
  BY <1>1, HomeInvInit, HomeInvNext, PTL DEF Spec
=============================================================================
