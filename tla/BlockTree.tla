----------------------------- MODULE BlockTree ------------------------------
(***************************************************************************)
(* The tree chart of the last blocks, BlockchainView: the list of blocks it *)
(* keeps, their places in a grid of columns, and the chain it marks as      *)
(* canonical.  A chart is a record                                          *)
(*   rawData : the blocks kept, in order of arrival                         *)
(*   blockStore : the blocks it can look up by hash                         *)
(*   renderColumns : a sequence of columns, each a set of cells             *)
(* A cell holds one object: a block that rawData keeps; a copy of a block   *)
(* that was sent again and that rawData does not hold ("ghost"); or the     *)
(* object of a block whose ghost was removed in its place ("stale").  Its   *)
(* row is Block.index; a ghost has none (undefined in the code).            *)
(***************************************************************************)
EXTENDS Integers, Sequences, SequencesExt, FiniteSetsExt

CONSTANTS
  Block,            \* blocks
  Number,           \* block -> its number
  Parent,           \* block -> its parent, which may be outside Block
  Difficulty,       \* block -> its own difficulty
  MAX_BLOCK_COUNT   \* blocks the chart keeps

ASSUME BlockTreeAssumption ==
  /\ Number \in [Block -> Nat]
  /\ DOMAIN Parent = Block
  /\ \A b \in Block : Parent[b] \in Block => Number[Parent[b]] + 1 = Number[b]
  /\ Difficulty \in [Block -> Nat \ {0}]
  /\ MAX_BLOCK_COUNT \in Nat \ {0}

NoRow == -1

Cell(b, kind, row) == [block |-> b, kind |-> kind, row |-> row]

EmptyChart == [rawData |-> <<>>, blockStore |-> {}, renderColumns |-> <<>>]

\* The first match of b in a column: columns are kept sorted by row, an
\* object without a row stays behind those that have one.
FirstCell(column, b) ==
  LET match == {c \in column : c.block = b} IN
  CHOOSE c \in match : \A d \in match \ {c} : c.row # NoRow /\ (d.row = NoRow \/ c.row <= d.row)

\* The grid without the first cell of block b, in order of columns; what else
\* the grid has of b is no longer an object of rawData.
CellRemoved(columns, b) ==
  LET has == {i \in DOMAIN columns : \E x \in columns[i] : x.block = b}
      isFirst(i) == i \in has /\ \A j \in has : i <= j
      Stale(c) == {IF x.block = b /\ x.kind = "kept" THEN Cell(b, "stale", x.row)
                   ELSE x : x \in c}
  IN [i \in DOMAIN columns |->
        Stale(IF isFirst(i) THEN columns[i] \ {FirstCell(columns[i], b)} ELSE columns[i])]

\* Mutant of checkForRemove: the block stays in blockStore.
checkForRemoveStore(chart) ==
  IF Len(chart.rawData) <= MAX_BLOCK_COUNT THEN chart
  ELSE [rawData |-> Tail(chart.rawData), blockStore |-> chart.blockStore,
        renderColumns |-> CellRemoved(chart.renderColumns, Head(chart.rawData))]

\* Drops the oldest block when there are too many.  Its entry of blockStore
\* goes only if the grid has it.  (The bottom line is not removed: unshift()
\* without argument does nothing, and only rows matter.)
checkForRemove(chart) ==
  IF Len(chart.rawData) <= MAX_BLOCK_COUNT THEN chart
  ELSE LET old == Head(chart.rawData)
           drawn == \E i \in DOMAIN chart.renderColumns :
                      \E x \in chart.renderColumns[i] : x.block = old
       IN [rawData |-> Tail(chart.rawData),
           blockStore |-> IF drawn THEN chart.blockStore \ {old} ELSE chart.blockStore,
           renderColumns |-> IF drawn THEN CellRemoved(chart.renderColumns, old)
                             ELSE chart.renderColumns]

\* Adds one block unless its hash is known.
AddBlock(chart, b) ==
  IF b \in chart.blockStore THEN chart
  ELSE checkForRemove([rawData |-> Append(chart.rawData, b),
                       blockStore |-> chart.blockStore \union {b},
                       renderColumns |-> chart.renderColumns])

minBlockNumber(rawData) == Min({Number[b] : b \in ToSet(rawData)})

RowOf(rawData, b) == Number[b] - minBlockNumber(rawData)

\* Blocks of rawData get their rows anew; other objects keep theirs.
Reindexed(columns, rawData) ==
  [i \in DOMAIN columns |->
     {IF x.kind = "kept" THEN Cell(x.block, "kept", RowOf(rawData, x.block)) ELSE x :
        x \in columns[i]}]

\* The chart after each number of blocks of data.
Added(chart, data) ==
  LET c[i \in 0 .. Len(data)] == IF i = 0 THEN chart ELSE AddBlock(c[i - 1], data[i])
  IN c

\* prepareAndAddBlocks: all blocks, then rows.
prepareAndAddBlocks(chart, data) ==
  LET c == Added(chart, data)[Len(data)]
  IN [c EXCEPT !.renderColumns = Reindexed(@, c.rawData)]

Taken(column, x) == \E y \in column : y.row = x.row

\* Place for an object: over its parent if that is free, else in the first
\* column that is free at its row, else in a new column.  The first block of
\* all gets the second of two columns.  A new column is made by assigning to
\* its element block.index: without a row the object is not in the array.
placeBlock(columns, x) ==
  LET into(i) == [columns EXCEPT ![i] = @ \union {x}]
      free == {i \in DOMAIN columns : ~Taken(columns[i], x)}
      over == {i \in free : \E y \in columns[i] : y.block = Parent[x.block]}
  IN IF columns = <<>> THEN <<{}, {x}>>
     ELSE IF over # {} THEN into(Min(over))
     ELSE IF free # {} THEN into(Min(free))
     ELSE Append(columns, IF x.row = NoRow THEN {} ELSE {x})

\* addBlocks: every block of data is placed, those that were known when
\* their turn came as ghosts.
addBlocks(chart, data) ==
  LET c == prepareAndAddBlocks(chart, data)
      fresh(i) == /\ data[i] \notin Added(chart, data)[i - 1].blockStore
                  /\ data[i] \in ToSet(c.rawData)
      objects == [i \in 1 .. Len(data) |->
                    IF fresh(i) THEN Cell(data[i], "kept", RowOf(c.rawData, data[i]))
                    ELSE Cell(data[i], "ghost", NoRow)]
      placed[i \in 0 .. Len(data)] ==
        IF i = 0 THEN c.renderColumns ELSE placeBlock(placed[i - 1], objects[i])
  IN IF data = <<>> THEN chart
     ELSE [c EXCEPT !.renderColumns = placed[Len(data)]]

-----------------------------------------------------------------------------
\* Mutant of totalDifficulty: an unknown parent's block starts from zero.
totalDifficultyZero(rawData) ==
  LET td[i \in 1 .. Len(rawData)] ==
        LET above == {j \in 1 .. i - 1 : rawData[j] = Parent[rawData[i]]}
        IN IF above = {} THEN 0
           ELSE Difficulty[rawData[i]] + td[CHOOSE j \in above : TRUE]
  IN td

\* Total difficulties, computed in order of arrival: a parent that comes
\* later still counts as zero.
totalDifficulty(rawData) ==
  LET td[i \in 1 .. Len(rawData)] ==
        LET above == {j \in 1 .. i - 1 : rawData[j] = Parent[rawData[i]]}
        IN Difficulty[rawData[i]] + (IF above = {} THEN 0
                                     ELSE td[CHOOSE j \in above : TRUE])
  IN td

\* The first of the blocks with the greatest total difficulty.
canonicalLeaf(rawData) ==
  LET td == totalDifficulty(rawData)
      best == {i \in DOMAIN rawData : \A j \in DOMAIN rawData : td[i] >= td[j]}
  IN rawData[Min(best)]

\* A column with block b below it, if b is the parent of its lowest block.
Lengthened(column, b) ==
  IF b = Parent[Head(column)] THEN <<b>> \o column ELSE column

\* From a block down, in one pass from the last arrival to the first: the
\* column after each number of blocks passed.
ChainTo(rawData, top) ==
  LET column[k \in 0 .. Len(rawData)] ==
        IF k = 0 THEN <<top>>
        ELSE Lengthened(column[k - 1], rawData[Len(rawData) - k + 1])
  IN column

canonicalColumn(rawData) == ChainTo(rawData, canonicalLeaf(rawData))[Len(rawData)]

\* The blocks marked isCanonical.
isCanonical(rawData) ==
  IF rawData = <<>> THEN {} ELSE ToSet(canonicalColumn(rawData))

\* The block under the mouse pointer and its ancestors, from the bottom and
\* without the lowest: drawParentLines searches from the newest down.
AncestorsOf(rawData, over) == Tail(ChainTo(rawData, over)[Len(rawData)])

\* renderState, for columns that are left to right and rows from the bottom.
\* A block is drawn where its object stands last in the grid, its number at the
\* place of that number in order, whatever numbers are missing; the brackets of
\* canonical blocks are told apart by their row only.
renderState(chart) ==
  LET kept == ToSet(chart.rawData)
      columnsOf(b) == {i \in DOMAIN chart.renderColumns :
                         \E x \in chart.renderColumns[i] : x.block = b /\ x.kind = "kept"}
      numbers == {Number[b] : b \in kept}
  IN [place |-> [b \in {b \in kept : columnsOf(b) # {}} |->
                   <<Max(columnsOf(b)), RowOf(chart.rawData, b)>>],
      label |-> [n \in numbers |-> Cardinality({k \in numbers : k < n})],
      bracket |-> {RowOf(chart.rawData, b) : b \in isCanonical(chart.rawData)},
      hasParent |-> {b \in kept : Parent[b] \in chart.blockStore}]

\* drawParentLines: the dashed lines go down from these blocks.
parentLines(chart, over) ==
  {b \in ToSet(AncestorsOf(chart.rawData, over)) : b \in renderState(chart).hasParent}
=============================================================================
