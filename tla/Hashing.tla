------------------------------- MODULE Hashing --------------------------------
(***************************************************************************)
(* The hash functions of the pages (eth-util.js), at their real size:        *)
(* Keccak-256 in crypto-js, which the page hashes a secret with, and in      *)
(* js-sha3, which transactions and addresses are hashed with; SHA-256 in     *)
(* hash.js, which the signer draws nonces from, and in sha.js.               *)
(* A word is the set of its bits that are set, a text the sequence of its    *)
(* bytes.                                                                    *)
(***************************************************************************)
EXTENDS Integers, Sequences
LOCAL INSTANCE SequencesExt   \* FoldLeft, Last

-----------------------------------------------------------------------------
\* Words of 32 bits.
xor(v, w) == (v \ w) \union (w \ v)
shl(w, n) == {b + n : b \in {c \in w : c + n < 32}}
shr(w, n) == {b - n : b \in {c \in w : c >= n}}
Funnel(v, w, n) == shl(v, n) \union shr(w, 32 - n)   \* (v << n) | (w >>> (32 - n))
rotr32(w, n) == shr(w, n) \union shl(w, 32 - n)

Bits(n) == {b \in 0 .. 15 : (n \div 2 ^ b) % 2 = 1}
ByteOf(w, shift) ==   \* (w >>> shift) & 0xff
  LET weight[b \in 0 .. 8] == IF b = 0 THEN 0 ELSE weight[b - 1] + (IF shift + b - 1 \in w THEN 2 ^ (b - 1) ELSE 0)
  IN weight[8]

\* Arrays start with element 0 and hold values, not expressions.
Array(n, element(_)) == [i \in 1 .. n |-> element(i - 1)] \o <<>>

CeilDiv(n, d) == (n + d - 1) \div d
LeastOf(m, n) == IF m < n THEN m ELSE n

\* A loop from first to last over a value, eight turns at a time.
Turns(first, last, start, step(_, _)) ==
  LET values[i \in first - 1 .. last] ==
        IF i < first THEN <<start>>
        ELSE LET v == values[i - 1] IN Append(v, step(v[i - first + 1], i))
  IN Last(<<start>> \o values[last])
Iterated(first, last, start, step(_, _)) ==
  Turns(0, (last - first) \div 8, start,
        LAMBDA v, eight : Turns(first + 8 * eight, LeastOf(first + 8 * eight + 7, last), v, step))

\* The sum of words, byte by byte with what is carried.
Sum32(words) ==
  LET Added(sum, byte) ==
        LET n == FoldLeft(LAMBDA m, w : m + ByteOf(w, 8 * byte), sum.carry, words)
        IN [carry |-> n \div 256, bits |-> sum.bits \union {b + 8 * byte : b \in Bits(n % 256)}]
  IN Turns(0, 3, [carry |-> 0, bits |-> {}], Added).bits

Padded(words, n) == IF n <= Len(words) THEN words ELSE words \o [i \in 1 .. n - Len(words) |-> {}]

\* The bytes of words that begin with their high byte.
BigEndian(words) == [i \in 1 .. 4 * Len(words) |-> ByteOf(words[(i + 3) \div 4], 8 * ((4 * Len(words) - i) % 4))] \o <<>>
LittleEndian(words) == [i \in 1 .. 4 * Len(words) |-> ByteOf(words[(i + 3) \div 4], 8 * ((i - 1) % 4))] \o <<>>

-----------------------------------------------------------------------------
\* crypto-js: arrays of words with a number of significant bytes.
WordArray(words, sigBytes) == [words |-> words, sigBytes |-> sigBytes]

\* The byte n of an array, in place.
Placed(byte, n) == {b + 24 - 8 * (n % 4) : b \in Bits(byte)}

parse(bytes) ==
  WordArray(Array(CeilDiv(Len(bytes), 4),
                  LAMBDA w : UNION {Placed(bytes[n + 1], n) : n \in 4 * w .. LeastOf(4 * w + 3, Len(bytes) - 1)}),
            Len(bytes))

clamp(a) ==
  LET n == CeilDiv(a.sigBytes, 4)
  IN [a EXCEPT !.words = Array(n, LAMBDA w : IF w < n - 1 \/ a.sigBytes % 4 = 0 THEN a.words[w + 1]
                                            ELSE {b \in a.words[w + 1] : b >= 32 - 8 * (a.sigBytes % 4)})]

\* An unaligned array is extended byte by byte, another word by word.
concat(a, that) ==
  LET this == clamp(a).words
      n == a.sigBytes + that.sigBytes
      Moved(w) == UNION {Placed(ByteOf(that.words[i \div 4 + 1], 24 - 8 * (i % 4)), a.sigBytes + i) :
                           i \in {j \in 0 .. that.sigBytes - 1 : (a.sigBytes + j) \div 4 = w}}
  IN WordArray(IF a.sigBytes % 4 = 0 THEN this \o SubSeq(that.words, 1, CeilDiv(that.sigBytes, 4))
               ELSE Array(CeilDiv(n, 4), LAMBDA w : Moved(w) \union IF w < Len(this) THEN this[w + 1] ELSE {}),
               n)

stringify(a) == [i \in 1 .. a.sigBytes |-> ByteOf(a.words[(i + 3) \div 4], 24 - 8 * ((i - 1) % 4))]

-----------------------------------------------------------------------------
\* crypto-js: Keccak's tables, computed when the script is loaded.
Walk ==
  LET step[t \in 0 .. 24] ==
        IF t = 0 THEN [x |-> 1, y |-> 0, offsets |-> <<>>]
        ELSE LET at == step[t - 1]
             IN [x |-> at.y % 5, y |-> (2 * at.x + 3 * at.y) % 5,
                 offsets |-> Append(at.offsets, <<at.x + 5 * at.y, ((t * (t + 1)) \div 2) % 64>>)]
  IN step[24].offsets
RHO_OFFSETS == [lane \in 1 .. 24 |-> (CHOOSE entry \in {Walk[t] : t \in 1 .. 24} : entry[1] = lane)[2]] \o <<>>
PI_INDEXES == Array(25, LAMBDA lane : lane \div 5 + 5 * ((2 * (lane % 5) + 3 * (lane \div 5)) % 5))

\* The states of the linear shift register, of which each decides about a bit.
Shifts7(w) == Iterated(1, 7, <<w>>, LAMBDA s, j : Append(s, IF 7 \in s[j] THEN xor(shl(s[j], 1), {0, 4, 5, 6}) ELSE shl(s[j], 1)))
LFSR == Iterated(1, 24, <<{0}>>, LAMBDA s, i : s \o Tail(Shifts7(Last(s))))
ROUND_CONSTANTS ==
  Array(24, LAMBDA i : LET positions == {2 ^ j - 1 : j \in {k \in 0 .. 6 : 0 \in LFSR[7 * i + k + 1]}}
                       IN [low |-> {b \in positions : b < 32}, high |-> {b - 32 : b \in {p \in positions : p >= 32}}])

\* Lanes of 64 bits in two words.
Lane(high, low) == [high |-> high, low |-> low]
LaneXor(v, w) == Lane(xor(v.high, w.high), xor(v.low, w.low))
SwapEndian(w) == {8 * (3 - b \div 8) + (b % 8) : b \in w}

Theta(state) ==
  LET T == Array(5, LAMBDA x : LaneXor(state[x + 1], LaneXor(state[x + 6], LaneXor(state[x + 11],
                                         LaneXor(state[x + 16], state[x + 21])))))
      Mixed == Array(5, LAMBDA x : LET Tx1 == T[((x + 1) % 5) + 1]
                                   IN LaneXor(T[((x + 4) % 5) + 1], Lane(Funnel(Tx1.high, Tx1.low, 1), Funnel(Tx1.low, Tx1.high, 1))))
  IN Array(25, LAMBDA lane : LaneXor(state[lane + 1], Mixed[(lane % 5) + 1]))

RhoPi(state) ==
  LET Rotated(lane) ==
        LET w == state[lane + 1]
            n == RHO_OFFSETS[lane]
        IN IF n < 32 THEN Lane(Funnel(w.high, w.low, n), Funnel(w.low, w.high, n))
           ELSE Lane(Funnel(w.low, w.high, n - 32), Funnel(w.high, w.low, n - 32))
      From(target) == CHOOSE lane \in 0 .. 24 : PI_INDEXES[lane + 1] = target
  IN Array(25, LAMBDA lane : IF lane = 0 THEN state[1] ELSE Rotated(From(lane)))

Chi(T) ==
  Array(25, LAMBDA lane : LET row == 5 * (lane \div 5)
                              x1 == T[((lane + 1) % 5) + row + 1]
                              x2 == T[((lane + 2) % 5) + row + 1]
                          IN LaneXor(T[lane + 1], Lane(x2.high \ x1.high, x2.low \ x1.low)))

Round(state, i) ==
  LET mixed == Chi(RhoPi(Theta(state)))
  IN <<LaneXor(mixed[1], ROUND_CONSTANTS[i])>> \o Tail(mixed)

_doProcessBlock(state, M, blockSize, offset) ==
  LET Absorbed(lane) ==
        IF lane >= blockSize \div 2 THEN state[lane + 1]
        ELSE LaneXor(state[lane + 1], Lane(SwapEndian(M[offset + 2 * lane + 2]), SwapEndian(M[offset + 2 * lane + 1])))
  IN Iterated(1, 24, Array(25, Absorbed), Round)

-----------------------------------------------------------------------------
\* crypto-js: a hasher keeps the words it has not hashed yet.
NoLanes == Array(25, LAMBDA lane : Lane({}, {}))
reset(outputLength) ==
  [data |-> WordArray(<<>>, 0), state |-> NoLanes, outputLength |-> outputLength,
   blockSize |-> (1600 - 2 * outputLength) \div 32]

_append(hasher, data) == [hasher EXCEPT !.data = concat(@, data)]

\* Blocks that are complete are hashed and taken out.
_process(hasher) ==
  LET size == hasher.blockSize
      nBlocksReady == hasher.data.sigBytes \div (4 * size)
      words == Padded(hasher.data.words, size * nBlocksReady)
      Hashed(state, n) == _doProcessBlock(state, words, size, size * (n - 1))
  IN [hasher EXCEPT !.state = Iterated(1, nBlocksReady, @, Hashed),
                    !.data = WordArray(SubSeq(words, size * nBlocksReady + 1, Len(words)),
                                       @.sigBytes - 4 * size * nBlocksReady)]

update(hasher, data) == _process(_append(hasher, data))

\* The bit after the text, and the last bit of the block.
_doFinalize(hasher) ==
  LET nBitsLeft == 8 * hasher.data.sigBytes
      blockSizeBits == 32 * hasher.blockSize
      first == nBitsLeft \div 32 + 1
      last == (CeilDiv(nBitsLeft + 1, blockSizeBits) * blockSizeBits) \div 32
      words == Padded(hasher.data.words, last)
      ended == [words EXCEPT ![first] = @ \union {24 - (nBitsLeft % 32)}]
      done == _process([hasher EXCEPT !.data = WordArray([ended EXCEPT ![last] = @ \union {7}], 4 * last)])
      lanes == hasher.outputLength \div 64
  IN WordArray(Array(2 * lanes, LAMBDA w : SwapEndian(IF w % 2 = 0 THEN done.state[w \div 2 + 1].low
                                                      ELSE done.state[w \div 2 + 1].high)),
               hasher.outputLength \div 8)

finalize(hasher, data) == _doFinalize(IF data.sigBytes = 0 THEN hasher ELSE _append(hasher, data))

\* What EthUtil.sha3 and sha3buffer return: the content is the last text given.
sha3(bytes) == stringify(finalize(reset(256), parse(bytes)))

-----------------------------------------------------------------------------
\* js-sha3: lanes are the words 2 * lane (low) and 2 * lane + 1; the steps are
\* written out for each word.
Other(w) == IF w % 2 = 0 THEN w + 1 ELSE w - 1

RC == <<{0}, {}, {1, 7, 15}, {}, {1, 3, 7, 15}, {31}, {15, 31}, {31}, {0, 1, 3, 7, 15}, {}, {0, 31}, {},
        {0, 7, 15, 31}, {31}, {0, 3, 15}, {31}, {1, 3, 7}, {}, {3, 7}, {}, {0, 3, 15, 31}, {}, {1, 3, 31}, {},
        {0, 1, 3, 7, 15, 31}, {}, {0, 1, 3, 7}, {31}, {0, 3, 7, 15}, {31}, {0, 1, 15}, {31}, {1, 15}, {31},
        {7}, {31}, {1, 3, 15}, {}, {1, 3, 31}, {31}, {0, 7, 15, 31}, {31}, {7, 15}, {31}, {0, 31}, {},
        {3, 15, 31}, {31}>>

\* s[.] ^= h, s[.] ^= l
Columns(s) ==
  LET c == Array(10, LAMBDA w : xor(s[w + 1], xor(s[w + 11], xor(s[w + 21], xor(s[w + 31], s[w + 41])))))
      t == Array(10, LAMBDA w : xor(c[((w + 8) % 10) + 1], Funnel(c[((w + 2) % 10) + 1], c[Other((w + 2) % 10) + 1], 1)))
  IN Array(50, LAMBDA w : xor(s[w + 1], t[(w % 10) + 1]))

\* For the words b0, b2, ... b48: the word shifted left and the shift.
Shifts ==
  <<<<0, 0>>, <<13, 12>>, <<25, 11>>, <<36, 21>>, <<48, 14>>, <<6, 28>>, <<18, 20>>, <<20, 3>>, <<33, 13>>, <<45, 29>>,
    <<2, 1>>, <<14, 6>>, <<26, 25>>, <<38, 8>>, <<40, 18>>, <<8, 27>>, <<11, 4>>, <<22, 10>>, <<34, 15>>, <<47, 24>>,
    <<5, 30>>, <<17, 23>>, <<29, 7>>, <<31, 9>>, <<42, 2>>>>
Shifted(s) ==
  Array(50, LAMBDA w : LET from == Shifts[w \div 2 + 1][1]
                           left == IF w % 2 = 0 THEN from ELSE Other(from)
                       IN Funnel(s[left + 1], s[Other(left) + 1], Shifts[w \div 2 + 1][2]))

Rows(b) ==
  Array(50, LAMBDA w : LET row == 10 * (w \div 10)
                       IN xor(b[w + 1], b[row + ((w + 4) % 10) + 1] \ b[row + ((w + 2) % 10) + 1]))

Turn(s, n) ==
  LET mixed == Rows(Shifted(Columns(s)))
  IN <<xor(mixed[1], RC[2 * n - 1]), xor(mixed[2], RC[2 * n])>> \o SubSeq(mixed, 3, 50)

Permuted(s) == Iterated(1, 24, s, Turn)

\* The words of a block: the bytes from index on and what ends the text, which
\* at a block's end goes into the word that the next block begins with.
Filled(message, index, carried, byteCount) ==
  LET count == LeastOf(Len(message) - index, byteCount)
      At(i) == {b + 8 * (i % 4) : b \in Bits(message[index + i + 1])}
      Word(w) == UNION {At(i) : i \in {j \in 4 * w .. 4 * w + 3 : j < count}}
      ends == index <= Len(message) /\ index + count = Len(message)
  IN Array(byteCount \div 4 + 1, LAMBDA w : Word(w) \union (IF w = 0 THEN carried ELSE {})
                                            \union (IF ends /\ count \div 4 = w THEN {8 * (count % 4)} ELSE {}))

keccak(message, bits) ==
  LET blockCount == (1600 - 2 * bits) \div 32
      byteCount == 4 * blockCount
      absorb[n \in Nat] ==   \* after n blocks
        IF n = 0 THEN [s |-> Array(50, LAMBDA w : {}), index |-> 0, block |-> {}, end |-> FALSE]
        ELSE LET before == absorb[n - 1]
                 index == before.index + LeastOf(byteCount, Len(message) - before.index)
                 ended == before.index > Len(message)   \* by the block before
                 over == ended \/ index = Len(message)
                 end == ended \/ (over /\ index - before.index < byteCount)
                 blocks == Filled(IF ended THEN <<>> ELSE message, before.index, before.block, byteCount)
                 Mark(w) == IF end /\ w = blockCount - 1 THEN {31} ELSE {}
             IN [s |-> Permuted(Array(50, LAMBDA w : IF w >= blockCount THEN before.s[w + 1]
                                                     ELSE xor(before.s[w + 1], blocks[w + 1] \union Mark(w)))),
                 index |-> IF over THEN Len(message) + 1 ELSE index, block |-> blocks[blockCount + 1], end |-> end]
      absorbed == absorb[CHOOSE n \in 1 .. Len(message) + 2 : absorb[n].end /\ \A k \in 1 .. n - 1 : ~absorb[k].end]
  IN SubSeq(LittleEndian(absorbed.s), 1, bits \div 8)

\* browserify-sha3 hashes all that it was given.
digest(content) == keccak(content[1] \o content[2], 256)

\* The hashes that ethereumjs-util names: of nothing, of the coding of an empty
\* list and of that of an empty buffer.
Hex(quads) == Array(32, LAMBDA i : LET q == quads[i \div 2 + 1] IN IF i % 2 = 0 THEN q \div 256 ELSE q % 256)
SHA3_NULL ==
  Hex(<<\hc5d2, \h4601, \h86f7, \h233c, \h927e, \h7db2, \hdcc7, \h03c0,
         \he500, \hb653, \hca82, \h273b, \h7bfa, \hd804, \h5d85, \ha470>>)
SHA3_RLP_ARRAY ==
  Hex(<<\h1dcc, \h4de8, \hdec7, \h5d7a, \hab85, \hb567, \hb6cc, \hd41a,
         \hd312, \h451b, \h948a, \h7413, \hf0a1, \h42fd, \h40d4, \h9347>>)
SHA3_RLP ==
  Hex(<<\h56e8, \h1f17, \h1bcc, \h55a6, \hff83, \h45e6, \h92c0, \hf86e,
         \h5b48, \he01b, \h996c, \hadc0, \h0162, \h2fb5, \he363, \hb421>>)

-----------------------------------------------------------------------------
\* SHA-256: the compression that both implementations run.
Word32(halves) == Bits(halves[2]) \union {b + 16 : b \in Bits(halves[1])}
sha256_K ==
  LET K == <<
    <<\h428a, \h2f98>>, <<\h7137, \h4491>>, <<\hb5c0, \hfbcf>>, <<\he9b5, \hdba5>>,
    <<\h3956, \hc25b>>, <<\h59f1, \h11f1>>, <<\h923f, \h82a4>>, <<\hab1c, \h5ed5>>,
    <<\hd807, \haa98>>, <<\h1283, \h5b01>>, <<\h2431, \h85be>>, <<\h550c, \h7dc3>>,
    <<\h72be, \h5d74>>, <<\h80de, \hb1fe>>, <<\h9bdc, \h06a7>>, <<\hc19b, \hf174>>,
    <<\he49b, \h69c1>>, <<\hefbe, \h4786>>, <<\h0fc1, \h9dc6>>, <<\h240c, \ha1cc>>,
    <<\h2de9, \h2c6f>>, <<\h4a74, \h84aa>>, <<\h5cb0, \ha9dc>>, <<\h76f9, \h88da>>,
    <<\h983e, \h5152>>, <<\ha831, \hc66d>>, <<\hb003, \h27c8>>, <<\hbf59, \h7fc7>>,
    <<\hc6e0, \h0bf3>>, <<\hd5a7, \h9147>>, <<\h06ca, \h6351>>, <<\h1429, \h2967>>,
    <<\h27b7, \h0a85>>, <<\h2e1b, \h2138>>, <<\h4d2c, \h6dfc>>, <<\h5338, \h0d13>>,
    <<\h650a, \h7354>>, <<\h766a, \h0abb>>, <<\h81c2, \hc92e>>, <<\h9272, \h2c85>>,
    <<\ha2bf, \he8a1>>, <<\ha81a, \h664b>>, <<\hc24b, \h8b70>>, <<\hc76c, \h51a3>>,
    <<\hd192, \he819>>, <<\hd699, \h0624>>, <<\hf40e, \h3585>>, <<\h106a, \ha070>>,
    <<\h19a4, \hc116>>, <<\h1e37, \h6c08>>, <<\h2748, \h774c>>, <<\h34b0, \hbcb5>>,
    <<\h391c, \h0cb3>>, <<\h4ed8, \haa4a>>, <<\h5b9c, \hca4f>>, <<\h682e, \h6ff3>>,
    <<\h748f, \h82ee>>, <<\h78a5, \h636f>>, <<\h84c8, \h7814>>, <<\h8cc7, \h0208>>,
    <<\h90be, \hfffa>>, <<\ha450, \h6ceb>>, <<\hbef9, \ha3f7>>, <<\hc671, \h78f2>>>>
  IN Array(64, LAMBDA i : Word32(K[i + 1]))
Initial ==
  LET h == <<<<\h6a09, \he667>>, <<\hbb67, \hae85>>, <<\h3c6e, \hf372>>, <<\ha54f, \hf53a>>,
             <<\h510e, \h527f>>, <<\h9b05, \h688c>>, <<\h1f83, \hd9ab>>, <<\h5be0, \hcd19>>>>
  IN Array(8, LAMBDA i : Word32(h[i + 1]))

s0_256(x) == xor(rotr32(x, 2), xor(rotr32(x, 13), rotr32(x, 22)))
s1_256(x) == xor(rotr32(x, 6), xor(rotr32(x, 11), rotr32(x, 25)))
g0_256(x) == xor(rotr32(x, 7), xor(rotr32(x, 18), shr(x, 3)))
g1_256(x) == xor(rotr32(x, 17), xor(rotr32(x, 19), shr(x, 10)))

Compressed(h, block, ch(_, _, _), maj(_, _, _)) ==
  LET Scheduled(W, i) ==
        Append(W, Sum32(<<g1_256(W[i - 2]), W[i - 7], g0_256(W[i - 15]), W[i - 16]>>))
      schedule == Iterated(17, 64, block, Scheduled)
      Turned(v, i) ==   \* v: a to h
        LET T1 == Sum32(<<v[8], s1_256(v[5]), ch(v[5], v[6], v[7]), sha256_K[i], schedule[i]>>)
            T2 == Sum32(<<s0_256(v[1]), maj(v[1], v[2], v[3])>>)
        IN <<Sum32(<<T1, T2>>), v[1], v[2], v[3], Sum32(<<v[4], T1>>), v[5], v[6], v[7]>>
      last == Iterated(1, 64, h, Turned)
  IN Array(8, LAMBDA i : Sum32(<<h[i + 1], last[i + 1]>>))

WordsOf(bytes) == Array(Len(bytes) \div 4, LAMBDA w : UNION {Placed(bytes[4 * w + i + 1], i) : i \in 0 .. 3})

-----------------------------------------------------------------------------
\* hash.js: the bytes that do not fill a block yet are pending.
ch32(x, y, z) == xor(x \intersect y, z \ x)
maj32(x, y, z) == xor(x \intersect y, xor(x \intersect z, y \intersect z))

BlockHash == [pending |-> <<>>, pendingTotal |-> 0, h |-> Initial]

Blocks(h, bytes, compress(_, _)) ==
  Iterated(1, Len(bytes) \div 64, h, LAMBDA g, n : compress(g, SubSeq(bytes, 64 * n - 63, 64 * n)))

SHA256_update(h, block) == Compressed(h, WordsOf(block), ch32, maj32)

blockUpdate(hash, msg) ==
  LET all == hash.pending \o msg
      r == Len(all) % 64
  IN [pending |-> SubSeq(all, Len(all) - r + 1, Len(all)), pendingTotal |-> hash.pendingTotal + Len(msg),
      h |-> Blocks(hash.h, SubSeq(all, 1, Len(all) - r), SHA256_update)]

\* The bit after the text, zeros, and the text's number of bits.
Length32(len) == [i \in 1 .. 4 |-> ((8 * len) \div 256 ^ (4 - i)) % 256]
_pad(len) ==
  LET k == 64 - ((len + 8) % 64)
  IN <<128>> \o [i \in 1 .. k + 3 |-> 0] \o Length32(len)

blockDigest(hash) == BigEndian(blockUpdate(hash, _pad(hash.pendingTotal)).h)

\* The inner and the outer hash begin with the key, of a block's length.
HmacOf(key) ==
  LET short == IF Len(key) > 64 THEN blockDigest(blockUpdate(BlockHash, key)) ELSE key
      Keyed(pad) == blockUpdate(BlockHash, [i \in 1 .. 64 |-> ByteOf(xor(Bits(IF i > Len(short) THEN 0 ELSE short[i]), pad), 0)])
      inner == {1, 2, 4, 5}   \* 0x36
  IN [inner |-> Keyed(inner), outer |-> Keyed(xor(inner, {1, 3, 5, 6}))]

hmacUpdate(mac, msg) == [mac EXCEPT !.inner = blockUpdate(@, msg)]
hmacDigest(mac) == blockDigest(blockUpdate(mac.outer, blockDigest(mac.inner)))

-----------------------------------------------------------------------------
\* sha.js: one buffer of a block, which texts are copied into.
ch(x, y, z) == xor(z, x \intersect xor(y, z))
maj(x, y, z) == (x \intersect y) \union (z \intersect (x \union y))

\* The buffer is not initialised.
NewSha256 == [block |-> [i \in 1 .. 64 |-> 170], len |-> 0, h |-> Initial]
Sha256_update(h, block) == Compressed(h, WordsOf(block), ch, maj)

\* How far data is copied with each turn of the loop, and the buffer then.
shaUpdate(hash, data) ==
  LET Copied(s, n) ==
        LET at == (hash.len + s.f) % 64
            t == LeastOf(Len(data), s.f + 64 - at)
            block == [i \in 1 .. 64 |-> IF i > at /\ i <= at + t - s.f THEN data[s.f + i - at] ELSE s.block[i]] \o <<>>
        IN [f |-> t, block |-> block,
            h |-> IF (hash.len + t) % 64 = 0 THEN Sha256_update(s.h, block) ELSE s.h]
      turns == IF data = <<>> THEN 0 ELSE CeilDiv((hash.len % 64) + Len(data), 64)
      copied == Iterated(1, turns, [f |-> 0, block |-> hash.block, h |-> hash.h], Copied)
  IN [block |-> copied.block, len |-> hash.len + Len(data), h |-> copied.h]

shaDigest(hash) ==
  LET rem == hash.len % 64
      ended == [i \in 1 .. 64 |-> IF i <= rem THEN hash.block[i] ELSE IF i = rem + 1 THEN 128 ELSE 0]
      full == rem >= 56
      h == IF full THEN Sha256_update(hash.h, ended) ELSE hash.h
      block == [i \in 1 .. 60 |-> IF full THEN 0 ELSE ended[i]] \o Length32(hash.len)
  IN BigEndian(Sha256_update(h, block))

=============================================================================
