--------------------------------- MODULE Rlp ---------------------------------
(***************************************************************************)
(* The recursive length prefix: an item is a buffer or a list of items.     *)
(* The first byte tells buffers from lists and short lengths, up to SHORT,  *)
(* from those that follow in bytes of their own.                            *)
(***************************************************************************)
EXTENDS Integers, Sequences, SequencesExt, FiniteSetsExt

CONSTANTS
  BYTE,   \* bits of a byte (8)
  SHORT   \* longest short length (55)

StringOffset == 2 ^ (BYTE - 1)
ListOffset == StringOffset + 2 ^ (BYTE - 2)

Buffer(bytes) == [type |-> "buffer", of |-> bytes]
List(items) == [type |-> "list", of |-> items]
Invalid == [type |-> "error", of |-> <<>>]

\* A number in as few bytes as it needs, at least one.
intToBuffer(n) ==
  LET len == CHOOSE k \in 1 .. 4 : n < 2 ^ (BYTE * k) /\ (k = 1 \/ n >= 2 ^ (BYTE * (k - 1)))
  IN [i \in 1 .. len |-> (n \div 2 ^ (BYTE * (len - i))) % 2 ^ BYTE]

encodeLength(len, offset) ==
  IF len <= SHORT THEN <<offset + len>>
  ELSE <<offset + SHORT + Len(intToBuffer(len))>> \o intToBuffer(len)

RECURSIVE rlpEncode(_)

rlpEncode(item) ==
  LET inner == FlattenSeq([i \in DOMAIN item.of |-> rlpEncode(item.of[i])])
  IN IF item.type = "list" THEN encodeLength(Len(inner), ListOffset) \o inner
     ELSE IF Len(item.of) = 1 /\ item.of[1] < StringOffset THEN item.of
     ELSE encodeLength(Len(item.of), StringOffset) \o item.of

\* Up to a length that is not in the input: JavaScript's slice.
Slice(b, first, end) == SubSeq(b, first, Min({end, Len(b)}))

\* The length that follows the first byte; zeros in front are an error.
safeParseInt(bytes) ==
  IF bytes = <<>> \/ bytes[1] = 0 THEN -1 ELSE FoldLeft(LAMBDA n, b : n * 2 ^ BYTE + b, 0, bytes)

RECURSIVE _decode(_), Items(_)

Items(b) ==
  LET d == _decode(b)
  IN IF b = <<>> THEN <<>> ELSE <<d.data>> \o Items(d.remainder)

\* What the first byte announces, and the rest.  An error ends the decoding.
_decode(b) ==
  LET first == b[1]
      offset == IF first < ListOffset THEN StringOffset ELSE ListOffset
      short == first <= offset + SHORT
      lenBytes == IF short THEN 0 ELSE first - offset - SHORT
      len == IF short THEN first - offset ELSE safeParseInt(Slice(b, 2, 1 + lenBytes))
      data == Slice(b, 2 + lenBytes, 1 + lenBytes + len)
      items == Items(data)
      Result(item) == [data |-> item, remainder |-> SubSeq(b, 2 + lenBytes + len, Len(b))]
      failed == [data |-> Invalid, remainder |-> <<>>]
  IN IF first < StringOffset THEN [data |-> Buffer(<<first>>), remainder |-> Tail(b)]
     ELSE IF len < 0 THEN failed
     ELSE IF first < ListOffset
     THEN IF short /\ len = 1 /\ data # <<>> /\ data[1] < StringOffset THEN failed
          ELSE IF ~short /\ Len(data) < len THEN failed ELSE Result(Buffer(data))
     ELSE IF ~short /\ (1 + lenBytes + len > Len(b) \/ data = <<>>) THEN failed
     ELSE IF \E i \in DOMAIN items : items[i] = Invalid THEN failed ELSE Result(List(items))

rlpDecode(b) ==
  LET d == _decode(b)
  IN IF b = <<>> THEN Buffer(<<>>) ELSE IF d.remainder # <<>> THEN Invalid ELSE d.data

\* The bytes of the first item, as its first bytes announce them; of a long
\* buffer those of its length only.
getLength(b) ==
  LET first == b[1]
      offset == IF first < ListOffset THEN StringOffset ELSE ListOffset
      lenBytes == first - offset - SHORT
  IN IF first < StringOffset THEN Len(b)
     ELSE IF lenBytes <= 0 THEN 1 + first - offset
     ELSE IF first < ListOffset THEN 1 + lenBytes
     ELSE 1 + lenBytes + safeParseInt(Slice(b, 2, 1 + lenBytes))
=============================================================================
