--------------------------------- MODULE Md5 ---------------------------------
(***************************************************************************)
(* Class MD5 of md5.cc: the constructor takes in a message, getDigest pads *)
(* it and reads the digest, toStr writes that in hexadecimal.  The sizes   *)
(* are parameters so that small blocks and counters show what 64 bytes and *)
(* words of 32 bits would only with long messages.                         *)
(*                                                                         *)
(* transform mixes a block into the state in 64 rounds of bit operations.  *)
(* Here the state is one number, into which it mixes every byte according  *)
(* to its place.                                                           *)
(***************************************************************************)
EXTENDS Integers, Sequences, Powers

CONSTANTS BlockSize,  \* bytes of a block, 64
          WordBits    \* bits of each of the two words of count, 32

LengthSize == 2 * (WordBits \div 8)

ASSUME Md5Assumption ==
    /\ WordBits \in Nat \ {0} /\ WordBits % 8 = 0
    /\ BlockSize \in Nat /\ LengthSize < BlockSize
    /\ Power[WordBits - 3] % BlockSize = 0

InitialState == 6689

transform(state, block) ==
    LET Mixed[k \in 0..Len(block)] ==
            IF k = 0 THEN state ELSE (Mixed[k - 1] * 31 + block[k] + 7) % 9973
    IN Mixed[Len(block)]

PADDING == [i \in 1..BlockSize |-> IF i = 1 THEN 128 ELSE 0]

(* The bytes s over those of buffer from position p on.                    *)
Overwrite(buffer, p, s) ==
    [i \in DOMAIN buffer |-> IF i \in p + 1..p + Len(s) THEN s[i - p] ELSE buffer[i]]

(* encode of the two words of count, lowest byte first, and of the state.  *)
EncodeCount(words) ==
    LET Byte(word, i) == (word \div Power[8 * i]) % 256
    IN [i \in 1..LengthSize |->
            Byte(words[1 + (i - 1) \div (LengthSize \div 2)], (i - 1) % (LengthSize \div 2))]
DigestOf(state) == [i \in 1..16 |-> (state \div i) % 256]

BufferIndex(o) == (o.count[1] \div 8) % BlockSize

(* The bits of the input are added to count, with a carry; the buffer is   *)
(* filled and transformed, then whole blocks of the input are, and the     *)
(* rest stays in the buffer.                                               *)
init(o, input) ==
    LET len == Len(input)
        bits == (8 * len) % Power[WordBits]
        low == (o.count[1] + bits) % Power[WordBits]
        carry == IF low < bits THEN 1 ELSE 0
        high == (o.count[2] + carry + (len \div Power[WordBits - 3])) % Power[WordBits]
        counted == [o EXCEPT !.finished = FALSE, !.count = <<low, high>>]
        partLen == BlockSize - BufferIndex(o)
        full == Overwrite(o.buffer, BufferIndex(o), SubSeq(input, 1, partLen))
        blocks == (len - partLen) \div BlockSize
        Block(k) == SubSeq(input, partLen + BlockSize * (k - 1) + 1, partLen + BlockSize * k)
        Transformed[k \in 0..blocks] ==
            transform(IF k = 0 THEN o.state ELSE Transformed[k - 1],
                      IF k = 0 THEN full ELSE Block(k))
        rest == SubSeq(input, partLen + BlockSize * blocks + 1, len)
    IN IF len < partLen THEN [counted EXCEPT !.buffer = Overwrite(o.buffer, BufferIndex(o), input)]
       ELSE [counted EXCEPT
                !.state = Transformed[blocks],
                !.buffer = Overwrite(full, 0, rest)]

(* The constructor.  Nothing is in the buffer that it has not put there.   *)
MD5(message) ==
    init([finished |-> FALSE, count |-> <<0, 0>>, state |-> InitialState, digest |-> <<>>,
          buffer |-> [i \in 1..BlockSize |-> 255]], message)

\* mutation: a block that has just room for the length is taken to have none
padLenShort(o) ==
    IF BufferIndex(o) <= BlockSize - LengthSize THEN BlockSize - LengthSize - BufferIndex(o)
    ELSE 2 * BlockSize - LengthSize - BufferIndex(o)

padLen(o) ==
    IF BufferIndex(o) < BlockSize - LengthSize THEN BlockSize - LengthSize - BufferIndex(o)
    ELSE 2 * BlockSize - LengthSize - BufferIndex(o)

(* The object after getDigest: state and count are what they were, the     *)
(* buffer is not, and finished, set to true, is false again after init.    *)
getDigest(o) ==
    IF o.finished THEN o
    ELSE LET bits == EncodeCount(o.count)
             padded == init(init(o, SubSeq(PADDING, 1, padLen(o))), bits)
         IN [padded EXCEPT !.digest = DigestOf(padded.state),
                           !.state = o.state, !.count = o.count]

HEX_NUMBERS == [t \in 0..15 |-> IF t < 10 THEN 48 + t ELSE 87 + t]

(* The string that toStr returns.                                          *)
toStr(o) ==
    LET digest == getDigest(o).digest
    IN [i \in 1..32 |->
            HEX_NUMBERS[IF i % 2 = 1 THEN digest[(i + 1) \div 2] \div 16
                                     ELSE digest[i \div 2] % 16]]

-----------------------------------------------------------------------------
(* What the digest is of: the message, a byte 128, zeros and the length in *)
(* bits, all of it a number of whole blocks.                               *)
Padded(message) ==
    LET length == 8 * Len(message)
        zeros == CHOOSE n \in 0..BlockSize - 1 :
                    (Len(message) + 1 + n + LengthSize) % BlockSize = 0
    IN message \o <<128>> \o [i \in 1..zeros |-> 0]
           \o [i \in 1..LengthSize |-> (length \div Power[8 * (i - 1)]) % 256]

(* transform takes the bytes one after the other: the blocks at once.      *)
ReferenceDigest(message) == DigestOf(transform(InitialState, Padded(message)))
=============================================================================
