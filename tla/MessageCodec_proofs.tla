------------------------- MODULE MessageCodec_proofs -------------------------
(***************************************************************************)
(* What the server decodes and what the client decodes, of every message   *)
(* that the setters can make, whatever its payload, and what MD5 digests,  *)
(* whatever the sizes of its blocks and counters.                          *)
(*                                                                         *)
(* DigestIs says that an MD5 object that takes in a message and pads it    *)
(* has mixed the padded message into its state, byte after byte: Has says  *)
(* so of every object on the way.                                          *)
(*                                                                         *)
(* Encoding says where encode puts each field of a message of the right    *)
(* sizes (Shape), Decoding that decode takes each from there, and Reply    *)
(* what a reply has in its fields.  The invariant CodecInv says of which   *)
(* request, by which of these, every later message and string was made.    *)
(***************************************************************************)
EXTENDS MessageCodec, SequenceTheorems, Powers_proofs

-----------------------------------------------------------------------------
(* Mixing bytes into the state.                                            *)

(* The states from first on, as the bytes of s are mixed into it.          *)
Mix(x, byte) == (x * 31 + byte + 7) % 9973

Path(g, first, s) ==
    /\ g \in [0..Len(s) -> Int]
    /\ g[0] = first
    /\ \A k \in 1..Len(s) : g[k] = Mix(g[k - 1], s[k])

LEMMA MixType == ASSUME NEW x \in Int, NEW byte \in Int PROVE Mix(x, byte) \in Int
<1>1. x * 31 + byte + 7 \in Int
  OBVIOUS
<1> QED
  BY <1>1 DEF Mix

LEMMA PathExists ==
    ASSUME NEW s \in Seq(Int), NEW first \in Int
    PROVE  \E g : Path(g, first, s)
<1> DEFINE D == 0..Len(s)
           step == [p \in Int \X (D \ {0}) |-> Mix(p[1], s[p[2]])]
<1>1. Len(s) \in Nat
  OBVIOUS
<1>2. \A k \in D \ {0} : s[k] \in Int
  BY <1>1
<1>3. step \in [Int \X (D \ {0}) -> Int] /\ \A x \in Int, k \in D \ {0} : step[<<x, k>>] = Mix(x, s[k])
  BY <1>2, MixType
<1> HIDE DEF step
<1>4. D \in SUBSET Nat /\ 0 \in D /\ \A k \in D \ {0} : k - 1 \in D
  BY <1>1
<1> HIDE DEF D
<1>5. PICK g \in [D -> Int] : Iterates(g, first, step, D)
  BY <1>3, <1>4, Recursion
<1>6. \A k \in D \ {0} : g[k] = Mix(g[k - 1], s[k])
  BY <1>3, <1>4, <1>5 DEF Iterates
<1>7. \A k \in 1..Len(s) : k \in D \ {0}
  BY <1>1 DEF D
<1>8. g \in [0..Len(s) -> Int] /\ g[0] = first
  BY <1>5 DEF D, Iterates
<1> QED
  BY <1>6, <1>7, <1>8 DEF Path

LEMMA PathEnd ==
    ASSUME NEW s \in Seq(Int), NEW first, NEW g, Path(g, first, s)
    PROVE  transform(first, s) = g[Len(s)]
<1> DEFINE D == 0..Len(s)
           Def(f) == [k \in D |-> IF k = 0 THEN first ELSE (f[k - 1] * 31 + s[k] + 7) % 9973]
           M == CHOOSE f : f = Def(f)
<1>1. Len(s) \in Nat
  OBVIOUS
<1>2. g = Def(g)
  <2>1. ASSUME NEW k \in D
        PROVE  g[k] = IF k = 0 THEN first ELSE (g[k - 1] * 31 + s[k] + 7) % 9973
    <3>1. CASE k = 0
      BY <3>1 DEF Path
    <3>2. CASE k # 0
      <4>1. k \in 1..Len(s)
        BY <1>1, <3>2
      <4>2. g[k] = Mix(g[k - 1], s[k])
        BY <4>1 DEF Path
      <4> QED
        BY <3>2, <4>2 DEF Mix
    <3> QED
      BY <3>1, <3>2
  <2>2. g = [k \in D |-> g[k]]
    BY DEF Path
  <2> QED
    BY <2>1, <2>2
<1> HIDE DEF Def
<1>3. M = Def(M)
  BY <1>2, Zenon
<1> USE DEF Def
<1>4. transform(first, s) = M[Len(s)]
  BY DEF transform
<1> HIDE DEF M
<1> DEFINE Q == {k \in Nat : k \in D => M[k] = g[k]}
<1>5. 0 \in Q
  <2>1. 0 \in D
    BY <1>1
  <2>2. M[0] = first
    BY <1>3, <2>1
  <2> QED
    BY <2>2 DEF Path
<1>6. ASSUME NEW k \in Nat, k \in Q PROVE k + 1 \in Q
  <2> SUFFICES ASSUME k + 1 \in D PROVE M[k + 1] = g[k + 1]
    OBVIOUS
  <2>1. PICK j \in D : j = k + 1 /\ j # 0 /\ j - 1 = k /\ k \in D /\ j \in 1..Len(s)
    BY <1>1
  <2>2. M[j] = (M[j - 1] * 31 + s[j] + 7) % 9973
    BY <1>3, <2>1
  <2>3. M[k] = g[k]
    BY <1>6, <2>1
  <2>4. g[j] = Mix(g[j - 1], s[j])
    BY <2>1 DEF Path
  <2> QED
    BY <2>1, <2>2, <2>3, <2>4 DEF Mix
<1> HIDE DEF Q
<1>7. Len(s) \in Q
  BY <1>1, <1>5, <1>6, SetInduction
<1> QED
  BY <1>1, <1>4, <1>7 DEF Q

(* A block of the bytes is transformed from the state before it to that    *)
(* after it.                                                               *)
LEMMA BlockOfPath ==
    ASSUME NEW s \in Seq(Int), NEW first, NEW g, Path(g, first, s),
           NEW a \in Nat, NEW block \in Seq(Int), a + Len(block) <= Len(s),
           \A i \in 1..Len(block) : block[i] = s[a + i]
    PROVE  transform(g[a], block) = g[a + Len(block)] /\ g[a + Len(block)] \in Int
<1>1. Len(s) \in Nat /\ Len(block) \in Nat
  OBVIOUS
<1> DEFINE h == [k \in 0..Len(block) |-> g[a + k]]
<1>2. h \in [0..Len(block) -> Int] /\ h[0] = g[a]
  <2>1. \A k \in 0..Len(block) : a + k \in 0..Len(s)
    BY <1>1
  <2>2. \A k \in 0..Len(block) : g[a + k] \in Int
    BY <2>1 DEF Path
  <2>3. 0 \in 0..Len(block) /\ a + 0 = a
    BY <1>1
  <2> QED
    BY <2>2, <2>3
<1>3. ASSUME NEW k \in 1..Len(block) PROVE h[k] = Mix(h[k - 1], block[k])
  <2>1. PICK j \in 1..Len(s) : j = a + k /\ j - 1 = a + (k - 1) /\ k - 1 \in 0..Len(block)
    BY <1>1
  <2>2. g[j] = Mix(g[j - 1], s[j])
    BY DEF Path
  <2>3. k \in 0..Len(block)
    BY <1>1
  <2> QED
    BY <2>1, <2>2, <2>3
<1>4. h[Len(block)] = g[a + Len(block)] /\ h[Len(block)] \in Int
  <2>1. Len(block) \in 0..Len(block)
    BY <1>1
  <2> QED
    BY <1>2, <2>1
<1> HIDE DEF h
<1>5. Path(h, g[a], block)
  BY <1>2, <1>3 DEF Path
<1>6. transform(g[a], block) = h[Len(block)]
  BY <1>5, PathEnd
<1> QED
  BY <1>4, <1>6

-----------------------------------------------------------------------------
(* The sizes and the count.                                                *)

LEMMA Sizes ==
    /\ BlockSize \in Nat \ {0} /\ LengthSize \in Nat /\ LengthSize < BlockSize
    /\ WordBits \div 8 \in Nat /\ LengthSize = 2 * (WordBits \div 8) /\ LengthSize # 0
    /\ WordBits = 8 * (WordBits \div 8)
    /\ \E M \in Nat \ {0}, c \in Nat :
         M = Power[WordBits - 3] /\ Power[WordBits] = 8 * M /\ M = BlockSize * c
<1>1. WordBits \in Nat \ {0} /\ WordBits % 8 = 0 /\ BlockSize \in Nat /\ LengthSize < BlockSize
  BY Md5Assumption
<1>2. PICK h \in Nat : h = WordBits \div 8 /\ WordBits = 8 * h /\ h # 0
  BY <1>1
<1>3. LengthSize = 2 * h
  BY <1>2 DEF LengthSize
<1>4. BlockSize \in Nat \ {0}
  BY <1>1, <1>2, <1>3
<1>5. PICK m \in Nat : m = WordBits - 3 /\ WordBits = m + 3
  <2>1. WordBits - 3 \in Nat /\ WordBits = (WordBits - 3) + 3
    BY <1>2
  <2> QED
    BY <2>1
<1>6. Power[3] = 8
  <2>1. Power[0 + 1] = 2 * Power[0] /\ Power[1 + 1] = 2 * Power[1] /\ Power[2 + 1] = 2 * Power[2]
    BY PowerDef
  <2> QED
    BY <2>1, PowerDef
<1>7. PICK M \in Nat \ {0} : M = Power[m]
  BY PowerPositive
<1>8. Power[WordBits] = 8 * M
  <2>1. Power[m + 3] = Power[m] * Power[3]
    BY PowerSum
  <2> QED
    BY <1>5, <1>6, <1>7, <2>1
<1>9. \E c \in Nat : M = BlockSize * c
  <2>1. M % BlockSize = 0
    BY <1>5, <1>7, Md5Assumption
  <2>2. M \div BlockSize \in Int /\ M = BlockSize * (M \div BlockSize)
    BY <1>4, <2>1, DivMod
  <2>3. M \div BlockSize \in Nat
    BY <1>4
  <2> QED
    BY <2>2, <2>3
<1> QED
  BY <1>1, <1>2, <1>3, <1>4, <1>5, <1>7, <1>8, <1>9

(* The bits of a length, cut to a word: what of them is in the word, and   *)
(* what is above it.                                                       *)
LEMMA Bits ==
    ASSUME NEW M \in Nat \ {0}, NEW n \in Nat
    PROVE  /\ (8 * n) \div (8 * M) = n \div M
           /\ (8 * n) % (8 * M) = 8 * (n % M)
<1>1. PICK q \in Int, r \in 0..M - 1 : n = M * q + r /\ q = n \div M /\ r = n % M
  BY DivMod
<1>2. 8 * n = (8 * M) * q + 8 * r
  <2>1. 8 * (M * q + r) = (8 * M) * q + 8 * r
    OBVIOUS
  <2> QED
    BY <1>1, <2>1
<1>3. 8 * r \in 0..8 * M - 1 /\ 8 * M \in Nat \ {0} /\ 8 * n \in Int
  BY <1>1
<1>4. (8 * n) \div (8 * M) = q /\ (8 * n) % (8 * M) = 8 * r
  BY <1>2, <1>3, DivUnique, Zenon
<1> QED
  BY <1>1, <1>4, Zenon

LEMMA BitsInBlock ==
    ASSUME NEW M \in Nat \ {0}, NEW B \in Nat \ {0}, NEW c \in Nat, M = B * c, NEW n \in Nat
    PROVE  (((8 * n) % (8 * M)) \div 8) % B = n % B
<1>1. PICK q \in Int, r \in 0..M - 1 : n = M * q + r /\ r = n % M
  <2>1. n \in Int
    OBVIOUS
  <2> QED
    BY <2>1, DivMod, Zenon
<1>2. ((8 * n) % (8 * M)) \div 8 = r
  <2>1. (8 * n) % (8 * M) = 8 * r
    BY <1>1, Bits
  <2>2. (8 * r) \div 8 = r
    BY <1>1
  <2> QED
    BY <2>1, <2>2
<1>3. n = r + B * (c * q) /\ c * q \in Int /\ r \in Int
  <2>1. (B * c) * q = B * (c * q) /\ c * q \in Int
    BY <1>1
  <2> QED
    BY <1>1, <2>1
<1>4. (r + B * (c * q)) % B = r % B
  BY <1>3, ModAdd, Zenon
<1> QED
  BY <1>2, <1>3, <1>4

LEMMA ModSum ==
    ASSUME NEW a \in Int, NEW b \in Int, NEW m \in Nat \ {0}
    PROVE  ((a % m) + b) % m = (a + b) % m
<1>1. PICK q \in Int, r \in 0..m - 1 : a = m * q + r /\ r = a % m
  BY DivMod
<1>2. a + b = (r + b) + m * q /\ r + b \in Int
  BY <1>1
<1>3. ((r + b) + m * q) % m = (r + b) % m
  BY <1>2, ModAdd, Zenon
<1> QED
  BY <1>1, <1>2, <1>3

Below(a, b) == IF a < b THEN 1 ELSE 0
LowSum(M, n, len) == (((8 * n) % (8 * M)) + ((8 * len) % (8 * M))) % (8 * M)

(* The carry from the low word to the high one.                            *)
LEMMA Carry ==
    ASSUME NEW M \in Nat \ {0}, NEW n \in Nat, NEW len \in Nat
    PROVE  /\ LowSum(M, n, len) = (8 * (n + len)) % (8 * M)
           /\ (((n \div M) % (8 * M)) + Below(LowSum(M, n, len), (8 * len) % (8 * M)) + (len \div M))
                  % (8 * M)
                = ((n + len) \div M) % (8 * M)
<1> DEFINE low == LowSum(M, n, len)
           carry == Below(low, (8 * len) % (8 * M))
<1>0. n \in Int /\ len \in Int
  OBVIOUS
<1>1. PICK q \in Int, r \in 0..M - 1 : n = M * q + r /\ q = n \div M /\ r = n % M
  BY <1>0, DivMod, Zenon
<1>2. PICK p \in Int, s \in 0..M - 1 : len = M * p + s /\ p = len \div M /\ s = len % M
  BY <1>0, DivMod, Zenon
<1>3. (8 * n) % (8 * M) = 8 * r /\ (8 * len) % (8 * M) = 8 * s
  BY <1>1, <1>2, Bits
<1>4. n + len = M * (p + q) + (r + s) /\ n + len \in Nat /\ p + q \in Int
  <2>1. M * (p + q) = M * p + M * q /\ p + q \in Int /\ n + len \in Nat
    OBVIOUS
  <2>2. M * p \in Int /\ M * q \in Int /\ r \in Int /\ s \in Int
    OBVIOUS
  <2>3. n = M * q + r /\ len = M * p + s
    BY <1>1, <1>2, Zenon
  <2> QED
    BY <2>1, <2>2, <2>3
<1>5. /\ (8 * (n + len)) % (8 * M) = 8 * ((n + len) % M)
  BY <1>4, Bits
<1>6. PICK N \in Nat \ {0} : N = 8 * M
  OBVIOUS
<1>10. /\ low = (((8 * n) % (8 * M)) + ((8 * len) % (8 * M))) % (8 * M)
       /\ carry = IF low < (8 * len) % (8 * M) THEN 1 ELSE 0
  BY DEF Below, LowSum
<1> HIDE DEF low, carry
<1>7. ASSUME NEW k \in Int, carry = k, p + q + k = (n + len) \div M
      PROVE  ((q % N) + carry + p) % N = ((n + len) \div M) % N
  <2>1. ((q % N) + (k + p)) % N = (q + (k + p)) % N
    <3>1. k + p \in Int
      OBVIOUS
    <3> QED
      BY <3>1, ModSum, Zenon
  <2>2. q % N \in Int
    BY <1>6, DivMod
  <2>3. (q % N) + k + p = (q % N) + (k + p) /\ q + (k + p) = p + q + k
    BY <2>2
  <2> QED
    BY <1>7, <2>1, <2>3
<1>8. ASSUME r + s < M
      PROVE  /\ low = (8 * (n + len)) % (8 * M)
             /\ (((n \div M) % (8 * M)) + carry + (len \div M)) % (8 * M)
                  = ((n + len) \div M) % (8 * M)
  <2>1. r + s \in 0..M - 1 /\ n + len \in Int
    BY <1>4, <1>8
  <2>2. (n + len) \div M = p + q /\ (n + len) % M = r + s
    BY <1>4, <2>1, DivUnique
  <2>3. low = 8 * (r + s)
    <3>1. 8 * r + 8 * s \in 0..N - 1 /\ 8 * r + 8 * s = 8 * (r + s)
      BY <1>6, <1>8
    <3>2. (8 * r + 8 * s) % N = 8 * r + 8 * s
      BY <3>1
    <3> QED
      BY <1>3, <1>6, <1>10, <3>1, <3>2
  <2>4. carry = 0
    BY <1>3, <1>10, <2>3
  <2>5. p + q + 0 = (n + len) \div M /\ 0 \in Int
    BY <2>2
  <2>6. ((q % N) + carry + p) % N = ((n + len) \div M) % N
    BY <1>7, <2>4, <2>5
  <2> QED
    BY <1>1, <1>2, <1>5, <1>6, <2>2, <2>3, <2>6
<1>9. ASSUME r + s >= M
      PROVE  /\ low = (8 * (n + len)) % (8 * M)
             /\ (((n \div M) % (8 * M)) + carry + (len \div M)) % (8 * M)
                  = ((n + len) \div M) % (8 * M)
  <2>0. M * (p + q + 1) = M * (p + q) + M /\ p + q + 1 \in Int
    OBVIOUS
  <2>1. r + s - M \in 0..M - 1 /\ n + len \in Int /\ n + len = M * (p + q + 1) + (r + s - M)
    BY <1>4, <1>9, <2>0
  <2>2. (n + len) \div M = p + q + 1 /\ (n + len) % M = r + s - M
    <3>1. PICK t \in 0..M - 1, k \in Int : t = r + s - M /\ k = p + q + 1
      BY <2>0, <2>1
    <3>2. n + len = M * k + t
      BY <2>1, <3>1
    <3>3. (n + len) \div M = k /\ (n + len) % M = t
      BY <2>1, <3>2, DivUnique, Zenon
    <3> QED
      BY <3>1, <3>3
  <2>3. low = 8 * (r + s - M)
    <3>1. /\ 8 * (r + s - M) \in 0..N - 1 /\ 8 * r + 8 * s \in Int
          /\ 8 * r + 8 * s = N * 1 + 8 * (r + s - M)
      BY <1>6, <1>9
    <3>2. (8 * r + 8 * s) % N = 8 * (r + s - M)
      <4>1. 1 \in Int
        OBVIOUS
      <4> QED
        BY <3>1, <4>1, DivUnique
    <3> QED
      BY <1>3, <1>6, <1>10, <3>2
  <2>4. carry = 1
    BY <1>3, <1>10, <2>3
  <2>5. p + q + 1 = (n + len) \div M /\ 1 \in Int
    BY <2>2
  <2>6. ((q % N) + carry + p) % N = ((n + len) \div M) % N
    BY <1>7, <2>4, <2>5
  <2> QED
    BY <1>1, <1>2, <1>5, <1>6, <2>2, <2>3, <2>6
<1>11. /\ low = (8 * (n + len)) % (8 * M)
       /\ (((n \div M) % (8 * M)) + carry + (len \div M)) % (8 * M) = ((n + len) \div M) % (8 * M)
  <2>1. r + s < M \/ r + s >= M
    OBVIOUS
  <2> QED
    BY <1>8, <1>9, <2>1, Zenon
<1> QED
  BY <1>11 DEF low, carry

-----------------------------------------------------------------------------
(* The blocks that init transforms.                                        *)

LEMMA Slice ==
    ASSUME NEW s \in Seq(Int), NEW a \in Nat, NEW n \in Nat, a + n <= Len(s)
    PROVE  /\ SubSeq(s, a + 1, a + n) \in Seq(Int) /\ Len(SubSeq(s, a + 1, a + n)) = n
           /\ \A i \in 1..n : SubSeq(s, a + 1, a + n)[i] = s[a + i]
<1>1. Len(s) \in Nat
  OBVIOUS
<1>2. PICK b \in Nat, c \in Nat : b = a + 1 /\ c = a + n
  OBVIOUS
<1>3. \A i \in b..c : s[i] \in Int
  BY <1>1, <1>2, ElementOfSeq
<1>4. (IF b <= c THEN c - b + 1 ELSE 0) = n /\ c - b + 1 = n /\ b \in Int /\ c \in Int
  BY <1>2
<1>5. /\ SubSeq(s, b, c) \in Seq(Int)
      /\ Len(SubSeq(s, b, c)) = IF b <= c THEN c - b + 1 ELSE 0
      /\ \A i \in 1..c - b + 1 : SubSeq(s, b, c)[i] = s[b + i - 1]
  BY <1>3, <1>4, SubSeqProperties
<1>6. \A i \in 1..n : b + i - 1 = a + i
  BY <1>2
<1> QED
  BY <1>2, <1>4, <1>5, <1>6, Zenon

TransformedAll(state, full, input, partLen, blocks) ==
    LET Block(k) == SubSeq(input, partLen + BlockSize * (k - 1) + 1, partLen + BlockSize * k)
        Transformed[k \in 0..blocks] ==
            transform(IF k = 0 THEN state ELSE Transformed[k - 1],
                      IF k = 0 THEN full ELSE Block(k))
    IN Transformed[blocks]

(* A full buffer and some blocks of the input are the bytes of s after the *)
(* first w.                                                                *)
Follow(s, w, full, input, partLen, blocks) ==
    /\ Len(full) = BlockSize /\ \A i \in 1..BlockSize : full[i] = s[w + i]
    /\ partLen + BlockSize * blocks <= Len(input)
    /\ w + BlockSize + BlockSize * blocks <= Len(s)
    /\ \A i \in 1..BlockSize * blocks : input[partLen + i] = s[w + BlockSize + i]

LEMMA BlocksOfPath ==
    ASSUME NEW s \in Seq(Int), NEW first, NEW g, Path(g, first, s),
           NEW w \in Nat, NEW partLen \in Nat, NEW blocks \in Nat,
           NEW full \in Seq(Int), NEW input \in Seq(Int),
           Follow(s, w, full, input, partLen, blocks)
    PROVE  TransformedAll(g[w], full, input, partLen, blocks) = g[w + BlockSize + BlockSize * blocks]
<1> DEFINE D == 0..blocks
           Block(k) == SubSeq(input, partLen + BlockSize * (k - 1) + 1, partLen + BlockSize * k)
           Def(f) == [k \in D |-> transform(IF k = 0 THEN g[w] ELSE f[k - 1],
                                            IF k = 0 THEN full ELSE Block(k))]
           M == CHOOSE f : f = Def(f)
           G == [k \in D |-> g[w + BlockSize + BlockSize * k]]
<1>a. /\ Len(full) = BlockSize /\ \A i \in 1..BlockSize : full[i] = s[w + i]
      /\ partLen + BlockSize * blocks <= Len(input)
      /\ w + BlockSize + BlockSize * blocks <= Len(s)
      /\ \A i \in 1..BlockSize * blocks : input[partLen + i] = s[w + BlockSize + i]
  BY DEF Follow
<1> USE <1>a
<1>0. BlockSize \in Nat \ {0} /\ Len(s) \in Nat /\ Len(input) \in Nat /\ BlockSize * blocks \in Nat
  <2>1. BlockSize \in Nat \ {0}
    BY Sizes, Zenon
  <2>2. BlockSize * blocks \in Nat
    BY <2>1
  <2>3. Len(s) \in Nat /\ Len(input) \in Nat
    OBVIOUS
  <2> QED
    BY <2>1, <2>2, <2>3, Zenon
<1>1. TransformedAll(g[w], full, input, partLen, blocks) = M[blocks]
  BY DEF TransformedAll
<1> HIDE DEF M
<1>2. ASSUME NEW k \in 1..blocks
      PROVE  /\ Block(k) \in Seq(Int) /\ Len(Block(k)) = BlockSize
             /\ \A i \in 1..BlockSize : Block(k)[i] = s[(w + BlockSize + BlockSize * (k - 1)) + i]
             /\ w + BlockSize + BlockSize * (k - 1) \in Nat
             /\ (w + BlockSize + BlockSize * (k - 1)) + BlockSize = w + BlockSize + BlockSize * k
             /\ (w + BlockSize + BlockSize * (k - 1)) + BlockSize <= Len(s)
  <2>1. PICK a \in Nat : a = BlockSize * (k - 1)
    BY <1>0
  <2>2. BlockSize * k = a + BlockSize
    BY <1>0, <2>1
  <2>3. a + BlockSize <= BlockSize * blocks
    <3>1. BlockSize * k <= BlockSize * blocks
      BY <1>0
    <3> QED
      BY <2>2, <3>1
  <2>4. PICK p \in Nat : p = partLen + a
    OBVIOUS
  <2>5. p + BlockSize <= Len(input)
    BY <1>0, <2>3, <2>4
  <2>6. partLen + BlockSize * (k - 1) + 1 = p + 1 /\ partLen + BlockSize * k = p + BlockSize
    BY <1>0, <2>1, <2>2, <2>4
  <2>7. Block(k) = SubSeq(input, p + 1, p + BlockSize)
    BY <2>6, Zenon
  <2> HIDE DEF Block
  <2>8. /\ Block(k) \in Seq(Int) /\ Len(Block(k)) = BlockSize
        /\ \A i \in 1..BlockSize : Block(k)[i] = input[p + i]
    <3>1. BlockSize \in Nat
      BY <1>0
    <3>2. /\ SubSeq(input, p + 1, p + BlockSize) \in Seq(Int)
          /\ Len(SubSeq(input, p + 1, p + BlockSize)) = BlockSize
          /\ \A i \in 1..BlockSize : SubSeq(input, p + 1, p + BlockSize)[i] = input[p + i]
      BY <2>5, <3>1, Slice, Zenon
    <3> QED
      BY <2>7, <3>2, Zenon
  <2>9. ASSUME NEW i \in 1..BlockSize
        PROVE  Block(k)[i] = s[(w + BlockSize + BlockSize * (k - 1)) + i]
    <3>1. PICK j \in 1..BlockSize * blocks : j = a + i
      BY <1>0, <2>3
    <3>2. p + i = partLen + j /\ w + BlockSize + j = (w + BlockSize + a) + i
      BY <1>0, <2>4, <3>1
    <3>3. input[p + i] = s[(w + BlockSize + a) + i]
      BY <3>2, Zenon
    <3> QED
      BY <2>1, <2>8, <3>3, Zenon
  <2>10. PICK v \in Nat : v = w + BlockSize + a
    BY <1>0
  <2>11. v + BlockSize = w + BlockSize + (a + BlockSize) /\ v + BlockSize <= Len(s)
    BY <1>0, <2>3, <2>10
  <2> QED
    BY <2>1, <2>2, <2>8, <2>9, <2>10, <2>11
<1>3. transform(g[w], full) = g[w + BlockSize]
  <2>1. w + Len(full) <= Len(s) /\ \A i \in 1..Len(full) : full[i] = s[w + i]
    <3>1. PICK x \in Nat, b \in Nat : x = BlockSize * blocks /\ b = BlockSize
      BY <1>0
    <3>2. w + b + x <= Len(s)
      BY <3>1
    <3>3. w + b <= Len(s)
      BY <1>0, <3>2
    <3> QED
      BY <3>1, <3>3
  <2>2. transform(g[w], full) = g[w + Len(full)]
    <3>1. PICK block \in Seq(Int), v \in Nat : block = full /\ v = w
      OBVIOUS
    <3>2. v + Len(block) <= Len(s) /\ \A i \in 1..Len(block) : block[i] = s[v + i]
      BY <2>1, <3>1, Zenon
    <3>3. transform(g[v], block) = g[v + Len(block)]
      BY <3>2, BlockOfPath
    <3> QED
      BY <3>1, <3>3, Zenon
  <2> QED
    BY <2>2
<1> HIDE DEF Block
<1>4. ASSUME NEW k \in D \ {0} PROVE transform(G[k - 1], Block(k)) = G[k]
  <2>0. k \in 1..blocks
    OBVIOUS
  <2>1. PICK v \in Nat : /\ v = w + BlockSize + BlockSize * (k - 1)
                         /\ v + BlockSize = w + BlockSize + BlockSize * k /\ v + BlockSize <= Len(s)
                         /\ \A i \in 1..BlockSize : Block(k)[i] = s[v + i]
    BY <1>2, <2>0, Zenon
  <2>2. transform(g[v], Block(k)) = g[v + BlockSize]
    <3>1. PICK block \in Seq(Int) : block = Block(k) /\ Len(block) = BlockSize
      BY <1>2, <2>0, Zenon
    <3>2. v + Len(block) <= Len(s) /\ \A i \in 1..Len(block) : block[i] = s[v + i]
      BY <2>1, <3>1, Zenon
    <3>3. transform(g[v], block) = g[v + Len(block)]
      BY <3>2, BlockOfPath
    <3> QED
      BY <3>1, <3>3
  <2>3. k - 1 \in D /\ k \in D
    OBVIOUS
  <2> QED
    BY <2>1, <2>2, <2>3
<1>5. G[0] = g[w + BlockSize]
  <2>1. 0 \in D /\ w + BlockSize + BlockSize * 0 = w + BlockSize
    BY <1>0
  <2> QED
    BY <2>1
<1>6. G = [k \in D |-> G[k]] /\ G[blocks] = g[w + BlockSize + BlockSize * blocks]
  OBVIOUS
<1> HIDE DEF G
<1>7. G = Def(G)
  <2>1. ASSUME NEW k \in D
        PROVE  G[k] = transform(IF k = 0 THEN g[w] ELSE G[k - 1], IF k = 0 THEN full ELSE Block(k))
    <3>1. CASE k = 0
      BY <1>3, <1>5, <3>1
    <3>2. CASE k # 0
      BY <1>4, <3>2
    <3> QED
      BY <3>1, <3>2
  <2> QED
    BY <1>6, <2>1
<1> HIDE DEF Def
<1>8. M = Def(M)
  BY <1>7, Zenon DEF M
<1> USE DEF Def
<1> DEFINE Q == {k \in Nat : k \in D => M[k] = G[k]}
<1>9. 0 \in Q
  <2>1. 0 \in D
    BY <1>0
  <2>2. M[0] = transform(g[w], full)
    BY <1>8, <2>1
  <2> QED
    BY <1>3, <1>5, <2>2
<1>10. ASSUME NEW k \in Nat, k \in Q PROVE k + 1 \in Q
  <2> SUFFICES ASSUME k + 1 \in D PROVE M[k + 1] = G[k + 1]
    OBVIOUS
  <2>1. PICK j \in D \ {0} : j = k + 1 /\ j - 1 = k /\ k \in D
    OBVIOUS
  <2>2. M[j] = transform(M[j - 1], Block(j))
    BY <1>8, <2>1
  <2>3. M[k] = G[k]
    BY <1>10, <2>1
  <2> QED
    BY <1>4, <2>1, <2>2, <2>3
<1> HIDE DEF Q
<1>11. blocks \in Q
  BY <1>9, <1>10, SetInduction
<1> QED
  BY <1>1, <1>6, <1>11 DEF Q

-----------------------------------------------------------------------------
(* What init makes of an object.                                           *)

Objects ==
    [finished : BOOLEAN, count : Nat \X Nat, state : Int, digest : Seq(Int),
     buffer : [1..BlockSize -> Int]]

Low(o, len) == (o.count[1] + ((8 * len) % Power[WordBits])) % Power[WordBits]
CarryOf(o, len) == IF Low(o, len) < (8 * len) % Power[WordBits] THEN 1 ELSE 0
High(o, len) ==
    (o.count[2] + CarryOf(o, len) + (len \div Power[WordBits - 3])) % Power[WordBits]
PartLen(o) == BlockSize - BufferIndex(o)
Full(o, input) == Overwrite(o.buffer, BufferIndex(o), SubSeq(input, 1, PartLen(o)))
Blocks(o, input) == (Len(input) - PartLen(o)) \div BlockSize
Rest(o, input) == SubSeq(input, PartLen(o) + BlockSize * Blocks(o, input) + 1, Len(input))
NewState(o, input) ==
    IF Len(input) < PartLen(o) THEN o.state
    ELSE TransformedAll(o.state, Full(o, input), input, PartLen(o), Blocks(o, input))
NewBuffer(o, input) ==
    IF Len(input) < PartLen(o) THEN Overwrite(o.buffer, BufferIndex(o), input)
    ELSE Overwrite(Full(o, input), 0, Rest(o, input))

LEMMA InitFields ==
    ASSUME NEW o \in Objects, NEW input,
           <<Low(o, Len(input)), High(o, Len(input))>> \in Nat \X Nat,
           NewState(o, input) \in Int, NewBuffer(o, input) \in [1..BlockSize -> Int]
    PROVE  /\ init(o, input) \in Objects /\ init(o, input).finished = FALSE
           /\ init(o, input).count = <<Low(o, Len(input)), High(o, Len(input))>>
           /\ init(o, input).state = NewState(o, input)
           /\ init(o, input).buffer = NewBuffer(o, input)
<1>0. PICK c \in Nat \X Nat, state \in Int, buffer \in [1..BlockSize -> Int] :
        /\ c = <<Low(o, Len(input)), High(o, Len(input))>>
        /\ state = NewState(o, input) /\ buffer = NewBuffer(o, input)
  OBVIOUS
<1> DEFINE d == <<Low(o, Len(input)), High(o, Len(input))>>
           short == Overwrite(o.buffer, BufferIndex(o), input)
           mixed == TransformedAll(o.state, Full(o, input), input, PartLen(o), Blocks(o, input))
           long == Overwrite(Full(o, input), 0, Rest(o, input))
<1>1. init(o, input) =
        IF Len(input) < PartLen(o)
        THEN [[[o EXCEPT !.finished = FALSE] EXCEPT !.count = d] EXCEPT !.buffer = short]
        ELSE [[[[o EXCEPT !.finished = FALSE] EXCEPT !.count = d] EXCEPT !.state = mixed]
                EXCEPT !.buffer = long]
  BY DEF init, TransformedAll, Low, CarryOf, High, PartLen, Full, Blocks, Rest
<1>2. /\ state = IF Len(input) < PartLen(o) THEN o.state ELSE mixed
      /\ buffer = IF Len(input) < PartLen(o) THEN short ELSE long
  BY <1>0 DEF NewState, NewBuffer
<1> HIDE DEF d, short, mixed, long
<1>3. PICK n : n = [o EXCEPT !.finished = FALSE]
  OBVIOUS
<1>4. n \in Objects /\ n.finished = FALSE /\ n.state = o.state
  BY <1>3 DEF Objects
<1>5. PICK m : m = [n EXCEPT !.count = d]
  OBVIOUS
<1>6. d = c
  BY <1>0 DEF d
<1>7. m \in Objects /\ m.finished = FALSE /\ m.state = o.state /\ m.count = c
  BY <1>4, <1>5, <1>6 DEF Objects
<1>8. ASSUME Len(input) < PartLen(o)
      PROVE  /\ init(o, input) \in Objects /\ init(o, input).finished = FALSE
             /\ init(o, input).count = c /\ init(o, input).state = state
             /\ init(o, input).buffer = buffer
  <2>1. init(o, input) = [m EXCEPT !.buffer = buffer] /\ state = o.state
    BY <1>1, <1>2, <1>3, <1>5, <1>8, Zenon
  <2> QED
    BY <1>7, <2>1 DEF Objects
<1>9. ASSUME ~ (Len(input) < PartLen(o))
      PROVE  /\ init(o, input) \in Objects /\ init(o, input).finished = FALSE
             /\ init(o, input).count = c /\ init(o, input).state = state
             /\ init(o, input).buffer = buffer
  <2>1. init(o, input) = [[m EXCEPT !.state = state] EXCEPT !.buffer = buffer]
    BY <1>1, <1>2, <1>3, <1>5, <1>9, Zenon
  <2>2. PICK l : l = [m EXCEPT !.state = state]
    OBVIOUS
  <2>3. l \in Objects /\ l.finished = FALSE /\ l.state = state /\ l.count = c
    BY <1>7, <2>2 DEF Objects
  <2> QED
    BY <2>1, <2>2, <2>3 DEF Objects
<1>10. /\ init(o, input) \in Objects /\ init(o, input).finished = FALSE
       /\ init(o, input).count = c /\ init(o, input).state = state
       /\ init(o, input).buffer = buffer
  BY <1>8, <1>9
<1> QED
  BY <1>0, <1>10

LEMMA OverwriteBytes ==
    ASSUME NEW b \in [1..BlockSize -> Int], NEW t \in Seq(Int), NEW p \in Nat
    PROVE  /\ Overwrite(b, p, t) \in [1..BlockSize -> Int]
           /\ \A i \in 1..BlockSize : i <= p => Overwrite(b, p, t)[i] = b[i]
           /\ \A i \in 1..BlockSize : p < i /\ i <= p + Len(t) => Overwrite(b, p, t)[i] = t[i - p]
<1>1. Len(t) \in Nat /\ BlockSize \in Nat
  BY Sizes
<1>2. ASSUME NEW i \in p + 1..p + Len(t) PROVE t[i - p] \in Int
  <2>1. i - p \in 1..Len(t)
    BY <1>1
  <2> QED
    BY <2>1, ElementOfSeq
<1>3. Overwrite(b, p, t) =
        [i \in 1..BlockSize |-> IF i \in p + 1..p + Len(t) THEN t[i - p] ELSE b[i]]
  BY DEF Overwrite
<1>4. \A i \in 1..BlockSize :
        /\ i <= p => i \notin p + 1..p + Len(t)
        /\ p < i /\ i <= p + Len(t) => i \in p + 1..p + Len(t)
  BY <1>1
<1> QED
  BY <1>2, <1>3, <1>4

(* The object o has taken in the first n bytes of s: it counts them, it    *)
(* has mixed those of whole blocks into its state, and the others are in   *)
(* its buffer.                                                             *)
Has(o, n, s, g) ==
    /\ o \in Objects /\ o.finished = FALSE
    /\ n \in Nat /\ n <= Len(s)
    /\ o.count = <<(8 * n) % Power[WordBits], (n \div Power[WordBits - 3]) % Power[WordBits]>>
    /\ o.state = g[n - (n % BlockSize)]
    /\ \A i \in 1..n % BlockSize : o.buffer[i] = s[(n - (n % BlockSize)) + i]

LEMMA BufferIndexIs ==
    ASSUME NEW s, NEW g, NEW o, NEW n, Has(o, n, s, g)
    PROVE  BufferIndex(o) = n % BlockSize
<1>1. PICK M \in Nat \ {0}, c \in Nat : Power[WordBits] = 8 * M /\ M = BlockSize * c
  BY Sizes
<1>2. n \in Nat /\ BlockSize \in Nat \ {0} /\ o.count[1] = (8 * n) % (8 * M)
  BY <1>1, Sizes DEF Has
<1>3. (((8 * n) % (8 * M)) \div 8) % BlockSize = n % BlockSize
  BY <1>1, <1>2, BitsInBlock, Zenon
<1> QED
  BY <1>2, <1>3 DEF BufferIndex

LEMMA CountIs ==
    ASSUME NEW s, NEW g, NEW o, NEW n, Has(o, n, s, g), NEW len \in Nat
    PROVE  /\ Low(o, len) = (8 * (n + len)) % Power[WordBits]
           /\ High(o, len) = ((n + len) \div Power[WordBits - 3]) % Power[WordBits]
           /\ Low(o, len) \in Nat /\ High(o, len) \in Nat
<1>1. PICK M \in Nat \ {0} : M = Power[WordBits - 3] /\ Power[WordBits] = 8 * M
  BY Sizes
<1>2. n \in Nat /\ o.count = <<(8 * n) % (8 * M), (n \div M) % (8 * M)>>
  BY <1>1 DEF Has
<1>3. o.count[1] = (8 * n) % (8 * M) /\ o.count[2] = (n \div M) % (8 * M)
  BY <1>2
<1>4. Low(o, len) = LowSum(M, n, len)
  BY <1>1, <1>3, Zenon DEF Low, LowSum
<1>5. CarryOf(o, len) = Below(LowSum(M, n, len), (8 * len) % (8 * M))
  BY <1>1, <1>4, Zenon DEF CarryOf, Below
<1>6. High(o, len) = (((n \div M) % (8 * M)) + Below(LowSum(M, n, len), (8 * len) % (8 * M))
                        + (len \div M)) % (8 * M)
  BY <1>1, <1>3, <1>5, Zenon DEF High
<1>7. /\ LowSum(M, n, len) = (8 * (n + len)) % (8 * M)
      /\ (((n \div M) % (8 * M)) + Below(LowSum(M, n, len), (8 * len) % (8 * M)) + (len \div M))
             % (8 * M)
           = ((n + len) \div M) % (8 * M)
  BY <1>2, Carry, Zenon
<1>8. Low(o, len) = (8 * (n + len)) % (8 * M) /\ High(o, len) = ((n + len) \div M) % (8 * M)
  BY <1>4, <1>6, <1>7, Zenon
<1>9. (8 * (n + len)) % (8 * M) \in Nat /\ ((n + len) \div M) % (8 * M) \in Nat
  <2>1. PICK N \in Nat \ {0}, a \in Int, b \in Int : N = 8 * M /\ a = 8 * (n + len) /\ b = (n + len) \div M
    <3>1. n + len \in Int
      BY <1>2
    <3>2. (n + len) \div M \in Int
      BY <3>1, DivMod, Zenon
    <3> QED
      BY <3>1, <3>2
  <2>2. a % N \in Nat /\ b % N \in Nat
    OBVIOUS
  <2> QED
    BY <2>1, <2>2
<1> QED
  BY <1>1, <1>8, <1>9, Zenon

LEMMA Takes ==
    ASSUME NEW s \in Seq(Int), NEW g, Path(g, InitialState, s), NEW o, NEW n, Has(o, n, s, g),
           NEW input \in Seq(Int), n + Len(input) <= Len(s),
           \A i \in 1..Len(input) : input[i] = s[n + i]
    PROVE  Has(init(o, input), n + Len(input), s, g)
<1>0. /\ o \in Objects /\ n \in Nat /\ o.state = g[n - (n % BlockSize)]
      /\ \A i \in 1..n % BlockSize : o.buffer[i] = s[(n - (n % BlockSize)) + i]
      /\ o.buffer \in [1..BlockSize -> Int]
  BY DEF Has, Objects
<1>1. PICK B \in Nat \ {0}, len \in Nat, L \in Nat : B = BlockSize /\ len = Len(input) /\ L = Len(s)
  <2>1. BlockSize \in Nat \ {0} /\ Len(input) \in Nat /\ Len(s) \in Nat
    BY Sizes
  <2> QED
    BY <2>1
<1>2. PICK q \in Nat, j \in 0..B - 1, w \in Nat : n = w + j /\ w = B * q /\ j = n % B
  <2>1. n \div B \in Int /\ n % B \in 0..B - 1 /\ n = B * (n \div B) + (n % B)
    <3>1. n \in Int
      BY <1>0
    <3> QED
      BY <3>1, DivMod, Zenon
  <2>2. n \div B \in Nat
    BY <1>0
  <2>3. B * (n \div B) \in Nat
    BY <2>2
  <2> QED
    BY <2>1, <2>2, <2>3
<1>3. /\ BufferIndex(o) = j /\ PartLen(o) = B - j /\ o.state = g[w]
      /\ \A i \in 1..j : o.buffer[i] = s[w + i]
  <2>1. n - (n % BlockSize) = w
    BY <1>1, <1>2
  <2>2. BufferIndex(o) = j
    BY <1>1, <1>2, BufferIndexIs, Zenon
  <2>3. PartLen(o) = B - j
    BY <1>1, <2>2 DEF PartLen
  <2>4. n % BlockSize = j
    BY <1>1, <1>2, Zenon
  <2> QED
    BY <1>0, <2>1, <2>2, <2>3, <2>4, Zenon
<1>4. PICK e \in Nat : e = n + len /\ e <= L
  BY <1>0, <1>1
<1>5. \A i \in 1..len : input[i] = s[n + i]
  BY <1>1
<1>7. /\ Low(o, len) = (8 * (n + len)) % Power[WordBits]
      /\ High(o, len) = ((n + len) \div Power[WordBits - 3]) % Power[WordBits]
      /\ Low(o, len) \in Nat /\ High(o, len) \in Nat
  BY CountIs
<1>a. j \in Nat /\ j < B /\ n \in Nat /\ n = w + j /\ e = w + j + len /\ e <= L
  <2>1. n = w + j /\ n \in Nat
    BY <1>0, <1>2, Zenon
  <2>2. e = n + len /\ e <= L
    BY <1>4
  <2> QED
    BY <2>1, <2>2
<1>b. PICK b \in [1..BlockSize -> Int] : b = o.buffer
  BY <1>0
(* What is to be shown of the new state and buffer.                        *)
<1>6. ASSUME NewState(o, input) \in Int, NewBuffer(o, input) \in [1..B -> Int],
             NEW f \in Nat, NEW r \in 0..B - 1, e = f + r, e % B = r, NewState(o, input) = g[f],
             \A i \in 1..r : NewBuffer(o, input)[i] = s[f + i]
      PROVE  Has(init(o, input), n + Len(input), s, g)
  <2>1. PICK c \in Nat \X Nat : c = <<Low(o, len), High(o, len)>>
    <3>1. Low(o, len) \in Nat /\ High(o, len) \in Nat
      BY CountIs, Zenon
    <3> QED
      BY <3>1
  <2>2. /\ init(o, input) \in Objects /\ init(o, input).finished = FALSE
        /\ init(o, input).count = c
        /\ init(o, input).state = NewState(o, input) /\ init(o, input).buffer = NewBuffer(o, input)
    <3>1. /\ c = <<Low(o, Len(input)), High(o, Len(input))>>
          /\ <<Low(o, Len(input)), High(o, Len(input))>> \in Nat \X Nat
      BY <1>1, <2>1, Zenon
    <3>2. NewBuffer(o, input) \in [1..BlockSize -> Int]
      BY <1>1, <1>6, Zenon
    <3>3. /\ init(o, input) \in Objects /\ init(o, input).finished = FALSE
          /\ init(o, input).count = <<Low(o, Len(input)), High(o, Len(input))>>
          /\ init(o, input).state = NewState(o, input)
          /\ init(o, input).buffer = NewBuffer(o, input)
      BY <1>0, <1>6, <3>1, <3>2, InitFields, Zenon
    <3> QED
      BY <3>1, <3>3, Zenon
  <2>3. c = <<(8 * e) % Power[WordBits], (e \div Power[WordBits - 3]) % Power[WordBits]>>
    BY <1>4, <1>7, <2>1, Zenon
  <2>4. e - (e % BlockSize) = f /\ e % BlockSize = r
    <3>1. e % BlockSize = r
      BY <1>1, <1>6, Zenon
    <3>2. e - r = f
      BY <1>6
    <3> QED
      BY <3>1, <3>2, Zenon
  <2> QED
    BY <1>1, <1>4, <1>6, <2>2, <2>3, <2>4, Zenon DEF Has
(* All of the input goes into the buffer.                                  *)
<1>8. CASE len < B - j
  <2>1. /\ NewState(o, input) = g[w] /\ NewBuffer(o, input) = Overwrite(b, j, input)
    <3>1. Len(input) < PartLen(o)
      BY <1>1, <1>3, <1>8, Zenon
    <3> QED
      BY <1>3, <1>b, <3>1, Zenon DEF NewState, NewBuffer
  <2>2. PICK r \in 0..B - 1 : r = j + len
    BY <1>8
  <2>3. e = w + r /\ e % B = r
    <3>1. e = B * q + r /\ e \in Int /\ q \in Int
      <4>1. e = w + r /\ r \in Int
        BY <1>a, <2>2
      <4> QED
        BY <1>2, <4>1
    <3>2. e % B = r
      BY <3>1, DivUnique, Zenon
    <3>3. e = w + r
      BY <1>2, <3>1, Zenon
    <3> QED
      BY <3>2, <3>3
  <2>4. g[w] \in Int
    <3>1. w \in 0..Len(s)
      BY <1>1, <1>4, <2>3
    <3> QED
      BY <3>1 DEF Path
  <2>5. PICK buffer \in [1..B -> Int] : buffer = Overwrite(b, j, input)
    <3>2. Overwrite(b, j, input) \in [1..BlockSize -> Int]
      BY <1>a, OverwriteBytes
    <3> QED
      BY <1>1, <3>2
  <2>6. ASSUME NEW i \in 1..r PROVE buffer[i] = s[w + i]
    <3>0. i \in 1..BlockSize
      BY <1>1, <1>a
    <3>1. /\ i <= j => Overwrite(b, j, input)[i] = b[i]
          /\ j < i /\ i <= j + Len(input) => Overwrite(b, j, input)[i] = input[i - j]
      <4>1. /\ \A h \in 1..BlockSize : h <= j => Overwrite(b, j, input)[h] = b[h]
            /\ \A h \in 1..BlockSize :
                 j < h /\ h <= j + Len(input) => Overwrite(b, j, input)[h] = input[h - j]
        BY <1>a, OverwriteBytes
      <4> QED
        BY <3>0, <4>1, Zenon
    <3>2. CASE i <= j
      <4>1. i \in 1..j
        BY <1>a, <3>2
      <4> QED
        BY <1>3, <1>b, <2>5, <3>1, <3>2, <4>1, Zenon
    <3>3. CASE j < i
      <4>1. i - j \in 1..len /\ n + (i - j) = w + i /\ i <= j + len
        BY <1>a, <2>2, <3>3
      <4>2. input[i - j] = s[w + i]
        BY <1>5, <4>1
      <4> QED
        BY <1>1, <2>5, <3>1, <3>3, <4>1, <4>2, Zenon
    <3> QED
      BY <1>a, <3>2, <3>3
  <2>7. NewState(o, input) \in Int /\ NewBuffer(o, input) \in [1..B -> Int]
    BY <2>1, <2>4, <2>5, Zenon
  <2>8. \A i \in 1..r : NewBuffer(o, input)[i] = s[w + i]
    BY <2>1, <2>5, <2>6, Zenon
  <2> QED
    BY <1>6, <2>1, <2>3, <2>7, <2>8, Zenon
(* The buffer is filled, and whole blocks follow it.                       *)
<1>9. CASE len >= B - j
  <2>1. PICK p \in Nat, k \in Nat, r \in 0..B - 1, m \in Nat :
          p = B - j /\ k = (len - p) \div B /\ len = p + m + r /\ m = B * k
    <3>1. PICK p \in Nat, d \in Nat : p = B - j /\ d = len - p
      BY <1>a, <1>9
    <3>2. d \div B \in Int /\ d % B \in 0..B - 1 /\ d = B * (d \div B) + (d % B)
      <4>1. d \in Int
        OBVIOUS
      <4> QED
        BY <4>1, DivMod, Zenon
    <3>3. d \div B \in Nat
      OBVIOUS
    <3>4. B * (d \div B) \in Nat
      BY <3>3
    <3>5. len = p + B * (d \div B) + (d % B)
      <4>1. len = p + d
        BY <3>1
      <4>2. PICK x \in Nat, y \in Nat : x = B * (d \div B) /\ y = d % B /\ d = x + y
        BY <3>2, <3>4
      <4>3. len = p + x + y
        BY <4>1, <4>2
      <4> QED
        BY <4>2, <4>3
    <3> QED
      BY <3>1, <3>2, <3>3, <3>4, <3>5
  <2>a. p = B - j /\ len = p + m + r /\ r \in Nat /\ r < B
    BY <2>1
  <2>2. PICK f \in Nat : f = w + B + m /\ e = f + r
    BY <1>a, <2>a
  <2>3. e % B = r
    <3>1. f = B * (q + 1 + k) /\ q + 1 + k \in Int
      <4>1. B * (q + 1 + k) = B * q + B + B * k
        OBVIOUS
      <4>2. w = B * q /\ m = B * k
        BY <1>2, <2>1, Zenon
      <4>3. B * q + B + B * k = w + B + m
        BY <4>2
      <4>4. q + 1 + k \in Int
        OBVIOUS
      <4> QED
        BY <2>2, <4>1, <4>3, <4>4, Zenon
    <3>2. e = B * (q + 1 + k) + r /\ e \in Int
      BY <2>2, <3>1
    <3> QED
      BY <3>1, <3>2, DivUnique, Zenon
  <2>4. PICK full \in [1..B -> Int] : full = Full(o, input) /\ \A i \in 1..B : full[i] = s[w + i]
    <3>0. 0 \in Nat /\ 0 + p <= Len(input) /\ 0 + 1 = 1 /\ 0 + p = p
      BY <1>1, <2>a
    <3>1. PICK front \in Seq(Int) : /\ front = SubSeq(input, 1, p) /\ Len(front) = p
                                    /\ \A i \in 1..p : front[i] = input[0 + i]
      <4>1. /\ SubSeq(input, 0 + 1, 0 + p) \in Seq(Int) /\ Len(SubSeq(input, 0 + 1, 0 + p)) = p
            /\ \A i \in 1..p : SubSeq(input, 0 + 1, 0 + p)[i] = input[0 + i]
        BY <3>0, Slice
      <4> QED
        BY <3>0, <4>1, Zenon
    <3>2. Full(o, input) = Overwrite(b, j, front)
      BY <1>3, <1>b, <2>1, <3>1, Zenon DEF Full
    <3>3. /\ Overwrite(b, j, front) \in [1..BlockSize -> Int]
          /\ \A i \in 1..BlockSize : i <= j => Overwrite(b, j, front)[i] = b[i]
          /\ \A i \in 1..BlockSize :
               j < i /\ i <= j + Len(front) => Overwrite(b, j, front)[i] = front[i - j]
      BY <1>a, OverwriteBytes
    <3>4. ASSUME NEW i \in 1..B PROVE Full(o, input)[i] = s[w + i]
      <4>0. i \in 1..BlockSize
        BY <1>1
      <4>1. CASE i <= j
        <5>1. i \in 1..j
          BY <1>a, <4>1
        <5> QED
          BY <1>3, <1>b, <3>2, <3>3, <4>0, <4>1, <5>1, Zenon
      <4>2. CASE j < i
        <5>1. PICK h \in 1..p : h = i - j /\ h \in 1..len /\ n + h = w + i /\ i <= j + p /\ 0 + h = h
          BY <1>a, <2>a, <4>2
        <5>2. input[h] = s[w + i]
          BY <1>5, <5>1, Zenon
        <5>3. front[h] = input[h]
          BY <3>1, <5>1, Zenon
        <5> QED
          BY <3>1, <3>2, <3>3, <4>0, <4>2, <5>1, <5>2, <5>3, Zenon
      <4> QED
        BY <1>a, <4>1, <4>2
    <3> QED
      BY <1>1, <3>2, <3>3, <3>4
  <2>5. NewState(o, input) = g[f]
    <3>1. PICK block \in Seq(Int) : block = full /\ Len(block) = BlockSize
      BY <1>1
    <3>2. ~ (Len(input) < PartLen(o)) /\ Blocks(o, input) = k
      BY <1>1, <1>2, <1>3, <1>9, <2>1 DEF Blocks
    <3>3. NewState(o, input) = TransformedAll(g[w], block, input, p, k)
      BY <1>3, <2>1, <2>4, <3>1, <3>2, Zenon DEF NewState
    <3>4. \A i \in 1..BlockSize : block[i] = s[w + i]
      BY <1>1, <2>4, <3>1, Zenon
    <3>5. /\ p + BlockSize * k <= Len(input) /\ w + BlockSize + BlockSize * k = f /\ f <= Len(s)
          /\ BlockSize * k = m
      <4>1. BlockSize * k = m /\ B = BlockSize /\ Len(input) = len /\ Len(s) = L
        BY <1>1, <2>1, Zenon
      <4>2. p + m <= len /\ w + B + m = f /\ f <= L
        BY <1>a, <2>a, <2>2
      <4> QED
        BY <4>1, <4>2, Zenon
    <3>6. ASSUME NEW i \in 1..BlockSize * k PROVE input[p + i] = s[w + BlockSize + i]
      <4>1. i \in 1..m
        BY <3>5
      <4>2. p + i \in 1..len /\ n + (p + i) = w + B + i
        BY <1>a, <2>a, <4>1
      <4> QED
        BY <1>1, <1>5, <4>2, Zenon
    <3>7. TransformedAll(g[w], block, input, p, k) = g[w + BlockSize + BlockSize * k]
      <4>1. /\ p + BlockSize * k <= Len(input)
            /\ w + BlockSize + BlockSize * k <= Len(s)
        BY <3>5, Zenon
      <4> QED
        <5>1. Follow(s, w, block, input, p, k)
          BY <3>1, <3>4, <3>6, <4>1, Zenon DEF Follow
        <5> QED
          BY <5>1, BlocksOfPath, SMTT(60)
    <3> QED
      BY <3>3, <3>5, <3>7, Zenon
  <2>6. g[f] \in Int
    <3>1. f \in 0..Len(s)
      BY <1>1, <1>4, <2>2
    <3> QED
      BY <3>1 DEF Path
  <2>7. PICK rest \in Seq(Int) :
          /\ rest = Rest(o, input) /\ Len(rest) = r
          /\ \A i \in 1..r : rest[i] = input[(p + m) + i]
    <3>1. Rest(o, input) = SubSeq(input, (p + m) + 1, (p + m) + r)
      <4>1. Blocks(o, input) = k /\ PartLen(o) = p /\ BlockSize * k = m
        BY <1>1, <1>3, <2>1 DEF Blocks
      <4>2. Len(input) = (p + m) + r
        BY <1>1, <2>1
      <4> QED
        BY <4>1, <4>2, Zenon DEF Rest
    <3>2. p + m \in Nat /\ r \in Nat /\ (p + m) + r <= Len(input)
      <4>1. Len(input) = len
        BY <1>1, Zenon
      <4> QED
        BY <2>a, <4>1
    <3>3. /\ SubSeq(input, (p + m) + 1, (p + m) + r) \in Seq(Int)
          /\ Len(SubSeq(input, (p + m) + 1, (p + m) + r)) = r
          /\ \A i \in 1..r : SubSeq(input, (p + m) + 1, (p + m) + r)[i] = input[(p + m) + i]
      <4>1. PICK a \in Nat, h \in Nat : a = p + m /\ h = r /\ a + h <= Len(input)
        BY <3>2
      <4>2. /\ SubSeq(input, a + 1, a + h) \in Seq(Int) /\ Len(SubSeq(input, a + 1, a + h)) = h
            /\ \A i \in 1..h : SubSeq(input, a + 1, a + h)[i] = input[a + i]
        BY <4>1, Slice
      <4> QED
        BY <4>1, <4>2, Zenon
    <3> QED
      BY <3>1, <3>3, Zenon
  <2>8. PICK buffer \in [1..B -> Int] : /\ buffer = NewBuffer(o, input)
                                        /\ \A i \in 1..r : buffer[i] = s[f + i]
    <3>1. NewBuffer(o, input) = Overwrite(full, 0, rest)
      <4>1. ~ (Len(input) < PartLen(o))
        BY <1>1, <1>2, <1>3, <1>9
      <4> QED
        BY <2>4, <2>7, <4>1, Zenon DEF NewBuffer
    <3>2. full \in [1..BlockSize -> Int] /\ 0 \in Nat
      BY <1>1
    <3>3. /\ Overwrite(full, 0, rest) \in [1..BlockSize -> Int]
          /\ \A i \in 1..BlockSize :
               0 < i /\ i <= 0 + Len(rest) => Overwrite(full, 0, rest)[i] = rest[i - 0]
      <4>1. PICK z \in Nat : z = 0
        OBVIOUS
      <4>2. /\ Overwrite(full, z, rest) \in [1..BlockSize -> Int]
            /\ \A i \in 1..BlockSize :
                 z < i /\ i <= z + Len(rest) => Overwrite(full, z, rest)[i] = rest[i - z]
        <5>1. PICK buf \in [1..BlockSize -> Int] : buf = full
          BY <3>2
        <5>2. /\ Overwrite(buf, z, rest) \in [1..BlockSize -> Int]
              /\ \A i \in 1..BlockSize :
                   z < i /\ i <= z + Len(rest) => Overwrite(buf, z, rest)[i] = rest[i - z]
          BY OverwriteBytes
        <5> QED
          BY <5>1, <5>2, Zenon
      <4> QED
        BY <4>1, <4>2, Zenon
    <3>4. ASSUME NEW i \in 1..r PROVE Overwrite(full, 0, rest)[i] = s[f + i]
      <4>1. i \in 1..BlockSize /\ 0 < i /\ i <= 0 + Len(rest) /\ i - 0 = i
        BY <1>1, <2>7
      <4>2. rest[i] = input[(p + m) + i]
        BY <2>7
      <4>3. (p + m) + i \in 1..len /\ n + ((p + m) + i) = f + i
        BY <1>a, <2>a, <2>2
      <4>4. input[(p + m) + i] = s[f + i]
        BY <1>5, <4>3, Zenon
      <4> QED
        BY <3>3, <4>1, <4>2, <4>4, Zenon
    <3> QED
      BY <1>1, <3>1, <3>3, <3>4
  <2>9. NewState(o, input) \in Int /\ NewBuffer(o, input) \in [1..B -> Int]
    BY <2>5, <2>6, <2>8, Zenon
  <2>10. \A i \in 1..r : NewBuffer(o, input)[i] = s[f + i]
    BY <2>8, Zenon
  <2> QED
    BY <1>6, <2>2, <2>3, <2>5, <2>9, <2>10, Zenon
<1> QED
  BY <1>a, <1>8, <1>9

-----------------------------------------------------------------------------
(* The padding.                                                            *)

(* The zeros of Padded: there is one number of them that fills the last    *)
(* block, and getDigest finds it from the place in the buffer.             *)
FillZeros(n) == CHOOSE z \in 0..BlockSize - 1 : (n + 1 + z + LengthSize) % BlockSize = 0

LEMMA ZerosFill ==
    ASSUME NEW n \in Nat
    PROVE  /\ FillZeros(n) \in 0..BlockSize - 1
           /\ (n + 1 + FillZeros(n) + LengthSize) % BlockSize = 0
<1>1. PICK B \in Nat \ {0}, L \in Nat : B = BlockSize /\ L = LengthSize
  BY Sizes
<1>2. PICK x \in Int : x = n + 1 + L
  OBVIOUS
<1>3. PICK q \in Int, r \in 0..B - 1 : x = B * q + r
  BY DivMod, Zenon
<1>4. PICK y \in Int : y = B * q /\ x = y + r
  BY <1>3
<1>5. \E z \in 0..B - 1 : (n + 1 + z + L) % B = 0
  <2>1. PICK k \in Int, z \in 0..B - 1 : (k = q /\ r = 0 /\ z = 0) \/ (k = q + 1 /\ z = B - r)
    <3>1. CASE r = 0
      <4>1. q \in Int /\ 0 \in 0..B - 1 /\ q = q /\ r = 0 /\ 0 = 0
        BY <3>1
      <4> QED
        BY <4>1, Zenon
    <3>2. CASE r # 0
      <4>1. q + 1 \in Int /\ B - r \in 0..B - 1 /\ q + 1 = q + 1 /\ B - r = B - r
        BY <3>2
      <4> QED
        BY <4>1, Zenon
    <3> QED
      BY <3>1, <3>2
  <2>2. B * (q + 1) = B * q + B
    OBVIOUS
  <2>3. B * k = x + z
    BY <1>4, <2>1, <2>2
  <2>4. n + 1 + z + L = B * k + 0 /\ n + 1 + z + L \in Int /\ 0 \in 0..B - 1
    BY <1>2, <2>3
  <2>5. (n + 1 + z + L) % B = 0
    BY <2>4, DivUnique, Zenon
  <2> QED
    BY <2>5
<1>6. \E z \in 0..BlockSize - 1 : (n + 1 + z + LengthSize) % BlockSize = 0
  BY <1>1, <1>5, Zenon
<1> QED
  BY <1>6, Zenon DEF FillZeros

LEMMA PadLenIs ==
    ASSUME NEW n \in Nat, NEW o, BufferIndex(o) = n % BlockSize
    PROVE  padLen(o) = 1 + FillZeros(n)
<1>1. PICK B \in Nat \ {0}, L \in Nat : B = BlockSize /\ L = LengthSize /\ L < B
  BY Sizes
<1>2. PICK z \in 0..B - 1 : z = FillZeros(n) /\ (n + 1 + z + L) % B = 0
  BY <1>1, ZerosFill
<1>3. PICK q \in Int, j \in 0..B - 1 : n = B * q + j /\ j = n % B
  <2>1. n \in Int
    OBVIOUS
  <2> QED
    BY <2>1, DivMod, Zenon
<1>4. PICK k \in Int : n + 1 + z + L = B * k
  <2>1. PICK x \in Int : x = n + 1 + z + L
    OBVIOUS
  <2>2. x % B = 0 /\ x \div B \in Int /\ x = B * (x \div B) + (x % B)
    BY <1>2, <2>1, DivMod
  <2> QED
    BY <2>1, <2>2
<1>5. PICK p \in Int : p = k - q /\ j + 1 + z + L = B * p
  <2>1. B * (k - q) = B * k - B * q /\ k - q \in Int
    OBVIOUS
  <2>2. PICK u \in Int, v \in Int : u = B * k /\ v = B * q
    OBVIOUS
  <2>3. n = v + j /\ n + 1 + z + L = u
    BY <1>3, <1>4, <2>2
  <2>4. j + 1 + z + L = u - v
    BY <2>3
  <2> QED
    BY <2>1, <2>2, <2>4
<1>6. p = 1 \/ p = 2
  <2>1. CASE p <= 0
    <3>1. B * p <= 0
      BY <2>1
    <3> QED
      BY <1>5, <3>1
  <2>2. CASE p >= 3
    <3>1. B * p >= B * 3
      BY <2>2
    <3> QED
      BY <1>1, <1>5, <3>1
  <2> QED
    BY <2>1, <2>2
<1>7. j + 1 + z + L = B \/ j + 1 + z + L = B + B
  BY <1>5, <1>6
<1>8. BufferIndex(o) = j
  BY <1>1, <1>3, Zenon
<1>9. padLen(o) = IF j < B - L THEN B - L - j ELSE 2 * B - L - j
  BY <1>1, <1>8 DEF padLen
<1> QED
  BY <1>1, <1>2, <1>7, <1>9

Cat(s, t) == s \o t

LEMMA TwoParts ==
    ASSUME NEW s \in Seq(Int), NEW t \in Seq(Int)
    PROVE  /\ Cat(s, t) \in Seq(Int) /\ Len(Cat(s, t)) = Len(s) + Len(t)
           /\ \A i \in 1..Len(s) : Cat(s, t)[i] = s[i]
           /\ \A i \in 1..Len(t) : Cat(s, t)[Len(s) + i] = t[i]
<1>0. PICK a \in Nat, b \in Nat : a = Len(s) /\ b = Len(t)
  OBVIOUS
<1>1. /\ s \o t \in Seq(Int) /\ Len(s \o t) = Len(s) + Len(t)
      /\ \A i \in 1..Len(s) + Len(t) : (s \o t)[i] = IF i <= Len(s) THEN s[i] ELSE t[i - Len(s)]
  BY ConcatProperties
<1>2. PICK u \in Seq(Int) : u = s \o t
  BY <1>1
<1>3. Len(u) = a + b /\ \A i \in 1..a + b : u[i] = IF i <= a THEN s[i] ELSE t[i - a]
  <2>1. \A i \in 1..Len(s) + Len(t) : u[i] = IF i <= Len(s) THEN s[i] ELSE t[i - Len(s)]
    BY <1>1, <1>2, Zenon
  <2>2. Len(u) = Len(s) + Len(t)
    BY <1>1, <1>2, Zenon
  <2> QED
    BY <1>0, <2>1, <2>2
<1>4. ASSUME NEW i \in 1..a PROVE u[i] = s[i]
  BY <1>3
<1>5. ASSUME NEW i \in 1..b PROVE u[a + i] = t[i]
  <2>1. PICK k \in 1..a + b : k = a + i /\ ~ (k <= a) /\ k - a = i
    <3>1. a + i \in 1..a + b /\ ~ (a + i <= a) /\ (a + i) - a = i
      OBVIOUS
    <3> QED
      BY <3>1, Zenon
  <2>2. u[k] = t[k - a]
    BY <1>3, <2>1, Zenon
  <2> QED
    BY <2>1, <2>2, Zenon
<1> QED
  BY <1>0, <1>2, <1>3, <1>4, <1>5, Zenon DEF Cat

(* What Padded appends to the message.                                     *)
PaddedWith(text, n, z, L, s) ==
    /\ Len(s) = (n + (1 + z)) + L
    /\ \A i \in 1..n : s[i] = text[i]
    /\ \A i \in 1..1 + z : s[n + i] = PADDING[i]
    /\ \A i \in 1..L : s[(n + (1 + z)) + i] = ((8 * n) \div Power[8 * (i - 1)]) % 256

LEMMA PaddedIs ==
    ASSUME NEW text \in Seq(Int)
    PROVE  /\ Padded(text) \in Seq(Int)
           /\ PaddedWith(text, Len(text), FillZeros(Len(text)), LengthSize, Padded(text))
<1>0. PICK n \in Nat : n = Len(text)
  OBVIOUS
<1>1. PICK B \in Nat \ {0}, L \in Nat : B = BlockSize /\ L = LengthSize /\ L < B
  BY Sizes
<1>2. PICK z \in 0..B - 1 : z = FillZeros(n)
  BY <1>1, ZerosFill
<1>3. PICK one \in Seq(Int) : one = <<128>> /\ Len(one) = 1 /\ one[1] = 128
  <2>1. <<128>> \in Seq(Int) /\ Len(<<128>>) = 1 /\ <<128>>[1] = 128
    OBVIOUS
  <2> QED
    BY <2>1, Zenon
<1>a. PICK fill \in Seq(Int) :
        fill = [i \in 1..z |-> 0] /\ Len(fill) = z /\ \A i \in 1..z : fill[i] = 0
  <2>1. /\ [i \in 1..z |-> 0] \in Seq(Int) /\ Len([i \in 1..z |-> 0]) = z
        /\ \A k \in 1..z : [i \in 1..z |-> 0][k] = 0
    OBVIOUS
  <2> QED
    BY <2>1, Zenon
<1>b. PICK size \in Seq(Int) :
        /\ size = [i \in 1..L |-> ((8 * n) \div Power[8 * (i - 1)]) % 256] /\ Len(size) = L
        /\ \A i \in 1..L : size[i] = ((8 * n) \div Power[8 * (i - 1)]) % 256
  <2>1. ASSUME NEW i \in 1..L PROVE ((8 * n) \div Power[8 * (i - 1)]) % 256 \in Int
    <3>1. 8 * (i - 1) \in Nat
      OBVIOUS
    <3>2. PICK p \in Nat \ {0} : p = Power[8 * (i - 1)]
      BY <3>1, PowerPositive, Zenon
    <3>3. PICK x \in Int : x = 8 * n
      OBVIOUS
    <3>4. (x \div p) % 256 \in Int
      OBVIOUS
    <3> QED
      BY <3>2, <3>3, <3>4, Zenon
  <2> DEFINE S == [i \in 1..L |-> ((8 * n) \div Power[8 * (i - 1)]) % 256]
  <2>2. S \in [1..L -> Int] /\ \A i \in 1..L : S[i] = ((8 * n) \div Power[8 * (i - 1)]) % 256
    BY <2>1
  <2>3. S = [i \in 1..L |-> ((8 * n) \div Power[8 * (i - 1)]) % 256]
    OBVIOUS
  <2> HIDE DEF S
  <2>4. S \in Seq(Int) /\ Len(S) = L
    BY <2>2
  <2> QED
    BY <2>2, <2>3, <2>4, Zenon
<1>4. Padded(text) = Cat(Cat(Cat(text, one), fill), size)
  <2>1. Padded(text) = ((text \o <<128>>) \o [i \in 1..FillZeros(n) |-> 0])
                              \o [i \in 1..LengthSize |-> ((8 * n) \div Power[8 * (i - 1)]) % 256]
    BY <1>0, Zenon DEF Padded, FillZeros
  <2> QED
    BY <1>1, <1>2, <1>3, <1>a, <1>b, <2>1, Zenon DEF Cat
<1>c. PICK m \in Nat, e \in Nat : m = n + 1 /\ e = n + (1 + z) /\ e = m + z
  <2>1. n + 1 \in Nat /\ n + (1 + z) \in Nat /\ n + (1 + z) = (n + 1) + z
    OBVIOUS
  <2> QED
    BY <2>1, Zenon
<1>5. PICK first \in Seq(Int) :
        /\ first = Cat(text, one) /\ Len(first) = m
        /\ \A i \in 1..n : first[i] = text[i]
        /\ first[m] = 128
  <2>1. /\ Cat(text, one) \in Seq(Int) /\ Len(Cat(text, one)) = Len(text) + Len(one)
        /\ \A i \in 1..Len(text) : Cat(text, one)[i] = text[i]
        /\ \A i \in 1..Len(one) : Cat(text, one)[Len(text) + i] = one[i]
    BY TwoParts
  <2>2. Len(one) = 1 /\ Len(text) = n /\ 1 \in 1..1 /\ one[1] = 128
    BY <1>0, <1>3
  <2>3. /\ Len(Cat(text, one)) = m /\ Cat(text, one)[m] = 128
        /\ \A i \in 1..n : Cat(text, one)[i] = text[i]
    <3>1. Len(Cat(text, one)) = n + 1 /\ Cat(text, one)[n + 1] = one[1]
      BY <2>1, <2>2, Zenon
    <3>2. \A i \in 1..n : Cat(text, one)[i] = text[i]
      BY <2>1, <2>2, Zenon
    <3>3. Cat(text, one)[n + 1] = 128
      BY <2>2, <3>1, Zenon
    <3> QED
      BY <1>c, <3>1, <3>2, <3>3, Zenon
  <2> QED
    BY <2>1, <2>3, Zenon
<1>d. Len(first) = m /\ Len(fill) = z /\ \A i \in 1..z : fill[i] = 0
  BY <1>5, <1>a
<1>6. PICK second \in Seq(Int) :
        /\ second = Cat(first, fill) /\ Len(second) = e
        /\ \A i \in 1..m : second[i] = first[i]
        /\ \A i \in 1..z : second[m + i] = 0
  <2>1. /\ Cat(first, fill) \in Seq(Int) /\ Len(Cat(first, fill)) = Len(first) + Len(fill)
        /\ \A i \in 1..Len(first) : Cat(first, fill)[i] = first[i]
        /\ \A i \in 1..Len(fill) : Cat(first, fill)[Len(first) + i] = fill[i]
    BY TwoParts
  <2>2. /\ Len(Cat(first, fill)) = e
        /\ \A i \in 1..m : Cat(first, fill)[i] = first[i]
        /\ \A i \in 1..z : Cat(first, fill)[m + i] = 0
    BY <1>c, <1>d, <2>1, Zenon
  <2> QED
    BY <2>1, <2>2, Zenon
<1>7. PICK third \in Seq(Int) :
        /\ third = Cat(second, size) /\ Len(third) = e + L
        /\ \A i \in 1..e : third[i] = second[i]
        /\ \A i \in 1..L : third[e + i] = size[i]
  <2>1. /\ Cat(second, size) \in Seq(Int) /\ Len(Cat(second, size)) = e + L
        /\ \A i \in 1..e : Cat(second, size)[i] = second[i]
        /\ \A i \in 1..L : Cat(second, size)[e + i] = size[i]
    <3>1. /\ Cat(second, size) \in Seq(Int) /\ Len(Cat(second, size)) = Len(second) + Len(size)
          /\ \A i \in 1..Len(second) : Cat(second, size)[i] = second[i]
          /\ \A i \in 1..Len(size) : Cat(second, size)[Len(second) + i] = size[i]
      BY TwoParts
    <3> QED
      BY <1>6, <1>b, <3>1, Zenon
  <2> QED
    BY <2>1, Zenon
<1>8. Padded(text) = third
  BY <1>4, <1>5, <1>6, <1>7, Zenon
<1>9. ASSUME NEW i \in 1..n PROVE third[i] = text[i]
  <2>1. i \in 1..e /\ i \in 1..m
    BY <1>c
  <2>2. third[i] = second[i]
    BY <1>7, <2>1
  <2>3. second[i] = first[i]
    BY <1>6, <2>1
  <2>4. first[i] = text[i]
    BY <1>5
  <2> QED
    BY <2>2, <2>3, <2>4
<1>10. ASSUME NEW i \in 1..1 + z PROVE third[n + i] = PADDING[i]
  <2>1. n + i \in 1..e /\ m \in 1..m /\ m \in 1..e
    BY <1>c
  <2>2. PADDING[i] = IF i = 1 THEN 128 ELSE 0
    <3>1. i \in 1..BlockSize
      BY <1>1
    <3> QED
      BY <3>1 DEF PADDING
  <2>3. third[n + i] = second[n + i]
    BY <1>7, <2>1, Zenon
  <2>4. CASE i = 1
    <3>1. n + i = m
      BY <1>c, <2>4
    <3>2. second[m] = first[m] /\ first[m] = 128
      BY <1>5, <1>6, <2>1
    <3> QED
      BY <2>2, <2>3, <2>4, <3>1, <3>2, Zenon
  <2>5. CASE i # 1
    <3>1. PICK k \in 1..z : n + i = m + k
      <4>1. i - 1 \in 1..z /\ n + i = m + (i - 1)
        BY <1>c, <2>5
      <4> QED
        BY <4>1, Zenon
    <3>2. second[m + k] = 0
      BY <1>6, Zenon
    <3> QED
      BY <2>2, <2>3, <2>5, <3>1, <3>2, Zenon
  <2> QED
    BY <2>4, <2>5
<1>11. ASSUME NEW i \in 1..L PROVE third[e + i] = ((8 * n) \div Power[8 * (i - 1)]) % 256
  BY <1>7, <1>b, Zenon
<1>12. /\ third \in Seq(Int) /\ Len(third) = (n + (1 + z)) + L
       /\ \A i \in 1..L : third[(n + (1 + z)) + i] = ((8 * n) \div Power[8 * (i - 1)]) % 256
  BY <1>c, <1>7, <1>11, Zenon
<1>13. PaddedWith(text, n, z, L, third)
  BY <1>9, <1>10, <1>12, Zenon DEF PaddedWith
<1> QED
  BY <1>0, <1>1, <1>2, <1>8, <1>12, <1>13, Zenon

(* A byte of a number is one of what a word of it keeps.                   *)
LEMMA ByteKept ==
    ASSUME NEW x \in Int, NEW a \in Nat, NEW w \in Nat, a + 8 <= w
    PROVE  ((x % Power[w]) \div Power[a]) % 256 = (x \div Power[a]) % 256
<1>1. PICK c \in Nat : c = w - (a + 8) /\ w = (a + 8) + c
  <2>1. w - (a + 8) \in Nat /\ w = (a + 8) + (w - (a + 8))
    OBVIOUS
  <2> QED
    BY <2>1
<1>2. PICK A \in Nat \ {0}, C \in Nat \ {0}, W \in Nat \ {0} :
        A = Power[a] /\ C = Power[c] /\ W = Power[w]
  BY PowerPositive
<1>3. Power[8] = 256
  <2>1. /\ Power[0 + 1] = 2 * Power[0] /\ Power[1 + 1] = 2 * Power[1] /\ Power[2 + 1] = 2 * Power[2]
        /\ Power[3 + 1] = 2 * Power[3] /\ Power[4 + 1] = 2 * Power[4]
        /\ Power[5 + 1] = 2 * Power[5] /\ Power[6 + 1] = 2 * Power[6]
        /\ Power[7 + 1] = 2 * Power[7]
    BY PowerDef
  <2> QED
    BY <2>1, PowerDef
<1>4. W = (A * 256) * C
  <2>1. a + 8 \in Nat /\ 8 \in Nat
    OBVIOUS
  <2>2. Power[(a + 8) + c] = Power[a + 8] * Power[c] /\ Power[a + 8] = Power[a] * Power[8]
    BY <2>1, PowerSum
  <2> QED
    BY <1>1, <1>2, <1>3, <2>2
<1>5. PICK q \in Int, r \in Int : x = W * q + r /\ r = x % W
  <2>1. x \div W \in Int /\ x % W \in 0..W - 1 /\ x = W * (x \div W) + (x % W)
    BY DivMod, Zenon
  <2> QED
    BY <2>1
<1>6. x = r + A * (256 * (C * q)) /\ 256 * (C * q) \in Int /\ C * q \in Int
  <2>1. ((A * 256) * C) * q = A * (256 * (C * q)) /\ C * q \in Int
    OBVIOUS
  <2>2. PICK u \in Int : u = A * (256 * (C * q)) /\ u = W * q
    BY <1>4, <2>1
  <2>3. x = r + u
    BY <1>5, <2>2
  <2> QED
    BY <2>1, <2>2, <2>3
<1>7. x \div A = (r \div A) + 256 * (C * q)
  <2>1. (r + A * (256 * (C * q))) \div A = (r \div A) + 256 * (C * q)
    <3>1. PICK d \in Int : d = 256 * (C * q)
      BY <1>6
    <3>2. (r + A * d) \div A = (r \div A) + d
      BY DivAdd, Zenon
    <3> QED
      BY <3>1, <3>2, Zenon
  <2> QED
    BY <1>6, <2>1, Zenon
<1>8. ((r \div A) + 256 * (C * q)) % 256 = (r \div A) % 256
  <2>1. PICK y \in Int, b \in Nat \ {0}, d \in Int : y = r \div A /\ b = 256 /\ d = C * q
    BY <1>6
  <2>2. (y + b * d) % b = y % b
    BY ModAdd, Zenon
  <2> QED
    BY <2>1, <2>2, Zenon
<1> QED
  BY <1>2, <1>5, <1>7, <1>8, Zenon

(* What encode writes of the count of n bytes is the length that Padded    *)
(* appends.                                                                *)
LEMMA EncodeCountIs ==
    ASSUME NEW n \in Nat,
           NEW words,
           words = <<(8 * n) % Power[WordBits], (n \div Power[WordBits - 3]) % Power[WordBits]>>
    PROVE  /\ EncodeCount(words) \in Seq(Int) /\ Len(EncodeCount(words)) = LengthSize
           /\ \A i \in 1..LengthSize :
                EncodeCount(words)[i] = ((8 * n) \div Power[8 * (i - 1)]) % 256
<1>1. PICK h \in Nat \ {0} :
        h = WordBits \div 8 /\ WordBits = 8 * h /\ LengthSize = 2 * h /\ LengthSize \div 2 = h
  <2>1. PICK h \in Nat : h = WordBits \div 8
    BY Sizes
  <2>2. WordBits = 8 * h /\ LengthSize = 2 * h /\ LengthSize # 0
    BY <2>1, Sizes, Zenon
  <2>3. h \in Nat \ {0} /\ (2 * h) \div 2 = h
    BY <2>2
  <2> QED
    BY <2>1, <2>2, <2>3
<1>2. PICK M \in Nat \ {0} : M = Power[WordBits - 3] /\ Power[WordBits] = 8 * M
  BY Sizes
<1>3. PICK x \in Int : x = 8 * n
  OBVIOUS
<1>4. words[1] = x % Power[WordBits] /\ words[2] = (n \div M) % Power[WordBits]
  BY <1>2, <1>3
<1>5. ASSUME NEW i \in 1..2 * h
      PROVE  (words[1 + ((i - 1) \div h)] \div Power[8 * ((i - 1) % h)]) % 256
                = (x \div Power[8 * (i - 1)]) % 256
  <2>1. CASE i <= h
    <3>1. (i - 1) \div h = 0 /\ (i - 1) % h = i - 1
      <4>1. i - 1 \in Int /\ i - 1 \in 0..h - 1 /\ i - 1 = h * 0 + (i - 1) /\ 0 \in Int
        BY <2>1
      <4> QED
        BY <4>1, DivUnique, Zenon
    <3>2. PICK a \in Nat : a = 8 * (i - 1) /\ a + 8 <= 8 * h
      BY <2>1
    <3>3. ((x % Power[WordBits]) \div Power[a]) % 256 = (x \div Power[a]) % 256
      <4>1. PICK w \in Nat : w = WordBits /\ a + 8 <= w
        BY <1>1, <3>2
      <4>2. ((x % Power[w]) \div Power[a]) % 256 = (x \div Power[a]) % 256
        BY <4>1, ByteKept
      <4> QED
        BY <4>1, <4>2, Zenon
    <3>4. 1 + ((i - 1) \div h) = 1
      BY <3>1
    <3> QED
      BY <1>4, <3>1, <3>2, <3>3, <3>4, Zenon
  <2>2. CASE i > h
    <3>1. PICK t \in 0..h - 1 : t = i - 1 - h
      BY <2>2
    <3>2. (i - 1) \div h = 1 /\ (i - 1) % h = t
      <4>1. i - 1 \in Int /\ i - 1 = h * 1 + t /\ 1 \in Int
        BY <3>1
      <4> QED
        BY <4>1, DivUnique, Zenon
    <3>3. PICK a \in Nat : a = 8 * t /\ a + 8 <= WordBits /\ 8 * (i - 1) = WordBits + a
      <4>1. 8 * t \in Nat /\ 8 * t + 8 <= 8 * h /\ 8 * (i - 1) = 8 * h + 8 * t
        BY <3>1
      <4> QED
        BY <1>1, <4>1
    <3>4. PICK A \in Nat \ {0} : A = Power[a]
      BY PowerPositive
    <3>5. PICK y \in Int : y = n \div M
      OBVIOUS
    <3>6. (((n \div M) % Power[WordBits]) \div Power[a]) % 256 = ((n \div M) \div Power[a]) % 256
      <4>1. PICK w \in Nat : w = WordBits /\ a + 8 <= w
        BY <1>1, <3>3
      <4>2. ((y % Power[w]) \div Power[a]) % 256 = (y \div Power[a]) % 256
        BY <4>1, ByteKept
      <4> QED
        BY <3>5, <4>1, <4>2, Zenon
    <3>7. (n \div M) \div A = n \div (M * A)
      <4>1. n \in Int
        OBVIOUS
      <4> QED
        BY <4>1, DivDiv, Zenon
    <3>8. x \div Power[8 * (i - 1)] = n \div (M * A)
      <4>1. PICK K \in Nat \ {0} : K = M * A
        OBVIOUS
      <4>2. Power[WordBits + a] = Power[WordBits] * Power[a]
        <5>1. WordBits \in Nat
          BY <1>1
        <5> QED
          BY <5>1, PowerSum, Zenon
      <4>3. (8 * M) * A = 8 * (M * A)
        OBVIOUS
      <4>4. Power[8 * (i - 1)] = 8 * K
        BY <1>2, <3>3, <3>4, <4>1, <4>2, <4>3, Zenon
      <4>5. (8 * n) \div (8 * K) = n \div K
        BY Bits, Zenon
      <4> QED
        BY <1>3, <4>1, <4>4, <4>5, Zenon
    <3>9. 1 + ((i - 1) \div h) = 2
      BY <3>2
    <3> QED
      BY <1>4, <3>2, <3>3, <3>4, <3>6, <3>7, <3>8, <3>9, Zenon
  <2> QED
    BY <2>1, <2>2
<1>6. ASSUME NEW i \in 1..2 * h PROVE (x \div Power[8 * (i - 1)]) % 256 \in Int
  <2>1. 8 * (i - 1) \in Nat
    OBVIOUS
  <2>2. PICK p \in Nat \ {0} : p = Power[8 * (i - 1)]
    BY <2>1, PowerPositive, Zenon
  <2>3. (x \div p) % 256 \in Int
    OBVIOUS
  <2> QED
    BY <2>2, <2>3, Zenon
<1>7. EncodeCount(words) =
        [i \in 1..LengthSize |->
            (words[1 + ((i - 1) \div (LengthSize \div 2))] \div Power[8 * ((i - 1) % (LengthSize \div 2))]) % 256]
  BY DEF EncodeCount
<1>8. EncodeCount(words) =
        [i \in 1..2 * h |-> (words[1 + ((i - 1) \div h)] \div Power[8 * ((i - 1) % h)]) % 256]
  BY <1>1, <1>7, Zenon
<1>9. EncodeCount(words) = [i \in 1..2 * h |-> (x \div Power[8 * (i - 1)]) % 256]
  BY <1>5, <1>8, Zenon
<1>a. PICK s : s = EncodeCount(words)
  OBVIOUS
<1>10. PICK l \in Nat : l = 2 * h
  OBVIOUS
<1>11. s \in [1..l -> Int] /\ \A i \in 1..l : s[i] = (x \div Power[8 * (i - 1)]) % 256
  BY <1>6, <1>9, <1>a, <1>10
<1>12. s \in Seq(Int) /\ Len(s) = l
  BY <1>11
<1> QED
  BY <1>1, <1>3, <1>a, <1>10, <1>11, <1>12, Zenon

-----------------------------------------------------------------------------
(* The digest.                                                             *)

(* The object made of a message has the message.                           *)
LEMMA Made ==
    ASSUME NEW text \in Seq(Int), NEW s \in Seq(Int), NEW g, Path(g, InitialState, s),
           Len(text) <= Len(s), \A i \in 1..Len(text) : text[i] = s[i]
    PROVE  Has(MD5(text), Len(text), s, g)
<1> DEFINE o == [finished |-> FALSE, count |-> <<0, 0>>, state |-> InitialState, digest |-> <<>>,
                 buffer |-> [i \in 1..BlockSize |-> 255]]
<1>1. o \in Objects
  BY DEF Objects, InitialState
<1>2. o.finished = FALSE /\ o.count = <<0, 0>> /\ o.state = InitialState
  OBVIOUS
<1>3. MD5(text) = init(o, text)
  BY DEF MD5
<1> HIDE DEF o
<1>a. PICK B \in Nat \ {0} : B = BlockSize
  BY Sizes
<1>b. PICK M \in Nat \ {0} : M = Power[WordBits - 3] /\ Power[WordBits] = 8 * M
  BY Sizes
<1>c. PICK W \in Nat \ {0} : W = Power[WordBits]
  BY <1>b
<1>4. B = BlockSize /\ M = Power[WordBits - 3] /\ W = Power[WordBits]
  BY <1>a, <1>b, <1>c
<1>5. (8 * 0) % W = 0 /\ (0 \div M) % W = 0 /\ 0 % B = 0 /\ 0 - (0 % B) = 0
  <2>1. 0 \div M = 0 /\ 0 % B = 0 /\ 0 % W = 0
    OBVIOUS
  <2> QED
    BY <2>1
<1>6. g[0] = InitialState /\ 0 <= Len(s)
  BY DEF Path
<1>7. \A i \in 1..0 : o.buffer[i] = s[(0 - (0 % BlockSize)) + i]
  OBVIOUS
<1>8. Has(o, 0, s, g)
  <2>1. o.count = <<(8 * 0) % Power[WordBits], (0 \div Power[WordBits - 3]) % Power[WordBits]>>
    BY <1>2, <1>4, <1>5, Zenon
  <2>2. 0 % BlockSize = 0 /\ o.state = g[0 - (0 % BlockSize)]
    BY <1>2, <1>4, <1>5, <1>6, Zenon
  <2>3. \A i \in 1..0 % BlockSize : o.buffer[i] = s[(0 - (0 % BlockSize)) + i]
    BY <1>7, <2>2, Zenon
  <2>4. 0 \in Nat
    OBVIOUS
  <2> QED
    BY <1>1, <1>2, <1>6, <2>1, <2>2, <2>3, <2>4, Zenon DEF Has
<1>9. 0 + Len(text) = Len(text) /\ \A i \in 1..Len(text) : text[i] = s[0 + i]
  OBVIOUS
<1>10. Has(init(o, text), 0 + Len(text), s, g)
  BY <1>8, <1>9, Takes
<1> QED
  BY <1>3, <1>9, <1>10, Zenon

(* The digest is that of the padded message.                               *)
LEMMA DigestIs ==
    ASSUME NEW text \in Seq(Int)
    PROVE  /\ getDigest(MD5(text)).digest = ReferenceDigest(text)
           /\ MD5(text) \in Objects
<1>1. PICK n \in Nat, L \in Nat, p \in Nat :
        n = Len(text) /\ L = LengthSize /\ p = 1 + FillZeros(n) /\ p <= BlockSize
  <2>1. PICK n \in Nat : n = Len(text)
    OBVIOUS
  <2>2. FillZeros(n) \in 0..BlockSize - 1
    BY ZerosFill
  <2> QED
    BY <2>1, <2>2, Sizes
<1>2. PICK s \in Seq(Int) : s = Padded(text)
  BY <1>1, PaddedIs
<1>3. /\ Len(s) = (n + p) + L
      /\ \A i \in 1..n : s[i] = text[i]
      /\ \A i \in 1..p : s[n + i] = PADDING[i]
      /\ \A i \in 1..L : s[(n + p) + i] = ((8 * n) \div Power[8 * (i - 1)]) % 256
  <2>1. PaddedWith(text, Len(text), FillZeros(Len(text)), LengthSize, Padded(text))
    BY PaddedIs
  <2>2. PaddedWith(text, n, FillZeros(n), L, s)
    BY <1>1, <1>2, <2>1, Zenon
  <2> QED
    BY <1>1, <2>2, Zenon DEF PaddedWith
<1>4. PICK g : Path(g, InitialState, s)
  <2>1. InitialState \in Int
    BY DEF InitialState
  <2> QED
    BY <2>1, PathExists
<1>5. PICK o : o = MD5(text)
  OBVIOUS
<1>6. Has(o, n, s, g)
  <2>1. Len(text) <= Len(s) /\ \A i \in 1..Len(text) : text[i] = s[i]
    BY <1>1, <1>3
  <2>2. Has(MD5(text), Len(text), s, g)
    BY <1>4, <2>1, Made
  <2> QED
    BY <1>1, <1>5, <2>2, Zenon
<1>7. padLen(o) = p
  BY <1>1, <1>6, BufferIndexIs, PadLenIs
<1>8. PICK fill \in Seq(Int) :
        fill = SubSeq(PADDING, 1, p) /\ Len(fill) = p /\ \A i \in 1..p : fill[i] = s[n + i]
  <2>1. PADDING \in Seq(Int) /\ Len(PADDING) = BlockSize
    BY Sizes DEF PADDING
  <2>2. /\ SubSeq(PADDING, 0 + 1, 0 + p) \in Seq(Int) /\ Len(SubSeq(PADDING, 0 + 1, 0 + p)) = p
        /\ \A i \in 1..p : SubSeq(PADDING, 0 + 1, 0 + p)[i] = PADDING[0 + i]
    <3>1. 0 \in Nat /\ 0 + p <= Len(PADDING)
      BY <1>1, <2>1
    <3> QED
      BY <2>1, <3>1, Slice
  <2>3. 0 + 1 = 1 /\ 0 + p = p /\ \A i \in 1..p : 0 + i = i
    OBVIOUS
  <2>4. PICK f \in Seq(Int) : f = SubSeq(PADDING, 1, p)
    BY <2>2, <2>3, Zenon
  <2>5. Len(f) = p /\ \A i \in 1..p : f[i] = PADDING[i]
    BY <2>2, <2>3, <2>4, Zenon
  <2>6. \A i \in 1..p : f[i] = s[n + i]
    BY <1>3, <2>5
  <2> QED
    BY <2>4, <2>5, <2>6, Zenon
<1>9. Has(init(o, fill), n + p, s, g)
  <2>1. n + Len(fill) <= Len(s) /\ n + Len(fill) = n + p /\ \A i \in 1..Len(fill) : fill[i] = s[n + i]
    BY <1>3, <1>8
  <2>2. Has(init(o, fill), n + Len(fill), s, g)
    BY <1>4, <1>6, <2>1, Takes
  <2> QED
    BY <2>1, <2>2, Zenon
<1>10. PICK bits \in Seq(Int) :
        bits = EncodeCount(o.count) /\ Len(bits) = L /\ \A i \in 1..L : bits[i] = s[(n + p) + i]
  <2>1. o.count = <<(8 * n) % Power[WordBits], (n \div Power[WordBits - 3]) % Power[WordBits]>>
    BY <1>6, Zenon DEF Has
  <2>2. /\ EncodeCount(o.count) \in Seq(Int) /\ Len(EncodeCount(o.count)) = LengthSize
        /\ \A i \in 1..LengthSize :
             EncodeCount(o.count)[i] = ((8 * n) \div Power[8 * (i - 1)]) % 256
    BY <2>1, EncodeCountIs
  <2>3. PICK b \in Seq(Int) : b = EncodeCount(o.count)
    BY <2>2
  <2>4. Len(b) = L /\ \A i \in 1..L : b[i] = ((8 * n) \div Power[8 * (i - 1)]) % 256
    BY <1>1, <2>2, <2>3, Zenon
  <2>5. \A i \in 1..L : b[i] = s[(n + p) + i]
    BY <1>3, <2>4
  <2> QED
    BY <2>3, <2>4, <2>5, Zenon
<1>11. PICK padded : padded = init(init(o, fill), bits)
  OBVIOUS
<1>12. Has(padded, (n + p) + L, s, g)
  <2>1. PICK a : a = n + p
    OBVIOUS
  <2>2. a + Len(bits) <= Len(s) /\ \A i \in 1..Len(bits) : bits[i] = s[a + i]
    BY <1>3, <1>10, <2>1
  <2>3. Has(init(o, fill), a, s, g)
    BY <1>9, <2>1, Zenon
  <2>4. Has(init(init(o, fill), bits), a + Len(bits), s, g)
    BY <1>4, <2>2, <2>3, Takes
  <2> QED
    BY <1>10, <1>11, <2>1, <2>4, Zenon
<1>13. padded.state = transform(InitialState, s)
  <2>1. Len(s) % BlockSize = 0
    <3>1. (n + 1 + FillZeros(n) + LengthSize) % BlockSize = 0
      BY ZerosFill, Zenon
    <3>2. PICK z \in Nat : z = FillZeros(n)
      <4>1. FillZeros(n) \in 0..BlockSize - 1 /\ BlockSize \in Nat
        BY ZerosFill, Sizes, Zenon
      <4> QED
        BY <4>1
    <3>3. n + 1 + z + L = (n + p) + L
      <4>1. p = 1 + z
        BY <1>1, <3>2, Zenon
      <4> QED
        BY <4>1
    <3>4. n + 1 + FillZeros(n) + LengthSize = Len(s)
      BY <1>1, <1>3, <3>2, <3>3, Zenon
    <3> QED
      BY <3>1, <3>4, Zenon
  <2>2. Len(s) - 0 = Len(s)
    OBVIOUS
  <2>3. padded.state = g[Len(s) - (Len(s) % BlockSize)]
    BY <1>3, <1>12, Zenon DEF Has
  <2>4. transform(InitialState, s) = g[Len(s)]
    BY <1>4, PathEnd
  <2> QED
    BY <2>1, <2>2, <2>3, <2>4, Zenon
<1>14. o \in Objects /\ o.finished = FALSE /\ padded \in Objects
  BY <1>6, <1>12, Zenon DEF Has
<1>15. getDigest(o) = [[[padded EXCEPT !.digest = DigestOf(padded.state)]
                            EXCEPT !.state = o.state] EXCEPT !.count = o.count]
  BY <1>7, <1>8, <1>10, <1>11, <1>14 DEF getDigest
<1>16. getDigest(o).digest = DigestOf(padded.state)
  BY <1>14, <1>15 DEF Objects
<1>17. ReferenceDigest(text) = DigestOf(padded.state)
  BY <1>2, <1>13, Zenon DEF ReferenceDigest
<1> QED
  BY <1>5, <1>14, <1>16, <1>17, Zenon

-----------------------------------------------------------------------------
(* Pieces of sequences.                                                    *)

LEMMA ZerosType ==
    ASSUME NEW S, 0 \in S, NEW n \in Nat
    PROVE  Zeros(n) \in Seq(S) /\ Len(Zeros(n)) = n
  BY DEF Zeros

(* The bytes of s from the first to the last are those of t.               *)
At(s, first, last, t) ==
    /\ last <= Len(s)
    /\ last = first - 1 + Len(t)
    /\ \A i \in 1..Len(t) : s[first - 1 + i] = t[i]

Cuts(s, first, last, t) == SubSeq(s, first, last) = t

LEMMA Piece ==
    ASSUME NEW S, NEW s \in Seq(S), NEW t \in Seq(S),
           NEW first \in Nat \ {0}, NEW last \in Nat, At(s, first, last, t)
    PROVE  Cuts(s, first, last, t)
<1>1. Len(s) \in Nat /\ Len(t) \in Nat
  BY LenProperties
<1>2. \A i \in first..last : s[i] \in S
  BY <1>1, ElementOfSeq DEF At
<1>3. /\ SubSeq(s, first, last) \in Seq(S)
      /\ Len(SubSeq(s, first, last)) = Len(t)
      /\ \A i \in 1..Len(t) : SubSeq(s, first, last)[i] = s[first + i - 1]
  BY <1>1, <1>2, SubSeqProperties DEF At
<1>4. ASSUME NEW i \in 1..Len(t) PROVE SubSeq(s, first, last)[i] = t[i]
  <2>1. first + i - 1 = first - 1 + i
    BY <1>1
  <2> QED
    BY <1>3, <2>1 DEF At
<1> QED
  BY <1>1, <1>3, <1>4, SeqEqual DEF Cuts

LEMMA Within ==
    ASSUME NEW S, NEW s \in Seq(S), NEW h \in Seq(S), NEW t \in Seq(S),
           NEW n \in Nat, NEW first \in Nat \ {0}, NEW last \in Nat,
           At(s, 1, n, h), At(h, first, last, t)
    PROVE  At(s, first, last, t)
<1>1. Len(s) \in Nat /\ Len(t) \in Nat /\ Len(h) \in Nat
  BY LenProperties
<1>2. last <= Len(h) /\ last = first - 1 + Len(t) /\ n = Len(h) /\ n <= Len(s)
  BY <1>1 DEF At
<1>3. ASSUME NEW i \in 1..Len(t) PROVE s[first - 1 + i] = t[i]
  <2>1. first - 1 + i \in 1..Len(h)
    BY <1>1, <1>2
  <2>2. h[first - 1 + i] = t[i]
    BY DEF At
  <2>3. \A j \in 1..Len(h) : s[j] = h[j]
    <3>1. ASSUME NEW j \in 1..Len(h) PROVE 1 - 1 + j = j
      BY <1>1
    <3> QED
      BY <3>1 DEF At
  <2> QED
    BY <2>1, <2>2, <2>3
<1> QED
  BY <1>1, <1>2, <1>3 DEF At

(* The first bytes of a piece, and of a piece with more behind it.         *)
Starts(a, b, c, k, l) == c = a - 1 + k /\ c <= b /\ b <= l

LEMMA PieceOfPiece ==
    ASSUME NEW S, NEW s \in Seq(S), NEW a \in Nat \ {0}, NEW b \in Nat, NEW c \in Nat,
           NEW k \in Nat, Starts(a, b, c, k, Len(s)),
           NEW p, Cuts(s, a, b, p), NEW q, Cuts(s, a, c, q)
    PROVE  Cuts(p, 1, k, q)
<1>1. Len(s) \in Nat
  BY LenProperties
<1>0. c = a - 1 + k /\ c <= b /\ b <= Len(s)
  BY DEF Starts
<1>2. \A i \in a..b : s[i] \in S
  BY <1>0, <1>1, ElementOfSeq
<1>3. PICK l \in Nat : l = (IF a <= b THEN b - a + 1 ELSE 0) /\ k <= l
  <2>1. (IF a <= b THEN b - a + 1 ELSE 0) \in Nat /\ k <= (IF a <= b THEN b - a + 1 ELSE 0)
    BY <1>0
  <2> QED
    BY <2>1
<1>4. p \in Seq(S) /\ Len(p) = l /\ \A i \in 1..l : p[i] = s[a + i - 1]
  <2>1. /\ SubSeq(s, a, b) \in Seq(S) /\ Len(SubSeq(s, a, b)) = l
        /\ \A i \in 1..l : SubSeq(s, a, b)[i] = s[a + i - 1]
    BY <1>2, <1>3, SubSeqProperties
  <2> QED
    BY <2>1, Zenon DEF Cuts
<1>5. \A i \in 1..k : p[i] \in S
  BY <1>3, <1>4, ElementOfSeq
<1>6. /\ SubSeq(p, 1, k) \in Seq(S) /\ Len(SubSeq(p, 1, k)) = k
      /\ \A i \in 1..k : SubSeq(p, 1, k)[i] = p[1 + i - 1]
  BY <1>5, SubSeqProperties
<1>7. \A i \in a..c : s[i] \in S
  BY <1>0, <1>2
<1>8. q \in Seq(S) /\ Len(q) = k /\ \A i \in 1..k : q[i] = s[a + i - 1]
  <2>1. /\ SubSeq(s, a, c) \in Seq(S) /\ Len(SubSeq(s, a, c)) = k
        /\ \A i \in 1..k : SubSeq(s, a, c)[i] = s[a + i - 1]
    BY <1>0, <1>7, SubSeqProperties
  <2> QED
    BY <2>1, Zenon DEF Cuts
<1>9. ASSUME NEW i \in 1..k PROVE SubSeq(p, 1, k)[i] = q[i]
  <2>1. i \in 1..l /\ 1 + i - 1 = i
    BY <1>3
  <2> QED
    BY <1>4, <1>6, <1>8, <2>1, ZenonT(60)
<1>10. SubSeq(p, 1, k) = q
  BY <1>6, <1>8, <1>9, SeqEqual
<1> QED
  BY <1>10 DEF Cuts

Joins(j, s, t) ==
    /\ Len(j) = Len(s) + Len(t)
    /\ \A i \in 1..Len(s) : j[i] = s[i]
    /\ \A i \in 1..Len(t) : j[Len(s) + i] = t[i]

LEMMA Joined ==
    ASSUME NEW S, NEW s \in Seq(S), NEW t \in Seq(S)
    PROVE  s \o t \in Seq(S) /\ Joins(s \o t, s, t)
<1>0. Len(s) \in Nat /\ Len(t) \in Nat
  BY LenProperties
<1>1. /\ s \o t \in Seq(S) /\ Len(s \o t) = Len(s) + Len(t)
      /\ \A i \in 1..Len(s) + Len(t) : (s \o t)[i] = IF i <= Len(s) THEN s[i] ELSE t[i - Len(s)]
  BY ConcatProperties
<1>2. ASSUME NEW i \in 1..Len(t) PROVE (s \o t)[Len(s) + i] = t[i]
  <2>1. Len(s) + i \in 1..Len(s) + Len(t) /\ ~(Len(s) + i <= Len(s)) /\ (Len(s) + i) - Len(s) = i
    BY <1>0
  <2> QED
    BY <1>1, <2>1
<1> QED
  BY <1>0, <1>1, <1>2 DEF Joins

LEMMA FrontOfJoined ==
    ASSUME NEW S, NEW s \in Seq(S), NEW t \in Seq(S), NEW k \in Nat, k <= Len(s),
           NEW q, Cuts(s, 1, k, q)
    PROVE  Cuts(s \o t, 1, k, q)
<1>1. Len(s) \in Nat /\ Len(t) \in Nat
  BY LenProperties
<1>2. PICK j : j = s \o t
  OBVIOUS
<1>3. j \in Seq(S) /\ Joins(j, s, t)
  BY <1>2, Joined
<1>4. \A i \in 1..k : j[i] = s[i]
  BY <1>1, <1>3 DEF Joins
<1>5. \A i \in 1..k : s[i] \in S
  BY <1>1, ElementOfSeq
<1>6. /\ SubSeq(s, 1, k) \in Seq(S) /\ Len(SubSeq(s, 1, k)) = k
      /\ \A i \in 1..k : SubSeq(s, 1, k)[i] = s[1 + i - 1]
  BY <1>5, SubSeqProperties
<1>7. \A i \in 1..k : j[i] \in S
  BY <1>4, <1>5
<1>8. /\ SubSeq(j, 1, k) \in Seq(S) /\ Len(SubSeq(j, 1, k)) = k
      /\ \A i \in 1..k : SubSeq(j, 1, k)[i] = j[1 + i - 1]
  BY <1>7, SubSeqProperties
<1>9. ASSUME NEW i \in 1..k PROVE SubSeq(j, 1, k)[i] = SubSeq(s, 1, k)[i]
  <2>1. 1 + i - 1 = i
    OBVIOUS
  <2> QED
    BY <1>4, <1>6, <1>8, <2>1
<1>10. SubSeq(j, 1, k) = SubSeq(s, 1, k)
  BY <1>6, <1>8, <1>9, SeqEqual
<1> QED
  BY <1>2, <1>10, Zenon DEF Cuts

(* What is put into b, and what stays before it.                           *)
Holds(j, b, p, s) ==
    /\ Len(j) = Len(b)
    /\ \A i \in 1..p : j[i] = b[i]
    /\ \A i \in 1..Len(s) : j[p + i] = s[i]

LEMMA PutBytes ==
    ASSUME NEW S, NEW b \in Seq(S), NEW s \in Seq(S), NEW p \in Nat, p + Len(s) <= Len(b)
    PROVE  Put(b, p, s) \in Seq(S) /\ Holds(Put(b, p, s), b, p, s)
<1>0. PICK n \in Nat, k \in Nat : n = Len(b) /\ k = Len(s)
  BY LenProperties
<1>1. Put(b, p, s) = [i \in 1..n |-> IF i \in p + 1..p + k THEN s[i - p] ELSE b[i]]
  BY <1>0 DEF Put
<1>2. \A i \in 1..n : (IF i \in p + 1..p + k THEN s[i - p] ELSE b[i]) \in S
  BY <1>0, ElementOfSeq
<1>3. Put(b, p, s) \in Seq(S) /\ Len(Put(b, p, s)) = n
  BY <1>1, <1>2
<1>4. ASSUME NEW i \in 1..p PROVE Put(b, p, s)[i] = b[i]
  BY <1>0, <1>1
<1>5. ASSUME NEW i \in 1..k PROVE Put(b, p, s)[p + i] = s[i]
  <2>1. p + i \in 1..n /\ p + i \in p + 1..p + k /\ (p + i) - p = i
    BY <1>0
  <2> QED
    BY <1>1, <2>1
<1> QED
  BY <1>0, <1>3, <1>4, <1>5 DEF Holds

-----------------------------------------------------------------------------
(* Messages, of the elements of S.                                         *)

Texts(S) ==
    [preamble : Seq(S), len : Seq(S), version : Seq(S), total_package_len : Seq(S),
     seq : Seq(S), flag : Seq(S), payload : Seq(S), checksum : Seq(S), end_sym : S]

Shape(m, S) ==
    /\ 0..255 \subseteq S
    /\ m \in Texts(S)
    /\ Len(m.preamble) = 4 /\ Len(m.len) = 4 /\ Len(m.version) = 4
    /\ Len(m.total_package_len) = 4 /\ Len(m.seq) = 2 /\ Len(m.flag) = 2
    /\ Len(m.checksum) >= ChecksumSize

HeadBytes(m) == m.preamble \o m.len \o m.version \o m.total_package_len \o m.seq \o m.flag

LEMMA HeadPieces ==
    ASSUME NEW S, NEW m, Shape(m, S)
    PROVE  /\ HeadBytes(m) \in Seq(S) /\ Len(HeadBytes(m)) = HeadSize
           /\ At(HeadBytes(m), 1, 4, m.preamble)
           /\ At(HeadBytes(m), 5, 8, m.len)
           /\ At(HeadBytes(m), 9, 12, m.version)
           /\ At(HeadBytes(m), 13, 16, m.total_package_len)
           /\ At(HeadBytes(m), 17, 18, m.seq)
           /\ At(HeadBytes(m), 19, 20, m.flag)
<1>1. PICK a \in Seq(S), b \in Seq(S), c \in Seq(S), d \in Seq(S), e \in Seq(S), f \in Seq(S) :
        /\ a = m.preamble /\ b = m.len /\ c = m.version
        /\ d = m.total_package_len /\ e = m.seq /\ f = m.flag
  BY DEF Shape, Texts
<1>2. /\ Len(a) = 4 /\ Len(b) = 4 /\ Len(c) = 4 /\ Len(d) = 4 /\ Len(e) = 2 /\ Len(f) = 2
  BY <1>1 DEF Shape
<1> DEFINE ab == a \o b
<1>3. /\ ab \in Seq(S) /\ Len(ab) = 8
      /\ \A i \in 1..4 : ab[i] = a[i]
      /\ \A i \in 1..4 : ab[4 + i] = b[i]
  <2>1. ab \in Seq(S) /\ Joins(ab, a, b)
    BY Joined
  <2> HIDE DEF ab
  <2> QED
    BY <1>2, <2>1 DEF Joins
<1> HIDE DEF ab
<1> DEFINE abc == ab \o c
<1>4. /\ abc \in Seq(S) /\ Len(abc) = 12
      /\ \A i \in 1..8 : abc[i] = ab[i]
      /\ \A i \in 1..4 : abc[8 + i] = c[i]
  <2>1. abc \in Seq(S) /\ Joins(abc, ab, c)
    BY <1>3, Joined
  <2> HIDE DEF abc
  <2> QED
    BY <1>2, <1>3, <2>1 DEF Joins
<1> HIDE DEF abc
<1> DEFINE abcd == abc \o d
<1>5. /\ abcd \in Seq(S) /\ Len(abcd) = 16
      /\ \A i \in 1..12 : abcd[i] = abc[i]
      /\ \A i \in 1..4 : abcd[12 + i] = d[i]
  <2>1. abcd \in Seq(S) /\ Joins(abcd, abc, d)
    BY <1>4, Joined
  <2> HIDE DEF abcd
  <2> QED
    BY <1>2, <1>4, <2>1 DEF Joins
<1> HIDE DEF abcd
<1> DEFINE abcde == abcd \o e
<1>6. /\ abcde \in Seq(S) /\ Len(abcde) = 18
      /\ \A i \in 1..16 : abcde[i] = abcd[i]
      /\ \A i \in 1..2 : abcde[16 + i] = e[i]
  <2>1. abcde \in Seq(S) /\ Joins(abcde, abcd, e)
    BY <1>5, Joined
  <2> HIDE DEF abcde
  <2> QED
    BY <1>2, <1>5, <2>1 DEF Joins
<1> HIDE DEF abcde
<1> DEFINE h == abcde \o f
<1>7. /\ h \in Seq(S) /\ Len(h) = 20
      /\ \A i \in 1..18 : h[i] = abcde[i]
      /\ \A i \in 1..2 : h[18 + i] = f[i]
  <2>1. h \in Seq(S) /\ Joins(h, abcde, f)
    BY <1>6, Joined
  <2> HIDE DEF h
  <2> QED
    BY <1>2, <1>6, <2>1 DEF Joins
<1> HIDE DEF h
<1>8. h = HeadBytes(m)
  BY <1>1 DEF h, abcde, abcd, abc, ab, HeadBytes
<1>9. ASSUME NEW i \in 1..4
      PROVE  h[i] = a[i] /\ h[4 + i] = b[i] /\ h[8 + i] = c[i] /\ h[12 + i] = d[i]
  <2>1. ASSUME NEW k \in 1..16 PROVE h[k] = abcd[k]
    <3>1. k \in 1..18
      OBVIOUS
    <3> QED
      BY <1>6, <1>7, <3>1
  <2>2. ASSUME NEW k \in 1..12 PROVE h[k] = abc[k]
    <3>1. k \in 1..16
      OBVIOUS
    <3> QED
      BY <1>5, <2>1, <3>1
  <2>3. ASSUME NEW k \in 1..8 PROVE h[k] = ab[k]
    <3>1. k \in 1..12
      OBVIOUS
    <3> QED
      BY <1>4, <2>2, <3>1
  <2>4. i \in 1..8 /\ 4 + i \in 1..8 /\ 8 + i \in 1..12 /\ 12 + i \in 1..16
    OBVIOUS
  <2>5. h[i] = a[i] /\ h[4 + i] = b[i]
    BY <1>3, <2>3, <2>4
  <2>6. h[8 + i] = c[i]
    BY <1>4, <2>2, <2>4
  <2>7. h[12 + i] = d[i]
    BY <1>5, <2>1, <2>4
  <2> QED
    BY <2>5, <2>6, <2>7
<1>10. ASSUME NEW i \in 1..2 PROVE h[16 + i] = e[i] /\ h[18 + i] = f[i]
  <2>1. 16 + i \in 1..18
    OBVIOUS
  <2> QED
    BY <1>6, <1>7, <2>1, ZenonT(60)
<1>11. /\ At(h, 1, 4, a) /\ At(h, 5, 8, b) /\ At(h, 9, 12, c)
       /\ At(h, 13, 16, d) /\ At(h, 17, 18, e) /\ At(h, 19, 20, f)
  BY <1>2, <1>7, <1>9, <1>10 DEF At
<1> QED
  BY <1>1, <1>7, <1>8, <1>11 DEF HeadSize

(* Where encode puts what.                                                 *)
Layout(s, m) ==
    /\ Len(s) = Len(m.payload) + 53
    /\ At(s, 1, 20, HeadBytes(m))
    /\ At(s, 21, Len(m.payload) + 20, m.payload)
    /\ At(s, Len(m.payload) + 21, Len(m.payload) + 52, SubSeq(m.checksum, 1, 32))
    /\ s[Len(s)] = m.end_sym

LEMMA Encoding ==
    ASSUME NEW S, NEW m, Shape(m, S)
    PROVE  encode(m) \in Seq(S) /\ Layout(encode(m), m)
<1> USE DEF HeadSize, ChecksumSize, EndSize
<1>1. PICK n \in Nat, payload \in Seq(S) : payload = m.payload /\ n = Len(payload)
  BY LenProperties DEF Shape, Texts
<1>2. PICK end \in S : end = m.end_sym
  BY DEF Shape, Texts
<1>3. PICK checksum \in Seq(S) :
        /\ checksum = SubSeq(m.checksum, 1, 32) /\ Len(checksum) = 32
        /\ \A i \in 1..32 : checksum[i] = m.checksum[i]
  <2>1. m.checksum \in Seq(S) /\ Len(m.checksum) \in Nat /\ Len(m.checksum) >= 32
    BY LenProperties DEF Shape, Texts
  <2>2. \A i \in 1..32 : m.checksum[i] \in S
    BY <2>1, ElementOfSeq
  <2>3. /\ SubSeq(m.checksum, 1, 32) \in Seq(S) /\ Len(SubSeq(m.checksum, 1, 32)) = 32
        /\ \A i \in 1..32 : SubSeq(m.checksum, 1, 32)[i] = m.checksum[i]
    BY <2>2, SubSeqProperties
  <2> QED
    BY <2>3
<1>4. PICK head \in Seq(S) : head = HeadBytes(m) /\ Len(head) = 20
  BY HeadPieces
<1> DEFINE zeros == Zeros(n + 53)
           buff == Put(zeros, 0, head)
           withPayload == Put(buff, 20, payload)
           withChecksum == Put(withPayload, 20 + n, checksum)
           s == Put(withChecksum, 20 + n + 32, <<end>>)
<1>5. s = encode(m)
  <2>1. get_full_package_size(m) = n + 53
    BY <1>1 DEF get_full_package_size, get_Message_size
  <2> QED
    BY <1>1, <1>2, <1>3, <1>4, <2>1 DEF encode, PutHead, HeadBytes
<1>6. zeros \in Seq(S) /\ Len(zeros) = n + 53
  <2>1. 0 \in S
    BY DEF Shape
  <2> QED
    BY <2>1 DEF Zeros
<1> HIDE DEF zeros
<1>7. buff \in Seq(S) /\ Len(buff) = n + 53 /\ \A i \in 1..20 : buff[i] = head[i]
  <2>0. 0 \in Nat /\ 0 + Len(head) <= Len(zeros)
    BY <1>4, <1>6
  <2>1. buff \in Seq(S) /\ Holds(buff, zeros, 0, head)
    BY <1>6, <2>0, PutBytes
  <2> HIDE DEF buff
  <2> QED
    BY <1>4, <1>6, <2>1 DEF Holds
<1> HIDE DEF buff
<1>8. /\ withPayload \in Seq(S) /\ Len(withPayload) = n + 53
      /\ \A i \in 1..20 : withPayload[i] = buff[i]
      /\ \A i \in 1..n : withPayload[20 + i] = payload[i]
  <2>0. 20 \in Nat /\ 20 + Len(payload) <= Len(buff)
    BY <1>1, <1>7
  <2>1. withPayload \in Seq(S) /\ Holds(withPayload, buff, 20, payload)
    BY <1>7, <2>0, PutBytes
  <2> HIDE DEF withPayload
  <2> QED
    BY <1>1, <1>7, <2>1 DEF Holds
<1> HIDE DEF withPayload
<1>9. /\ withChecksum \in Seq(S) /\ Len(withChecksum) = n + 53
      /\ \A i \in 1..20 + n : withChecksum[i] = withPayload[i]
      /\ \A i \in 1..32 : withChecksum[20 + n + i] = checksum[i]
  <2>1. 20 + n \in Nat /\ 20 + n + Len(checksum) <= Len(withPayload)
    BY <1>3, <1>8
  <2>2. withChecksum \in Seq(S) /\ Holds(withChecksum, withPayload, 20 + n, checksum)
    BY <1>8, <2>1, PutBytes
  <2> HIDE DEF withChecksum
  <2> QED
    BY <1>3, <1>8, <2>2 DEF Holds
<1> HIDE DEF withChecksum
<1>10. /\ s \in Seq(S) /\ Len(s) = n + 53
       /\ \A i \in 1..20 + n + 32 : s[i] = withChecksum[i]
       /\ s[20 + n + 32 + 1] = end
  <2>1. <<end>> \in Seq(S) /\ Len(<<end>>) = 1 /\ <<end>>[1] = end /\ 1 \in 1..1
    OBVIOUS
  <2>2. 20 + n + 32 \in Nat /\ 20 + n + 32 + 1 <= n + 53 /\ n + 53 \in Nat
    OBVIOUS
  <2> HIDE DEF s
  <2>3. s \in Seq(S) /\ Holds(s, withChecksum, 20 + n + 32, <<end>>)
    BY <1>9, <2>1, <2>2, PutBytes, ZenonT(60) DEF s
  <2> QED
    BY <1>9, <2>1, <2>3 DEF Holds
<1> HIDE DEF s
<1>11. ASSUME NEW i \in 1..20 PROVE s[i] = head[i]
  <2>1. i \in 1..20 + n /\ i \in 1..20 + n + 32
    OBVIOUS
  <2> QED
    BY <1>7, <1>8, <1>9, <1>10, <2>1
<1>12. ASSUME NEW i \in 1..n PROVE s[20 + i] = payload[i]
  <2>1. 20 + i \in 1..20 + n /\ 20 + i \in 1..20 + n + 32
    OBVIOUS
  <2> QED
    BY <1>8, <1>9, <1>10, <2>1
<1>13. ASSUME NEW i \in 1..32 PROVE s[20 + n + i] = checksum[i]
  <2>1. 20 + n + i \in 1..20 + n + 32
    OBVIOUS
  <2> QED
    BY <1>9, <1>10, <2>1
<1>14. Len(s) = n + 53 /\ s[Len(s)] = end
  BY <1>10
<1>15. At(s, 1, 20, head)
  BY <1>4, <1>10, <1>11 DEF At
<1>16. At(s, 21, n + 20, payload)
  BY <1>1, <1>10, <1>12 DEF At
<1>17. At(s, n + 21, n + 52, checksum)
  <2> SUFFICES ASSUME NEW first \in Nat, NEW last \in Nat, first = n + 21, last = n + 52
               PROVE  At(s, first, last, checksum)
    OBVIOUS
  <2>1. \A i \in 1..Len(checksum) : s[first - 1 + i] = checksum[i]
    <3>1. ASSUME NEW i \in 1..32 PROVE first - 1 + i = 20 + n + i
      OBVIOUS
    <3> QED
      BY <1>3, <1>13, <3>1
  <2>2. last <= Len(s) /\ last = first - 1 + Len(checksum)
    BY <1>3, <1>10
  <2> QED
    BY <2>1, <2>2, Zenon DEF At
<1> QED
  BY <1>1, <1>2, <1>3, <1>4, <1>5, <1>10, <1>14, <1>15, <1>16, <1>17 DEF Layout

(* decode, of the pieces it takes.                                         *)
Pieces(preamble, len, version, total_package_len, seq, flag, end_sym, body, found) ==
    set_checksum(set_payload(
        [NewMessage EXCEPT !.preamble = preamble, !.len = len, !.version = version,
                           !.total_package_len = total_package_len, !.seq = seq,
                           !.flag = flag, !.end_sym = end_sym], body), found)

(* What decode finds in what encode has made.                              *)
Reads(d, m) ==
    /\ \A f \in {"preamble", "len", "version", "total_package_len", "seq", "flag", "end_sym"} :
          d[f] = m[f]
    /\ SubSeq(d.payload, 1, Len(m.payload)) = m.payload
    /\ SubSeq(d.checksum, 1, ChecksumSize) = SubSeq(m.checksum, 1, ChecksumSize)

LEMMA Decoding ==
    ASSUME NEW S, NEW m, Shape(m, S)
    PROVE  Shape(decode(encode(m)), S) /\ Reads(decode(encode(m)), m)
           /\ Len(decode(encode(m)).payload) > Len(m.payload)
<1> USE DEF HeadSize, ChecksumSize, EndSize
<1> DEFINE s == encode(m)
           n == Len(m.payload)
<1>1. s \in Seq(S) /\ Layout(s, m)
  BY Encoding
<1>2. /\ m.preamble \in Seq(S) /\ m.len \in Seq(S) /\ m.version \in Seq(S)
      /\ m.total_package_len \in Seq(S) /\ m.seq \in Seq(S) /\ m.flag \in Seq(S)
      /\ m.payload \in Seq(S) /\ m.checksum \in Seq(S) /\ HeadBytes(m) \in Seq(S)
      /\ 0 \in S /\ n \in Nat
  <2>1. m.payload \in Seq(S) /\ 0 \in S
    BY DEF Shape, Texts
  <2>2. HeadBytes(m) \in Seq(S)
    BY HeadPieces
  <2>3. n \in Nat
    BY <2>1, LenProperties
  <2> QED
    BY <2>1, <2>2, <2>3 DEF Shape, Texts
<1> HIDE DEF s
<1>3. Len(s) = n + 53 /\ s[Len(s)] = m.end_sym /\ m.end_sym \in S
  BY <1>1 DEF Layout, Shape, Texts
<1>4. /\ At(s, 1, 20, HeadBytes(m))
      /\ At(s, 21, n + 20, m.payload)
      /\ At(s, n + 21, n + 52, SubSeq(m.checksum, 1, 32))
  BY <1>1, Zenon DEF Layout
<1> HIDE DEF n
<1>5. \A i \in 1..n + 53 : s[i] \in S
  BY <1>1, <1>3, ElementOfSeq
(* The head.                                                               *)
<1>6. /\ Cuts(s, 1, 4, m.preamble) /\ Cuts(s, 5, 8, m.len)
      /\ Cuts(s, 9, 12, m.version) /\ Cuts(s, 13, 16, m.total_package_len)
      /\ Cuts(s, 17, 18, m.seq) /\ Cuts(s, 19, 20, m.flag)
  <2>1. Cuts(s, 1, 4, m.preamble)
    <3>1. 1 \in Nat \ {0} /\ 4 \in Nat /\ 20 \in Nat
      OBVIOUS
    <3>2. At(HeadBytes(m), 1, 4, m.preamble)
      BY HeadPieces, Zenon
    <3>3. s \in Seq(S) /\ HeadBytes(m) \in Seq(S) /\ m.preamble \in Seq(S) /\ At(s, 1, 20, HeadBytes(m))
      BY <1>1, <1>2, <1>4, Zenon
    <3>4. At(s, 1, 4, m.preamble)
      BY <3>1, <3>2, <3>3, Within
    <3> QED
      BY <3>1, <3>3, <3>4, Piece, Zenon
  <2>2. Cuts(s, 5, 8, m.len)
    <3>1. 5 \in Nat \ {0} /\ 8 \in Nat /\ 20 \in Nat
      OBVIOUS
    <3>2. At(HeadBytes(m), 5, 8, m.len)
      BY HeadPieces, Zenon
    <3>3. s \in Seq(S) /\ HeadBytes(m) \in Seq(S) /\ m.len \in Seq(S) /\ At(s, 1, 20, HeadBytes(m))
      BY <1>1, <1>2, <1>4, Zenon
    <3>4. At(s, 5, 8, m.len)
      BY <3>1, <3>2, <3>3, Within
    <3> QED
      BY <3>1, <3>3, <3>4, Piece, Zenon
  <2>3. Cuts(s, 9, 12, m.version)
    <3>1. 9 \in Nat \ {0} /\ 12 \in Nat /\ 20 \in Nat
      OBVIOUS
    <3>2. At(HeadBytes(m), 9, 12, m.version)
      BY HeadPieces, Zenon
    <3>3. s \in Seq(S) /\ HeadBytes(m) \in Seq(S) /\ m.version \in Seq(S) /\ At(s, 1, 20, HeadBytes(m))
      BY <1>1, <1>2, <1>4, Zenon
    <3>4. At(s, 9, 12, m.version)
      BY <3>1, <3>2, <3>3, Within
    <3> QED
      BY <3>1, <3>3, <3>4, Piece, Zenon
  <2>4. Cuts(s, 13, 16, m.total_package_len)
    <3>1. 13 \in Nat \ {0} /\ 16 \in Nat /\ 20 \in Nat
      OBVIOUS
    <3>2. At(HeadBytes(m), 13, 16, m.total_package_len)
      BY HeadPieces, Zenon
    <3>3. s \in Seq(S) /\ HeadBytes(m) \in Seq(S) /\ m.total_package_len \in Seq(S) /\ At(s, 1, 20, HeadBytes(m))
      BY <1>1, <1>2, <1>4, Zenon
    <3>4. At(s, 13, 16, m.total_package_len)
      BY <3>1, <3>2, <3>3, Within
    <3> QED
      BY <3>1, <3>3, <3>4, Piece, Zenon
  <2>5. Cuts(s, 17, 18, m.seq)
    <3>1. 17 \in Nat \ {0} /\ 18 \in Nat /\ 20 \in Nat
      OBVIOUS
    <3>2. At(HeadBytes(m), 17, 18, m.seq)
      BY HeadPieces, Zenon
    <3>3. s \in Seq(S) /\ HeadBytes(m) \in Seq(S) /\ m.seq \in Seq(S) /\ At(s, 1, 20, HeadBytes(m))
      BY <1>1, <1>2, <1>4, Zenon
    <3>4. At(s, 17, 18, m.seq)
      BY <3>1, <3>2, <3>3, Within
    <3> QED
      BY <3>1, <3>3, <3>4, Piece, Zenon
  <2>6. Cuts(s, 19, 20, m.flag)
    <3>1. 19 \in Nat \ {0} /\ 20 \in Nat /\ 20 \in Nat
      OBVIOUS
    <3>2. At(HeadBytes(m), 19, 20, m.flag)
      BY HeadPieces, Zenon
    <3>3. s \in Seq(S) /\ HeadBytes(m) \in Seq(S) /\ m.flag \in Seq(S) /\ At(s, 1, 20, HeadBytes(m))
      BY <1>1, <1>2, <1>4, Zenon
    <3>4. At(s, 19, 20, m.flag)
      BY <3>1, <3>2, <3>3, Within
    <3> QED
      BY <3>1, <3>3, <3>4, Piece, Zenon
  <2> QED
    BY <2>1, <2>2, <2>3, <2>4, <2>5, <2>6
(* The payload, which is taken to the end of the string.                   *)
<1> DEFINE body == SubSeq(s, 21, n + 53)
<1>7. Substring(s, HeadSize, Len(s) - EndSize - 8) = body
  BY <1>2, <1>3 DEF Substring
<1>8. body \in Seq(S) /\ Len(body) = n + 33
  <2>1. \A i \in 21..n + 53 : s[i] \in S
    BY <1>2, <1>5
  <2> QED
    BY <1>2, <2>1, SubSeqProperties
<1>9. Cuts(body, 1, n, m.payload)
  <2>1. /\ 21 \in Nat \ {0} /\ n + 53 \in Nat /\ n + 20 \in Nat /\ n \in Nat
        /\ Starts(21, n + 53, n + 20, n, Len(s))
    BY <1>2, <1>3 DEF Starts
  <2>2. Cuts(s, 21, n + 20, m.payload)
    BY <1>1, <1>2, <1>4, <2>1, Piece, Zenon
  <2>3. Cuts(s, 21, n + 53, body)
    BY DEF Cuts
  <2> HIDE DEF body
  <2> QED
    BY <1>1, <2>1, <2>2, <2>3, PieceOfPiece
<1> HIDE DEF body
(* The checksum, with the end symbol and what was in the new message.      *)
<1> DEFINE found == SubSeq(s, n + 21, n + 53)
           tail == found \o Zeros(ChecksumSize)
           sum == Len(s) - ChecksumSize - EndSize
<1>10. Substring(s, sum, sum + ChecksumSize) = found
  <2>1. /\ sum + 1 = n + 21
        /\ (IF sum + (sum + ChecksumSize) < Len(s) THEN sum + (sum + ChecksumSize) ELSE Len(s)) = n + 53
    BY <1>2, <1>3
  <2> HIDE DEF sum
  <2> QED
    BY <2>1, Zenon DEF Substring
<1>11. found \in Seq(S) /\ Len(found) = 33
  <2>1. \A i \in n + 21..n + 53 : s[i] \in S
    BY <1>2, <1>5
  <2> QED
    BY <1>2, <2>1, SubSeqProperties
<1>12. PICK digest : digest = SubSeq(m.checksum, 1, 32)
  OBVIOUS
<1>13. Cuts(found, 1, 32, digest)
  <2>1. /\ n + 21 \in Nat \ {0} /\ n + 53 \in Nat /\ n + 52 \in Nat /\ 32 \in Nat
        /\ Starts(n + 21, n + 53, n + 52, 32, Len(s))
    BY <1>2, <1>3 DEF Starts
  <2>2. digest \in Seq(S)
    <3>1. Len(m.checksum) \in Nat /\ Len(m.checksum) >= 32
      BY <1>2, LenProperties DEF Shape
    <3>2. \A i \in 1..32 : m.checksum[i] \in S
      BY <1>2, <3>1, ElementOfSeq
    <3>3. SubSeq(m.checksum, 1, 32) \in Seq(S)
      BY <3>2, SubSeqProperties
    <3> QED
      BY <1>12, <3>3, Zenon
  <2>3. Cuts(s, n + 21, n + 52, digest)
    BY <1>1, <1>4, <1>12, <2>1, <2>2, Piece, Zenon
  <2>4. Cuts(s, n + 21, n + 53, found)
    BY DEF Cuts
  <2> HIDE DEF found
  <2> QED
    BY <1>1, <2>1, <2>3, <2>4, PieceOfPiece
<1> HIDE DEF found
<1>14. Zeros(ChecksumSize) \in Seq(S) /\ Len(Zeros(ChecksumSize)) = 32
  <2>1. 32 \in Nat
    OBVIOUS
  <2> QED
    BY <1>2, <2>1, ZerosType
<1>15. tail \in Seq(S) /\ Len(tail) = 65
  <2>1. tail \in Seq(S) /\ Len(tail) = Len(found) + Len(Zeros(ChecksumSize))
    BY <1>11, <1>14, ConcatProperties, ZenonT(60)
  <2> HIDE DEF tail
  <2>2. Len(tail) = 33 + 32
    BY <1>11, <1>14, <2>1, Zenon
  <2>3. 33 + 32 = 65
    OBVIOUS
  <2> QED
    BY <2>1, <2>2, <2>3, Zenon
<1>16. Cuts(tail, 1, 32, digest)
  <2>1. 32 \in Nat /\ 32 <= Len(found)
    BY <1>11
  <2> QED
    BY <1>11, <1>13, <1>14, <2>1, FrontOfJoined, Zenon
<1> DEFINE d == [preamble |-> m.preamble, len |-> m.len, version |-> m.version,
                 total_package_len |-> m.total_package_len, seq |-> m.seq, flag |-> m.flag,
                 payload |-> body, checksum |-> tail, end_sym |-> m.end_sym]
<1>17. decode(s) = d
  <2>1. decode(s) = Pieces(SubSeq(s, 1, 4), SubSeq(s, 5, 8), SubSeq(s, 9, 12), SubSeq(s, 13, 16),
                           SubSeq(s, 17, 18), SubSeq(s, 19, 20), s[Len(s)],
                           Substring(s, HeadSize, Len(s) - EndSize - 8),
                           Substring(s, sum, sum + ChecksumSize))
    BY Zenon DEF decode, Pieces
  <2>2. decode(s) = Pieces(m.preamble, m.len, m.version, m.total_package_len, m.seq, m.flag,
                           m.end_sym, body, found)
    BY <1>3, <1>6, <1>7, <1>10, <2>1, Zenon DEF Cuts
  <2>3. body \o <<>> = body
    BY <1>8, ConcatEmptySeq
  <2> DEFINE new == [NewMessage EXCEPT !.preamble = m.preamble, !.len = m.len,
                       !.version = m.version, !.total_package_len = m.total_package_len,
                       !.seq = m.seq, !.flag = m.flag, !.end_sym = m.end_sym]
             filled == [new EXCEPT !.payload = body]
  <2>4. decode(s) = set_checksum(set_payload(new, body), found)
    BY <2>2, Zenon DEF Pieces
  <2>5. new = [preamble |-> m.preamble, len |-> m.len, version |-> m.version,
               total_package_len |-> m.total_package_len, seq |-> m.seq, flag |-> m.flag,
               payload |-> <<>>, checksum |-> Zeros(ChecksumSize), end_sym |-> m.end_sym]
    <3>1. PICK preamble, len, version, seq, flag, end_sym :
            /\ preamble = <<90, 165, 0, 190>> /\ len = U32(0) /\ version = U32(1)
            /\ seq = <<255, 255>> /\ flag = <<0, 0>> /\ end_sym = 153
      BY Zenon
    <3>2. NewMessage = [preamble |-> preamble, len |-> len, version |-> version,
                total_package_len |-> len, seq |-> seq, flag |-> flag,
                payload |-> <<>>, checksum |-> Zeros(ChecksumSize), end_sym |-> end_sym]
      BY <3>1, Zenon DEF NewMessage
    <3>3. PICK fresh : fresh = [preamble |-> preamble, len |-> len, version |-> version,
                total_package_len |-> len, seq |-> seq, flag |-> flag,
                payload |-> <<>>, checksum |-> Zeros(ChecksumSize), end_sym |-> end_sym]
      BY Zenon
    <3>4. new = [fresh EXCEPT !.preamble = m.preamble, !.len = m.len,
                   !.version = m.version, !.total_package_len = m.total_package_len,
                   !.seq = m.seq, !.flag = m.flag, !.end_sym = m.end_sym]
      BY <3>2, <3>3, Zenon
    <3> HIDE DEF new
    <3> DEFINE fields == {"preamble", "len", "version", "total_package_len", "seq", "flag",
                          "payload", "checksum", "end_sym"}
    <3>5. new = [f \in fields |-> new[f]]
      BY <3>3, <3>4
    <3>6. /\ new.preamble = m.preamble /\ new.len = m.len /\ new.version = m.version
          /\ new.total_package_len = m.total_package_len /\ new.seq = m.seq
          /\ new.flag = m.flag /\ new.end_sym = m.end_sym
          /\ new.payload = <<>> /\ new.checksum = Zeros(ChecksumSize)
      BY <3>3, <3>4
    <3> QED
      BY <3>5, <3>6
  <2> HIDE DEF new
  <2>6. new.payload = <<>>
    BY <2>5
  <2>7. set_payload(new, body) = filled
    <3>1. set_payload(new, body) = [new EXCEPT !.payload = body \o new.payload]
      BY Zenon DEF set_payload
    <3>2. body \o new.payload = body
      BY <2>3, <2>6, Zenon
    <3> QED
      BY <3>1, <3>2, Zenon
  <2>8. filled = [preamble |-> m.preamble, len |-> m.len, version |-> m.version,
               total_package_len |-> m.total_package_len, seq |-> m.seq, flag |-> m.flag,
               payload |-> body, checksum |-> Zeros(ChecksumSize), end_sym |-> m.end_sym]
    BY <2>5
  <2> HIDE DEF filled
  <2>9. filled.checksum = Zeros(ChecksumSize)
    BY <2>8
  <2>10. set_checksum(filled, found) = [filled EXCEPT !.checksum = tail]
    <3>1. set_checksum(filled, found) = [filled EXCEPT !.checksum = found \o filled.checksum]
      BY Zenon DEF set_checksum
    <3> QED
      BY <2>9, <3>1, Zenon
  <2> HIDE DEF tail
  <2>11. [filled EXCEPT !.checksum = tail] = d
    BY <2>8
  <2> QED
    BY <2>4, <2>7, <2>10, <2>11, Zenon
<1> HIDE DEF tail
<1>18. Shape(d, S)
  <2>1. d \in Texts(S)
    BY <1>2, <1>3, <1>8, <1>15 DEF Texts
  <2>2. /\ Len(d.preamble) = 4 /\ Len(d.len) = 4 /\ Len(d.version) = 4
        /\ Len(d.total_package_len) = 4 /\ Len(d.seq) = 2 /\ Len(d.flag) = 2
    BY DEF Shape
  <2>3. Len(d.checksum) >= ChecksumSize
    <3>1. 65 >= ChecksumSize /\ d.checksum = tail
      OBVIOUS
    <3> HIDE DEF d
    <3> QED
      BY <1>15, <3>1, Zenon
  <2>4. 0..255 \subseteq S
    BY DEF Shape
  <2> HIDE DEF d
  <2> QED
    BY <2>1, <2>2, <2>3, <2>4, Zenon DEF Shape
<1>19. Reads(d, m)
  <2>1. SubSeq(d.payload, 1, Len(m.payload)) = m.payload
    BY <1>9, Zenon DEF Cuts, n
  <2>2. SubSeq(d.checksum, 1, ChecksumSize) = SubSeq(m.checksum, 1, ChecksumSize)
    BY <1>12, <1>16, Zenon DEF Cuts
  <2>3. \A f \in {"preamble", "len", "version", "total_package_len", "seq", "flag", "end_sym"} :
          d[f] = m[f]
    OBVIOUS
  <2> HIDE DEF d
  <2> QED
    BY <2>1, <2>2, <2>3, Zenon DEF Reads
<1>20. Len(d.payload) > Len(m.payload)
  BY <1>2, <1>8 DEF n
<1> HIDE DEF d
<1> QED
  BY <1>17, <1>18, <1>19, <1>20 DEF s

-----------------------------------------------------------------------------
(* The setters keep the sizes of the fields.                               *)

LEMMA Fields ==
    ASSUME NEW S, NEW m, Shape(m, S)
    PROVE  /\ \A w \in Seq(S) : Len(w) = 4 =>
                 /\ Shape([m EXCEPT !.preamble = w], S) /\ Shape([m EXCEPT !.len = w], S)
                 /\ Shape([m EXCEPT !.version = w], S)
                 /\ Shape([m EXCEPT !.total_package_len = w], S)
           /\ \A h \in Seq(S) : Len(h) = 2 =>
                 Shape([m EXCEPT !.seq = h], S) /\ Shape([m EXCEPT !.flag = h], S)
           /\ \A p \in Seq(S) : Shape([m EXCEPT !.payload = p], S)
           /\ \A c \in Seq(S) : Len(c) >= ChecksumSize => Shape([m EXCEPT !.checksum = c], S)
           /\ \A b \in S : Shape([m EXCEPT !.end_sym = b], S)
<1>1. ASSUME NEW w \in Seq(S), Len(w) = 4
      PROVE  /\ Shape([m EXCEPT !.preamble = w], S) /\ Shape([m EXCEPT !.len = w], S)
             /\ Shape([m EXCEPT !.version = w], S)
             /\ Shape([m EXCEPT !.total_package_len = w], S)
  BY <1>1 DEF Shape, Texts
<1>2. ASSUME NEW h \in Seq(S), Len(h) = 2
      PROVE  Shape([m EXCEPT !.seq = h], S) /\ Shape([m EXCEPT !.flag = h], S)
  BY <1>2 DEF Shape, Texts
<1>3. ASSUME NEW p \in Seq(S) PROVE Shape([m EXCEPT !.payload = p], S)
  BY DEF Shape, Texts
<1>4. ASSUME NEW c \in Seq(S), Len(c) >= ChecksumSize PROVE Shape([m EXCEPT !.checksum = c], S)
  BY <1>4 DEF Shape, Texts
<1>5. ASSUME NEW b \in S PROVE Shape([m EXCEPT !.end_sym = b], S)
  BY DEF Shape, Texts
<1> QED
  BY <1>1, <1>2, <1>3, <1>4, <1>5

LEMMA NewShape ==
    ASSUME NEW S, 0..255 \subseteq S, \A i \in 1..4 : U32(0)[i] \in S /\ U32(1)[i] \in S
    PROVE  Shape(NewMessage, S)
<1>1. PICK preamble, len, version, seq, flag, checksum, end_sym :
        /\ preamble = <<90, 165, 0, 190>> /\ len = U32(0) /\ version = U32(1)
        /\ seq = <<255, 255>> /\ flag = <<0, 0>> /\ checksum = Zeros(ChecksumSize) /\ end_sym = 153
  BY Zenon
<1>2. NewMessage = [preamble |-> preamble, len |-> len, version |-> version,
                    total_package_len |-> len, seq |-> seq, flag |-> flag,
                    payload |-> <<>>, checksum |-> checksum, end_sym |-> end_sym]
  BY <1>1, Zenon DEF NewMessage
<1>3. preamble \in Seq(S) /\ Len(preamble) = 4
  BY <1>1
<1>4. seq \in Seq(S) /\ Len(seq) = 2 /\ flag \in Seq(S) /\ Len(flag) = 2
  BY <1>1
<1>5. len \in Seq(S) /\ Len(len) = 4 /\ version \in Seq(S) /\ Len(version) = 4
  <2>1. ASSUME NEW w, w = [i \in 1..4 |-> w[i]], \A i \in 1..4 : w[i] \in S
        PROVE  w \in Seq(S) /\ Len(w) = 4
    BY <2>1
  <2>2. len = [i \in 1..4 |-> len[i]] /\ version = [i \in 1..4 |-> version[i]]
    BY <1>1, ZenonT(60) DEF U32
  <2> QED
    BY <1>1, <2>1, <2>2
<1>6. checksum \in Seq(S) /\ Len(checksum) = 32
  <2>1. 0 \in S /\ 32 \in Nat
    OBVIOUS
  <2> QED
    BY <1>1, <2>1, ZerosType DEF ChecksumSize
<1>7. end_sym \in S /\ <<>> \in Seq(S)
  BY <1>1
<1>8. NewMessage \in Texts(S)
  BY <1>2, <1>3, <1>4, <1>5, <1>6, <1>7 DEF Texts
<1>9. /\ Len(NewMessage.preamble) = 4 /\ Len(NewMessage.len) = 4 /\ Len(NewMessage.version) = 4
      /\ Len(NewMessage.total_package_len) = 4 /\ Len(NewMessage.seq) = 2
      /\ Len(NewMessage.flag) = 2 /\ Len(NewMessage.checksum) = 32
  BY <1>2, <1>3, <1>4, <1>5, <1>6
<1> QED
  BY <1>8, <1>9 DEF Shape, ChecksumSize

(* A message of numbers.                                                   *)
Sound(m) == Shape(m, Int)

LEMMA U32Bytes == ASSUME NEW n \in Nat, NEW i \in 1..4 PROVE U32(n)[i] \in Int
<1>1. PICK p \in Nat \ {0} : p = Power[8 * (i - 1)]
  <2>1. 8 * (i - 1) \in Nat
    OBVIOUS
  <2> QED
    BY <2>1, PowerPositive
<1>2. (n \div p) % 256 \in Int
  OBVIOUS
<1> QED
  BY <1>1, <1>2, Zenon DEF U32

LEMMA SoundNew == Sound(NewMessage)
<1>1. 0..255 \subseteq Int /\ 0 \in Nat /\ 1 \in Nat
  OBVIOUS
<1>2. \A i \in 1..4 : U32(0)[i] \in Int /\ U32(1)[i] \in Int
  BY <1>1, U32Bytes, Zenon
<1> QED
  BY <1>1, <1>2, NewShape, Zenon DEF Sound

(* What the client has to put into fields.                                 *)
LEMMA Inputs ==
    ASSUME NEW S, 0..255 \subseteq S
    PROVE  /\ \A w \in Words : w \in Seq(S) /\ Len(w) = 4 /\ \A i \in 1..2 : w[i] \in S
           /\ \A h \in Halves : h \in Seq(S) /\ Len(h) = 2 /\ h[1] \in S
           /\ \A b \in Bytes : b \in S /\ <<b>> \in Seq(S)
<1>1. PICK B : B = 0..255
  OBVIOUS
<1>2. Words \subseteq [1..4 -> B] /\ Halves \subseteq [1..2 -> B] /\ Bytes \subseteq B
  BY <1>1, CodecAssumption, Zenon
<1>3. B \subseteq S
  BY <1>1, Zenon
<1>4. ASSUME NEW w \in Words PROVE w \in Seq(S) /\ Len(w) = 4 /\ \A i \in 1..2 : w[i] \in S
  <2>1. w = [i \in 1..4 |-> w[i]] /\ \A i \in 1..4 : w[i] \in S
    BY <1>2, <1>3
  <2> QED
    BY <2>1
<1>5. ASSUME NEW h \in Halves PROVE h \in Seq(S) /\ Len(h) = 2 /\ h[1] \in S
  <2>1. h = [i \in 1..2 |-> h[i]] /\ \A i \in 1..2 : h[i] \in S
    BY <1>2, <1>3
  <2> QED
    BY <2>1
<1>6. ASSUME NEW b \in Bytes PROVE b \in S /\ <<b>> \in Seq(S)
  BY <1>2, <1>3
<1> QED
  BY <1>4, <1>5, <1>6

LEMMA SoundOf ==
    ASSUME NEW w \in Words, NEW p \in {<<>>} \cup {<<b>> : b \in Bytes}
    PROVE  Sound(MessageOf(w, w, p))
<1>1. Shape(NewMessage, Int)
  BY SoundNew DEF Sound
<1>2. 0..255 \subseteq Int
  BY <1>1 DEF Shape
<1>4. w \in Seq(Int) /\ Len(w) = 4 /\ \A i \in 1..2 : w[i] \in Int
  BY <1>2, Inputs, Zenon
<1>5. SubSeq(w, 1, 2) \in Seq(Int) /\ Len(SubSeq(w, 1, 2)) = 2
  BY <1>4, SubSeqProperties
<1>6. p \in Seq(Int)
  <2>1. CASE p = <<>>
    BY <2>1, EmptySeq, Zenon
  <2>2. ASSUME NEW b \in Bytes, p = <<b>> PROVE p \in Seq(Int)
    BY <1>2, <2>2, Inputs, Zenon
  <2> QED
    BY <2>1, <2>2, Zenon
<1>7. PICK h : h = SubSeq(w, 1, 2)
  OBVIOUS
<1>8. MessageOf(w, w, p) = [[[NewMessage EXCEPT !.len = w] EXCEPT !.seq = h] EXCEPT !.payload = p]
  BY <1>7, Zenon DEF MessageOf
<1>9. h \in Seq(Int) /\ Len(h) = 2
  BY <1>5, <1>7, Zenon
<1>10. PICK m1 : m1 = [NewMessage EXCEPT !.len = w]
  OBVIOUS
<1>11. Shape(m1, Int)
  BY <1>1, <1>4, <1>10, Fields, Zenon
<1>12. PICK m2 : m2 = [m1 EXCEPT !.seq = h]
  OBVIOUS
<1>13. Shape(m2, Int)
  BY <1>9, <1>11, <1>12, Fields, Zenon
<1>14. Shape([m2 EXCEPT !.payload = p], Int)
  BY <1>6, <1>13, Fields, Zenon
<1> QED
  BY <1>8, <1>10, <1>12, <1>14, Zenon DEF Sound

LEMMA SoundField ==
    ASSUME NEW m, Sound(m)
    PROVE  /\ \A w \in Words : \A f \in {"preamble", "len", "version", "total_package_len"} :
                 Sound([m EXCEPT ![f] = w])
           /\ \A h \in Halves : \A f \in {"seq", "flag"} : Sound([m EXCEPT ![f] = h])
           /\ \A h \in Halves : Sound([m EXCEPT !.end_sym = h[1]])
<1>1. Shape(m, Int)
  BY DEF Sound
<1>2. 0..255 \subseteq Int
  BY <1>1 DEF Shape
<1>3. ASSUME NEW w \in Words, NEW f \in {"preamble", "len", "version", "total_package_len"}
      PROVE  Sound([m EXCEPT ![f] = w])
  <2>2. w \in Seq(Int) /\ Len(w) = 4
    BY <1>2, Inputs, Zenon
  <2>3. /\ Shape([m EXCEPT !.preamble = w], Int) /\ Shape([m EXCEPT !.len = w], Int)
        /\ Shape([m EXCEPT !.version = w], Int) /\ Shape([m EXCEPT !.total_package_len = w], Int)
    BY <1>1, <2>2, Fields, Zenon
  <2> QED
    BY <2>3, Zenon DEF Sound
<1>4. ASSUME NEW h \in Halves
      PROVE  /\ Sound([m EXCEPT !["seq"] = h]) /\ Sound([m EXCEPT !["flag"] = h])
             /\ Sound([m EXCEPT !.end_sym = h[1]])
  <2>2. h \in Seq(Int) /\ Len(h) = 2 /\ h[1] \in Int
    BY <1>2, Inputs, Zenon
  <2>3. Shape([m EXCEPT !.seq = h], Int) /\ Shape([m EXCEPT !.flag = h], Int)
        /\ Shape([m EXCEPT !.end_sym = h[1]], Int)
    BY <1>1, <2>2, Fields, Zenon
  <2> QED
    BY <2>3, Zenon DEF Sound
<1>5. ASSUME NEW h \in Halves, NEW f \in {"seq", "flag"} PROVE Sound([m EXCEPT ![f] = h])
  BY <1>4, Zenon
<1> QED
  BY <1>3, <1>4, <1>5, Zenon

LEMMA SoundPayload ==
    ASSUME NEW m, Sound(m), NEW b \in Bytes
    PROVE  /\ Sound(set_payload(m, <<b>>)) /\ Sound(set_payload_char(m, b))
           /\ Sound(set_cmd(m, b)) /\ Sound(set_real_payload(m, <<b>>))
<1>1. Shape(m, Int)
  BY DEF Sound
<1>2. 0..255 \subseteq Int /\ m.payload \in Seq(Int)
  BY <1>1 DEF Shape, Texts
<1>3. b \in Int /\ <<b>> \in Seq(Int)
  BY <1>2, Inputs, Zenon
<1>4. <<b>> \o m.payload \in Seq(Int) /\ Append(m.payload, b) \in Seq(Int)
  BY <1>2, <1>3, ConcatProperties, AppendProperties
<1>5. PICK n \in Nat : n = Len(m.payload)
  BY <1>2, LenProperties
<1> DEFINE real == [i \in 1..Len(m.payload) + Len(<<b>>) |->
                       IF i \in 2..1 + Len(<<b>>) THEN <<b>>[i - 1]
                       ELSE IF i <= Len(m.payload) THEN m.payload[i] ELSE 0]
<1>6. real \in Seq(Int)
  <2>1. real = [i \in 1..n + 1 |-> IF i = 2 THEN b ELSE IF i <= n THEN m.payload[i] ELSE 0]
    BY <1>5
  <2>2. \A i \in 1..n : m.payload[i] \in Int
    BY <1>2, <1>5, ElementOfSeq
  <2>3. 0 \in Int
    BY <1>2
  <2> HIDE DEF real
  <2> QED
    BY <1>3, <2>1, <2>2, <2>3
<1>7. set_real_payload(m, <<b>>) = [m EXCEPT !.payload = real]
  BY Zenon DEF set_real_payload
<1> HIDE DEF real
<1>8. /\ set_payload(m, <<b>>) = [m EXCEPT !.payload = <<b>> \o m.payload]
      /\ set_payload_char(m, b) = [m EXCEPT !.payload = Append(m.payload, b)]
      /\ set_cmd(m, b) = [m EXCEPT !.payload = <<b>>]
  BY Zenon DEF set_payload, set_payload_char, set_cmd
<1>9. \A p \in Seq(Int) : Shape([m EXCEPT !.payload = p], Int)
  BY <1>1, Fields, Zenon
<1> QED
  BY <1>3, <1>4, <1>6, <1>7, <1>8, <1>9, Zenon DEF Sound

(* What toStr returns of a digest are 32 numbers.                          *)
LEMMA Digest ==
    ASSUME NEW s \in Seq(Int)
    PROVE  toStr(MD5(s)) \in Seq(Int) /\ Len(toStr(MD5(s))) = 32
<1>1. PICK p \in Seq(Int) : p = Padded(s)
  BY PaddedIs, Zenon
<1>a. PICK g : Path(g, InitialState, p)
  <2>1. InitialState \in Int
    BY DEF InitialState
  <2> QED
    BY <2>1, PathExists, Zenon
<1>2. PICK state \in Int : state = transform(InitialState, p)
  <2>1. transform(InitialState, p) = g[Len(p)]
    BY <1>a, PathEnd, Zenon
  <2>2. Len(p) \in 0..Len(p)
    OBVIOUS
  <2>3. g[Len(p)] \in Int
    BY <1>a, <2>2, Zenon DEF Path
  <2> QED
    BY <2>1, <2>3, Zenon
<1>3. PICK digest : digest = getDigest(MD5(s)).digest /\ digest = DigestOf(state)
  BY <1>1, <1>2, DigestIs, Zenon DEF ReferenceDigest
<1>4. ASSUME NEW i \in 1..16 PROVE digest[i] \in 0..255
  BY <1>3 DEF DigestOf
<1>5. ASSUME NEW t \in 0..15 PROVE HEX_NUMBERS[t] \in Int
  BY DEF HEX_NUMBERS
<1>6. PICK c : c = toStr(MD5(s))
  OBVIOUS
<1>7. c = [i \in 1..32 |-> HEX_NUMBERS[IF i % 2 = 1 THEN digest[(i + 1) \div 2] \div 16
                                                   ELSE digest[i \div 2] % 16]]
  BY <1>3, <1>6, Zenon DEF toStr
<1>8. ASSUME NEW i \in 1..32
      PROVE  (IF i % 2 = 1 THEN digest[(i + 1) \div 2] \div 16 ELSE digest[i \div 2] % 16) \in 0..15
  <2>1. CASE i % 2 = 1
    <3>1. PICK k \in 1..16 : k = (i + 1) \div 2
      BY <2>1
    <3>2. digest[k] \div 16 \in 0..15
      <4>1. PICK x \in 0..255 : x = digest[k]
        BY <1>4, Zenon
      <4>2. x \div 16 \in 0..15
        OBVIOUS
      <4> QED
        BY <4>1, <4>2, Zenon
    <3> QED
      BY <2>1, <3>1, <3>2
  <2>2. CASE i % 2 # 1
    <3>1. PICK k \in 1..16 : k = i \div 2
      BY <2>2
    <3>2. digest[k] % 16 \in 0..15
      <4>1. PICK x \in 0..255 : x = digest[k]
        BY <1>4, Zenon
      <4>2. x % 16 \in 0..15
        OBVIOUS
      <4> QED
        BY <4>1, <4>2, Zenon
    <3> QED
      BY <2>2, <3>1, <3>2
  <2> QED
    BY <2>1, <2>2
<1>9. \A i \in 1..32 : c[i] \in Int
  BY <1>5, <1>7, <1>8, Zenon
<1>10. c = [i \in 1..32 |-> c[i]]
  BY <1>7, Zenon
<1>11. c \in Seq(Int) /\ Len(c) = 32
  BY <1>9, <1>10
<1> QED
  BY <1>6, <1>11, Zenon

(* What is digested are numbers.                                           *)
LEMMA StringOfNumbers ==
    ASSUME NEW m, Sound(m)
    PROVE  get_Message_string(m) \in Seq(Int)
<1>1. PICK payload \in Seq(Int), n \in Nat : payload = m.payload /\ n = Len(payload)
  <2>1. m.payload \in Seq(Int)
    BY DEF Sound, Shape, Texts
  <2> QED
    BY <2>1, LenProperties
<1>2. PICK size \in Nat : size = get_Message_size(m) /\ size = 20 + n
  BY <1>1 DEF get_Message_size, HeadSize
<1>3. PICK zeros \in Seq(Int) : zeros = Zeros(size) /\ Len(zeros) = size
  <2>1. 0 \in Int
    OBVIOUS
  <2> QED
    BY <2>1, ZerosType, Zenon
<1>4. PICK head \in Seq(Int) : head = HeadBytes(m) /\ Len(head) = 20
  BY HeadPieces, Zenon DEF Sound, HeadSize
<1>5. PICK t \in Seq(Int) : t = PutHead(zeros, m) /\ Len(t) = size
  <2>1. 0 \in Nat /\ 0 + Len(head) <= Len(zeros)
    BY <1>2, <1>3, <1>4
  <2>2. Put(zeros, 0, head) \in Seq(Int) /\ Len(Put(zeros, 0, head)) = size
    BY <1>3, <2>1, PutBytes, Zenon DEF Holds
  <2>3. PutHead(zeros, m) = Put(zeros, 0, head)
    BY <1>4, Zenon DEF PutHead, HeadBytes
  <2> QED
    BY <2>2, <2>3, Zenon
<1>6. PICK front \in Seq(Int), back \in Seq(Int) :
        front = SubSeq(t, 1, 20) /\ back = SubSeq(t, 21, size)
  <2>1. \A i \in 1..size : t[i] \in Int
    BY <1>5, ElementOfSeq
  <2>0. (\A i \in 1..20 : i \in 1..size) /\ (\A i \in 21..size : i \in 1..size)
    BY <1>2
  <2>2. (\A i \in 1..20 : t[i] \in Int) /\ (\A i \in 21..size : t[i] \in Int)
    BY <2>1, <2>0, Zenon
  <2>3. SubSeq(t, 1, 20) \in Seq(Int) /\ SubSeq(t, 21, size) \in Seq(Int)
    BY <2>2, SubSeqProperties
  <2> QED
    BY <2>3, Zenon
<1>7. get_Message_string(m) = (front \o payload) \o back
  <2>1. HeadSize = 20 /\ HeadSize + 1 = 21
    BY DEF HeadSize
  <2> QED
    BY <1>1, <1>2, <1>3, <1>5, <1>6, <2>1, Zenon DEF get_Message_string
<1>8. (front \o payload) \o back \in Seq(Int)
  BY ConcatProperties, Zenon
<1> QED
  BY <1>7, <1>8, Zenon

LEMMA Digested ==
    ASSUME NEW m, Sound(m), NEW s \in Seq(Int)
    PROVE  /\ Sound(set_checksum(m, toStr(MD5(s))))
           /\ SubSeq(set_checksum(m, toStr(MD5(s))).checksum, 1, ChecksumSize) = toStr(MD5(s))
<1>1. Shape(m, Int)
  BY DEF Sound
<1>2. PICK t \in Seq(Int) : t = toStr(MD5(s)) /\ Len(t) = 32
  BY Digest, Zenon
<1>3. m.checksum \in Seq(Int) /\ Len(m.checksum) \in Nat /\ Len(m.checksum) >= 32
  BY <1>1, LenProperties DEF Shape, Texts, ChecksumSize
<1>4. PICK c : c = t \o m.checksum
  OBVIOUS
<1>5. c \in Seq(Int) /\ Len(c) = Len(t) + Len(m.checksum)
  BY <1>3, <1>4, ConcatProperties, Zenon
<1>6. Len(c) >= ChecksumSize
  BY <1>2, <1>3, <1>5 DEF ChecksumSize
<1>7. set_checksum(m, t) = [m EXCEPT !.checksum = c]
  BY <1>4, Zenon DEF set_checksum
<1>8. Sound(set_checksum(m, t))
  <2>1. Shape([m EXCEPT !.checksum = c], Int)
    BY <1>1, <1>5, <1>6, Fields
  <2> QED
    BY <1>7, <2>1, Zenon DEF Sound
<1>9. Cuts(t, 1, 32, t)
  <2>1. At(t, 1, 32, t)
    BY <1>2 DEF At
  <2>2. 1 \in Nat \ {0} /\ 32 \in Nat
    OBVIOUS
  <2> QED
    BY <2>1, <2>2, Piece, Zenon
<1>10. Cuts(c, 1, 32, t)
  <2>1. 32 \in Nat /\ 32 <= Len(t)
    BY <1>2
  <2> QED
    BY <1>3, <1>4, <1>9, <2>1, FrontOfJoined, Zenon
<1>11. set_checksum(m, t).checksum = c
  BY <1>1, <1>7 DEF Shape, Texts
<1> QED
  BY <1>2, <1>8, <1>10, <1>11, Zenon DEF Cuts, ChecksumSize

-----------------------------------------------------------------------------
(* The replies.                                                            *)

(* The string that is digested does not have the checksum in it.           *)
LEMMA StringWithoutChecksum ==
    ASSUME NEW S, NEW m, Shape(m, S), NEW t
    PROVE  get_Message_string(set_checksum(m, t)) = get_Message_string(m)
<1>1. PICK r : r = set_checksum(m, t)
  OBVIOUS
<1>2. PICK c : r = [m EXCEPT !.checksum = c]
  BY <1>1, Zenon DEF set_checksum
<1>3. /\ r.preamble = m.preamble /\ r.len = m.len /\ r.version = m.version
      /\ r.total_package_len = m.total_package_len /\ r.seq = m.seq /\ r.flag = m.flag
      /\ r.payload = m.payload
  BY <1>2 DEF Shape, Texts
<1>4. get_Message_size(r) = get_Message_size(m)
  BY <1>3, Zenon DEF get_Message_size
<1>5. PutHead(Zeros(get_Message_size(m)), r) = PutHead(Zeros(get_Message_size(m)), m)
  BY <1>3, Zenon DEF PutHead
<1>6. get_Message_string(r) = get_Message_string(m)
  BY <1>3, <1>4, <1>5, Zenon DEF get_Message_string
<1> QED
  BY <1>1, <1>6, Zenon

Answers(r, lhs, cmd, rtcode) ==
    /\ Sound(r)
    /\ r.len = U32(55) /\ r.seq = lhs.seq /\ r.total_package_len = lhs.total_package_len
    /\ r.payload = <<cmd, rtcode>>
    /\ SubSeq(r.checksum, 1, ChecksumSize) = toStr(MD5(get_Message_string(r)))

LEMMA NewPayload == NewMessage.payload = <<>>
<1>1. PICK preamble, zero, version, seq, flag, checksum, end_sym :
        /\ preamble = <<90, 165, 0, 190>> /\ zero = U32(0) /\ version = U32(1)
        /\ seq = <<255, 255>> /\ flag = <<0, 0>> /\ checksum = Zeros(ChecksumSize)
        /\ end_sym = 153
  BY Zenon
<1>2. NewMessage = [preamble |-> preamble, len |-> zero, version |-> version,
                    total_package_len |-> zero, seq |-> seq, flag |-> flag,
                    payload |-> <<>>, checksum |-> checksum, end_sym |-> end_sym]
  BY <1>1, Zenon DEF NewMessage
<1> QED
  BY <1>2

LEMMA Appends ==
    ASSUME NEW a, NEW b
    PROVE  Append(<<>>, a) = <<a>> /\ Append(<<a>>, b) = <<a, b>>
<1>1. Append(<<>>, a) = <<a>>
  OBVIOUS
<1>2. PICK S : a \in S /\ b \in S
  <2>1. a \in {a, b} /\ b \in {a, b}
    OBVIOUS
  <2> QED
    BY <2>1, Zenon
<1>3. <<a>> \in Seq(S) /\ Len(<<a>>) = 1 /\ <<a>>[1] = a
  BY <1>2
<1>4. <<a, b>> \in Seq(S) /\ Len(<<a, b>>) = 2 /\ <<a, b>>[1] = a /\ <<a, b>>[2] = b
  BY <1>2
<1>5. PICK s : s = Append(<<a>>, b)
  OBVIOUS
<1>6. s \in Seq(S) /\ Len(s) = 2 /\ s[1] = a /\ s[2] = b
  <2>1. PICK p \in Seq(S) : p = <<a>> /\ Len(p) = 1 /\ p[1] = a
    BY <1>3
  <2>2. s = Append(p, b)
    BY <1>5, <2>1, Zenon
  <2>3. /\ s \in Seq(S) /\ Len(s) = Len(p) + 1 /\ s[Len(p) + 1] = b
        /\ \A i \in 1..Len(p) : s[i] = p[i]
    BY <1>2, <2>1, <2>2, AppendProperties
  <2> QED
    BY <2>1, <2>3
<1>7. PICK t : t = <<a, b>>
  OBVIOUS
<1>8. t \in Seq(S) /\ Len(t) = 2 /\ t[1] = a /\ t[2] = b
  BY <1>4, <1>7, Zenon
<1>9. \A i \in 1..2 : s[i] = t[i]
  BY <1>6, <1>8
<1>10. s = t
  BY <1>6, <1>8, <1>9, SeqEqual
<1> QED
  BY <1>1, <1>5, <1>7, <1>10, Zenon

LEMMA Pair ==
    ASSUME NEW a, NEW b
    PROVE  Len(<<a, b>>) = 2 /\ <<a, b>>[2] = b
  OBVIOUS

LEMMA Reply ==
    ASSUME NEW lhs, Sound(lhs), NEW cmd \in 0..255, NEW rtcode \in 0..255
    PROVE  Answers(simple_cmd_reply(lhs, cmd, rtcode), lhs, cmd, rtcode)
<1>3. PICK len : len = U32(55)
  OBVIOUS
<1>5. len \in Seq(Int) /\ Len(len) = 4
  <2>1. len = [i \in 1..4 |-> len[i]]
    BY <1>3, Zenon DEF U32
  <2>2. \A i \in 1..4 : len[i] \in Int
    <3>1. 55 \in Nat
      OBVIOUS
    <3> QED
      BY <1>3, <3>1, U32Bytes, Zenon
  <2> QED
    BY <2>1, <2>2
<1>7. Shape(lhs, Int) /\ Shape(NewMessage, Int)
  BY SoundNew, Zenon DEF Sound
<1>8. /\ lhs.total_package_len \in Seq(Int) /\ Len(lhs.total_package_len) = 4
      /\ lhs.seq \in Seq(Int) /\ Len(lhs.seq) = 2
  BY <1>7 DEF Shape, Texts
<1>9. 0..255 \subseteq Int
  BY <1>7, Zenon DEF Shape
<1>10. cmd \in Int /\ rtcode \in Int
  BY <1>9, Zenon
(* The message before its checksum.                                        *)
<1>11. PICK m1 : m1 = [NewMessage EXCEPT !.len = len]
  OBVIOUS
<1>12. PICK m2 : m2 = [m1 EXCEPT !.total_package_len = lhs.total_package_len]
  OBVIOUS
<1>13. PICK m3 : m3 = [m2 EXCEPT !.seq = lhs.seq]
  OBVIOUS
<1>14. Shape(m1, Int)
  BY <1>5, <1>7, <1>11, Fields, Zenon
<1>15. Shape(m2, Int)
  BY <1>8, <1>12, <1>14, Fields, Zenon
<1>16. Shape(m3, Int)
  BY <1>8, <1>13, <1>15, Fields, Zenon
<1>17. /\ m3.len = len /\ m3.total_package_len = lhs.total_package_len /\ m3.seq = lhs.seq
       /\ m3.payload = <<>>
  <2>1. NewMessage.payload = <<>>
    BY NewPayload
  <2>2. m1.len = len /\ m1.payload = <<>>
    BY <1>7, <1>11, <2>1 DEF Shape, Texts
  <2>3. m2.len = len /\ m2.payload = <<>> /\ m2.total_package_len = lhs.total_package_len
    BY <1>12, <1>14, <2>2 DEF Shape, Texts
  <2> QED
    BY <1>13, <1>15, <2>3 DEF Shape, Texts
<1> DEFINE codes == set_payload(set_payload_char(set_payload_char(m3, cmd), rtcode), <<>>)
<1>18. codes = [m3 EXCEPT !.payload = <<cmd, rtcode>>]
  <2>1. PICK m4 : m4 = [m3 EXCEPT !.payload = Append(m3.payload, cmd)]
    OBVIOUS
  <2>2. PICK m5 : m5 = [m4 EXCEPT !.payload = Append(m4.payload, rtcode)]
    OBVIOUS
  <2>3. codes = [m5 EXCEPT !.payload = <<>> \o m5.payload]
    BY <2>1, <2>2, Zenon DEF set_payload, set_payload_char
  <2>4. Append(<<>>, cmd) = <<cmd>> /\ Append(<<cmd>>, rtcode) = <<cmd, rtcode>>
    BY Appends, Zenon
  <2>5. <<>> \o <<cmd, rtcode>> = <<cmd, rtcode>>
    <3>1. <<cmd, rtcode>> \in Seq(Int)
      BY <1>10
    <3> QED
      BY <3>1, ConcatEmptySeq, Zenon
  <2>6. m4.payload = <<cmd>>
    <3>1. m4 = [m3 EXCEPT !.payload = <<cmd>>]
      BY <1>17, <2>1, <2>4, Zenon
    <3> QED
      BY <1>16, <3>1 DEF Shape, Texts
  <2>7. m5 = [m4 EXCEPT !.payload = <<cmd, rtcode>>]
    BY <2>2, <2>4, <2>6, Zenon
  <2>8. PICK p : p = <<cmd, rtcode>>
    OBVIOUS
  <2>9. PICK q : q = Append(m3.payload, cmd)
    OBVIOUS
  <2>10. m4 = [m3 EXCEPT !.payload = q] /\ m5 = [m4 EXCEPT !.payload = p]
    BY <2>1, <2>7, <2>8, <2>9, Zenon
  <2>11. m5 = [m3 EXCEPT !.payload = p] /\ m5.payload = p /\ [m5 EXCEPT !.payload = p] = m5
    BY <1>16, <2>10 DEF Shape, Texts
  <2> QED
    BY <2>3, <2>5, <2>8, <2>11, Zenon
<1> HIDE DEF codes
<1>19. PICK p : p = <<cmd, rtcode>> /\ p \in Seq(Int)
  <2>1. <<cmd, rtcode>> \in Seq(Int)
    BY <1>10
  <2> QED
    BY <2>1, Zenon
<1>20. Shape(codes, Int)
  BY <1>16, <1>18, <1>19, Fields, Zenon
<1>21. /\ codes.len = len /\ codes.total_package_len = lhs.total_package_len
       /\ codes.seq = lhs.seq /\ codes.payload = p
  <2>1. codes = [m3 EXCEPT !.payload = p]
    BY <1>18, <1>19, Zenon
  <2> QED
    BY <1>16, <1>17, <2>1 DEF Shape, Texts
(* Its length and its checksum.                                            *)
<1>22. HeadSize + 1 + 1 + Len(<<>>) + ChecksumSize + EndSize = 55
  BY DEF HeadSize, ChecksumSize, EndSize
<1>23. PICK string \in Seq(Int) : string = get_Message_string(codes)
  BY <1>20, StringOfNumbers, Zenon DEF Sound
<1>24. simple_cmd_reply(lhs, cmd, rtcode) = set_checksum(codes, toStr(MD5(string)))
  BY <1>3, <1>11, <1>12, <1>13, <1>22, <1>23, Zenon
     DEF simple_cmd_reply, simple_cmd_reply_data, codes
<1>25. PICK r : r = set_checksum(codes, toStr(MD5(string)))
  OBVIOUS
<1>26. Sound(r) /\ SubSeq(r.checksum, 1, ChecksumSize) = toStr(MD5(string))
  BY <1>20, <1>25, Digested, Zenon DEF Sound
<1>27. get_Message_string(r) = get_Message_string(codes)
  BY <1>20, <1>25, StringWithoutChecksum, Zenon
<1>28. /\ r.len = len /\ r.total_package_len = lhs.total_package_len
       /\ r.seq = lhs.seq /\ r.payload = p
  <2>1. PICK c : r = [codes EXCEPT !.checksum = c]
    BY <1>25, Zenon DEF set_checksum
  <2> QED
    BY <1>20, <1>21, <2>1 DEF Shape, Texts
<1>29. Answers(r, lhs, cmd, rtcode)
  BY <1>3, <1>19, <1>23, <1>26, <1>27, <1>28, Zenon DEF Answers
<1> QED
  BY <1>24, <1>25, <1>29, Zenon

(* A command gets a reply with its code, whatever else nothing.            *)
LEMMA Replies ==
    ASSUME NEW lhs, NEW reply \in cmd_process(lhs)
    PROVE  \/ get_cmd(lhs) \notin Commands /\ reply = NewMessage
           \/ /\ get_cmd(lhs) \in Commands
              /\ \E rtcode \in {NONE, NORM} : reply = simple_cmd_reply(lhs, get_cmd(lhs), rtcode)
<1>1. PICK cmd : cmd = get_cmd(lhs)
  OBVIOUS
<1>2. PICK all : all = cmd_process(lhs)
  OBVIOUS
<1>3. cmd_status_reply(lhs) = {simple_cmd_reply(lhs, PL_STATUS, NONE)}
  BY Zenon DEF cmd_status_reply, simple_cmd_reply
<1>4. cmd_config_reply(lhs) = {simple_cmd_reply(lhs, CONFIG, NONE), simple_cmd_reply(lhs, CONFIG, NORM)}
  BY Zenon DEF cmd_config_reply
<1>5. all = CASE cmd = 1 -> {simple_cmd_reply(lhs, 1, NONE)}
             [] cmd = 2 -> {simple_cmd_reply(lhs, 2, NONE)}
             [] cmd = 3 -> {simple_cmd_reply(lhs, 3, NONE)}
             [] cmd = 4 -> {}
             [] cmd = 5 -> {simple_cmd_reply(lhs, 5, NONE)}
             [] cmd = 6 -> {simple_cmd_reply(lhs, 6, NONE), simple_cmd_reply(lhs, 6, NORM)}
             [] cmd = 7 -> {simple_cmd_reply(lhs, 7, NONE)}
             [] OTHER -> {NewMessage}
  BY <1>1, <1>2, <1>3, <1>4 DEF cmd_process, cmd_begin_reply, cmd_tx_data_reply, cmd_calc_reply,
     cmd_test_reg_reply, BEGIN, TX_DATA, START_CAL, GET_DATA, PL_STATUS, CONFIG, TEST_REG
<1>6. Commands = 1..7
  BY DEF Commands, BEGIN, TEST_REG
<1>7. CASE cmd \in 1..7
  <2>1. \E rtcode \in {NONE, NORM} : reply = simple_cmd_reply(lhs, cmd, rtcode)
    BY <1>2, <1>5, <1>7
  <2> QED
    BY <1>1, <1>6, <1>7, <2>1, Zenon
<1>8. CASE cmd \notin 1..7
  <2>1. reply = NewMessage
    BY <1>2, <1>5, <1>8
  <2> QED
    BY <1>1, <1>6, <1>8, <2>1, Zenon
<1> QED
  BY <1>7, <1>8

-----------------------------------------------------------------------------
(* The inductive invariant: what is at hand at every stage, made by encode, *)
(* decode and cmd_process from what the client encoded.                    *)

Decoded == decode(encode(request))

CodecInv ==
    /\ stage \in {"build", "request", "decoded", "process", "crashed", "reply", "done"}
    /\ stage = "build" => Sound(message)
    /\ stage # "build" => Sound(request)
    /\ stage = "request" => wire = encode(request)
    /\ stage = "decoded" => message = Decoded
    /\ stage \in {"process", "reply"} => message \in cmd_process(Decoded)
    /\ stage = "reply" => wire = encode(message)
    /\ stage = "done" => \E reply \in cmd_process(Decoded) : message = decode(encode(reply))

LEMMA InvInit == Init => CodecInv
<1> SUFFICES ASSUME Init PROVE CodecInv
  OBVIOUS
<1>1. Sound(message)
  <2>1. CASE message = NewMessage
    BY <2>1, SoundNew, Zenon
  <2>2. ASSUME NEW w \in Words, NEW p \in {<<>>} \cup {<<b>> : b \in Bytes},
               message = MessageOf(w, w, p)
        PROVE  Sound(message)
    BY <2>2, SoundOf, Zenon
  <2>3. \/ message = NewMessage
        \/ \E w \in Words, p \in {<<>>} \cup {<<b>> : b \in Bytes} : message = MessageOf(w, w, p)
    BY DEF Init
  <2> QED
    BY <2>1, <2>2, <2>3, Zenon
<1>2. stage = "build"
  BY DEF Init
<1> QED
  BY <1>1, <1>2 DEF CodecInv

LEMMA InvStep == CodecInv /\ [Next]_vars => CodecInv'
<1> SUFFICES ASSUME CodecInv, [Next]_vars PROVE CodecInv'
  OBVIOUS
<1>1. CASE SetField
  <2>1. Sound(message) /\ stage = "build" /\ stage' = "build"
    BY <1>1 DEF SetField, CodecInv
  <2>2. Sound(message')
    <3>1. ASSUME NEW w \in Words, NEW f \in {"preamble", "len", "version", "total_package_len"},
                 message' = [message EXCEPT ![f] = w]
          PROVE  Sound(message')
      BY <2>1, <3>1, SoundField, Zenon
    <3>2. ASSUME NEW h \in Halves, NEW f \in {"seq", "flag"}, message' = [message EXCEPT ![f] = h]
          PROVE  Sound(message')
      BY <2>1, <3>2, SoundField, Zenon
    <3>3. ASSUME NEW h \in Halves, message' = [message EXCEPT !.end_sym = h[1]]
          PROVE  Sound(message')
      BY <2>1, <3>3, SoundField, Zenon
    <3> QED
      BY <1>1, <3>1, <3>2, <3>3, Zenon DEF SetField
  <2> QED
    BY <2>1, <2>2 DEF CodecInv
<1>2. CASE SetPayload
  <2>1. Sound(message) /\ stage = "build" /\ stage' = "build"
    BY <1>2 DEF SetPayload, CodecInv
  <2>2. PICK b \in Bytes :
          message' \in {set_payload(message, <<b>>), set_payload_char(message, b), set_cmd(message, b),
                        set_real_payload(message, <<b>>)}
    BY <1>2, Zenon DEF SetPayload
  <2>3. Sound(message')
    BY <2>1, <2>2, SoundPayload, Zenon
  <2> QED
    BY <2>1, <2>3 DEF CodecInv
<1>3. CASE EncodeRequest
  <2>1. Sound(message) /\ stage' = "request" /\ wire' = encode(message') /\ request' = message'
    BY <1>3 DEF EncodeRequest, CodecInv
  <2>2. Sound(message')
    <3>1. get_Message_string(message) \in Seq(Int)
      BY <2>1, StringOfNumbers, Zenon
    <3>2. Sound(set_checksum(message, toStr(MD5(get_Message_string(message)))))
      BY <2>1, <3>1, Digested, Zenon
    <3> QED
      BY <1>3, <2>1, <3>2, Zenon DEF EncodeRequest
  <2>3. Sound(request') /\ wire' = encode(request')
    BY <2>1, <2>2, Zenon
  <2> QED
    BY <2>1, <2>3 DEF CodecInv
<1>4. CASE DecodeRequest
  <2>1. stage' = "decoded" /\ message' = Decoded /\ Sound(request) /\ UNCHANGED request
    BY <1>4 DEF DecodeRequest, CodecInv, Decoded
  <2> QED
    BY <2>1 DEF CodecInv, Decoded
<1>5. CASE Process
  <2>1. stage' = "process" /\ message' \in cmd_process(Decoded) /\ Sound(request) /\ UNCHANGED request
    BY <1>5 DEF Process, CodecInv
  <2> QED
    BY <2>1 DEF CodecInv, Decoded
<1>6. CASE Crash
  BY <1>6 DEF Crash, CodecInv
<1>7. CASE EncodeReply
  <2>1. /\ stage' = "reply" /\ message \in cmd_process(Decoded) /\ Sound(request)
        /\ UNCHANGED <<message, request>> /\ wire' = encode(message)
    BY <1>7 DEF EncodeReply, CodecInv
  <2> QED
    BY <2>1 DEF CodecInv, Decoded
<1>8. CASE DecodeReply
  <2>1. /\ stage' = "done" /\ message \in cmd_process(Decoded) /\ Sound(request)
        /\ message' = decode(encode(message)) /\ UNCHANGED request
    BY <1>8 DEF DecodeReply, CodecInv
  <2>2. \E reply \in cmd_process(Decoded) : message' = decode(encode(reply))
    BY <2>1, Zenon
  <2> QED
    BY <2>1, <2>2 DEF CodecInv, Decoded
<1>9. CASE UNCHANGED vars
  BY <1>9 DEF vars, CodecInv, Decoded
<1> QED
  BY <1>1, <1>2, <1>3, <1>4, <1>5, <1>6, <1>7, <1>8, <1>9 DEF Next

THEOREM Invariance == Spec => []CodecInv
  BY InvInit, InvStep, PTL DEF Spec

-----------------------------------------------------------------------------
(* decode finds in what encode made of any message what was encoded: the   *)
(* fields, the digest, and the payload at the place where it begins.       *)
THEOREM DecodingCorrect == Spec => []DecodesWhatWasEncoded
<1>1. CodecInv => DecodesWhatWasEncoded
  <2> SUFFICES ASSUME CodecInv, stage = "decoded" PROVE DecodesWhatWasEncoded
    BY DEF DecodesWhatWasEncoded
  <2>1. Sound(request) /\ message = Decoded
    BY DEF CodecInv
  <2>2. Reads(message, request)
    BY <2>1, Decoding, Zenon DEF Sound, Decoded
  <2> QED
    BY <2>2, Zenon DEF Reads, DecodesWhatWasEncoded
<1> QED
  BY <1>1, Invariance, PTL

(* The digest that process() takes of what the client sent is that of the  *)
(* string padded to whole blocks, of whatever length it is and whatever    *)
(* the sizes of blocks and counters: what was taken in before the padding, *)
(* the padding and the length make the blocks of the padded string.        *)
THEOREM ReferenceCorrect == Spec => []DigestIsReference
<1>1. CodecInv => DigestIsReference
  <2> SUFFICES ASSUME CodecInv, stage = "request"
               PROVE  getDigest(MD5(wire)).digest = ReferenceDigest(wire)
    BY DEF DigestIsReference
  <2>1. Sound(request) /\ wire = encode(request)
    BY DEF CodecInv
  <2>2. wire \in Seq(Int)
    BY <2>1, Encoding, Zenon DEF Sound
  <2> QED
    BY <2>2, DigestIs, Zenon
<1> QED
  BY <1>1, Invariance, PTL

LEMMA SameBytes ==
    ASSUME NEW S, NEW p \in Seq(S), NEW q \in Seq(S), Len(q) <= Len(p),
           SubSeq(p, 1, Len(q)) = q, NEW i \in 1..Len(q)
    PROVE  p[i] = q[i]
<1>1. Len(p) \in Nat /\ Len(q) \in Nat
  BY LenProperties
<1>2. \A j \in 1..Len(q) : p[j] \in S
  BY <1>1, ElementOfSeq
<1>3. \A j \in 1..Len(q) : SubSeq(p, 1, Len(q))[j] = p[1 + j - 1]
  BY <1>1, <1>2, SubSeqProperties
<1>4. q[i] = p[1 + i - 1]
  BY <1>3, Zenon
<1>5. 1 + i - 1 = i
  BY <1>1
<1> QED
  BY <1>4, <1>5, Zenon

LEMMA DecodedSound ==
    ASSUME NEW m, Sound(m)
    PROVE  /\ Sound(decode(encode(m))) /\ Reads(decode(encode(m)), m)
           /\ get_cmd(m) \in Commands => get_cmd(decode(encode(m))) = get_cmd(m)
<1>1. Shape(m, Int)
  BY DEF Sound
<1>2. PICK d : d = decode(encode(m))
  OBVIOUS
<1>3. Shape(d, Int) /\ Reads(d, m) /\ Len(d.payload) > Len(m.payload)
  BY <1>1, <1>2, Decoding, Zenon
<1>4. PICK p \in Seq(Int), q \in Seq(Int) : p = d.payload /\ q = m.payload
  BY <1>1, <1>3 DEF Shape, Texts
<1>5. ASSUME get_cmd(m) \in Commands PROVE get_cmd(d) = get_cmd(m)
  <2>1. q # <<>>
    <3>1. 0 \notin Commands
      BY DEF Commands, BEGIN, TEST_REG
    <3> QED
      BY <1>4, <1>5, <3>1, Zenon DEF get_cmd
  <2>2. Len(q) \in Nat /\ Len(q) >= 1
    BY <1>4, <2>1, EmptySeq
  <2>3. Len(p) \in Nat /\ Len(p) > Len(q)
    BY <1>3, <1>4, LenProperties
  <2>4. SubSeq(p, 1, Len(q)) = q
    BY <1>3, <1>4, Zenon DEF Reads
  <2>7. 1 \in 1..Len(q) /\ Len(q) <= Len(p)
    BY <2>2, <2>3
  <2>8. q[1] = p[1]
    BY <1>4, <2>4, <2>7, SameBytes, Zenon
  <2>9. p # <<>>
    BY <2>2, <2>3, EmptySeq
  <2>10. Head(p) = p[1] /\ Head(q) = q[1]
    OBVIOUS
  <2> QED
    BY <1>4, <2>1, <2>8, <2>9, <2>10, Zenon DEF get_cmd
<1> QED
  BY <1>2, <1>3, <1>5, Zenon DEF Sound

(* A reply that is not the empty message of an unknown command.            *)
LEMMA ReplyOf ==
    ASSUME NEW reply \in cmd_process(Decoded), Sound(request)
    PROVE  \/ get_cmd(Decoded) \notin Commands /\ reply = NewMessage
           \/ \E rtcode \in {NONE, NORM} : Answers(reply, Decoded, get_cmd(Decoded), rtcode)
<1>1. PICK d : d = Decoded
  OBVIOUS
<1>2. Sound(d)
  BY <1>1, DecodedSound, Zenon DEF Decoded
<1>3. CASE get_cmd(d) \notin Commands /\ reply = NewMessage
  BY <1>1, <1>3, Zenon
<1>4. ASSUME get_cmd(d) \in Commands, NEW rtcode \in {NONE, NORM},
             reply = simple_cmd_reply(d, get_cmd(d), rtcode)
      PROVE  Answers(reply, d, get_cmd(d), rtcode)
  <2>1. get_cmd(d) \in 0..255 /\ rtcode \in 0..255
    BY <1>4 DEF Commands, BEGIN, TEST_REG, NONE, NORM
  <2> QED
    BY <1>2, <1>4, <2>1, Reply, Zenon
<1> QED
  BY <1>1, <1>3, <1>4, Replies, Zenon

(* The length that a reply says it has is the number of bytes that encode  *)
(* makes of it.                                                            *)
THEOREM LengthCorrect == Spec => []ReplyCountsItsBytes
<1>1. CodecInv => ReplyCountsItsBytes
  <2> SUFFICES ASSUME CodecInv, stage = "reply", message.payload # <<>>
               PROVE  message.len = U32(Len(wire))
    BY DEF ReplyCountsItsBytes
  <2>1. Sound(request) /\ message \in cmd_process(Decoded) /\ wire = encode(message)
    BY DEF CodecInv
  <2>2. PICK cmd, rtcode : Answers(message, Decoded, cmd, rtcode)
    BY <2>1, ReplyOf, NewPayload, Zenon
  <2>3. Shape(message, Int)
    BY <2>2, Zenon DEF Answers, Sound
  <2>4. Len(wire) = Len(message.payload) + 53
    BY <2>1, <2>3, Encoding, Zenon DEF Layout
  <2>5. Len(message.payload) = 2
    <3>1. Len(<<cmd, rtcode>>) = 2
      OBVIOUS
    <3> QED
      BY <2>2, <3>1, Zenon DEF Answers
  <2>6. Len(wire) = 55
    BY <2>4, <2>5
  <2> QED
    BY <2>2, <2>6, Zenon DEF Answers
<1> QED
  BY <1>1, Invariance, PTL

(* Nothing that the digest of a reply covers is set after it was taken.    *)
THEOREM DigestCorrect == Spec => []ReplyDigestCovers
<1>1. CodecInv => ReplyDigestCovers
  <2> SUFFICES ASSUME CodecInv, stage = "process", message.payload # <<>>
               PROVE  SubSeq(message.checksum, 1, ChecksumSize) = toStr(MD5(get_Message_string(message)))
    BY DEF ReplyDigestCovers
  <2>1. Sound(request) /\ message \in cmd_process(Decoded)
    BY DEF CodecInv
  <2>2. PICK cmd, rtcode : Answers(message, Decoded, cmd, rtcode)
    BY <2>1, ReplyOf, NewPayload, Zenon
  <2> QED
    BY <2>2, Zenon DEF Answers
<1> QED
  BY <1>1, Invariance, PTL

(* What the client decodes has the sequence number and the command of what *)
(* it encoded, and a return code.                                          *)
THEOREM AnswerCorrect == Spec => []AnswersItsRequest
<1>1. CodecInv => AnswersItsRequest
  <2> SUFFICES ASSUME CodecInv, stage = "done", get_cmd(request) \in Commands
               PROVE  /\ message.seq = request.seq
                      /\ message.total_package_len = request.total_package_len
                      /\ get_cmd(message) = get_cmd(request)
                      /\ message.payload[2] \in {NONE, NORM}
    BY DEF AnswersItsRequest
  <2>1. Sound(request)
    BY DEF CodecInv
  <2>2. PICK reply \in cmd_process(Decoded) : message = decode(encode(reply))
    BY DEF CodecInv
  <2>3. /\ Reads(Decoded, request) /\ get_cmd(Decoded) = get_cmd(request)
    BY <2>1, DecodedSound, Zenon DEF Decoded
  <2>4. PICK rtcode \in {NONE, NORM} : Answers(reply, Decoded, get_cmd(request), rtcode)
    BY <2>1, <2>2, <2>3, ReplyOf, Zenon
  <2>5. Sound(reply) /\ reply.payload = <<get_cmd(request), rtcode>>
    BY <2>4, Zenon DEF Answers
  <2>6. Reads(message, reply)
    BY <2>2, <2>5, DecodedSound, Zenon
  <2>7. /\ Decoded.seq = request.seq /\ Decoded.total_package_len = request.total_package_len
        /\ message.seq = reply.seq /\ message.total_package_len = reply.total_package_len
    BY <2>3, <2>6, Zenon DEF Reads
  <2>8. /\ message.seq = request.seq /\ message.total_package_len = request.total_package_len
    BY <2>4, <2>7, Zenon DEF Answers
  <2>9. PICK cmd : cmd = get_cmd(request)
    OBVIOUS
  <2>10. get_cmd(reply) = cmd
    <3>1. <<cmd, rtcode>> # <<>> /\ Head(<<cmd, rtcode>>) = cmd
      OBVIOUS
    <3> QED
      BY <2>5, <2>9, <3>1, Zenon DEF get_cmd
  <2>11. get_cmd(message) = get_cmd(request)
    BY <2>2, <2>5, <2>9, <2>10, DecodedSound, Zenon
  <2>12. message.payload[2] = rtcode
    <3>1. Shape(reply, Int)
      BY <2>5 DEF Sound
    <3>2. Shape(message, Int) /\ Len(message.payload) > Len(reply.payload)
      BY <2>2, <3>1, Decoding, Zenon
    <3>3. PICK q : q = <<cmd, rtcode>> /\ Len(q) = 2 /\ q[2] = rtcode
      BY Pair, Zenon
    <3>4. PICK p \in Seq(Int) : p = message.payload
      BY <3>2 DEF Shape, Texts
    <3>5. SubSeq(p, 1, Len(q)) = q /\ Len(p) > Len(q)
      BY <2>5, <2>6, <2>9, <3>2, <3>3, <3>4, Zenon DEF Reads
    <3>6. Len(q) <= Len(p) /\ 2 \in 1..Len(q)
      BY <3>3, <3>4, <3>5, LenProperties
    <3>7. q \in Seq(Int)
      BY <2>5, <2>9, <3>1, <3>3, Zenon DEF Shape, Texts
    <3>9. q[2] = p[2]
      BY <3>4, <3>5, <3>6, <3>7, SameBytes, Zenon
    <3> QED
      BY <3>3, <3>4, <3>9, Zenon
  <2> QED
    BY <2>8, <2>11, <2>12, Zenon
<1> QED
  BY <1>1, Invariance, PTL
=============================================================================
