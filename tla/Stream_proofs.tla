---------------------------- MODULE Stream_proofs ----------------------------
(***************************************************************************)
(* Theorems about Stream: its type invariant, AnswersAreFrames, and that   *)
(* it implements MessageChannel, for any sizes of messages, buffers and    *)
(* pieces.                                                                 *)
(*                                                                         *)
(* The invariant IInv says which bytes of the client's stream are where:   *)
(* those in the messages already returned, in hdr, in body and in the      *)
(* kernel follow one another without a gap, so that hdr can only hold the  *)
(* length of the next message (DataLenIsSize).                             *)
(*                                                                         *)
(* Offset and Frames are defined by recursion over the numbers.  Their     *)
(* equations follow from the existence of a function that satisfies them   *)
(* (Recursion), which, like what is proved of them for each number, comes  *)
(* from SetInduction (both in Powers_proofs).                              *)
(***************************************************************************)
EXTENDS Stream, SequenceTheorems, FiniteSetTheorems, Powers_proofs

-----------------------------------------------------------------------------
LEMMA ConstantTypes ==
    /\ N \in Nat /\ Sizes \in [1..N -> 0..BufSize]
    /\ LenBytes \in Nat \ {0} /\ PipeSize \in Nat \ {0} /\ BufSize \in Nat
    /\ WelcomeSize \in Nat /\ Broken \notin Seq(Nat)
  BY StreamAssumption, LenProperties DEF N

LEMMA OffsetDef ==
    /\ Offset \in [0..N -> Nat]
    /\ Offset[0] = 0
    /\ \A k \in 1..N : Offset[k] = Offset[k - 1] + LenBytes + Sizes[k]
<1> USE ConstantTypes
<1> DEFINE step == [p \in Nat \X (1..N) |-> p[1] + LenBytes + Sizes[p[2]]]
           Def(f) == [k \in 0..N |-> IF k = 0 THEN 0 ELSE f[k - 1] + LenBytes + Sizes[k]]
<1>1. step \in [Nat \X (1..N) -> Nat]
  OBVIOUS
<1>2. \A a \in Nat, k \in 1..N : step[<<a, k>>] = a + LenBytes + Sizes[k]
  OBVIOUS
<1> HIDE DEF step
<1>3. PICK f \in [0..N -> Nat] : Iterates(f, 0, step, 0..N)
  <2>1. 0..N \in SUBSET Nat /\ 0 \in 0..N /\ \A k \in 0..N \ {0} : k - 1 \in 0..N
    OBVIOUS
  <2>2. 1..N = 0..N \ {0} /\ 0 \in Nat
    OBVIOUS
  <2> QED
    BY <1>1, <2>1, <2>2, Recursion
<1>4. f[0] = 0
  BY <1>3 DEF Iterates
<1>5. ASSUME NEW k \in 1..N PROVE f[k] = f[k - 1] + LenBytes + Sizes[k]
  <2>1. k - 1 \in 0..N /\ f[k - 1] \in Nat
    BY <1>3
  <2>2. k \in 0..N \ {0}
    OBVIOUS
  <2> QED
    BY <1>2, <1>3, <2>1, <2>2 DEF Iterates
<1>6. f = Def(f)
  BY <1>3, <1>4, <1>5
<1>7. Offset = CHOOSE g : g = Def(g)
  BY DEF Offset
<1>8. Offset = Def(Offset)
  BY <1>6, <1>7
<1> HIDE DEF Def
<1>9. DOMAIN Offset = 0..N /\ Offset[0] = 0
  BY <1>8 DEF Def
<1>10. \A k \in 1..N : Offset[k] = Offset[k - 1] + LenBytes + Sizes[k]
  BY <1>8, SMTT(60) DEF Def
<1>11. ASSUME NEW n \in 0..N PROVE Offset[n] \in Nat
  <2> DEFINE S == {k \in Nat : k <= N => Offset[k] \in Nat}
  <2>1. 0 \in S
    BY <1>9
  <2>2. ASSUME NEW k \in Nat, k \in S PROVE k + 1 \in S
    <3> SUFFICES ASSUME k + 1 <= N PROVE Offset[k + 1] \in Nat
      OBVIOUS
    <3>1. k + 1 \in 1..N /\ (k + 1) - 1 = k /\ Offset[k] \in Nat
      BY <2>2
    <3>2. Offset[k + 1] = Offset[k] + LenBytes + Sizes[k + 1]
      BY <1>10, <3>1
    <3> QED
      BY <3>1, <3>2, SMTT(60)
  <2> HIDE DEF S
  <2>3. Nat \subseteq S
    BY <2>1, <2>2, SetInduction
  <2> QED
    BY <2>3 DEF S
<1>12. Offset = [k \in 0..N |-> Offset[k]]
  BY <1>8 DEF Def
<1> QED
  BY <1>9, <1>10, <1>11, <1>12

-----------------------------------------------------------------------------
(* The inductive invariant.                                                *)

(* What travels: bytes of lengths, of the welcome and of answers.          *)
Units == ({"length"} \X Nat \X Nat) \cup ({"welcome"} \X Nat) \cup ({"byte"} \X Nat)
Results == Seq(Nat) \cup {Broken}

(* The n bytes of the client's stream after the first from bytes.          *)
Bytes(from, n) == [i \in 1..n |-> from + i]

(* What receive() returns for the first m messages.                        *)
Whole(m) == [k \in 1..m |-> Payload(k)]

Places == 1..Offset[N]

ClientTypes ==
    /\ wrote \in 0..Offset[N]
    /\ closed \in BOOLEAN /\ reset \in BOOLEAN
    /\ got \in Seq(Units)
UpTypes == up \in Seq(Places) /\ Len(up) <= PipeSize
DownTypes == down \in Seq(Units) /\ Len(down) <= PipeSize
ReadTypes ==
    /\ io \in {"loop", "header", "body", "add_task", "send", "closed", "crashed"}
    /\ cut \in BOOLEAN
    /\ hdr \in Seq(Places) /\ Len(hdr) <= LenBytes
    /\ body \in Seq(Places) /\ Len(body) <= BufSize
OutTypes == out \in Seq(Units)
PoolTypes ==
    /\ received \in Seq(Results)
    /\ \A k \in 1..Len(received) : received[k] = Broken \/ received[k] \in Seq(Places)
    /\ work \subseteq 1..Len(received)
    /\ functors \in Seq(1..Len(received))
    /\ answered \in Seq(1..Len(received))

Types == ClientTypes /\ UpTypes /\ DownTypes /\ ReadTypes /\ OutTypes /\ PoolTypes

(* The kernel holds the bytes of the stream that have not been read.       *)
UpInv == Len(up) <= wrote /\ up = Bytes(wrote - Len(up), Len(up))

(* Before the end of the stream receive() has read the messages it has     *)
(* returned, and of the next one what is in hdr and in body.               *)
ReadInv ==
    ~cut =>
        /\ Len(received) \in 0..N /\ received = Whole(Len(received))
        /\ hdr = Bytes(Offset[Len(received)], Len(hdr))
        /\ body = Bytes(Offset[Len(received)] + LenBytes, Len(body))
        /\ wrote - Len(up) = Offset[Len(received)] + Len(hdr) + Len(body)
        /\ io \in {"loop", "send", "closed"} => Len(hdr) = 0
        /\ io = "header" => Len(hdr) < LenBytes
        /\ io \notin {"body", "add_task"} => Len(body) = 0
        /\ io \in {"body", "add_task"} =>
              /\ Len(received) < N
              /\ Len(hdr) = LenBytes
              /\ Len(body) <= Sizes[Len(received) + 1]
        /\ io = "add_task" => Len(body) = Sizes[Len(received) + 1]

(* After it there is nothing more to read, and one thing that is no        *)
(* message is returned.                                                    *)
CutInv ==
    /\ io = "crashed" => cut
    /\ cut =>
        /\ closed /\ ~reset /\ up = <<>>
        /\ io \notin {"header", "body"}
        /\ \E m \in 0..N :
              \/ received = Whole(m)
              \/ received = Append(Whole(m), Broken) /\ io # "add_task"

OutInv == io # "send" => out = <<>>

IInv == Types /\ UpInv /\ ReadInv /\ CutInv /\ OutInv /\ AnswersAreFrames

-----------------------------------------------------------------------------
(* Pieces of sequences.                                                    *)

LEMMA FirstRest ==
    ASSUME NEW T, NEW s \in Seq(T), NEW j \in 0..Len(s)
    PROVE  /\ First(s, j) \in Seq(T) /\ Len(First(s, j)) = j
           /\ Rest(s, j) \in Seq(T) /\ Len(Rest(s, j)) = Len(s) - j
           /\ \A i \in 1..j : First(s, j)[i] = s[i]
           /\ \A i \in 1..Len(s) - j : Rest(s, j)[i] = s[j + i]
           /\ First(s, j) \o Rest(s, j) = s
<1> DEFINE n == Len(s)
<1>1. n \in Nat /\ \A i \in 1..n : s[i] \in T
  BY LenProperties, ElementOfSeq
<1>2. /\ First(s, j) \in Seq(T) /\ Len(First(s, j)) = j
      /\ \A i \in 1..j : First(s, j)[i] = s[i]
  <2>1. \A i \in 1..j : s[i] \in T
    BY <1>1
  <2> QED
    BY <1>1, <2>1, SubSeqProperties DEF First
<1>3. /\ Rest(s, j) \in Seq(T) /\ Len(Rest(s, j)) = n - j
      /\ \A i \in 1..n - j : Rest(s, j)[i] = s[j + i]
  <2>1. \A i \in j + 1..n : s[i] \in T
    BY <1>1
  <2> QED
    BY <1>1, <2>1, SubSeqProperties DEF Rest
<1>4. First(s, j) \o Rest(s, j) = s
  <2>1. /\ First(s, j) \o Rest(s, j) \in Seq(T)
        /\ Len(First(s, j) \o Rest(s, j)) = n
        /\ \A i \in 1..n : (First(s, j) \o Rest(s, j))[i] =
              IF i <= j THEN First(s, j)[i] ELSE Rest(s, j)[i - j]
    BY <1>1, <1>2, <1>3, ConcatProperties
  <2>2. ASSUME NEW i \in 1..n PROVE (First(s, j) \o Rest(s, j))[i] = s[i]
    BY <1>1, <1>2, <1>3, <2>1
  <2> QED
    BY <2>1, <2>2, SeqEqual
<1> QED
  BY <1>2, <1>3, <1>4

(* The first j of what is on its way are moved on.                         *)
LEMMA PieceMoves ==
    ASSUME NEW T, NEW s \in Seq(T), NEW t \in Seq(T), NEW j \in 0..Len(t)
    PROVE  /\ s \o First(t, j) \in Seq(T) /\ Len(s \o First(t, j)) = Len(s) + j
           /\ (s \o First(t, j)) \o Rest(t, j) = s \o t
<1> DEFINE a == First(t, j)
           b == Rest(t, j)
<1>1. a \in Seq(T) /\ b \in Seq(T)
  BY FirstRest
<1>2. Len(a) = j /\ a \o b = t
  BY FirstRest
<1> HIDE DEF a, b
<1>3. s \o a \in Seq(T) /\ Len(s \o a) = Len(s) + j
  BY <1>1, <1>2, ConcatProperties
<1>4. (s \o a) \o b = s \o (a \o b)
  BY <1>1, ConcatAssociative, SMTT(60)
<1>5. (s \o a) \o b = s \o t
  BY <1>2, <1>4
<1> QED
  BY <1>3, <1>5 DEF a, b

LEMMA BytesType ==
    ASSUME NEW from \in Nat, NEW n \in Nat, NEW max \in Nat, from + n <= max
    PROVE  Bytes(from, n) \in Seq(1..max) /\ Len(Bytes(from, n)) = n
<1>1. \A i \in 1..n : from + i \in 1..max
  OBVIOUS
<1> QED
  BY <1>1 DEF Bytes

LEMMA BytesConcat ==
    ASSUME NEW from \in Nat, NEW m \in Nat, NEW n \in Nat
    PROVE  Bytes(from, m) \o Bytes(from + m, n) = Bytes(from, m + n)
<1> DEFINE a == Bytes(from, m)
           b == Bytes(from + m, n)
           c == Bytes(from, m + n)
           max == from + m + n
<1>1. /\ a \in Seq(1..max) /\ Len(a) = m
      /\ b \in Seq(1..max) /\ Len(b) = n
      /\ c \in Seq(1..max) /\ Len(c) = m + n
  <2>1. /\ max \in Nat /\ from + m \in Nat /\ m + n \in Nat
        /\ from + m <= max /\ (from + m) + n <= max /\ from + (m + n) <= max
    OBVIOUS
  <2> HIDE DEF max
  <2>2. a \in Seq(1..max) /\ Len(a) = m
    BY <2>1, BytesType
  <2>3. b \in Seq(1..max) /\ Len(b) = n
    BY <2>1, BytesType
  <2>4. c \in Seq(1..max) /\ Len(c) = m + n
    BY <2>1, BytesType
  <2> QED
    BY <2>2, <2>3, <2>4
<1>2. /\ \A i \in 1..m : a[i] = from + i
      /\ \A i \in 1..n : b[i] = from + m + i
      /\ \A i \in 1..m + n : c[i] = from + i
  BY DEF Bytes
<1> HIDE DEF a, b, c
<1>3. /\ a \o b \in Seq(1..max) /\ Len(a \o b) = m + n
      /\ \A i \in 1..m + n : (a \o b)[i] = IF i <= m THEN a[i] ELSE b[i - m]
  BY <1>1, ConcatProperties, ZenonT(60)
<1>4. ASSUME NEW i \in 1..m + n PROVE (a \o b)[i] = c[i]
  BY <1>2, <1>3, SMTT(60)
<1>5. a \o b = c
  BY <1>1, <1>3, <1>4, SeqEqual
<1> QED
  BY <1>5 DEF a, b, c

LEMMA BytesPieces ==
    ASSUME NEW from \in Nat, NEW n \in Nat, NEW j \in 0..n
    PROVE  /\ First(Bytes(from, n), j) = Bytes(from, j)
           /\ Rest(Bytes(from, n), j) = Bytes(from + j, n - j)
<1> DEFINE s == Bytes(from, n)
           max == from + n
<1>1. /\ s \in Seq(1..max) /\ Len(s) = n
      /\ Bytes(from, j) \in Seq(1..max) /\ Len(Bytes(from, j)) = j
      /\ Bytes(from + j, n - j) \in Seq(1..max) /\ Len(Bytes(from + j, n - j)) = n - j
  <2>1. max \in Nat /\ from + j \in Nat /\ n - j \in Nat /\ j \in Nat
    OBVIOUS
  <2> QED
    BY <2>1, BytesType
<1>2. \A i \in 1..n : s[i] = from + i
  BY DEF Bytes
<1> HIDE DEF s
<1>3. /\ First(s, j) \in Seq(1..max) /\ Len(First(s, j)) = j
      /\ Rest(s, j) \in Seq(1..max) /\ Len(Rest(s, j)) = n - j
      /\ \A i \in 1..j : First(s, j)[i] = s[i]
      /\ \A i \in 1..n - j : Rest(s, j)[i] = s[j + i]
  BY <1>1, FirstRest, ZenonT(60)
<1>4. First(s, j) = Bytes(from, j)
  <2>1. ASSUME NEW i \in 1..j PROVE First(s, j)[i] = Bytes(from, j)[i]
    BY <1>2, <1>3, SMTT(60) DEF Bytes
  <2> QED
    BY <1>1, <1>3, <2>1, SeqEqual
<1>5. Rest(s, j) = Bytes(from + j, n - j)
  <2>1. ASSUME NEW i \in 1..n - j PROVE Rest(s, j)[i] = Bytes(from + j, n - j)[i]
    BY <1>2, <1>3 DEF Bytes
  <2> QED
    BY <1>1, <1>3, <2>1, SeqEqual
<1> QED
  BY <1>4, <1>5 DEF s

-----------------------------------------------------------------------------
(* Where the messages lie in the client's stream.                          *)

LEMMA OffsetGap ==
    ASSUME NEW i \in 0..N, NEW j \in 0..N, i < j
    PROVE  Offset[i] + LenBytes + Sizes[i + 1] <= Offset[j]
<1> USE ConstantTypes
<1> DEFINE S == {n \in Nat : i + 1 + n <= N =>
                              Offset[i] + LenBytes + Sizes[i + 1] <= Offset[i + 1 + n]}
<1>1. 0 \in S
  BY OffsetDef
<1>2. ASSUME NEW n \in Nat, n \in S PROVE n + 1 \in S
  <2> SUFFICES ASSUME i + 1 + (n + 1) <= N
               PROVE  Offset[i] + LenBytes + Sizes[i + 1] <= Offset[i + 1 + (n + 1)]
    OBVIOUS
  <2>0. PICK k \in 1..N : k = i + 1 + (n + 1)
    OBVIOUS
  <2> SUFFICES Offset[i] + LenBytes + Sizes[i + 1] <= Offset[k]
    BY <2>0
  <2>1. k - 1 = i + 1 + n /\ k - 1 \in 0..N
    BY <2>0
  <2>2. Offset[k] = Offset[k - 1] + LenBytes + Sizes[k]
    BY <2>1, OffsetDef
  <2>3. Offset[i] + LenBytes + Sizes[i + 1] <= Offset[k - 1]
    BY <1>2, <2>1
  <2> HIDE DEF S
  <2>4. /\ Offset[i] \in Nat /\ Offset[k] \in Nat /\ Offset[k - 1] \in Nat
        /\ Sizes[k] \in Nat /\ Sizes[i + 1] \in Nat
    BY <2>1, OffsetDef, SMTT(60)
  <2> QED
    BY ONLY LenBytes \in Nat, <2>2, <2>3, <2>4
<1> HIDE DEF S
<1>3. Nat \subseteq S
  BY <1>1, <1>2, SetInduction
<1>4. \A n \in Nat : i + 1 + n <= N =>
          Offset[i] + LenBytes + Sizes[i + 1] <= Offset[i + 1 + n]
  BY <1>3 DEF S
<1>5. j - i - 1 \in Nat /\ i + 1 + (j - i - 1) = j
  OBVIOUS
<1> QED
  BY ONLY j \in 0..N, N \in Nat, <1>4, <1>5

LEMMA OffsetIncreases ==
    \A i, j \in 0..N : i < j => Offset[i] < Offset[j]
<1> SUFFICES ASSUME NEW i \in 0..N, NEW j \in 0..N, i < j PROVE Offset[i] < Offset[j]
  OBVIOUS
<1>1. Offset[i] + LenBytes + Sizes[i + 1] <= Offset[j]
  BY OffsetGap
<1>2. /\ Offset[i] \in Nat /\ Offset[j] \in Nat /\ LenBytes \in Nat \ {0}
      /\ Sizes[i + 1] \in Nat
  BY ConstantTypes, OffsetDef
<1> QED
  BY ONLY <1>1, <1>2

(* The messages that the client has begun are the first ones.              *)
LEMMA BegunFirst ==
    ASSUME NEW w \in Nat
    PROVE  \E b \in 0..N : {k \in 1..N : w > Offset[k - 1]} = 1..b
<1> USE ConstantTypes
<1> DEFINE Upto(m, b) == \A k \in 1..m : w > Offset[k - 1] <=> k <= b
           S == {m \in Nat : m <= N => \E b \in 0..m : Upto(m, b)}
<1>1. 0 \in S
  OBVIOUS
<1>2. ASSUME NEW m \in Nat, m \in S PROVE m + 1 \in S
  <2> SUFFICES ASSUME m + 1 <= N PROVE \E b \in 0..m + 1 : Upto(m + 1, b)
    OBVIOUS
  <2>1. PICK b \in 0..m : Upto(m, b)
    BY <1>2
  <2>2. \A k \in 0..N : Offset[k] \in Nat
    BY OffsetDef
  <2>3. CASE w > Offset[m]
    <3>1. ASSUME NEW k \in 1..m + 1 PROVE w > Offset[k - 1]
      <4>1. CASE k = m + 1
        BY <2>3, <4>1
      <4>2. CASE k < m + 1
        <5>1. k - 1 \in 0..N /\ m \in 0..N /\ k - 1 < m /\ (k - 1) + 1 = k
          BY <4>2
        <5>2. Offset[k - 1] + LenBytes + Sizes[k] <= Offset[m]
          BY <5>1, OffsetGap
        <5>3. Sizes[k] \in Nat /\ Offset[k - 1] \in Nat /\ Offset[m] \in Nat
          BY <2>2, <5>1
        <5> QED
          BY <2>3, <5>2, <5>3, SMTT(60)
      <4> QED
        BY <4>1, <4>2
    <3>2. Upto(m + 1, m + 1)
      BY <3>1
    <3> QED
      BY <3>2
  <2>4. CASE ~(w > Offset[m])
    <3>1. Upto(m + 1, b) /\ b \in 0..m + 1
      BY <2>1, <2>4, SMTT(60)
    <3> HIDE DEF Upto
    <3> QED
      BY <3>1
  <2> HIDE DEF Upto
  <2> QED
    BY <2>3, <2>4
<1> HIDE DEF S
<1>3. Nat \subseteq S
  BY <1>1, <1>2, SetInduction
<1>4. PICK b \in 0..N : Upto(N, b)
  <2> HIDE DEF Upto
  <2> QED
    BY <1>3 DEF S
<1>5. {k \in 1..N : w > Offset[k - 1]} = 1..b
  BY <1>4
<1> QED
  BY <1>5

-----------------------------------------------------------------------------
(* Frames.                                                                 *)

LEMMA TrainType == ASSUME NEW msg \in Seq(Units) PROVE Train(msg) \in Seq(Units)
<1> DEFINE len == [i \in 1..LenBytes |-> <<"length", Len(msg), i>>]
<1>1. Len(msg) \in Nat /\ LenBytes \in Nat
  BY LenProperties, ConstantTypes
<1>2. \A i \in 1..LenBytes : <<"length", Len(msg), i>> \in Units
  BY <1>1 DEF Units
<1>3. len \in Seq(Units)
  <2> DEFINE e(i) == <<"length", Len(msg), i>>
  <2> HIDE DEF e
  <2>1. [i \in 1..LenBytes |-> e(i)] \in Seq(Units)
    BY <1>1, <1>2 DEF e
  <2> QED
    BY <2>1 DEF e
<1> HIDE DEF len
<1>4. len \o msg \in Seq(Units)
  BY <1>3, ConcatProperties
<1> QED
  BY <1>4 DEF Train, len

LEMMA WelcomeType == Welcome \in Seq(Units)
<1>1. \A i \in 1..WelcomeSize : <<"welcome", i>> \in Units
  BY ConstantTypes DEF Units
<1> DEFINE e(i) == <<"welcome", i>>
<1> HIDE DEF e
<1>2. [i \in 1..WelcomeSize |-> e(i)] \in Seq(Units)
  BY <1>1, ConstantTypes DEF e
<1> QED
  BY <1>2 DEF Welcome, e

LEMMA AnswerType == ASSUME NEW msg \in Results PROVE Answer(msg) \in Seq(Units)
<1>1. CASE msg = Broken
  BY <1>1, EmptySeq DEF Answer
<1>2. CASE msg # Broken
  <2>1. msg \in Seq(Nat) /\ Len(msg) \in Nat
    BY <1>2, LenProperties DEF Results
  <2>2. \A i \in 1..Len(msg) : <<"byte", msg[i]>> \in Units
    BY <2>1, ElementOfSeq DEF Units
  <2> DEFINE e(i) == <<"byte", msg[i]>>
  <2> HIDE DEF e
  <2>3. [i \in 1..Len(msg) |-> e(i)] \in Seq(Units)
    BY <2>1, <2>2 DEF e
  <2> QED
    BY <1>2, <2>3 DEF Answer, e
<1> QED
  BY <1>1, <1>2

(* F accumulates the frames of msgs.                                       *)
Accumulates(F, msgs) ==
    /\ F \in [0..Len(msgs) -> Seq(Units)]
    /\ F[0] = Train(Welcome)
    /\ \A k \in 1..Len(msgs) : F[k] = F[k - 1] \o Train(Answer(msgs[k]))

LEMMA FramesDef ==
    ASSUME NEW msgs \in Seq(Results)
    PROVE  \E F : Accumulates(F, msgs) /\ Frames(msgs) = F[Len(msgs)]
<1> DEFINE n == Len(msgs)
           T == Seq(Units)
           frame(k) == Train(Answer(msgs[k]))
           step == [p \in T \X (1..n) |-> p[1] \o frame(p[2])]
           Def(F) == [k \in 0..n |-> IF k = 0 THEN Train(Welcome) ELSE F[k - 1] \o frame(k)]
           G == CHOOSE F : F = Def(F)
<1>1. n \in Nat /\ Train(Welcome) \in T
  BY LenProperties, WelcomeType, TrainType
<1>2. \A k \in 1..n : frame(k) \in T
  BY ElementOfSeq, AnswerType, TrainType
<1>3. Frames(msgs) = G[n]
  BY DEF Frames
<1> HIDE DEF n, frame
<1>4. \A a \in T, k \in 1..n : a \o frame(k) \in T
  BY <1>2, ConcatProperties
<1> HIDE DEF T
<1>5. step \in [T \X (1..n) -> T] /\ \A a \in T, k \in 1..n : step[<<a, k>>] = a \o frame(k)
  BY <1>4
<1> HIDE DEF step
<1>6. PICK F \in [0..n -> T] : Iterates(F, Train(Welcome), step, 0..n)
  <2>1. 0..n \in SUBSET Nat /\ 0 \in 0..n /\ \A k \in 0..n \ {0} : k - 1 \in 0..n
    BY <1>1
  <2>2. 1..n = 0..n \ {0}
    BY <1>1
  <2> QED
    BY <1>1, <1>5, <2>1, <2>2, Recursion
<1>7. F[0] = Train(Welcome)
  BY <1>6 DEF Iterates
<1>8. ASSUME NEW k \in 1..n PROVE F[k] = F[k - 1] \o frame(k)
  <2>1. k - 1 \in 0..n /\ F[k - 1] \in T
    BY <1>1
  <2>2. k \in 0..n \ {0}
    BY <1>1
  <2> QED
    BY <1>5, <1>6, <2>1, <2>2 DEF Iterates
<1>9. F = Def(F)
  BY <1>7, <1>8
<1>10. G = Def(G)
  BY <1>9, ZenonT(60)
<1> HIDE DEF G
<1>11. G[0] = Train(Welcome) /\ \A k \in 1..n : G[k] = G[k - 1] \o frame(k)
  <2>1. Def(G)[0] = Train(Welcome)
    BY <1>1
  <2>2. ASSUME NEW k \in 1..n PROVE Def(G)[k] = G[k - 1] \o frame(k)
    BY <1>1
  <2> HIDE DEF Def
  <2> QED
    BY <1>10, <2>1, <2>2
<1>12. G = [k \in 0..n |-> G[k]]
  BY <1>10
<1> HIDE DEF Def
<1>13. ASSUME NEW k \in 0..n PROVE G[k] = F[k]
  <2> DEFINE S == {i \in Nat : i <= n => G[i] = F[i]}
  <2>1. 0 \in S
    BY <1>7, <1>11
  <2>2. ASSUME NEW i \in Nat, i \in S PROVE i + 1 \in S
    <3> SUFFICES ASSUME i + 1 <= n PROVE G[i + 1] = F[i + 1]
      OBVIOUS
    <3>1. i + 1 \in 1..n /\ (i + 1) - 1 = i /\ G[i] = F[i]
      BY <1>1, <2>2
    <3>2. G[i + 1] = G[i] \o frame(i + 1) /\ F[i + 1] = F[i] \o frame(i + 1)
      BY <1>8, <1>11, <3>1
    <3> QED
      BY <3>1, <3>2
  <2> HIDE DEF S
  <2>3. Nat \subseteq S
    BY <2>1, <2>2, SetInduction
  <2> QED
    BY <1>1, <2>3 DEF S
<1>14. F = [k \in 0..n |-> F[k]]
  OBVIOUS
<1>15. G = F
  BY <1>12, <1>13, <1>14
<1>16. Accumulates(F, msgs)
  BY <1>7, <1>8 DEF Accumulates, n, T, frame
<1> QED
  BY <1>3, <1>15, <1>16 DEF n

LEMMA FramesEmpty == Frames(<<>>) = Train(Welcome)
<1>1. <<>> \in Seq(Results) /\ Len(<<>>) = 0
  BY EmptySeq
<1>2. PICK F : Accumulates(F, <<>>) /\ Frames(<<>>) = F[Len(<<>>)]
  BY <1>1, FramesDef
<1> QED
  BY <1>1, <1>2 DEF Accumulates

LEMMA FramesAppend ==
    ASSUME NEW msgs \in Seq(Results), NEW msg \in Results
    PROVE  Frames(Append(msgs, msg)) = Frames(msgs) \o Train(Answer(msg))
<1> DEFINE more == Append(msgs, msg)
           n == Len(msgs)
<1>1. /\ more \in Seq(Results) /\ Len(more) = n + 1 /\ n \in Nat
      /\ more[n + 1] = msg /\ \A k \in 1..n : more[k] = msgs[k]
  BY AppendProperties, LenProperties
<1> HIDE DEF more
<1>2. PICK F : Accumulates(F, msgs) /\ Frames(msgs) = F[n]
  BY FramesDef
<1>3. PICK G : Accumulates(G, more) /\ Frames(more) = G[n + 1]
  BY <1>1, FramesDef
<1>4. G[n] = F[n]
  <2> DEFINE S == {i \in Nat : i <= n => G[i] = F[i]}
  <2>1. 0 \in S
    BY <1>2, <1>3 DEF Accumulates
  <2>2. ASSUME NEW i \in Nat, i \in S PROVE i + 1 \in S
    <3> SUFFICES ASSUME i + 1 <= n PROVE G[i + 1] = F[i + 1]
      OBVIOUS
    <3>1. i + 1 \in 1..n /\ i + 1 \in 1..n + 1 /\ (i + 1) - 1 = i /\ G[i] = F[i]
      BY <1>1, <2>2
    <3>2. /\ G[i + 1] = G[i] \o Train(Answer(more[i + 1]))
          /\ F[i + 1] = F[i] \o Train(Answer(msgs[i + 1]))
      BY <1>1, <1>2, <1>3, <3>1 DEF Accumulates
    <3> QED
      BY <1>1, <3>1, <3>2
  <2> HIDE DEF S
  <2>3. Nat \subseteq S
    BY <2>1, <2>2, SetInduction
  <2> QED
    BY <1>1, <2>3 DEF S
<1>5. n + 1 \in 1..Len(more) /\ (n + 1) - 1 = n
  BY <1>1
<1>6. G[n + 1] = G[n] \o Train(Answer(msg))
  BY <1>1, <1>3, <1>5 DEF Accumulates
<1> QED
  BY <1>2, <1>3, <1>4, <1>6 DEF more

-----------------------------------------------------------------------------
(* Consequences of the invariant.                                          *)

LEMMA PiecesBound ==
    ASSUME NEW T, NEW s \in Seq(T), NEW most \in Int, NEW j \in Pieces(s, most)
    PROVE  j \in 1..Len(s) /\ j \in 0..Len(s) /\ j <= most /\ Len(s) \in Nat
<1>1. Len(s) \in Nat
  BY LenProperties
<1>2. CASE Len(s) < most
  BY <1>1, <1>2 DEF Pieces
<1>3. CASE ~(Len(s) < most)
  BY <1>1, <1>3 DEF Pieces
<1> QED
  BY <1>2, <1>3

LEMMA Lengths ==
    ASSUME Types
    PROVE  /\ Len(up) \in Nat /\ Len(hdr) \in Nat /\ Len(body) \in Nat
           /\ Len(down) \in Nat /\ Len(received) \in Nat /\ Len(answered) \in Nat
           /\ wrote \in Nat /\ N \in 0..N /\ Offset[N] \in Nat
<1>1. N \in 0..N
  BY ConstantTypes
<1>2. Offset[N] \in Nat
  BY <1>1, OffsetDef
<1>3. Len(up) \in Nat /\ Len(hdr) \in Nat /\ Len(body) \in Nat
  BY LenProperties DEF Types, UpTypes, ReadTypes
<1>4. Len(down) \in Nat /\ Len(received) \in Nat /\ Len(answered) \in Nat
  BY LenProperties DEF Types, DownTypes, PoolTypes
<1> QED
  BY <1>1, <1>2, <1>3, <1>4 DEF Types, ClientTypes

(* The bytes in hdr are the length of no message but the next one.         *)
LEMMA DataLenIsSize ==
    ASSUME IInv, io = "body"
    PROVE  DataLen = {Sizes[Len(received) + 1]} /\ Sizes[Len(received) + 1] \in 0..BufSize
<1> DEFINE m == Len(received)
<1>1. m \in 0..N - 1 /\ hdr = Bytes(Offset[m], LenBytes)
  BY ConstantTypes, Lengths DEF IInv, ReadInv, CutInv
<1> HIDE DEF m
<1>2. m + 1 \in 1..N /\ (m + 1) - 1 = m /\ m \in 0..N /\ Sizes[m + 1] \in 0..BufSize
  BY <1>1, ConstantTypes
<1>3. ASSUME NEW k \in 1..N, hdr = [i \in 1..LenBytes |-> Offset[k - 1] + i] PROVE k = m + 1
  <2>1. k - 1 \in 0..N /\ 1 \in 1..LenBytes
    BY ConstantTypes
  <2>2. hdr[1] = Offset[m] + 1 /\ hdr[1] = Offset[k - 1] + 1
    BY <1>1, <1>3, <2>1 DEF Bytes
  <2>3. Offset[m] \in Nat /\ Offset[k - 1] \in Nat
    BY <1>2, <2>1, OffsetDef
  <2>4. Offset[m] = Offset[k - 1]
    BY <2>2, <2>3
  <2>5. ~(m < k - 1) /\ ~(k - 1 < m)
    BY <1>2, <2>1, <2>3, <2>4, OffsetIncreases
  <2> QED
    BY <1>2, <2>5
<1>4. ASSUME NEW n \in 0..BufSize PROVE n \in DataLen <=> n = Sizes[m + 1]
  <2>1. hdr = [i \in 1..LenBytes |-> Offset[(m + 1) - 1] + i]
    BY <1>1, <1>2 DEF Bytes
  <2> QED
    BY <1>2, <1>3, <2>1 DEF DataLen
<1> QED
  BY <1>2, <1>4 DEF DataLen, m

LEMMA MessagesType ==
    ASSUME NEW msgs \in Seq(Results), NEW ks \in Seq(1..Len(msgs))
    PROVE  [n \in 1..Len(ks) |-> msgs[ks[n]]] \in Seq(Results)
<1>1. Len(ks) \in Nat /\ \A n \in 1..Len(ks) : ks[n] \in 1..Len(msgs)
  BY LenProperties, ElementOfSeq
<1>2. \A n \in 1..Len(ks) : msgs[ks[n]] \in Results
  BY <1>1, ElementOfSeq
<1> QED
  BY <1>1, <1>2

-----------------------------------------------------------------------------
(* The initial state.                                                      *)

LEMMA InitIInv == Init => IInv
<1> SUFFICES ASSUME Init PROVE IInv
  OBVIOUS
<1> USE ConstantTypes DEF Init
<1>1. /\ 0 \in 0..N /\ N \in 0..N /\ Offset[0] = 0 /\ Offset[N] \in Nat
      /\ \A T : <<>> \in Seq(T)
      /\ Len(<<>>) = 0
  BY OffsetDef, EmptySeq
<1>2. Train(Welcome) \in Seq(Units)
  BY WelcomeType, TrainType
<1>3. Types
  <2>1. ClientTypes
    <3>1. 0 \in 0..Offset[N] /\ <<>> \in Seq(Units)
      BY <1>1
    <3> QED
      BY <3>1 DEF ClientTypes
  <2>2. UpTypes /\ DownTypes /\ ReadTypes /\ OutTypes
    <3>1. <<>> \in Seq(Units) /\ <<>> \in Seq(Places)
      BY <1>1
    <3>2. UpTypes /\ DownTypes
      BY <1>1, <3>1 DEF UpTypes, DownTypes
    <3>3. ReadTypes
      <4>1. /\ io = "send" /\ cut \in BOOLEAN /\ hdr \in Seq(Places) /\ body \in Seq(Places)
            /\ Len(hdr) = 0 /\ Len(body) = 0
        BY <1>1, <3>1
      <4> QED
        BY ONLY <4>1, LenBytes \in Nat, BufSize \in Nat DEF ReadTypes
    <3> QED
      BY <1>2, <3>2, <3>3 DEF OutTypes
  <2>3. PoolTypes
    BY <1>1 DEF PoolTypes
  <2> QED
    BY <2>1, <2>2, <2>3 DEF Types
<1>4. Bytes(0, 0) = <<>> /\ Whole(0) = <<>>
  BY DEF Bytes, Whole
<1>5. UpInv
  BY <1>1, <1>4 DEF UpInv
<1>6. ReadInv
  <2>1. Bytes(LenBytes, 0) = <<>>
    BY DEF Bytes
  <2> QED
    BY <1>1, <1>4, <2>1 DEF ReadInv
<1>7. CutInv /\ OutInv
  BY DEF CutInv, OutInv
<1>8. AnswersAreFrames
  <2>1. FramesOf(<<>>) = Train(Welcome)
    <3>1. [n \in 1..Len(<<>>) |-> received[<<>>[n]]] = <<>>
      BY <1>1
    <3> QED
      BY <3>1, FramesEmpty DEF FramesOf
  <2>2. (<<>> \o <<>>) \o Train(Welcome) = Train(Welcome)
    BY <1>1, <1>2, ConcatEmptySeq
  <2> QED
    BY <2>1, <2>2 DEF AnswersAreFrames
<1> QED
  BY <1>3, <1>5, <1>6, <1>7, <1>8 DEF IInv

-----------------------------------------------------------------------------
(* Every step keeps the types.                                             *)

LEMMA NextTypes == IInv /\ [Next]_vars => Types'
<1> SUFFICES ASSUME IInv, [Next]_vars PROVE Types'
  OBVIOUS
<1>0. Types
  BY DEF IInv
<1>1. ASSUME UNCHANGED <<wrote, closed, got>>, reset' \in BOOLEAN PROVE ClientTypes'
  BY <1>0, <1>1 DEF Types, ClientTypes
<1>2. ASSUME UNCHANGED up PROVE UpTypes'
  BY <1>0, <1>2 DEF Types, UpTypes
<1>3. ASSUME UNCHANGED down PROVE DownTypes'
  BY <1>0, <1>3 DEF Types, DownTypes
<1>4. ASSUME UNCHANGED <<hdr, body>>, cut' \in BOOLEAN,
             io' \in {"loop", "header", "body", "add_task", "send", "closed", "crashed"}
      PROVE  ReadTypes'
  BY <1>0, <1>4 DEF Types, ReadTypes
<1>5. ASSUME UNCHANGED out PROVE OutTypes'
  BY <1>0, <1>5 DEF Types, OutTypes
<1>6. ASSUME UNCHANGED <<received, answered, work, functors>> PROVE PoolTypes'
  BY <1>0, <1>6 DEF Types, PoolTypes
<1>7. /\ wrote \in 0..Offset[N] /\ reset \in BOOLEAN /\ cut \in BOOLEAN
      /\ io \in {"loop", "header", "body", "add_task", "send", "closed", "crashed"}
  BY <1>0 DEF Types, ClientTypes, ReadTypes
<1>8. /\ up \in Seq(Places) /\ Len(up) <= PipeSize
      /\ hdr \in Seq(Places) /\ Len(hdr) <= LenBytes
      /\ body \in Seq(Places) /\ Len(body) <= BufSize
  BY <1>0 DEF Types, UpTypes, ReadTypes
<1>9. /\ got \in Seq(Units) /\ out \in Seq(Units)
      /\ down \in Seq(Units) /\ Len(down) <= PipeSize
  BY <1>0 DEF Types, ClientTypes, DownTypes, OutTypes
<1>10. /\ Len(up) \in Nat /\ Len(hdr) \in Nat /\ Len(body) \in Nat /\ Len(down) \in Nat
       /\ Offset[N] \in Nat
  BY <1>0, Lengths
<1> USE <1>7, <1>8, <1>9, <1>10, ConstantTypes
    DEF clientVars, ioVars, poolVars, historyVars
<1>11. CASE ClientWrite
  <2>1. PICK j \in 1..Offset[N] - wrote :
          Len(up) + j <= PipeSize /\ wrote' = wrote + j
            /\ up' = up \o [i \in 1..j |-> wrote + i]
    BY <1>11 DEF ClientWrite
  <2>2. wrote' \in 0..Offset[N] /\ j \in Nat /\ wrote + j <= Offset[N] /\ wrote \in Nat
    BY <2>1, SMTT(60)
  <2>3. Bytes(wrote, j) \in Seq(Places) /\ Len(Bytes(wrote, j)) = j
    BY <2>2, BytesType DEF Places
  <2>4. up' = up \o Bytes(wrote, j)
    BY <2>1 DEF Bytes
  <2>5. up' \in Seq(Places) /\ Len(up') = Len(up) + j
    BY <2>3, <2>4, ConcatProperties, ZenonT(60)
  <2>6. UNCHANGED <<closed, reset, got, down, io, hdr, body, out, cut,
                    received, answered, work, functors>>
    BY <1>11 DEF ClientWrite
  <2>7. ClientTypes'
    BY <1>0, <2>2, <2>6 DEF Types, ClientTypes
  <2>8. UpTypes'
    BY <2>1, <2>5 DEF UpTypes
  <2> QED
    BY <1>3, <1>4, <1>5, <1>6, <2>6, <2>7, <2>8 DEF Types
<1>12. CASE ClientRead
  <2>1. PICK j \in Pieces(down, PipeSize) :
          got' = got \o First(down, j) /\ down' = Rest(down, j)
    BY <1>12 DEF ClientRead
  <2>2. j \in 0..Len(down)
    BY <2>1, PiecesBound
  <2>3. got' \in Seq(Units)
    BY <2>1, <2>2, PieceMoves
  <2>4. down' \in Seq(Units) /\ Len(down') = Len(down) - j
    BY <2>1, <2>2, FirstRest, ZenonT(60)
  <2>5. UNCHANGED <<wrote, closed, reset, up, io, hdr, body, out, cut,
                    received, answered, work, functors>>
    BY <1>12 DEF ClientRead
  <2>6. ClientTypes'
    BY <1>0, <2>3, <2>5 DEF Types, ClientTypes
  <2>7. DownTypes'
    BY <2>2, <2>4 DEF DownTypes
  <2> QED
    BY <1>2, <1>4, <1>5, <1>6, <2>5, <2>6, <2>7 DEF Types
<1>13. CASE ClientClose
  <2>1. /\ reset' \in BOOLEAN /\ closed' = TRUE
        /\ UNCHANGED <<wrote, got, up, down, io, hdr, body, out, cut,
                       received, answered, work, functors>>
    BY <1>13 DEF ClientClose
  <2>2. ClientTypes'
    BY <1>0, <2>1 DEF Types, ClientTypes
  <2> QED
    BY <1>2, <1>3, <1>4, <1>5, <1>6, <2>1, <2>2 DEF Types
<1>14. CASE HandleMessage \/ HandleClose \/ ReadReturns \/ ReadEnds \/ WriteReturns \/ UNCHANGED vars
  <2>1. /\ reset' \in BOOLEAN /\ cut' \in BOOLEAN
        /\ io' \in {"loop", "header", "body", "add_task", "send", "closed", "crashed"}
        /\ UNCHANGED <<wrote, closed, got, up, down, hdr, body, out,
                       received, answered, work, functors>>
    BY <1>14 DEF HandleMessage, HandleClose, ReadReturns, ReadEnds, WriteReturns, vars
  <2> QED
    BY <1>1, <1>2, <1>3, <1>4, <1>5, <1>6, <2>1 DEF Types
<1>15. CASE ReadHeader
  <2>1. PICK j \in Pieces(up, LenBytes - Len(hdr)) :
          hdr' = hdr \o First(up, j) /\ up' = Rest(up, j)
    BY <1>15 DEF ReadHeader
  <2>2. j \in 0..Len(up) /\ j <= LenBytes - Len(hdr)
    <3>1. LenBytes - Len(hdr) \in Int
      OBVIOUS
    <3> QED
      BY <2>1, <3>1, PiecesBound
  <2>3. hdr' \in Seq(Places) /\ Len(hdr') = Len(hdr) + j
    BY <2>1, <2>2, PieceMoves
  <2>4. up' \in Seq(Places) /\ Len(up') = Len(up) - j
    BY <2>1, <2>2, FirstRest, ZenonT(60)
  <2>5. /\ io' \in {"header", "body"}
        /\ UNCHANGED <<wrote, closed, reset, got, down, body, out, cut,
                       received, answered, work, functors>>
    BY <1>15 DEF ReadHeader
  <2>6. UpTypes'
    BY <2>2, <2>4 DEF UpTypes
  <2>7. ReadTypes'
    BY <2>2, <2>3, <2>5 DEF ReadTypes
  <2> QED
    BY <1>1, <1>3, <1>5, <1>6, <2>5, <2>6, <2>7 DEF Types
<1>16. CASE ReadBody
  <2>0. PICK n \in 0..BufSize : \E j \in Pieces(up, n - Len(body)) :
          body' = body \o First(up, j) /\ up' = Rest(up, j)
    BY <1>16 DEF ReadBody, DataLen
  <2>1. PICK j \in Pieces(up, n - Len(body)) :
          body' = body \o First(up, j) /\ up' = Rest(up, j)
    BY <2>0
  <2>2. j \in 0..Len(up) /\ j <= n - Len(body)
    <3>1. n - Len(body) \in Int
      OBVIOUS
    <3> QED
      BY <2>1, <3>1, PiecesBound
  <2>3. body' \in Seq(Places) /\ Len(body') = Len(body) + j
    BY <2>1, <2>2, PieceMoves
  <2>4. up' \in Seq(Places) /\ Len(up') = Len(up) - j
    BY <2>1, <2>2, FirstRest, ZenonT(60)
  <2>5. UNCHANGED <<wrote, closed, reset, got, down, io, hdr, out, cut,
                    received, answered, work, functors>>
    BY <1>16 DEF ReadBody
  <2>6. UpTypes'
    BY <2>2, <2>4 DEF UpTypes
  <2>7. ReadTypes'
    BY <2>2, <2>3, <2>5 DEF ReadTypes
  <2> QED
    BY <1>1, <1>3, <1>5, <1>6, <2>5, <2>6, <2>7 DEF Types
<1>17. CASE AddTask
  <2>1. PICK result \in Results :
          /\ received' = Append(received, result)
          /\ result = Broken \/ result \in Seq(Places)
    <3>1. body \in Seq(Nat)
      BY SeqMonotonic DEF Places
    <3> QED
      BY <1>17, <3>1 DEF AddTask, Results
  <2>2. PICK m \in Nat : m = Len(received)
    BY <1>0, Lengths
  <2>3. /\ received' \in Seq(Results) /\ Len(received') = m + 1
        /\ received'[m + 1] = result
        /\ \A k \in 1..m : received'[k] = received[k]
    <3>1. received \in Seq(Results)
      BY <1>0 DEF Types, PoolTypes
    <3> QED
      BY <2>1, <2>2, <3>1, AppendProperties
  <2>4. functors' \in Seq(1..m + 1) /\ answered' \in Seq(1..m + 1)
    <3>1. functors \in Seq(1..m) /\ answered \in Seq(1..m) /\ 1..m \subseteq 1..m + 1
      BY <1>0, <2>2 DEF Types, PoolTypes
    <3>2. functors' = functors /\ answered' = answered
      BY <1>17 DEF AddTask
    <3> QED
      BY <3>1, <3>2, SeqMonotonic, SMTT(60)
  <2>5. work' \subseteq 1..m + 1
    <3>1. work \subseteq 1..m /\ work' = work \cup {Len(received')}
      BY <1>0, <1>17, <2>2 DEF AddTask, Types, PoolTypes
    <3>2. work' = work \cup {m + 1}
      BY <2>3, <3>1
    <3>3. m + 1 \in 1..m + 1 /\ 1..m \subseteq 1..m + 1
      OBVIOUS
    <3> QED
      BY ONLY <3>1, <3>2, <3>3
  <2>6. \A k \in 1..m + 1 : received'[k] = Broken \/ received'[k] \in Seq(Places)
    <3>1. \A k \in 1..m : received[k] = Broken \/ received[k] \in Seq(Places)
      BY <1>0, <2>2 DEF Types, PoolTypes
    <3>2. \A k \in 1..m + 1 : k \in 1..m \/ k = m + 1
      BY ONLY m \in Nat
    <3> QED
      BY ONLY <2>1, <2>3, <3>1, <3>2
  <2>7. PoolTypes'
    BY <2>3, <2>4, <2>5, <2>6 DEF PoolTypes
  <2>8. /\ hdr' = <<>> /\ body' = <<>> /\ io' = "loop"
        /\ UNCHANGED <<wrote, closed, reset, got, up, down, out, cut>>
    BY <1>17 DEF AddTask
  <2>9. ReadTypes'
    <3>1. <<>> \in Seq(Places) /\ Len(<<>>) = 0
      BY EmptySeq
    <3> QED
      BY <2>8, <3>1 DEF ReadTypes
  <2> QED
    BY <1>1, <1>2, <1>3, <1>5, <2>7, <2>8, <2>9 DEF Types
<1>18. CASE SendInLoop
  <2>1. PICK k \in work : work' = work \ {k} /\ functors' = Append(functors, k)
    BY <1>18 DEF SendInLoop
  <2>2. UNCHANGED <<wrote, closed, reset, got, up, down, io, hdr, body, out, cut,
                    received, answered>>
    BY <1>18 DEF SendInLoop
  <2>3. PoolTypes'
    <3>1. functors \in Seq(1..Len(received)) /\ k \in 1..Len(received)
      BY <1>0 DEF Types, PoolTypes
    <3>2. functors' \in Seq(1..Len(received))
      BY <2>1, <3>1, AppendProperties
    <3> QED
      BY <1>0, <2>1, <2>2, <3>2 DEF Types, PoolTypes
  <2> QED
    BY <1>1, <1>2, <1>3, <1>4, <1>5, <2>2, <2>3 DEF Types
<1>19. CASE Send
  <2>1. functors # <<>> /\ functors' = Tail(functors)
    BY <1>19 DEF Send
  <2>2. Head(functors) \in 1..Len(received) /\ functors' \in Seq(1..Len(received))
    <3>1. functors \in Seq(1..Len(received))
      BY <1>0 DEF Types, PoolTypes
    <3> QED
      BY <2>1, <3>1, HeadTailProperties
  <2>3. answered' \in Seq(1..Len(received))
    <3>1. answered \in Seq(1..Len(received)) /\ answered' = Append(answered, Head(functors))
      BY <1>0, <1>19 DEF Types, PoolTypes, Send
    <3> QED
      BY <2>2, <3>1, AppendProperties
  <2>4. OutTypes'
    <3>1. received[Head(functors)] \in Results
      BY <1>0, <2>2, ElementOfSeq DEF Types, PoolTypes
    <3> QED
      BY <1>19, <3>1, AnswerType, TrainType DEF Send, OutTypes
  <2>5. /\ io' = "send"
        /\ UNCHANGED <<wrote, closed, reset, got, up, down, hdr, body, cut, received, work>>
    BY <1>19 DEF Send
  <2>6. PoolTypes'
    BY <1>0, <2>2, <2>3, <2>5 DEF Types, PoolTypes
  <2> QED
    BY <1>1, <1>2, <1>3, <1>4, <2>4, <2>5, <2>6 DEF Types
<1>20. CASE Write
  <2>1. PICK j \in Pieces(out, PipeSize - Len(down)) :
          down' = down \o First(out, j) /\ out' = Rest(out, j)
    BY <1>20 DEF Write
  <2>2. j \in 0..Len(out) /\ j <= PipeSize - Len(down)
    <3>1. PipeSize - Len(down) \in Int
      OBVIOUS
    <3> QED
      BY <2>1, <3>1, PiecesBound
  <2>3. down' \in Seq(Units) /\ Len(down') = Len(down) + j
    BY <2>1, <2>2, PieceMoves, SMTT(60)
  <2>4. OutTypes'
    BY <2>1, <2>2, FirstRest DEF OutTypes
  <2>5. UNCHANGED <<wrote, closed, reset, got, up, io, hdr, body, cut,
                    received, answered, work, functors>>
    BY <1>20 DEF Write
  <2>6. DownTypes'
    BY <2>2, <2>3 DEF DownTypes
  <2> QED
    BY <1>1, <1>2, <1>4, <1>6, <2>4, <2>5, <2>6 DEF Types
<1>21. CASE WriteFails
  <2>1. /\ reset' \in BOOLEAN /\ out' = <<>>
        /\ UNCHANGED <<wrote, closed, got, up, down, io, hdr, body, cut,
                       received, answered, work, functors>>
    BY <1>21 DEF WriteFails
  <2>2. OutTypes'
    BY <2>1, EmptySeq DEF OutTypes
  <2> QED
    BY <1>1, <1>2, <1>3, <1>4, <1>6, <2>1, <2>2 DEF Types
<1> QED
  BY <1>11, <1>12, <1>13, <1>14, <1>15, <1>16, <1>17, <1>18, <1>19, <1>20, <1>21
     DEF Next, Client, Loop

-----------------------------------------------------------------------------
(* Every step keeps the rest of the invariant.                             *)

LEMMA UpMoves ==
    ASSUME Types, UpInv, NEW j \in 0..Len(up)
    PROVE  /\ First(up, j) = Bytes(wrote - Len(up), j)
           /\ Rest(up, j) = Bytes(wrote - (Len(up) - j), Len(up) - j)
           /\ Len(Rest(up, j)) = Len(up) - j
           /\ wrote - Len(up) \in Nat /\ wrote - (Len(up) - j) <= wrote
<1>1. PICK n \in Nat, from \in Nat :
        /\ n = Len(up) /\ from = wrote - Len(up) /\ wrote = from + n
        /\ up = Bytes(from, n)
  BY Lengths DEF UpInv
<1>2. First(up, j) = Bytes(from, j) /\ Rest(up, j) = Bytes(from + j, n - j)
  BY <1>1, BytesPieces
<1>3. Len(Rest(up, j)) = n - j
  BY <1>1, FirstRest DEF Types, UpTypes
<1>4. wrote - (n - j) = from + j
  BY <1>1
<1> QED
  BY <1>1, <1>2, <1>3, <1>4

LEMMA NextUp == IInv /\ [Next]_vars => UpInv'
<1> SUFFICES ASSUME IInv, [Next]_vars PROVE UpInv'
  OBVIOUS
<1>0. Types /\ UpInv
  BY DEF IInv
<1>1. CASE ClientWrite
  <2>1. PICK j \in 1..Offset[N] - wrote :
          wrote' = wrote + j /\ up' = up \o [i \in 1..j |-> wrote + i]
    BY <1>1 DEF ClientWrite
  <2>2. PICK n \in Nat, from \in Nat, w \in Nat :
          /\ n = Len(up) /\ w = wrote /\ w = from + n
          /\ up = Bytes(from, n)
    <3>1. PICK n \in Nat, w \in Nat : n = Len(up) /\ w = wrote /\ n <= w /\ up = Bytes(w - n, n)
      BY <1>0, Lengths DEF UpInv
    <3> QED
      BY <3>1
  <2>3. up' = Bytes(from, n) \o Bytes(from + n, j) /\ j \in Nat
    <3>1. up' = up \o Bytes(wrote, j)
      BY <2>1 DEF Bytes
    <3>2. j \in Nat
      BY <1>0, <2>1, Lengths
    <3> QED
      BY <2>2, <3>1, <3>2
  <2>4. up' = Bytes(from, n + j)
    BY <2>3, BytesConcat, ZenonT(60)
  <2>5. Len(up') = n + j
    BY <2>3, <2>4 DEF Bytes
  <2>6. wrote' - Len(up') = from /\ Len(up') <= wrote'
    BY <2>1, <2>2, <2>3, <2>5
  <2> QED
    BY <2>4, <2>5, <2>6 DEF UpInv
<1>2. CASE ReadHeader \/ ReadBody
  <2>1. PICK most \in Int : \E j \in Pieces(up, most) : up' = Rest(up, j)
    <3>1. CASE ReadHeader
      BY <1>0, <3>1, Lengths, ConstantTypes DEF ReadHeader
    <3>2. CASE ReadBody
      <4>1. PICK n \in 0..BufSize : \E j \in Pieces(up, n - Len(body)) : up' = Rest(up, j)
        BY <3>2 DEF ReadBody, DataLen
      <4>2. n - Len(body) \in Int
        BY <1>0, <4>1, Lengths, ConstantTypes
      <4> QED
        BY <4>1, <4>2
    <3> QED
      BY <1>2, <3>1, <3>2
  <2>2. PICK j \in 0..Len(up) : up' = Rest(up, j)
    <3>1. up \in Seq(Places)
      BY <1>0 DEF Types, UpTypes
    <3> QED
      BY <2>1, <3>1, PiecesBound
  <2>3. wrote' = wrote
    BY <1>2 DEF ReadHeader, ReadBody, clientVars
  <2>4. Len(up) \in Nat
    BY <1>0, Lengths
  <2>5. PICK n \in Nat : n = Len(up) - j
    BY <2>4
  <2>6. Len(up') = n /\ up' = Bytes(wrote - n, n) /\ n <= wrote
    <3>1. /\ Rest(up, j) = Bytes(wrote - (Len(up) - j), Len(up) - j)
          /\ Len(Rest(up, j)) = Len(up) - j /\ wrote - (Len(up) - j) <= wrote
          /\ wrote - Len(up) \in Nat
      BY <1>0, UpMoves
    <3>2. n <= wrote
      BY <1>0, <2>4, <2>5, <3>1, Lengths
    <3> QED
      BY <2>2, <2>5, <3>1, <3>2
  <2> QED
    BY <2>3, <2>6 DEF UpInv
<1>3. CASE UNCHANGED <<wrote, up>>
  BY <1>0, <1>3 DEF UpInv
<1>4. \/ ClientWrite \/ ReadHeader \/ ReadBody
      \/ UNCHANGED <<wrote, up>>
  BY DEF Next, Client, Loop, ClientRead, ClientClose, HandleMessage, HandleClose,
     ReadReturns, ReadEnds, AddTask, SendInLoop, Send, Write, WriteFails, WriteReturns,
     vars, clientVars, ioVars, poolVars, historyVars
<1> QED
  BY <1>1, <1>2, <1>3, <1>4

LEMMA NextOut == IInv /\ [Next]_vars => OutInv'
<1> SUFFICES ASSUME OutInv, [Next]_vars PROVE OutInv'
  BY DEF IInv
<1>1. \/ UNCHANGED <<io, out>>
      \/ io # "send" /\ out' = out
      \/ io' = "send"
      \/ out = <<>> /\ out' = out
      \/ out' = <<>>
  BY DEF Next, Client, Loop, ClientWrite, ClientRead, ClientClose, HandleMessage,
     HandleClose, ReadHeader, ReadBody, ReadReturns, ReadEnds, AddTask, SendInLoop, Send,
     Write, WriteFails, WriteReturns, vars, clientVars, ioVars, poolVars, historyVars
<1> QED
  BY <1>1 DEF OutInv

LEMMA NextCut == IInv /\ [Next]_vars => CutInv'
<1> SUFFICES ASSUME IInv, [Next]_vars PROVE CutInv'
  OBVIOUS
<1>0. CutInv /\ cut \in BOOLEAN
  BY DEF IInv, Types, ReadTypes
<1>1. CASE ReadEnds
  <2>1. ~cut
    BY <1>0, <1>1 DEF ReadEnds, CutInv
  <2>2. PICK m \in 0..N : received = Whole(m)
    BY <2>1 DEF IInv, ReadInv
  <2>3. /\ cut' /\ closed' /\ ~reset' /\ up' = <<>> /\ received' = received
        /\ io' \notin {"header", "body"}
    BY <1>1 DEF ReadEnds
  <2> QED
    BY <2>2, <2>3 DEF CutInv
<1>2. CASE AddTask
  <2>1. io' = "loop" /\ UNCHANGED <<closed, reset, up, cut>>
    BY <1>2 DEF AddTask, clientVars
  <2>2. CASE cut
    <3>1. PICK m \in 0..N : received = Whole(m)
      BY <1>0, <1>2, <2>2 DEF CutInv, AddTask
    <3>2. received' = Append(Whole(m), Broken)
      BY <1>2, <2>2, <3>1 DEF AddTask
    <3> QED
      BY <1>0, <2>1, <2>2, <3>2 DEF CutInv
  <2>3. CASE ~cut
    BY <2>1, <2>3 DEF CutInv
  <2> QED
    BY <2>2, <2>3
<1>3. CASE cut /\ [Next]_vars /\ ~AddTask /\ ~ReadEnds
  <2>1. closed /\ ~reset /\ up = <<>> /\ io \notin {"header", "body"}
    BY <1>0, <1>3 DEF CutInv
  <2>2. UNCHANGED <<cut, closed, up, received>>
    BY <1>3, <2>1 DEF Next, Client, Loop, ClientWrite, ClientRead, ClientClose,
       HandleMessage, HandleClose, ReadHeader, ReadBody, ReadReturns, SendInLoop, Send,
       Write, WriteFails, WriteReturns, vars, clientVars, ioVars, poolVars, historyVars
  <2>3. ~reset'
    BY <1>3, <2>1 DEF Next, Client, Loop, ClientWrite, ClientRead, ClientClose,
       HandleMessage, HandleClose, ReadHeader, ReadBody, ReadReturns, SendInLoop, Send,
       Write, WriteFails, WriteReturns, vars, clientVars, ioVars, poolVars, historyVars
  <2>4. io' = io \/ io' \in {"loop", "send", "closed"}
    BY <1>3, <2>1 DEF Next, Client, Loop, ClientWrite, ClientRead, ClientClose,
       HandleMessage, HandleClose, ReadHeader, ReadBody, ReadReturns, SendInLoop, Send,
       Write, WriteFails, WriteReturns, vars, clientVars, ioVars, poolVars, historyVars
  <2> QED
    BY <1>0, <1>3, <2>1, <2>2, <2>3, <2>4 DEF CutInv
<1>4. CASE ~cut /\ [Next]_vars /\ ~AddTask /\ ~ReadEnds
  <2>1. ~cut' /\ io # "crashed" /\ (io' = io \/ io' # "crashed")
    BY <1>0, <1>4 DEF CutInv, Next, Client, Loop, ClientWrite, ClientRead, ClientClose,
       HandleMessage, HandleClose, ReadHeader, ReadBody, ReadReturns, SendInLoop, Send,
       Write, WriteFails, WriteReturns, vars, clientVars, ioVars, poolVars, historyVars
  <2> QED
    BY <2>1 DEF CutInv
<1> QED
  BY <1>1, <1>2, <1>3, <1>4

(* What ReadInv says of a state whose next message is m + 1.               *)
LEMMA ReadParts ==
    ASSUME IInv, ~cut
    PROVE  \E m \in 0..N, h \in 0..LenBytes, b \in Nat :
              /\ Len(received) = m /\ received = Whole(m)
              /\ Len(hdr) = h /\ hdr = Bytes(Offset[m], h)
              /\ Len(body) = b /\ body = Bytes(Offset[m] + LenBytes, b)
              /\ wrote - Len(up) = Offset[m] + h + b
              /\ Offset[m] \in Nat
              /\ m < N => m + 1 \in 1..N /\ Sizes[m + 1] \in Nat
<1>1. PICK m \in 0..N, h \in Nat, b \in Nat :
        Len(received) = m /\ Len(hdr) = h /\ Len(body) = b
  BY Lengths DEF IInv, ReadInv
<1>2. h \in 0..LenBytes
  <2>1. Len(hdr) <= LenBytes
    BY DEF IInv, Types, ReadTypes
  <2> QED
    BY <1>1, <2>1, ConstantTypes
<1>3. Offset[m] \in Nat /\ (m < N => m + 1 \in 1..N /\ Sizes[m + 1] \in Nat)
  BY OffsetDef, ConstantTypes
<1>4. /\ received = Whole(m) /\ hdr = Bytes(Offset[m], h)
      /\ body = Bytes(Offset[m] + LenBytes, b)
      /\ wrote - Len(up) = Offset[m] + h + b
  BY <1>1 DEF IInv, ReadInv
<1> QED
  BY <1>1, <1>2, <1>3, <1>4

LEMMA WholeAppend ==
    ASSUME NEW m \in Nat PROVE Whole(m + 1) = Append(Whole(m), Payload(m + 1))
<1> DEFINE p(k) == Payload(k)
           T == {p(k) : k \in 1..m + 1}
           s == [k \in 1..m |-> p(k)]
           t == [k \in 1..m + 1 |-> p(k)]
<1> HIDE DEF p
<1>1. /\ s \in Seq(T) /\ Len(s) = m /\ t \in Seq(T) /\ Len(t) = m + 1
      /\ p(m + 1) \in T /\ \A k \in 1..m : s[k] = p(k)
      /\ \A k \in 1..m + 1 : t[k] = p(k)
  OBVIOUS
<1> HIDE DEF T, s, t
<1>2. /\ Append(s, p(m + 1)) \in Seq(T) /\ Len(Append(s, p(m + 1))) = m + 1
      /\ Append(s, p(m + 1))[m + 1] = p(m + 1)
      /\ \A k \in 1..m : Append(s, p(m + 1))[k] = s[k]
  BY <1>1, AppendProperties
<1>3. ASSUME NEW k \in 1..m + 1 PROVE t[k] = Append(s, p(m + 1))[k]
  <2>1. k \in 1..m \/ k = m + 1
    OBVIOUS
  <2> QED
    BY <1>1, <1>2, <2>1
<1>4. t = Append(s, p(m + 1))
  BY <1>1, <1>2, <1>3, SeqEqual
<1> QED
  BY <1>4 DEF Whole, s, t, p

LEMMA NextRead == IInv /\ [Next]_vars => ReadInv'
<1> SUFFICES ASSUME IInv, [Next]_vars, ~cut' PROVE ReadInv'
  BY DEF ReadInv
<1>0. ~cut /\ cut' = cut
  BY DEF IInv, Types, ReadTypes, Next, Client, Loop, ClientWrite, ClientRead, ClientClose,
     HandleMessage, HandleClose, ReadHeader, ReadBody, ReadReturns, ReadEnds, AddTask,
     SendInLoop, Send, Write, WriteFails, WriteReturns,
     vars, clientVars, ioVars, poolVars, historyVars
<1>1. PICK m \in 0..N, h \in 0..LenBytes, b \in Nat :
        /\ Len(received) = m /\ received = Whole(m)
        /\ Len(hdr) = h /\ hdr = Bytes(Offset[m], h)
        /\ Len(body) = b /\ body = Bytes(Offset[m] + LenBytes, b)
        /\ wrote - Len(up) = Offset[m] + h + b
        /\ Offset[m] \in Nat
        /\ m < N => m + 1 \in 1..N /\ Sizes[m + 1] \in Nat
  BY <1>0, ReadParts
<1>2. /\ io \in {"loop", "send", "closed"} => h = 0
      /\ io = "header" => h < LenBytes
      /\ io \notin {"body", "add_task"} => b = 0
      /\ io \in {"body", "add_task"} =>
            m < N /\ h = LenBytes /\ b <= Sizes[m + 1]
      /\ io = "add_task" => b = Sizes[m + 1]
  BY <1>0, <1>1 DEF IInv, ReadInv
<1>3. /\ up \in Seq(Places) /\ hdr \in Seq(Places) /\ body \in Seq(Places)
      /\ Types /\ UpInv /\ Len(up) \in Nat /\ wrote \in 0..Offset[N] /\ Offset[N] \in Nat
      /\ N \in Nat /\ LenBytes \in Nat \ {0}
      /\ io \in {"loop", "header", "body", "add_task", "send", "closed", "crashed"}
  BY ConstantTypes, Lengths DEF IInv, Types, UpTypes, ReadTypes, ClientTypes
(* Steps that read nothing and move io at most between two such places.    *)
<1>4. ASSUME UNCHANGED <<received, hdr, body>>, wrote' - Len(up') = wrote - Len(up),
             \/ io' = io
             \/ io \in {"loop", "send"} /\ io' \in {"loop", "send", "header", "closed"}
      PROVE  ReadInv'
  <2>1. PICK o : o = io'
    OBVIOUS
  <2>2. /\ o \in {"loop", "send", "closed"} => h = 0
        /\ o = "header" => h < LenBytes
        /\ o \notin {"body", "add_task"} => b = 0
        /\ o \in {"body", "add_task"} =>
              m < N /\ h = LenBytes /\ b <= Sizes[m + 1]
        /\ o = "add_task" => b = Sizes[m + 1]
    BY <1>2, <1>3, <1>4, <2>1
  <2> QED
    BY <1>1, <1>4, <2>1, <2>2 DEF ReadInv
<1>5. CASE ClientWrite
  <2>1. PICK j \in 1..Offset[N] - wrote :
          wrote' = wrote + j /\ up' = up \o [i \in 1..j |-> wrote + i]
    BY <1>5 DEF ClientWrite
  <2>2. j \in Nat /\ wrote \in Nat /\ wrote + j <= Offset[N]
    BY <1>3, <2>1
  <2>3. Bytes(wrote, j) \in Seq(Places) /\ Len(Bytes(wrote, j)) = j
    BY <1>3, <2>2, BytesType DEF Places
  <2>4. up' = up \o Bytes(wrote, j)
    BY <2>1 DEF Bytes
  <2>5. Len(up') = Len(up) + j
    BY <1>3, <2>3, <2>4, ConcatProperties
  <2>6. wrote' - Len(up') = wrote - Len(up)
    BY <1>3, <2>1, <2>2, <2>5
  <2> QED
    BY <1>4, <1>5, <2>6 DEF ClientWrite, ioVars, historyVars
<1>6. CASE ReadHeader
  <2>1. PICK j \in Pieces(up, LenBytes - h) :
          hdr' = hdr \o First(up, j) /\ up' = Rest(up, j)
    BY <1>1, <1>6 DEF ReadHeader
  <2>2. j \in 1..Len(up) /\ j \in 0..Len(up) /\ j <= LenBytes - h /\ b = 0
    BY <1>2, <1>3, <1>6, <2>1, PiecesBound DEF ReadHeader
  <2>3. First(up, j) = Bytes(Offset[m] + h, j) /\ Len(up') = Len(up) - j
    <3>1. First(up, j) = Bytes(wrote - Len(up), j) /\ Len(up') = Len(up) - j
      BY <1>3, <2>1, <2>2, UpMoves
    <3>2. wrote - Len(up) = Offset[m] + h
      BY <1>1, <2>2
    <3> QED
      BY <3>1, <3>2
  <2>4. PICK g \in 0..LenBytes : g = h + j /\ g > 0
    BY <1>3, <2>2
  <2>5. hdr' = Bytes(Offset[m], g)
    <3>1. Offset[m] \in Nat /\ h \in Nat /\ j \in Nat
      BY <1>1, <2>2
    <3>2. hdr' = Bytes(Offset[m], h) \o Bytes(Offset[m] + h, j)
      BY <1>1, <2>1, <2>3
    <3>3. hdr' = Bytes(Offset[m], h + j)
      BY <3>1, <3>2, BytesConcat
    <3> QED
      BY <2>4, <3>3
  <2>6. Len(hdr') = g
    BY <2>5 DEF Bytes
  <2>7. wrote' - Len(up') = Offset[m] + g + 0
    <3>1. wrote' = wrote
      BY <1>6 DEF ReadHeader, clientVars
    <3>2. wrote' - Len(up') = (wrote - Len(up)) + j
      BY <1>3, <2>2, <2>3, <3>1
    <3> QED
      BY <1>1, <2>2, <2>4, <3>2
  <2>8. m < N
    <3>1. Offset[m] + g <= Offset[N]
      <4>1. wrote' - Len(up') <= wrote /\ wrote <= Offset[N]
        <5>1. wrote' = wrote /\ Len(up') \in Nat
          BY <1>3, <1>6, <2>2, <2>3 DEF ReadHeader, clientVars
        <5> QED
          BY <1>3, <5>1
      <4>2. Offset[m] + g = wrote' - Len(up')
        BY <1>1, <2>4, <2>7
      <4> QED
        BY <4>1, <4>2, <1>3, <1>6 DEF ReadHeader, clientVars
    <3>2. m # N
      BY <1>1, <2>4, <3>1
    <3> QED
      BY <3>2, <1>3
  <2>9. /\ io' = IF g = LenBytes THEN "body" ELSE "header"
        /\ UNCHANGED <<received, body>>
    BY <1>6, <2>6 DEF ReadHeader, historyVars
  <2>10. /\ io' = "header" => g < LenBytes
         /\ io' = "body" => g = LenBytes
         /\ io' \in {"header", "body"}
    BY <1>3, <2>4, <2>9
  <2>11. received' = Whole(m) /\ Len(received') = m
    BY <1>1, <2>9
  <2>12. body' = Bytes(Offset[m] + LenBytes, 0) /\ Len(body') = 0
    BY <1>1, <2>2, <2>9
  <2>13. 0 <= Sizes[m + 1]
    BY <1>1, <2>8
  <2> QED
    BY <2>5, <2>6, <2>7, <2>8, <2>10, <2>11, <2>12, <2>13 DEF ReadInv
<1>7. CASE ReadBody
  <2>0. io = "body" /\ DataLen = {Sizes[m + 1]}
    BY <1>1, <1>7, DataLenIsSize DEF ReadBody
  <2>1. PICK j \in Pieces(up, Sizes[m + 1] - b) :
          body' = body \o First(up, j) /\ up' = Rest(up, j)
    BY <1>1, <1>7, <2>0 DEF ReadBody
  <2>2. PICK size \in Nat : size = Sizes[m + 1] /\ m < N /\ h = LenBytes
    BY <1>1, <1>2, <2>0
  <2>3. j \in 1..Len(up) /\ j \in 0..Len(up) /\ j <= size - b
    BY <1>3, <2>1, <2>2, PiecesBound
  <2>4. First(up, j) = Bytes((Offset[m] + LenBytes) + b, j) /\ Len(up') = Len(up) - j
    <3>1. First(up, j) = Bytes(wrote - Len(up), j) /\ Len(up') = Len(up) - j
      BY <1>3, <2>1, <2>3, UpMoves
    <3>2. wrote - Len(up) = (Offset[m] + LenBytes) + b
      BY <1>1, <2>2
    <3> QED
      BY <3>1, <3>2
  <2>5. PICK c \in Nat : c = b + j /\ c <= size
    BY <1>3, <2>2, <2>3
  <2>6. body' = Bytes(Offset[m] + LenBytes, c)
    <3>1. Offset[m] + LenBytes \in Nat /\ j \in Nat
      BY <1>1, <1>3, <2>3, SMTT(60)
    <3>2. body' = Bytes(Offset[m] + LenBytes, b) \o Bytes((Offset[m] + LenBytes) + b, j)
      BY <1>1, <2>1, <2>4
    <3>3. body' = Bytes(Offset[m] + LenBytes, b + j)
      BY <3>1, <3>2, BytesConcat, ZenonT(60)
    <3> QED
      BY <2>5, <3>3
  <2>7. Len(body') = c
    BY <2>6 DEF Bytes
  <2>8. wrote' - Len(up') = Offset[m] + LenBytes + c
    <3>1. wrote' = wrote
      BY <1>7 DEF ReadBody, clientVars
    <3>2. wrote' - Len(up') = (wrote - Len(up)) + j
      BY <1>3, <2>3, <2>4, <3>1
    <3>3. wrote - Len(up) = (Offset[m] + LenBytes) + b
      BY <1>1, <2>2
    <3>4. PICK a \in Nat, x \in Nat : a = Offset[m] + LenBytes /\ x = j
      BY <1>1, <1>3, <2>3
    <3>5. wrote' - Len(up') = (a + b) + x
      BY <3>2, <3>3, <3>4
    <3>6. (a + b) + x = a + c
      BY <2>5, <3>4
    <3> QED
      BY <3>4, <3>5, <3>6
  <2>9. io' = "body" /\ UNCHANGED <<received, hdr>>
    BY <1>7, <2>0 DEF ReadBody, historyVars
  <2>10. received' = Whole(m) /\ Len(received') = m
    BY <1>1, <2>9
  <2>11. hdr' = Bytes(Offset[m], LenBytes) /\ Len(hdr') = LenBytes
    BY <1>1, <2>2, <2>9
  <2>12. c <= Sizes[m + 1]
    BY <2>2, <2>5
  <2> QED
    BY <2>2, <2>6, <2>7, <2>8, <2>9, <2>10, <2>11, <2>12 DEF ReadInv
<1>8. CASE ReadReturns
  <2>1. io = "body" /\ DataLen = {Sizes[m + 1]}
    BY <1>1, <1>8, DataLenIsSize DEF ReadReturns
  <2>2. b = Sizes[m + 1] /\ m < N /\ h = LenBytes
    BY <1>1, <1>2, <1>8, <2>1 DEF ReadReturns
  <2>3. io' = "add_task" /\ UNCHANGED <<received, hdr, body, wrote, up>>
    BY <1>8 DEF ReadReturns, clientVars, historyVars
  <2>4. b <= Sizes[m + 1]
    BY <1>1, <2>2
  <2> QED
    BY <1>1, <2>2, <2>3, <2>4 DEF ReadInv
<1>9. CASE AddTask
  <2>1. m < N /\ h = LenBytes /\ b = Sizes[m + 1] /\ m + 1 \in 1..N
    BY <1>1, <1>2, <1>9 DEF AddTask
  <2>2. body = Payload(m + 1)
    <3>1. (m + 1) - 1 = m
      OBVIOUS
    <3> QED
      BY <1>1, <2>1, <3>1 DEF Payload, Bytes
  <2>3. PICK k \in 1..N : k = m + 1 /\ k - 1 = m
    BY <2>1
  <2>4. received' = Whole(k) /\ Len(received') = k
    <3>1. received' = Append(Whole(m), Payload(m + 1))
      BY <1>0, <1>1, <1>9, <2>2 DEF AddTask
    <3>2. received' = Whole(k)
      BY <2>3, <3>1, WholeAppend
    <3> QED
      BY <3>2 DEF Whole
  <2>5. Offset[k] = Offset[m] + LenBytes + Sizes[m + 1] /\ Offset[k] \in Nat
    BY <2>3, OffsetDef
  <2>6. wrote' - Len(up') = Offset[k] + 0 + 0
    <3>1. UNCHANGED <<wrote, up>>
      BY <1>9 DEF AddTask, clientVars
    <3>2. wrote' - Len(up') = Offset[m] + h + b
      BY <1>1, <3>1
    <3> QED
      BY <2>1, <2>5, <3>2
  <2>7. /\ hdr' = Bytes(Offset[k], 0) /\ body' = Bytes(Offset[k] + LenBytes, 0)
        /\ Len(hdr') = 0 /\ Len(body') = 0 /\ io' = "loop"
    BY <1>9, EmptySeq DEF AddTask, Bytes
  <2>8. k \in 0..N
    BY <2>3
  <2> QED
    BY <2>4, <2>6, <2>7, <2>8 DEF ReadInv
<1>10. \/ ClientWrite \/ ReadHeader \/ ReadBody \/ ReadReturns \/ AddTask
       \/ /\ UNCHANGED <<received, hdr, body, wrote, up>>
          /\ \/ io' = io
             \/ io \in {"loop", "send"} /\ io' \in {"loop", "send", "header", "closed"}
  BY <1>0, <1>3 DEF Next, Client, Loop, ClientRead, ClientClose, HandleMessage, HandleClose,
     ReadEnds, SendInLoop, Send, Write, WriteFails, WriteReturns,
     vars, clientVars, ioVars, poolVars, historyVars
<1> QED
  BY <1>4, <1>5, <1>6, <1>7, <1>8, <1>9, <1>10

LEMMA AnsweredAppend ==
    ASSUME NEW msgs \in Seq(Results), NEW ks \in Seq(1..Len(msgs)), NEW k \in 1..Len(msgs)
    PROVE  [n \in 1..Len(Append(ks, k)) |-> msgs[Append(ks, k)[n]]]
              = Append([n \in 1..Len(ks) |-> msgs[ks[n]]], msgs[k])
<1> DEFINE more == Append(ks, k)
           s == [n \in 1..Len(ks) |-> msgs[ks[n]]]
           t == [n \in 1..Len(more) |-> msgs[more[n]]]
<1>1. PICK l \in Nat : l = Len(ks)
  BY LenProperties
<1>2. /\ more \in Seq(1..Len(msgs)) /\ Len(more) = l + 1
      /\ more[l + 1] = k /\ \A n \in 1..l : more[n] = ks[n]
  BY <1>1, AppendProperties
<1>3. s \in Seq(Results) /\ t \in Seq(Results) /\ msgs[k] \in Results
  BY <1>2, MessagesType, ElementOfSeq
<1>4. /\ Len(s) = l /\ Len(t) = l + 1
      /\ \A n \in 1..l : s[n] = msgs[ks[n]]
      /\ \A n \in 1..l + 1 : t[n] = msgs[more[n]]
  <2> HIDE DEF more
  <2> QED
    BY <1>1, <1>2
<1> HIDE DEF s, t, more
<1>5. /\ Append(s, msgs[k]) \in Seq(Results) /\ Len(Append(s, msgs[k])) = l + 1
      /\ Append(s, msgs[k])[l + 1] = msgs[k]
      /\ \A n \in 1..l : Append(s, msgs[k])[n] = s[n]
  BY <1>3, <1>4, AppendProperties
<1>6. ASSUME NEW n \in 1..l + 1 PROVE t[n] = Append(s, msgs[k])[n]
  <2>1. CASE n \in 1..l
    <3>1. t[n] = msgs[more[n]] /\ more[n] = ks[n]
      BY <1>2, <1>4, <2>1
    <3>2. Append(s, msgs[k])[n] = msgs[ks[n]]
      BY <1>4, <1>5, <2>1
    <3> QED
      BY <1>2, <2>1, <3>1, <3>2
  <2>2. CASE n = l + 1
    <3>1. t[l + 1] = msgs[more[l + 1]]
      BY <1>4
    <3> QED
      BY <1>2, <1>5, <2>2, <3>1
  <2>3. n \in 1..l \/ n = l + 1
    OBVIOUS
  <2> QED
    BY <2>1, <2>2, <2>3
<1>7. t = Append(s, msgs[k])
  BY <1>3, <1>4, <1>5, <1>6, SeqEqual
<1> QED
  BY <1>7 DEF s, t, more

LEMMA AnsweredStay ==
    ASSUME NEW msgs \in Seq(Results), NEW msg \in Results, NEW ks \in Seq(1..Len(msgs))
    PROVE  [n \in 1..Len(ks) |-> Append(msgs, msg)[ks[n]]] = [n \in 1..Len(ks) |-> msgs[ks[n]]]
<1>1. \A n \in 1..Len(ks) : ks[n] \in 1..Len(msgs)
  BY ElementOfSeq
<1>2. \A n \in 1..Len(ks) : Append(msgs, msg)[ks[n]] = msgs[ks[n]]
  BY <1>1, AppendProperties
<1> QED
  BY <1>2

MovesPast(g, s, t, j) == (g \o (s \o First(t, j))) \o Rest(t, j) = (g \o s) \o t

LEMMA PieceMovesPast ==
    ASSUME NEW T, NEW g \in Seq(T), NEW s \in Seq(T), NEW t \in Seq(T), NEW j \in 0..Len(t)
    PROVE  MovesPast(g, s, t, j)
<1> DEFINE a == First(t, j)
           b == Rest(t, j)
           c == s \o a
<1>1. a \in Seq(T) /\ b \in Seq(T) /\ c \in Seq(T)
  BY FirstRest, PieceMoves
<1>2. c \o b = s \o t
  BY PieceMoves, ZenonT(60)
<1> HIDE DEF a, b, c
<1>3. (g \o c) \o b = g \o (c \o b)
  BY <1>1, ConcatAssociative, SMTT(60)
<1>4. (g \o s) \o t = g \o (s \o t)
  BY ConcatAssociative
<1>5. (g \o c) \o b = (g \o s) \o t
  BY <1>2, <1>3, <1>4
<1> QED
  BY <1>5 DEF a, b, c, MovesPast

LEMMA NextFrames == IInv /\ [Next]_vars => AnswersAreFrames'
<1> SUFFICES ASSUME IInv, [Next]_vars, ~closed' PROVE (got \o down \o out)' = FramesOf(answered)'
  BY DEF AnswersAreFrames
<1>1. /\ got \in Seq(Units) /\ down \in Seq(Units) /\ out \in Seq(Units)
      /\ received \in Seq(Results)
      /\ functors \in Seq(1..Len(received)) /\ answered \in Seq(1..Len(received))
  BY DEF IInv, Types, ClientTypes, DownTypes, OutTypes, PoolTypes
<1>2. ~closed
  BY DEF Next, Client, Loop, ClientWrite, ClientRead, ClientClose, HandleMessage,
     HandleClose, ReadHeader, ReadBody, ReadReturns, ReadEnds, AddTask, SendInLoop, Send,
     Write, WriteFails, WriteReturns, vars, clientVars, ioVars, poolVars, historyVars
<1>3. got \o down \o out = FramesOf(answered)
  BY <1>2 DEF IInv, AnswersAreFrames
<1>4. CASE ClientRead
  <2>1. PICK j \in Pieces(down, PipeSize) :
          got' = got \o First(down, j) /\ down' = Rest(down, j)
    BY <1>4 DEF ClientRead
  <2>2. j \in 0..Len(down)
    BY <1>1, <2>1, PiecesBound, ConstantTypes
  <2>3. got' \o down' = got \o down
    BY <1>1, <2>1, <2>2, PieceMoves, ZenonT(60)
  <2>4. UNCHANGED <<out, received, answered>>
    BY <1>4 DEF ClientRead, ioVars, historyVars
  <2> QED
    BY <1>3, <2>3, <2>4 DEF FramesOf
<1>5. CASE Write
  <2>1. PICK j \in Pieces(out, PipeSize - Len(down)) :
          down' = down \o First(out, j) /\ out' = Rest(out, j)
    BY <1>5 DEF Write
  <2>2. j \in 0..Len(out)
    <3>1. PipeSize - Len(down) \in Int
      BY Lengths, ConstantTypes DEF IInv
    <3> QED
      BY <1>1, <2>1, <3>1, PiecesBound
  <2>3. MovesPast(got, down, out, j)
    BY <1>1, <2>2, PieceMovesPast
  <2>4. UNCHANGED <<got, received, answered>>
    BY <1>5 DEF Write, clientVars, historyVars
  <2> QED
    BY <1>3, <2>1, <2>3, <2>4 DEF FramesOf, MovesPast
<1>6. CASE Send
  <2>1. out = <<>>
    BY <1>6 DEF IInv, OutInv, Send
  <2>2. PICK k \in 1..Len(received) : k = Head(functors)
    BY <1>1, <1>6, HeadTailProperties DEF Send
  <2>3. /\ out' = Train(Answer(received[k])) /\ answered' = Append(answered, k)
        /\ UNCHANGED <<got, down, received>>
    BY <1>6, <2>2 DEF Send, clientVars
  <2> DEFINE msgs == [n \in 1..Len(answered) |-> received[answered[n]]]
  <2>4. msgs \in Seq(Results) /\ received[k] \in Results
    BY <1>1, MessagesType, ElementOfSeq
  <2>5. FramesOf(answered) = Frames(msgs)
    BY DEF FramesOf
  <2>6. FramesOf(answered)' = Frames(Append(msgs, received[k]))
    <3>1. FramesOf(answered)'
            = Frames([n \in 1..Len(Append(answered, k)) |-> received[Append(answered, k)[n]]])
      BY <2>3 DEF FramesOf
    <3> QED
      BY <1>1, <3>1, AnsweredAppend
  <2> HIDE DEF msgs
  <2>7. FramesOf(answered)' = FramesOf(answered) \o Train(Answer(received[k]))
    BY <2>4, <2>5, <2>6, FramesAppend
  <2>8. got \o down = FramesOf(answered)
    <3>1. got \o down \in Seq(Units)
      BY <1>1, ConcatProperties
    <3> QED
      BY <1>3, <2>1, <3>1, ConcatEmptySeq
  <2> QED
    BY <2>3, <2>7, <2>8
<1>7. CASE AddTask
  <2>1. PICK result \in Results : received' = Append(received, result)
    <3>1. body \in Seq(Nat)
      <4>1. body \in Seq(Places)
        BY DEF IInv, Types, ReadTypes
      <4>2. Places \subseteq Nat
        BY Lengths DEF IInv, Places
      <4> QED
        BY <4>1, <4>2, SeqMonotonic
    <3> QED
      BY <1>7, <3>1 DEF AddTask, Results
  <2>2. FramesOf(answered)' = FramesOf(answered)
    <3>1. answered' = answered
      BY <1>7 DEF AddTask
    <3>2. FramesOf(answered)'
            = Frames([n \in 1..Len(answered) |-> Append(received, result)[answered[n]]])
      BY <2>1, <3>1 DEF FramesOf
    <3> QED
      BY <1>1, <3>2, AnsweredStay DEF FramesOf
  <2>3. UNCHANGED <<got, down, out>>
    BY <1>7 DEF AddTask, clientVars
  <2> QED
    BY <1>3, <2>2, <2>3
<1>8. CASE UNCHANGED <<got, down, out, received, answered>>
  BY <1>3, <1>8 DEF FramesOf
<1>9. \/ ClientRead \/ Write \/ Send \/ AddTask
      \/ UNCHANGED <<got, down, out, received, answered>>
  BY <1>2 DEF Next, Client, Loop, ClientWrite, ClientClose, HandleMessage, HandleClose,
     ReadHeader, ReadBody, ReadReturns, ReadEnds, SendInLoop, WriteFails, WriteReturns,
     vars, clientVars, ioVars, poolVars, historyVars
<1> QED
  BY <1>4, <1>5, <1>6, <1>7, <1>8, <1>9

LEMMA Invariance == Spec => []IInv
<1>1. IInv /\ [Next]_vars => IInv'
  BY NextTypes, NextUp, NextRead, NextCut, NextOut, NextFrames DEF IInv
<1> QED
  BY <1>1, InitIInv, PTL DEF Spec

(* Each variable has its type, whatever the sizes of the buffers and of    *)
(* the messages.                                                           *)
THEOREM TypeCorrect == Spec => []TypeOK
<1>1. IInv => TypeOK
  BY DEF IInv, Types, TypeOK, Places, ClientTypes, UpTypes, DownTypes, ReadTypes, PoolTypes
<1> QED
  BY <1>1, Invariance, PTL

(* writen's loop neither loses, repeats nor mixes a byte of the frames it  *)
(* writes, whatever pieces the kernel takes.                               *)
THEOREM FramesCorrect == Spec => []AnswersAreFrames
<1>1. IInv => AnswersAreFrames
  BY DEF IInv
<1> QED
  BY <1>1, Invariance, PTL

-----------------------------------------------------------------------------
(* Stream implements MessageChannel.                                       *)

Begun(w) == {k \in 1..N : w > Offset[k - 1]}

LEMMA BegunCount ==
    ASSUME NEW w \in Nat
    PROVE  \E b \in 0..N : Begun(w) = 1..b /\ Cardinality(Begun(w)) = b
<1>1. PICK b \in 0..N : Begun(w) = 1..b
  BY BegunFirst DEF Begun
<1>2. Cardinality(1..b) = b
  BY <1>1, ConstantTypes, FS_Interval
<1> QED
  BY <1>1, <1>2

LEMMA ChannelInit == Init => Channel!Init
<1> SUFFICES ASSUME Init PROVE Channel!Init
  OBVIOUS
<1>1. PICK b \in 0..N : Begun(0) = 1..b /\ Cardinality(Begun(0)) = b
  BY BegunCount
<1>2. b = 0
  <2>1. 1 \notin Begun(0)
    BY OffsetDef DEF Begun
  <2> QED
    BY <1>1, <2>1, ConstantTypes
<1>3. wrote = 0 /\ received = <<>> /\ cut = FALSE
  BY DEF Init
<1>4. Cardinality({k \in 1..N : wrote > Offset[k - 1]}) = 0
  BY <1>1, <1>2, <1>3 DEF Begun
<1> QED
  BY <1>3, <1>4 DEF Channel!Init

LEMMA ChannelNext == IInv /\ [Next]_vars => [Channel!Next]_Channel!vars
<1> SUFFICES ASSUME IInv, [Next]_vars PROVE [Channel!Next]_Channel!vars
  OBVIOUS
<1>0. wrote \in Nat /\ N \in Nat /\ cut \in BOOLEAN
  BY Lengths, ConstantTypes DEF IInv, Types, ReadTypes
<1>1. PICK b \in 0..N : Begun(wrote) = 1..b /\ Cardinality(Begun(wrote)) = b
  BY <1>0, BegunCount
<1>2. CASE ClientWrite
  <2>1. wrote' \in Nat /\ wrote <= wrote' /\ UNCHANGED <<received, cut>>
    <3>1. PICK j \in 1..Offset[N] - wrote : wrote' = wrote + j
      BY <1>2 DEF ClientWrite
    <3> QED
      BY <1>0, <1>2, <3>1, Lengths DEF ClientWrite, historyVars, IInv
  <2>2. PICK c \in 0..N : Begun(wrote') = 1..c /\ Cardinality(Begun(wrote')) = c
    BY <2>1, BegunCount
  <2>3. b <= c
    <3>1. Begun(wrote) \subseteq Begun(wrote')
      BY <1>0, <2>1, OffsetDef DEF Begun
    <3> QED
      BY <1>0, <1>1, <2>2, <3>1
  <2>4. CASE b = c
    BY <1>1, <2>1, <2>2, <2>4 DEF Begun, Channel!vars
  <2>5. CASE b # c
    <3>1. c \in b + 1..N
      BY <1>0, <2>3, <2>5
    <3>2. Len([k \in 1..N |-> Payload(k)]) = N
      BY <1>0
    <3>3. Channel!Send
      BY <1>1, <2>1, <2>2, <3>1, <3>2 DEF Begun, Channel!Send
    <3> QED
      BY <3>3 DEF Channel!Next
  <2> QED
    BY <2>4, <2>5
<1>3. CASE ReadEnds
  <2>1. ~cut /\ cut' = TRUE /\ UNCHANGED <<wrote, received>>
    BY <1>0, <1>3 DEF ReadEnds, IInv, CutInv
  <2> QED
    BY <2>1 DEF Channel!Cut, Channel!Next
<1>4. CASE AddTask /\ cut
  <2>1. PICK m \in 0..N : received = Whole(m)
    BY <1>4 DEF IInv, CutInv, AddTask
  <2>2. Len(received) = m /\ \A k \in 1..m : received[k] = Payload(k)
    BY <2>1 DEF Whole
  <2>3. ASSUME NEW k \in 1..m PROVE received[k] # Broken
    <3>1. k \in 1..N /\ k - 1 \in 0..N
      BY <1>0
    <3>2. Sizes[k] \in Nat /\ Offset[k - 1] \in Nat /\ LenBytes \in Nat
      BY <3>1, ConstantTypes, OffsetDef
    <3>3. Payload(k) \in Seq(Nat)
      BY <3>2 DEF Payload
    <3> QED
      BY <2>2, <3>3, ConstantTypes
  <2>4. received' = Append(received, Broken) /\ UNCHANGED <<wrote, cut>>
    BY <1>4 DEF AddTask, clientVars
  <2>5. Channel!Break
    BY <1>4, <2>2, <2>3, <2>4 DEF Channel!Break
  <2> QED
    BY <2>5 DEF Channel!Next
<1>5. CASE AddTask /\ ~cut
  <2>1. PICK m \in 0..N, h \in 0..LenBytes, s \in Nat :
          /\ Len(received) = m /\ received = Whole(m)
          /\ Len(hdr) = h /\ hdr = Bytes(Offset[m], h)
          /\ Len(body) = s /\ body = Bytes(Offset[m] + LenBytes, s)
          /\ wrote - Len(up) = Offset[m] + h + s
          /\ Offset[m] \in Nat
          /\ m < N => m + 1 \in 1..N /\ Sizes[m + 1] \in Nat
    BY <1>5, ReadParts
  <2>2. m < N /\ h = LenBytes /\ s = Sizes[m + 1]
    BY <1>5, <2>1 DEF IInv, ReadInv, AddTask
  <2>3. (m + 1) - 1 = m /\ m + 1 \in 1..N
    BY <2>1, <2>2
  <2>4. body = Payload(m + 1)
    BY <2>1, <2>2, <2>3 DEF Payload, Bytes
  <2>5. m < b
    <3>1. wrote > Offset[m]
      <4>1. PICK l \in Nat : l = Len(up)
        BY Lengths DEF IInv
      <4> QED
        BY <1>0, <2>1, <2>2, <4>1, ConstantTypes
    <3>2. m + 1 \in Begun(wrote)
      BY <2>3, <3>1 DEF Begun
    <3> QED
      BY <1>1, <3>2
  <2>6. received' = Append(received, body) /\ UNCHANGED <<wrote, cut>>
    BY <1>5 DEF AddTask, clientVars
  <2>7. [k \in 1..N |-> Payload(k)][m + 1] = body
    BY <2>3, <2>4
  <2>8. Channel!Receive
    BY <1>1, <1>5, <2>1, <2>5, <2>6, <2>7 DEF Begun, Channel!Receive
  <2> QED
    BY <2>8 DEF Channel!Next
<1>6. CASE UNCHANGED <<wrote, received, cut>>
  BY <1>6 DEF Channel!vars
<1>7. ClientWrite \/ ReadEnds \/ AddTask \/ UNCHANGED <<wrote, received, cut>>
  BY DEF Next, Client, Loop, ClientRead, ClientClose, HandleMessage, HandleClose,
     ReadHeader, ReadBody, ReadReturns, SendInLoop, Send, Write, WriteFails, WriteReturns,
     vars, clientVars, ioVars, poolVars, historyVars
<1> QED
  BY <1>2, <1>3, <1>4, <1>5, <1>6, <1>7

(* Whatever the messages and however their bytes are split on the way,     *)
(* receive() and readn keep what MessageChannel promises onMessage.        *)
THEOREM StreamImplementsChannel == Spec => ImplementsChannel
  BY ChannelInit, ChannelNext, Invariance, PTL DEF Spec, Channel!Spec, ImplementsChannel
=============================================================================
