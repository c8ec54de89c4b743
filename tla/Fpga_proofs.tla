----------------------------- MODULE Fpga_proofs ------------------------------
(* Theorems about Fpga.tla, for any threads, words and contents.           *)
EXTENDS Fpga, Powers_proofs

(* fpga_lock is only ever TRUE while a thread that set it has not yet      *)
(* reset it.  Not the other way round: a thread's reset takes the lock     *)
(* from under another that set it too.                                     *)
LockHeld == fpga_lock => \E t \in Threads : at[t] \in {"read", "unlock"}

AtType == at \in [Threads -> {"out", "ready"} \cup Testing]

IInv == AtType /\ LockHeld

LEMMA InitIInv == Init => IInv
  BY DEF Init, IInv, AtType, LockHeld

(* A step that leaves the lock alone, of a thread that neither enters nor  *)
(* leaves the part where it is held, keeps IInv.                           *)
LEMMA GoKeeps ==
  ASSUME IInv, UNCHANGED fpga_lock, NEW t \in Threads,
         NEW from, NEW to \in {"out", "ready"} \cup Testing,
         Go(t, from, to), from \in {"read", "unlock"} => to \in {"read", "unlock"}
  PROVE  IInv'
<1>1. AtType'
  BY DEF IInv, AtType, Go
<1>2. LockHeld'
  <2> SUFFICES ASSUME fpga_lock PROVE \E u \in Threads : at'[u] \in {"read", "unlock"}
    BY DEF LockHeld
  <2>1. PICK u \in Threads : at[u] \in {"read", "unlock"}
    BY DEF IInv, LockHeld
  <2>2. at'[u] \in {"read", "unlock"}
    BY <2>1 DEF IInv, AtType, Go
  <2> QED
    BY <2>2
<1> QED
  BY <1>1, <1>2 DEF IInv

LEMMA NextIInv == IInv /\ [Next]_vars => IInv'
<1> SUFFICES ASSUME IInv, [Next]_vars PROVE IInv'
  OBVIOUS
<1> USE DEF Testing
<1>1. ASSUME NEW t \in Threads, FpgaInit(t) PROVE IInv'
  BY <1>1, GoKeeps DEF FpgaInit, Go
<1>2. ASSUME NEW t \in Threads, FpgaExit(t) PROVE IInv'
  BY <1>2, GoKeeps DEF FpgaExit, Go
<1>3. ASSUME NEW t \in Threads, TestEnable(t) PROVE IInv'
  BY <1>3, GoKeeps DEF TestEnable
<1>4. ASSUME NEW t \in Threads, TestCheck(t) PROVE IInv'
  BY <1>4, GoKeeps DEF TestCheck
<1>5. ASSUME NEW t \in Threads, TestStop(t) PROVE IInv'
  BY <1>5, GoKeeps DEF TestStop
<1>6. ASSUME NEW t \in Threads, TestStart(t) PROVE IInv'
  BY <1>6, GoKeeps DEF TestStart
<1>7. ASSUME NEW t \in Threads, TestLock(t) PROVE IInv'
  BY <1>7 DEF TestLock, Go, IInv, AtType, LockHeld
<1>8. ASSUME NEW t \in Threads, TestRead(t) PROVE IInv'
  BY <1>8, GoKeeps DEF TestRead
<1>9. ASSUME NEW t \in Threads, TestUnlock(t) PROVE IInv'
  BY <1>9 DEF TestUnlock, Go, IInv, AtType, LockHeld
<1>10. CASE Done \/ Interrupt \/ UNCHANGED vars
  BY <1>10 DEF Done, Interrupt, vars, IInv, AtType, LockHeld
<1> QED
  BY <1>1, <1>2, <1>3, <1>4, <1>5, <1>6, <1>7, <1>8, <1>9, <1>10 DEF Next, Test

(* Uio::cmd_test_reg: with any number of threads, and although its lock is *)
(* no lock, a test that finds no other under way is not refused.           *)
THEOREM LockCorrect == Spec => []LockFreeWhenIdle
<1>1. IInv => LockFreeWhenIdle
  BY DEF IInv, LockHeld, LockFreeWhenIdle, Testing
<1> QED
  BY <1>1, InitIInv, NextIInv, PTL DEF Spec

-----------------------------------------------------------------------------
LEMMA NextTypeOK == TypeOK /\ [Next]_vars => TypeOK'
<1> SUFFICES ASSUME TypeOK, [Next]_vars PROVE TypeOK'
  OBVIOUS
<1> USE DEF TypeOK, deviceVars
<1>mem. mem' = mem
  BY DEF Next, vars, Test, FpgaInit, FpgaExit, TestEnable, TestCheck, TestStop, TestStart,
         TestLock, TestRead, TestUnlock, Done, Interrupt
<1>memories. Memories' = Memories
  OBVIOUS
<1> USE DEF Testing, Go
<1>1. ASSUME NEW t \in Threads, FpgaInit(t) PROVE TypeOK'
  BY <1>1, <1>mem, <1>memories DEF FpgaInit
<1>2. ASSUME NEW t \in Threads, FpgaExit(t) PROVE TypeOK'
  BY <1>2, <1>mem, <1>memories DEF FpgaExit
<1>3. ASSUME NEW t \in Threads, TestEnable(t) PROVE TypeOK'
  BY <1>3, <1>mem, <1>memories DEF TestEnable
<1>4. ASSUME NEW t \in Threads, TestCheck(t) PROVE TypeOK'
  BY <1>4, <1>mem, <1>memories DEF TestCheck
<1>5. ASSUME NEW t \in Threads, TestStop(t) PROVE TypeOK'
  BY <1>5, <1>mem, <1>memories DEF TestStop
<1>6. ASSUME NEW t \in Threads, TestStart(t) PROVE TypeOK'
  BY <1>6, <1>mem, <1>memories DEF TestStart
<1>7. ASSUME NEW t \in Threads, TestLock(t) PROVE TypeOK'
  BY <1>7, <1>mem, <1>memories DEF TestLock
<1>8. ASSUME NEW t \in Threads, TestRead(t) PROVE TypeOK'
  BY <1>8, <1>mem, <1>memories DEF TestRead
<1>9. ASSUME NEW t \in Threads, TestUnlock(t) PROVE TypeOK'
  BY <1>9, <1>mem, <1>memories DEF TestUnlock
<1>10. CASE Done \/ Interrupt \/ UNCHANGED vars
  BY <1>10, <1>mem, <1>memories DEF Done, Interrupt, vars
<1> QED
  BY <1>1, <1>2, <1>3, <1>4, <1>5, <1>6, <1>7, <1>8, <1>9, <1>10 DEF Next, Test

(* The variables stay in their types, and only an open file has an         *)
(* interrupt to report: fpga_exit leaves none behind for the next          *)
(* fpga_init.                                                              *)
THEOREM TypeCorrect == Spec => []TypeOK
<1>1. Init => TypeOK
  BY DEF Init, TypeOK, Testing
<1> QED
  BY <1>1, NextTypeOK, PTL DEF Spec

-----------------------------------------------------------------------------
(* The index.                                                              *)

WordMax == Power[IntSize] - 1

(* What FpgaAssumption says of the sizes in word 0.                         *)
LEMMA MemType ==
    ASSUME mem \in Memories
    PROVE  /\ mem.bits \in 0..Power[ByteSize] - 1 /\ mem.bits \in Nat
           /\ mem.num \in 0..Power[ByteSize] - 1 /\ mem.num \in Nat
           /\ Words \in Nat /\ mem.bytes = Words % Power[ByteSize]
           /\ mem.word \in [1..Words -> 0..WordMax]
           /\ mem.value = [i \in 0..mem.num - 1 |-> 10 + i]
<1>1. PICK h \in Headers :
        mem \in [bits : {h[1]}, num : {h[2]},
                 bytes : {IndexWords(h[1], h[2]) % Power[ByteSize]},
                 word : [1..IndexWords(h[1], h[2]) -> 0..Power[IntSize] - 1],
                 value : {[i \in 0..h[2] - 1 |-> 10 + i]}]
  BY DEF Memories
<1>2. {h[1], h[2]} \subseteq 0..Power[ByteSize] - 1 /\ IntSize \in Nat \ {0} /\ ByteSize \in Nat
  BY <1>1, FpgaAssumption
<1>3. Power[ByteSize] \in Nat \ {0}
  BY <1>2, PowerPositive
<1>4. h[1] \in Nat /\ h[2] \in Nat
  BY <1>2, <1>3
<1>5. /\ mem.bits = h[1] /\ mem.num = h[2] /\ mem.value = [i \in 0..h[2] - 1 |-> 10 + i]
      /\ mem.bytes = IndexWords(h[1], h[2]) % Power[ByteSize]
      /\ mem.word \in [1..IndexWords(h[1], h[2]) -> 0..WordMax]
  BY <1>1 DEF WordMax
<1>6. Words = IndexWords(h[1], h[2])
  BY <1>5 DEF Words
<1>7. IndexWords(h[1], h[2]) \in Nat
  <2>1. PICK a \in Nat : a = h[1] * h[2] + IntSize - 1
    <3>1. h[1] * h[2] \in Nat
      BY <1>4
    <3> QED
      BY <1>2, <3>1
  <2>2. a \div IntSize \in Nat
    BY <1>2
  <2> QED
    BY <2>1, <2>2 DEF IndexWords
<1> QED
  BY <1>2, <1>4, <1>5, <1>6, <1>7

(* The words of the index hold all its entries.                            *)
LEMMA EntryFits ==
    ASSUME mem \in Memories, NEW i \in 0..mem.num - 1
    PROVE  i * mem.bits \in Nat /\ i * mem.bits + mem.bits <= IntSize * Words
<1>1. PICK b \in Nat, n \in Nat : b = mem.bits /\ n = mem.num /\ n # 0
  BY MemType
<1>2. i * b \in Nat /\ i * b + b <= b * n /\ b * n \in Nat
  <2>1. i * b <= (n - 1) * b /\ (n - 1) * b = b * n - b /\ b * n \in Nat /\ i * b \in Nat
    BY <1>1
  <2> QED
    BY <1>1, <2>1
<1>3. b * n <= IntSize * Words
  <2>1. PICK a \in Nat : a = b * n + IntSize - 1
    BY <1>2, FpgaAssumption
  <2>2. Words = a \div IntSize
    BY <1>1, <2>1 DEF Words, IndexWords
  <2>3. a = IntSize * Words + (a % IntSize) /\ a % IntSize \in 0..IntSize - 1
    BY <2>2, DivMod, FpgaAssumption
  <2>4. IntSize * Words \in Int
    BY MemType, FpgaAssumption
  <2> QED
    BY <1>2, <2>1, <2>3, <2>4, FpgaAssumption
<1>4. IntSize * Words \in Int
  BY MemType, FpgaAssumption
<1>5. i * b + b <= IntSize * Words
  BY <1>1, <1>2, <1>3, <1>4
<1> QED
  BY <1>1, <1>2, <1>5

(* IndexNumber is a function that has its definition's values.             *)
LEMMA IndexNumberDef ==
    ASSUME mem \in Memories
    PROVE  /\ IndexNumber \in [0..Words -> Nat] /\ IndexNumber[0] = 0
           /\ \A k \in 1..Words :
                IndexNumber[k] = IndexNumber[k - 1] + mem.word[k] * Power[IntSize * (k - 1)]
<1> DEFINE D == 0..Words
           Term(k) == mem.word[k] * Power[IntSize * (k - 1)]
           step == [p \in Nat \X (D \ {0}) |-> p[1] + Term(p[2])]
           Def(f) == [k \in D |-> IF k = 0 THEN 0 ELSE f[k - 1] + Term(k)]
<1>0. Words \in Nat
  BY MemType
<1>1. \A k \in D \ {0} : Term(k) \in Nat
  <2> SUFFICES ASSUME NEW k \in D \ {0} PROVE Term(k) \in Nat
    OBVIOUS
  <2>1. mem.word[k] \in Nat
    BY <1>0, MemType
  <2>2. IntSize * (k - 1) \in Nat
    BY <1>0, FpgaAssumption
  <2> QED
    BY <2>1, <2>2, PowerPositive
<1>d. IndexNumber = CHOOSE g : g = Def(g)
  BY DEF IndexNumber
<1> HIDE DEF Term
<1>2. /\ step \in [Nat \X (D \ {0}) -> Nat]
      /\ \A a \in Nat, k \in D \ {0} : step[<<a, k>>] = a + Term(k)
  BY <1>1
<1> HIDE DEF step
<1>3. PICK f \in [D -> Nat] : Iterates(f, 0, step, D)
  <2>1. D \in SUBSET Nat /\ 0 \in D /\ \A k \in D \ {0} : k - 1 \in D
    BY <1>0
  <2> HIDE DEF D
  <2> QED
    BY <1>2, <2>1, Recursion
<1>4. f = Def(f)
  <2>1. ASSUME NEW k \in D PROVE f[k] = IF k = 0 THEN 0 ELSE f[k - 1] + Term(k)
    <3>1. CASE k = 0
      BY <1>3, <3>1 DEF Iterates
    <3>2. CASE k # 0
      <4>1. k \in D \ {0} /\ f[k - 1] \in Nat
        BY <1>0, <1>3, <3>2
      <4> QED
        BY <1>2, <1>3, <4>1 DEF Iterates
    <3> QED
      BY <3>1, <3>2
  <2> QED
    BY <1>3, <2>1
<1>5. IndexNumber = Def(IndexNumber)
  BY <1>4, <1>d
<1>6. IndexNumber[0] = 0 /\ \A k \in 1..Words : IndexNumber[k] = IndexNumber[k - 1] + Term(k)
  <2>1. ASSUME NEW k \in D
        PROVE  IndexNumber[k] = IF k = 0 THEN 0 ELSE IndexNumber[k - 1] + Term(k)
    BY <1>5
  <2> QED
    BY <1>0, <2>1
<1>7. ASSUME NEW n \in D PROVE IndexNumber[n] \in Nat
  <2> DEFINE S == {k \in Nat : k \in D => IndexNumber[k] \in Nat}
  <2>1. 0 \in S
    BY <1>6
  <2>2. ASSUME NEW k \in Nat, k \in S PROVE k + 1 \in S
    <3> SUFFICES ASSUME k + 1 \in D PROVE IndexNumber[k + 1] \in Nat
      OBVIOUS
    <3>1. k + 1 \in 1..Words /\ k + 1 \in D \ {0} /\ (k + 1) - 1 = k /\ IndexNumber[k] \in Nat
      BY <1>0, <2>2
    <3>2. IndexNumber[k + 1] = IndexNumber[k] + Term(k + 1) /\ Term(k + 1) \in Nat
      BY <1>1, <1>6, <3>1
    <3> QED
      BY <3>1, <3>2
  <2> HIDE DEF S
  <2>3. Nat \subseteq S
    BY <2>1, <2>2, SetInduction
  <2>4. n \in Nat
    BY <1>0
  <2>5. n \in S
    BY <2>3, <2>4, Zenon
  <2> QED
    BY <2>5 DEF S
<1>8. IndexNumber = [k \in D |-> IndexNumber[k]]
  BY <1>5
<1> QED
  BY <1>6, <1>7, <1>8 DEF Term

(* The first q words of the index are a number below the place of the      *)
(* next one.                                                               *)
LEMMA IndexLow ==
    ASSUME mem \in Memories, NEW q \in 0..Words
    PROVE  IndexNumber[q] \in 0..Power[IntSize * q] - 1
<1> DEFINE S == {k \in Nat : k <= Words => IndexNumber[k] \in 0..Power[IntSize * k] - 1}
<1>0. Words \in Nat /\ IntSize \in Nat
  BY MemType, FpgaAssumption
<1>1. 0 \in S
  <2>1. IntSize * 0 = 0
    BY <1>0
  <2>2. Power[IntSize * 0] = 1
    BY <2>1, PowerDef
  <2>3. IndexNumber[0] = 0
    BY IndexNumberDef
  <2> QED
    BY <2>2, <2>3
<1>2. ASSUME NEW k \in Nat, k \in S PROVE k + 1 \in S
  <2> SUFFICES ASSUME k + 1 <= Words
               PROVE  IndexNumber[k + 1] \in 0..Power[IntSize * (k + 1)] - 1
    OBVIOUS
  <2>1. k + 1 \in 1..Words /\ (k + 1) - 1 = k
    BY <1>0
  <2>2. PICK n \in Nat, w \in Nat, p \in Nat, m \in Nat :
          /\ n = IndexNumber[k] /\ w = mem.word[k + 1]
          /\ p = Power[IntSize * k] /\ m = Power[IntSize]
    <3>1. IntSize * k \in Nat
      BY <1>0
    <3>2. mem.word[k + 1] \in 0..WordMax /\ Power[IntSize] \in Nat
      BY <1>0, <2>1, MemType, PowerPositive
    <3>3. mem.word[k + 1] \in Nat
      BY <3>2 DEF WordMax
    <3>4. k \in 0..Words
      BY <1>0, <2>1
    <3>5. IndexNumber[k] \in Nat
      BY <3>4, IndexNumberDef
    <3>6. Power[IntSize * k] \in Nat
      BY <3>1, PowerPositive
    <3> QED
      BY <3>2, <3>3, <3>5, <3>6
  <2>3. n <= p - 1
    <3>1. IndexNumber[k] \in 0..Power[IntSize * k] - 1
      BY <1>0, <1>2, <2>1
    <3> QED
      BY <2>2, <3>1
  <2>4. w <= m - 1
    <3>1. mem.word[k + 1] \in 0..WordMax
      BY <1>0, <2>1, MemType
    <3> QED
      BY <2>2, <3>1 DEF WordMax
  <2>5. IndexNumber[k + 1] = n + w * p
    BY <2>1, <2>2, IndexNumberDef
  <2>6. Power[IntSize * (k + 1)] = p * m
    <3>1. IntSize * (k + 1) = IntSize * k + IntSize /\ IntSize * k \in Nat
      BY <1>0
    <3> QED
      BY <1>0, <2>2, <3>1, PowerSum
  <2>7. n + w * p \in 0..p * m - 1
    <3>1. w * p <= (m - 1) * p /\ (m - 1) * p = p * m - p /\ w * p \in Nat /\ p * m \in Nat
      BY <2>4
    <3> QED
      BY <2>3, <3>1
  <2> QED
    BY <2>5, <2>6, <2>7
<1> HIDE DEF S
<1>3. q \in S
  BY <1>0, <1>1, <1>2, SetInduction
<1> QED
  BY <1>0, <1>3 DEF S

(* Above its first q words, the index is a multiple of their place.        *)
LEMMA IndexHigh ==
    ASSUME mem \in Memories, NEW q \in 0..Words
    PROVE  \E rest \in Nat :
             IndexNumber[Words] = IndexNumber[q] + Power[IntSize * q] * rest
<1> DEFINE From(n, k) == \E rest \in Nat : IndexNumber[n] = IndexNumber[k] + Power[IntSize * k] * rest
           S == {d \in Nat : q + d <= Words => From(q + d, q)}
<1>0. Words \in Nat /\ IntSize \in Nat /\ q \in Nat /\ IntSize * q \in Nat
  BY MemType, FpgaAssumption
<1>p. Power[IntSize * q] \in Nat /\ IndexNumber[q] \in Nat
  BY <1>0, PowerPositive, IndexNumberDef
<1>1. 0 \in S
  <2>1. q + 0 = q /\ IndexNumber[q] = IndexNumber[q] + Power[IntSize * q] * 0
    BY <1>0, <1>p
  <2> QED
    BY <2>1
<1>2. ASSUME NEW d \in Nat, d \in S PROVE d + 1 \in S
  <2> SUFFICES ASSUME q + (d + 1) <= Words PROVE From(q + (d + 1), q)
    OBVIOUS
  <2>1. PICK k \in 1..Words : k = q + (d + 1) /\ k - 1 = q + d
    BY <1>0
  <2>2. PICK rest \in Nat : IndexNumber[k - 1] = IndexNumber[q] + Power[IntSize * q] * rest
    BY <1>0, <1>2, <2>1
  <2>3. IndexNumber[k] = IndexNumber[k - 1] + mem.word[k] * Power[IntSize * (k - 1)]
    BY IndexNumberDef
  <2>4. IntSize * (k - 1) = IntSize * q + IntSize * d /\ IntSize * d \in Nat
    BY <1>0, <2>1
  <2>5. Power[IntSize * (k - 1)] = Power[IntSize * q] * Power[IntSize * d]
    BY <1>0, <2>4, PowerSum
  <2>6. PICK w \in Nat, p \in Nat, e \in Nat, n \in Nat :
          /\ w = mem.word[k] /\ p = Power[IntSize * q] /\ e = Power[IntSize * d]
          /\ n = IndexNumber[q]
    <3>1. mem.word[k] \in 0..WordMax /\ Power[IntSize] \in Nat
      BY <1>0, MemType, PowerPositive
    <3>2. mem.word[k] \in Nat
      BY <3>1 DEF WordMax
    <3>3. Power[IntSize * d] \in Nat
      BY <2>4, PowerPositive
    <3> QED
      BY <1>p, <3>2, <3>3
  <2>7. n + p * rest + w * (p * e) = n + p * (rest + w * e) /\ rest + w * e \in Nat
    OBVIOUS
  <2>8. IndexNumber[k] = IndexNumber[q] + Power[IntSize * q] * (rest + w * e)
    BY <2>2, <2>3, <2>5, <2>6, <2>7
  <2> QED
    BY <2>1, <2>7, <2>8
<1> HIDE DEF S
<1>3. Nat \subseteq S
  BY <1>1, <1>2, SetInduction
<1>4. PICK d \in Nat : d = Words - q /\ q + d = Words
  BY <1>0
<1> HIDE DEF From
<1>5. From(q + d, q)
  <2>1. d \in S /\ q + d <= Words
    BY <1>0, <1>3, <1>4
  <2> QED
    BY <2>1, Zenon DEF S
<1> USE DEF From
<1> QED
  BY <1>4, <1>5

(* What is at the q-th word of the index and above it.                     *)
LEMMA IndexFrom ==
    ASSUME mem \in Memories, NEW q \in Nat, q < Words
    PROVE  \E rest \in Nat :
             /\ IndexNumber[Words] \div Power[IntSize * q]
                    = mem.word[q + 1] + Power[IntSize] * rest
             /\ q + 1 < Words =>
                    \E more \in Nat : rest = mem.word[q + 2] + Power[IntSize] * more
<1>0. Words \in Nat /\ IntSize \in Nat /\ IntSize * q \in Nat
  BY MemType, FpgaAssumption
<1>1. PICK k \in 1..Words : k = q + 1 /\ k - 1 = q
  BY <1>0
<1>2. PICK rest \in Nat : IndexNumber[Words] = IndexNumber[k] + Power[IntSize * k] * rest
  BY <1>0, <1>1, IndexHigh
<1>3. PICK w \in Nat, p \in Nat \ {0}, m \in Nat, n \in Nat :
        /\ w = mem.word[k] /\ p = Power[IntSize * q] /\ m = Power[IntSize] /\ n = IndexNumber[q]
  <2>1. mem.word[k] \in 0..WordMax /\ Power[IntSize] \in Nat
    BY <1>0, MemType, PowerPositive
  <2>2. mem.word[k] \in Nat
    BY <2>1 DEF WordMax
  <2>3. q \in 0..Words
    BY <1>0
  <2>4. IndexNumber[q] \in Nat
    BY <2>3, IndexNumberDef
  <2>5. Power[IntSize * q] \in Nat \ {0}
    BY <1>0, PowerPositive
  <2> QED
    BY <2>1, <2>2, <2>4, <2>5
<1>4. IndexNumber[k] = n + w * p
  BY <1>1, <1>3, IndexNumberDef
<1>5. Power[IntSize * k] = p * m
  <2>1. IntSize * k = IntSize * q + IntSize
    BY <1>0, <1>1
  <2>2. Power[IntSize * q + IntSize] = Power[IntSize * q] * Power[IntSize]
    BY <1>0, PowerSum
  <2> QED
    BY <1>3, <2>1, <2>2
<1>6. IndexNumber[Words] = p * (w + m * rest) + n /\ w + m * rest \in Int
  <2>1. n + w * p + (p * m) * rest = p * (w + m * rest) + n /\ w + m * rest \in Int
    OBVIOUS
  <2> QED
    BY <1>2, <1>4, <1>5, <2>1
<1>7. n \in 0..p - 1
  <2>1. q \in 0..Words
    BY <1>0
  <2> QED
    BY <1>3, <2>1, IndexLow
<1>8. IndexNumber[Words] \in Int
  BY <1>6
<1>9. IndexNumber[Words] \div p = w + m * rest
  BY <1>6, <1>7, <1>8, DivUnique
<1>10. ASSUME q + 1 < Words
       PROVE  \E more \in Nat : rest = mem.word[q + 2] + Power[IntSize] * more
  <2>1. PICK l \in 1..Words : l = q + 2 /\ l - 1 = k
    BY <1>0, <1>1, <1>10
  <2>2. PICK more \in Nat : IndexNumber[Words] = IndexNumber[l] + Power[IntSize * l] * more
    BY <1>0, <2>1, IndexHigh
  <2>3. PICK v \in Nat : v = mem.word[l]
    <3>1. mem.word[l] \in 0..WordMax
      BY MemType
    <3>2. mem.word[l] \in Nat
      BY <1>3, <3>1 DEF WordMax
    <3> QED
      BY <3>2
  <2>4. Power[IntSize * l] = (p * m) * m
    <3>1. IntSize * l = IntSize * k + IntSize /\ IntSize * k \in Nat
      BY <1>0, <1>1, <2>1
    <3>2. Power[IntSize * k + IntSize] = Power[IntSize * k] * Power[IntSize]
      BY <1>0, <3>1, PowerSum, Zenon
    <3> QED
      BY <1>3, <1>5, <3>1, <3>2, Zenon
  <2>5. IndexNumber[l] = IndexNumber[k] + v * (p * m)
    BY <1>5, <2>1, <2>3, IndexNumberDef
  <2>6. PICK a \in Nat, z \in Nat \ {0} : a = IndexNumber[k] /\ z = p * m
    <3>1. k \in 0..Words
      BY <1>0
    <3>2. IndexNumber[k] \in Nat
      BY <3>1, IndexNumberDef
    <3>3. Power[IntSize * k] \in Nat \ {0}
      <4>1. IntSize * k \in Nat
        BY <1>0, <1>1
      <4> QED
        BY <4>1, PowerPositive
    <3> QED
      BY <1>5, <3>2, <3>3
  <2>7. a + z * rest = a + v * z + (z * m) * more
    BY <1>2, <1>5, <2>2, <2>4, <2>5, <2>6
  <2>8. z * rest = z * (v + m * more)
    <3>1. v * z + (z * m) * more = z * (v + m * more)
      OBVIOUS
    <3>2. z * rest \in Int /\ v * z \in Int /\ (z * m) * more \in Int
      OBVIOUS
    <3> QED
      BY <2>7, <3>1, <3>2
  <2>9. rest = v + m * more
    <3>1. z * rest = z * rest + 0 /\ z * rest = z * (v + m * more) + 0
      BY <2>8
    <3>2. 0 \in 0..z - 1 /\ z * rest \in Int /\ v + m * more \in Int
      OBVIOUS
    <3>3. (z * rest) \div z = rest
      BY <3>1, <3>2, DivUnique
    <3>4. (z * rest) \div z = v + m * more
      BY <3>1, <3>2, DivUnique
    <3> QED
      BY <3>3, <3>4
  <2> QED
    BY <1>3, <2>1, <2>3, <2>9
<1> QED
  BY <1>1, <1>3, <1>9, <1>10

(* What a char can say is read as it is, of a width too, and then of the   *)
(* number of words that the index has, since it has no more than entries.  *)
LEMMA CharReads ==
    ASSUME NEW n \in 0..Power[ByteSize] - 1
    PROVE  /\ Char(n) \in Int
           /\ Char(n) >= 0 => Char(n) = n
           /\ Char(n) = n => \A m \in 0..n : Char(m) = m
<1>1. PICK p \in Nat, h \in Nat : p = Power[ByteSize] /\ h = Power[ByteSize - 1]
  <2>1. ByteSize \in Nat /\ ByteSize - 1 \in Nat
    BY FpgaAssumption
  <2> QED
    BY <2>1, PowerPositive
<1>2. n \in Nat /\ n < p
  BY <1>1
<1> QED
  BY <1>1, <1>2, FpgaAssumption DEF Char

LEMMA WordsRead ==
    ASSUME mem \in Memories, mem.bits <= IntSize, index_num = mem.num
    PROVE  inedx_bytes = Words
<1>1. PICK I \in Nat \ {0}, b \in Nat, n \in Nat, k \in Nat :
        I = IntSize /\ b = mem.bits /\ n = mem.num /\ k = Words /\ b <= I
  BY MemType, FpgaAssumption
<1>2. k <= n
  <2>1. b * n \in Nat /\ b * n <= I * n
    BY <1>1
  <2>2. PICK a \in Nat : a = b * n + I - 1
    BY <2>1
  <2>3. k = a \div I
    BY <1>1, <2>2 DEF Words, IndexWords
  <2>4. a = I * k + (a % I) /\ a % I \in 0..I - 1
    BY <2>3, DivMod
  <2>5. I * k <= I * n + (I - 1) /\ I * n \in Int /\ I * k \in Int
    BY <2>1, <2>2, <2>4
  <2>6. ASSUME k >= n + 1 PROVE FALSE
    <3>1. I * k >= I * (n + 1) /\ I * (n + 1) = I * n + I
      BY <2>6
    <3> QED
      BY <2>5, <3>1
  <2> QED
    BY <2>6
<1>3. n \in 0..Power[ByteSize] - 1 /\ Char(n) = n /\ k \in 0..n
  BY <1>1, <1>2, MemType DEF index_num
<1>4. Char(k) = k
  BY <1>3, CharReads
<1>5. Power[ByteSize] \in Nat \ {0}
  BY PowerPositive, FpgaAssumption
<1>6. k % Power[ByteSize] = k
  BY <1>3, <1>5
<1> QED
  BY <1>1, <1>4, <1>6, MemType DEF inedx_bytes

(* Shifts of less than a word.                                             *)
LEMMA ShiftDef == \A n \in 0..IntSize - 1 : Shift(n) = Power[n]
<1>1. \A n \in 0..IntSize - 1 : n % IntSize = n
  BY FpgaAssumption
<1> QED
  BY <1>1 DEF Shift

(* Entries of no bits are 0, and are read as 0.                            *)
LEMMA NoBits ==
    ASSUME mem \in Memories, mem.bits = 0, index_bits = 0, NEW i \in 0..mem.num - 1
    PROVE  Index(i) = Entry(i)
<1>1. PICK I \in Nat \ {0}, n \in Nat : I = IntSize /\ n = mem.num /\ i \in 0..n - 1
  BY MemType, FpgaAssumption
<1>2. i * 0 = 0 /\ 0 \div I = 0 /\ 0 % I = 0 /\ 0 * n = 0
  BY <1>1
<1>3. Words = 0
  <2>1. (0 + I - 1) \div I = 0
    BY <1>1
  <2>2. Words = (0 * n + I - 1) \div I
    BY <1>1 DEF Words, IndexWords
  <2> QED
    BY <1>2, <2>1, <2>2
<1>4. Mapped(1) = 10
  <2>1. 0 \in 0..n - 1 /\ mem.value = [j \in 0..n - 1 |-> 10 + j]
    BY <1>1, MemType
  <2>2. mem.value[0] = 10
    BY <2>1
  <2>3. Mapped(1) = mem.value[0]
    BY <1>3 DEF Mapped
  <2> QED
    BY <2>2, <2>3
<1>5. Power[0] = 1 /\ Shift(0) = 1
  BY <1>1, <1>2, PowerDef DEF Shift
<1>6. Index(i) = 0
  <2>1. Index(i) = (10 \div 1) % 1
    BY <1>1, <1>2, <1>4, <1>5 DEF Index
  <2> QED
    BY <2>1
<1>7. Entry(i) = 0
  <2>1. Entry(i) = (0 \div 1) % 1
    BY <1>2, <1>3, <1>5, IndexNumberDef DEF Entry
  <2> QED
    BY <2>1
<1> QED
  BY <1>6, <1>7

(* What Index computes from one word or from two is the entry of the       *)
(* number: the entry begins in a word that the index has, and ends in it   *)
(* or in the next, which the index has then too.                           *)
LEMMA IndexIsEntry ==
    ASSUME mem \in Memories, index_bits = mem.bits, mem.bits \in 1..IntSize - 1,
           NEW i \in 0..mem.num - 1
    PROVE  Index(i) = Entry(i)
<1>1. PICK I \in Nat \ {0}, b \in Nat, x \in Nat, bytes \in Nat :
        /\ I = IntSize /\ b = mem.bits /\ b >= 1 /\ b <= I - 1 /\ x = i * mem.bits
        /\ bytes = Words /\ x + b <= I * bytes
  <2>1. Words \in Nat /\ IntSize \in Nat \ {0}
    BY MemType, FpgaAssumption
  <2>2. i * mem.bits \in Nat /\ i * mem.bits + mem.bits <= IntSize * Words
    BY EntryFits
  <2>3. mem.bits \in Nat /\ mem.bits >= 1 /\ mem.bits <= IntSize - 1
    BY <2>1
  <2> QED
    BY <2>1, <2>2, <2>3
<1>2. PICK q \in Nat, s \in Nat : q = x \div I /\ s = x % I /\ s < I /\ x = I * q + s
  <2>1. /\ x \div I \in Int /\ x % I \in 0..I - 1 /\ x = I * (x \div I) + (x % I)
    BY DivMod
  <2>2. x \div I \in Nat
    BY <1>1
  <2>3. x % I \in Nat /\ x % I < I
    BY <2>1
  <2> QED
    BY <2>1, <2>2, <2>3
<1>3. q < bytes /\ (s + b > I => q + 1 < bytes)
  <2>0. I * q \in Int /\ I * bytes \in Int /\ I * (q + 1) \in Int
    OBVIOUS
  <2>1. I * q + s + b <= I * bytes
    BY <1>1, <1>2, <2>0
  <2>2. ASSUME q >= bytes PROVE FALSE
    <3>1. I * q >= I * bytes
      BY <2>2
    <3> QED
      BY <1>1, <1>2, <2>0, <2>1, <3>1
  <2>3. ASSUME s + b > I, q + 1 >= bytes PROVE FALSE
    <3>1. I * (q + 1) >= I * bytes
      BY <2>3
    <3>2. I * (q + 1) = I * q + I
      OBVIOUS
    <3> QED
      BY <1>1, <1>2, <2>0, <2>1, <2>3, <3>1, <3>2
  <2> QED
    BY <2>2, <2>3
<1>4. PICK t \in Nat : t = I - s /\ s + t = I
  BY <1>2
<1>5. PICK N \in Nat, w \in Nat, rest \in Nat :
        /\ N = IndexNumber[Words] /\ w = mem.word[q + 1]
        /\ N \div Power[IntSize * q] = w + Power[IntSize] * rest
        /\ q + 1 < Words =>
             \E more \in Nat : rest = mem.word[q + 2] + Power[IntSize] * more
  <2>1. q + 1 \in 1..Words /\ Words \in 0..Words
    BY <1>1, <1>3
  <2>2. mem.word[q + 1] \in 0..WordMax /\ Power[IntSize] \in Nat
    BY <2>1, MemType, PowerPositive, FpgaAssumption
  <2>3. mem.word[q + 1] \in Nat /\ IndexNumber[Words] \in Nat
    BY <2>1, <2>2, IndexNumberDef DEF WordMax
  <2>4. q < Words
    BY <1>1, <1>3
  <2> QED
    BY <2>3, <2>4, IndexFrom
<1>6. PICK P \in Nat \ {0}, S \in Nat \ {0}, T \in Nat \ {0}, B \in Nat \ {0}, Q \in Nat \ {0} :
        P = Power[I] /\ S = Power[s] /\ T = Power[t] /\ B = Power[b] /\ Q = Power[I * q]
  <2>1. I * q \in Nat /\ I \in Nat
    OBVIOUS
  <2> QED
    BY <2>1, PowerPositive
<1>7. P = S * T
  BY <1>4, <1>6, PowerSum
<1>8. w \in 0..S * T - 1
  <2>1. q + 1 \in 1..Words
    BY <1>1, <1>3
  <2>2. mem.word[q + 1] \in 0..WordMax
    BY <2>1, MemType
  <2>3. w <= P - 1
    BY <1>1, <1>5, <1>6, <2>2 DEF WordMax
  <2> QED
    BY <1>7, <2>3
<1>9. PICK low \in 0..T - 1 : low = w \div S
  BY <1>8, DivBound
<1>10. Entry(i) = (low + T * rest) % B
  <2>1. Power[x] = Q * S
    <3>1. I * q \in Nat
      OBVIOUS
    <3>2. Power[I * q + s] = Power[I * q] * Power[s]
      BY <3>1, PowerSum
    <3> QED
      BY <1>2, <1>6, <3>2
  <2>2. N \div (Q * S) = (N \div Q) \div S
    <3>1. N \in Int
      OBVIOUS
    <3> QED
      BY <3>1, DivDiv, Zenon
  <2>3. N \div Q = w + S * (T * rest)
    <3>1. N \div Q = w + (S * T) * rest
      BY <1>1, <1>5, <1>6, <1>7
    <3>2. (S * T) * rest = S * (T * rest)
      OBVIOUS
    <3> QED
      BY <3>1, <3>2
  <2>4. T * rest \in Int /\ w \in Int
    OBVIOUS
  <2>5. (w + S * (T * rest)) \div S = low + T * rest
    BY <1>9, <2>4, DivAdd, Zenon
  <2>6. Entry(i) = (N \div Power[x]) % B
    BY <1>1, <1>5, <1>6 DEF Entry
  <2> QED
    BY <2>1, <2>2, <2>3, <2>5, <2>6
<1>11. /\ Mapped(q + 1) = w /\ (i * index_bits) \div IntSize = q /\ (i * index_bits) % IntSize = s
       /\ Power[(i * index_bits) % IntSize] = S
  <2>1. q + 1 <= Words
    BY <1>1, <1>3
  <2>2. Mapped(q + 1) = w
    BY <1>5, <2>1 DEF Mapped
  <2>3. (i * index_bits) \div IntSize = q /\ (i * index_bits) % IntSize = s
    BY <1>1, <1>2, Zenon
  <2> QED
    BY <1>6, <2>2, <2>3
<1>12. CASE s + b <= I
  <2>1. PICK u \in Nat, U \in Nat \ {0} : u = t - b /\ U = Power[u]
    <3>1. t - b \in Nat
      BY <1>4, <1>12
    <3> QED
      BY <3>1, PowerPositive
  <2>2. T = B * U
    <3>1. b + u = t
      BY <1>4, <1>12, <2>1
    <3> QED
      BY <1>6, <2>1, <3>1, PowerSum
  <2>3. T * rest = B * (U * rest) /\ U * rest \in Int /\ low \in Int
    BY <2>2
  <2>4. (low + B * (U * rest)) % B = low % B
    BY <2>3, ModAdd, Zenon
  <2>5. ~ (s + b > I)
    BY <1>12
  <2>6. Index(i) = low % B
    <3>1. Shift(b) = B
      BY <1>1, <1>6, ShiftDef
    <3> QED
      BY <1>1, <1>9, <1>11, <2>5, <3>1 DEF Index
  <2> QED
    BY <1>10, <2>3, <2>4, <2>6
<1>13. CASE s + b > I
  <2>1. PICK more \in Nat, v \in Nat : rest = v + P * more /\ v = mem.word[q + 2]
    <3>1. q + 1 < Words
      BY <1>1, <1>3, <1>13
    <3>2. q + 2 \in 1..Words
      BY <1>1, <3>1
    <3>3. mem.word[q + 2] \in 0..WordMax
      BY <3>2, MemType
    <3>4. mem.word[q + 2] \in Nat
      BY <1>1, <1>6, <3>3 DEF WordMax
    <3> QED
      BY <1>1, <1>5, <1>6, <3>1, <3>4
  <2>2. PICK u \in Nat, r \in Nat : u = s + b - I /\ r = I - u /\ t + u = b /\ u + r = I
    <3>1. s + b - I \in Nat
      BY <1>13
    <3>2. b <= I - 1 /\ s < I
      BY <1>1, <1>2, Zenon
    <3>3. I - (s + b - I) \in Nat
      BY <3>2
    <3> QED
      BY <1>4, <3>1, <3>3
  <2>3. PICK U \in Nat \ {0}, R \in Nat \ {0} : U = Power[u] /\ R = Power[r]
    BY PowerPositive
  <2>4. B = T * U /\ P = U * R
    <3>1. Power[t + u] = Power[t] * Power[u] /\ Power[u + r] = Power[u] * Power[r]
      BY PowerSum
    <3> QED
      BY <1>6, <2>2, <2>3, <3>1, Zenon
  <2>5. (low + T * rest) % (T * U) = low + T * (rest % U)
    <3>1. rest \in Int
      OBVIOUS
    <3> QED
      BY <3>1, ModProduct, ZenonT(60)
  <2>6. rest % U = v % U
    <3>1. P * more = U * (R * more) /\ R * more \in Int /\ v \in Int
      BY <2>4
    <3>2. (v + U * (R * more)) % U = v % U
      BY <3>1, ModAdd, Zenon
    <3> QED
      BY <2>1, <3>1, <3>2
  <2>7. low % T = low
    BY <1>9
  <2>8. Mapped(q + 2) = v /\ (q + 1) + 1 = q + 2
    <3>1. q + 2 <= Words
      BY <1>1, <1>3, <1>13
    <3> QED
      BY <2>1, <3>1 DEF Mapped
  <2>9. Index(i) = (low % T) + (((v % U) * T) % P)
    <3>0. b <= I - 1 /\ s < I /\ s + t = I /\ s + b > I /\ u = s + b - I
      BY <1>1, <1>2, <1>4, <1>13, <2>2, Zenon
    <3>1. s >= 1 /\ t \in 0..I - 1 /\ u \in 0..I - 1
      BY <3>0
    <3>2. Shift(t) = T /\ Shift(u) = U
      BY <1>1, <1>6, <2>3, <3>1, ShiftDef
    <3> QED
      BY <1>1, <1>4, <1>6, <1>9, <1>11, <1>13, <2>2, <2>8, <3>2 DEF Index
  <2>10. v % U \in Int
    OBVIOUS
  <2>11. (v % U) * T = T * (v % U)
    BY <2>10
  <2>12. ((v % U) * T) % P = (v % U) * T
    <3>1. PICK c \in Nat : c = v % U /\ c <= U - 1
      OBVIOUS
    <3>2. T <= R * T /\ c * T <= (U - 1) * T /\ (U - 1) * T = U * T - T
      BY <3>1
    <3>3. PICK z \in Nat \ {0} : B * z = P
      <4>1. PICK y \in Nat : y = I - b /\ b + y = I
        BY <1>1
      <4>2. Power[y] \in Nat \ {0} /\ Power[b + y] = Power[b] * Power[y]
        BY <4>1, PowerPositive, PowerSum
      <4> QED
        BY <1>6, <4>1, <4>2
    <3>4. B <= B * z
      OBVIOUS
    <3>5. c * T \in Nat /\ U * T = T * U /\ T * U \in Nat
      OBVIOUS
    <3>6. c * T < P
      BY <2>4, <3>2, <3>3, <3>4, <3>5
    <3>7. PICK d \in Nat : d = c * T
      BY <3>5
    <3>8. d % P = d
      BY <3>6, <3>7
    <3> QED
      BY <3>1, <3>7, <3>8
  <2> QED
    BY <1>10, <2>4, <2>5, <2>6, <2>7, <2>9, <2>11, <2>12
<1> QED
  BY <1>1, <1>2, <1>12, <1>13

(* The lookup of a memory is right.                                        *)
LEMMA MemoryLookup == ASSUME mem \in Memories PROVE LookupFindsRegister
<1> SUFFICES
      ASSUME index_bits \in 0..IntSize - 1, NEW r \in Ints
      PROVE  LET index == r % Power[IntSize]
                 value == get_reg_value(r)
             IN  \/ (mem.num = 0 \/ get_reg_len # mem.num) /\ value = 0
                 \/ mem.num > 0 /\ get_reg_len = mem.num /\ r >= mem.num /\ value = -1
                 \/ get_reg_len = mem.num /\ r < mem.num /\ value = 0
                      /\ \A i \in 0..mem.num - 1 : Entry(i) # index
                 \/ get_reg_len = mem.num /\ r < mem.num /\ \E i \in 0..mem.num - 1 :
                      /\ value = mem.value[i] /\ Entry(i) = index
                      /\ \A j \in 0..i - 1 : Entry(j) # index
  BY DEF LookupFindsRegister
<1> DEFINE index == r % Power[IntSize]
<1>r. r \in Int
  <2>1. Power[IntSize - 1] \in Nat
    BY PowerPositive, FpgaAssumption
  <2> QED
    BY <2>1 DEF Ints
<1>1. PICK num \in Nat, bytes \in Nat : num = mem.num /\ bytes = Words
  BY MemType
<1>2. CASE get_reg_len # num
  <2>1. get_reg_len \in Int /\ ~ (get_reg_len >= 0)
    BY <1>1, <1>2, MemType, CharReads DEF get_reg_len
  <2>2. get_reg_value(r) = 0
    BY <2>1 DEF get_reg_value
  <2> QED
    BY <1>1, <1>2, <2>2
<1>3. CASE get_reg_len = num /\ num = 0
  BY <1>1, <1>3 DEF get_reg_value
<1>4. CASE get_reg_len = num /\ num # 0 /\ r >= num
  <2>1. ~ (num <= 0) /\ num - 1 < r
    BY <1>r, <1>4
  <2>2. get_reg_value(r) = -1
    BY <1>4, <2>1 DEF get_reg_value
  <2> QED
    BY <1>1, <1>4, <2>2
<1>5. CASE get_reg_len = num /\ num # 0 /\ r < num
  <2>1. ~ (num <= 0) /\ ~ (num - 1 < r)
    BY <1>r, <1>5
  <2>2. get_reg_value(r) = get_regs_index_value(index)
    BY <1>5, <2>1 DEF get_reg_value
  <2>3. index_num = num
    BY <1>1, <1>5 DEF index_num, get_reg_len
  <2>4. index_bits = mem.bits
    <3>1. index_bits >= 0
      OBVIOUS
    <3> QED
      BY <3>1, MemType, CharReads DEF index_bits
  <2>5. inedx_bytes = bytes
    <3>1. mem.bits <= IntSize
      BY <2>4, FpgaAssumption
    <3> QED
      BY <1>1, <2>3, <3>1, WordsRead
  <2>6. \A i \in 0..num - 1 : Index(i) = Entry(i)
    <3>1. CASE mem.bits = 0
      BY <1>1, <2>4, <3>1, NoBits
    <3>2. CASE mem.bits # 0
      <4>1. mem.bits \in 1..IntSize - 1
        BY <2>4, <3>2, FpgaAssumption
      <4> QED
        BY <1>1, <2>4, <4>1, IndexIsEntry
    <3> QED
      BY <3>1, <3>2
  <2>7. \A i \in 0..num - 1 : Mapped(1 + bytes + i) = mem.value[i]
    <3> SUFFICES ASSUME NEW i \in 0..num - 1 PROVE Mapped(1 + bytes + i) = mem.value[i]
      OBVIOUS
    <3>1. ~ (1 + bytes + i <= bytes) /\ (1 + bytes + i) - bytes - 1 = i
      OBVIOUS
    <3> QED
      BY <1>1, <3>1 DEF Mapped
  <2> DEFINE found == {i \in 0..num - 1 : Entry(i) = index}
             first == CHOOSE i \in found : \A j \in found : i <= j
  <2>8. found = {i \in 0..index_num - 1 : Index(i) = index}
    BY <2>3, <2>6
  <2> HIDE DEF index
  <2>9. CASE found = {}
    <3>1. get_regs_index_value(index) = 0
      BY <2>8, <2>9 DEF get_regs_index_value
    <3>2. \A i \in 0..num - 1 : Entry(i) # index
      BY <2>9
    <3> USE DEF index
    <3> QED
      BY <1>1, <1>5, <2>2, <3>1, <3>2
  <2>10. CASE found # {}
    <3>1. found \subseteq Nat
      OBVIOUS
    <3> HIDE DEF found
    <3>2. \E i \in found : \A j \in found : i <= j
      BY <2>10, <3>1, Least
    <3>3. first \in found /\ \A j \in found : first <= j
      BY <3>2
    <3>4. get_regs_index_value(index) = Mapped(1 + bytes + first)
      BY <2>5, <2>8, <2>10 DEF get_regs_index_value
    <3> HIDE DEF first
    <3> USE DEF found
    <3>5. PICK i \in 0..num - 1 : i = first
      BY <3>3
    <3>6. Entry(i) = index /\ get_regs_index_value(index) = mem.value[i]
      BY <2>7, <3>3, <3>4, <3>5
    <3>7. \A j \in 0..i - 1 : Entry(j) # index
      <4> SUFFICES ASSUME NEW j \in 0..i - 1, Entry(j) = index PROVE FALSE
        OBVIOUS
      <4>1. j \in found
        OBVIOUS
      <4> HIDE DEF found
      <4>2. i <= j
        BY <3>3, <3>5, <4>1
      <4> QED
        BY <4>2
    <3> HIDE DEF found
    <3> USE DEF index
    <3> QED
      BY <1>1, <1>5, <2>2, <3>6, <3>7
  <2> HIDE DEF found
  <2> QED
    BY <2>9, <2>10
<1> QED
  BY <1>1, <1>2, <1>3, <1>4, <1>5, <1>r

(* PsProcess::get_reg_value and Uio::get_regs_index_value: in any word     *)
(* size, where entries have fewer bits than a word and a char can say how  *)
(* many there are (up to 127 where it is signed, else up to 255), a lookup *)
(* returns the value of the first entry that is the register's, wherever   *)
(* entries lie across words, 0 where none is, and -1 beyond the last.      *)
(* With more registers than a char can say every lookup returns 0.  Of     *)
(* entries of a whole word, of which the code takes no bits, and of wider  *)
(* ones nothing is claimed.                                                *)
THEOREM LookupCorrect == Spec => []LookupFindsRegister
<1>1. TypeOK => LookupFindsRegister
  BY MemoryLookup DEF TypeOK
<1> QED
  BY <1>1, TypeCorrect, PTL
=============================================================================
