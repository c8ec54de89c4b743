--------------------------------- MODULE Fpga ---------------------------------
(***************************************************************************)
(* Class Uio, by which threads reach the FPGA: each thread has a Uio of    *)
(* its own, all have one FPGA and one lock, static in cmd_test_reg.  And   *)
(* PsProcess::get_reg_value, which looks a register up in the index that   *)
(* the FPGA packs into its first words.                                    *)
(*                                                                         *)
(* The devices are modelled from how Uio uses them: an interrupt is        *)
(* enabled by a write and reported once to each open file, and the FPGA    *)
(* runs when 1 is written to its first register.  A thread uses its Uio    *)
(* from when fpga_init has returned 0 until it calls fpga_exit.  The       *)
(* descriptors, which a failed fpga_init leaves open, and the copies over  *)
(* _memBaseAddr, which stays null, are left out.                           *)
(***************************************************************************)
EXTENDS Integers, Powers

CONSTANTS Threads,
          IntSize,     \* int_size, the bits of a word
          ByteSize,    \* the bits of a char
          CharSigned,  \* whether the build's char is signed: x86 yes, ARM no
          Headers      \* the bytes index_bits and index_num the FPGA may have

(* The FPGA may write anything into its bytes.                             *)
ASSUME FpgaAssumption ==
    /\ IntSize \in Nat \ {0} /\ ByteSize \in Nat \ {0}
    /\ CharSigned \in BOOLEAN
    /\ \A h \in Headers : {h[1], h[2]} \subseteq 0..Power[ByteSize] - 1

VARIABLES
    mem,        \* the first words of the FPGA
    at,         \* where each thread is
    fpga_lock,
    running,    \* the FPGA runs
    line,       \* it has asked for an interrupt
    enabled,    \* interrupts are enabled
    event       \* a thread's file has an interrupt to report

deviceVars == <<running, line, enabled, event>>
vars == <<mem, at, fpga_lock, deviceVars>>

IndexWords(bits, num) == (bits * num + IntSize - 1) \div IntSize

(* Word 0 has index_bits, index_num and inedx_bytes in its bytes; after it *)
(* come the words of the index and then the values.                        *)
Memories ==
    UNION {[bits : {h[1]}, num : {h[2]},
            bytes : {IndexWords(h[1], h[2]) % Power[ByteSize]},
            word : [1..IndexWords(h[1], h[2]) -> 0..Power[IntSize] - 1],
            value : {[i \in 0..h[2] - 1 |-> 10 + i]}] : h \in Headers}

Words == IndexWords(mem.bits, mem.num)

(* _mapped[k], behind word 0.                                              *)
Mapped(k) == IF k <= Words THEN mem.word[k] ELSE mem.value[k - Words - 1]

(* What the char pointer ptr reads of a byte: where char is signed, bytes  *)
(* from 128 on are negative.                                               *)
Char(byte) ==
    IF CharSigned /\ byte >= Power[ByteSize - 1] THEN byte - Power[ByteSize] ELSE byte

(* 1 << n.  Nothing keeps n below int_size, from where on it is undefined: *)
(* the shift instructions that both compilers of the Makefile emit at -O0, *)
(* for x86 and for ARM, take n modulo the size of the word.                *)
Shift(n) == Power[n % IntSize]

Init ==
    /\ mem \in Memories
    /\ at = [t \in Threads |-> "out"]
    /\ fpga_lock = FALSE
    /\ running = FALSE /\ line = FALSE /\ enabled = FALSE
    /\ event = [t \in Threads |-> FALSE]

-----------------------------------------------------------------------------
(* PsProcess::get_reg_value and Uio::get_regs_index_value.                 *)

get_reg_len == Char(mem.num)

index_bits == Char(mem.bits)
index_num == Char(mem.num)
inedx_bytes == Char(mem.bytes)

\* mutation: an index is taken from one word
IndexOneWord(i) ==
    (Mapped((i * index_bits) \div IntSize + 1) \div Power[(i * index_bits) % IntSize])
        % Shift(index_bits)

(* Entry i of the index, which may lie across two words: w >> n is         *)
(* w \div Power[n], w & ((1 << n) - 1) is w % Shift(n), and | adds bits     *)
(* that are apart.  (Where index_bits is negative the code reads in front  *)
(* of the mapping: not so here, and no property asks for it.)              *)
Index(i) ==
    LET mapped_index == (i * index_bits) \div IntSize + 1
        shift_bits == (i * index_bits) % IntSize
        temp0 == Mapped(mapped_index) \div Power[shift_bits]
        temp3 == Mapped(mapped_index + 1) % Shift(shift_bits + index_bits - IntSize)
    IN IF shift_bits + index_bits > IntSize
       THEN (temp0 % Shift(IntSize - shift_bits))
              + ((temp3 * Shift(IntSize - shift_bits)) % Power[IntSize])
       ELSE temp0 % Shift(index_bits)

get_regs_index_value(reg_index) ==
    LET found == {i \in 0..index_num - 1 : Index(i) = reg_index}
    IN IF found = {} THEN 0
       ELSE Mapped(1 + inedx_bytes + (CHOOSE i \in found : \A j \in found : i <= j))

(* index is an int, and reg_index unsigned.                                *)
get_reg_value(index) ==
    IF get_reg_len <= 0 THEN 0
    ELSE IF get_reg_len - 1 < index THEN -1
    ELSE get_regs_index_value(index % Power[IntSize])

-----------------------------------------------------------------------------
(* fpga_init and fpga_exit.  A call of fpga_init that fails changes        *)
(* nothing that is modelled.                                               *)

FpgaInit(t) ==
    /\ at[t] = "out"
    /\ at' = [at EXCEPT ![t] = "ready"]
    /\ event' = [event EXCEPT ![t] = FALSE]
    /\ UNCHANGED <<mem, fpga_lock, running, line, enabled>>

FpgaExit(t) ==
    /\ at[t] = "ready"
    /\ at' = [at EXCEPT ![t] = "out"]
    /\ event' = [event EXCEPT ![t] = FALSE]
    /\ UNCHANGED <<mem, fpga_lock, running, line, enabled>>

-----------------------------------------------------------------------------
(* cmd_test_reg.                                                           *)

Go(t, from, to) == at[t] = from /\ at' = [at EXCEPT ![t] = to]

\* mutation: the interrupt is not enabled again
TestNoEnable(t) ==
    /\ Go(t, "ready", "check")
    /\ UNCHANGED <<mem, fpga_lock, deviceVars>>

(* write(_fd0, &inten, 4).                                                 *)
TestEnable(t) ==
    /\ Go(t, "ready", "check")
    /\ enabled' = TRUE
    /\ UNCHANGED <<mem, fpga_lock, running, line, event>>

TestCheck(t) ==
    /\ Go(t, "check", IF fpga_lock THEN "ready" ELSE "stop")
    /\ UNCHANGED <<mem, fpga_lock, deviceVars>>

(* _mapped[REG_INDEX0] = 0, and then 1.  What is written to the first word *)
(* is for the FPGA to act on; what is read there is the index's sizes.     *)
TestStop(t) ==
    /\ Go(t, "stop", "start")
    /\ running' = FALSE
    /\ UNCHANGED <<mem, fpga_lock, line, enabled, event>>

TestStart(t) ==
    /\ Go(t, "start", "lock")
    /\ running' = TRUE
    /\ UNCHANGED <<mem, fpga_lock, line, enabled, event>>

TestLock(t) ==
    /\ Go(t, "lock", "read")
    /\ fpga_lock' = TRUE
    /\ UNCHANGED <<mem, deviceVars>>

(* read(_fd0, &intcnt, 4).                                                 *)
TestRead(t) ==
    /\ Go(t, "read", "unlock")
    /\ event[t]
    /\ event' = [event EXCEPT ![t] = FALSE]
    /\ UNCHANGED <<mem, fpga_lock, running, line, enabled>>

\* mutation: the lock is not released
TestKeepLock(t) ==
    /\ Go(t, "unlock", "ready")
    /\ UNCHANGED <<mem, fpga_lock, deviceVars>>

TestUnlock(t) ==
    /\ Go(t, "unlock", "ready")
    /\ fpga_lock' = FALSE
    /\ UNCHANGED <<mem, deviceVars>>

-----------------------------------------------------------------------------
(* The devices.                                                            *)

Done ==
    /\ running
    /\ running' = FALSE /\ line' = TRUE
    /\ UNCHANGED <<mem, at, fpga_lock, enabled, event>>

Interrupt ==
    /\ line /\ enabled
    /\ line' = FALSE /\ enabled' = FALSE
    /\ event' = [t \in Threads |-> event[t] \/ at[t] # "out"]
    /\ UNCHANGED <<mem, at, fpga_lock, running>>

Test(t) ==
    \/ TestCheck(t) \/ TestStop(t) \/ TestStart(t) \/ TestLock(t)
    \/ TestRead(t) \/ TestUnlock(t)

Next ==
    \/ \E t \in Threads :
        \/ FpgaInit(t) \/ FpgaExit(t)
        \/ TestEnable(t) \/ Test(t)
    \/ Done \/ Interrupt

Spec == Init /\ [][Next]_vars

(* A test that has begun goes on, the FPGA ends its runs and interrupts.   *)
Fairness ==
    /\ \A t \in Threads : WF_vars(Test(t))
    /\ WF_vars(Done) /\ WF_vars(Interrupt)

FairSpec == Spec /\ Fairness

-----------------------------------------------------------------------------
Testing == {"check", "stop", "start", "lock", "read", "unlock"}

(* Type invariant.                                                         *)
TypeOK ==
    /\ mem \in Memories
    /\ at \in [Threads -> {"out", "ready"} \cup Testing]
    /\ {fpga_lock, running, line, enabled} \subseteq BOOLEAN
    /\ event \in [Threads -> BOOLEAN]
    /\ \A t \in Threads : event[t] => at[t] # "out"

(* The index read as one number, its words lowest first: entry i is the    *)
(* i-th group of index_bits bits of it.                                    *)
IndexNumber[k \in 0..Words] ==
    IF k = 0 THEN 0 ELSE IndexNumber[k - 1] + mem.word[k] * Power[IntSize * (k - 1)]

Entry(i) == (IndexNumber[Words] \div Power[i * mem.bits]) % Power[mem.bits]

Ints == -Power[IntSize - 1]..Power[IntSize - 1] - 1

(* A register is looked up as the first entry that has its index, provided *)
(* that entries are narrower than a word and that the number of registers  *)
(* can be read through a char: up to 127 where char is signed, else up to  *)
(* 255.  Where it cannot, every register reads as 0, as if there were none.*)
LookupFindsRegister ==
    index_bits \in 0..IntSize - 1 =>
        \A r \in Ints :
            LET index == r % Power[IntSize]
                value == get_reg_value(r)
            IN  \/ (mem.num = 0 \/ get_reg_len # mem.num) /\ value = 0
                \/ mem.num > 0 /\ get_reg_len = mem.num /\ r >= mem.num /\ value = -1
                \/ get_reg_len = mem.num /\ r < mem.num /\ value = 0
                     /\ \A i \in 0..mem.num - 1 : Entry(i) # index
                \/ get_reg_len = mem.num /\ r < mem.num /\ \E i \in 0..mem.num - 1 :
                     /\ value = mem.value[i] /\ Entry(i) = index
                     /\ \A j \in 0..i - 1 : Entry(j) # index

(* The lock is free when no thread is in cmd_test_reg, even when two of    *)
(* them have passed its test together.                                     *)
LockFreeWhenIdle == (\A t \in Threads : at[t] \notin Testing) => ~fpga_lock

(* A test that has begun returns, whichever thread the interrupts go to    *)
(* and however the runs of several threads cut each other short.           *)
TestReturns == \A t \in Threads : at[t] \in Testing ~> at[t] = "ready"
=============================================================================
