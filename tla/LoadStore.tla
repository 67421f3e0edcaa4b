----------------------------- MODULE LoadStore -----------------------------
(***************************************************************************)
(* The loads and stores of load_store.h and the instructions that use      *)
(* them: ld8, ld16, ld32, st8, st16, st32, push, pushpc, pop and tas.      *)
(* They reach memory through the caches of L1Cache.                        *)
(*                                                                         *)
(* A word is an array of four bytes, as union_int32 sees it on the little- *)
(* endian host: lane 0 is the least significant byte.  The guest counts    *)
(* the bytes of a word from the most significant one, so its address has   *)
(* to be turned round before it selects a lane.  A fault may come wherever *)
(* an address is translated; the MMU itself is the module Mmu.             *)
(***************************************************************************)
EXTENDS L1Cache

CONSTANTS
    Byte,           \* the bytes in use
    SPs,            \* number of stack pointers; they are 0 .. SPs-1
    Stack,          \* the word each of them points to
    NoAddr          \* zero where an address is meant

Lane == 0 .. 3
One == [k \in Lane |-> IF k = 0 THEN 1 ELSE 0]

ASSUME ByteAssumption == /\ Value \subseteq [Lane -> Byte]
                         /\ {0, 1} \subseteq Byte
                         /\ Zero = [k \in Lane |-> 0]
                         /\ One \in Value
ASSUME StackAssumption == /\ SPs \in Nat \ {0}
                          /\ Stack \in [0 .. SPs - 1 -> Addr]
ASSUME NoAddrAssumption == NoAddr \notin Addr

VARIABLES
    insn,                   \* history: what the last instruction did
    dest,                   \* the register loaded last
    SPR,
    tas,                    \* the address of a tas between its load and its store
    memory_is_fault,
    memory_io_writeback     \* an I/O register stored to, whose device must be told

control == <<SPR, tas, memory_is_fault, memory_io_writeback>>
lsvars == <<vars, insn, dest, control>>

-----------------------------------------------------------------------------
(* Bytes of a word *)

\* __builtin_bswap32
Bswap(v) == [k \in Lane |-> v[3 - k]]

\* mutant of Low: the address is not turned round
LowOfHost(n, o) == o

\* The lowest lane of the n bytes at offset o of a word.
Low(n, o) == CASE n = 4 -> 0
               [] n = 2 -> 2 * (1 - o \div 2)
               [] n = 1 -> 3 - o

\* A halfword or a byte is loaded with zeros above it.
Field(v, n, o) == [k \in Lane |-> IF k < n THEN v[Low(n, o) + k] ELSE 0]

\* The word v with its n bytes at offset o replaced by the low bytes of w.
Merged(v, n, o, w) == [k \in Lane |-> IF k \in Low(n, o) .. Low(n, o) + n - 1
                                      THEN w[k - Low(n, o)] ELSE v[k]]

\* ld16, st16, ld32 and st32 end the simulator at any other address.
Aligned(n, o) == n \in {1, 2, 4} /\ o \in Lane /\ o % n = 0

-----------------------------------------------------------------------------
(* The wrappers *)

\* memory_cache_l1_read
ReadWord(a) == Load(a) \/ ReadUncached(a)

\* mutant of WriteWord: any store is noted for a device
WriteWordAlwaysTold(a, v) == /\ Store(a, v) \/ StoreUncached(a, v)
                             /\ memory_io_writeback' = a

\* memory_cache_l1_write; memory_addr_mmio notes a register for the device.
WriteWord(a, v) == /\ Store(a, v) \/ StoreUncached(a, v)
                   /\ memory_io_writeback' = IF Uncached(a) THEN a ELSE NoAddr

\* The last instruction has left exec nothing to do.
Ready == /\ tas = NoAddr
         /\ ~memory_is_fault
         /\ memory_io_writeback = NoAddr

\* An instruction: what it does, with which bytes of which word and register.
Insn(op, a, n, o, r) == insn' = [op |-> op, addr |-> a, size |-> n, offset |-> o, reg |-> r]
Other(op) == insn' = [op |-> op]

-----------------------------------------------------------------------------
(* Instructions *)

Ld(a, n, o) == /\ Ready
               /\ ReadWord(a)
               /\ dest' = Field(out'.value, n, o)
               /\ Insn("load", a, n, o, Zero)
               /\ UNCHANGED control

\* st16 and st8 merge with memory, which a coherent cache agrees with.  A
\* merged word that is none of the words in use is a bound of the instance.
St(a, n, o, v) == /\ Ready
                  /\ Merged(mem[a], n, o, v) \in Value
                  /\ WriteWord(a, Merged(mem[a], n, o, v))
                  /\ Insn("store", a, n, o, v)
                  /\ UNCHANGED <<dest, SPR, tas, memory_is_fault>>

Pushed == (SPR - 1) % SPs

\* push and pushpc move the pointer, then store.
Push(v) == /\ Ready
           /\ SPR' = Pushed
           /\ WriteWord(Stack[Pushed], v)
           /\ Insn("push", Stack[Pushed], 4, 0, v)
           /\ UNCHANGED <<dest, tas, memory_is_fault>>

PushFault == /\ Ready
             /\ SPR' = Pushed
             /\ memory_is_fault' = TRUE
             /\ Other("fault")
             /\ UNCHANGED <<vars, dest, tas, memory_io_writeback>>

Pop == /\ Ready
       /\ ReadWord(Stack[SPR])
       /\ dest' = out'.value
       /\ SPR' = (SPR + 1) % SPs
       /\ Insn("pop", Stack[SPR], 4, 0, Zero)
       /\ UNCHANGED <<tas, memory_is_fault, memory_io_writeback>>

\* tas loads, and stores if it has loaded zero.
TasLoad(a) == /\ Ready
              /\ ReadWord(a)
              /\ dest' = out'.value
              /\ tas' = a
              /\ Insn("load", a, 4, 0, Zero)
              /\ UNCHANGED <<SPR, memory_is_fault, memory_io_writeback>>

TasStore == /\ tas # NoAddr
            /\ dest = Zero
            /\ WriteWord(tas, One)
            /\ Insn("claim", tas, 4, 0, One)
            /\ tas' = NoAddr
            /\ UNCHANGED <<dest, SPR, memory_is_fault>>

TasFail == /\ tas # NoAddr
           /\ dest # Zero
           /\ tas' = NoAddr
           /\ UNCHANGED <<vars, insn, dest, SPR, memory_is_fault, memory_io_writeback>>

\* A load or a store faults, of any instruction or of a tas that has loaded.
Fault == /\ Ready \/ (tas # NoAddr /\ dest = Zero)
         /\ memory_is_fault' = TRUE
         /\ tas' = NoAddr
         /\ UNCHANGED <<vars, insn, dest, SPR, memory_io_writeback>>

\* exec enters the handler, which may return to the instruction.
Faulted == /\ memory_is_fault
           /\ memory_is_fault' = FALSE
           /\ memory_io_writeback' = NoAddr
           /\ UNCHANGED <<vars, insn, dest, SPR, tas>>
=============================================================================
