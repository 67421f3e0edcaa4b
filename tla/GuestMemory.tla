---------------------------- MODULE GuestMemory ----------------------------
(***************************************************************************)
(* What memory, stack and memory card are to a guest program: bytes in the *)
(* order of their addresses, most significant first in a halfword or word; *)
(* a stack that grows down; and a card whose sectors a command copies      *)
(* whole, byte for byte, to or from the buffer.  A command is obeyed once, *)
(* before the next instruction.                                            *)
(*                                                                         *)
(* Two flaws are part of the promise: a push that faults has moved the     *)
(* stack pointer and moves it again when it is restarted, and reading past *)
(* the end of the card leaves no known bytes in the buffer.                *)
(***************************************************************************)
EXTENDS Integers, Sequences

CONSTANTS Addr,         \* the words of memory
          Device(_),      \* those behind which a device waits for a command
          SectorRead, SectorWrite,
          Buffer,       \* the words of the sector buffer, in order
          Sector(_),    \* the sector that a number in a register names
          SPs, Stack,   \* stack pointers, and where each points
          Program,      \* the words of the program, as its file has them
          NoCommand

VARIABLES bytes,        \* the four bytes of each word
          disk,         \* the words of the card
          command,      \* a device register stored to, not yet obeyed
          sp,
          insn,         \* the instruction: what it does, where, and its register
          answer        \* the register loaded last

vars == <<bytes, disk, command, sp, insn, answer>>

\* Byte k of a register is the one of weight 256^k.
Lane == 0 .. 3
ZeroWord == [k \in Lane |-> 0]
One == [ZeroWord EXCEPT ![0] = 1]
Number(b) == [k \in Lane |-> b[3 - k]]

Loaded(a, n, o) == [k \in Lane |-> IF k < n THEN bytes[a][o + n - 1 - k] ELSE 0]

Load(a, n, o) == /\ answer' = Loaded(a, n, o)
                 /\ UNCHANGED <<bytes, command>>

\* The n low bytes of register r are stored from offset o on.
Store(a, n, o, r) ==
    /\ bytes' = [bytes EXCEPT ![a] = [j \in Lane |-> IF j \in o .. o + n - 1
                                                     THEN r[o + n - 1 - j]
                                                     ELSE bytes[a][j]]]
    /\ command' = IF Device(a) THEN a ELSE NoCommand
    /\ UNCHANGED answer

Down == (sp - 1) % SPs

LoadInsn == /\ insn'.op = "load"
            /\ Load(insn'.addr, insn'.size, insn'.offset)
            /\ UNCHANGED sp

StoreInsn == /\ insn'.op = "store"
             /\ Store(insn'.addr, insn'.size, insn'.offset, insn'.reg)
             /\ UNCHANGED sp

Push == /\ insn'.op = "push"
        /\ sp' = Down
        /\ Store(Stack[Down], 4, 0, insn'.reg)

Pop == /\ insn'.op = "pop"
       /\ sp' = (sp + 1) % SPs
       /\ Load(Stack[sp], 4, 0)

\* Test and set: only a word that was just read as zero is claimed.
Claim == /\ insn'.op = "claim"
         /\ answer = ZeroWord /\ bytes[insn'.addr] = ZeroWord
         /\ Store(insn'.addr, 4, 0, One)
         /\ UNCHANGED sp

\* A push has faulted.
Slip == /\ insn'.op = "fault"
        /\ sp' = Down
        /\ UNCHANGED <<bytes, command, answer>>

Execute == /\ command = NoCommand
           /\ LoadInsn \/ StoreInsn \/ Push \/ Pop \/ Claim \/ Slip
           /\ UNCHANGED disk

\* Place of the i-th word of the sector that register s names.
Place(s, i) == Sector(Number(bytes[s])) * Len(Buffer) + i

Read == /\ command = SectorRead
        /\ \A i \in 1 .. Len(Buffer) :
             Place(SectorRead, i) <= Len(disk) => bytes'[Buffer[i]] = disk[Place(SectorRead, i)]
        /\ \A a \in Addr : bytes'[a] = bytes[a] \/ \E i \in 1 .. Len(Buffer) : a = Buffer[i]
        /\ UNCHANGED disk

Write == /\ command = SectorWrite
         /\ LET end == Place(SectorWrite, Len(Buffer))
            IN  Len(disk') = IF Len(disk) < end THEN end ELSE Len(disk)
         /\ \A p \in 1 .. Len(disk') :
              LET i == p - Place(SectorWrite, 0)
              IN  disk'[p] = IF i \in 1 .. Len(Buffer) THEN bytes[Buffer[i]]
                             ELSE IF p <= Len(disk) THEN disk[p] ELSE ZeroWord
         /\ UNCHANGED bytes

Ignore == command \notin {SectorRead, SectorWrite, NoCommand} /\ UNCHANGED <<bytes, disk>>

Obey == /\ Read \/ Write \/ Ignore
        /\ command' = NoCommand
        /\ UNCHANGED <<sp, insn, answer>>

Init == /\ \A a \in Addr : bytes[a] = IF Device(a) THEN ZeroWord ELSE Program[a]
        /\ command = NoCommand
        /\ answer = ZeroWord

Next == Execute \/ Obey

Spec == Init /\ [][Next]_vars
=============================================================================
