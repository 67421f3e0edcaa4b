-------------------------------- MODULE Mmcc --------------------------------
(***************************************************************************)
(* The memory card controller STD-MMCC of gci.c behind the loads and       *)
(* stores of LoadStore: two command registers, each of which copies a      *)
(* sector of the image file to or from the sector buffer as soon as the    *)
(* instruction that stored to it has ended.                                *)
(*                                                                         *)
(* The I/O area is the device area of the card.  A word of a file is kept  *)
(* as the simulator reads it: lane k is its byte k.                        *)
(***************************************************************************)
EXTENDS LoadStore, Sequences

CONSTANTS
    GCI_MMCC_INIT_COMMAND, GCI_MMCC_SECTOR_READ, GCI_MMCC_SECTOR_WRITE,
    Buffer,         \* the words of the sector buffer, in their order
    Cards,          \* the images to start with
    MaxImage,       \* bound: the words an image may grow to
    Program         \* the words of the ELF image

ASSUME RegisterAssumption ==
    /\ {GCI_MMCC_INIT_COMMAND, GCI_MMCC_SECTOR_READ, GCI_MMCC_SECTOR_WRITE}
         \subseteq {a \in Addr : Uncached(a)}
    /\ GCI_MMCC_SECTOR_READ # GCI_MMCC_SECTOR_WRITE
    /\ Buffer \in Seq({a \in Addr : Uncached(a)})
    /\ \A i, j \in DOMAIN Buffer : Buffer[i] = Buffer[j] => i = j
ASSUME FileAssumption ==
    /\ \A v \in Value : Bswap(v) \in Value
    /\ Byte \subseteq Nat
    /\ Cards \subseteq Seq(Value)
    /\ Program \in [{a \in Addr : ~Uncached(a)} -> Value]

\* The page walker writes the words of page tables; that is the module Mmu's.
ASSUME PagingAssumption == WalkerWord = {}

VARIABLES
    image,          \* the words of the image file
    fd_mmcc,        \* whether there is one
    halted          \* errx has ended the simulator

card == <<image, fd_mmcc, halted>>
mmccvars == <<lsvars, card>>

-----------------------------------------------------------------------------

\* sector << 9, of 32 bits, names a byte of the file; the sector that is.
SectorOf(v) == v[0] + 256 * v[1] + 65536 * (v[2] % 128)

\* Where the i-th word of the sector in register r lies in the file.
Place(r, i) == SectorOf(mem[r]) * Len(Buffer) + i

InBuffer(a) == \E i \in DOMAIN Buffer : Buffer[i] = a
WordOf(a) == CHOOSE i \in DOMAIN Buffer : Buffer[i] = a

\* A word of the buffer after a read: behind the end of the file nothing
\* arrives, but what was there is turned round all the same.
Arrived(a) == Bswap(IF Place(GCI_MMCC_SECTOR_READ, WordOf(a)) <= Len(image)
                    THEN image[Place(GCI_MMCC_SECTOR_READ, WordOf(a))] ELSE mem[a])

\* The file after a write, which may leave a hole behind its old end.
Stored == LET end == Place(GCI_MMCC_SECTOR_WRITE, Len(Buffer))
              before == Place(GCI_MMCC_SECTOR_WRITE, 0)
          IN  [p \in 1 .. (IF Len(image) < end THEN end ELSE Len(image)) |->
                 IF p \in before + 1 .. end THEN Bswap(mem[Buffer[p - before]])
                 ELSE IF p <= Len(image) THEN image[p] ELSE Zero]

-----------------------------------------------------------------------------
(* gci_mmcc_write, called by exec for a register stored to *)

Told(a) == memory_io_writeback = a /\ fd_mmcc

Obeyed == /\ memory_io_writeback' = NoAddr
          /\ UNCHANGED <<icache, dcache, cache_tick, out, insn, dest, SPR, tas, memory_is_fault>>
          /\ UNCHANGED <<fd_mmcc, halted>>

SectorRead == /\ Told(GCI_MMCC_SECTOR_READ)
              /\ mem' = [a \in Addr |-> IF InBuffer(a) THEN Arrived(a) ELSE mem[a]]
              /\ UNCHANGED image
              /\ Obeyed

SectorWrite == /\ Told(GCI_MMCC_SECTOR_WRITE)
               /\ Len(Stored) <= MaxImage
               /\ image' = Stored
               /\ UNCHANGED mem
               /\ Obeyed

NoCommand == /\ \E a \in Addr \ {GCI_MMCC_SECTOR_READ, GCI_MMCC_SECTOR_WRITE} : Told(a)
             /\ UNCHANGED <<mem, image>>
             /\ Obeyed

\* errx: a store to a card that is not there, or a file that fails.
Halt == halted' = TRUE /\ UNCHANGED <<lsvars, image, fd_mmcc>>

WriteHalts == /\ memory_io_writeback # NoAddr
              /\ ~fd_mmcc \/ memory_io_writeback \in {GCI_MMCC_SECTOR_READ,
                                                      GCI_MMCC_SECTOR_WRITE}
              /\ Halt

-----------------------------------------------------------------------------
(* Instructions *)

\* gci_mmcc_read ends the simulator when the init register is loaded, which
\* st16 and st8 do too.
Readable(a) == a # GCI_MMCC_INIT_COMMAND
ReadHalts == Ready /\ Halt

Instruction == \/ \E a \in Addr, n \in {1, 2, 4}, o \in Lane :
                    /\ Aligned(n, o)
                    /\ \/ Readable(a) /\ Ld(a, n, o)
                       \/ \E v \in Value : (n = 4 \/ Readable(a)) /\ St(a, n, o, v)
               \/ \E a \in Addr : Readable(a) /\ TasLoad(a)
               \/ TasStore
               \/ TasFail
               \/ \E v \in Value : Push(v)
               \/ PushFault
               \/ Readable(Stack[SPR]) /\ Pop
               \/ Fault
               \/ Faulted

Terminated == halted /\ UNCHANGED mmccvars

\* memory_vm_convert_endian has turned the program round; calloc the device.
MmccInit ==
    /\ mem = [a \in Addr |-> IF Uncached(a) THEN Zero ELSE Bswap(Program[a])]
    /\ icache = ColdCache /\ dcache = ColdCache /\ cache_tick = 0
    /\ out = NoAnswer /\ insn = [op |-> "none"] /\ dest = Zero
    /\ SPR = 0
    /\ tas = NoAddr /\ memory_is_fault = FALSE /\ memory_io_writeback = NoAddr
    /\ fd_mmcc \in BOOLEAN
    /\ image \in IF fd_mmcc THEN Cards ELSE {<<>>}
    /\ halted = FALSE

MmccNext == \/ /\ ~halted
               /\ \/ Instruction /\ UNCHANGED card
                  \/ SectorRead
                  \/ SectorWrite
                  \/ NoCommand
                  \/ WriteHalts
                  \/ ReadHalts
            \/ Terminated

MmccSpec == MmccInit /\ [][MmccNext]_mmccvars

-----------------------------------------------------------------------------
(* Properties *)

\* Every word of memory, of the caches and of the file stays one in use; no
\* instruction leaves exec both a fault to serve and a device to tell, for
\* which exec would drop the device's command (simulator.c:173-185).
MmccTypeOK == /\ TypeOK
              /\ dest \in [Lane -> Byte]
              /\ SPR \in 0 .. SPs - 1
              /\ tas \in Addr \union {NoAddr}
              /\ memory_is_fault \in BOOLEAN
              /\ memory_io_writeback \in {NoAddr} \union {a \in Addr : Uncached(a)}
              /\ memory_is_fault => memory_io_writeback = NoAddr
              /\ image \in Seq(Value)
              /\ fd_mmcc \in BOOLEAN
              /\ halted \in BOOLEAN

\* To the guest, memory is bytes in the order of their addresses, whatever
\* width it stores and loads them with, through the caches, in the program it
\* was loaded with and on the card: a sector comes back byte for byte as it was
\* written, each command is obeyed once before the next instruction, and tas
\* claims a word only if it was zero when it claimed it (load_store.h,
\* i_push, i_pop, i_tas, gci_mmcc_write, exec).
Guest == INSTANCE GuestMemory WITH
            Device <- Uncached,
            SectorRead <- GCI_MMCC_SECTOR_READ,
            SectorWrite <- GCI_MMCC_SECTOR_WRITE,
            Sector <- SectorOf,
            NoCommand <- NoAddr,
            bytes <- [a \in Addr |-> Bswap(mem[a])],
            disk <- image,
            command <- memory_io_writeback,
            sp <- SPR,
            answer <- dest
ByteSpec == Guest!Spec
=============================================================================
