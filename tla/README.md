# A verification of mist32-simulator in TLA+

mist32-simulator runs programs of the 32-bit processor mist32: one C process
that fetches and executes instructions in a loop, with a cache, an MMU,
interrupts and emulated devices. This directory holds TLA+ models of its parts,
the TLC configurations that check them on small instances, and proofs, checked
by TLAPS, that hold for every instance.

## 1. Inventory of the system

The simulator is single-threaded. What makes it hard is not threads but the
order of many small effects inside one cycle, instructions that fault halfway
and are restarted, flags whose clearing is deferred, two signal handlers
(SIGINT, SIGALRM) that run between any two steps, and peers on sockets.

| Component | Source | State | Operations | What makes it correct |
|---|---|---|---|---|
| Processor cycle | `simulator.c` | PCR, next PC, SPR and the banks KSPR/USPR, FLAGR and its invalid bit, pending fault and I/O write-back, `exec_finish` | `exec`, `interrupt_dispatcher`, `signal_on_sigint` | a cycle leaves nothing behind; faults restart exactly; stacks of the two modes never mix; the loop stops |
| Interrupt unit | `interrupt.c/.h` | `idt_cache`, `interrupt_nmi`, saved PC, PSR, flags | `interrupt_entry`, `_exit`, `_dispatch_nonmask`, `_idt_store` | one handler per dispatch, the chain of invalid vectors ends, an interrupted program resumes |
| Instructions | `instructions.h`, `flags.h`, `operands.h` | registers, flags | one function each | flags and conditions agree with arithmetic; no register changes before a fault |
| L1 caches | `cache.h` | lines, tags, valid bits, LRU stamps, `cache_tick` | `memory_cache_l1_read`, `memory_cache_l1_write` | invisible: every read is what memory holds |
| Access paths | `fetch.h`, `load_store.h` | `memory_is_fault`, `memory_io_writeback` | fetch, ld32/16/8, st32/16/8 | merges keep neighbouring bytes; a fault has no effect |
| MMU | `mmu.h`, `tlb.h`, `memory.c`, `vm.h` | page tables in memory, TLB, PDTR/KPDTR, FI0R/FI1R | translate, walk, flush, privilege check | a translation used is one the tables still give |
| I/O decoder | `io.c`, `io.h` | IOSR | `io_load`, `io_store` | every register reaches its device |
| Serial interface | `dps.c` | ring `fifo_sci_rx`, CFG, LSFLAGS, deferred clear | RXD, TXD, CFG, LSFLAGS, recv, interrupt | bytes in order, none lost; no lost wakeup, no storm |
| Timers UTIM64 | `dps.c` | enables, intervals, POSIX timers, FLAGS, deferred clear | register writes, FLAGS read, SIGALRM, interrupt | the timers that run are those programmed; an expiry is noticed |
| Keyboard KMC | `gci.c`, `monitor.c` | ring `fifo_scancode`, `int_dispatch`, `int_issued` | push, read, acknowledge, interrupt | a queue that drops its oldest; every key is announced |
| Monitor | `monitor.c` | message buffers, draw queue of 640 pixels | receive, queue, pack, send | pixels in order, none twice, none left behind by a batch |
| Display | `gci.c` | video memory, the draw queue above | register writes | a pixel lies where its word does |
| MMC card | `gci.c` | image file, sector buffer, `memory_io_writeback` of the cycle | register writes | a sector comes back byte for byte, a command is obeyed once |
| Start-up, debugger, generators, client | `main.c`, `utils.c`, `debug.h`, `opcodes.py`, `opsgen.py`, `client/` | options, breakpoints | sequential I/O | not modelled |

How they interact. `exec` calls, in this order and in every cycle: the choice of
the stack, the fetch (through MMU and instruction cache), one instruction (which
may load or store through MMU, data cache and I/O decoder, and may ask for a
trap), fault handling or the deferred `io_store`, the write-back of the stack
pointer, every 0x1000 cycles the polls of the serial socket and of the monitor,
the step of the program counter, and the dispatcher: first the trap, then, if
interrupts are enabled, the timer, the keyboard, the serial interface, at most
one of them. Devices share with the processor only their registers, their
`*_interrupt()` function and, for the poll, PSR and the interrupt table.

The hazards of this code, each with its line and the properties aimed at it,
are in `PROJECT.json`.

## 2. Plan

Modules, in the order of their importance:

1. `L1Cache` implementing `MemorySpec` - **done, with proofs**
2. `Exec`: cycle, interrupt unit, control instructions - **done, with proofs**
3. `Sci` implementing `ByteStream`, `Kmc` implementing `DropOldestSpec`,
   `Utim64` - **done, with proofs**
4. `Mmu`: translation, TLB and its flushes, the page-table walk with the
   referenced and dirty bits, the faults - **done, with proofs**
5. `Alu`: the flags and condition codes at a parameterised word width, against
   the comparison they stand for - **done, with proofs**
6. `Gci`: the address decoder and the draw queue on top of `Kmc`, with the
   monitor client, implementing `PixelStream` - **done, with proofs**
7. `LoadStore`: every width of load and store above `L1Cache`, and `Mmcc`, the
   memory card on top of it, both implementing `GuestMemory` - **done, with
   proofs**
8. `DeviceLine`: the contract between the dispatcher and a device. `Exec`
   assumes it of its devices, `Kmc`, `Sci` and `Utim64` keep it - **done, with
   proofs**. It takes the place of one module with all devices: the timer, the
   keyboard and the serial interface meet only in the dispatcher (the keyboard
   also meets the bitmap, on their socket, and `Gci` has both).

Every property of a passing run has its theorem. Still worth proving: that the
poll and the dispatcher serve the keyboard and the receiver in the end, once
their modules say how the loop is scheduled.

## 3. The modules

`MC*` modules only give an instance its constants and views. Every module that
is checked says in its comments which function an action stands for;
`PROJECT.json` ("map") has the lines of every definition. Definitions commented
as "mutant" are wrong on purpose: each is a plausible bug, and each property is
known to fail when one of them replaces the definition it stands beside.

### L1Cache, MemorySpec

An address is the record of tag, index and word into which `CACHE_L1_TAG`,
`_INDEX` and `_WORD` split it. `mem` is memory together with the I/O registers,
`icache` and `dcache` the two caches (`cache_l1i` + `cacheline_l1i`, ...).
`Fetch` and `Load` are `memory_cache_l1_read` with each flag, `Store` is
`memory_cache_l1_write` with its four effects in the code's order (write
through, drop the instruction line, hit or miss of the data cache);
`ReadUncached` and `StoreUncached` are the I/O area. The code resolves "the
first hit" and "the victim" by loops with `break`; here these are the predicates
`FirstHit` and `Victim`. `RawWrite` is every write that does not pass through
the cache: by a device to its registers and by the page walker to a page-table
entry (`memory.c:183`). `out` is a history variable: the answer of the last
operation. `MemorySpec` is a plain memory: a read answers with what the
last write left, except for the words of `Raw`, which anything may answer.

* `Coherence`: valid lines hold what memory holds, except the words the walker
  writes. That exception is real: the data cache can hold a stale page-table
  entry.
* `TagsDistinct`: of two ways with the same tag only the first is valid. The
  invalidation of `cache.h:136-144` looks at tags without valid bits and stops
  at the first, so its correctness depends on this.
* `FlatSpec`: the whole of both caches implements `MemorySpec`.

### Exec

The phases are the stations of `exec`'s loop: `Begin` (stack choice, fetch),
one action per kind of instruction in `Execute`, `Retire` (the label `fault` to
the next PC), `Dispatch` (`interrupt_dispatcher` and the flag marking), `Test`
(loop condition). The guest program is arbitrary: any instruction of the
constant `Insns` may come next, with any operand. Values are abstracted: a
program counter is 0 .. PCs-1 and + 4 is + 1, a stack pointer counts modulo
SPs, the condition flags are one value plus the invalid bit. `pending` is the
set of devices whose `*_interrupt()` would return true; their own state is in
their modules. It grows at any time; an instruction of the guest (`Instructing`)
may take the request of the timer or of the serial interface back
(`Withdrawable`: a load of FLAGS, of RXD, a store to CFG), but not the
keyboard's. Of PSR the model has the interrupt bit and the two modes that
`registers.h` names. `Sigint` and `DeviceChange` may come between any two
phases, which is coarser than between any two machine instructions: a phase
reads `exec_finish` at most once, and a device is asked once per dispatch.

* `CycleClean`: no trap, fault, write-back or branch target survives its cycle.
* `StackBanked`: SPR is always the stack pointer the current mode last gave
  itself (or the kernel gave it), although banks are swapped a cycle after the
  mode changes. `seen` is that pointer, `None` for a kernel that has not given
  itself one: it runs on 0. `exec` puts STACK_DEFAULT into KSPR
  (`simulator.c:120`) but leaves SPR 0, and since the mode does not change in the
  first cycle, the first write-back puts SPR over it. `DefaultStackLost` says so
  and is proved; the run has a default that is not 0.
* `UserResumes`: an interrupted user program goes on where it was with its
  flags. It is claimed while the kernel leaves the saved registers alone and is
  not itself interrupted, since there is one copy of them.
* `TrapServed`: a trap reaches its handler, the invalid-vector handler or the
  double-fault handler, the first one that is valid; else the simulation ends.
* `DeviceKept`: unless such an instruction takes it back, the request of a device
  leaves only by entry into its own handler, with interrupts enabled.
* `FinishStops`: once `exec_finish` is set (after start-up) the loop ends.
* `OneEntry`: a dispatch enters one handler at most, the trap's or a device's,
  because the entry for the trap disables interrupts; there is one copy of the
  context it saves.

### DeviceLine

What `interrupt_dispatcher` may take a device for: `wants` says what its
`*_interrupt()` would answer now. A request may come at any time; the answer
takes it back if the device is `Latched`, an instruction of the guest if it is
`Withdrawable`, and nothing else does. `Exec` is checked and proved with devices
that do all of this and no more. Each device module maps its registers on it:

* `KeyboardLine` (`Kmc`): latched, never withdrawn, neither by reading the last
  code, nor by the acknowledgement, nor when a full ring drops codes.
* `SciLine` (`Sci`): latched; the guest may withdraw it by emptying the ring or
  turning the receiver off, while the poll, the peer and the wrap of the ring do
  not. The answer is that of the ring, RIRE and the flag at the moment of asking.
* `TimerLine` (`Utim64`): no answer takes it back, only a load of FLAGS does, and
  no signal between the two halves of the answer.

### Mmu

A virtual page is its level-1 index (`region`) and level-2 index (`slot`).
Memory is seen as page directories `pd` and page tables `pt`, an entry as the
record of its bits; addresses in a page are left out, since they pass through.
`Virt2phy` is `memory_addr_virt2phy` for a fetch, load or store: direct, a TLB
hit, or `Walk` (`memory_page_walk_L2`) with its two levels, each of which may
fault, and its writes to the entry and to the TLB. The other actions are all
that changes what a translation means: the guest's writes to its tables
(`WritePd`, `WritePt`), the instructions that set the directories and PSR,
`Ib`, and `Interrupt`, which may come at any time (`Exec` says when). `Flush`
is part of the actions whose code calls `memory_tlb_flush`. `access` and
`answer` are the last translation and its result, `stale` says that the tables
have changed since the last flush: the guest has no instruction that only
flushes, it reloads a directory register.

* `TlbInvisible`: a guest that flushes after changing its tables gets what its
  tables give, in any mode and from any directory, in a *regular* region. The
  code's TLB has no tag for the mode or the directory, keeps no level-1 rights,
  and takes a level-2 entry with the bit of a 4 MB page for one; `Regular` is
  what a guest must respect for these to stay invisible: kernel and user
  directory give the region the same entry, which allows what its table allows.
* `TlbCurrent`: up to the last flush each valid entry is the current leaf of
  the user's or the kernel's directory, referenced there, and dirty only if it
  is dirty there. The converse fails, and the definition shows it: a store
  that hits an entry cached by a load leaves the dirty bit in memory clear.
* `FaultsReal`: a fault is never due to the TLB, flushed or not, since an entry
  that denies is walked again.

### Alu

A word is a number below 2 * Half; `Signed` is its value as an `int32_t`.
Each action is an instruction, or several that differ only in their result
(products, quotients, logic). `Condition` is `check_condition`. A shift by the
width or more is undefined in C; `Amounts` has the outcomes of x86 and Arm.
`Other` is every instruction that leaves the flags alone; it may write any word
anywhere. `last` says which instruction set the flags and from what.

* `OrderTold`: after a comparison, until flags are set again, each condition of
  a branch is the order of the operands, signed or unsigned.
* `SumTold`: after an addition, carry and result are the whole sum, and sign and
  overflow tell the signed one. Both leave out `inc r,r` and `dec r,r`, whose
  flags are those of another sum: the code computes them after it has
  overwritten the operand.
* `ShiftTold`: the carry is the last bit shifted out, `sar` divides, a rotation
  loses nothing; for amounts below the width.

### Sci, ByteStream

A cycle is a guest instruction, the poll, the dispatcher; the peer sends at any
time. `enabled` is the guest's half of the interrupt condition. `Recv(n)` is a
`recv` that got n bytes, any number up to what is there and what fits.
`CfgWrite`, `RxdOff`/`RxdRead` and `LsflagsRead` are the register handlers,
`SciInterrupt` the question of the dispatcher. `LsflagsWrite` is a store to
LSFLAGS, for which there is no handler: a word is simply there, while a store of
8 or 16 bits first loads the word, and so reads it (a narrow store to RXD is an
`RxdRead` for that reason). `RecvFails` is an error of `recv`, which ends the
program. `owed` and `event` are history.
The shift by RIRE - 1 is undefined for RIRE 0; `Requests` has the results x86
and Arm give.

* `StreamSpec`: the receiver implements a byte stream.
* `Acknowledged`: two interrupts always have a read of LSFLAGS between them, or
  a store that takes the flag back.
* `Woken`: whenever the device is asked, is on, has enough bytes and is owed no
  acknowledgement, it interrupts.
* `SciLine`: it keeps `DeviceLine`.

### Kmc, DropOldestSpec

`Scan` is one round of KEYBOARD_SCANCODE's loop; any number of rounds make a
poll. `KmcRead` and `IrfRead` are the guest's loads. `Used` and `Buffered` give
the queue the ring stands for.

* `KeyboardSpec`: the ring implements a bounded queue that drops its oldest.
* `Announced`, `Acknowledged`: the two halves of the interrupt handshake: no key
  is left unannounced, and no interrupt repeats before it is acknowledged.
* `KeyboardLine`: it keeps `DeviceLine`.

`Kmc` alone has no run: `Gci` extends it, and the run of `Gci` checks its
properties too.

### Gci, PixelStream

The I/O space by the word, for any sizes of its parts. `Target` is what a guest
can aim at with the sizes it reads from the hub, `OffsetOf` where it finds that;
`Register` is `io_addr_get`, `LoadCall` and `StoreCall` are what `io_load` and
`io_store` call. `IoLoad` and `IoStore` are then whole accesses: the keyboard's
registers do what `Kmc` says, the bitmap's words queue a pixel (`QueueDraw`), the
registers of the other devices change nothing here. The loop polls in one cycle of
`INTERVAL`: `GciScan`, `GciDisconnect` (receive), `SendQueue` and then `MethodSend`
or `CutShort`. The array `draw_queue` is the sequence of its first
`draw_queue_n` pixels; `draw_sbuf` is what the message holds. The rest is
the socket. `CutShort` is SIGALRM in a send that waits: `write` returns early and
nobody looks. `GciSigint` and `Goodbye` send DISCONNECT, the first also in the
middle of another send (`stage` "writing"), which leaves the client with a broken
frame (`client` "confused"). A client that has left resets the connection some
time later, after which a send ends the simulator by SIGPIPE (`killed`). `cut` is
history: the last step cut a send short (`CutShort`, `GciSigint`).

* `PixelSpec`: a client that watches gets every pixel once, in the order of the
  stores, and a batch leaves none behind; only a step that cuts a send short
  loses any, or leaves the client without understanding. A full queue that is
  dropped, or a batch that is never delivered, is no step of `PixelStream`.
* `Backlog`: less than a row of pixels waits after a poll. They may wait for ever:
  `monitor_send_queue` sends only after a row was full.
* `Decoded`: whatever part of the space the guest aims at, register and function
  are those of that part, though three loops walk over the nodes.
* `GciTypeOK`: the array is never overrun, no pixel lies outside the bitmap, and
  the indices of the keyboard's ring stay inside it (`TypeOK` of `Kmc`).

A store of 8 or 16 bits loads its word first, so that `IoStore` may do what a
load does (`Reading`). The guest is taken to leave the hub alone, in which the
sizes lie.
The client may send DISCONNECT only when it leaves, as `client/monitor.py` does.

### LoadStore, Mmcc, GuestMemory

A word is an array of four lanes, lane 0 the least significant byte, as
`union_int32` sees it. `Low` is the turning round of the address that `ld8`,
`ld16`, `st8` and `st16` do (`~vaddr & 3`); `Field` and `Merged` are the loaded
value and the merged word. `Ld`, `St`, `Push`, `Pop`, `TasLoad`/`TasStore` reach
the caches through `L1Cache`'s own actions. A fault may come wherever the code
translates an address, and the interrupted instruction may or may not be
restarted; `PushFault` is the one fault that leaves a trace. `tas` is two steps,
because its store may fault when its load has not.

`Mmcc` takes the I/O area to be the card. `memory_io_writeback` holds a command
from the store to the end of the instruction, where exec calls `gci_mmcc_write`:
`SectorRead`, `SectorWrite`, `NoCommand`. A sector is as many words as `Buffer`
has; `SectorOf` is the shift by 9 that wraps at 32 bits. `errx` is `halted`.

`GuestMemory` says what the guest sees: bytes in the order of their addresses, a
stack that grows down, a card that copies sectors byte for byte and obeys a
command before the next instruction. It knows nothing of words in host order,
lanes, caches or files.

* `ByteSpec`: `Mmcc` implements it. Bytes are turned round in four places (the
  program, the address of a byte or halfword, a sector in, a sector out), and any
  one missing breaks it. Two flaws are part of the promise: a faulting push has moved
  the stack pointer, and a sector read behind the end of the image leaves no
  known bytes.
* `MmccTypeOK`: beside the types, no instruction leaves exec both a fault to serve
  and a device to tell, since exec would drop the second.

### Utim64

A timer is a pair of unit and channel. `armed` is the operating system's side.
`Clear` and `Test` are the two halves of `dps_utim64_interrupt`, so that
`Expire` (the SIGALRM handler) can come between. Intervals are abstracted to
zero or not, because a zero interval disarms a POSIX timer.

The host's `ccena` and the enable bit of `cccfg` are one variable: the cache
writes whole aligned words through, so that a store of 8 or 16 bits reaches
`dps_utim64_write` at the address of its register, and an unaligned one ends the
simulator (`io.c:144`).

* `ProgrammedTimers`: a timer runs exactly if its registers say so, as long as it
  is not in `touched`. A write to a running unit puts its channel there, and,
  when it enables or disables the channel, timer 0 as well, which the code acts
  on in its place (`dps.c:293`); the next start or stop of the unit takes out the
  channels it switches. The exception is necessary: see the findings.
* `ExpiryKept`: an expiry stays visible until FLAGS is loaded. An expiry between
  that load and the clear it asked for is lost, which the definition of
  `unseen` leaves out: with interrupts disabled this window lasts as long as the
  guest's handler does.
* `ExpiryNoticed`: such an expiry interrupts, if interrupts are enabled again
  and again.
* `TimerLine`: it keeps `DeviceLine`.

## 4. The runs

| Run | Expected | Bounds and why they are enough |
|---|---|---|
| `l1cache` | pass | 2 ways for 2 plain tags and 1 walker tag in one set, so that lines compete; 1 I/O tag; a clock of 2 values, so that it wraps at every second access; 1 word per line (the proofs have any number) |
| `exec_guest` | pass | 2 addresses, 2 stack pointers, the default one not 0, 2 flag values, 1 device, all the stack, trap and status instructions |
| `exec_idt` | pass | 3 devices, 5 tables with different missing vectors, SYS_exit, SIGINT |
| `sci` | pass | a ring of 4 slots wraps in a few steps; 3 more bytes on the wire; requests of 1, 2 and 4 (one more than fits) |
| `gci` | pass | a ring of 4 slots, 2 keys; a bitmap of one row of 2 pixels, 2 rows of pixels in the 3 cycles from poll to poll, so that a batch holds more than one row and one pixel can wait; every word of an I/O space of 18 words |
| `mmcc` | pass | 2 words of memory that compete for the one line of the cache; a card of one word a sector, which is empty, has one sector or grows to 2 (`MaxImage`); the words 0, 1 and 2^24, which the turning of bytes exchanges: in memory the outer bytes tell their places, the inner ones only in registers (the proof has any words); 2 stack pointers; no bound on the length of a run |
| `utim64` | pass | one unit of 3 channels; units share only FLAGS, whose bits are independent |
| `mmu` | pass | 2 regions that share the one TLB entry, 2 slots, 2 directories and one table that both may hold, a 4 MB page whose rights are widened, user and kernel mode, direct, two-level and unsupported MMU modes, and no bound on the length of a run |
| `alu` | pass | words of 3 bits: both signs, the least integer, overflow and carry all occur, and each amount of shift from 0 to beyond the width; 2 registers, equal or not |
| `exec_flags` | violation | see finding 1 |
| `sci_rire` | violation | see finding 2 |
| `utim64_stop` | violation | see finding 3 |

The views of `l1cache`, `mmu`, `sci`, `gci` and `mmcc` leave out what is never
read again: the last answer of the cache or of the MMU, the last access, the
last batch, the last instruction (checked by action properties, which see each
step), registers that are only written, and the contents of ring slots that hold
nothing. That of `gci` also keeps only whether a key equals the oldest in the ring,
since nothing else tells its two keys apart. In `mmcc` a store whose merged word is none of the three in use is left
out (`Merged` in `Value`), and no word is one of a page table
(`PagingAssumption`; `Mmu` has those).

**Fairness.** `Exec` and `Utim64` assume weak fairness of the cycle: the process
runs. Nothing is assumed of the guest, of devices or of peers. `ExpiryNoticed`
carries its condition (interrupts enabled again and again) in the formula.

## 5. Findings

1. `exec_flags`: the debug check "for invalid flags checking"
   (`simulator.c:239`, `operands.h:119-122`) ends the simulator on a valid user
   program. A compare sets the flags; the fetch of the conditional branch after
   it faults. The flags were marked stale at the end of the compare's cycle, are
   saved with the mark when the fault's handler is entered and restored with it
   by the handler's `ib`, and at the end of that cycle `prev_FLAGR` takes the
   mark: the restarted branch is refused.
2. `sci_rire`: the test for "interrupt disabled or invalid" (`dps.c:452-453`) can
   never be true; RIRE 0 interrupts with an empty FIFO.
3. `utim64_stop`: `dps.c:293` names channel 0 instead of the channel written, so a
   timer can run on after "Timer End" (`dps.c:243`).

No run shows a smaller one: "if result == 0x80000000 then overflow"
(`instructions.h:165`) stands above a line that sets overflow whenever the result
of `neg` is negative. `Alu` has what the line does.

## 6. What is proved

All proofs are for every value of the constants under the named assumptions of
the modules: sizes are positive, distinguished values (`NoAnswer`, `None`, ...)
lie outside the sets they are told apart from.

* `L1CacheProofs`: `TypeCorrect`, `CachesCoherent` (`Coherence`),
  `TagsStayDistinct` (`TagsDistinct`) and `CachesInvisible` (`Spec => FlatSpec`). The inductive
  invariant `IInv` adds `OnlyMemory` (no I/O address enters a cache): without it
  an uncached write could make a line stale. `TagsDistinct` is inductive only
  because the victim is the *first* invalid way, and coherence of the
  instruction cache needs it, since invalidation stops at the first tag.
* `ExecProofs`: `TypeCorrect`, `StacksBanked`, `CyclesClean`,
  `DefaultStackUnused` (`DefaultStackLost`), `OneEntryPerCycle` (`OneEntry`),
  `UsersResume`, `TrapsServed` (`TrapServed`),
  `DevicesKept` (`DeviceKept`) and `FinishReached` (`FinishStops`), the safety
  properties each by an invariant per phase:
  `StackInv` says which of SPR and the banks is current at each station of the
  cycle and `UserInv` where the interrupted context is (in the registers or in
  the saved ones). `DevicesKept` needs to know who was asked: `TakenByDispatch`
  shows that a dispatch takes from `pending` only the device it enters, and
  enters it only if no trap of the cycle goes before.
* The composition of the dispatcher with its devices, by assumption and
  guarantee: `KeyboardIsLine` (`Spec => KeyboardLine`), `ReceiverIsLine` (`Spec =>
  SciLine`) and `TimersAreLine` (`Spec => TimerLine`) show that each device keeps
  `DeviceLine`, for rings of any size and any timers; `DevicesAccepted` in
  `ExecProofs` that `Exec` lets a device change its request exactly when the
  contract does, with the same two constants (`LineConstants`). What is proved
  of `Exec` so holds of the devices there are. The receiver's proof needs that a
  poll only lets the ring grow (`PollAdds`) and that all results of the undefined
  shift ask for the same (`OneRequest`); the timers' needs `ClearDone`: no clear
  is pending between the two halves of the answer, where a signal may come.
* `MmuProofs`: `TypeCorrect`, `TlbFollowsTables` (`TlbCurrent`),
  `TlbIsInvisible` (`TlbInvisible`) and `FaultsAreReal` (`FaultsReal`), for any
  number of regions, slots, directories, tables and TLB entries. `TlbCurrent` is
  inductive together with the types: a switch of the user's directory flushes,
  except in `interrupt_exit`, whose condition is just enough, and a walk
  changes only the bits of the leaf that it also caches. That a hit answers
  like a walk then follows from `Regular`: the leaf is the same from both
  directories, and its rights imply the level-1 check that a hit skips.
* `AluProofs`: `TypeCorrect`, `ConditionsOrder` (`OrderTold`), `SumsWhole`
  (`SumTold`) and `ShiftsExact` (`ShiftTold`), for words of any width. For the
  first three the arithmetic needs only that Half is positive. The invariant
  `FlagsStand` says that the flags are those of the last addition or
  subtraction; the rest are lemmas about `make_flags_add` and `make_flags_sub`.
  `ShiftsExact` needs the bits of a number. The provers do not know `2^n`;
  `PowerAssumption` gives its defining law for the exponents of a shift, which TLC
  evaluates, and all else is proved: `2^(a+b) = 2^a * 2^b` (`PowerSum`) and
  positivity by induction in the form of the least counterexample
  (`Induction`, from the well-foundedness of `<`), then quotients of quotients
  (`DivDiv`), the bits above and below a shifted one (`LeftBit`, `RightBit`), the
  bit that falls out (`RightCarry`) and the sign (`SarDivides`).
  `DivisionTruncates` is about operators, not behaviours: what `i_div` and `i_mod`
  leave in a register is the quotient rounded towards zero and its rest, with the
  least integer by -1 as the one exception (`QuotientFits`).
* `SciProofs`: `TypeCorrect`, `ReceiveAcknowledged` (`Acknowledged`),
  `NoLostWakeup` (`Woken`) and `RingIsStream` (`Spec => StreamSpec`), for a ring of
  any size. The invariant `Owes` ties the history to the code's flags: a read of
  LSFLAGS is owed exactly while the flag stands and no clear is pending, which a store to LSFLAGS
  keeps. Both
  halves of the handshake follow from it, wherever the deferred clear falls. For
  the refinement `Around`, `Distance` and their lemmas say what `%` does to a sum
  that passes the size at most once; then a reception appends a part of the wire
  to the queue in the ring, and leaves the queue of both together as it was.
* `Utim64Proofs`: `TypeCorrect`, `ExpiriesKept`, `TimersProgrammed`
  (`ProgrammedTimers`, inductive with the types: each write keeps what it does not
  touch in step) and `ExpiriesNoticed` (`ExpiryNoticed`), for any number of units
  and channels.
  `ExpiriesKept` needs that a clear is only asked for by a load that left nothing
  unseen (`ExpiryInv`).
* `GciProofs`, first about `Kmc`: `TypeCorrect`, `KeysAnnounced`,
  `InterruptsAcknowledged` and `RingIsQueue` (`Spec => KeyboardSpec`). The invariant
  `Handshake` says what the two flags stand for: `int_dispatch` whenever a code is
  unannounced, `int_issued` exactly while an acknowledgement is owed. The
  refinement is arithmetic of the ring: a push moves every `Place(k)` by nothing
  or, into a full ring, by one.
* `GciProofs`, then about `Gci`: `KeyboardInside` (a behaviour of `Gci` is one of
  `Kmc`, so that the theorems above hold of it), `DecodersAgree` (`Decoded`, for any
  sizes of the parts), `GciTypes` (`GciTypeOK`), `BacklogBounded` (`Backlog`) and
  `PixelsInOrder` (`PixelSpec`). A pixel's place needs the lemma that quotient
  and remainder of a word of the bitmap lie inside it; the backlog needs how far
  the cycles from poll to poll have come.
* `MmccProofs`: `MmccTypes` (`MmccTypeOK`), `BytesServed` (`ByteSpec`) and
  `CardKeepsCaches` (the invariants of `L1Cache`, also behind the card), for
  caches of any size, any stack, image and sector. The invariant is that of the
  caches (`IInv` of `L1CacheProofs`: a load returns what memory holds) with the
  types and `TasPending`: the register of a pending `tas` holds what memory
  does. `FieldBytes` and `MergedBytes` say that a load from lanes or a merge into
  them is the load or store of bytes in the order of addresses, for each width.
  `SectorShift` says that `SectorOf` is the 32-bit shift by 9 of the code.

**Liveness.** `FinishReached` and `ExpiriesNoticed` have the form
`FairSpec /\ []CanRun => ...`. TLAPS 1.4.5 cannot prove that an action is enabled,
but it can use it: `CanRun` says that the loop has a next step in every state
before its end. It is taken for granted here and is no property of a run: the
actions of every phase cover all cases, so that it holds by the shape of `Cycle`.
With it weak fairness of the cycle gives a step of the cycle after each state
(`CycleGoesOn`), since no signal, device or expiry moves the loop. The rest is a
chain of steps: begin, execute, retire, dispatch, test for the first, asked, test
for the second. The runs check both formulas under `FairSpec` alone.

The instances that expect a violation have no theorem.

## 7. What is not modelled

One module with the state of all devices at once (section 2 says what stands for
it); options and libelf
(sequential input: of the loader only the order of bytes is in `Mmcc`), the
debugger's prompt and printing, the escape sequences of the character display
(output only), the generators and the Python client (not part of the running
simulator), the encoding of msgpack messages, and TIDR, which only programs read.
`Mmu` keeps directories and page tables apart, so that no table overlaps another
or the I/O area; the words of tables in the data cache are in `L1Cache` (`Raw`).
The host pages behind physical memory (`vm.h`) are invisible to the guest. A byte sent
by TXD is one `write` that changes no state of the simulator. An
unaligned access ends the simulator and is left out of `LoadStore`, as is a `tas`
whose destination is its address register.
