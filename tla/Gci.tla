-------------------------------- MODULE Gci --------------------------------
(***************************************************************************)
(* The devices behind the GCI hub as the guest and the monitor client see  *)
(* them: the address decoder of io_load, io_store and io_addr_get, the     *)
(* keyboard (Kmc), the bitmap display with its draw queue, and the monitor *)
(* socket they share.  The loop polls the socket every INTERVAL cycles: it *)
(* receives messages, then sends the queued pixels in one write, which a   *)
(* signal may cut short; the handler of SIGINT writes to the same socket.  *)
(*                                                                         *)
(* Offsets count words from IOSR.  The serial interface, the timers and    *)
(* the MMC card are in their modules; here the decoder only reaches them.  *)
(***************************************************************************)
EXTENDS Kmc

CONSTANTS
    DPS_UTIM64_SIZE,        \* the registers of the timers
    DPS_SCITXD, DPS_SCIRXD, DPS_SCICFG, DPS_LSFLAGS, DPS_SIZE,
    GCI_HUB_SIZE, GCI_NODE_SIZE, GCI_NODE_IRF_OFFSET,
    GCI_KMC_AREA_SIZE, GCI_DISPLAY_CHAR_SIZE, GCI_MMCC_AREA_SIZE,
    DISPLAY_WIDTH, DISPLAY_HEIGHT,
    INTERVAL,               \* MONITOR_RECV_INTERVAL_MASK + 1
    Color

ASSUME DpsAssumption ==
    /\ {DPS_UTIM64_SIZE, DPS_SCITXD, DPS_SCIRXD, DPS_SCICFG, DPS_LSFLAGS, DPS_SIZE} \subseteq Nat
    /\ {DPS_SCITXD, DPS_SCIRXD, DPS_SCICFG, DPS_LSFLAGS}
          \subseteq DPS_UTIM64_SIZE .. DPS_SIZE - 1
    /\ DPS_SCIRXD # DPS_LSFLAGS
    /\ DPS_SCITXD # DPS_SCICFG
ASSUME GciAssumption ==
    /\ {GCI_HUB_SIZE, GCI_NODE_SIZE, GCI_KMC_AREA_SIZE, GCI_DISPLAY_CHAR_SIZE,
        GCI_MMCC_AREA_SIZE} \subseteq Nat \ {0}
    /\ GCI_NODE_IRF_OFFSET \in 1 .. GCI_NODE_SIZE - 1
ASSUME DisplayAssumption ==
    /\ DISPLAY_WIDTH \in Nat \ {0}
    /\ DISPLAY_HEIGHT \in Nat \ {0}
    /\ INTERVAL \in Nat \ {0}

VARIABLES
    draw_queue,     \* the first draw_queue_n pixels of the array
    draw_sbuf,      \* the pixels packed in the message buffer
    draw_pk,        \* draw_pk is not NULL
    clk,            \* cycles since the last poll
    stage,          \* where the poll is, or what main has done after exec
    client,         \* the monitor client
    reset,          \* the connection of a client that left is reset
    killed,         \* SIGPIPE has ended the simulator
    access,         \* history: the last access to the I/O space
    shown,          \* history: the last batch the client got
    cut             \* history: a signal has just cut a send short

kmcvars == vars
draws == <<draw_queue, draw_sbuf, draw_pk>>
connection == <<client, reset, killed, shown>>
gcivars == <<kmcvars, draws, clk, stage, connection, access, cut>>

-----------------------------------------------------------------------------
(* The layout of the I/O space: gci_init, gci_info *)

GCI_NODE_MAX == 4
GCI_KMC_NUM == 0
GCI_DISPLAY_NUM == 1
GCI_MMCC_NUM == 2
Node == 0 .. GCI_NODE_MAX - 1

AreaSize(i) == CASE i = GCI_KMC_NUM -> GCI_KMC_AREA_SIZE
                 [] i = GCI_DISPLAY_NUM -> GCI_DISPLAY_CHAR_SIZE + DISPLAY_WIDTH * DISPLAY_HEIGHT
                 [] i = GCI_MMCC_NUM -> GCI_MMCC_AREA_SIZE

\* The hub's table of sizes; its last entry stays zero.
size(i) == IF i = GCI_NODE_MAX - 1 THEN 0 ELSE GCI_NODE_SIZE + AreaSize(i)

\* Where a node begins, as gci_info adds it up for the guest.
Start(i) == DPS_SIZE + GCI_HUB_SIZE + (IF i > 0 THEN size(0) ELSE 0)
               + (IF i > 1 THEN size(1) ELSE 0) + (IF i > 2 THEN size(2) ELSE 0)

\* What a guest can aim at, a word of one of these parts, and where it finds it.
Dps(w) == [part |-> "dps", node |-> 0, word |-> w]
Hub(w) == [part |-> "hub", node |-> 0, word |-> w]
Info(i, w) == [part |-> "info", node |-> i, word |-> w]
Area(i, w) == [part |-> "area", node |-> i, word |-> w]

Target == {Dps(w) : w \in 0 .. DPS_SIZE - 1} \union {Hub(w) : w \in 0 .. GCI_HUB_SIZE - 1}
            \union UNION {{Info(i, w) : w \in 0 .. GCI_NODE_SIZE - 1}
                            \union {Area(i, w) : w \in 0 .. AreaSize(i) - 1}
                            : i \in {GCI_KMC_NUM, GCI_DISPLAY_NUM, GCI_MMCC_NUM}}

OffsetOf(t) == CASE t.part = "dps" -> t.word
                 [] t.part = "hub" -> DPS_SIZE + t.word
                 [] t.part = "info" -> Start(t.node) + t.word
                 [] t.part = "area" -> Start(t.node) + GCI_NODE_SIZE + t.word

-----------------------------------------------------------------------------
(* The decoder *)

\* The loop over the nodes stops at the first one the offset lies in.
Passed(offset, i) == offset >= Start(i) + GCI_NODE_SIZE /\ offset >= Start(i) + size(i)
NodeAt(offset) == CHOOSE i \in Node : /\ ~Passed(offset, i)
                                      /\ \A j \in 0 .. i - 1 : Passed(offset, j)
InInfo(offset) == offset < Start(NodeAt(offset)) + GCI_NODE_SIZE

\* mutant of AreaOffset: the node's information is not skipped
AreaOffsetFromNode(offset) == offset - Start(NodeAt(offset))

AreaOffset(offset) == offset - (Start(NodeAt(offset)) + GCI_NODE_SIZE)

InGci(offset) == offset > DPS_SIZE + GCI_HUB_SIZE

\* io_addr_get
Register(offset) ==
    IF offset < DPS_SIZE THEN Dps(offset)
    ELSE IF offset < DPS_SIZE + GCI_HUB_SIZE THEN Hub(offset - DPS_SIZE)
    ELSE IF InInfo(offset) THEN Info(NodeAt(offset), offset - Start(NodeAt(offset)))
    ELSE Area(NodeAt(offset), AreaOffset(offset))

\* The function of a device that an access calls, and with which word.
Call(function, word) == [function |-> function, word |-> word]
NoCall == Call("none", 0)

Readers == [i \in {GCI_KMC_NUM, GCI_MMCC_NUM} |->
                IF i = GCI_KMC_NUM THEN "gci_kmc_read" ELSE "gci_mmcc_read"]
Writers == [i \in {GCI_DISPLAY_NUM, GCI_MMCC_NUM} |->
                IF i = GCI_DISPLAY_NUM THEN "gci_display_write" ELSE "gci_mmcc_write"]

AreaCall(offset, functions) ==
    IF NodeAt(offset) \in DOMAIN functions
    THEN Call(functions[NodeAt(offset)], AreaOffset(offset))
    ELSE NoCall

\* io_load: what a load calls before it reads the register.
LoadCall(offset) ==
    IF offset < DPS_UTIM64_SIZE THEN Call("dps_utim64_read", offset)
    ELSE IF offset = DPS_SCIRXD THEN Call("dps_sci_rxd_read", offset)
    ELSE IF offset = DPS_LSFLAGS THEN Call("dps_lsflags_read", offset)
    ELSE IF ~InGci(offset) THEN NoCall
    ELSE IF InInfo(offset)
    THEN IF offset = Start(NodeAt(offset)) + GCI_NODE_IRF_OFFSET
         THEN Call("int_issued", NodeAt(offset)) ELSE NoCall
    ELSE AreaCall(offset, Readers)

\* io_store: what is called after a store wrote the register.
StoreCall(offset) ==
    IF offset < DPS_UTIM64_SIZE THEN Call("dps_utim64_write", offset)
    ELSE IF offset = DPS_SCITXD THEN Call("dps_sci_txd_write", offset)
    ELSE IF offset = DPS_SCICFG THEN Call("dps_sci_cfg_write", offset)
    ELSE IF ~InGci(offset) \/ InInfo(offset) THEN NoCall
    ELSE AreaCall(offset, Writers)

Access(op, t, call) == [op |-> op, target |-> t, register |-> Register(OffsetOf(t)), call |-> call]
NoAccess == [op |-> "none"]
Loads == [t \in Target |-> Access("load", t, LoadCall(OffsetOf(t)))]
Stores == [t \in Target |-> Access("store", t, StoreCall(OffsetOf(t)))]

-----------------------------------------------------------------------------
(* The bitmap display and its draw queue *)

\* A pixel of the bitmap; p is its word.
PixelAt(p, c) == [x |-> p % DISPLAY_WIDTH, y |-> p \div DISPLAY_WIDTH, color |-> c]
Pixel == [x : 0 .. DISPLAY_WIDTH - 1, y : 0 .. DISPLAY_HEIGHT - 1, color : Color]

\* mutant of Packed: every message clears the buffer, and a full row in it is lost
PackedAfresh(pixels) == pixels

\* monitor_pack_draw_queue: a first message clears the buffer, more are added.
Packed(pixels) == IF draw_pk THEN draw_sbuf \o pixels ELSE pixels

\* mutant of Full: one more pixel than the array has
FullTooLate(pixels) == Len(pixels) > DISPLAY_WIDTH

Full(pixels) == Len(pixels) >= DISPLAY_WIDTH

\* monitor_display_queue_draw
QueueDraw(pixel) ==
    LET pixels == Append(draw_queue, pixel)
    IN  \/ /\ Full(pixels)
           /\ draw_sbuf' = Packed(pixels)
           /\ draw_pk' = TRUE
           /\ draw_queue' = <<>>
        \/ /\ ~Full(pixels)
           /\ draw_queue' = pixels
           /\ UNCHANGED <<draw_sbuf, draw_pk>>

\* gci_display_write of the word c; a character only rewrites the terminal.
DisplayWrite(word, c) ==
    IF word < GCI_DISPLAY_CHAR_SIZE
    THEN UNCHANGED draws
    ELSE QueueDraw(PixelAt(word - GCI_DISPLAY_CHAR_SIZE, c))

Unsent == (IF draw_pk THEN draw_sbuf ELSE <<>>) \o draw_queue

-----------------------------------------------------------------------------
(* A cycle of the loop: the instruction *)

Untouched == UNCHANGED enabled /\ Elsewhere

\* What the keyboard does when a word is loaded.
Reading(t) ==
    LET call == Loads[t].call
    IN  CASE call.function = "gci_kmc_read" -> KmcRead
          [] call = Call("int_issued", GCI_KMC_NUM) -> IrfRead
          [] OTHER -> Untouched

IoLoad(t) == /\ access' = Loads[t]
             /\ Reading(t)
             /\ UNCHANGED draws

\* A store of 8 or 16 bits loads the word first that it is merged into.  A
\* guest that overwrote the hub's table of sizes would move the nodes.
IoStore(t, c) ==
    LET call == Stores[t].call
    IN  /\ t.part # "hub"
        /\ access' = Stores[t]
        /\ Untouched \/ Reading(t)
        /\ IF call.function = "gci_display_write"
           THEN DisplayWrite(call.word, c) ELSE UNCHANGED draws

NoIo == Elsewhere /\ access' = NoAccess /\ UNCHANGED draws

GciExecute == /\ Executes
              /\ \/ \E t \in Target : IoLoad(t) \/ \E c \in Color : IoStore(t, c)
                 \/ NoIo
              /\ UNCHANGED <<clk, stage, connection>>

-----------------------------------------------------------------------------
(* The poll: monitor_method_recv, monitor_send_queue *)

\* exec polls in one cycle of INTERVAL.
Receiving == phase = "poll" /\ clk = 0 /\ stage = "receive"

GciScan(c) == /\ Receiving
              /\ Scan(c)
              /\ UNCHANGED <<draws, clk, stage, connection, access>>

\* The client has sent DISCONNECT before it left.
GciDisconnect == /\ Receiving
                 /\ client = "closed"
                 /\ Disconnect
                 /\ UNCHANGED <<draws, clk, stage, connection, access>>

\* mutant of Sendable: pixels queued after the pack hold the batch back
SendableWhenEmpty == draw_pk /\ draw_queue = <<>>

Sendable == draw_pk

SendQueue == /\ Receiving
             /\ \/ /\ Sendable
                   /\ draw_sbuf' = Packed(draw_queue)
                   /\ draw_queue' = <<>>
                   /\ stage' = "writing"
                \/ /\ ~Sendable
                   /\ stage' = "sent"
                   /\ UNCHANGED <<draw_queue, draw_sbuf>>
             /\ UNCHANGED <<kmcvars, draw_pk, clk, connection, access>>

\* A write to a connection the client has closed succeeds until the client's
\* reset arrives; then SIGPIPE ends the simulator.
Unheard == \/ ~reset /\ reset' \in BOOLEAN /\ UNCHANGED killed
           \/ reset /\ killed' = TRUE /\ UNCHANGED reset

\* monitor_method_send returns and the queue's message is freed.
SendEnds == /\ stage = "writing"
            /\ stage' = "sent"
            /\ draw_pk' = FALSE
            /\ UNCHANGED <<draw_queue, draw_sbuf>>

MethodSend == /\ SendEnds
              /\ \/ /\ client = "watching"
                    /\ shown' = draw_sbuf
                    /\ UNCHANGED <<reset, killed>>
                 \/ /\ client = "confused"
                    /\ UNCHANGED <<shown, reset, killed>>
                 \/ client = "closed" /\ Unheard /\ UNCHANGED shown
              /\ UNCHANGED <<kmcvars, clk, client, access>>

\* SIGALRM interrupts a send that waits for the client: nothing was written
\* and write fails, or only a part was.  Neither is tested for.
CutShort == /\ SendEnds
            /\ \/ client = "watching" /\ client' \in {"watching", "confused"}
               \/ client = "confused" /\ UNCHANGED client
            /\ cut' = TRUE
            /\ UNCHANGED <<kmcvars, clk, reset, killed, shown, access>>

GciPolled == /\ clk = 0 => stage = "sent"
             /\ Polled
             /\ stage' = "receive"
             /\ UNCHANGED <<draws, clk, connection, access>>

GciDispatch == /\ Dispatch
               /\ clk' = IF clk + 1 = INTERVAL THEN 0 ELSE clk + 1
               /\ UNCHANGED <<draws, stage, connection, access>>

-----------------------------------------------------------------------------
(* The end *)

\* monitor_disconnect: a client that understands the message closes.
SendDisconnect == /\ \/ /\ client # "closed"
                        /\ client' \in {"closed"} \union ({client} \ {"watching"})
                        /\ UNCHANGED <<reset, killed>>
                     \/ client = "closed" /\ Unheard /\ UNCHANGED client
                  /\ UNCHANGED shown

\* The handler of SIGINT sends, also in the middle of another send, which goes
\* on behind its message or has ended before it.
GciSigint == /\ Sigint
             /\ \/ SendDisconnect /\ cut' = FALSE /\ UNCHANGED <<draws, stage>>
                \/ /\ SendEnds
                   /\ cut' = TRUE
                   /\ client # "closed"
                   /\ client' = "confused"
                   /\ UNCHANGED <<reset, killed, shown>>
             /\ UNCHANGED <<clk, access>>

\* main says goodbye once exec has returned.
Goodbye == /\ phase = "done" /\ stage # "gone"
           /\ stage' = "gone"
           /\ SendDisconnect
           /\ UNCHANGED <<kmcvars, draws, clk, access>>

ClientLeaves == /\ client # "closed"
                /\ client' = "closed"
                /\ UNCHANGED <<kmcvars, draws, clk, stage, reset, killed, shown, access>>

GciTerminated == /\ killed \/ stage = "gone"
                 /\ UNCHANGED gcivars

-----------------------------------------------------------------------------

GciInit == /\ Init
           /\ draw_queue = <<>>
           /\ draw_sbuf = <<>>
           /\ draw_pk = FALSE
           /\ clk = 0
           /\ stage = "receive"
           /\ client = "watching"
           /\ reset = FALSE
           /\ killed = FALSE
           /\ access = NoAccess
           /\ shown = <<>>
           /\ cut = FALSE

\* The steps that cut no send short.
Uncut == \/ GciExecute
         \/ \E c \in Scancode : GciScan(c)
         \/ GciDisconnect
         \/ SendQueue
         \/ MethodSend
         \/ GciPolled
         \/ GciDispatch
         \/ Goodbye
         \/ ClientLeaves

GciNext == \/ /\ ~killed /\ stage # "gone"
              /\ \/ Uncut /\ cut' = FALSE
                 \/ CutShort
                 \/ GciSigint
           \/ GciTerminated

GciSpec == GciInit /\ [][GciNext]_gcivars

-----------------------------------------------------------------------------
(* Properties *)

\* Of what this module adds to the keyboard.
DisplayTypeOK ==
    /\ draw_queue \in Seq(Pixel)
    /\ Len(draw_queue) < DISPLAY_WIDTH
    /\ draw_sbuf \in Seq(Pixel)
    /\ draw_pk \in BOOLEAN
    /\ clk \in 0 .. INTERVAL - 1
    /\ stage \in {"receive", "writing", "sent", "gone"}
    /\ client \in {"watching", "confused", "closed"}
    /\ reset \in BOOLEAN
    /\ killed \in BOOLEAN
    /\ cut \in BOOLEAN

\* The array draw_queue is never written past its end, a pixel never lies outside
\* the bitmap, and the indices of the keyboard's ring stay inside it
\* (monitor_display_queue_draw, gci_display_write, monitor_method_recv).
GciTypeOK == TypeOK /\ DisplayTypeOK

\* The functions that serve a load or a store of a register.
Reader(t) == CASE t.part = "dps" /\ t.word < DPS_UTIM64_SIZE -> Call("dps_utim64_read", t.word)
               [] t = Dps(DPS_SCIRXD) -> Call("dps_sci_rxd_read", t.word)
               [] t = Dps(DPS_LSFLAGS) -> Call("dps_lsflags_read", t.word)
               [] t.part = "info" /\ t.word = GCI_NODE_IRF_OFFSET -> Call("int_issued", t.node)
               [] t.part = "area" /\ t.node = GCI_KMC_NUM -> Call("gci_kmc_read", t.word)
               [] t.part = "area" /\ t.node = GCI_MMCC_NUM -> Call("gci_mmcc_read", t.word)
               [] OTHER -> NoCall
Writer(t) == CASE t.part = "dps" /\ t.word < DPS_UTIM64_SIZE -> Call("dps_utim64_write", t.word)
               [] t = Dps(DPS_SCITXD) -> Call("dps_sci_txd_write", t.word)
               [] t = Dps(DPS_SCICFG) -> Call("dps_sci_cfg_write", t.word)
               [] t.part = "area" /\ t.node = GCI_DISPLAY_NUM -> Call("gci_display_write", t.word)
               [] t.part = "area" /\ t.node = GCI_MMCC_NUM -> Call("gci_mmcc_write", t.word)
               [] OTHER -> NoCall

Right(a) == \/ a = NoAccess
            \/ /\ a.register = a.target
               /\ a.call = IF a.op = "load" THEN Reader(a.target) ELSE Writer(a.target)

\* Whichever part of the I/O space a guest aims at, by the sizes the hub and
\* the nodes tell it, the word it reads or writes is the one of that part, and
\* the function that runs is the one of that part, for that word: the three
\* decoders (io_load, io_store, io_addr_get) agree with gci_init's layout,
\* though each walks over the nodes by itself and the last node has no memory.
Decoded == [][Right(access')]_gcivars

\* The client gets every pixel once and in the order the guest stored them, in
\* batches that leave none behind, as long as it watches; only a send that a
\* signal cuts short loses its batch, or leaves the client confused, and no
\* later message ever repeats or reorders any (monitor_pack_draw_queue,
\* monitor_send_queue, monitor_method_send, signal_on_sigint).
Pixels == INSTANCE PixelStream WITH pending <- Unsent
PixelSpec == Pixels!Spec

\* However fast the guest draws, less than a row of pixels waits after a poll,
\* and never more than a row and the stores of one interval: pixels may wait
\* for ever, but only in the queue (monitor_send_queue).
Backlog == /\ Len(Unsent) < DISPLAY_WIDTH + INTERVAL
           /\ phase = "dispatch" /\ clk = 0 => Len(Unsent) < DISPLAY_WIDTH
=============================================================================
