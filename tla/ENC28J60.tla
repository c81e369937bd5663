------------------------------ MODULE ENC28J60 ------------------------------
(***************************************************************************)
(* The driver of the Ethernet controller (ENC28J60.cpp) and the parts of   *)
(* the chip it relies on: the ring of memory where the chip puts what it   *)
(* receives, while the driver reads from it and gives space back, and the  *)
(* register bank that is selected, which the driver remembers. The chip's  *)
(* side is from its data sheet. A byte of payload is a cell of the ring;   *)
(* the six bytes in front of a frame are one cell.                         *)
(***************************************************************************)
EXTENDS Integers, SequencesExt

CONSTANTS
    RxStop,         \* RXSTOP_INIT; RXSTART_INIT is 0
    SampleSize,     \* EtherDune_SAMPLE_SIZE
    BufferSize,     \* EtherDune_BUFFER_SIZE
    Frame,          \* frames on the network: [data |-> <<...>>, ok |-> BOOLEAN]
    Blank           \* a cell nothing was written to

WordMod == 2 ^ 16

\* A frame with no data is shorter than the network allows.
ASSUME ENC28J60Assumption ==
    /\ RxStop \in Nat /\ RxStop % 2 = 1 /\ RxStop < WordMod
    /\ SampleSize \in Nat \ {0}
    /\ BufferSize \in Nat /\ BufferSize >= SampleSize
    /\ \A f \in Frame :
            /\ f = [data |-> f.data, ok |-> f.ok]
            /\ f.data \in Seq(ToSet(f.data)) /\ f.data # <<>>
            /\ f.ok \in BOOLEAN

VARIABLES
    memory,         \* the chip's ring
    ERXWRPT,        \* where the chip writes the next frame
    ERXRDPT,        \* the last cell the chip may not overwrite
    EPKTCNT,        \* frames received and not released
    ERDPT,          \* where the driver reads next: in the ring, or elsewhere
    chipBank,       \* the bank selected in the chip (ECON1)
    Enc28j60Bank,   \* the bank the driver takes to be selected
    nextPacketPtr,  \* where the driver takes the next frame to be
    remainingPacketSize,
    packet,         \* what is loaded of the frame in hand
    handling,       \* how far loadSample is: at its beginning, a frame sampled,
                    \* its handling over, or its space given back
    astray          \* history: an access met a register of another bank

ring == <<memory, ERXWRPT, EPKTCNT>>
banks == <<chipBank, Enc28j60Bank, astray>>
reading == <<ERDPT, nextPacketPtr, remainingPacketSize, packet>>
vars == <<ring, ERXRDPT, banks, reading, handling>>

Size == RxStop + 1

-----------------------------------------------------------------------------
\* Registers

\* Registers of every bank: the last five addresses.
AllBanks == {"EIE", "EIR", "ESTAT", "ECON2", "ECON1"}

BankOf(register) ==
    CASE register \in {"ERDPT", "EWRPT", "ETXST", "ETXND", "ERXST", "ERXND", "ERXRDPT",
                       "EDMAST", "EDMAND", "EDMADST"} \union AllBanks -> 0
      [] register \in {"EPMM0", "EPMCS", "ERXFCON", "EPKTCNT"} -> 1
      [] register \in {"MACON1", "MACON2", "MACON3", "MABBIPG", "MAIPG", "MAMXFL",
                       "MICMD", "MIREGADR", "MIWR", "MIRD"} -> 2
      [] register \in {"MAADR5", "MAADR4", "MAADR3", "MAADR2", "MAADR1", "MAADR0",
                       "MISTAT", "EREVID"} -> 3

\* Mutant: the bits of the last bank are not cleared.
SetBank_NoClear(b, register) ==
    LET banksOr == {b.chip, BankOf(register)}
    IN  IF BankOf(register) = b.driver THEN b
        ELSE [b EXCEPT !.chip = IF banksOr = {1, 2} THEN 3 ELSE Max(banksOr),
                       !.driver = BankOf(register)]

\* The driver selects the bank of a register, unless it takes it to be.
SetBank(b, register) ==
    IF BankOf(register) = b.driver THEN b
    ELSE [b EXCEPT !.chip = BankOf(register), !.driver = BankOf(register)]

\* A register is read or written, in whatever bank is selected.
Op(b, register) ==
    IF register \in AllBanks \/ BankOf(register) = b.chip THEN b ELSE [b EXCEPT !.astray = TRUE]

\* readRegByte, writeRegByte, readReg and writeReg, and a bare readOp or writeOp.
Reg(register) == [bank |-> TRUE, register |-> register]
Bare(register) == [bank |-> FALSE, register |-> register]

Access(b, a) == Op(IF a.bank THEN SetBank(b, a.register) ELSE b, a.register)

\* The banks after accesses from b on.
Banks(b, accesses) ==
    LET after[k \in 0 .. Len(accesses)] ==
            IF k = 0 THEN b ELSE Access(after[k - 1], accesses[k])
    IN  after[Len(accesses)]

\* The accesses are made, with the chip and the driver at these banks.
AccessedFrom(chip, driver, accesses) ==
    LET b == Banks([chip |-> chip, driver |-> driver, astray |-> astray], accesses)
    IN  /\ chipBank' = b.chip
        /\ Enc28j60Bank' = b.driver
        /\ astray' = b.astray

Accessed(accesses) == AccessedFrom(chipBank, Enc28j60Bank, accesses)

\* The settings of begin(), in its order, behind the reset.
Settings ==
    <<Bare("ESTAT"),
      Reg("ERXST"), Reg("ERXRDPT"), Reg("ERXND"), Reg("ETXST"), Reg("ETXND"),
      Reg("ERXFCON"), Reg("EPMM0"), Reg("EPMCS"),
      Reg("MACON1"), Reg("MACON2"), Bare("MACON3"), Reg("MAIPG"), Reg("MABBIPG"), Reg("MAMXFL"),
      Reg("MAADR5"), Reg("MAADR4"), Reg("MAADR3"), Reg("MAADR2"), Reg("MAADR1"), Reg("MAADR0"),
      Reg("MIREGADR"), Reg("MIWR"), Reg("MISTAT"),
      Reg("ECON1"), Bare("EIE"), Bare("ECON1"), Reg("EREVID")>>

\* writeBuf and packetSend, with or without a reset of the transmitter.
Transmission(error) ==
    <<Reg("EWRPT"), Reg("EIR")>>
        \o (IF error THEN <<Bare("ECON1"), Bare("ECON1"), Bare("EIR")>> ELSE <<>>)
        \o <<Reg("EWRPT"), Reg("ETXST"), Reg("ETXND"), Bare("ECON1")>>

\* moveMem of len bytes: a single one is read and written, since the DMA
\* cannot.
Move(len) ==
    CASE len = 0 -> <<>>
      [] len = 1 -> <<Reg("ERDPT"), Reg("EWRPT")>>
      [] OTHER -> <<Reg("EDMAST"), Reg("EDMADST"), Reg("EDMAND"), Bare("ECON1"), Bare("ECON1")>>

LinkStatus == <<Reg("MIREGADR"), Reg("MICMD"), Reg("MISTAT"), Reg("MICMD"), Reg("MIRD")>>

-----------------------------------------------------------------------------
\* The ring

Cell(cells, pointer) == cells[pointer % Size]
Run(cells, pointer, n) == [k \in 1 .. n |-> Cell(cells, (pointer + k) - 1)]

\* Every frame starts at an even address, so it takes an even number of cells.
Even(n) == n + (n % 2)

\* What the chip may write from w on when the driver keeps r.
FreeFor(w, r) ==
    CASE w > r -> Size - 1 - (w - r)
      [] w = r -> Size - 1
      [] w < r -> r - w - 1

Free == FreeFor(ERXWRPT, ERXRDPT)

\* What the chip puts in front of a frame.
HeaderOf(f) ==
    [nextPacket |-> (ERXWRPT + Even(1 + Len(f.data))) % Size,
     byteCount  |-> Len(f.data),
     ok         |-> f.ok]

Header == [nextPacket : 0 .. RxStop, byteCount : 1 .. RxStop, ok : BOOLEAN]

\* The chip receives a frame, if it has room for all of it.
receive(f) ==
    LET cells == <<HeaderOf(f)>> \o f.data
    IN  /\ Even(Len(cells)) <= Free
        /\ memory' = [p \in 0 .. RxStop |->
                        LET k == 1 + ((p - ERXWRPT) % Size)
                        IN  IF k <= Len(cells) THEN cells[k] ELSE memory[p]]
        /\ ERXWRPT' = cells[1].nextPacket
        /\ EPKTCNT' = EPKTCNT + 1
        /\ UNCHANGED <<ERXRDPT, reading, banks, handling>>

-----------------------------------------------------------------------------
\* The driver

\* What is read where a header should be.
HeadersAt(pointer) ==
    IF Cell(memory, pointer) \in Header THEN {Cell(memory, pointer)} ELSE Header

\* loadSample when nothing has come.
nothingReceived ==
    /\ handling = "no"
    /\ EPKTCNT = 0
    /\ Accessed(<<Reg("EPKTCNT")>>)
    /\ UNCHANGED <<ring, ERXRDPT, reading, handling>>

\* Mutant: the chip is taken to read on behind the last frame.
loadSample_ReadsOn ==
    /\ handling = "no"
    /\ EPKTCNT > 0
    /\ Accessed(<<Reg("EPKTCNT"), Reg("ERDPT")>>)
    /\ \E header \in HeadersAt(ERDPT) :
        LET len == Min({header.byteCount, SampleSize})
        IN  /\ nextPacketPtr' = header.nextPacket
            /\ IF header.ok
               THEN /\ packet' = Run(memory, ERDPT + 1, len)
                    /\ remainingPacketSize' = header.byteCount - len
                    /\ ERDPT' = (ERDPT + 1 + len) % Size
                    /\ handling' = "sampled"
               ELSE /\ ERDPT' = (ERDPT + 1) % Size
                    /\ handling' = "handled"
                    /\ UNCHANGED <<packet, remainingPacketSize>>
    /\ UNCHANGED <<ring, ERXRDPT>>

\* loadSample: the header of the next frame, and if it was received well the
\* beginning of it.
loadSample ==
    /\ handling = "no"
    /\ EPKTCNT > 0
    /\ Accessed(<<Reg("EPKTCNT"), Reg("ERDPT")>>)
    /\ \E header \in HeadersAt(nextPacketPtr) :
        LET len == Min({header.byteCount, SampleSize})
        IN  /\ nextPacketPtr' = header.nextPacket
            /\ IF header.ok
               THEN /\ packet' = Run(memory, nextPacketPtr + 1, len)
                    /\ remainingPacketSize' = header.byteCount - len
                    /\ ERDPT' = (nextPacketPtr + 1 + len) % Size
                    /\ handling' = "sampled"
               ELSE /\ ERDPT' = (nextPacketPtr + 1) % Size
                    /\ handling' = "handled"
                    /\ UNCHANGED <<packet, remainingPacketSize>>
    /\ UNCHANGED <<ring, ERXRDPT>>

\* What loadAll would add to the packet.
RestOfPacket == Run(memory, ERDPT, Min({remainingPacketSize, BufferSize - Len(packet)}))

\* loadAll by the service that takes the packet.
loadAll ==
    /\ handling = "sampled"
    /\ handling' = "handled"
    /\ packet' = packet \o RestOfPacket
    /\ ERDPT' = (ERDPT + Len(RestOfPacket)) % Size
    /\ remainingPacketSize' = 0
    /\ UNCHANGED <<ring, ERXRDPT, banks, nextPacketPtr>>

\* The services are done with the packet, and none has loaded the rest.
restNotLoaded ==
    /\ handling = "sampled"
    /\ handling' = "handled"
    /\ UNCHANGED <<ring, ERXRDPT, reading, banks>>

\* Mutant: nothing is given back when the next frame is at the beginning.
ReleasedTo_Stays == IF nextPacketPtr = 0 THEN ERXRDPT ELSE nextPacketPtr - 1

\* What ERXRDPT is set to: the cell before the next frame, in 16 bits.
ReleasedTo ==
    LET before == (nextPacketPtr - 1) % WordMod IN IF before > RxStop THEN RxStop ELSE before

\* release, up to the pointer: what is in the cells given back is not to be
\* relied on ...
releaseSpace ==
    /\ handling = "handled"
    /\ Accessed(<<Reg("ERXRDPT")>>)
    /\ ERXRDPT' = ReleasedTo
    /\ memory' = [p \in 0 .. RxStop |->
                    IF (p - ERXWRPT) % Size < FreeFor(ERXWRPT, ReleasedTo) THEN Blank ELSE memory[p]]
    /\ handling' = "released"
    /\ UNCHANGED <<ERXWRPT, EPKTCNT, reading>>

\* ... and behind it. The chip may receive frames in between. Where the driver
\* reads and what remains of the packet are set anew before they are used.
releaseCount ==
    /\ handling = "released"
    /\ Accessed(<<Bare("ECON2")>>)
    /\ EPKTCNT' = EPKTCNT - 1
    /\ handling' = "no"
    /\ packet' = <<>>
    /\ ERDPT' = Size
    /\ remainingPacketSize' = 0
    /\ UNCHANGED <<memory, ERXWRPT, ERXRDPT, nextPacketPtr>>

\* A service, or the program, sends what is in the transmit buffer ...
packetSend(error) ==
    /\ Accessed(Transmission(error))
    /\ UNCHANGED <<ring, ERXRDPT, reading, handling>>

\* ... or copies to it from the shared buffer: never before the rest of a packet
\* is loaded, because a service that has no use for it leaves the chip alone.
moveMem(len) ==
    /\ handling # "sampled"
    /\ Accessed(Move(len))
    /\ ERDPT' = IF len = 1 THEN Size ELSE ERDPT
    /\ UNCHANGED <<ring, ERXRDPT, nextPacketPtr, remainingPacketSize, packet, handling>>

\* The program asks for the link.
isLinkUp ==
    /\ Accessed(LinkStatus)
    /\ UNCHANGED <<ring, ERXRDPT, reading, handling>>

\* begin(): after the microcontroller was reset, or called again. The chip is
\* reset.
begin ==
    /\ \E driver \in {0, Enc28j60Bank} : AccessedFrom(0, driver, Settings)
    /\ nextPacketPtr' = 0
    /\ ERXRDPT' = 0
    /\ ERXWRPT' = 0
    /\ EPKTCNT' = 0
    /\ ERDPT' = Size
    /\ packet' = <<>>
    /\ remainingPacketSize' = 0
    /\ handling' = "no"
    /\ memory' = [p \in 0 .. RxStop |-> Blank]

Init ==
    /\ memory = [p \in 0 .. RxStop |-> Blank]
    /\ ERXWRPT = 0 /\ ERXRDPT = 0 /\ EPKTCNT = 0 /\ ERDPT = Size
    /\ chipBank = 3 /\ Enc28j60Bank = 3
    /\ nextPacketPtr = 0
    /\ remainingPacketSize = 0
    /\ packet = <<>>
    /\ handling = "no"
    /\ astray = FALSE

Next ==
    \/ \E f \in Frame : receive(f)
    \/ nothingReceived
    \/ loadSample
    \/ loadAll
    \/ restNotLoaded
    \/ releaseSpace
    \/ releaseCount
    \/ \E error \in BOOLEAN : packetSend(error)
    \/ \E len \in 0 .. 2 : moveMem(len)
    \/ isLinkUp
    \/ begin

Spec == Init /\ [][Next]_vars

-----------------------------------------------------------------------------

(* Every access of a register meets it, whatever bank the last routine left *)
(* selected, and across every reset of the chip or of the microcontroller.  *)
RegistersHit == ~astray

(* No frame, skipped ones included, keeps its space: once nothing waits, the *)
(* chip has all of the ring but the cell in front of the next frame and the  *)
(* one its pointers need.                                                    *)
SpaceReturned == EPKTCNT = 0 => Free >= Size - 2

HeaderAt(cells, p) ==
    IF Cell(cells, p) \in Header THEN Cell(cells, p)
    ELSE [nextPacket |-> p, byteCount |-> 0, ok |-> FALSE]

\* Where the n frames start that lie in the ring from pointer on.
Starts(cells, pointer, n) ==
    LET start[k \in 0 .. n] ==
            IF k = 0 THEN pointer ELSE HeaderAt(cells, start[k - 1]).nextPacket
    IN  start

FrameAt(cells, p) ==
    LET header == HeaderAt(cells, p)
    IN  [data |-> Run(cells, p + 1, header.byteCount), ok |-> header.ok]

FramesFrom(cells, pointer, n) ==
    [k \in 1 .. n |-> FrameAt(cells, Starts(cells, pointer, n)[k - 1])]

\* The frames that wait: not the one in hand, whose space is still to be given
\* back.
Waiting ==
    FramesFrom(memory, nextPacketPtr, IF handling = "no" THEN EPKTCNT ELSE EPKTCNT - 1)

Frames == INSTANCE PacketQueue WITH
    queue <- Waiting,
    packet <- packet,
    rest <- IF handling = "sampled" THEN RestOfPacket ELSE <<>>

(* The driver and the chip implement the queue of frames: what the chip     *)
(* receives while a frame is in hand, and however the ring wraps, every     *)
(* frame is handled once, whole and in order, and none is overwritten.      *)
FramesInOrder == Frames!Spec
=============================================================================
