------------------------------- MODULE AtaPio -------------------------------
(***************************************************************************)
(* The disk driver, kernel/src/ata_pio.c, and the drive it talks to.       *)
(*                                                                         *)
(* The driver writes the registers, then the command, polls the status     *)
(* register a limited number of times and moves a sector with 256 port     *)
(* accesses.  The drive works on its own between any two of these steps.   *)
(* It shows BSY from the moment it takes a command, and takes neither the  *)
(* registers nor a command while BSY or DRQ is set.  It keeps written      *)
(* sectors in a cache and moves them to the platter when it likes, or when *)
(* a FLUSH CACHE asks for it; what is not there is lost with the power.    *)
(*                                                                         *)
(* A byte has BYTE values here, and the low half of the drive register     *)
(* NIBBLE: an address of the drive is below LBA28.                         *)
(***************************************************************************)
EXTENDS Integers, Sequences

CONSTANTS BYTE, NIBBLE,
          Capacity,         \* sectors of the drive
          Places,           \* number of (base, slave) pairs that are probed
          Attached,         \* the sets of places where a disk may be
          POLLS, LONG_POLLS,\* the limits 10000 and 30000 of ata_wait
          Lbas, Counts,     \* arguments of the calls
          Buffers,          \* what ata_pio_write is given: one value a sector
          MaxWrites         \* bound: calls of ata_pio_write

LBA28 == NIBBLE * BYTE * BYTE * BYTE
JUNK == -1                  \* read from a drive that does not offer data

ASSUME AtaAssumption ==
  /\ {BYTE, NIBBLE, Capacity, POLLS, LONG_POLLS} \subseteq Nat \ {0}
  /\ Capacity <= LBA28
  /\ Places \in Nat /\ \A a \in Attached : a \subseteq 1 .. Places
  /\ Counts \subseteq Nat /\ MaxWrites \in Nat
  /\ \A l \in Lbas : l \in Nat /\ l + BYTE <= LBA28
  /\ Buffers \subseteq Seq(Nat)

VARIABLES media,            \* what the drive reads back, by sector
          platter,          \* what survives without power
          attached,         \* the places with a disk
          dev,              \* the drive: phase, command, registers
          drive,            \* place of the drive in use, 0: not present
          pc, polls,
          call,             \* arguments and answer of the call
          buf,              \* what has been read into the caller's buffer
          sector,           \* the loop variable of ata_pio_write
          held,             \* history: values since the last good flush
          writes            \* calls of ata_pio_write so far

driver == <<drive, pc, polls, call, buf, sector>>
history == <<held, writes>>
vars == <<media, platter, attached, dev, driver, history>>

Sectors == 0 .. Capacity - 1

\* The drive after a reset.
IdleDrive == [phase |-> "idle", op |-> "none", lba |-> 0, left |-> 0, hold |-> <<>>,
              regs |-> [r \in 1 .. 5 |-> 0]]

NoCall == [op |-> "none", lba |-> 0, count |-> 0, data |-> <<>>, clean |-> TRUE, ret |-> 0]

Init ==
  /\ media = [l \in Sectors |-> l] /\ platter = media
  /\ attached \in Attached
  /\ dev = IdleDrive
  /\ drive = 0
  /\ pc = "off" /\ polls = 0
  /\ call = NoCall /\ buf = <<>> /\ sector = 0
  /\ held = [l \in Sectors |-> {l}] /\ writes = 0

-----------------------------------------------------------------------------

(* The drive. *)

BSY == dev.phase = "busy"
DRQ == dev.phase = "drq"
ERR == dev.phase = "err"

\* The registers say where and how much: 0 stands for BYTE sectors.
RegLba == dev.regs[1] * BYTE * BYTE * BYTE + dev.regs[5] * BYTE * BYTE
            + dev.regs[4] * BYTE + dev.regs[3]
RegCount == IF dev.regs[2] = 0 THEN BYTE ELSE dev.regs[2]

\* The drive without a command; the registers keep what they hold.
Ended(phase) == [IdleDrive EXCEPT !.phase = phase, !.regs = dev.regs]

\* The drive after a command.
WithCommand(op) ==
  IF BSY \/ DRQ THEN dev
  ELSE [Ended("busy") EXCEPT !.op = op,
                             !.lba = IF op = "flush" THEN 0 ELSE RegLba,
                             !.left = IF op = "flush" THEN 1 ELSE RegCount]

\* The drive after one more sector of its command.
Advance ==
  IF dev.left = 1 THEN Ended("idle")
  ELSE [dev EXCEPT !.phase = "busy", !.lba = @ + 1, !.left = @ - 1, !.hold = <<>>]

DriveOffers ==
  /\ BSY /\ dev.op \in {"read", "write", "identify"} /\ dev.hold = <<>>
  /\ dev.op \in {"read", "write"} => dev.lba \in Sectors
  /\ dev' = [dev EXCEPT !.phase = "drq"]
  /\ UNCHANGED <<media, platter, attached, driver, history>>

DriveStores ==
  /\ BSY /\ dev.hold # <<>>
  /\ media' = [media EXCEPT ![dev.lba] = dev.hold[1]]
  /\ held' = [held EXCEPT ![dev.lba] = @ \cup {dev.hold[1]}]
  /\ dev' = Advance
  /\ UNCHANGED <<platter, attached, driver, writes>>

DriveFlushes ==
  /\ BSY /\ dev.op = "flush"
  /\ platter' = media
  /\ dev' = Advance
  /\ UNCHANGED <<media, attached, driver, history>>

DriveFails ==
  /\ BSY
  /\ dev' = [Ended("err") EXCEPT !.left = dev.left]
  /\ UNCHANGED <<media, platter, attached, driver, history>>

Destage ==
  /\ \E l \in Sectors :
       /\ platter[l] # media[l]
       /\ platter' = [platter EXCEPT ![l] = media[l]]
  /\ UNCHANGED <<media, attached, dev, driver, history>>

\* The power fails, and the kernel starts again.
PowerLoss ==
  /\ media' = platter
  /\ dev' = IdleDrive
  /\ drive' = 0 /\ pc' = "off" /\ polls' = 0
  /\ call' = NoCall /\ buf' = <<>> /\ sector' = 0
  /\ UNCHANGED <<platter, attached, history>>

-----------------------------------------------------------------------------
(* ata_pio_init: ata_reset, ata_detect and ata_identify at each place. *)

\* Reset, then IDENTIFY; a place without a disk answers with no status, with an
\* error or with the signature of something else.
Probe(place) ==
  IF place > Places
  THEN /\ drive' = 0 /\ pc' = "done" /\ dev' = IdleDrive /\ polls' = 0
       /\ UNCHANGED <<call, buf, sector>>
  ELSE /\ drive' = -place
       /\ dev' = IF place \in attached
                 THEN [IdleDrive EXCEPT !.phase = "busy", !.op = "identify", !.left = 1]
                 ELSE [IdleDrive EXCEPT !.phase = "err"]
       /\ pc' = "detect" /\ polls' = 0
       /\ UNCHANGED <<call, buf, sector>>

StartInit ==
  /\ pc = "off"
  /\ Probe(1)
  /\ UNCHANGED <<media, platter, attached, history>>

-----------------------------------------------------------------------------
(* ata_wait *)

Waits == {"detect", "rdrq", "rend", "wdrq", "wbsy", "fbsy"}

\* Wrong on purpose: the flush does not wait.
MetByFlush == IF pc \in {"rdrq", "wdrq"} THEN DRQ ELSE pc = "fbsy" \/ ~BSY

Met == IF pc \in {"rdrq", "wdrq"} THEN DRQ ELSE ~BSY

Limit == IF pc \in {"rend", "fbsy"} THEN LONG_POLLS ELSE POLLS

WaitEnds == pc \in Waits /\ ~ERR /\ Met

\* Wrong on purpose: the polls are not counted.
PollForever ==
  /\ pc \in Waits /\ ~ERR /\ ~Met
  /\ UNCHANGED vars

Poll ==
  /\ pc \in Waits /\ ~ERR /\ ~Met /\ polls + 1 < Limit
  /\ polls' = polls + 1
  /\ UNCHANGED <<media, platter, attached, dev, drive, pc, call, buf, sector, history>>

Answer(ret) ==
  /\ pc' = "done" /\ polls' = 0
  /\ call' = [NoCall EXCEPT !.ret = ret]
  /\ buf' = <<>> /\ sector' = 0
  /\ UNCHANGED drive

WaitFails ==
  /\ pc \in Waits
  /\ ERR \/ (~Met /\ polls + 1 >= Limit)
  /\ IF pc = "detect" THEN Probe(1 - drive) ELSE Answer(-1) /\ UNCHANGED dev
  /\ UNCHANGED <<media, platter, attached, history>>

\* DRQ is left set by ata_detect, so the second IDENTIFY is not taken, and
\* ata_identify reads the answer to the first.
Identify ==
  /\ pc = "detect" /\ WaitEnds
  /\ drive' = -drive
  /\ dev' = Advance
  /\ pc' = "done" /\ polls' = 0
  /\ UNCHANGED <<media, platter, attached, call, buf, sector, history>>

-----------------------------------------------------------------------------
(* ata_pio_read, ata_pio_write, ata_pio_flush *)

Begin(op, lba, count, data) ==
  /\ pc = "done"
  /\ pc' = "start"
  /\ call' = [op |-> op, lba |-> lba, count |-> count, data |-> data, clean |-> TRUE, ret |-> 0]
  /\ writes' = IF op = "write" THEN writes + 1 ELSE writes
  /\ UNCHANGED <<media, platter, attached, dev, drive, polls, buf, sector, held>>

Refused == drive = 0 \/ (call.op # "flush" /\ (call.count = 0 \/ call.count > BYTE))

Refuse ==
  /\ pc = "start" /\ Refused
  /\ Answer(-1)
  /\ UNCHANGED <<media, platter, attached, dev, history>>

\* The call is clean when it finds the drive neither busy nor offering data.
Start ==
  /\ pc = "start" /\ ~Refused
  /\ pc' = IF call.op = "flush" THEN "command" ELSE "regs"
  /\ call' = [call EXCEPT !.clean = ~BSY /\ ~DRQ]
  /\ UNCHANGED <<media, platter, attached, dev, drive, polls, buf, sector, history>>

\* Wrong on purpose: the bits above 24 are forgotten.
RegistersOf24Bits ==
  <<0, call.count % BYTE, call.lba % BYTE,
    (call.lba \div BYTE) % BYTE, (call.lba \div (BYTE * BYTE)) % BYTE>>

\* The registers, in the order in which they are written: address above
\* 24 bits, count, address below.
Registers ==
  <<(call.lba \div (BYTE * BYTE * BYTE)) % NIBBLE, call.count % BYTE, call.lba % BYTE,
    (call.lba \div BYTE) % BYTE, (call.lba \div (BYTE * BYTE)) % BYTE>>

WriteRegisters ==
  /\ pc = "regs"
  /\ dev' = IF BSY \/ DRQ THEN dev ELSE [dev EXCEPT !.regs = Registers]
  /\ pc' = "command"
  /\ UNCHANGED <<media, platter, attached, drive, polls, call, buf, sector, history>>

WriteCommand ==
  /\ pc = "command"
  /\ dev' = WithCommand(call.op)
  /\ pc' = [read |-> "rdrq", write |-> "wdrq", flush |-> "fbsy"][call.op]
  /\ UNCHANGED <<media, platter, attached, drive, polls, call, buf, sector, history>>

ReadSector ==
  /\ pc = "rdrq" /\ WaitEnds
  /\ buf' = Append(buf, IF dev.op = "read" THEN media[dev.lba] ELSE JUNK)
  /\ dev' = IF dev.op = "read" THEN Advance ELSE dev
  /\ pc' = IF Len(buf) + 1 = call.count THEN "rend" ELSE "rdrq"
  /\ polls' = 0
  /\ UNCHANGED <<media, platter, attached, drive, call, sector, history>>

WriteSector ==
  /\ pc = "wdrq" /\ WaitEnds
  /\ dev' = IF dev.op = "write"
            THEN [dev EXCEPT !.phase = "busy", !.hold = <<call.data[sector + 1]>>] ELSE dev
  /\ sector' = sector + 1
  /\ pc' = "wbsy" /\ polls' = 0
  /\ UNCHANGED <<media, platter, attached, drive, call, buf, history>>

NextSector ==
  /\ pc = "wbsy" /\ WaitEnds /\ sector < call.count
  /\ pc' = "wdrq" /\ polls' = 0
  /\ UNCHANGED <<media, platter, attached, dev, drive, call, buf, sector, history>>

\* The last wait of a call.
Finish ==
  /\ WaitEnds
  /\ pc \in {"rend", "fbsy"} \/ (pc = "wbsy" /\ sector = call.count)
  /\ Answer(0)
  /\ held' = IF pc = "fbsy" /\ call.clean THEN [l \in Sectors |-> {media[l]}] ELSE held
  /\ UNCHANGED <<media, platter, attached, dev, writes>>

-----------------------------------------------------------------------------

Calls ==
  \/ \E l \in Lbas, n \in Counts : Begin("read", l, n, <<>>)
  \/ \E l \in Lbas, b \in Buffers : writes < MaxWrites /\ Begin("write", l, Len(b), b)
  \/ Begin("flush", 0, 0, <<>>)

Driver ==
  \/ StartInit \/ Poll \/ WaitFails \/ Identify
  \/ Refuse \/ Start \/ WriteRegisters \/ WriteCommand
  \/ ReadSector \/ WriteSector \/ NextSector \/ Finish

Drive == DriveOffers \/ DriveStores \/ DriveFlushes \/ DriveFails \/ Destage

Next == Calls \/ Driver \/ Drive \/ PowerLoss

\* The processor does not stop; nothing is asked of the drive.
Spec == Init /\ [][Next]_vars /\ WF_vars(Driver)

-----------------------------------------------------------------------------

InCall == pc \notin {"off", "done", "detect"}

\* A command of an earlier call is still at work: the call in progress met it, or
\* the next one may.
Unsettled == IF InCall /\ pc # "start" THEN ~call.clean ELSE BSY \/ DRQ

Device == INSTANCE BlockDevice WITH
  content <- media,
  op <- IF InCall THEN call.op ELSE "none",
  lba <- IF InCall THEN call.lba ELSE 0,
  count <- IF InCall THEN call.count ELSE 0,
  data <- IF InCall THEN call.data ELSE <<>>,
  buffer <- buf,
  moved <- IF pc \in {"rdrq", "rend"} THEN Len(buf)
           ELSE IF pc \in {"wdrq", "wbsy"} THEN call.count - dev.left ELSE 0,
  ret <- call.ret

\* As long as the drive is not left at work by a call that gave up, the driver is
\* the block device that the file system expects: the sectors that a call names
\* are moved, in order and none else; a call that fails has moved the first few;
\* after a flush that succeeds nothing written before is lost.
ImplementsBlockDevice ==
  Device!Init /\ [][Unsettled \/ Unsettled' \/ Device!Next]_Device!vars

\* Whatever timeouts and power failures there were, a sector keeps what it held
\* at the last flush that found the drive idle and answered 0, or got it since.
FlushedSurvives == \A l \in Sectors : platter[l] \in held[l]

\* Every call of the driver returns, whatever the drive does: each wait gives up.
CallsReturn == (pc \notin {"done", "off"}) ~> (pc \in {"done", "off"})

=============================================================================
