---------------------------- MODULE AtaPioProofs ----------------------------
(***************************************************************************)
(* Proofs about the disk driver, for every drive, every call and every     *)
(* limit of the waits: what a flush has settled survives, and the driver   *)
(* is the block device of BlockDevice.                                     *)
(***************************************************************************)
EXTENDS AtaPio, TLAPS

Phases == {"idle", "busy", "drq", "err"}

Ops == {"none", "read", "write", "flush", "identify"}

DeviceType == [phase : Phases, op : Ops,
               lba : Int, left : Int, hold : Seq(Int), regs : [1 .. 5 -> Int]]

CallType == [op : {"none", "read", "write", "flush"}, lba : Nat, count : Nat,
             data : Seq(Nat), clean : BOOLEAN, ret : Int]

Pcs == {"off", "detect", "done", "start", "regs", "command", "rdrq", "rend", "wdrq", "wbsy",
        "fbsy"}

\* A drive that offers a sector has it.
DeviceOK ==
  dev \in DeviceType /\ (DRQ /\ dev.op \in {"read", "write"} => dev.lba \in Sectors)

CallOK == call \in CallType /\ pc \in Pcs /\ buf \in Seq(Int) /\ sector \in Nat

MediaOK == media \in [Sectors -> Int] /\ platter \in [Sectors -> Int] /\ DOMAIN held = Sectors

TypeOK == DeviceOK /\ CallOK /\ MediaOK

\* Where a call is, and what it has checked so far.
Progress ==
  /\ InCall => call.op # "none" /\ call.lba < LBA28
  /\ call.op = "write" => call.count = Len(call.data)
  /\ pc \in {"regs", "rdrq", "rend", "wdrq", "wbsy"} => call.op # "flush"
  /\ InCall /\ pc # "start" /\ call.op # "flush" => call.count \in 1 .. BYTE
  /\ pc \in {"rdrq", "rend"} => call.op = "read"
  /\ pc \in {"wdrq", "wbsy"} => call.op = "write"
  /\ pc = "fbsy" => call.op = "flush"
  /\ pc \notin {"rdrq", "rend"} => buf = <<>>
  /\ pc \notin {"wdrq", "wbsy"} => sector = 0
  /\ pc = "wdrq" => sector < call.count
  /\ pc = "wbsy" => sector \in 1 .. call.count

\* The drive is in the middle of the call's command, n sectors of it done.
Working(op, n) ==
  /\ BSY \/ (DRQ /\ dev.lba \in Sectors)
  /\ dev.op = op /\ dev.hold = <<>>
  /\ n < call.count /\ dev.lba = call.lba + n /\ dev.left = call.count - n

\* It has the sector that the driver wrote last, and has not stored it yet.
Storing ==
  /\ BSY /\ dev.op = "write" /\ dev.hold = <<call.data[sector]>>
  /\ dev.lba = call.lba + (sector - 1) /\ dev.lba \in Sectors
  /\ dev.left = call.count - (sector - 1)

Idle == dev.phase = "idle"

\* What the drive does for a call that found it neither busy nor offering data.
Settled ==
  InCall /\ pc # "start" /\ call.clean =>
    /\ pc \in {"regs", "command"} => ~BSY /\ ~DRQ
    /\ (pc = "command" /\ call.op # "flush") => dev.regs = Registers
    /\ pc = "rdrq" => ERR \/ Working("read", Len(buf))
    /\ pc = "rend" => Idle /\ Len(buf) = call.count
    /\ pc = "wdrq" => ERR \/ Working("write", sector)
    /\ pc = "wbsy" => \/ ERR
                      \/ Storing
                      \/ sector < call.count /\ Working("write", sector)
                      \/ sector = call.count /\ Idle /\ dev.left = 0
    /\ pc = "fbsy" => \/ ERR
                      \/ BSY /\ dev.op = "flush" /\ dev.left = 1 /\ dev.hold = <<>>
                      \/ Idle /\ platter = media

\* What the drive reads back, and what is on the platter, is known.
Held == \A l \in Sectors : media[l] \in held[l] /\ platter[l] \in held[l]

IInv == TypeOK /\ Progress /\ Settled /\ Held

-----------------------------------------------------------------------------
(* The operators of the drive *)

\* One field of the drive changes and the others stay.
LEMMA SetPhase ==
  ASSUME NEW d \in DeviceType, NEW x \in Phases
  PROVE  LET e == [d EXCEPT !.phase = x]
         IN  /\ e \in DeviceType /\ e.phase = x
             /\ e.op = d.op /\ e.lba = d.lba /\ e.left = d.left /\ e.hold = d.hold /\ e.regs = d.regs
  BY ZenonT(60) DEF DeviceType, Ops

LEMMA SetOp ==
  ASSUME NEW d \in DeviceType, NEW x \in Ops
  PROVE  LET e == [d EXCEPT !.op = x]
         IN  /\ e \in DeviceType /\ e.op = x
             /\ e.phase = d.phase /\ e.lba = d.lba /\ e.left = d.left /\ e.hold = d.hold /\ e.regs = d.regs
  BY ZenonT(60) DEF DeviceType, Ops

LEMMA SetLba ==
  ASSUME NEW d \in DeviceType, NEW x \in Int
  PROVE  LET e == [d EXCEPT !.lba = x]
         IN  /\ e \in DeviceType /\ e.lba = x
             /\ e.phase = d.phase /\ e.op = d.op /\ e.left = d.left /\ e.hold = d.hold /\ e.regs = d.regs
  BY ZenonT(60) DEF DeviceType, Ops

LEMMA SetLeft ==
  ASSUME NEW d \in DeviceType, NEW x \in Int
  PROVE  LET e == [d EXCEPT !.left = x]
         IN  /\ e \in DeviceType /\ e.left = x
             /\ e.phase = d.phase /\ e.op = d.op /\ e.lba = d.lba /\ e.hold = d.hold /\ e.regs = d.regs
  BY ZenonT(60) DEF DeviceType, Ops

LEMMA SetHold ==
  ASSUME NEW d \in DeviceType, NEW x \in Seq(Int)
  PROVE  LET e == [d EXCEPT !.hold = x]
         IN  /\ e \in DeviceType /\ e.hold = x
             /\ e.phase = d.phase /\ e.op = d.op /\ e.lba = d.lba /\ e.left = d.left /\ e.regs = d.regs
  BY ZenonT(60) DEF DeviceType, Ops

LEMMA SetRegs ==
  ASSUME NEW d \in DeviceType, NEW x \in [1 .. 5 -> Int]
  PROVE  LET e == [d EXCEPT !.regs = x]
         IN  /\ e \in DeviceType /\ e.regs = x
             /\ e.phase = d.phase /\ e.op = d.op /\ e.lba = d.lba /\ e.left = d.left /\ e.hold = d.hold
  BY ZenonT(60) DEF DeviceType, Ops

LEMMA IdleDriveIs ==
  /\ IdleDrive \in DeviceType /\ IdleDrive.phase = "idle" /\ IdleDrive.op = "none"
  /\ IdleDrive.lba = 0 /\ IdleDrive.left = 0 /\ IdleDrive.hold = <<>>
  BY DEF IdleDrive, DeviceType, Phases, Ops

\* The drive that is asked who it is.
LEMMA IdentifyIs ==
  LET e == [IdleDrive EXCEPT !.phase = "busy", !.op = "identify", !.left = 1]
  IN  e \in DeviceType /\ e.phase = "busy"
  <1> DEFINE a == [IdleDrive EXCEPT !.phase = "busy"]
             b == [a EXCEPT !.op = "identify"]
             c == [b EXCEPT !.left = 1]
  <1>1. a \in DeviceType /\ a.phase = "busy"
    BY IdleDriveIs, SetPhase, ZenonT(60) DEF Phases
  <1> HIDE DEF a
  <1>2. b \in DeviceType /\ b.phase = "busy"
    BY <1>1, SetOp, ZenonT(60) DEF Ops
  <1> HIDE DEF b
  <1>3. c \in DeviceType /\ c.phase = "busy"
    BY <1>2, SetLeft
  <1>4. c = [IdleDrive EXCEPT !.phase = "busy", !.op = "identify", !.left = 1]
    BY DEF a, b
  <1> QED BY <1>3, <1>4

\* The drive without a command.
LEMMA EndedIs ==
  ASSUME dev \in DeviceType, NEW p \in Phases
  PROVE  /\ Ended(p) \in DeviceType /\ Ended(p).phase = p /\ Ended(p).op = "none"
         /\ Ended(p).left = 0 /\ Ended(p).hold = <<>> /\ Ended(p).regs = dev.regs
  <1> DEFINE a == [IdleDrive EXCEPT !.phase = p]
             b == [a EXCEPT !.regs = dev.regs]
  <1>1. a \in DeviceType /\ a.phase = p /\ a.op = "none" /\ a.left = 0 /\ a.hold = <<>>
    BY IdleDriveIs, SetPhase
  <1>2. b = Ended(p)
    BY DEF Ended
  <1>3. dev.regs \in [1 .. 5 -> Int]
    BY DEF DeviceType
  <1> HIDE DEF a
  <1>4. /\ b \in DeviceType /\ b.phase = p /\ b.op = "none" /\ b.left = 0 /\ b.hold = <<>>
        /\ b.regs = dev.regs
    BY <1>1, <1>3, SetRegs
  <1> HIDE DEF b
  <1> QED BY <1>2, <1>4

\* One more sector of the command.
LEMMA AdvanceIs ==
  ASSUME dev \in DeviceType
  PROVE  /\ Advance \in DeviceType
         /\ Advance.phase \in {"idle", "busy"} /\ Advance.hold = <<>>
         /\ dev.left = 1 => Advance.phase = "idle" /\ Advance.left = 0
         /\ dev.left # 1 => /\ Advance.phase = "busy" /\ Advance.op = dev.op
                            /\ Advance.lba = dev.lba + 1 /\ Advance.left = dev.left - 1
  <1>1. CASE dev.left = 1
    BY <1>1, EndedIs DEF Advance, Phases
  <1>2. CASE dev.left # 1
    <2> DEFINE a == [dev EXCEPT !.phase = "busy"]
               b == [a EXCEPT !.lba = @ + 1]
               c == [b EXCEPT !.left = @ - 1]
               d == [c EXCEPT !.hold = <<>>]
    <2>1. /\ dev.lba + 1 \in Int /\ dev.left - 1 \in Int /\ <<>> \in Seq(Int)
          /\ "busy" \in Phases
      BY DEF DeviceType, Phases
    <2>2. Advance = d
      <3>1. Advance = [dev EXCEPT !.phase = "busy", !.lba = @ + 1, !.left = @ - 1,
                                  !.hold = <<>>]
        BY <1>2 DEF Advance
      <3>2. [dev EXCEPT !.phase = "busy", !.lba = @ + 1, !.left = @ - 1, !.hold = <<>>] = d
        OBVIOUS
      <3> QED BY <3>1, <3>2, Zenon
    <2>3. /\ a \in DeviceType /\ a.phase = "busy" /\ a.op = dev.op /\ a.lba = dev.lba
          /\ a.left = dev.left
      BY <2>1, SetPhase
    <2> HIDE DEF a
    <2>4. /\ b \in DeviceType /\ b.phase = "busy" /\ b.op = dev.op /\ b.lba = dev.lba + 1
          /\ b.left = dev.left
      BY <2>1, <2>3, SetLba
    <2> HIDE DEF b
    <2>5. /\ c \in DeviceType /\ c.phase = "busy" /\ c.op = dev.op /\ c.lba = dev.lba + 1
          /\ c.left = dev.left - 1
      BY <2>1, <2>4, SetLeft
    <2> HIDE DEF c
    <2>6. /\ d \in DeviceType /\ d.phase = "busy" /\ d.op = dev.op /\ d.lba = dev.lba + 1
          /\ d.left = dev.left - 1 /\ d.hold = <<>>
      BY <2>1, <2>5, SetHold, ZenonT(60)
    <2> HIDE DEF d
    <2> QED BY <1>2, <2>2, <2>6
  <1> QED BY <1>1, <1>2

\* The drive that has failed.
LEMMA FailedIs ==
  ASSUME dev \in DeviceType
  PROVE  LET e == [Ended("err") EXCEPT !.left = dev.left]
         IN  e \in DeviceType /\ e.phase = "err" /\ e.left = dev.left
  <1>1. Ended("err") \in DeviceType /\ Ended("err").phase = "err" /\ dev.left \in Int
    BY EndedIs DEF DeviceType, Phases
  <1> QED BY <1>1, SetLeft

\* The drive that has got a sector.
LEMMA FilledIs ==
  ASSUME dev \in DeviceType, NEW v \in Nat
  PROVE  LET e == [dev EXCEPT !.phase = "busy", !.hold = <<v>>]
         IN  /\ e \in DeviceType /\ e.phase = "busy" /\ e.hold = <<v>>
             /\ e.op = dev.op /\ e.lba = dev.lba /\ e.left = dev.left
  <1> DEFINE a == [dev EXCEPT !.phase = "busy"]
             b == [a EXCEPT !.hold = <<v>>]
  <1>1. /\ a \in DeviceType /\ a.phase = "busy" /\ a.op = dev.op /\ a.lba = dev.lba
        /\ a.left = dev.left
    BY SetPhase, ZenonT(60) DEF Phases
  <1>2. [dev EXCEPT !.phase = "busy", !.hold = <<v>>] = b
    OBVIOUS
  <1>3. <<v>> \in Seq(Int)
    OBVIOUS
  <1> HIDE DEF a
  <1>4. /\ b \in DeviceType /\ b.phase = "busy" /\ b.hold = <<v>> /\ b.op = dev.op
        /\ b.lba = dev.lba /\ b.left = dev.left
    BY <1>1, <1>3, SetHold, ZenonT(60)
  <1> HIDE DEF b
  <1> QED BY <1>2, <1>4

\* The registers hold whole numbers.
LEMMA RegistersAre ==
  ASSUME call \in CallType PROVE Registers \in [1 .. 5 -> Int]
  <1>1. /\ BYTE \in Nat \ {0} /\ NIBBLE \in Nat \ {0} /\ BYTE * BYTE \in Nat \ {0}
        /\ call.lba \in Nat /\ call.count \in Nat
    BY AtaAssumption DEF CallType
  <1>2. BYTE * BYTE * BYTE \in Nat \ {0}
    BY <1>1
  <1>3. /\ (call.lba \div (BYTE * BYTE * BYTE)) % NIBBLE \in Int /\ call.count % BYTE \in Int
        /\ call.lba % BYTE \in Int /\ (call.lba \div BYTE) % BYTE \in Int
        /\ (call.lba \div (BYTE * BYTE)) % BYTE \in Int
    BY <1>1, <1>2
  <1> QED BY <1>3 DEF Registers

LEMMA RegLbaIs == ASSUME dev \in DeviceType PROVE RegLba \in Int /\ RegCount \in Int
  <1>0. dev.regs \in [1 .. 5 -> Int]
    BY ZenonT(60) DEF DeviceType
  <1>1. /\ \A r \in 1 .. 5 : dev.regs[r] \in Int
        /\ BYTE \in Int
    BY <1>0, AtaAssumption
  <1> QED BY <1>1 DEF RegLba, RegCount

\* A sector of the caller's buffer.
LEMMA WithinSeq == \A d \in Seq(Nat) : \A n \in 1 .. Len(d) : d[n] \in Nat
  OBVIOUS

\* The place and the rest of a transfer, one sector further.
LEMMA OneFurther ==
  \A lba, count, n \in Int :
    /\ (lba + (n - 1)) + 1 = lba + n
    /\ (count - (n - 1)) - 1 = count - n
  OBVIOUS

LEMMA ThreeFields ==
  ASSUME NEW a, NEW x, NEW y, NEW z
  PROVE  [a EXCEPT !.op = x, !.lba = y, !.left = z]
           = [[[a EXCEPT !.op = x] EXCEPT !.lba = y] EXCEPT !.left = z]
  OBVIOUS

\* The drive after a command that it takes.
LEMMA CommandIs ==
  ASSUME dev \in DeviceType, NEW op \in {"read", "write", "flush"}
  PROVE  /\ WithCommand(op) \in DeviceType
         /\ BSY \/ DRQ => WithCommand(op) = dev
         /\ ~BSY /\ ~DRQ =>
              /\ WithCommand(op).phase = "busy" /\ WithCommand(op).op = op
              /\ WithCommand(op).hold = <<>>
              /\ op = "flush" => WithCommand(op).left = 1
              /\ op # "flush" => WithCommand(op).lba = RegLba /\ WithCommand(op).left = RegCount
  <1>1. CASE BSY \/ DRQ
    BY <1>1 DEF WithCommand
  <1>2. CASE ~BSY /\ ~DRQ
    <2> DEFINE l == IF op = "flush" THEN 0 ELSE RegLba
               n == IF op = "flush" THEN 1 ELSE RegCount
               a == Ended("busy")
               b == [a EXCEPT !.op = op]
               c == [b EXCEPT !.lba = l]
               d == [c EXCEPT !.left = n]
    <2>1. l \in Int /\ n \in Int /\ op \in Ops
      BY RegLbaIs DEF Ops
    <2>2. WithCommand(op) = d
      <3>1. WithCommand(op) = [a EXCEPT !.op = op, !.lba = l, !.left = n]
        BY <1>2, Zenon DEF WithCommand
      <3>2. [a EXCEPT !.op = op, !.lba = l, !.left = n] = d
        BY ThreeFields, Zenon
      <3> QED BY <3>1, <3>2
    <2>3. a \in DeviceType /\ a.phase = "busy" /\ a.hold = <<>>
      BY EndedIs DEF Phases
    <2> HIDE DEF a, l, n
    <2>4. b \in DeviceType /\ b.phase = "busy" /\ b.hold = <<>> /\ b.op = op
      BY <2>1, <2>3, SetOp
    <2> HIDE DEF b
    <2>5. c \in DeviceType /\ c.phase = "busy" /\ c.hold = <<>> /\ c.op = op /\ c.lba = l
      BY <2>1, <2>4, SetLba
    <2> HIDE DEF c
    <2>6. /\ d \in DeviceType /\ d.phase = "busy" /\ d.hold = <<>> /\ d.op = op /\ d.lba = l
          /\ d.left = n
      BY <2>1, <2>5, SetLeft
    <2> HIDE DEF d
    <2> QED BY <1>2, <2>2, <2>6 DEF l, n
  <1> QED BY <1>1, <1>2

-----------------------------------------------------------------------------
(* Types *)

LEMMA NoCallIs ==
  /\ NoCall \in CallType /\ NoCall.op = "none" /\ NoCall.lba = 0 /\ NoCall.count = 0
  /\ NoCall.data = <<>>
  BY DEF NoCall, CallType

\* A call answers.
LEMMA AnswerIs ==
  ASSUME NEW r \in Int, Answer(r)
  PROVE  /\ CallOK' /\ call' \in CallType /\ call'.ret = r /\ call'.op = "none" /\ call'.lba = 0
         /\ call'.count = 0 /\ call'.data = <<>>
         /\ pc' = "done" /\ buf' = <<>> /\ sector' = 0
  <1>1. ASSUME NEW c \in CallType
        PROVE  LET e == [c EXCEPT !.ret = r]
               IN  /\ e \in CallType /\ e.ret = r /\ e.op = c.op /\ e.lba = c.lba
                   /\ e.count = c.count /\ e.data = c.data
    BY ZenonT(60) DEF CallType
  <1>2. call' = [NoCall EXCEPT !.ret = r] /\ pc' = "done" /\ buf' = <<>> /\ sector' = 0
    BY DEF Answer
  <1>3. /\ call' \in CallType /\ call'.ret = r /\ call'.op = "none" /\ call'.lba = 0
        /\ call'.count = 0 /\ call'.data = <<>>
    BY <1>1, <1>2, NoCallIs
  <1>4. CallOK'
    BY <1>2, <1>3 DEF CallOK, Pcs
  <1> QED BY <1>2, <1>3, <1>4

\* A place is probed, or there is none left.
LEMMA ProbeIs ==
  ASSUME NEW place, Probe(place)
  PROVE  /\ dev' \in DeviceType /\ dev'.phase \in {"idle", "busy", "err"}
         /\ pc' \in {"done", "detect"} /\ UNCHANGED <<call, buf, sector>>
  <1>1. /\ [IdleDrive EXCEPT !.phase = "err"] \in DeviceType
        /\ [IdleDrive EXCEPT !.phase = "err"].phase = "err"
    BY IdleDriveIs, SetPhase, ZenonT(60) DEF Phases
  <1>2. CASE place > Places
    BY <1>2, IdleDriveIs DEF Probe
  <1>3. CASE ~(place > Places) /\ place \in attached
    BY <1>3, IdentifyIs, ZenonT(60) DEF Probe
  <1>4. CASE ~(place > Places) /\ place \notin attached
    BY <1>1, <1>4, ZenonT(60) DEF Probe
  <1> QED BY <1>2, <1>3, <1>4

\* The drive.
LEMMA DeviceStep ==
  ASSUME TypeOK, Progress, [Next]_vars
  PROVE  DeviceOK'
  <1> USE DEF driver, history
  <1>t. DeviceOK /\ call \in CallType /\ sector \in Nat
    BY DEF TypeOK, CallOK
  <1> USE <1>t DEF DeviceOK
  <1>1. CASE StartInit BY <1>1, ProbeIs DEF StartInit, DRQ
  <1>2. CASE Poll BY <1>2 DEF DRQ, Poll
  <1>3. CASE WaitFails BY <1>3, ProbeIs DEF WaitFails, DRQ
  <1>4. CASE Identify BY <1>4, AdvanceIs DEF Identify, DRQ
  <1>5. CASE Refuse BY <1>5 DEF DRQ, Refuse
  <1>6. CASE Start BY <1>6 DEF DRQ, Start
  <1>7. CASE WriteRegisters BY <1>7, RegistersAre, SetRegs DEF WriteRegisters, DRQ
  <1>8. CASE WriteCommand
    <2>1. call.op \in {"read", "write", "flush"}
      BY <1>8 DEF WriteCommand, Progress, InCall, CallType
    <2>2. CASE BSY \/ DRQ
      BY <1>8, <2>1, <2>2, CommandIs, ZenonT(60) DEF WriteCommand, DRQ
    <2>3. CASE ~BSY /\ ~DRQ
      BY <1>8, <2>1, <2>3, CommandIs DEF WriteCommand, DRQ
    <2> QED BY <2>2, <2>3
  <1>9. CASE ReadSector BY <1>9, AdvanceIs DEF ReadSector, DRQ
  <1>10. CASE WriteSector
    <2>1. call.data[sector + 1] \in Nat
      <3>1. /\ call.data \in Seq(Nat) /\ sector + 1 \in 1 .. Len(call.data)
            /\ call.count \in Nat
        BY <1>10, SMTT(60) DEF WriteSector, Progress, CallType
      <3> QED BY <3>1
    <2>2. CASE dev.op = "write"
      BY <1>10, <2>1, <2>2, FilledIs, ZenonT(60) DEF WriteSector, DRQ
    <2>3. CASE dev.op # "write"
      BY <1>10, <2>3 DEF WriteSector, DRQ
    <2> QED BY <2>2, <2>3
  <1>11. CASE NextSector BY <1>11 DEF DRQ, NextSector
  <1>12. CASE Finish BY <1>12 DEF DRQ, Finish
  <1>13. CASE DriveOffers BY <1>13, SetPhase, ZenonT(60) DEF DriveOffers, DRQ, BSY, Phases
  <1>14. CASE DriveStores BY <1>14, AdvanceIs DEF DriveStores, DRQ
  <1>15. CASE DriveFlushes BY <1>15, AdvanceIs DEF DriveFlushes, DRQ
  <1>16. CASE DriveFails BY <1>16, FailedIs DEF DriveFails, DRQ
  <1>17. CASE Destage BY <1>17 DEF DRQ, Destage
  <1>18. CASE PowerLoss BY <1>18, IdleDriveIs, ZenonT(60) DEF PowerLoss, DRQ
  <1>19. CASE Calls BY <1>19 DEF Calls, Begin, DRQ
  <1>20. CASE UNCHANGED vars BY <1>20 DEF DRQ, vars
  <1> QED BY <1>1, <1>2, <1>3, <1>4, <1>5, <1>6, <1>7, <1>8, <1>9, <1>10, <1>11, <1>12,
             <1>13, <1>14, <1>15, <1>16, <1>17, <1>18, <1>19, <1>20, ZenonT(60)
          DEF Next, Driver, Drive

\* The call and the loops.
LEMMA CallStep ==
  ASSUME TypeOK, Progress, [Next]_vars
  PROVE  CallOK'
  <1> USE DEF driver, history
  <1>t. CallOK /\ DeviceOK /\ media \in [Sectors -> Int]
    BY DEF TypeOK, MediaOK
  <1> USE <1>t
  <1>1. CASE StartInit BY <1>1, ProbeIs DEF StartInit, CallOK, Pcs
  <1>2. CASE Poll BY <1>2 DEF CallOK, Pcs, Poll
  <1>3. CASE WaitFails
    <2>1. CASE pc = "detect"
      BY <1>3, <2>1, ProbeIs DEF WaitFails, CallOK, Pcs
    <2>2. CASE pc # "detect"
      BY <1>3, <2>2, AnswerIs DEF WaitFails
    <2> QED BY <2>1, <2>2
  <1>4. CASE Identify BY <1>4 DEF CallOK, Pcs, Identify
  <1>5. CASE Refuse BY <1>5, AnswerIs DEF Refuse
  <1>6. CASE Start BY <1>6, ZenonT(60) DEF Start, CallOK, Pcs, CallType
  <1>7. CASE WriteRegisters BY <1>7 DEF CallOK, Pcs, WriteRegisters
  <1>8. CASE WriteCommand
    <2>1. call.op \in {"read", "write", "flush"}
      BY <1>8 DEF WriteCommand, Progress, InCall, CallOK, CallType
    <2> QED BY <1>8, <2>1 DEF WriteCommand, CallOK, Pcs
  <1>9. CASE ReadSector
    <2>1. (IF dev.op = "read" THEN media[dev.lba] ELSE JUNK) \in Int
      BY <1>9 DEF ReadSector, WaitEnds, Met, DeviceOK, JUNK
    <2> QED BY <1>9, <2>1 DEF ReadSector, CallOK, Pcs
  <1>10. CASE WriteSector BY <1>10 DEF CallOK, Pcs, WriteSector
  <1>11. CASE NextSector BY <1>11 DEF CallOK, Pcs, NextSector
  <1>12. CASE Finish BY <1>12, AnswerIs DEF Finish
  <1>13. CASE DriveOffers BY <1>13 DEF CallOK, Pcs, DriveOffers
  <1>14. CASE DriveStores BY <1>14 DEF CallOK, Pcs, DriveStores
  <1>15. CASE DriveFlushes BY <1>15 DEF CallOK, Pcs, DriveFlushes
  <1>16. CASE DriveFails BY <1>16 DEF CallOK, Pcs, DriveFails
  <1>17. CASE Destage BY <1>17, ZenonT(60) DEF CallOK, Pcs, Destage
  <1>18. CASE PowerLoss BY <1>18 DEF PowerLoss, NoCall, CallOK, Pcs, CallType
  <1>19. CASE Calls
    <2>1. ASSUME NEW op \in {"read", "write", "flush"}, NEW l \in Nat, NEW n \in Nat,
                 NEW d \in Seq(Nat), Begin(op, l, n, d)
          PROVE  CallOK'
      BY <2>1 DEF Begin, CallOK, CallType, Pcs
    <2>2. /\ Lbas \subseteq Nat /\ Counts \subseteq Nat
          /\ \A b \in Buffers : b \in Seq(Nat) /\ Len(b) \in Nat
      BY AtaAssumption
    <2>3. <<>> \in Seq(Nat)
      OBVIOUS
    <2> QED BY <1>19, <2>1, <2>2, <2>3, ZenonT(60) DEF Calls
  <1>20. CASE UNCHANGED vars BY <1>20, ZenonT(60) DEF CallOK, Pcs, vars
  <1> QED BY <1>1, <1>2, <1>3, <1>4, <1>5, <1>6, <1>7, <1>8, <1>9, <1>10, <1>11, <1>12,
             <1>13, <1>14, <1>15, <1>16, <1>17, <1>18, <1>19, <1>20, ZenonT(60)
          DEF Next, Driver, Drive

\* The sectors.
LEMMA MediaStep ==
  ASSUME TypeOK, [Next]_vars
  PROVE  MediaOK'
  <1> USE DEF driver, history
  <1>t. MediaOK /\ DeviceOK
    BY DEF TypeOK
  <1> USE <1>t DEF MediaOK
  <1>1. CASE StartInit BY <1>1 DEF StartInit
  <1>2. CASE Poll BY <1>2 DEF Poll
  <1>3. CASE WaitFails BY <1>3 DEF WaitFails
  <1>4. CASE Identify BY <1>4 DEF Identify
  <1>5. CASE Refuse BY <1>5 DEF Refuse
  <1>6. CASE Start BY <1>6 DEF Start
  <1>7. CASE WriteRegisters BY <1>7 DEF WriteRegisters
  <1>8. CASE WriteCommand BY <1>8 DEF WriteCommand
  <1>9. CASE ReadSector BY <1>9 DEF ReadSector
  <1>10. CASE WriteSector BY <1>10 DEF WriteSector
  <1>11. CASE NextSector BY <1>11 DEF NextSector
  <1>12. CASE Finish BY <1>12 DEF Finish
  <1>13. CASE DriveOffers BY <1>13 DEF DriveOffers
  <1>14. CASE DriveStores
    <2>1. dev.hold[1] \in Int
      BY <1>14 DEF DriveStores, DeviceOK, DeviceType
    <2> QED BY <1>14, <2>1, ZenonT(60) DEF DriveStores
  <1>15. CASE DriveFlushes BY <1>15 DEF DriveFlushes
  <1>16. CASE DriveFails BY <1>16 DEF DriveFails
  <1>17. CASE Destage BY <1>17 DEF Destage
  <1>18. CASE PowerLoss BY <1>18 DEF PowerLoss
  <1>19. CASE Calls BY <1>19 DEF Calls, Begin
  <1>20. CASE UNCHANGED vars BY <1>20, ZenonT(60) DEF vars
  <1> QED BY <1>1, <1>2, <1>3, <1>4, <1>5, <1>6, <1>7, <1>8, <1>9, <1>10, <1>11, <1>12,
             <1>13, <1>14, <1>15, <1>16, <1>17, <1>18, <1>19, <1>20, ZenonT(60)
          DEF Next, Driver, Drive

-----------------------------------------------------------------------------
(* Where a call is *)

LEMMA ProgressStep ==
  ASSUME TypeOK, Progress, [Next]_vars
  PROVE  Progress'
  <1> USE DEF driver, history
  <1>t. CallOK /\ call \in CallType /\ pc \in Pcs /\ sector \in Nat /\ call.count \in Nat
    BY DEF TypeOK, CallOK, CallType
  <1> USE <1>t
  <1>1. CASE StartInit BY <1>1, ProbeIs DEF StartInit, Progress, InCall
  <1>2. CASE Poll BY <1>2 DEF Progress, InCall, Poll
  <1>3. CASE WaitFails
    <2>1. CASE pc = "detect"
      BY <1>3, <2>1, ProbeIs, ZenonT(60) DEF WaitFails, Progress, InCall
    <2>2. CASE pc # "detect"
      <3>1. Answer(-1)
        BY <1>3, <2>2, ZenonT(60) DEF WaitFails
      <3> QED BY <3>1, AnswerIs DEF Progress, InCall
    <2> QED BY <2>1, <2>2
  <1>4. CASE Identify BY <1>4, ZenonT(60) DEF Progress, InCall, Identify
  <1>5. CASE Refuse
    <2>1. Answer(-1)
      BY <1>5, ZenonT(60) DEF Refuse
    <2> QED BY <2>1, AnswerIs DEF Progress, InCall
  <1>6. CASE Start
    <2>1. /\ call'.op = call.op /\ call'.lba = call.lba /\ call'.count = call.count
          /\ call'.data = call.data
      BY <1>6 DEF Start, CallType
    <2>2. call.op # "flush" => call.count \in 1 .. BYTE
      <3>1. BYTE \in Nat
        BY AtaAssumption
      <3> QED BY <1>6, <3>1 DEF Start, Refused, CallType
    <2>3. pc = "start" /\ pc' = (IF call.op = "flush" THEN "command" ELSE "regs")
      BY <1>6 DEF Start
    <2>4. UNCHANGED <<buf, sector>>
      BY <1>6 DEF Start
    <2> QED BY <2>1, <2>2, <2>3, <2>4 DEF Progress, InCall
  <1>7. CASE WriteRegisters BY <1>7 DEF Progress, InCall, WriteRegisters
  <1>8. CASE WriteCommand
    <2>1. call.op \in {"read", "write", "flush"}
      BY <1>8, ZenonT(60) DEF WriteCommand, Progress, InCall, CallOK, CallType
    <2>2. pc' = IF call.op = "read" THEN "rdrq" ELSE IF call.op = "write" THEN "wdrq"
                ELSE "fbsy"
      BY <1>8, <2>1 DEF WriteCommand
    <2>3. pc = "command" /\ UNCHANGED <<call, buf, sector>>
      BY <1>8, ZenonT(60) DEF WriteCommand
    <2> QED BY <2>1, <2>2, <2>3 DEF Progress, InCall
  <1>9. CASE ReadSector BY <1>9 DEF Progress, InCall, ReadSector
  <1>10. CASE WriteSector BY <1>10 DEF Progress, InCall, WriteSector
  <1>11. CASE NextSector BY <1>11, ZenonT(60) DEF Progress, InCall, NextSector
  <1>12. CASE Finish
    <2>1. Answer(0)
      BY <1>12 DEF Finish
    <2> QED BY <2>1, AnswerIs DEF Progress, InCall
  <1>13. CASE DriveOffers BY <1>13, ZenonT(60) DEF Progress, InCall, DriveOffers
  <1>14. CASE DriveStores BY <1>14, ZenonT(60) DEF Progress, InCall, DriveStores
  <1>15. CASE DriveFlushes BY <1>15 DEF Progress, InCall, DriveFlushes
  <1>16. CASE DriveFails BY <1>16, ZenonT(60) DEF Progress, InCall, DriveFails
  <1>17. CASE Destage BY <1>17, ZenonT(60) DEF Progress, InCall, Destage
  <1>18. CASE PowerLoss BY <1>18, NoCallIs, ZenonT(60) DEF PowerLoss, Progress, InCall
  <1>19. CASE Calls
    <2>1. ASSUME NEW op \in {"read", "write", "flush"}, NEW l \in Nat, NEW n \in Nat,
                 NEW d \in Seq(Nat), Begin(op, l, n, d), l < LBA28,
                 op = "write" => n = Len(d)
          PROVE  Progress'
      <3>1. /\ call'.op = op /\ call'.lba = l /\ call'.count = n /\ call'.data = d
            /\ pc' = "start" /\ pc = "done" /\ UNCHANGED <<buf, sector>>
        BY <2>1, ZenonT(60) DEF Begin
      <3> QED BY <2>1, <3>1, ZenonT(60) DEF Progress, InCall
    <2>2. /\ \A l \in Lbas : l \in Nat /\ l < LBA28
          /\ 0 < LBA28
          /\ Counts \subseteq Nat
          /\ \A b \in Buffers : b \in Seq(Nat) /\ Len(b) \in Nat
      <3>1. BYTE \in Nat /\ BYTE > 0 /\ NIBBLE \in Nat
        BY AtaAssumption
      <3>2. LBA28 \in Int
        BY <3>1 DEF LBA28
      <3> QED BY <3>1, <3>2, AtaAssumption
    <2>3. <<>> \in Seq(Nat)
      OBVIOUS
    <2> QED BY <1>19, <2>1, <2>2, <2>3, ZenonT(60) DEF Calls
  <1>20. CASE UNCHANGED vars BY <1>20 DEF Progress, InCall, vars
  <1> QED BY <1>1, <1>2, <1>3, <1>4, <1>5, <1>6, <1>7, <1>8, <1>9, <1>10, <1>11, <1>12,
             <1>13, <1>14, <1>15, <1>16, <1>17, <1>18, <1>19, <1>20, ZenonT(60)
          DEF Next, Driver, Drive

-----------------------------------------------------------------------------
(* The registers carry the address and the count *)

LEMMA Division ==
  ASSUME NEW a \in Nat, NEW b \in Nat \ {0}
  PROVE  a = (a \div b) * b + (a % b) /\ a % b \in 0 .. b - 1 /\ a \div b \in Nat
  <1>1. a = b * (a \div b) + (a % b)
    OBVIOUS
  <1>2. a % b \in 0 .. b - 1
    OBVIOUS
  <1>3. a \div b \in Int /\ a \div b >= 0
    OBVIOUS
  <1>4. b * (a \div b) = (a \div b) * b
    BY <1>3
  <1> QED BY <1>1, <1>2, <1>3, <1>4

LEMMA Distributes ==
  ASSUME NEW q \in Nat, NEW c \in Nat, NEW u \in Nat, NEW b \in Nat
  PROVE  (q * c + u) * b = q * (b * c) + u * b
  OBVIOUS

LEMMA Digits ==
  ASSUME NEW t \in Nat, NEW b \in Nat, NEW x \in Nat, NEW y \in Nat, NEW z \in Nat
  PROVE  ((t * b + x) * b + y) * b + z = t * b * b * b + x * b * b + y * b + z
  OBVIOUS

LEMMA Monotone ==
  ASSUME NEW x \in Nat, NEW y \in Nat, NEW b \in Nat, x <= y
  PROVE  x * b <= y * b
  <1>1. PICK d \in Nat : y = x + d
    <2>1. y - x \in Nat /\ y = x + (y - x)
      OBVIOUS
    <2> QED BY <2>1
  <1>2. y * b = x * b + d * b
    BY <1>1
  <1>3. x * b \in Nat /\ d * b \in Nat
    BY <1>1
  <1> QED BY <1>2, <1>3

LEMMA QuotientIs ==
  ASSUME NEW a \in Nat, NEW b \in Nat \ {0}, NEW q \in Nat, NEW r \in 0 .. b - 1,
         a = q * b + r
  PROVE  a \div b = q
  <1> DEFINE p == a \div b
             s == a % b
  <1>1. a = p * b + s /\ s \in 0 .. b - 1 /\ p \in Nat
    BY Division, ZenonT(60)
  <1> HIDE DEF p, s
  <1>2. p * b \in Nat /\ q * b \in Nat
    BY <1>1
  <1>3. ~(p < q)
    <2> SUFFICES ASSUME p < q PROVE FALSE
      OBVIOUS
    <2>1. (p + 1) * b <= q * b
      BY <1>1, Monotone
    <2>2. (p + 1) * b = p * b + b
      BY <1>1
    <2> QED BY <1>1, <1>2, <2>1, <2>2
  <1>4. ~(q < p)
    <2> SUFFICES ASSUME q < p PROVE FALSE
      OBVIOUS
    <2>1. (q + 1) * b <= p * b
      BY <1>1, Monotone
    <2>2. (q + 1) * b = q * b + b
      OBVIOUS
    <2> QED BY <1>1, <1>2, <2>1, <2>2
  <1> QED BY <1>1, <1>3, <1>4 DEF p

\* Two divisions are one.
LEMMA QuotientTwice ==
  ASSUME NEW a \in Nat, NEW b \in Nat \ {0}, NEW c \in Nat \ {0}
  PROVE  a \div (b * c) = (a \div b) \div c
  <1> DEFINE p == a \div b
             q == p \div c
             u == p % c
             r == u * b + (a % b)
  <1>1. a = p * b + (a % b) /\ a % b \in 0 .. b - 1 /\ p \in Nat
    BY Division, ZenonT(60)
  <1> HIDE DEF p
  <1>2. p = q * c + u /\ u \in 0 .. c - 1 /\ q \in Nat
    BY <1>1, Division, ZenonT(60)
  <1> HIDE DEF u
  <1>3. q = p \div c
    OBVIOUS
  <1> HIDE DEF q
  <1>4. p * b = q * (b * c) + u * b
    BY <1>2, Distributes
  <1>5. r \in 0 .. b * c - 1
    <2>1. u * b <= (c - 1) * b
      BY <1>2, Monotone
    <2>2. (c - 1) * b = b * c - b /\ u * b \in Nat
      BY <1>2
    <2> QED BY <1>1, <2>1, <2>2
  <1>6. b * c \in Nat \ {0}
    OBVIOUS
  <1>7. a = q * (b * c) + r
    <2>1. q * (b * c) \in Nat /\ u * b \in Nat /\ a % b \in Nat
      BY <1>1, <1>2
    <2> QED BY <1>1, <1>4, <2>1
  <1> HIDE DEF r
  <1>8. a \div (b * c) = q
    BY <1>2, <1>5, <1>6, <1>7, QuotientIs
  <1> QED BY <1>3, <1>8 DEF p

\* A quotient below n is its own remainder.
LEMMA SmallRemainder ==
  ASSUME NEW n \in Nat \ {0}, NEW a \in 0 .. n - 1 PROVE a % n = a
  OBVIOUS

LEMMA AddressSplits ==
  ASSUME NEW b \in Nat \ {0}, NEW n \in Nat \ {0}, NEW l \in Nat, l < n * b * b * b
  PROVE  l = ((l \div (b * b * b)) % n) * b * b * b + ((l \div (b * b)) % b) * b * b
               + ((l \div b) % b) * b + (l % b)
  <1> DEFINE p == l \div b
             q == p \div b
             t == q \div b
             x == q % b
             y == p % b
             z == l % b
  <1>1. l = p * b + z /\ z \in 0 .. b - 1 /\ p \in Nat
    BY Division, ZenonT(60)
  <1>2. p = l \div b
    OBVIOUS
  <1> HIDE DEF p
  <1>3. p = q * b + y /\ y \in 0 .. b - 1 /\ q \in Nat
    BY <1>1, Division, ZenonT(60)
  <1>4. q = l \div (b * b)
    BY <1>2, QuotientTwice
  <1> HIDE DEF q
  <1>5. q = t * b + x /\ x \in 0 .. b - 1 /\ t \in Nat
    BY <1>3, Division, ZenonT(60)
  <1>6. t = l \div (b * b * b)
    <2>1. b * b \in Nat \ {0}
      OBVIOUS
    <2> QED BY <1>4, <2>1, QuotientTwice, ZenonT(60)
  <1> HIDE DEF t, x, y, z
  <1>7. t < n
    <2> SUFFICES ASSUME n <= t PROVE FALSE
      BY <1>5
    <2>1. n * b <= t * b /\ n * b \in Nat /\ t * b \in Nat
      BY <1>5, Monotone
    <2>2. n * b <= q
      BY <1>3, <1>5, <2>1
    <2>3. n * b * b <= q * b /\ n * b * b \in Nat /\ q * b \in Nat
      BY <1>3, <2>1, <2>2, Monotone
    <2>4. n * b * b <= p
      BY <1>1, <1>3, <2>3
    <2>5. n * b * b * b <= p * b /\ p * b \in Nat /\ n * b * b * b \in Nat
      BY <1>1, <2>3, <2>4, Monotone
    <2> QED BY <1>1, <2>5
  <1>8. t % n = t
    BY <1>5, <1>7, SmallRemainder
  <1>9. l = t * b * b * b + x * b * b + y * b + z
    <2>1. l = ((t * b + x) * b + y) * b + z
      BY <1>1, <1>3, <1>5
    <2> QED BY <1>1, <1>3, <1>5, <2>1, Digits
  <1> QED BY <1>2, <1>4, <1>6, <1>8, <1>9, ZenonT(60) DEF x, y, z

\* The drive finds the address and the count of the call in its registers.
LEMMA RegistersRead ==
  ASSUME call \in CallType, dev.regs = Registers, call.lba < LBA28, call.count \in 1 .. BYTE
  PROVE  RegLba = call.lba /\ RegCount = call.count
  <1>1. BYTE \in Nat \ {0} /\ NIBBLE \in Nat \ {0} /\ call.lba \in Nat
    BY AtaAssumption DEF CallType
  <1>2. /\ dev.regs[1] = (call.lba \div (BYTE * BYTE * BYTE)) % NIBBLE
        /\ dev.regs[2] = call.count % BYTE /\ dev.regs[3] = call.lba % BYTE
        /\ dev.regs[4] = (call.lba \div BYTE) % BYTE
        /\ dev.regs[5] = (call.lba \div (BYTE * BYTE)) % BYTE
    BY DEF Registers
  <1>3. call.lba < NIBBLE * BYTE * BYTE * BYTE
    BY DEF LBA28
  <1>4. RegLba = call.lba
    BY <1>1, <1>2, <1>3, AddressSplits, ZenonT(60) DEF RegLba
  <1>5. CASE call.count = BYTE
    <2>1. BYTE % BYTE = 0
      BY <1>1
    <2> QED BY <1>2, <1>4, <1>5, <2>1 DEF RegCount
  <1>6. CASE call.count \in 1 .. BYTE - 1
    <2>1. call.count % BYTE = call.count
      BY <1>1, <1>6, SmallRemainder
    <2> QED BY <1>2, <1>4, <1>6, <2>1 DEF RegCount
  <1> QED BY <1>1, <1>5, <1>6

-----------------------------------------------------------------------------
(* What survives *)

LEMMA HeldStep ==
  ASSUME TypeOK, Settled, Held, [Next]_vars
  PROVE  Held'
  <1> USE DEF driver, history
  <1>t. MediaOK
    BY DEF TypeOK
  <1> USE <1>t DEF MediaOK, Held
  <1>1. CASE StartInit BY <1>1 DEF StartInit
  <1>2. CASE Poll BY <1>2 DEF Poll
  <1>3. CASE WaitFails BY <1>3 DEF WaitFails
  <1>4. CASE Identify BY <1>4 DEF Identify
  <1>5. CASE Refuse BY <1>5 DEF Refuse
  <1>6. CASE Start BY <1>6 DEF Start
  <1>7. CASE WriteRegisters BY <1>7, ZenonT(60) DEF WriteRegisters
  <1>8. CASE WriteCommand BY <1>8, ZenonT(60) DEF WriteCommand
  <1>9. CASE ReadSector BY <1>9 DEF ReadSector
  <1>10. CASE WriteSector BY <1>10 DEF WriteSector
  <1>11. CASE NextSector BY <1>11, ZenonT(60) DEF NextSector
  <1>12. CASE Finish
    <2>1. CASE pc = "fbsy" /\ call.clean
      <3>1. platter = media
        BY <1>12, <2>1, ZenonT(60) DEF Finish, WaitEnds, Met, Settled, InCall, ERR, BSY, Idle
      <3> QED BY <1>12, <2>1, <3>1, ZenonT(60) DEF Finish
    <2>2. CASE ~(pc = "fbsy" /\ call.clean)
      BY <1>12, <2>2 DEF Finish
    <2> QED BY <2>1, <2>2, ZenonT(60)
  <1>13. CASE DriveOffers BY <1>13, ZenonT(60) DEF DriveOffers
  <1>14. CASE DriveStores
    <2> SUFFICES ASSUME NEW l \in Sectors
                 PROVE  media'[l] \in held'[l] /\ platter'[l] \in held'[l]
      BY <1>14, ZenonT(60) DEF DriveStores
    <2>1. CASE l = dev.lba
      BY <1>14, <2>1, ZenonT(60) DEF DriveStores
    <2>2. CASE l # dev.lba
      BY <1>14, <2>2, ZenonT(60) DEF DriveStores
    <2> QED BY <2>1, <2>2, ZenonT(60)
  <1>15. CASE DriveFlushes BY <1>15 DEF DriveFlushes
  <1>16. CASE DriveFails BY <1>16, ZenonT(60) DEF DriveFails
  <1>17. CASE Destage BY <1>17, ZenonT(60) DEF Destage
  <1>18. CASE PowerLoss BY <1>18, ZenonT(60) DEF PowerLoss
  <1>19. CASE Calls BY <1>19, ZenonT(60) DEF Calls, Begin
  <1>20. CASE UNCHANGED vars BY <1>20, ZenonT(60) DEF vars
  <1> QED BY <1>1, <1>2, <1>3, <1>4, <1>5, <1>6, <1>7, <1>8, <1>9, <1>10, <1>11, <1>12,
             <1>13, <1>14, <1>15, <1>16, <1>17, <1>18, <1>19, <1>20, ZenonT(60)
          DEF Next, Driver, Drive

-----------------------------------------------------------------------------
(* What the drive does for a call that found it idle *)

LEMMA SettledStep ==
  ASSUME TypeOK, Progress, Settled, [Next]_vars
  PROVE  Settled'
  <1> USE DEF driver, history
  <1>t. /\ CallOK /\ call \in CallType /\ pc \in Pcs /\ sector \in Nat /\ call.count \in Nat
        /\ call.lba \in Nat /\ DeviceOK /\ dev \in DeviceType /\ dev.lba \in Int /\ dev.left \in Int
    BY ZenonT(60) DEF TypeOK, CallOK, CallType, DeviceOK, DeviceType
  <1> USE <1>t
  <1>1. CASE StartInit BY <1>1, ProbeIs, ZenonT(60) DEF StartInit, Settled, InCall
  <1>2. CASE Poll
    BY <1>2, ZenonT(60) DEF Poll, Settled, InCall, Working, Storing, Idle, BSY, DRQ, ERR, Registers
  <1>3. CASE WaitFails
    <2>1. CASE pc = "detect"
      BY <1>3, <2>1, ProbeIs, ZenonT(60) DEF WaitFails, Settled, InCall
    <2>2. CASE pc # "detect"
      <3>1. Answer(-1)
        BY <1>3, <2>2, ZenonT(60) DEF WaitFails
      <3> QED BY <3>1, AnswerIs DEF Settled, InCall
    <2> QED BY <2>1, <2>2
  <1>4. CASE Identify BY <1>4, ZenonT(60) DEF Settled, InCall, Identify
  <1>5. CASE Refuse BY <1>5, AnswerIs, SMTT(60) DEF Refuse, Settled, InCall
  <1>6. CASE Start
    <2>1. pc' = (IF call.op = "flush" THEN "command" ELSE "regs") /\ UNCHANGED dev
      BY <1>6 DEF Start
    <2>2. call'.clean = (~BSY /\ ~DRQ) /\ call'.op = call.op
      BY <1>6, ZenonT(60) DEF Start, CallType
    <2> QED BY <2>1, <2>2, ZenonT(60) DEF Settled, InCall, BSY, DRQ
  <1>7. CASE WriteRegisters
    <2> SUFFICES ASSUME call.clean PROVE Settled'
      BY <1>7 DEF WriteRegisters, Settled, InCall
    <2>1. ~BSY /\ ~DRQ
      BY <1>7 DEF WriteRegisters, Settled, InCall
    <2>2. dev'.regs = Registers /\ dev'.phase = dev.phase
      BY <1>7, <2>1, RegistersAre, SetRegs DEF WriteRegisters
    <2>3. pc' = "command" /\ UNCHANGED call
      BY <1>7, ZenonT(60) DEF WriteRegisters
    <2> QED BY <2>1, <2>2, <2>3 DEF Settled, InCall, BSY, DRQ, Registers
  <1>8. CASE WriteCommand
    <2> SUFFICES ASSUME call.clean PROVE Settled'
      BY <1>8 DEF WriteCommand, Settled, InCall
    <2>1. ~BSY /\ ~DRQ /\ (call.op # "flush" => dev.regs = Registers)
      BY <1>8, ZenonT(60) DEF WriteCommand, Settled, InCall
    <2>2. call.op \in {"read", "write", "flush"}
      BY <1>8, ZenonT(60) DEF WriteCommand, Progress, InCall, CallType
    <2>3. /\ dev'.phase = "busy" /\ dev'.op = call.op /\ dev'.hold = <<>>
          /\ call.op = "flush" => dev'.left = 1
          /\ call.op # "flush" => dev'.lba = RegLba /\ dev'.left = RegCount
      BY <1>8, <2>1, <2>2, CommandIs, ZenonT(60) DEF WriteCommand
    <2>4. call.lba < LBA28 /\ (call.op # "flush" => call.count \in 1 .. BYTE)
      BY <1>8, ZenonT(60) DEF WriteCommand, Progress, InCall
    <2>5. call.op # "flush" => dev'.lba = call.lba /\ dev'.left = call.count
      BY <2>1, <2>3, <2>4, RegistersRead, ZenonT(60)
    <2>6. pc = "command" /\ UNCHANGED <<call, buf, sector>>
      BY <1>8, ZenonT(60) DEF WriteCommand
    <2>7. buf = <<>> /\ sector = 0
      BY <2>6, ZenonT(60) DEF Progress
    <2>8. CASE call.op = "read"
      <3>1. pc' = "rdrq"
        BY <1>8, <2>8 DEF WriteCommand
      <3>2. Len(buf') = 0
        BY <2>6, <2>7, ZenonT(60)
      <3>3. Working("read", Len(buf))'
        BY <2>3, <2>4, <2>5, <2>6, <2>8, <3>2, SMTT(60) DEF Working, BSY
      <3> QED BY <3>1, <3>3, ZenonT(60) DEF Settled
    <2>9. CASE call.op = "write"
      <3>1. pc' = "wdrq"
        BY <1>8, <2>9, SMTT(60) DEF WriteCommand
      <3>2. Working("write", sector)'
        BY <2>3, <2>4, <2>5, <2>6, <2>7, <2>9, SMTT(60) DEF Working, BSY
      <3> QED BY <3>1, <3>2, ZenonT(60) DEF Settled
    <2>10. CASE call.op = "flush"
      <3>1. pc' = "fbsy"
        BY <1>8, <2>10 DEF WriteCommand
      <3> QED BY <2>3, <2>10, <3>1, ZenonT(60) DEF Settled, BSY
    <2> QED BY <2>2, <2>8, <2>9, <2>10, ZenonT(60)
  <1>9. CASE ReadSector
    <2> SUFFICES ASSUME call.clean PROVE Settled'
      BY <1>9, ZenonT(60) DEF ReadSector, Settled, InCall
    <2>1. /\ DRQ /\ dev.op = "read" /\ dev.lba = call.lba + Len(buf)
          /\ Len(buf) < call.count /\ dev.left = call.count - Len(buf)
      BY <1>9, ZenonT(60) DEF ReadSector, WaitEnds, Met, Settled, InCall, Working
    <2>2. dev' = Advance /\ UNCHANGED call
      BY <1>9, <2>1, ZenonT(60) DEF ReadSector
    <2>3. Len(buf) \in Nat /\ Len(buf') = Len(buf) + 1
      BY <1>9, SMTT(60) DEF ReadSector, CallOK
    <2>4. CASE Len(buf) + 1 = call.count
      <3>1. pc' = "rend" /\ dev.left = 1
        BY <1>9, <2>1, <2>3, <2>4, SMTT(60) DEF ReadSector
      <3> QED BY <2>2, <2>3, <2>4, <3>1, AdvanceIs, ZenonT(60) DEF Settled, Idle
    <2>5. CASE Len(buf) + 1 # call.count
      <3>1. pc' = "rdrq" /\ dev.left # 1
        BY <1>9, <2>1, <2>3, <2>5, SMTT(60) DEF ReadSector
      <3>2. /\ dev'.phase = "busy" /\ dev'.op = "read" /\ dev'.hold = <<>>
            /\ dev'.lba = dev.lba + 1 /\ dev'.left = dev.left - 1
        BY <2>1, <2>2, <3>1, AdvanceIs, ZenonT(60)
      <3>3. call.lba \in Int /\ call.count \in Int
        BY DEF CallOK, CallType
      <3>4. /\ Len(buf) + 1 < call.count
            /\ dev'.lba = call.lba + (Len(buf) + 1) /\ dev'.left = call.count - (Len(buf) + 1)
        BY <2>1, <2>3, <2>5, <3>2, <3>3
      <3>5. Working("read", Len(buf))'
        BY <2>2, <2>3, <3>2, <3>4, ZenonT(60) DEF Working, BSY
      <3> QED BY <3>1, <3>5, ZenonT(60) DEF Settled
    <2> QED BY <2>4, <2>5, ZenonT(60)
  <1>10. CASE WriteSector
    <2> SUFFICES ASSUME call.clean PROVE Settled'
      BY <1>10 DEF WriteSector, Settled, InCall
    <2>1. /\ DRQ /\ dev.op = "write" /\ dev.lba = call.lba + sector /\ dev.lba \in Sectors
          /\ dev.left = call.count - sector
      BY <1>10 DEF WriteSector, WaitEnds, Met, Settled, InCall, Working, BSY, DRQ, ERR
    <2>2. call.data[sector + 1] \in Nat
      <3>1. call.data \in Seq(Nat) /\ sector + 1 \in 1 .. Len(call.data)
        BY <1>10 DEF WriteSector, Progress, CallType
      <3> QED BY <3>1, WithinSeq, ZenonT(60)
    <2>3. /\ dev'.phase = "busy" /\ dev'.hold = <<call.data[sector + 1]>> /\ dev'.op = "write"
          /\ dev'.lba = dev.lba /\ dev'.left = dev.left
      BY <1>10, <2>1, <2>2, FilledIs, ZenonT(60) DEF WriteSector
    <2>4. pc' = "wbsy" /\ sector' = sector + 1 /\ UNCHANGED call
      BY <1>10, ZenonT(60) DEF WriteSector
    <2>5. Storing'
      BY <2>1, <2>3, <2>4, SMTT(60) DEF Storing, BSY
    <2> QED BY <2>4, <2>5 DEF Settled
  <1>11. CASE NextSector
    <2> SUFFICES ASSUME call.clean PROVE Settled'
      BY <1>11, ZenonT(60) DEF NextSector, Settled, InCall
    <2>1. Working("write", sector)
      BY <1>11 DEF NextSector, WaitEnds, Met, Settled, InCall, Storing
    <2>2. pc' = "wdrq" /\ UNCHANGED <<dev, call, sector>>
      BY <1>11, ZenonT(60) DEF NextSector
    <2>3. Working("write", sector)'
      BY <2>1, <2>2, ZenonT(60) DEF Working, BSY, DRQ
    <2> QED BY <2>2, <2>3, ZenonT(60) DEF Settled
  <1>12. CASE Finish BY <1>12, AnswerIs DEF Finish, Settled, InCall
  <1>13. CASE DriveOffers
    <2> SUFFICES ASSUME call.clean PROVE Settled'
      BY <1>13 DEF DriveOffers, Settled, InCall
    <2>1. /\ BSY /\ dev.hold = <<>> /\ dev.op # "flush"
          /\ dev.op \in {"read", "write"} => dev.lba \in Sectors
          /\ UNCHANGED <<call, pc, buf, sector>>
      BY <1>13 DEF DriveOffers
    <2>2. /\ dev'.phase = "drq" /\ dev'.op = dev.op /\ dev'.lba = dev.lba
          /\ dev'.left = dev.left /\ dev'.hold = dev.hold
      BY <1>13, SetPhase, ZenonT(60) DEF DriveOffers, Phases
    <2>3. ~Storing /\ ~Idle /\ ~ERR
      BY <2>1, SMTT(60) DEF Storing, Idle, ERR, BSY
    <2>4. CASE pc = "rdrq"
      <3>1. Working("read", Len(buf))
        BY <2>3, <2>4, ZenonT(60) DEF Settled, InCall
      <3>2. Working("read", Len(buf))'
        BY <2>1, <2>2, <3>1, ZenonT(60) DEF Working, DRQ
      <3> QED BY <2>1, <2>4, <3>2, ZenonT(60) DEF Settled
    <2>5. CASE pc \in {"wdrq", "wbsy"}
      <3>1. Working("write", sector) /\ sector < call.count
        BY <2>3, <2>5, ZenonT(60) DEF Settled, InCall, Working
      <3>2. Working("write", sector)' /\ sector' < call'.count
        BY <2>1, <2>2, <3>1, ZenonT(60) DEF Working, DRQ
      <3> QED BY <2>1, <2>5, <3>2, ZenonT(60) DEF Settled
    <2>6. CASE pc \notin {"rdrq", "wdrq", "wbsy"}
      BY <2>1, <2>3, <2>6 DEF Settled, InCall, Pcs
    <2> QED BY <2>4, <2>5, <2>6, ZenonT(60)
  <1>14. CASE DriveStores
    <2> SUFFICES ASSUME call.clean PROVE Settled'
      BY <1>14, ZenonT(60) DEF DriveStores, Settled, InCall
    <2>1. /\ BSY /\ dev.hold # <<>> /\ dev' = Advance
          /\ UNCHANGED <<call, pc, buf, sector>>
      BY <1>14, ZenonT(60) DEF DriveStores
    <2>2. ~Idle /\ ~ERR
      BY <2>1 DEF Idle, ERR, BSY
    <2>3. CASE pc = "wbsy"
      <3>1. Storing /\ sector \in 1 .. call.count
        BY <2>1, <2>2, <2>3, ZenonT(60) DEF Settled, InCall, Working, Progress
      <3>2. CASE sector = call.count
        <4>1. dev.left = 1
          BY <3>1, <3>2 DEF Storing
        <4>2. dev'.phase = "idle" /\ dev'.left = 0
          BY <2>1, <4>1, AdvanceIs, ZenonT(60)
        <4> QED BY <2>1, <2>3, <3>2, <4>2, ZenonT(60) DEF Settled, Idle
      <3>3. CASE sector < call.count
        <4>1. /\ dev.left # 1 /\ dev.op = "write" /\ dev.lba = call.lba + (sector - 1)
              /\ dev.left = call.count - (sector - 1)
          BY <3>1, <3>3, SMTT(60) DEF Storing
        <4>2. /\ dev'.phase = "busy" /\ dev'.op = "write" /\ dev'.hold = <<>>
              /\ dev'.lba = dev.lba + 1 /\ dev'.left = dev.left - 1
          BY <2>1, <4>1, AdvanceIs, ZenonT(60)
        <4>3. call.lba \in Int /\ call.count \in Int /\ sector \in Int
          BY DEF CallOK, CallType
        <4>4. /\ (call.lba + (sector - 1)) + 1 = call.lba + sector
              /\ (call.count - (sector - 1)) - 1 = call.count - sector
          BY <4>3, OneFurther, ZenonT(60)
        <4>5. dev'.lba = call.lba + sector /\ dev'.left = call.count - sector
          BY <4>1, <4>2, <4>4, ZenonT(60)
        <4>6. Working("write", sector)'
          BY <2>1, <3>3, <4>2, <4>5, ZenonT(60) DEF Working, BSY
        <4> QED BY <2>1, <2>3, <3>3, <4>6, ZenonT(60) DEF Settled
      <3> QED BY <3>1, <3>2, <3>3, SMTT(60)
    <2>4. CASE pc # "wbsy"
      BY <2>1, <2>2, <2>4 DEF Settled, InCall, Pcs, Working
    <2> QED BY <2>3, <2>4, ZenonT(60)
  <1>15. CASE DriveFlushes
    <2> SUFFICES ASSUME call.clean PROVE Settled'
      BY <1>15 DEF DriveFlushes, Settled, InCall
    <2>1. /\ BSY /\ dev.op = "flush" /\ dev' = Advance /\ platter' = media
          /\ UNCHANGED <<call, pc, buf, sector, media>>
      BY <1>15 DEF DriveFlushes
    <2>2. ~Idle /\ ~ERR
      BY <2>1, SMTT(60) DEF Idle, ERR, BSY
    <2>3. CASE pc = "fbsy"
      <3>1. dev.left = 1
        BY <2>2, <2>3, ZenonT(60) DEF Settled, InCall
      <3> QED BY <2>1, <2>3, <3>1, AdvanceIs, ZenonT(60) DEF Settled, Idle
    <2>4. CASE pc # "fbsy"
      BY <2>1, <2>2, <2>4, ZenonT(60) DEF Settled, InCall, Pcs, Working, Storing
    <2> QED BY <2>3, <2>4, ZenonT(60)
  <1>16. CASE DriveFails
    <2> SUFFICES ASSUME call.clean PROVE Settled'
      BY <1>16, ZenonT(60) DEF DriveFails, Settled, InCall
    <2>1. BSY /\ dev'.phase = "err" /\ UNCHANGED <<call, pc, buf, sector>>
      BY <1>16, FailedIs, ZenonT(60) DEF DriveFails
    <2>2. ~Idle
      BY <2>1, SMTT(60) DEF Idle, BSY
    <2> QED BY <2>1, <2>2, ZenonT(60) DEF Settled, InCall, ERR
  <1>17. CASE Destage
    <2> SUFFICES ASSUME call.clean PROVE Settled'
      BY <1>17 DEF Destage, Settled, InCall
    <2>1. platter # media /\ UNCHANGED <<dev, call, pc, buf, sector, media>>
      BY <1>17, SMTT(60) DEF Destage
    <2> QED BY <2>1, ZenonT(60) DEF Settled, InCall, Working, Storing, Idle, BSY, DRQ, ERR, Registers
  <1>18. CASE PowerLoss BY <1>18, ZenonT(60) DEF Settled, InCall, PowerLoss
  <1>19. CASE Calls BY <1>19, ZenonT(60) DEF Calls, Begin, Settled, InCall
  <1>20. CASE UNCHANGED vars
    BY <1>20, ZenonT(60) DEF vars, Settled, InCall, Working, Storing, Idle, BSY, DRQ, ERR, Registers
  <1> QED BY <1>1, <1>2, <1>3, <1>4, <1>5, <1>6, <1>7, <1>8, <1>9, <1>10, <1>11, <1>12,
             <1>13, <1>14, <1>15, <1>16, <1>17, <1>18, <1>19, <1>20, ZenonT(60)
          DEF Next, Driver, Drive

-----------------------------------------------------------------------------

LEMMA InitIInv == Init => IInv
  <1> SUFFICES ASSUME Init PROVE IInv
    BY ZenonT(60)
  <1>1. /\ media = [l \in Sectors |-> l] /\ platter = media /\ dev = IdleDrive /\ pc = "off"
        /\ call = NoCall /\ buf = <<>> /\ sector = 0 /\ held = [l \in Sectors |-> {l}]
    BY DEF Init
  <1>2. Sectors \subseteq Int
    BY DEF Sectors
  <1>3. TypeOK
    <2>1. DeviceOK
      BY <1>1, IdleDriveIs, ZenonT(60) DEF DeviceOK, DRQ
    <2>2. CallOK
      BY <1>1, NoCallIs DEF CallOK, Pcs
    <2>3. MediaOK
      BY <1>1, <1>2, ZenonT(60) DEF MediaOK
    <2> QED BY <2>1, <2>2, <2>3, ZenonT(60) DEF TypeOK
  <1>4. Progress
    BY <1>1, NoCallIs, ZenonT(60) DEF Progress, InCall
  <1>5. Settled /\ Held
    BY <1>1 DEF Settled, InCall, Held
  <1> QED BY <1>3, <1>4, <1>5 DEF IInv

LEMMA IInvHolds == Spec => []IInv
  <1>1. IInv /\ [Next]_vars => IInv'
    BY DeviceStep, CallStep, MediaStep, ProgressStep, HeldStep, SettledStep, ZenonT(60) DEF IInv, TypeOK
  <1> QED BY InitIInv, <1>1, PTL DEF Spec

\* Whatever drive, calls, timeouts and power failures there are, a sector keeps on
\* the platter what it held at the last flush that found the drive idle and
\* answered 0, or a value written to it since: ata_pio_flush keeps its promise.
THEOREM FlushKeepsItsPromise == Spec => []FlushedSurvives
  <1>1. IInv => FlushedSurvives
    BY ZenonT(60) DEF IInv, Held, FlushedSurvives
  <1> QED BY IInvHolds, <1>1, PTL

-----------------------------------------------------------------------------
(* The driver is a block device *)

\* Every step of the driver and of the drive is one of the block device or none of it.
LEMMA RefinementStep ==
  ASSUME IInv, IInv', ~Unsettled, ~Unsettled', [Next]_vars
  PROVE  Device!Next \/ UNCHANGED Device!vars
  <1> USE DEF driver, history
  <1>t. /\ CallOK /\ call \in CallType /\ pc \in Pcs /\ sector \in Nat /\ call.count \in Nat
        /\ call.lba \in Nat /\ dev \in DeviceType /\ dev.lba \in Int /\ dev.left \in Int
    BY DEF IInv, TypeOK, CallOK, CallType, DeviceOK, DeviceType
  <1>p. Progress /\ Settled /\ Held
    BY ZenonT(60) DEF IInv
  <1>c. /\ InCall /\ pc # "start" => call.clean
        /\ ~InCall \/ pc = "start" => ~BSY /\ ~DRQ
    BY ZenonT(60) DEF Unsettled
  <1> USE <1>t, <1>p
  <1>1. CASE StartInit BY <1>1, ProbeIs, ZenonT(60) DEF StartInit, Device!vars, InCall
  <1>2. CASE Poll BY <1>2 DEF Device!vars, InCall, Poll
  <1>3. CASE WaitFails
    <2>1. CASE pc = "detect"
      BY <1>3, <2>1, ProbeIs, ZenonT(60) DEF WaitFails, Device!vars, InCall
    <2>2. CASE pc # "detect"
      <3>1. Answer(-1) /\ pc \in Waits /\ UNCHANGED <<media, held>>
        BY <1>3, <2>2, ZenonT(60) DEF WaitFails
      <3>2. InCall /\ ~InCall' /\ call.op # "none" /\ call'.ret = -1
        BY <2>2, <3>1, AnswerIs, SMTT(60) DEF InCall, Progress, Waits
      <3> QED BY <3>1, <3>2, ZenonT(60) DEF Device!Next, Device!Fail
    <2> QED BY <2>1, <2>2, ZenonT(60)
  <1>4. CASE Identify BY <1>4, ZenonT(60) DEF Device!vars, InCall, Identify
  <1>5. CASE Refuse
    <2>1. Answer(-1) /\ pc = "start" /\ UNCHANGED <<media, held>>
      BY <1>5, ZenonT(60) DEF Refuse
    <2>2. InCall /\ ~InCall' /\ call.op # "none" /\ call'.ret = -1
      BY <2>1, AnswerIs, SMTT(60) DEF InCall, Progress
    <2> QED BY <2>1, <2>2, ZenonT(60) DEF Device!Next, Device!Fail
  <1>6. CASE Start
    <2>1. /\ pc = "start" /\ pc' \in {"command", "regs"} /\ UNCHANGED <<media, held, buf>>
      BY <1>6 DEF Start
    <2>2. /\ call'.op = call.op /\ call'.lba = call.lba /\ call'.count = call.count
          /\ call'.data = call.data /\ call'.ret = call.ret
      BY <1>6 DEF Start, CallType
    <2> QED BY <2>1, <2>2 DEF Device!vars, InCall
  <1>7. CASE WriteRegisters BY <1>7, ZenonT(60) DEF Device!vars, InCall, WriteRegisters
  <1>8. CASE WriteCommand
    <2>1. call.op \in {"read", "write", "flush"}
      BY <1>8, ZenonT(60) DEF WriteCommand, Progress, InCall, CallType
    <2>2. /\ pc = "command" /\ UNCHANGED <<media, held, call, buf, sector>>
          /\ pc' = IF call.op = "read" THEN "rdrq" ELSE IF call.op = "write" THEN "wdrq"
                   ELSE "fbsy"
      BY <1>8, <2>1, SMTT(60) DEF WriteCommand
    <2>3. call.clean /\ buf = <<>> /\ sector = 0
      BY <1>c, <2>2, ZenonT(60) DEF InCall, Progress
    <2>4. ~BSY /\ ~DRQ
      BY <2>2, <2>3, ZenonT(60) DEF Settled, InCall
    <2>5. dev'.phase = "busy"
      BY <1>8, <2>1, <2>4, CommandIs, ZenonT(60) DEF WriteCommand
    <2>6. call.op = "write" => dev'.left = call.count
      <3>1. Settled'
        BY ZenonT(60) DEF IInv
      <3>2. call.op = "write" => Working("write", sector)'
        BY <2>2, <2>3, <2>5, <3>1, ZenonT(60) DEF Settled, InCall, ERR
      <3> QED BY <2>2, <2>3, <3>2 DEF Working
    <2>7. Len(buf) = 0
      BY <2>3
    <2> QED BY <2>1, <2>2, <2>6, <2>7, SMTT(60) DEF Device!vars, InCall
  <1>9. CASE ReadSector
    <2>1. pc = "rdrq" /\ WaitEnds /\ pc' \in {"rdrq", "rend"} /\ UNCHANGED <<media, held, call>>
      BY <1>9, ZenonT(60) DEF ReadSector
    <2>2. call.clean /\ call.op = "read"
      BY <1>c, <2>1, ZenonT(60) DEF InCall, Progress
    <2>3. /\ dev.op = "read" /\ dev.lba = call.lba + Len(buf) /\ dev.lba \in Sectors
          /\ Len(buf) < call.count
      BY <2>1, <2>2, ZenonT(60) DEF WaitEnds, Met, Settled, InCall, Working, BSY, DRQ, ERR
    <2>4. buf' = Append(buf, media[call.lba + Len(buf)])
      BY <1>9, <2>3, ZenonT(60) DEF ReadSector
    <2>5. Len(buf) \in Nat /\ Len(buf') = Len(buf) + 1
      BY <2>4, <1>9 DEF ReadSector, CallOK
    <2>6. call.lba + Len(buf) < Capacity
      <3>1. Capacity \in Nat
        BY AtaAssumption, ZenonT(60)
      <3> QED BY <2>3, <3>1, SMTT(60) DEF Sectors
    <2>7. Device!Move
      BY <2>1, <2>2, <2>3, <2>4, <2>5, <2>6, ZenonT(60) DEF Device!Move, InCall
    <2> QED BY <2>7, ZenonT(60) DEF Device!Next
  <1>10. CASE WriteSector
    <2>1. call.data[sector + 1] \in Nat
      <3>1. call.data \in Seq(Nat) /\ sector + 1 \in 1 .. Len(call.data)
        BY <1>10 DEF WriteSector, Progress, CallType
      <3> QED BY <3>1, WithinSeq, ZenonT(60)
    <2>2. dev'.left = dev.left
      BY <1>10, <2>1, FilledIs, ZenonT(60) DEF WriteSector
    <2>3. pc = "wdrq" /\ pc' = "wbsy" /\ UNCHANGED <<media, held, call, buf>>
      BY <1>10, ZenonT(60) DEF WriteSector
    <2> QED BY <2>2, <2>3, ZenonT(60) DEF Device!vars, InCall
  <1>11. CASE NextSector BY <1>11, ZenonT(60) DEF Device!vars, InCall, NextSector
  <1>12. CASE Finish
    <2>1. /\ Answer(0) /\ WaitEnds /\ UNCHANGED media
          /\ pc \in {"rend", "fbsy"} \/ (pc = "wbsy" /\ sector = call.count)
          /\ held' = IF pc = "fbsy" /\ call.clean THEN [l \in Sectors |-> {media[l]}] ELSE held
      BY <1>12, ZenonT(60) DEF Finish
    <2>2. InCall /\ ~InCall' /\ call.op # "none" /\ call'.ret = 0 /\ call.clean
      BY <1>c, <2>1, AnswerIs, SMTT(60) DEF InCall, Progress
    <2>3. CASE pc = "rend"
      <3>1. Len(buf) = call.count /\ call.op = "read" /\ UNCHANGED held
        BY <2>1, <2>2, <2>3, ZenonT(60) DEF Settled, Progress
      <3> QED BY <2>1, <2>2, <2>3, <3>1, ZenonT(60) DEF Device!Next, Device!Succeed
    <2>4. CASE pc = "wbsy"
      <3>1. dev.left = 0 /\ call.op = "write" /\ UNCHANGED held
        BY <2>1, <2>2, <2>4, SMTT(60) DEF Settled, Progress, WaitEnds, Met, Storing
      <3> QED BY <2>1, <2>2, <2>4, <3>1, SMTT(60) DEF Device!Next, Device!Succeed
    <2>5. CASE pc = "fbsy"
      <3>1. call.op = "flush" /\ held' = [l \in 0 .. Capacity - 1 |-> {media[l]}]
        BY <2>1, <2>2, <2>5 DEF Progress, Sectors
      <3> QED BY <2>1, <2>2, <2>5, <3>1, ZenonT(60) DEF Device!Next, Device!Succeed
    <2> QED BY <2>1, <2>3, <2>4, <2>5, ZenonT(60)
  <1>13. CASE DriveOffers
    <2>1. dev'.left = dev.left
      BY <1>13, SetPhase, ZenonT(60) DEF DriveOffers, Phases
    <2> QED BY <1>13, <2>1 DEF DriveOffers, Device!vars, InCall
  <1>14. CASE DriveStores
    <2>1. /\ BSY /\ dev.hold # <<>> /\ dev' = Advance
          /\ media' = [media EXCEPT ![dev.lba] = dev.hold[1]]
          /\ held' = [held EXCEPT ![dev.lba] = @ \cup {dev.hold[1]}]
          /\ UNCHANGED <<call, pc, buf, sector>>
      BY <1>14, ZenonT(60) DEF DriveStores
    <2>2. InCall /\ pc # "start" /\ call.clean
      BY <1>c, <2>1, ZenonT(60) DEF InCall
    <2>3. ~Idle /\ ~ERR
      BY <2>1, ZenonT(60) DEF Idle, ERR, BSY
    <2>4. pc = "wbsy" /\ Storing
      BY <2>1, <2>2, <2>3, ZenonT(60) DEF Settled, InCall, Pcs, Working
    <2>5. sector \in 1 .. call.count /\ call.op = "write"
      BY <2>4, ZenonT(60) DEF Progress
    <2>6. /\ dev.left = call.count - (sector - 1) /\ dev.lba = call.lba + (sector - 1)
          /\ dev.lba \in Sectors /\ dev.hold[1] = call.data[sector]
      BY <2>4, SMTT(60) DEF Storing
    <2>7. dev'.left = dev.left - 1
      BY <2>1, AdvanceIs, SMTT(60)
    <2>8. call.count - dev.left = sector - 1 /\ call'.count - dev'.left = sector
      BY <2>1, <2>5, <2>6, <2>7, SMTT(60)
    <2>9. call.lba + (sector - 1) < Capacity
      <3>1. Capacity \in Nat
        BY AtaAssumption, ZenonT(60)
      <3> QED BY <2>6, <3>1 DEF Sectors
    <2>10. (sector - 1) + 1 = sector /\ sector - 1 < call.count
      BY <2>5, SMTT(60)
    <2>11. /\ media' = [media EXCEPT ![call.lba + (sector - 1)] = call.data[(sector - 1) + 1]]
           /\ held' = [held EXCEPT ![call.lba + (sector - 1)] =
                         @ \cup {call.data[(sector - 1) + 1]}]
      BY <2>1, <2>6, <2>10, SMTT(60)
    <2>12. Device!Move
      BY <2>1, <2>4, <2>5, <2>8, <2>9, <2>10, <2>11, ZenonT(60) DEF Device!Move, InCall
    <2> QED BY <2>12, ZenonT(60) DEF Device!Next
  <1>15. CASE DriveFlushes
    <2>1. /\ BSY /\ dev.op = "flush" /\ UNCHANGED <<media, held, call, pc, buf>>
      BY <1>15, ZenonT(60) DEF DriveFlushes
    <2>2. ~Idle /\ ~ERR
      BY <2>1, ZenonT(60) DEF Idle, ERR, BSY
    <2>3. pc \notin {"wdrq", "wbsy"}
      BY <1>c, <2>1, <2>2 DEF Settled, InCall, Working, Storing
    <2> QED BY <2>1, <2>3, ZenonT(60) DEF Device!vars, InCall
  <1>16. CASE DriveFails
    <2>1. dev'.left = dev.left
      BY <1>16, FailedIs, ZenonT(60) DEF DriveFails
    <2> QED BY <1>16, <2>1 DEF DriveFails, Device!vars, InCall
  <1>17. CASE Destage BY <1>17, ZenonT(60) DEF Device!vars, InCall, Destage
  <1>18. CASE PowerLoss
    <2>1. media' = platter /\ pc' = "off" /\ UNCHANGED held
      BY <1>18, ZenonT(60) DEF PowerLoss
    <2> QED BY <2>1, ZenonT(60) DEF Held, Sectors, InCall, Device!Next, Device!PowerLoss
  <1>19. CASE Calls
    <2>1. ASSUME NEW op \in {"read", "write", "flush"}, NEW l, NEW n, NEW d, Begin(op, l, n, d)
          PROVE  Device!Next
      <3>1. /\ pc = "done" /\ pc' = "start" /\ call'.op = op /\ buf = <<>>
            /\ UNCHANGED <<media, held, buf>>
        BY <2>1, ZenonT(60) DEF Begin, Progress
      <3> QED BY <3>1, ZenonT(60) DEF Device!Next, Device!Call, InCall
    <2> QED BY <1>19, <2>1, ZenonT(60) DEF Calls
  <1>20. CASE UNCHANGED vars BY <1>20 DEF Device!vars, InCall, vars
  <1> QED BY <1>1, <1>2, <1>3, <1>4, <1>5, <1>6, <1>7, <1>8, <1>9, <1>10, <1>11, <1>12,
             <1>13, <1>14, <1>15, <1>16, <1>17, <1>18, <1>19, <1>20, ZenonT(60)
          DEF Next, Driver, Drive

\* As long as no call that gave up has left the drive at work, the driver with its
\* drive does what a block device promises the file system: it moves the sectors
\* that a call names, in order and none else, and answers 0 only when it is done.
THEOREM DriverIsABlockDevice == Spec => ImplementsBlockDevice
  <1>1. Init => Device!Init
    BY DEF Init, Device!Init, InCall, Sectors
  <1>2. IInv /\ IInv' /\ [Next]_vars
          => [Unsettled \/ Unsettled' \/ Device!Next]_Device!vars
    BY RefinementStep
  <1> QED BY IInvHolds, <1>1, <1>2, PTL DEF Spec, ImplementsBlockDevice

=============================================================================
