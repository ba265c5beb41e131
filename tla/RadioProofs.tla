----------------------------- MODULE RadioProofs ------------------------------
(***************************************************************************)
(* For a firmware of any size, sent in chunks of any size, and any number  *)
(* of failures: a firmware that is started is whole, a constructor that    *)
(* returns without a failure has set everything up, and nothing is written *)
(* under a running firmware that the driver could have noticed.            *)
(***************************************************************************)
EXTENDS Radio, TLAPS

Uploading == {"address", "length", "send", "pollChunk"}

(* What the dongle may be busy with, failures or not: an attempt begins on *)
(* one that is not busy, and a reset is awaited.                           *)
Quiet ==
    /\ pc \in {"file", "probe", "reset", "dma"} => pending = "none"
    /\ pc = "pollReset" => pending \in {"none", "reset"}
    /\ pending = "reset" => pc \in {"pollReset", "thrown"} /\ dmaAddr # ResetDone
    /\ pending = "start" => pc \in {"pollStart", "setup", "ready", "thrown"}

(* What the register tells about the firmware: a running one, unless a     *)
(* failed read hid it, shows in it until it has been reset.                *)
Noticed ==
    /\ pc \in Uploading \cup {"dma", "clear", "start"} => ~running \/ blind
    /\ running /\ ~blind => dmaAddr # Zero
    /\ dmaAddr = ResetDone => ~running

(* An attempt without a failure: registers, dongle and memory agree with   *)
(* how far loadFirmwarePart is.                                            *)
Position == Offset(part) + chunk
LoadedTo(end) == \A a \in Addresses : a < end /\ Image[a] # Nothing => memory[a] = Image[a]

Chunks ==
    /\ pc \in {"address", "length", "send", "clear", "start"} => pending = "none"
    /\ pc \in {"length", "send", "pollChunk"} => dmaAddr = Position
    /\ pc \in {"send", "pollChunk"} => dmaLen = Length
    /\ pc = "send" => ~complete
    /\ pc = "pollChunk" => pending = IF complete THEN "none" ELSE "copy"
    /\ pc \in Uploading => LoadedTo(Position)
    /\ pc = "pollChunk" /\ complete => LoadedTo(Position + Length)
    /\ pc \in {"clear", "start", "pollStart", "setup", "ready"} => Whole

(* The set-up runs in the firmware that was started, step by step.         *)
Before(n) == {Setup[i].name : i \in 1..(n - 1)}

SettingUp ==
    /\ pc = "start" => dmaAddr = Zero
    /\ pc = "pollStart" => \/ pending = "start" /\ dmaAddr = Zero
                           \/ pending = "none" /\ dmaAddr = Started /\ running /\ config = {}
    /\ pc \in {"setup", "ready"} => pending = "none" /\ running
    /\ pc = "setup" => config = Before(setup)
    /\ pc = "ready" => config = Steps

Clean == ~lost => Chunks /\ SettingUp

IInv == TypeOK /\ Quiet /\ Noticed /\ Clean

-----------------------------------------------------------------------------
(* The layout of the firmware. Every byte of a part has its place in the   *)
(* image, and the image has nothing else.                                  *)
LEMMA BytePlace ==
  ASSUME NEW p \in Parts, NEW i \in 0..(PartLength(p) - 1)
  PROVE  Offset(p) + i \in Addresses /\ Image[Offset(p) + i] = <<p, i>>
<1>1. Offset(p) + i \in Addresses
  BY FirmwareLayout DEF Parts, PartLength, Offset, Addresses
<1>2. CASE p = "ilm"
  BY <1>1, <1>2, FirmwareLayout DEF PartLength, Offset, Image
<1>3. CASE p = "dlm"
  BY <1>1, <1>3, FirmwareLayout DEF PartLength, Offset, Image
<1> QED
  BY <1>1, <1>2, <1>3 DEF Parts

(* Between the parts there is nothing, and nothing after the second.       *)
LEMMA PartsFill ==
  ASSUME NEW a \in Addresses, Image[a] # Nothing
  PROVE  \/ a >= IlmOffset /\ a < IlmOffset + IlmLength
         \/ a >= DlmOffset /\ a < DlmOffset + DlmLength
  BY FirmwareLayout DEF Addresses, Image

(* A chunk is not empty, lies within its part, and ends it unless it is as *)
(* long as a chunk may be.                                                 *)
LEMMA ChunkFits ==
  ASSUME TypeOK
  PROVE  /\ Length \in 1..ChunkSize
         /\ chunk + Length <= PartLength(part)
         /\ chunk + ChunkSize < PartLength(part) => Length = ChunkSize
         /\ chunk + ChunkSize >= PartLength(part) => chunk + Length = PartLength(part)
         /\ Position \in Addresses
         /\ PartLength(part) \in Nat \ {0} /\ chunk \in Nat /\ Offset(part) \in Nat
<1>1. PartLength(part) \in Nat \ {0} /\ Offset(part) \in Nat
  BY FirmwareLayout DEF TypeOK, Parts, PartLength, Offset
<1>2. chunk \in Nat /\ chunk < PartLength(part)
  BY <1>1 DEF TypeOK
<1>3. Position \in Addresses
  BY BytePlace DEF TypeOK, Position
<1> QED
  BY <1>1, <1>2, <1>3, FirmwareLayout DEF Length

(* The register's special values are no address that anything is sent to.  *)
LEMMA AddressesApart == Zero \notin Addresses /\ Started \notin Addresses /\ ResetDone \notin Addresses
  BY FirmwareLayout DEF Addresses, Zero, Started, ResetDone

(* The last chunk of the first part leads to the second part, the last     *)
(* chunk of that one to a whole firmware.                                  *)
LEMMA PartsDone ==
  /\ LoadedTo(IlmOffset + IlmLength) => LoadedTo(DlmOffset)
  /\ LoadedTo(DlmOffset + DlmLength) => Whole
<1>1. \A a \in Addresses : Image[a] # Nothing /\ a < DlmOffset => a < IlmOffset + IlmLength
  BY PartsFill, FirmwareLayout DEF Addresses
<1>2. \A a \in Addresses : a < DlmOffset + DlmLength
  BY FirmwareLayout DEF Addresses
<1> QED
  BY <1>1, <1>2 DEF LoadedTo, Whole

(* The steps of the set-up.                                                *)
LEMMA SetupSteps ==
  /\ Len(Setup) \in Nat \ {0} /\ DOMAIN Setup = 1..Len(Setup)
  /\ Before(1) = {}
  /\ \A n \in DOMAIN Setup :
        /\ Setup[n].name \in Steps /\ Before(n) \subseteq Steps
        /\ n < Len(Setup) => Before(n + 1) = Before(n) \cup {Setup[n].name}
        /\ n = Len(Setup) => Steps = Before(n) \cup {Setup[n].name}
<1>1. Len(Setup) \in Nat \ {0} /\ DOMAIN Setup = 1..Len(Setup)
  BY DEF Setup
<1>2. Before(1) = {}
  BY DEF Before
<1>3. ASSUME NEW n \in DOMAIN Setup
      PROVE  /\ Setup[n].name \in Steps /\ Before(n) \subseteq Steps
             /\ n < Len(Setup) => Before(n + 1) = Before(n) \cup {Setup[n].name}
             /\ n = Len(Setup) => Steps = Before(n) \cup {Setup[n].name}
  <2>1. n \in Nat /\ 1..(n - 1) \subseteq DOMAIN Setup /\ 1..n = 1..(n - 1) \cup {n} /\ n + 1 - 1 = n
    BY <1>1
  <2>2. Setup[n].name \in Steps /\ Before(n) \subseteq Steps
    BY <2>1 DEF Steps, Before
  <2>3. Before(n + 1) = Before(n) \cup {Setup[n].name}
    BY <2>1 DEF Before
  <2>4. n = Len(Setup) => Steps = Before(n + 1)
    BY <1>1, <2>1 DEF Steps, Before
  <2> QED
    BY <2>2, <2>3, <2>4
<1> QED
  BY <1>1, <1>2, <1>3

-----------------------------------------------------------------------------
(* A dongle that was just plugged in, at the first attempt.                *)
LEMMA InitInv == Init => IInv
<1> SUFFICES ASSUME Init PROVE IInv
  OBVIOUS
<1>1. TypeOK
  <2>1. chunk \in 0..(PartLength(part) - 1) /\ dmaLen \in 0..ChunkSize /\ failures \in 0..MaxFailures
    BY FirmwareLayout DEF Init, PartLength
  <2>2. lost \in BOOLEAN /\ complete \in BOOLEAN /\ running \in BOOLEAN /\ blind \in BOOLEAN
    BY DEF Init
  <2>3. setup \in DOMAIN Setup
    BY SetupSteps DEF Init
  <2> QED
    BY <2>1, <2>2, <2>3 DEF Init, TypeOK, PC, Parts
<1>2. Quiet /\ Noticed /\ Clean
  BY FirmwareLayout DEF Init, Quiet, Noticed, Clean, Chunks, SettingUp, Uploading, Zero, ResetDone
<1> QED
  BY <1>1, <1>2 DEF IInv

(* Transfers, steps and the worker's watch have their types.               *)
LEMMA ReportedType ==
  ASSUME TypeOK, NEW o \in Outcomes, Reported(o)
  PROVE  /\ lost' \in BOOLEAN /\ failures' \in 0..MaxFailures
         /\ ~lost' => ~lost /\ o = "ok"
<1>1. lost \in BOOLEAN /\ lost' = (lost \/ o # "ok")
  BY DEF TypeOK, Reported
<1>2. failures' \in 0..MaxFailures
  BY FirmwareLayout DEF TypeOK, Reported
<1> QED
  BY <1>1, <1>2

DrvOK == pc \in PC /\ part \in Parts /\ chunk \in 0..(PartLength(part) - 1) /\ setup \in DOMAIN Setup
RegsOK ==
    /\ dmaAddr \in Addresses \cup {Zero, Started, ResetDone}
    /\ dmaLen \in 0..ChunkSize /\ complete \in BOOLEAN
ChipOK ==
    /\ pending \in {"none", "reset", "copy", "start"}
    /\ memory \in [Addresses -> {Nothing} \cup {Image[a] : a \in Addresses}]
    /\ running \in BOOLEAN /\ blind \in BOOLEAN /\ config \subseteq Steps
WatchOK == lost \in BOOLEAN /\ failures \in 0..MaxFailures

(* The type invariant in four parts.                                       *)
LEMMA TypeParts ==
  /\ TypeOK <=> DrvOK /\ RegsOK /\ ChipOK /\ WatchOK
  /\ TypeOK' <=> DrvOK' /\ RegsOK' /\ ChipOK' /\ WatchOK'
  BY DEF TypeOK, DrvOK, RegsOK, ChipOK, WatchOK

(* The driver's moves have their types.                                    *)
LEMMA MoveType ==
  ASSUME DrvOK
  PROVE  /\ \A step \in PC : Goto(step) => DrvOK'
         /\ UNCHANGED drv => DrvOK'
         /\ NextChunk => DrvOK'
         /\ Restart => DrvOK'
         /\ Proceed => DrvOK'
         /\ pc' \in PC /\ setup' = 1 /\ UNCHANGED <<part, chunk>> => DrvOK'
         /\ pc' \in PC /\ part' = "ilm" /\ chunk' = 0 /\ UNCHANGED setup => DrvOK'
<1> USE SetupSteps, FirmwareLayout
<1>1. \A step \in PC : Goto(step) => DrvOK'
  BY DEF DrvOK, Goto
<1>2. UNCHANGED drv => DrvOK'
  BY DEF DrvOK, drv
<1>3. ASSUME NextChunk PROVE DrvOK'
  <2>1. CASE chunk + ChunkSize < PartLength(part)
    BY <1>3, <2>1 DEF DrvOK, NextChunk, PC, PartLength
  <2>2. CASE ~(chunk + ChunkSize < PartLength(part)) /\ part = "ilm"
    BY <1>3, <2>2 DEF DrvOK, NextChunk, PC, PartLength, Parts
  <2>3. CASE ~(chunk + ChunkSize < PartLength(part)) /\ part # "ilm"
    BY <1>1, <1>3, <2>3 DEF NextChunk, PC
  <2> QED
    BY <2>1, <2>2, <2>3
<1>4. Restart => DrvOK'
  BY DEF DrvOK, Restart, PC, Parts, PartLength
<1>5. Proceed => DrvOK'
  BY DEF DrvOK, Proceed, Goto, PC
<1>6. pc' \in PC /\ setup' = 1 /\ UNCHANGED <<part, chunk>> => DrvOK'
  BY DEF DrvOK
<1>7. pc' \in PC /\ part' = "ilm" /\ chunk' = 0 /\ UNCHANGED setup => DrvOK'
  BY DEF DrvOK, Parts, PartLength
<1> QED
  BY <1>1, <1>2, <1>3, <1>4, <1>5, <1>6, <1>7

(* What the dongle copies are bytes of the image.                          *)
LEMMA CopyType ==
  ASSUME TypeOK, HwCopy
  PROVE  memory' \in [Addresses -> {Nothing} \cup {Image[a] : a \in Addresses}]
<1>1. ASSUME NEW a \in Addresses, a \in dmaAddr..(dmaAddr + dmaLen - 1),
             chunk + a - dmaAddr < PartLength(part)
      PROVE  <<part, chunk + a - dmaAddr>> \in {Image[b] : b \in Addresses}
  <2>1. dmaAddr \in Int /\ a \in Int /\ a >= dmaAddr /\ chunk \in Nat
    BY <1>1, FirmwareLayout, ChunkFits DEF TypeOK, Addresses, Zero, Started, ResetDone
  <2>2. part \in Parts /\ PartLength(part) \in Nat
    BY ChunkFits DEF TypeOK
  <2>3. chunk + a - dmaAddr \in 0..(PartLength(part) - 1)
    BY <1>1, <2>1, <2>2
  <2> QED
    BY <2>2, <2>3, BytePlace
<1> QED
  BY <1>1 DEF HwCopy, TypeOK

(* Every step keeps the types.                                             *)
LEMMA TypeNext == TypeOK /\ [Next]_vars => TypeOK'
<1> SUFFICES ASSUME TypeOK, [Next]_vars PROVE TypeOK'
  OBVIOUS
<1> USE TypeParts, ReportedType DEF regs, chip
<1>0. /\ {"file", "probe", "reset", "pollReset", "dma", "address", "length", "send",
          "pollChunk", "clear", "start", "pollStart", "setup", "ready", "thrown"} \subseteq PC
      /\ Reads \subseteq Outcomes
  BY DEF PC, Reads, Outcomes
<1>1. CASE OpenFile
  BY <1>0, <1>1, MoveType DEF OpenFile, RegsOK, ChipOK, WatchOK
<1>2. CASE FileUnreadable \/ EfuseTimeout
  <2>1. failures' \in 0..MaxFailures
    BY <1>2, FirmwareLayout DEF FileUnreadable, EfuseTimeout, TypeOK
  <2> QED
    BY <1>0, <1>2, <2>1, MoveType DEF FileUnreadable, EfuseTimeout, Throw, RegsOK, ChipOK, WatchOK
<1>3. CASE Probe
  <2>1. blind' \in BOOLEAN
    BY <1>3 DEF Probe, TypeOK
  <2> QED
    BY <1>0, <1>3, <2>1, MoveType DEF Probe, RegsOK, ChipOK, WatchOK
<1>4. CASE RequestReset
  BY <1>0, <1>4, MoveType DEF RequestReset, RegsOK, ChipOK, WatchOK
<1>5. CASE PollReset
  BY <1>0, <1>5, MoveType DEF PollReset, Poll, RegsOK, ChipOK, WatchOK
<1>6. CASE ConfigureDma
  BY <1>0, <1>6, MoveType DEF ConfigureDma, RegsOK, ChipOK, WatchOK
<1>7. CASE WriteAddress
  <2>1. Offset(part) + chunk \in Addresses
    BY ChunkFits DEF Position
  <2> QED
    BY <1>0, <1>7, <2>1, MoveType DEF WriteAddress, RegsOK, ChipOK, WatchOK
<1>8. CASE WriteLength
  <2>1. Length \in 0..ChunkSize
    BY ChunkFits, FirmwareLayout
  <2> QED
    BY <1>0, <1>8, <2>1, MoveType DEF WriteLength, RegsOK, ChipOK, WatchOK
<1>9. CASE SendChunk
  BY <1>0, <1>9, MoveType DEF SendChunk, RegsOK, ChipOK, WatchOK
<1>10. CASE PollChunk
  BY <1>0, <1>10, MoveType DEF PollChunk, Poll, RegsOK, ChipOK, WatchOK
<1>11. CASE ClearAddress
  BY <1>0, <1>11, MoveType DEF ClearAddress, RegsOK, ChipOK, WatchOK
<1>12. CASE LoadIvb
  BY <1>0, <1>12, MoveType DEF LoadIvb, RegsOK, ChipOK, WatchOK
<1>13. CASE PollStart
  BY <1>0, <1>13, MoveType DEF PollStart, Poll, RegsOK, ChipOK, WatchOK
<1>14. CASE PollTimeout
  <2>1. failures' \in 0..MaxFailures
    BY <1>14, FirmwareLayout DEF PollTimeout, TypeOK
  <2> QED
    BY <1>0, <1>14, <2>1, MoveType DEF PollTimeout, Throw, RegsOK, ChipOK, WatchOK
<1>15. CASE SendCommand \/ AccessRegisters \/ ConfigureChannel
  <2>1. PICK o \in Outcomes : Reported(o) /\ Carry(o)
    BY <1>15 DEF SendCommand, AccessRegisters, ConfigureChannel
  <2>2. config' \subseteq Steps
    BY <2>1, SetupSteps DEF Carry, Current, TypeOK
  <2>3. (Proceed \/ Goto("thrown")) /\ UNCHANGED <<regs, pending, memory, chip>>
    BY <1>15 DEF SendCommand, AccessRegisters, ConfigureChannel, Throw
  <2> QED
    BY <1>0, <2>1, <2>2, <2>3, MoveType DEF RegsOK, ChipOK, WatchOK
<1>16. CASE Retry
  <2>1. failures' \in 0..MaxFailures
    BY <1>16, FirmwareLayout DEF Retry, TypeOK
  <2> QED
    BY <1>0, <1>16, <2>1, MoveType DEF Retry, Restart, RegsOK, ChipOK, WatchOK
<1>17. CASE PowerCycle
  <2>1. failures' \in 0..MaxFailures /\ 0 \in 0..ChunkSize
    BY <1>17, FirmwareLayout DEF PowerCycle, TypeOK
  <2> QED
    BY <1>0, <1>17, <2>1, MoveType DEF PowerCycle, Restart, RegsOK, ChipOK, WatchOK
<1>18. CASE HwReset \/ HwStart \/ HwStartFails
  BY <1>0, <1>18, MoveType DEF HwReset, HwStart, HwStartFails, RegsOK, ChipOK, WatchOK
<1>19. CASE HwCopy
  BY <1>0, <1>19, MoveType, CopyType DEF HwCopy, RegsOK, ChipOK, WatchOK
<1>20. CASE UNCHANGED vars
  BY <1>20, MoveType DEF vars, RegsOK, ChipOK, WatchOK
<1> QED
  BY <1>1, <1>2, <1>3, <1>4, <1>5, <1>6, <1>7, <1>8, <1>9, <1>10, <1>11, <1>12,
     <1>13, <1>14, <1>15, <1>16, <1>17, <1>18, <1>19, <1>20 DEF Next, Driver, Dongle

-----------------------------------------------------------------------------
(* A reset is awaited before anything is written, and a firmware that runs *)
(* shows in the register, whatever transfers fail.                         *)
LEMMA QuietNext == TypeOK /\ Quiet /\ Noticed /\ [Next]_vars => Quiet' /\ Noticed'
<1> SUFFICES ASSUME TypeOK, Quiet, Noticed, [Next]_vars PROVE Quiet' /\ Noticed'
  OBVIOUS
<1> USE DEF Quiet, Noticed, Uploading, Goto, Throw, regs, chip, drv, Reported, Zero, Started, ResetDone
<1>1. CASE OpenFile \/ FileUnreadable \/ EfuseTimeout
  BY <1>1 DEF OpenFile, FileUnreadable, EfuseTimeout
<1>2. CASE Probe
  <2>1. /\ pc = "probe" /\ pc' \in {"reset", "dma"} /\ UNCHANGED <<pending, dmaAddr, running>>
        /\ pc' = "reset" => blind' = blind
        /\ \E o \in Outcomes : pc' = "dma" => ReadDmaAddr(o) = 0 /\ blind' = (running /\ (blind \/ o # "ok"))
    BY <1>2 DEF Probe
  <2>2. pc' = "dma" => (running' => blind')
    BY <2>1 DEF ReadDmaAddr, TypeOK
  <2>3. running' /\ ~blind' => dmaAddr' # Zero
    BY <2>1 DEF ReadDmaAddr, TypeOK
  <2> QED
    BY <2>1, <2>2, <2>3
<1>3. CASE RequestReset
  BY <1>3 DEF RequestReset
<1>4. CASE PollReset
  <2>1. /\ pc = "pollReset" /\ UNCHANGED <<pending, dmaAddr, running, blind>>
        /\ \/ pc' = "dma" /\ \E o \in Reads : ResetAwaited(ReadDmaAddr(o))
           \/ pc' = pc
    BY <1>4 DEF PollReset, Poll
  <2>2. pc' = "dma" => dmaAddr = ResetDone
    BY <2>1 DEF ResetAwaited, ReadDmaAddr
  <2> QED
    BY <2>1, <2>2
<1>5. CASE ConfigureDma
  BY <1>5 DEF ConfigureDma
<1>6. CASE WriteAddress
  <2>1. Offset(part) + chunk \in Addresses
    BY ChunkFits DEF Position
  <2> QED
    BY <1>6, <2>1, AddressesApart DEF WriteAddress
<1>7. CASE WriteLength \/ SendChunk
  BY <1>7 DEF WriteLength, SendChunk
<1>8. CASE PollChunk
  BY <1>8 DEF PollChunk, Poll, NextChunk
<1>9. CASE ClearAddress
  BY <1>9 DEF ClearAddress
<1>10. CASE LoadIvb
  BY <1>10 DEF LoadIvb
<1>11. CASE PollStart
  BY <1>11 DEF PollStart, Poll
<1>12. CASE PollTimeout
  BY <1>12 DEF PollTimeout
<1>13. CASE SendCommand \/ AccessRegisters \/ ConfigureChannel
  BY <1>13 DEF SendCommand, AccessRegisters, ConfigureChannel, Proceed
<1>14. CASE Retry \/ PowerCycle
  BY <1>14 DEF Retry, PowerCycle, Restart
<1>15. CASE HwReset
  BY <1>15 DEF HwReset
<1>16. CASE HwCopy
  BY <1>16 DEF HwCopy
<1>17. CASE HwStart \/ HwStartFails
  BY <1>17 DEF HwStart, HwStartFails
<1>18. CASE UNCHANGED vars
  BY <1>18 DEF vars
<1> QED
  BY <1>1, <1>2, <1>3, <1>4, <1>5, <1>6, <1>7, <1>8, <1>9, <1>10, <1>11, <1>12,
     <1>13, <1>14, <1>15, <1>16, <1>17, <1>18 DEF Next, Driver, Dongle

-----------------------------------------------------------------------------
(* A chunk that was copied extends what is loaded.                         *)
LEMMA CopyLoads ==
  ASSUME TypeOK, HwCopy, dmaAddr = Position, dmaLen = Length, LoadedTo(Position)
  PROVE  LoadedTo(Position)' /\ LoadedTo(Position + Length)'
<1>1. UNCHANGED <<Position, Length>>
  BY DEF HwCopy, drv, Position, Offset, Length, PartLength
<1>2. ASSUME NEW a \in Addresses, a < Position + Length, Image[a] # Nothing
      PROVE  memory'[a] = Image[a]
  <2>0. /\ a \in Int /\ Position \in Int /\ Length \in Nat /\ part \in Parts
        /\ Offset(part) \in Nat /\ chunk \in Nat /\ PartLength(part) \in Nat
        /\ chunk + Length <= PartLength(part)
    BY ChunkFits, FirmwareLayout DEF TypeOK, Addresses
  <2>1. CASE a < Position
    <3>1. a \notin dmaAddr..(dmaAddr + dmaLen - 1)
      BY <2>0, <2>1
    <3> QED
      BY <2>1, <3>1, <1>2 DEF HwCopy, LoadedTo
  <2>2. CASE a >= Position
    <3> DEFINE i == chunk + a - dmaAddr
    <3>1. a \in dmaAddr..(dmaAddr + dmaLen - 1) /\ i < PartLength(part)
      BY <1>2, <2>0, <2>2
    <3>2. i \in 0..(PartLength(part) - 1) /\ Offset(part) + i = a
      BY <2>0, <2>2, <3>1 DEF Position
    <3>3. Image[a] = <<part, i>>
      BY <2>0, <3>2, BytePlace
    <3> QED
      BY <3>1, <3>3 DEF HwCopy
  <2> QED
    BY <2>0, <2>1, <2>2
<1>3. Position \in Int /\ Length \in Nat /\ Addresses \subseteq Int
  BY ChunkFits, FirmwareLayout DEF Addresses
<1>4. \A a \in Addresses : a < Position => a < Position + Length
  BY <1>3
<1> QED
  BY <1>1, <1>2, <1>4 DEF LoadedTo

(* The step after a chunk: the next one of the part, the other part, or    *)
(* the end of the upload, with everything before it loaded.                *)
LEMMA NextLoads ==
  ASSUME TypeOK, NextChunk, UNCHANGED memory, LoadedTo(Position + Length)
  PROVE  pc' \in {"address", "clear"} /\ (pc' = "address" => LoadedTo(Position)')
                                      /\ (pc' = "clear" => Whole')
<1> USE ChunkFits, FirmwareLayout
<1>1. CASE chunk + ChunkSize < PartLength(part)
  <2>1. pc' = "address" /\ Position' = Position + Length
    BY <1>1 DEF NextChunk, Position, Offset
  <2> QED
    BY <2>1 DEF LoadedTo
<1>2. CASE chunk + ChunkSize >= PartLength(part) /\ part = "ilm"
  <2>1. pc' = "address" /\ Position' = DlmOffset
    BY <1>2 DEF NextChunk, Position, Offset, PartLength
  <2>2. Position + Length = IlmOffset + IlmLength
    BY <1>2 DEF Position, Offset, PartLength
  <2> QED
    BY <2>1, <2>2, PartsDone DEF LoadedTo
<1>3. CASE chunk + ChunkSize >= PartLength(part) /\ part # "ilm"
  <2>1. pc' = "clear"
    BY <1>3 DEF NextChunk, Goto, PartLength
  <2>2. Position + Length = DlmOffset + DlmLength
    BY <1>3 DEF Position, Offset, PartLength
  <2> QED
    BY <2>1, <2>2, PartsDone DEF Whole
<1>4. chunk + ChunkSize < PartLength(part) \/ chunk + ChunkSize >= PartLength(part)
  BY DEF TypeOK
<1> QED
  BY <1>1, <1>2, <1>3, <1>4

(* The set-up does its steps one by one.                                   *)
LEMMA StepDone ==
  ASSUME TypeOK, pc = "setup", config = Before(setup), Proceed,
         config' = config \cup {Current.name}
  PROVE  /\ pc' \in {"setup", "ready"}
         /\ pc' = "setup" => config' = Before(setup)'
         /\ pc' = "ready" => config' = Steps
<1>1. setup \in DOMAIN Setup /\ setup \in Nat /\ setup <= Len(Setup)
  BY SetupSteps DEF TypeOK
<1>2. CASE setup = Len(Setup)
  BY <1>1, <1>2, SetupSteps DEF Proceed, Goto, Current
<1>3. CASE setup # Len(Setup)
  <2>1. setup < Len(Setup) /\ pc' = "setup" /\ setup' = setup + 1
    BY <1>1, <1>3, SetupSteps DEF Proceed
  <2>2. config' = Before(setup + 1)
    BY <1>1, <2>1, SetupSteps DEF Current
  <2>3. Before(setup)' = Before(setup + 1)
    BY <2>1 DEF Before
  <2> QED
    BY <2>1, <2>2, <2>3
<1> QED
  BY <1>2, <1>3

(* An attempt without a failure keeps the registers, the dongle and its    *)
(* memory in agreement with its progress.                                  *)
LEMMA CleanNext == IInv /\ [Next]_vars => Clean'
<1> SUFFICES ASSUME IInv, [Next]_vars, ~lost' PROVE Chunks' /\ SettingUp'
  BY DEF Clean
<1>0. TypeOK /\ Quiet /\ Clean
  BY DEF IInv
<1> USE DEF Chunks, SettingUp, Uploading, Goto, Throw, regs, chip, drv
<1>1. CASE OpenFile \/ FileUnreadable \/ EfuseTimeout \/ PollTimeout
  BY <1>1 DEF OpenFile, FileUnreadable, EfuseTimeout, PollTimeout
<1>2. CASE Probe \/ RequestReset
  BY <1>2 DEF Probe, RequestReset
<1>3. CASE PollReset
  BY <1>3 DEF PollReset, Poll
<1>4. CASE Retry \/ PowerCycle
  BY <1>4 DEF Retry, PowerCycle, Restart
<1>5. CASE ConfigureDma
  <2>1. pc' = "address" /\ pending' = "none" /\ Position' = IlmOffset
    BY <1>0, <1>5, FirmwareLayout DEF ConfigureDma, Quiet, Position, Offset
  <2>2. LoadedTo(Position)'
    BY <2>1, FirmwareLayout DEF LoadedTo, Addresses
  <2> QED
    BY <2>1, <2>2
<1>6. CASE WriteAddress
  <2>1. \E o \in Outcomes :
           /\ pc = "address" /\ Reported(o) /\ pc' = "length"
           /\ dmaAddr' = IF Reached(o) THEN Offset(part) + chunk ELSE dmaAddr
    BY <1>6 DEF WriteAddress
  <2>2. UNCHANGED <<part, chunk, pending, memory>>
    BY <1>6 DEF WriteAddress
  <2>3. pc = "address" /\ pc' = "length" /\ ~lost /\ dmaAddr' = Position
    BY <1>0, <2>1, ReportedType DEF Position, Reached
  <2>4. Position' = Position
    BY <2>2 DEF Position, Offset
  <2> QED
    BY <1>0, <2>2, <2>3, <2>4 DEF Clean, LoadedTo
<1>7. CASE WriteLength
  <2>1. \E o \in Outcomes :
           /\ pc = "length" /\ Reported(o) /\ pc' = "send"
           /\ Reached(o) => dmaLen' = Length /\ complete' = FALSE
    BY <1>7 DEF WriteLength
  <2>2. UNCHANGED <<part, chunk, dmaAddr, pending, memory>>
    BY <1>7 DEF WriteLength
  <2>3. pc = "length" /\ pc' = "send" /\ ~lost /\ dmaLen' = Length /\ ~complete'
    BY <1>0, <2>1, ReportedType DEF Reached
  <2>4. Position' = Position /\ Length' = Length
    BY <2>2 DEF Position, Offset, Length, PartLength
  <2> QED
    BY <1>0, <2>2, <2>3, <2>4 DEF Clean, LoadedTo
<1>8. CASE SendChunk
  <2>1. \E o \in Outcomes :
           /\ pc = "send" /\ Reported(o) /\ pc' = IF o = "ok" THEN "pollChunk" ELSE "thrown"
           /\ pending' = IF Reached(o) THEN "copy" ELSE pending
    BY <1>8 DEF SendChunk
  <2>2. UNCHANGED <<part, chunk, dmaAddr, dmaLen, complete, memory>>
    BY <1>8 DEF SendChunk
  <2>3. pc = "send" /\ pc' = "pollChunk" /\ ~lost /\ pending' = "copy"
    BY <1>0, <2>1, ReportedType DEF Reached
  <2>4. Position' = Position /\ Length' = Length
    BY <2>2 DEF Position, Offset, Length, PartLength
  <2> QED
    BY <1>0, <2>2, <2>3, <2>4 DEF Clean, LoadedTo
<1>9. CASE PollChunk
  <2>1. \E o \in Reads :
           /\ pc = "pollChunk" /\ Reported(o)
           /\ IF ChunkAwaited(o) THEN NextChunk ELSE o # "ok"
    BY <1>9 DEF PollChunk, Poll
  <2>2. UNCHANGED <<pending, memory>>
    BY <1>9 DEF PollChunk, Poll
  <2>3. pc = "pollChunk" /\ ~lost /\ ChunkAwaited("ok") /\ NextChunk
    BY <1>0, <2>1, ReportedType DEF Reads, Outcomes
  <2>4. complete /\ LoadedTo(Position + Length) /\ pending = "none"
    BY <1>0, <2>3 DEF Clean, ChunkAwaited
  <2>5. /\ pc' \in {"address", "clear"}
        /\ pc' = "address" => LoadedTo(Position)'
        /\ pc' = "clear" => Whole'
    BY <1>0, <2>2, <2>3, <2>4, NextLoads
  <2> QED
    BY <2>2, <2>4, <2>5
<1>10. CASE ClearAddress
  <2>1. \E o \in Outcomes :
           /\ pc = "clear" /\ Reported(o) /\ pc' = "start"
           /\ dmaAddr' = IF Reached(o) THEN Zero ELSE dmaAddr
    BY <1>10 DEF ClearAddress
  <2>2. UNCHANGED <<pending, memory>>
    BY <1>10 DEF ClearAddress
  <2>3. pc = "clear" /\ pc' = "start" /\ ~lost /\ dmaAddr' = Zero
    BY <1>0, <2>1, ReportedType DEF Reached
  <2> QED
    BY <1>0, <2>2, <2>3 DEF Clean, Whole
<1>11. CASE LoadIvb
  <2>1. \E o \in Outcomes :
           /\ pc = "start" /\ Reported(o) /\ pc' = "pollStart"
           /\ pending' = IF Reached(o) THEN "start" ELSE pending
    BY <1>11 DEF LoadIvb
  <2>2. UNCHANGED <<dmaAddr, memory>>
    BY <1>11 DEF LoadIvb
  <2>3. pc = "start" /\ pc' = "pollStart" /\ ~lost /\ pending' = "start"
    BY <1>0, <2>1, ReportedType DEF Reached
  <2> QED
    BY <1>0, <2>2, <2>3 DEF Clean, Whole
<1>12. CASE PollStart
  <2>1. \E o \in Reads :
           /\ pc = "pollStart" /\ Reported(o)
           /\ IF ReadDmaAddr(o) = Started THEN pc' = "setup" /\ setup' = 1 ELSE o # "ok"
    BY <1>12 DEF PollStart, Poll
  <2>2. UNCHANGED <<pending, memory, running, config>>
    BY <1>12 DEF PollStart, Poll
  <2>3. pc = "pollStart" /\ ~lost /\ dmaAddr = Started /\ pc' = "setup" /\ setup' = 1
    BY <1>0, <2>1, ReportedType DEF Reads, Outcomes, ReadDmaAddr
  <2>4. pending = "none" /\ running /\ config = {} /\ Whole
    BY <1>0, <2>3 DEF Clean, Zero, Started
  <2>5. Before(setup)' = {}
    BY <2>3, SetupSteps DEF Before
  <2> QED
    BY <2>2, <2>3, <2>4, <2>5 DEF Whole
<1>13. CASE SendCommand \/ AccessRegisters \/ ConfigureChannel
  <2>1. \E o \in Outcomes :
           /\ pc = "setup" /\ Reported(o) /\ Carry(o)
           /\ Proceed \/ o # "ok"
    BY <1>13 DEF SendCommand, AccessRegisters, ConfigureChannel
  <2>2. UNCHANGED <<pending, memory, running>>
    BY <1>13 DEF SendCommand, AccessRegisters, ConfigureChannel
  <2>3. pc = "setup" /\ ~lost /\ Proceed /\ config' = config \cup {Current.name}
    BY <1>0, <2>1, ReportedType DEF Carry, Reached
  <2>4. pending = "none" /\ running /\ config = Before(setup) /\ Whole
    BY <1>0, <2>3 DEF Clean
  <2>5. /\ pc' \in {"setup", "ready"}
        /\ pc' = "setup" => config' = Before(setup)'
        /\ pc' = "ready" => config' = Steps
    BY <1>0, <2>3, <2>4, StepDone
  <2> QED
    BY <2>2, <2>4, <2>5 DEF Whole
<1>14. CASE HwReset
  <2>1. pc \in {"pollReset", "thrown"} /\ pc' = pc
    BY <1>0, <1>14 DEF HwReset, Quiet
  <2> QED
    BY <2>1
<1>15. CASE HwCopy
  <2>1. /\ pending = "copy" /\ pending' = "none" /\ complete'
        /\ UNCHANGED <<pc, part, chunk, setup, lost, dmaAddr, dmaLen, running, config>>
    BY <1>15 DEF HwCopy
  <2>2. ~lost /\ pc \notin {"address", "length", "send", "clear", "start", "pollStart",
                            "setup", "ready"}
    BY <1>0, <2>1 DEF Clean
  <2>3. CASE pc = "pollChunk"
    <3>1. dmaAddr = Position /\ dmaLen = Length /\ LoadedTo(Position)
      BY <1>0, <2>2, <2>3 DEF Clean
    <3>2. LoadedTo(Position)' /\ LoadedTo(Position + Length)'
      BY <1>0, <1>15, <3>1, CopyLoads
    <3>3. Position' = Position /\ Length' = Length
      BY <2>1 DEF Position, Offset, Length, PartLength
    <3> QED
      BY <2>1, <2>3, <3>1, <3>2, <3>3
  <2> QED
    BY <2>1, <2>2, <2>3
<1>16. CASE HwStart \/ HwStartFails
  <2>1. /\ pending = "start" /\ UNCHANGED <<pc, lost, memory>> /\ pending' = "none"
        /\ Whole => dmaAddr' = Started /\ running' /\ config' = {}
    BY <1>16 DEF HwStart, HwStartFails
  <2>2. pc \in {"pollStart", "thrown"}
    BY <1>0, <2>1 DEF Quiet, Clean
  <2>3. pc = "pollStart" => Whole
    BY <1>0, <2>1 DEF Clean
  <2> QED
    BY <2>1, <2>2, <2>3 DEF Whole
<1>17. CASE UNCHANGED vars
  <2>1. UNCHANGED <<Position, Length, Whole, Before(setup)>>
    BY <1>17 DEF vars, Position, Length, Offset, PartLength, Whole, Before
  <2> QED
    BY <1>0, <1>17, <2>1 DEF vars, Clean, LoadedTo
<1> QED
  BY <1>1, <1>2, <1>3, <1>4, <1>5, <1>6, <1>7, <1>8, <1>9, <1>10, <1>11, <1>12,
     <1>13, <1>14, <1>15, <1>16, <1>17 DEF Next, Driver, Dongle

-----------------------------------------------------------------------------
(* The inductive invariant holds in every reachable state.                 *)
THEOREM Invariant == Spec => []IInv
<1>1. Init => IInv
  BY InitInv
<1>2. IInv /\ [Next]_vars => IInv'
  BY TypeNext, QuietNext, CleanNext DEF IInv
<1> QED
  BY <1>1, <1>2, PTL DEF Spec

(* Type correctness: the upload stays within its part, the register holds  *)
(* an address of the firmware or a value that the code tells apart.        *)
THEOREM TypeCorrect == Spec => []TypeOK
<1>1. IInv => TypeOK
  BY DEF IInv
<1> QED
  BY <1>1, Invariant, PTL

(* For every size of the firmware and of the chunks: without a failed      *)
(* transfer the firmware that is started is exactly the image.             *)
THEOREM FirmwareWhole == Spec => []StartedWhole
<1>1. IInv => StartedWhole
  BY DEF IInv, Clean, Chunks, StartedWhole
<1> QED
  BY <1>1, Invariant, PTL

(* A constructor that returns with nothing reported lost has done every    *)
(* step of the set-up in the firmware that it started.                     *)
THEOREM SetUpWhenReady == Spec => []ReadyMeansSetUp
<1>1. IInv => ReadyMeansSetUp
  BY DEF IInv, Clean, SettingUp, ReadyMeansSetUp
<1> QED
  BY <1>1, Invariant, PTL

(* A chunk is sent to the dongle only when no firmware runs, or one that a *)
(* failed read has hidden since it was started.                            *)
THEOREM ResetBeforeUpload == Spec => ResetFirst
<1>1. IInv /\ [Next]_vars => [pending = "none" /\ pending' = "copy" => ~running \/ blind]_vars
  <2> SUFFICES ASSUME IInv, Next, pending = "none", pending' = "copy"
               PROVE  ~running \/ blind
    BY DEF vars
  <2>1. SendChunk
    BY DEF Next, Driver, Dongle, OpenFile, Probe, RequestReset, PollReset, ConfigureDma,
       WriteAddress, WriteLength, PollChunk, ClearAddress, LoadIvb, PollStart, Poll,
       SendCommand, AccessRegisters, ConfigureChannel, Retry, HwReset, HwCopy, HwStart,
       HwStartFails, FileUnreadable, PollTimeout, EfuseTimeout, PowerCycle
  <2> QED
    BY <2>1 DEF SendChunk, IInv, Noticed, Uploading
<1> QED
  BY <1>1, Invariant, PTL DEF Spec, ResetFirst
=============================================================================
