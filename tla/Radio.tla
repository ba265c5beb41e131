------------------------------- MODULE Radio ---------------------------------
(***************************************************************************)
(* mt76.cpp's constructor: loading the firmware and setting the radio up,  *)
(* over a USB connection whose transfers may fail and a chip that may be   *)
(* slow, again and again on a dongle that keeps its power, its memory and  *)
(* its registers between the attempts.                                     *)
(*                                                                         *)
(* A transfer that fails has reached the dongle or not, and has called     *)
(* terminate.  A failed bulk transfer makes the constructor throw; a       *)
(* failed control transfer does not: a read gives 0 and the constructor    *)
(* goes on.  The dongle's side is external: what the code waits for.       *)
(*                                                                         *)
(* Memory is addressed by units of one byte; register values that the code *)
(* tells apart are kept, addresses being none of them.                     *)
(***************************************************************************)
EXTENDS Integers, Sequences

CONSTANTS
    IlmLength, DlmLength,        \* of the two parts of the firmware
    IlmOffset, DlmOffset,        \* where they belong
    ChunkSize,                   \* MT_FW_CHUNK_SIZE
    MaxFailures                  \* bound on failed transfers and slow answers

Zero == 0
Started == 1                     \* the firmware has started
ResetDone == -1                  \* 0x80000000: the firmware has been reset

ASSUME FirmwareLayout ==
    /\ IlmLength \in Nat \ {0} /\ DlmLength \in Nat \ {0} /\ ChunkSize \in Nat \ {0}
    /\ IlmOffset \in Nat \ {Zero, Started} /\ DlmOffset \in Nat
    /\ IlmOffset + IlmLength <= DlmOffset
    /\ MaxFailures \in Nat

Parts == {"ilm", "dlm"}
PartLength(p) == IF p = "ilm" THEN IlmLength ELSE DlmLength
Offset(p) == IF p = "ilm" THEN IlmOffset ELSE DlmOffset
Addresses == IlmOffset..(DlmOffset + DlmLength - 1)
Nothing == <<"none", 0>>
Image == [a \in Addresses |->
            IF a >= DlmOffset THEN <<"dlm", a - DlmOffset>>
            ELSE IF a < IlmOffset + IlmLength THEN <<"ilm", a - IlmOffset>> ELSE Nothing]

VARIABLES
    pc,                          \* the constructor's step
    part, chunk,                 \* loadFirmwarePart: the part, the position in it
    setup,                       \* the step of the set-up after the firmware
    lost,                        \* terminate was called: the worker's watch
    dmaAddr, dmaLen, complete,   \* MT_FCE_DMA_ADDR, _LEN and its DONE bits
    pending,                     \* what the dongle is busy with
    memory, running,             \* its memory; some firmware is running
    blind,                       \* history: a failed read hid the one that is running
    config,                      \* set-up steps it has carried out since it started
    failures

Whole == \A a \in Addresses : Image[a] # Nothing => memory[a] = Image[a]

drv == <<pc, part, chunk, setup>>
regs == <<dmaAddr, dmaLen, complete>>
chip == <<running, blind>>
vars == <<drv, lost, regs, pending, memory, chip, config, failures>>

-----------------------------------------------------------------------------
(* Transfers: reported and done; done but reported as failed; not done.    *)

Outcomes == {"ok", "late", "dropped"}
Reached(o) == o \in {"ok", "late"}

\* Mutant of Reported: a control or bulk transfer that fails is only logged
ReportedLogged(o) ==
    /\ o # "ok" => failures < MaxFailures
    /\ failures' = IF o = "ok" THEN failures ELSE failures + 1
    /\ UNCHANGED lost

Reported(o) ==
    /\ o # "ok" => failures < MaxFailures
    /\ failures' = IF o = "ok" THEN failures ELSE failures + 1
    /\ lost' = (lost \/ o # "ok")

Goto(step) == pc' = step /\ UNCHANGED <<part, chunk, setup>>
Throw == Goto("thrown")

-----------------------------------------------------------------------------
(* The set-up that follows the firmware, in the order of the code: commands *)
(* that throw when they fail, groups of register accesses, reads of the    *)
(* EFUSE, and channels, whose failure is ignored.                          *)

Step(name, kind) == [name |-> name, kind |-> kind]
Setup == <<
    Step("select", "command"), Step("power", "command"), Step("loadCr", "command"),
    Step("registers", "registers"), Step("crystal", "efuse"), Step("trim", "registers"),
    Step("macRead", "efuse"), Step("mac", "command"), Step("bssid", "command"),
    Step("chipId", "efuse"), Step("fwMac", "command"), Step("macReset", "registers"),
    Step("temperature", "command"), Step("rxdcoc", "command"), Step("rc", "command"),
    Step("enable", "registers"), Step("channel", "channel"), Step("channels", "channel"),
    Step("candidates", "command"), Step("beacon", "command"),
    Step("beaconTime", "registers"), Step("beaconCal", "command")>>
Steps == {Setup[i].name : i \in DOMAIN Setup}

PC == {"file", "probe", "reset", "pollReset", "dma", "address", "length", "send",
       "pollChunk", "clear", "start", "pollStart", "setup", "ready", "thrown"}

TypeOK ==
    /\ pc \in PC /\ part \in Parts /\ chunk \in 0..(PartLength(part) - 1)
    /\ setup \in DOMAIN Setup /\ lost \in BOOLEAN
    /\ dmaAddr \in Addresses \cup {Zero, Started, ResetDone}
    /\ dmaLen \in 0..ChunkSize /\ complete \in BOOLEAN
    /\ pending \in {"none", "reset", "copy", "start"}
    /\ memory \in [Addresses -> {Nothing} \cup {Image[a] : a \in Addresses}]
    /\ running \in BOOLEAN /\ blind \in BOOLEAN /\ config \subseteq Steps /\ failures \in 0..MaxFailures

Init ==                          \* a dongle that was just plugged in
    /\ pc = "file" /\ part = "ilm" /\ chunk = 0 /\ setup = 1 /\ lost = FALSE
    /\ dmaAddr = Zero /\ dmaLen = 0 /\ complete = FALSE /\ pending = "none"
    /\ memory = [a \in Addresses |-> Nothing] /\ running = FALSE /\ blind = FALSE
    /\ config = {} /\ failures = 0

-----------------------------------------------------------------------------
(* loadFirmware *)

OpenFile ==
    /\ pc = "file"
    /\ Goto("probe")
    /\ UNCHANGED <<lost, regs, pending, memory, chip, config, failures>>

FileUnreadable ==
    /\ pc = "file" /\ failures < MaxFailures
    /\ Throw
    /\ failures' = failures + 1
    /\ UNCHANGED <<lost, regs, pending, memory, chip, config>>

(* controlRead: 0 when it fails                                            *)
ReadDmaAddr(o) == IF o = "ok" THEN dmaAddr ELSE 0

Probe ==                         \* is a firmware running from an earlier time?
    \E o \in Outcomes :
        /\ pc = "probe" /\ Reported(o)
        /\ IF ReadDmaAddr(o) # 0 THEN Goto("reset") /\ UNCHANGED blind
           ELSE Goto("dma") /\ blind' = (running /\ (blind \/ o # "ok"))
        /\ UNCHANGED <<regs, pending, memory, running, config>>

(* A dongle that has been reset before and not started since has nothing   *)
(* to do: otherwise the poll below could be satisfied by the old value.    *)
RequestReset ==
    \E o \in Outcomes :
        /\ pc = "reset" /\ Reported(o)
        /\ Goto("pollReset")
        /\ pending' = IF Reached(o) /\ dmaAddr # ResetDone THEN "reset" ELSE pending
        /\ UNCHANGED <<regs, memory, chip, config>>

\* Mutant of ResetAwaited: whatever the register holds is good enough
ResetNotAwaited(value) == value # 0

\* Another mutant of ResetAwaited: wait for the register to be as after power-up
ZeroAwaited(value) == value = 0

ResetAwaited(value) == value = ResetDone

(* pollTimeout: a condition that is read until it holds                    *)
Reads == {"ok", "dropped"}

Poll(from, then, awaited) ==
    \E o \in Reads :
        /\ pc = from /\ Reported(o)
        /\ IF awaited[o] THEN then ELSE o # "ok" /\ UNCHANGED drv
        /\ UNCHANGED <<regs, pending, memory, chip, config>>

PollReset == Poll("pollReset", Goto("dma"), [o \in Reads |-> ResetAwaited(ReadDmaAddr(o))])

ConfigureDma ==
    \E o \in Outcomes :
        /\ pc = "dma" /\ Reported(o)
        /\ pc' = "address" /\ part' = "ilm" /\ chunk' = 0 /\ UNCHANGED setup
        /\ UNCHANGED <<regs, pending, memory, chip, config>>

(* loadFirmwarePart                                                        *)
Length == LET remaining == PartLength(part) - chunk
          IN IF remaining > ChunkSize THEN ChunkSize ELSE remaining

\* Mutant of WriteAddress: the second part is put behind the first
WriteAddressBehind ==
    \E o \in Outcomes :
        /\ pc = "address" /\ Reported(o)
        /\ Goto("length")
        /\ dmaAddr' = IF Reached(o) THEN IlmOffset + chunk ELSE dmaAddr
        /\ UNCHANGED <<dmaLen, complete, pending, memory, chip, config>>

WriteAddress ==
    \E o \in Outcomes :
        /\ pc = "address" /\ Reported(o)
        /\ Goto("length")
        /\ dmaAddr' = IF Reached(o) THEN Offset(part) + chunk ELSE dmaAddr
        /\ UNCHANGED <<dmaLen, complete, pending, memory, chip, config>>

WriteLength ==                   \* clears the DONE bits
    \E o \in Outcomes :
        /\ pc = "length" /\ Reported(o)
        /\ Goto("send")
        /\ IF Reached(o) THEN dmaLen' = Length /\ complete' = FALSE
                         ELSE UNCHANGED <<dmaLen, complete>>
        /\ UNCHANGED <<dmaAddr, pending, memory, chip, config>>

SendChunk ==
    \E o \in Outcomes :
        /\ pc = "send" /\ Reported(o)
        /\ Goto(IF o = "ok" THEN "pollChunk" ELSE "thrown")
        /\ pending' = IF Reached(o) THEN "copy" ELSE pending
        /\ UNCHANGED <<regs, memory, chip, config>>

NextChunk ==
    IF chunk + ChunkSize < PartLength(part)
    THEN pc' = "address" /\ chunk' = chunk + ChunkSize /\ UNCHANGED <<part, setup>>
    ELSE IF part = "ilm"
    THEN pc' = "address" /\ part' = "dlm" /\ chunk' = 0 /\ UNCHANGED setup
    ELSE Goto("clear")

\* Mutant of ChunkAwaited: the length is compared, the DONE bits are not
ChunkNotAwaited(o) == o = "ok" /\ dmaLen = Length

ChunkAwaited(o) == o = "ok" /\ dmaLen = Length /\ complete

PollChunk == Poll("pollChunk", NextChunk, [o \in Reads |-> ChunkAwaited(o)])

ClearAddress ==
    \E o \in Outcomes :
        /\ pc = "clear" /\ Reported(o)
        /\ Goto("start")
        /\ dmaAddr' = IF Reached(o) THEN Zero ELSE dmaAddr
        /\ UNCHANGED <<dmaLen, complete, pending, memory, chip, config>>

LoadIvb ==
    \E o \in Outcomes :
        /\ pc = "start" /\ Reported(o)
        /\ Goto("pollStart")
        /\ pending' = IF Reached(o) THEN "start" ELSE pending
        /\ UNCHANGED <<regs, memory, chip, config>>

PollStart ==
    Poll("pollStart", pc' = "setup" /\ setup' = 1 /\ UNCHANGED <<part, chunk>>,
         [o \in Reads |-> ReadDmaAddr(o) = Started])

(* pollTimeout: a second has passed. Either nothing will come any more, or *)
(* the dongle is too slow, which counts as a failure.                      *)
PollTimeout ==
    /\ \/ pc = "pollReset" /\ dmaAddr # ResetDone
       \/ pc = "pollChunk" /\ ~ChunkAwaited("ok")
       \/ pc = "pollStart" /\ dmaAddr # Started
    /\ Throw
    /\ IF pending = "none" THEN UNCHANGED failures
       ELSE failures < MaxFailures /\ failures' = failures + 1
    /\ UNCHANGED <<lost, regs, pending, memory, chip, config>>

-----------------------------------------------------------------------------
(* The set-up *)

Current == Setup[setup]
Proceed ==
    IF setup = Len(Setup) THEN Goto("ready")
    ELSE setup' = setup + 1 /\ UNCHANGED <<pc, part, chunk>>

Carry(o) == config' = IF Reached(o) THEN config \cup {Current.name} ELSE config

SendCommand ==
    \E o \in Outcomes :
        /\ pc = "setup" /\ Current.kind = "command" /\ Reported(o)
        /\ Carry(o)
        /\ IF o = "ok" THEN Proceed ELSE Throw
        /\ UNCHANGED <<regs, pending, memory, chip>>

AccessRegisters ==               \* also an EFUSE read whose transfers fail
    \E o \in Outcomes :
        /\ pc = "setup" /\ Current.kind \in {"registers", "efuse"} /\ Reported(o)
        /\ Carry(o)
        /\ Proceed
        /\ UNCHANGED <<regs, pending, memory, chip>>

EfuseTimeout ==
    /\ pc = "setup" /\ Current.kind = "efuse" /\ failures < MaxFailures
    /\ Throw
    /\ failures' = failures + 1
    /\ UNCHANGED <<lost, regs, pending, memory, chip, config>>

(* configureChannel, the first and all others: a power table that cannot   *)
(* be read gives the minimal power, a command that fails is not looked at. *)
ConfigureChannel ==
    \E o \in Outcomes :
        /\ pc = "setup" /\ Current.kind = "channel" /\ Reported(o)
        /\ Carry(o)
        /\ Proceed
        /\ UNCHANGED <<regs, pending, memory, chip>>

-----------------------------------------------------------------------------
(* The worker tries again after a failure, closes a dongle it has lost or  *)
(* has to give up, and comes back to one that kept its power; or the port  *)
(* was cycled or the adapter replugged in between. Three seconds pass      *)
(* after a failure: the dongle is no longer busy.                          *)

Restart ==
    /\ pc' = "file" /\ part' = "ilm" /\ chunk' = 0 /\ setup' = 1 /\ lost' = FALSE

Retry ==
    /\ pc \in {"thrown", "ready"}
    /\ pc = "ready" => lost \/ failures < MaxFailures
    /\ pending = "none"
    /\ Restart
    /\ failures' = IF pc = "ready" /\ ~lost THEN failures + 1 ELSE failures
    /\ UNCHANGED <<regs, pending, memory, chip, config>>

PowerCycle ==
    /\ pc \in {"thrown", "ready"} /\ failures < MaxFailures
    /\ Restart
    /\ failures' = failures + 1
    /\ dmaAddr' = Zero /\ dmaLen' = 0 /\ complete' = FALSE /\ pending' = "none"
    /\ memory' = [a \in Addresses |-> Nothing] /\ running' = FALSE /\ config' = {}
    /\ blind' = FALSE

-----------------------------------------------------------------------------
(* The dongle *)

HwReset ==
    /\ pending = "reset" /\ pending' = "none"
    /\ dmaAddr' = ResetDone /\ running' = FALSE /\ blind' = FALSE
    /\ UNCHANGED <<drv, lost, dmaLen, complete, memory, config, failures>>

\* the bytes of the chunk that was sent, at the address in the register
HwCopy ==
    /\ pending = "copy" /\ pending' = "none"
    /\ memory' = [a \in Addresses |->
                    IF a \in dmaAddr..(dmaAddr + dmaLen - 1)
                          /\ chunk + a - dmaAddr < PartLength(part)
                    THEN <<part, chunk + a - dmaAddr>> ELSE memory[a]]
    /\ complete' = TRUE
    /\ UNCHANGED <<drv, lost, dmaAddr, dmaLen, chip, config, failures>>

HwStart ==                       \* some firmware starts, maybe a broken one
    /\ pending = "start" /\ pending' = "none"
    /\ dmaAddr' = Started /\ running' = TRUE /\ blind' = FALSE /\ config' = {}
    /\ UNCHANGED <<drv, lost, dmaLen, complete, memory, failures>>

HwStartFails ==                  \* a broken one need not start
    /\ pending = "start" /\ ~Whole /\ pending' = "none"
    /\ UNCHANGED <<drv, lost, regs, memory, chip, config, failures>>

-----------------------------------------------------------------------------
Driver ==
    \/ OpenFile \/ Probe \/ RequestReset \/ PollReset \/ ConfigureDma
    \/ WriteAddress \/ WriteLength \/ SendChunk \/ PollChunk
    \/ ClearAddress \/ LoadIvb \/ PollStart
    \/ SendCommand \/ AccessRegisters \/ ConfigureChannel
    \/ Retry
Dongle == HwReset \/ HwCopy \/ HwStart \/ HwStartFails

Next ==
    \/ Driver \/ Dongle
    \/ FileUnreadable \/ PollTimeout \/ EfuseTimeout \/ PowerCycle

(* The constructor runs, a poll ends by its time-out, and the dongle does  *)
(* what it is asked to.                                                    *)
Spec ==
    /\ Init /\ [][Next]_vars
    /\ WF_vars(Driver)
    /\ WF_vars(PollTimeout) /\ WF_vars(Dongle)

-----------------------------------------------------------------------------
(* loadFirmware, loadFirmwarePart: if no transfer of this attempt failed,  *)
(* the firmware is started from exactly the image: every chunk, also the   *)
(* last and shorter ones, is in its place, and none was counted as copied  *)
(* because of what an earlier chunk or attempt left in the registers.      *)
StartedWhole == pc \in {"pollStart", "setup", "ready"} /\ ~lost => Whole

(* loadFirmware: nothing is written under a running firmware, in whatever   *)
(* state an earlier attempt or an earlier driver left the registers, but   *)
(* after a read of the register that failed: the attempt goes on as if     *)
(* nothing was running, and may leave the register so that the next one,   *)
(* whose reads succeed, does not notice either.                            *)
ResetFirst == [][pending = "none" /\ pending' = "copy" => ~running \/ blind]_vars

(* Mt76::Mt76: a constructor that returns has set everything up, in a      *)
(* firmware that was started by it, or the loss of the dongle has been     *)
(* reported to the worker; the ignored failures are not lost.              *)
ReadyMeansSetUp == pc = "ready" => lost \/ (running /\ config = Steps)

(* runWorker, Mt76::Mt76: wherever failures interrupted earlier attempts,  *)
(* once they cease an attempt succeeds; no state of the dongle defeats all *)
(* attempts.                                                               *)
Recovers == []<>(pc = "ready" /\ ~lost)
=============================================================================
