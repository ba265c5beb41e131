----------------------------- MODULE Controller ------------------------------
(***************************************************************************)
(* controller/controller.cpp, controller/gip.cpp and the ViGEm target of   *)
(* controller/input.cpp: one controller object and the three threads that  *)
(* run its code.                                                           *)
(*                                                                         *)
(*   - the handler: a dongle thread that holds controllerMutex and calls   *)
(*     handlePacket or the destructor (so there is one at a time);         *)
(*   - the rumble thread, processRumble;                                   *)
(*   - the notification thread of ViGEmClient, which calls                 *)
(*     inputFeedbackReceived; it is detached, nobody ever waits for it.    *)
(*                                                                         *)
(* mappingMutex is the only lock two of them compete for: rumbleMutex is   *)
(* taken by the rumble thread alone, reportMutex by the handler alone.     *)
(* The rumble buffer is its queued flag (module TripleBuffer has the rest).*)
(***************************************************************************)
EXTENDS Naturals

CONSTANT SeqMod       \* 2^8 in the code: the sequence number is a byte

ASSUME SeqWidth == SeqMod \in Nat /\ SeqMod > 1

VARIABLES
    sequence,         \* GipDevice::sequence
    inputReady, attached, stopRumbleThread, queued,
    target,           \* InputDevice::target is not null
    frame,            \* what the handler received
    mappingMutex,     \* its holder
    hpc, hreg,        \* handler: step; sequence number read, 0 if none
    rpc, rreg,        \* rumble thread, the same
    npc,              \* notification thread
    expected,         \* history: the number the next packet should carry
    misnumbered,      \* history: a packet carried another one
    off, afterOff,    \* history: POWER_OFF was sent; a packet after it
    overwritten,      \* history: a target was replaced without being freed
    stray             \* history: a pad that no target stands for is plugged in

pad   == <<target, overwritten, stray>>
gate  == <<inputReady, attached, stopRumbleThread>>
flags == <<gate, pad>>
work  == <<hreg, frame>>
hand  == <<hpc, work>>
rum   == <<rpc, rreg>>
hist  == <<expected, misnumbered, off, afterOff>>
vars  == <<sequence, inputReady, attached, stopRumbleThread, queued, target,
           frame, mappingMutex, hpc, hreg, rpc, rreg, npc, expected,
           misnumbered, off, afterOff, overwritten, stray>>

Holders == {"none", "handler", "rumble", "notification"}
InitSends == {"power", "led", "serial"}
Receiving == {"idle", "ack", "dispatch"}
EndPC == {"off", "members", "unregister", "remove", "free", "gone"}
HandlerPC == InitSends \cup Receiving \cup EndPC \cup
    {"create", "register", "settings", "load", "start", "ready",
     "lock", "apply", "wake", "join"}
Frames == {"none", "announce", "input", "other"}
RumblePC == {"none", "top", "checked", "wait", "lock", "refresh", "get",
             "send", "sleep", "done"}
NotifyPC == {"none", "idle", "lock", "level", "put", "notify"}
Numbers == 0..(SeqMod - 1)

TypeOK ==
    /\ sequence \in Numbers /\ expected \in Numbers
    /\ hreg \in Numbers /\ rreg \in Numbers
    /\ inputReady \in BOOLEAN /\ attached \in BOOLEAN
    /\ stopRumbleThread \in BOOLEAN /\ queued \in BOOLEAN
    /\ mappingMutex \in Holders
    /\ hpc \in HandlerPC /\ rpc \in RumblePC /\ npc \in NotifyPC
    /\ misnumbered \in BOOLEAN /\ off \in BOOLEAN /\ afterOff \in BOOLEAN
    /\ target \in BOOLEAN /\ overwritten \in BOOLEAN /\ stray \in BOOLEAN
    /\ frame \in Frames

Init ==
    /\ sequence = 1 /\ expected = 1        \* 0x01
    /\ hreg = 0 /\ rreg = 0
    /\ inputReady = FALSE /\ attached = FALSE /\ stopRumbleThread = FALSE
    /\ queued = FALSE
    /\ mappingMutex = "none"
    /\ hpc = "idle" /\ rpc = "none" /\ npc = "none"
    /\ misnumbered = FALSE /\ off = FALSE /\ afterOff = FALSE
    /\ target = FALSE /\ overwritten = FALSE /\ stray = FALSE
    /\ frame = "none"

-----------------------------------------------------------------------------
(* getSequence: the member is read (zero is not a valid number), then the  *)
(* incremented byte is written back.  Nothing makes the two steps atomic.  *)
ReadSequence == IF sequence = 0 THEN 1 ELSE sequence

Increment(n) == IF n + 1 = SeqMod THEN 0 ELSE n + 1       \* uint8_t

Following(n) == IF n + 1 = SeqMod THEN 1 ELSE n + 1

(* The packet with number n is built and handed to sendPacket.             *)
Transmit(n) ==
    /\ sequence' = Increment(n)
    /\ misnumbered' = (misnumbered \/ n # expected)
    /\ expected' = Following(n)
    /\ afterOff' = (afterOff \/ off)

-----------------------------------------------------------------------------
(* Handler: handlePacket and acknowledgePacket.  "input" is an input or a  *)
(* guide button packet; "other" are the packets that change nothing: from  *)
(* an accessory, of a length that does not fit, status, serial number.     *)

PacketReceived ==
    /\ hpc = "idle"
    /\ frame' \in Frames \ {"none"}
    /\ hpc' \in {"ack", "dispatch"}
    /\ UNCHANGED <<sequence, flags, queued, mappingMutex, hreg, rum, npc, hist>>

(* The acknowledgement repeats the number of the packet it is for.  When   *)
(* it cannot be sent the packet is dropped.                                *)
Acknowledge ==
    /\ hpc = "ack"
    /\ \/ hpc' = "dispatch" /\ UNCHANGED frame
       \/ hpc' = "idle" /\ frame' = "none"
    /\ afterOff' = (afterOff \/ off)
    /\ UNCHANGED <<sequence, flags, queued, mappingMutex, hreg, rum, npc,
                   expected, misnumbered, off>>

Dispatch(to) ==
    /\ hpc = "dispatch"
    /\ hpc' = to /\ frame' = "none"
    /\ UNCHANGED <<sequence, flags, queued, mappingMutex, hreg, rum, npc, hist>>

\* Mutant of Announced: a repeated announce initialises again
AnnouncedAgain == frame = "announce" /\ Dispatch("power")

Announced == frame = "announce" /\ ~inputReady /\ Dispatch("power")
InputReceived == frame = "input" /\ inputReady /\ Dispatch("lock")
Ignored == frame = (IF inputReady THEN "announce" ELSE "input") /\ Dispatch("idle")
Unknown == frame = "other" /\ Dispatch("idle")

HandlePacket == Acknowledge \/ Announced \/ InputReceived \/ Ignored \/ Unknown

-----------------------------------------------------------------------------
(* Handler: initInput *)

HandlerNumber ==
    /\ hpc \in InitSends \cup {"off"} /\ hreg = 0
    /\ hreg' = ReadSequence
    /\ UNCHANGED <<sequence, flags, queued, mappingMutex, hpc, frame, rum, npc, hist>>

NextSend == [power |-> "led", led |-> "serial", serial |-> "create"]

InitSend ==                      \* initInput returns when a send fails
    /\ hpc \in InitSends /\ hreg # 0
    /\ Transmit(hreg)
    /\ hreg' = 0
    /\ hpc' \in {NextSend[hpc], "idle"}
    /\ UNCHANGED <<flags, queued, mappingMutex, frame, rum, npc, off>>

(* InputDevice::create throws when the bus is not there, when there is no  *)
(* memory for a target and when it cannot be plugged in, which may leave   *)
(* the pad on the bus.  A target of an earlier attempt is replaced.        *)
NoBus == hpc' = "idle" /\ UNCHANGED <<attached, pad>>

NoTarget ==
    /\ hpc' = "idle" /\ target' = FALSE
    /\ overwritten' = (overwritten \/ target)
    /\ UNCHANGED <<attached, stray>>

NotPlugged ==
    /\ hpc' = "idle" /\ target' = TRUE
    /\ overwritten' = (overwritten \/ target) /\ stray' \in {stray, TRUE}
    /\ UNCHANGED attached

Plugged ==
    /\ hpc' = "register" /\ target' = TRUE /\ attached' = TRUE
    /\ overwritten' = (overwritten \/ target)
    /\ UNCHANGED stray

\* Mutant of CreateInput: input is accepted although the virtual controller could not be created
ReadyTooEarly ==
    /\ hpc = "create"
    /\ NoBus \/ NoTarget \/ NotPlugged \/ Plugged
    /\ inputReady' = TRUE
    /\ UNCHANGED <<sequence, stopRumbleThread, queued, mappingMutex,
                   work, rum, npc, hist>>

CreateInput ==
    /\ hpc = "create"
    /\ NoBus \/ NoTarget \/ NotPlugged \/ Plugged
    /\ UNCHANGED <<sequence, inputReady, stopRumbleThread, queued, mappingMutex,
                   work, rum, npc, hist>>

RegisterNotification ==          \* without it there is no rumble
    /\ hpc = "register"
    /\ hpc' = "settings"
    /\ npc' \in {"idle", "none"}
    /\ UNCHANGED <<sequence, flags, queued, mappingMutex, work, rum, hist>>

LockSettings ==
    /\ hpc = "settings" /\ mappingMutex = "none"
    /\ hpc' = "load" /\ mappingMutex' = "handler"
    /\ UNCHANGED <<sequence, flags, queued, work, rum, npc, hist>>

LoadSettings ==                  \* writeTemplate, refreshMapping(true)
    /\ hpc = "load"
    /\ hpc' = "start" /\ mappingMutex' = "none"
    /\ UNCHANGED <<sequence, flags, queued, work, rum, npc, hist>>

StartRumbleThread ==             \* only if the thread is not joinable
    /\ hpc = "start"
    /\ hpc' = "ready"
    /\ rpc' = IF rpc = "none" THEN "top" ELSE rpc
    /\ UNCHANGED <<sequence, flags, queued, mappingMutex, work, rreg, npc, hist>>

SetReady ==
    /\ hpc = "ready"
    /\ hpc' = "idle" /\ inputReady' = TRUE
    /\ UNCHANGED <<sequence, attached, stopRumbleThread, pad, queued, mappingMutex,
                   work, rum, npc, hist>>

InitInput == HandlerNumber \/ InitSend \/ CreateInput \/ RegisterNotification
    \/ LockSettings \/ LoadSettings \/ StartRumbleThread \/ SetReady

-----------------------------------------------------------------------------
(* Handler: inputReceived and guideButtonPressed *)

LockInput ==
    /\ hpc = "lock" /\ mappingMutex = "none"
    /\ hpc' = "apply" /\ mappingMutex' = "handler"
    /\ UNCHANGED <<sequence, flags, queued, work, rum, npc, hist>>

ApplyInput ==                    \* the report goes to the virtual controller
    /\ hpc = "apply"
    /\ hpc' = "idle" /\ mappingMutex' = "none"
    /\ UNCHANGED <<sequence, flags, queued, work, rum, npc, hist>>

-----------------------------------------------------------------------------
(* Handler: ~Controller *)

Destroy ==                       \* stopRumbleThread = true
    /\ hpc = "idle"
    /\ hpc' = "wake" /\ stopRumbleThread' = TRUE
    /\ UNCHANGED <<sequence, inputReady, attached, pad, queued, mappingMutex, work,
                   rum, npc, hist>>

(* notify_one reaches the rumble thread only when it is waiting.           *)
Notify == rpc' = IF rpc = "wait" THEN "lock" ELSE rpc

WakeRumble ==
    /\ hpc = "wake"
    /\ hpc' = "join" /\ Notify
    /\ UNCHANGED <<sequence, flags, queued, mappingMutex, work, rreg, npc, hist>>

\* Mutant of JoinRumble: POWER_OFF is sent without waiting for the rumble thread
NoJoin ==
    /\ hpc = "join"
    /\ hpc' = "off"
    /\ UNCHANGED <<sequence, flags, queued, mappingMutex, work, rum, npc, hist>>

JoinRumble ==
    /\ hpc = "join" /\ rpc \in {"none", "done"}
    /\ hpc' = "off"
    /\ UNCHANGED <<sequence, flags, queued, mappingMutex, work, rum, npc, hist>>

SendOff ==                       \* a failure is only logged
    /\ hpc = "off" /\ hreg # 0
    /\ Transmit(hreg) /\ off' = TRUE
    /\ hreg' = 0 /\ hpc' = "members"
    /\ UNCHANGED <<flags, queued, mappingMutex, frame, rum, npc>>

DestroyMembers ==                \* rumbleBuffer ... rumbleThread
    /\ hpc = "members"
    /\ hpc' = "unregister"
    /\ UNCHANGED <<sequence, flags, queued, mappingMutex, work, rum, npc, hist>>

(* ~InputDevice: no new callback starts; one that runs is not waited for.  *)
Unregister ==
    /\ hpc = "unregister" /\ attached
    /\ hpc' = "remove"
    /\ npc' = IF npc = "idle" THEN "none" ELSE npc
    /\ UNCHANGED <<sequence, flags, queued, mappingMutex, work, rum, hist>>

RemoveTarget ==                  \* a failure leaves the pad on the bus
    /\ hpc = "remove"
    /\ hpc' = "free" /\ stray' \in {stray, TRUE}
    /\ UNCHANGED <<sequence, gate, queued, mappingMutex, work, target,
                   overwritten, rum, npc, hist>>

NeverAttached ==
    /\ hpc = "unregister" /\ ~attached
    /\ hpc' = IF target THEN "free" ELSE "gone"
    /\ UNCHANGED <<sequence, flags, queued, mappingMutex, work, rum, npc, hist>>

FreeTarget ==
    /\ hpc = "free"
    /\ hpc' = "gone" /\ target' = FALSE
    /\ UNCHANGED <<sequence, gate, queued, mappingMutex, work,
                   overwritten, stray, rum, npc, hist>>

Destruct == WakeRumble \/ JoinRumble \/ SendOff \/ DestroyMembers
    \/ Unregister \/ RemoveTarget \/ NeverAttached \/ FreeTarget

-----------------------------------------------------------------------------
(* Rumble thread: processRumble *)

RumbleCheck ==                   \* while (!stopRumbleThread)
    /\ rpc = "top"
    /\ rpc' = IF stopRumbleThread THEN "done" ELSE "checked"
    /\ UNCHANGED <<sequence, flags, queued, mappingMutex, hand, rreg, npc, hist>>

RumbleWait ==                    \* wait_for starts
    /\ rpc = "checked"
    /\ rpc' = "wait"
    /\ UNCHANGED <<sequence, flags, queued, mappingMutex, hand, rreg, npc, hist>>

\* Mutant of RumbleTimeout: wait instead of wait_for
NoTimeout == FALSE

RumbleTimeout ==                 \* wait_for ends after a second
    /\ rpc = "wait"
    /\ rpc' = "lock"
    /\ UNCHANGED <<sequence, flags, queued, mappingMutex, hand, rreg, npc, hist>>

RumbleLock ==
    /\ rpc = "lock" /\ mappingMutex = "none"
    /\ rpc' = "refresh" /\ mappingMutex' = "rumble"
    /\ UNCHANGED <<sequence, flags, queued, hand, rreg, npc, hist>>

RumbleRefresh ==                 \* refreshMapping(false)
    /\ rpc = "refresh"
    /\ rpc' = "get" /\ mappingMutex' = "none"
    /\ UNCHANGED <<sequence, flags, queued, hand, rreg, npc, hist>>

RumbleGet ==                     \* while (rumbleBuffer.get(rumble))
    /\ rpc = "get"
    /\ rpc' = IF queued THEN "send" ELSE "top"
    /\ queued' = FALSE
    /\ UNCHANGED <<sequence, flags, mappingMutex, hand, rreg, npc, hist>>

RumbleNumber ==
    /\ rpc = "send" /\ rreg = 0
    /\ rreg' = ReadSequence
    /\ UNCHANGED <<sequence, flags, queued, mappingMutex, hand, rpc, npc, hist>>

PerformRumble ==                 \* the result is ignored
    /\ rpc = "send" /\ rreg # 0
    /\ Transmit(rreg)
    /\ rreg' = 0 /\ rpc' = "sleep"
    /\ UNCHANGED <<flags, queued, mappingMutex, hand, npc, off>>

RumbleDelay ==                   \* 10 ms
    /\ rpc = "sleep"
    /\ rpc' = "get"
    /\ UNCHANGED <<sequence, flags, queued, mappingMutex, hand, rreg, npc, hist>>

ProcessRumble == RumbleCheck \/ RumbleWait \/ RumbleTimeout \/ RumbleLock
    \/ RumbleRefresh \/ RumbleGet \/ RumbleNumber \/ PerformRumble \/ RumbleDelay

-----------------------------------------------------------------------------
(* Notification thread: inputFeedbackReceived *)

GameRumbles ==
    /\ npc = "idle"
    /\ npc' = "lock"
    /\ UNCHANGED <<sequence, flags, queued, mappingMutex, hand, rum, hist>>

FeedbackLock ==
    /\ npc = "lock" /\ mappingMutex = "none"
    /\ npc' = "level" /\ mappingMutex' = "notification"
    /\ UNCHANGED <<sequence, flags, queued, hand, rum, hist>>

FeedbackLevel ==                 \* level = mapping.vibration
    /\ npc = "level"
    /\ npc' = "put" /\ mappingMutex' = "none"
    /\ UNCHANGED <<sequence, flags, queued, hand, rum, hist>>

FeedbackPut ==                   \* rumbleBuffer.put
    /\ npc = "put"
    /\ npc' = "notify" /\ queued' = TRUE
    /\ UNCHANGED <<sequence, flags, mappingMutex, hand, rum, hist>>

FeedbackNotify ==                \* rumbleCondition.notify_one
    /\ npc = "notify"
    /\ npc' = IF hpc \in {"remove", "free", "gone"} THEN "none" ELSE "idle"
    /\ Notify
    /\ UNCHANGED <<sequence, flags, queued, mappingMutex, hand, rreg, hist>>

Feedback == FeedbackLock \/ FeedbackLevel \/ FeedbackPut \/ FeedbackNotify

-----------------------------------------------------------------------------
Next ==
    \/ PacketReceived \/ HandlePacket
    \/ InitInput \/ LockInput \/ ApplyInput
    \/ Destroy \/ Destruct
    \/ ProcessRumble
    \/ GameRumbles \/ Feedback

(* Threads that have something to do do it.  mappingMutex is held for a    *)
(* file read at most and handed on: waiting for it is strongly fair.  No   *)
(* packet, game or disconnection has to come.                              *)
Fairness ==
    /\ WF_vars(HandlePacket) /\ WF_vars(InitInput) /\ WF_vars(ApplyInput) /\ WF_vars(Destruct)
    /\ WF_vars(ProcessRumble) /\ WF_vars(Feedback)
    /\ SF_vars(LockSettings) /\ SF_vars(LockInput)
    /\ SF_vars(RumbleLock) /\ SF_vars(FeedbackLock)

Safety == Init /\ [][Next]_vars
Spec == Safety /\ Fairness

-----------------------------------------------------------------------------
(* Every packet carries the number after the previous packet's, never zero *)
(* and never one that another thread took at the same moment, although     *)
(* getSequence is not atomic and two threads call it (gip.cpp:239, "Zero   *)
(* is an invalid sequence number").                                        *)
NumbersInOrder == ~misnumbered

(* POWER_OFF is the last packet a controller is sent: the rumble thread    *)
(* cannot wake it up again.                                                *)
OffIsLast == ~afterOff

(* Input is only forwarded when the whole initialisation has succeeded:    *)
(* the virtual controller is plugged in and the rumble thread serves it.   *)
ReadyIsComplete ==
    inputReady => attached /\ (rpc \notin {"none", "done"} \/ stopRumbleThread)

(* ~Controller returns, provided the game stops sending rumble requests.   *)
Destroyed ==
    (<>[](npc \in {"none", "idle"})) => (stopRumbleThread ~> hpc = "gone")

(* main.cpp:455, "dongle destructor powers controllers off": a destroyed   *)
(* controller is always told to power off in the end.                      *)
AlwaysOff == stopRumbleThread ~> off

(* ViGEmClient.cpp:641, "Don't leave device connected if the wait call     *)
(* failed": a target that could not be plugged in leaves no pad.           *)
NoPadFromFailure == [][hpc = "create" => stray' = stray]_vars
=============================================================================
