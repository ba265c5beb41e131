---------------------------- MODULE GamepadProofs ----------------------------
(***************************************************************************)
(* First the controller alone, for every width of the sequence number:     *)
(* getSequence needs no lock, the POWER_OFF packet is the last one, and    *)
(* input is forwarded only by a controller that is completely initialised. *)
(*                                                                         *)
(* Then the buffer alone, for any number of puts: it needs no lock, loses  *)
(* no update and behaves as a box that each get swaps with the value it    *)
(* had (module Mailbox).                                                   *)
(*                                                                         *)
(* Then a controller with its buffer: every step of the composition is a   *)
(* step, or a stutter, of Controller and of TripleBuffer.  What is proved  *)
(* of the two modules therefore holds where they run together, for every   *)
(* width of the sequence number, any number of requests and any levels     *)
(* among Levels.                                                           *)
(***************************************************************************)
EXTENDS Gamepad, TLAPS

-----------------------------------------------------------------------------
(* The controller.                                                         *)

(* Which steps of one thread exclude which steps of another: the rumble    *)
(* thread starts after the last packet of initInput and has ended before   *)
(* POWER_OFF is numbered.                                                  *)
Phases ==
    /\ hpc \in InitSends \cup {"create", "register", "settings", "load", "start"}
          => rpc = "none" /\ ~inputReady
    /\ hpc \in Receiving /\ ~inputReady => rpc = "none"
    /\ hpc \in {"lock", "apply"} => inputReady
    /\ hpc = "ready" => rpc # "none"
    /\ hpc \in EndPC => rpc \in {"none", "done"}
    /\ rpc = "done" => stopRumbleThread

(* What the thread that serves input may rely on.                          *)
Complete ==
    /\ hpc \in {"register", "settings", "load", "start", "ready"} => attached
    /\ inputReady => attached /\ rpc # "none"

(* A number that was read and not yet written back is still the next one.  *)
Numbering ==
    /\ expected = ReadSequence
    /\ hreg # 0 => hpc \in InitSends \cup {"off"} /\ hreg = ReadSequence
    /\ rreg # 0 => rpc = "send" /\ rreg = ReadSequence
    /\ ~misnumbered

Ending ==
    /\ off => hpc \in EndPC \ {"off"}
    /\ ~afterOff

IInv == TypeOK /\ Phases /\ Complete /\ Numbering /\ Ending

-----------------------------------------------------------------------------
(* Arithmetic of getSequence: the number read is a byte and not zero.      *)
LEMMA NumberRead == TypeOK => ReadSequence \in Numbers \ {0}
  BY SeqWidth DEF TypeOK, ReadSequence, Numbers

(* After the number n was written back the next one is Following(n).       *)
LEMMA NumberNext ==
  ASSUME NEW n \in Numbers
  PROVE  /\ Increment(n) \in Numbers
         /\ Following(n) = IF Increment(n) = 0 THEN 1 ELSE Increment(n)
         /\ Following(n) \in Numbers
  BY SeqWidth DEF Increment, Following, Numbers

(* The initial state satisfies the inductive invariant.                    *)
LEMMA InitInv == Init => IInv
<1> SUFFICES ASSUME Init PROVE IInv
  OBVIOUS
<1>1. TypeOK
  <2>1. 0 \in Numbers /\ 1 \in Numbers
    BY SeqWidth DEF Numbers
  <2> QED
    BY <2>1 DEF Init, TypeOK, Holders, HandlerPC, Receiving, Frames, RumblePC, NotifyPC
<1>2. Phases /\ Complete /\ Ending
  BY DEF Init, Phases, Complete, Ending, InitSends, Receiving, EndPC
<1>3. Numbering
  BY DEF Init, Numbering, ReadSequence
<1> QED
  BY <1>1, <1>2, <1>3 DEF IInv

(* A packet with the number that was read keeps the numbers in order.      *)
LEMMA TransmitInOrder ==
  ASSUME IInv, NEW n \in Numbers, n = ReadSequence, Transmit(n), ~off
  PROVE  /\ sequence' \in Numbers /\ expected' \in Numbers
         /\ expected' = ReadSequence'
         /\ ~misnumbered' /\ misnumbered' \in BOOLEAN
         /\ ~afterOff' /\ afterOff' \in BOOLEAN
  BY NumberNext DEF IInv, TypeOK, Numbering, Ending, Transmit, ReadSequence

(* Every step of the three threads preserves the inductive invariant.      *)
LEMMA NextInv == IInv /\ [Next]_vars => IInv'
<1> SUFFICES ASSUME IInv, [Next]_vars PROVE IInv'
  OBVIOUS
<1>0. ReadSequence \in Numbers \ {0}
  BY NumberRead DEF IInv
<1> USE DEF IInv, TypeOK, Phases, Complete, Numbering, Ending, InitSends,
        Receiving, EndPC, HandlerPC, RumblePC, NotifyPC, Holders, Frames,
        pad, gate, flags, work, hand, rum, hist
<1>1. CASE PacketReceived
  BY <1>0, <1>1 DEF PacketReceived, ReadSequence
<1>2. CASE HandlerNumber
  BY <1>0, <1>2 DEF HandlerNumber, ReadSequence
<1>3. CASE CreateInput
  <2>1. /\ hpc = "create" /\ hpc' \in {"idle", "register"}
        /\ attached' \in BOOLEAN /\ (hpc' = "register" => attached')
        /\ attached => attached'
        /\ target' \in BOOLEAN /\ overwritten' \in BOOLEAN /\ stray' \in BOOLEAN
    BY <1>3 DEF CreateInput, NoBus, NoTarget, NotPlugged, Plugged
  <2>2. UNCHANGED <<sequence, inputReady, stopRumbleThread, queued, mappingMutex,
                    work, rum, npc, hist>>
    BY <1>3 DEF CreateInput
  <2> QED
    BY <1>0, <2>1, <2>2 DEF ReadSequence
<1>4. CASE RegisterNotification
  BY <1>0, <1>4 DEF RegisterNotification, ReadSequence
<1>5. CASE LockSettings
  BY <1>0, <1>5 DEF LockSettings, ReadSequence
<1>6. CASE LoadSettings
  BY <1>0, <1>6 DEF LoadSettings, ReadSequence
<1>7. CASE StartRumbleThread
  BY <1>0, <1>7 DEF StartRumbleThread, ReadSequence
<1>8. CASE SetReady
  BY <1>0, <1>8 DEF SetReady, ReadSequence
<1>9. CASE Announced \/ InputReceived \/ Ignored \/ Unknown
  BY <1>0, <1>9 DEF Announced, InputReceived, Ignored, Unknown, Dispatch, ReadSequence
<1>10. CASE LockInput
  BY <1>0, <1>10 DEF LockInput, ReadSequence
<1>11. CASE ApplyInput
  BY <1>0, <1>11 DEF ApplyInput, ReadSequence
<1>12. CASE Destroy
  BY <1>0, <1>12 DEF Destroy, ReadSequence
<1>13. CASE WakeRumble
  BY <1>0, <1>13 DEF WakeRumble, ReadSequence, Notify
<1>14. CASE JoinRumble
  BY <1>0, <1>14 DEF JoinRumble, ReadSequence
<1>15. CASE DestroyMembers
  BY <1>0, <1>15 DEF DestroyMembers, ReadSequence
<1>16. CASE Unregister
  BY <1>0, <1>16 DEF Unregister, ReadSequence
<1>17. CASE RumbleCheck
  BY <1>0, <1>17 DEF RumbleCheck, ReadSequence
<1>18. CASE RumbleWait
  BY <1>0, <1>18 DEF RumbleWait, ReadSequence
<1>19. CASE RumbleTimeout
  BY <1>0, <1>19 DEF RumbleTimeout, ReadSequence
<1>20. CASE RumbleLock
  BY <1>0, <1>20 DEF RumbleLock, ReadSequence
<1>21. CASE RumbleRefresh
  BY <1>0, <1>21 DEF RumbleRefresh, ReadSequence
<1>22. CASE RumbleGet
  <2>1. rpc = "get" /\ rpc' \in {"send", "top"} /\ queued' \in BOOLEAN
    BY <1>22 DEF RumbleGet
  <2>2. UNCHANGED <<sequence, flags, mappingMutex, hand, rreg, npc, hist>>
    BY <1>22 DEF RumbleGet
  <2> QED
    BY <1>0, <2>1, <2>2 DEF ReadSequence
<1>23. CASE RumbleNumber
  BY <1>0, <1>23 DEF RumbleNumber, ReadSequence
<1>24. CASE RumbleDelay
  BY <1>0, <1>24 DEF RumbleDelay, ReadSequence
<1>25. CASE GameRumbles
  BY <1>0, <1>25 DEF GameRumbles, ReadSequence
<1>26. CASE FeedbackLock
  BY <1>0, <1>26 DEF FeedbackLock, ReadSequence
<1>27. CASE FeedbackLevel
  BY <1>0, <1>27 DEF FeedbackLevel, ReadSequence
<1>28. CASE FeedbackPut
  BY <1>0, <1>28 DEF FeedbackPut, ReadSequence
<1>29. CASE FeedbackNotify
  BY <1>0, <1>29 DEF FeedbackNotify, ReadSequence, Notify
<1>30. CASE InitSend
  <2>1. /\ sequence' \in Numbers /\ expected' \in Numbers
        /\ expected' = ReadSequence'
        /\ ~misnumbered' /\ misnumbered' \in BOOLEAN
        /\ ~afterOff' /\ afterOff' \in BOOLEAN
    BY <1>30, TransmitInOrder DEF InitSend
  <2> QED
    BY <1>0, <1>30, <2>1 DEF InitSend, NextSend, Numbers
<1>31. CASE SendOff
  <2>1. /\ sequence' \in Numbers /\ expected' \in Numbers
        /\ expected' = ReadSequence'
        /\ ~misnumbered' /\ misnumbered' \in BOOLEAN
        /\ ~afterOff' /\ afterOff' \in BOOLEAN
    BY <1>31, TransmitInOrder DEF SendOff
  <2> QED
    BY <1>0, <1>31, <2>1 DEF SendOff, Numbers
<1>32. CASE PerformRumble
  <2>1. /\ sequence' \in Numbers /\ expected' \in Numbers
        /\ expected' = ReadSequence'
        /\ ~misnumbered' /\ misnumbered' \in BOOLEAN
        /\ ~afterOff' /\ afterOff' \in BOOLEAN
    BY <1>32, TransmitInOrder DEF PerformRumble
  <2> QED
    BY <1>0, <1>32, <2>1 DEF PerformRumble, Numbers
<1>33. CASE Acknowledge
  <2>1. hpc = "ack" /\ ~off /\ ~afterOff
    BY <1>33 DEF Acknowledge
  <2>2. ~afterOff' /\ afterOff' \in BOOLEAN
    BY <1>33, <2>1 DEF Acknowledge
  <2>3. /\ hpc' \in {"dispatch", "idle"} /\ frame' \in Frames
        /\ UNCHANGED <<sequence, flags, queued, mappingMutex, hreg, rum, npc,
                       expected, misnumbered, off>>
    BY <1>33 DEF Acknowledge
  <2> QED
    BY <1>0, <2>1, <2>2, <2>3 DEF ReadSequence
<1>34. CASE RemoveTarget
  <2>1. hpc = "remove" /\ hpc' = "free" /\ stray' \in BOOLEAN
    BY <1>34 DEF RemoveTarget
  <2>2. UNCHANGED <<sequence, gate, queued, mappingMutex, work, target,
                    overwritten, rum, npc, hist>>
    BY <1>34 DEF RemoveTarget
  <2> QED
    BY <1>0, <2>1, <2>2 DEF ReadSequence
<1>35. CASE NeverAttached
  <2>1. hpc = "unregister" /\ hpc' \in {"free", "gone"}
    BY <1>35 DEF NeverAttached
  <2>2. UNCHANGED <<sequence, flags, queued, mappingMutex, work, rum, npc, hist>>
    BY <1>35 DEF NeverAttached
  <2> QED
    BY <1>0, <2>1, <2>2 DEF ReadSequence
<1>36. CASE FreeTarget
  <2>1. hpc = "free" /\ hpc' = "gone" /\ target' \in BOOLEAN
    BY <1>36 DEF FreeTarget
  <2>2. UNCHANGED <<sequence, gate, queued, mappingMutex, work,
                    overwritten, stray, rum, npc, hist>>
    BY <1>36 DEF FreeTarget
  <2> QED
    BY <1>0, <2>1, <2>2 DEF ReadSequence
<1>37. CASE UNCHANGED vars
  BY <1>37 DEF vars, ReadSequence
<1> QED
  BY <1>1, <1>2, <1>3, <1>4, <1>5, <1>6, <1>7, <1>8, <1>9, <1>10, <1>11,
     <1>12, <1>13, <1>14, <1>15, <1>16, <1>17, <1>18, <1>19, <1>20, <1>21, <1>22,
     <1>23, <1>24, <1>25, <1>26, <1>27, <1>28, <1>29, <1>30, <1>31, <1>32, <1>33,
     <1>34, <1>35, <1>36, <1>37
  DEF Next, HandlePacket, InitInput, Destruct, ProcessRumble, Feedback

(* The inductive invariant holds in every reachable state.                 *)
THEOREM Invariant == Safety => []IInv
<1>1. Init => IInv
  BY InitInv
<1>2. IInv /\ [Next]_vars => IInv'
  BY NextInv
<1> QED
  BY <1>1, <1>2, PTL DEF Safety

(* Type correctness: sequence numbers stay bytes, program counters exist.  *)
THEOREM TypeCorrect == Spec => []TypeOK
<1>1. IInv => TypeOK
  BY DEF IInv
<1> QED
  BY <1>1, Invariant, PTL DEF Spec

(* For every width of the counter, each packet carries the number after    *)
(* the previous packet's: getSequence needs no lock, because the threads   *)
(* that call it are never in a call at the same time.                      *)
THEOREM InOrder == Spec => []NumbersInOrder
<1>1. IInv => NumbersInOrder
  BY DEF IInv, Numbering, NumbersInOrder
<1> QED
  BY <1>1, Invariant, PTL DEF Spec

(* Nothing is sent to a controller after POWER_OFF.                        *)
THEOREM OffLast == Spec => []OffIsLast
<1>1. IInv => OffIsLast
  BY DEF IInv, Ending, OffIsLast
<1> QED
  BY <1>1, Invariant, PTL DEF Spec

(* Input is forwarded only with the virtual controller plugged in and, as  *)
(* long as the destructor has not begun, a running rumble thread.          *)
THEOREM CompleteWhenReady == Spec => []ReadyIsComplete
<1>1. IInv => ReadyIsComplete
  BY DEF IInv, Phases, Complete, ReadyIsComplete
<1> QED
  BY <1>1, Invariant, PTL DEF Spec

-----------------------------------------------------------------------------
(* The buffer.                                                             *)

(* Producer, consumer and the shared position own one slot each, also while *)
(* a swap is half done.                                                    *)
Ownership ==
    /\ B!ProducerSlot # middle
    /\ B!ConsumerSlot # middle
    /\ B!ProducerSlot # B!ConsumerSlot

(* What the call in progress has in its local variables.                   *)
Locals ==
    /\ pput \in {"writing", "exchange"} => arg.ver = puts + 1
    /\ pput = "exchange" => slot[back] = arg
    /\ pput = "store" => prevP \in B!Slots
    /\ pget = "store" => prevC \in B!Slots

(* No slot but the one being published is newer than the published value.  *)
Ages ==
    /\ taken <= puts
    /\ slot[middle].ver <= puts
    /\ slot[B!ConsumerSlot].ver <= puts

(* A value the consumer has not had is in the middle, and somebody is      *)
(* about to raise the flag, has raised it, or is about to swap.            *)
Pending ==
    taken # puts =>
        /\ slot[middle].ver = puts
        /\ queued \/ pput \in {"store", "flag"} \/ pget = "exchange"

(* Each put raises the flag once, and each get uses it up: a flag that is  *)
(* raised, about to be raised or taken and not yet used is one of a put.   *)
One(b) == IF b THEN 1 ELSE 0
Raised ==
    gets + One(queued) + One(pput \in {"store", "flag"}) + One(pget = "exchange") <= puts

BufferInv == B!TypeOK /\ Ownership /\ Locals /\ Ages /\ Pending /\ Raised

-----------------------------------------------------------------------------
(* The initial state satisfies the inductive invariant.                    *)
LEMMA BufferInit == B!Init => BufferInv
<1> SUFFICES ASSUME B!Init PROVE BufferInv
  OBVIOUS
<1>1. PICK junk \in B!Levels : slot = [s \in B!Slots |-> [ver |-> 0, level |-> junk]]
  BY DEF B!Init
<1>2. B!TypeOK
  <2>1. [ver |-> 0, level |-> junk] \in B!Rumble /\ [ver |-> 0, level |-> "off"] \in B!Rumble
    BY DEF B!Levels, B!Rumble
  <2>2. slot \in [B!Slots -> B!Rumble]
    BY <1>1, <2>1
  <2>3. /\ back \in B!Slots /\ middle \in B!Slots /\ front \in B!Slots
        /\ prevP \in B!Slots \cup {0} /\ prevC \in B!Slots \cup {0}
    BY DEF B!Init, B!Slots
  <2>4. puts \in Nat /\ taken \in Nat /\ gets \in Nat
    BY DEF B!Init
  <2>5. queued \in BOOLEAN
    BY DEF B!Init
  <2>6. pput \in B!PutPC /\ pget \in B!GetPC /\ arg \in B!Rumble /\ last \in B!Rumble
    BY <2>1 DEF B!Init, B!PutPC, B!GetPC
  <2> QED
    BY <2>2, <2>3, <2>4, <2>5, <2>6 DEF B!TypeOK
<1>3. Ownership /\ Locals
  BY DEF B!Init, Ownership, Locals, B!ProducerSlot, B!ConsumerSlot
<1>4. Ages /\ Pending /\ Raised
  BY <1>1 DEF B!Init, Ages, Pending, Raised, One, B!ConsumerSlot, B!Slots
<1> QED
  BY <1>2, <1>3, <1>4 DEF BufferInv

(* Every step of put and get preserves the inductive invariant.            *)
LEMMA BufferNext == BufferInv /\ [B!Next]_(B!vars) => BufferInv'
<1> USE DEF BufferInv, B!TypeOK, Ownership, Locals, Ages, Pending, Raised, One,
        B!ProducerSlot, B!ConsumerSlot, B!Slots, B!Rumble, B!PutPC, B!GetPC
<1> SUFFICES ASSUME BufferInv, [B!Next]_(B!vars) PROVE BufferInv'
  OBVIOUS
<1>1. ASSUME NEW level \in B!Levels, B!BeginWrite(level) PROVE BufferInv'
  <2>1. arg' \in B!Rumble /\ arg'.ver = puts + 1
    BY <1>1 DEF B!BeginWrite
  <2> QED
    BY <1>1, <2>1 DEF B!BeginWrite, B!shared, B!cons
<1>2. CASE B!EndWrite
  BY <1>2 DEF B!EndWrite, B!cons
<1>3. CASE B!PutExchange
  BY <1>3 DEF B!PutExchange, B!cons
<1>4. CASE B!PutStore
  BY <1>4 DEF B!PutStore, B!cons
<1>5. CASE B!PutFlag
  BY <1>5 DEF B!PutFlag, B!cons
<1>6. CASE B!GetTest
  <2>1. /\ queued /\ queued' = FALSE /\ pget = "idle" /\ pget' = "exchange"
        /\ UNCHANGED <<slot, back, middle, front, pput, prevP, arg, prevC, puts, taken, gets, last>>
    BY <1>6 DEF B!GetTest, B!prod
  <2>2. Raised'
    BY <2>1
  <2>3. B!TypeOK' /\ Ownership' /\ Locals' /\ Ages' /\ Pending'
    BY <2>1
  <2> QED
    BY <2>2, <2>3
<1>7. CASE B!GetExchange
  <2>1. taken' = puts
    BY <1>7 DEF B!GetExchange
  <2> QED
    BY <1>7, <2>1 DEF B!GetExchange, B!prod
<1>8. CASE B!GetStore
  BY <1>8 DEF B!GetStore, B!prod
<1>9. CASE B!BeginRead
  BY <1>9 DEF B!BeginRead, B!prod, B!shared
<1>10. CASE B!EndRead
  BY <1>10 DEF B!EndRead, B!prod, B!shared
<1>11. CASE UNCHANGED B!vars
  BY <1>11 DEF B!vars
<1> QED
  BY <1>1, <1>2, <1>3, <1>4, <1>5, <1>6, <1>7, <1>8, <1>9, <1>10, <1>11
  DEF B!Next, B!PutStep, B!GetStep

(* The inductive invariant holds in every reachable state.                 *)
THEOREM BufferInvariant == B!Spec => []BufferInv
<1>1. B!Init => BufferInv
  BY BufferInit
<1>2. BufferInv /\ [B!Next]_(B!vars) => BufferInv'
  BY BufferNext
<1> QED
  BY <1>1, <1>2, PTL DEF B!Spec

(* Type correctness of the buffer and of the two program counters.         *)
THEOREM BufferTypes == B!Spec => []B!TypeOK
<1>1. BufferInv => B!TypeOK
  BY DEF BufferInv
<1> QED
  BY <1>1, BufferInvariant, PTL

(* put never writes the slot get is copying from (buffer.h needs no lock). *)
THEOREM RaceFree == B!Spec => []B!NoRace
<1>1. BufferInv => B!NoRace
  BY DEF BufferInv, Ownership, B!ProducerSlot, B!ConsumerSlot, B!NoRace
<1> QED
  BY <1>1, BufferInvariant, PTL

(* Once put and get have returned and nothing is queued, the newest value  *)
(* has been given to the consumer.                                         *)
THEOREM NoLostUpdate == B!Spec => []B!NothingLost
<1>1. BufferInv => B!NothingLost
  BY DEF BufferInv, Pending, B!NothingLost, B!Quiet
<1> QED
  BY <1>1, BufferInvariant, PTL

(* Every step of the buffer is a step of the mailbox or changes nothing of  *)
(* it: an exchange by put publishes, an exchange by get is the swap, and a *)
(* get returns what its exchange took.  The slot that a put fills is       *)
(* neither in the box nor in the hand, however the calls overlap.          *)
LEMMA MailboxSteps == BufferInv /\ [B!Next]_(B!vars) => [B!Box!MNext]_(B!Box!mvars)
<1> SUFFICES ASSUME BufferInv, [B!Next]_(B!vars) PROVE [B!Box!MNext]_(B!Box!mvars)
  OBVIOUS
<1> USE DEF B!Box!MNext, B!Box!mvars, B!ConsumerSlot
<1>1. CASE B!PutExchange
  <2>1. slot[back] = B!Box!Value(puts + 1, slot[back].level) /\ slot[back].level \in B!Levels
    BY <1>1 DEF B!PutExchange, BufferInv, B!TypeOK, Locals, B!Rumble, B!Box!Value
  <2>2. /\ puts' = puts + 1 /\ slot'[middle'] = slot[back]
        /\ UNCHANGED <<gets, last, slot, front, prevC, pget>>
    BY <1>1 DEF B!PutExchange, B!cons
  <2> QED
    BY <2>1, <2>2 DEF B!Box!Publish
<1>2. CASE B!GetExchange
  <2>1. gets < puts
    BY <1>2 DEF B!GetExchange, BufferInv, B!TypeOK, Raised, One
  <2>2. /\ gets' = gets + 1 /\ pget = "exchange" /\ pget' = "store"
        /\ slot'[middle'] = slot[front] /\ slot'[prevC'] = slot[middle]
        /\ UNCHANGED <<puts, last>>
    BY <1>2 DEF B!GetExchange
  <2> QED
    BY <2>1, <2>2 DEF B!Box!Take
<1>3. CASE B!EndWrite
  <2>1. back # middle /\ back # B!ConsumerSlot
    BY <1>3 DEF B!EndWrite, BufferInv, Ownership, B!ProducerSlot
  <2>2. /\ slot' = [slot EXCEPT ![back] = arg]
        /\ UNCHANGED <<puts, gets, last, middle, front, prevC, pget>>
    BY <1>3 DEF B!EndWrite, B!cons
  <2> QED
    BY <2>1, <2>2 DEF BufferInv, B!TypeOK
<1>4. CASE B!GetStore
  BY <1>4 DEF B!GetStore
<1>5. CASE B!EndRead
  BY <1>5 DEF B!EndRead, B!Box!Return, B!shared
<1>6. CASE B!GetTest \/ B!BeginRead
  BY <1>6 DEF B!GetTest, B!BeginRead, B!shared
<1>7. CASE (\E level \in B!Levels : B!BeginWrite(level)) \/ B!PutStore \/ B!PutFlag
  BY <1>7 DEF B!BeginWrite, B!PutStore, B!PutFlag, B!shared, B!cons
<1>8. CASE UNCHANGED B!vars
  BY <1>8 DEF B!vars
<1> QED
  BY <1>1, <1>2, <1>3, <1>4, <1>5, <1>6, <1>7, <1>8 DEF B!Next, B!PutStep, B!GetStep

(* For any number of puts: the three slots are one box and one hand that   *)
(* are swapped at once; what a get returns is what it took, whole, and     *)
(* there are no more gets than puts.                                       *)
THEOREM MailboxRefinement == B!Spec => B!Implements
<1>1. B!Init => B!Box!MInit
  <2> SUFFICES ASSUME B!Init PROVE B!Box!MInit
    OBVIOUS
  <2>1. PICK junk \in B!Levels : slot = [s \in B!Slots |-> [ver |-> 0, level |-> junk]]
    BY DEF B!Init
  <2>2. slot[middle] = B!Box!Value(0, junk) /\ slot[B!ConsumerSlot] = B!Box!Value(0, junk)
    BY <2>1 DEF B!Init, B!ConsumerSlot, B!Slots, B!Box!Value
  <2>3. last = B!Box!Value(0, "off") /\ puts = 0 /\ gets = 0 /\ "off" \in B!Levels
    BY DEF B!Init, B!Levels, B!Box!Value
  <2> QED
    BY <2>2, <2>3 DEF B!Box!MInit
<1>2. BufferInv /\ [B!Next]_(B!vars) => [B!Box!MNext]_(B!Box!mvars)
  BY MailboxSteps
<1> QED
  BY <1>1, <1>2, BufferInvariant, PTL DEF B!Spec, B!Implements, B!Box!MSpec

-----------------------------------------------------------------------------
(* The steps that leave the buffer alone leave its flag alone, too.        *)
LEMMA ApartKeepsFlag ==
  ASSUME \/ HandlePacket \/ InitInput \/ ApplyInput \/ Destruct
         \/ LockSettings \/ LockInput \/ PacketReceived \/ Destroy
         \/ RumbleNumber \/ PerformRumble
         \/ RumbleCheck \/ RumbleWait \/ RumbleTimeout \/ RumbleDelay
         \/ RumbleLock \/ RumbleRefresh
         \/ GameRumbles \/ FeedbackLock \/ FeedbackLevel \/ FeedbackNotify
  PROVE  queued' = queued
<1>1. CASE HandlePacket \/ PacketReceived \/ Destroy
  BY <1>1 DEF HandlePacket, PacketReceived, Destroy, Acknowledge, Announced,
     InputReceived, Ignored, Unknown, Dispatch
<1>2. CASE InitInput \/ LockSettings
  BY <1>2 DEF InitInput, HandlerNumber, InitSend, CreateInput,
     RegisterNotification, LockSettings, LoadSettings, StartRumbleThread, SetReady
<1>3. CASE ApplyInput \/ LockInput
  BY <1>3 DEF ApplyInput, LockInput
<1>4. CASE Destruct
  BY <1>4 DEF Destruct, WakeRumble, JoinRumble, SendOff, DestroyMembers,
     Unregister, RemoveTarget, NeverAttached, FreeTarget
<1>5. CASE \/ RumbleNumber \/ PerformRumble \/ RumbleCheck \/ RumbleWait
           \/ RumbleTimeout \/ RumbleDelay \/ RumbleLock \/ RumbleRefresh
  BY <1>5 DEF RumbleNumber, PerformRumble, RumbleCheck, RumbleWait,
     RumbleTimeout, RumbleDelay, RumbleLock, RumbleRefresh
<1>6. CASE GameRumbles \/ FeedbackLock \/ FeedbackLevel \/ FeedbackNotify
  BY <1>6 DEF GameRumbles, FeedbackLock, FeedbackLevel, FeedbackNotify
<1> QED
  BY <1>1, <1>2, <1>3, <1>4, <1>5, <1>6

(* Inside put and get nothing changes that the object knows of.            *)
LEMMA InsideKeepsFlag ==
  ASSUME \/ \E level \in Requested : B!BeginWrite(level)
         \/ B!EndWrite \/ B!PutExchange \/ B!PutStore
         \/ B!GetExchange \/ B!GetStore \/ B!BeginRead \/ B!EndRead
  PROVE  queued' = queued
  BY DEF B!BeginWrite, B!EndWrite, B!PutExchange, B!PutStore, B!GetExchange,
     B!GetStore, B!BeginRead, B!EndRead, B!shared

(* Every step of the composition is one of the object or nothing to it.    *)
LEMMA ObjectSteps == [GNext]_gvars => [Next]_vars
<1> SUFFICES ASSUME [GNext]_gvars PROVE [Next]_vars
  OBVIOUS
<1>1. CASE Handler \/ HandlerLocks \/ Outside
  BY <1>1 DEF Handler, HandlerLocks, Outside, Apart, Next, InitInput
<1>2. CASE Empty \/ Get \/ Number \/ Perform \/ Waiting \/ Refresh \/ RumbleLocks
  BY <1>2 DEF Empty, Get, Number, Perform, Waiting, Refresh, RumbleLocks,
     Apart, Next, ProcessRumble
<1>3. CASE Request \/ Queue \/ Apart(FeedbackLevel \/ FeedbackNotify) \/ FeedbackLocks
  BY <1>3 DEF Request, Queue, FeedbackLocks, Apart, Next, Feedback
<1>4. CASE Getting \/ Put
  BY <1>4, InsideKeepsFlag DEF Getting, Put, Inside, object, vars, flags, gate,
     pad, hand, work, rum, hist
<1>5. CASE UNCHANGED gvars
  BY <1>5 DEF gvars, object, vars, flags, gate, pad, hand, work, rum, hist
<1> QED
  BY <1>1, <1>2, <1>3, <1>4, <1>5 DEF GNext, Rumbling, Notifying

(* Every step of the composition is one of the buffer or nothing to it.    *)
LEMMA BufferSteps == TypeOK /\ [GNext]_gvars => [B!Next]_(B!vars)
<1> SUFFICES ASSUME TypeOK, [GNext]_gvars PROVE [B!Next]_(B!vars)
  OBVIOUS
<1>1. CASE UNCHANGED <<buffer, queued>>
  BY <1>1 DEF buffer, B!vars
<1>2. CASE Handler \/ HandlerLocks \/ Outside
  BY <1>1, <1>2, ApartKeepsFlag DEF Handler, HandlerLocks, Outside, Apart
<1>3. CASE Number \/ Perform \/ Waiting \/ Refresh \/ RumbleLocks
  BY <1>1, <1>3, ApartKeepsFlag
  DEF Number, Perform, Waiting, Refresh, RumbleLocks, Apart
<1>4. CASE Request \/ Apart(FeedbackLevel \/ FeedbackNotify) \/ FeedbackLocks
  BY <1>1, <1>4, ApartKeepsFlag DEF Request, FeedbackLocks, Apart
<1>5. CASE Empty
  <2>1. queued' = queued
    BY <1>5 DEF Empty, Apart, RumbleGet, TypeOK
  <2> QED
    BY <1>1, <1>5, <2>1 DEF Empty, Apart
<1>6. CASE Get \/ Getting
  <2>1. B!GetStep
    BY <1>6 DEF Get, Getting, Inside, B!GetStep
  <2> QED
    BY <2>1 DEF B!Next
<1>7. CASE Put
  <2>1. (\E level \in B!Levels : B!BeginWrite(level)) \/ B!PutStep
    BY <1>7, LevelsRequested
    DEF Put, Inside, B!PutStep
  <2> QED
    BY <2>1 DEF B!Next
<1>8. CASE Queue
  <2>1. B!PutStep
    BY <1>8 DEF Queue, B!PutStep
  <2> QED
    BY <2>1 DEF B!Next
<1>9. CASE UNCHANGED gvars
  BY <1>1, <1>9 DEF gvars
<1> QED
  BY <1>2, <1>3, <1>4, <1>5, <1>6, <1>7, <1>8, <1>9 DEF GNext, Rumbling, Notifying

-----------------------------------------------------------------------------
(* The composition behaves as a Controller (safety part).                  *)
THEOREM ObjectRefinement == GSpec => Safety
<1>1. GInit => Init
  BY DEF GInit
<1>2. [GNext]_gvars => [Next]_vars
  BY ObjectSteps
<1> QED
  BY <1>1, <1>2, PTL DEF GSpec, Safety

(* The composition behaves as a TripleBuffer.                              *)
THEOREM BufferRefinement == GSpec => B!Spec
<1>1. GInit => B!Init
  BY DEF GInit
<1>2. TypeOK /\ [GNext]_gvars => [B!Next]_(B!vars)
  BY BufferSteps
<1>3. IInv => TypeOK
  BY DEF IInv
<1> QED
  BY <1>1, <1>2, <1>3, ObjectRefinement, Invariant, PTL DEF GSpec, B!Spec

-----------------------------------------------------------------------------
(* What holds of the controller holds of it with its buffer: packets are   *)
(* numbered in order.                                                      *)
THEOREM ComposedInOrder == GSpec => []NumbersInOrder
<1>1. IInv => NumbersInOrder
  BY DEF IInv, Numbering, NumbersInOrder
<1> QED
  BY <1>1, ObjectRefinement, Invariant, PTL

(* POWER_OFF is the last packet, whatever the game requests meanwhile.     *)
THEOREM ComposedOffLast == GSpec => []OffIsLast
<1>1. IInv => OffIsLast
  BY DEF IInv, Ending, OffIsLast
<1> QED
  BY <1>1, ObjectRefinement, Invariant, PTL

(* Input is forwarded only by a controller that is completely initialised. *)
THEOREM ComposedComplete == GSpec => []ReadyIsComplete
<1>1. IInv => ReadyIsComplete
  BY DEF IInv, Phases, Complete, ReadyIsComplete
<1> QED
  BY <1>1, ObjectRefinement, Invariant, PTL

(* The two threads of the controller that use the buffer never access one  *)
(* slot at the same time.                                                  *)
THEOREM ComposedNoRace == GSpec => []NoRace
  BY BufferRefinement, RaceFree, PTL DEF NoRace

(* When neither of them is in a call and nothing is queued, the newest     *)
(* request of the game has reached the rumble thread.                      *)
THEOREM ComposedNothingLost == GSpec => []NothingLost
  BY BufferRefinement, NoLostUpdate, PTL DEF NothingLost

(* The same between the threads of a controller: every rumble request that *)
(* the rumble thread is given is what its exchange took out of the box.    *)
THEOREM ComposedMailbox == GSpec => Implements
  BY BufferRefinement, MailboxRefinement, PTL DEF Implements
=============================================================================
