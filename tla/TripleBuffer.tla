---------------------------- MODULE TripleBuffer -----------------------------
(***************************************************************************)
(* utils/buffer.h: the lock-free triple buffer between the thread that     *)
(* receives rumble requests from ViGEm (producer, put) and the controller's*)
(* rumble thread (consumer, get).                                          *)
(*                                                                         *)
(* Every atomic operation of put and get is an action of its own, and the  *)
(* two plain copies of a value last from a Begin to an End action, so that *)
(* an overlapping access to one slot is a visible state.  A slot holds the *)
(* number of the put that filled it and its power level; number 0 is the   *)
(* indeterminate content of an object that was only allocated.            *)
(***************************************************************************)
EXTENDS Naturals

Slots  == 1..3
Levels == {"off", "on"}          \* zero-power update, or any other
Rumble == [ver : Nat, level : Levels]

VARIABLES
    slot,                        \* what the three T objects hold
    back, middle, front,         \* the shared_ptr members
    queued,                      \* the atomic flag
    pput, prevP, arg,            \* producer: pc, local `previous', argument
    pget, prevC,                 \* consumer: pc, local `previous'
    puts,                        \* history: values published
    taken,                       \* history: newest value ever in front
    gets,                        \* history: exchanges by get
    last                         \* history: value of the last get

shared == <<slot, back, middle, front, queued>>
prod   == <<pput, prevP, arg>>
cons   == <<pget, prevC>>
vars   == <<slot, back, middle, front, queued, pput, prevP, arg,
            pget, prevC, puts, taken, gets, last>>

PutPC == {"idle", "writing", "exchange", "store", "flag"}
GetPC == {"idle", "exchange", "store", "copy", "reading"}

TypeOK ==
    /\ slot \in [Slots -> Rumble]
    /\ back \in Slots /\ middle \in Slots /\ front \in Slots
    /\ queued \in BOOLEAN
    /\ pput \in PutPC /\ prevP \in Slots \cup {0} /\ arg \in Rumble
    /\ pget \in GetPC /\ prevC \in Slots \cup {0}
    /\ puts \in Nat /\ taken \in Nat /\ gets \in Nat
    /\ last \in Rumble

(* The slots are allocated but not initialised: any level may be in them.  *)
Init ==
    /\ \E junk \in Levels : slot = [s \in Slots |-> [ver |-> 0, level |-> junk]]
    /\ back = 1 /\ middle = 2 /\ front = 3
    /\ queued = FALSE
    /\ pput = "idle" /\ prevP = 0 /\ arg = [ver |-> 0, level |-> "off"]
    /\ pget = "idle" /\ prevC = 0
    /\ puts = 0 /\ taken = 0 /\ gets = 0
    /\ last = [ver |-> 0, level |-> "off"]

-----------------------------------------------------------------------------
(* put *)

BeginWrite(level) ==             \* *back = data (starts)
    /\ pput = "idle"
    /\ pput' = "writing"
    /\ arg' = [ver |-> puts + 1, level |-> level]
    /\ UNCHANGED <<shared, cons, prevP, puts, taken, gets, last>>

EndWrite ==                      \* *back = data (done)
    /\ pput = "writing"
    /\ pput' = "exchange"
    /\ slot' = [slot EXCEPT ![back] = arg]
    /\ UNCHANGED <<back, middle, front, queued, cons, prevP, arg, puts, taken, gets, last>>

PutExchange ==                   \* previous = atomic_exchange(&middle, back)
    /\ pput = "exchange"
    /\ pput' = "store"
    /\ prevP' = middle
    /\ middle' = back
    /\ puts' = puts + 1
    /\ UNCHANGED <<slot, back, front, queued, cons, arg, taken, gets, last>>

\* Mutant of PutStore: put forgets to take the exchanged slot back
PutStoreDropped ==
    /\ pput = "store"
    /\ pput' = "flag"
    /\ UNCHANGED <<shared, cons, prevP, arg, puts, taken, gets, last>>

PutStore ==                      \* atomic_store(&back, previous)
    /\ pput = "store"
    /\ pput' = "flag"
    /\ back' = prevP
    /\ UNCHANGED <<slot, middle, front, queued, cons, prevP, arg, puts, taken, gets, last>>

\* Mutant of PutFlag: put publishes without raising the flag
PutFlagDropped ==
    /\ pput = "flag"
    /\ pput' = "idle"
    /\ UNCHANGED <<shared, cons, prevP, arg, puts, taken, gets, last>>

PutFlag ==                       \* queued = true
    /\ pput = "flag"
    /\ pput' = "idle"
    /\ queued' = TRUE
    /\ UNCHANGED <<slot, back, middle, front, cons, prevP, arg, puts, taken, gets, last>>

PutStep == EndWrite \/ PutExchange \/ PutStore \/ PutFlag

-----------------------------------------------------------------------------
(* get: returns false at once when nothing is queued *)

GetTest ==                       \* atomic_exchange(&queued, false)
    /\ pget = "idle"
    /\ queued
    /\ pget' = "exchange"
    /\ queued' = FALSE
    /\ UNCHANGED <<slot, back, middle, front, prod, prevC, puts, taken, gets, last>>

GetExchange ==                   \* previous = atomic_exchange(&middle, front)
    /\ pget = "exchange"
    /\ pget' = "store"
    /\ prevC' = middle
    /\ middle' = front
    /\ taken' = IF slot[middle].ver > taken THEN slot[middle].ver ELSE taken
    /\ gets' = gets + 1
    /\ UNCHANGED <<slot, back, front, queued, prod, puts, last>>

GetStore ==                      \* atomic_store(&front, previous)
    /\ pget = "store"
    /\ pget' = "copy"
    /\ front' = prevC
    /\ UNCHANGED <<slot, back, middle, queued, prod, prevC, puts, taken, gets, last>>

BeginRead ==                     \* data = *front (starts)
    /\ pget = "copy"
    /\ pget' = "reading"
    /\ UNCHANGED <<shared, prod, prevC, puts, taken, gets, last>>

\* Mutant of EndRead: get clears the flag again once it has copied the value
EndReadClears ==
    /\ pget = "reading"
    /\ pget' = "idle"
    /\ last' = slot[front]
    /\ queued' = FALSE
    /\ UNCHANGED <<slot, back, middle, front, prod, prevC, puts, taken, gets>>

EndRead ==                       \* data = *front (done), return true
    /\ pget = "reading"
    /\ pget' = "idle"
    /\ last' = slot[front]
    /\ UNCHANGED <<shared, prod, prevC, puts, taken, gets>>

GetStep == GetTest \/ GetExchange \/ GetStore \/ BeginRead \/ EndRead

-----------------------------------------------------------------------------
Next == (\E level \in Levels : BeginWrite(level)) \/ PutStep \/ GetStep

(* What the threads that call put and get owe it is in module Gamepad.     *)
Spec == Init /\ [][Next]_vars

-----------------------------------------------------------------------------
(* The slot each thread may touch, also between exchange and store.        *)
ProducerSlot == IF pput = "store" THEN prevP ELSE back
ConsumerSlot == IF pget = "store" THEN prevC ELSE front

Quiet == pput = "idle" /\ pget = "idle" /\ ~queued

(* The producer never writes the slot the consumer is copying from: the    *)
(* buffer needs no lock.                                                   *)
NoRace == ~ (pput = "writing" /\ pget = "reading" /\ back = front)

(* No update is lost: once put and get have returned and nothing is        *)
(* queued, the consumer has been given the newest value at some point.     *)
NothingLost == Quiet => taken = puts

(* put, get: without a lock the three slots behave as a box and a hand     *)
(* that are swapped at once.  A get returns the value its exchange took,   *)
(* whole and as it was put, and the newest one unless that was handed over *)
(* before.  Its flag may be that of a value an earlier get has taken: it   *)
(* then returns an older value, or what is in a slot that was never        *)
(* written; but there are no more such gets than puts.                     *)
Box == INSTANCE Mailbox WITH
    newest <- puts, takes <- gets, given <- last,
    box <- slot[middle], hand <- slot[ConsumerSlot]
Implements == Box!MSpec
=============================================================================
