---------------------------- MODULE WorkerProofs -----------------------------
(***************************************************************************)
(* Safety of the worker loop for every number of flap resets: its port is  *)
(* only cycled with the dongle closed, and not less often than the failed  *)
(* initialisations call for.                                               *)
(***************************************************************************)
EXTENDS Worker, TLAPS

(* The device is open from getDevice to the end of ~Dongle and nowhere     *)
(* else.                                                                   *)
OpenWhile == opened => mpc \in {"init", "install", "wait", "verdict", "close", "quit"}

(* The failures since the last cycle are at most those that initFailures   *)
(* has counted since it was a multiple of three; the last one of them is   *)
(* only dealt with in the catch block.                                     *)
Counted ==
    elevated =>
        IF mpc = "caught"
        THEN /\ initFailures > 0
             /\ sinceCycle <= IF initFailures % 3 = 0 THEN 3 ELSE initFailures % 3
        ELSE sinceCycle <= initFailures % 3

IInv == TypeOK /\ OpenWhile /\ CycleClosed /\ Counted

-----------------------------------------------------------------------------
(* initFailures as DongleThrows counts it: one more modulo three.          *)
LEMMA CountsModuloThree ==
  ASSUME NEW n \in 0..5, NEW m, m = IF n = 5 THEN 3 ELSE n + 1
  PROVE  /\ m \in 1..5
         /\ n % 3 \in 0..2
         /\ (IF m % 3 = 0 THEN 3 ELSE m % 3) = (n % 3) + 1
<1>1. CASE n = 0
  BY <1>1
<1>2. CASE n = 1
  BY <1>2
<1>3. CASE n = 2
  BY <1>3
<1>4. CASE n = 3
  BY <1>4
<1>5. CASE n = 4
  BY <1>5
<1>6. CASE n = 5
  BY <1>6
<1> QED
  BY <1>1, <1>2, <1>3, <1>4, <1>5, <1>6

(* The initial state satisfies the inductive invariant.                    *)
LEMMA InitInv == Init => IInv
<1> SUFFICES ASSUME Init PROVE IInv
  OBVIOUS
<1>1. TypeOK
  <2>1. /\ stopRequested \in BOOLEAN /\ suspended \in BOOLEAN /\ cycleRequested \in BOOLEAN
        /\ lost \in BOOLEAN /\ opened \in BOOLEAN /\ elevated \in BOOLEAN
        /\ unsafeCycle \in BOOLEAN
    BY DEF Init
  <2>2. /\ initFailures \in 0..5 /\ flapCycles \in 0..MaxFlaps /\ sinceCycle \in 0..3
    BY FlapsBound DEF Init
  <2> QED
    BY <2>1, <2>2 DEF Init, TypeOK, MainPC, CallPC, FlapPC
<1>2. OpenWhile /\ CycleClosed
  BY DEF Init, OpenWhile, CycleClosed
<1>3. Counted
  BY DEF Init, Counted
<1> QED
  BY <1>1, <1>2, <1>3 DEF IInv

(* Types are preserved by every step.                                      *)
LEMMA NextType == TypeOK /\ [Next]_vars => TypeOK'
<1> SUFFICES ASSUME TypeOK, [Next]_vars PROVE TypeOK'
  OBVIOUS
<1> USE DEF TypeOK, MainPC, CallPC, FlapPC, flags, loop, calls, rights, hist
<1>1. CASE LoopTop
  BY <1>1 DEF LoopTop
<1>2. CASE Resumed
  BY <1>2 DEF Resumed
<1>3. CASE Settled
  BY <1>3 DEF Settled
<1>4. CASE NewWatch
  <2>1. lost' \in BOOLEAN
    BY <1>4 DEF NewWatch
  <2> QED
    BY <1>4, <2>1 DEF NewWatch
<1>5. CASE DeviceOpened
  BY <1>5 DEF DeviceOpened
<1>6. CASE GetDeviceStops
  BY <1>6 DEF GetDeviceStops
<1>7. CASE ListingFails
  BY <1>7 DEF ListingFails
<1>8. CASE DongleReady
  BY <1>8 DEF DongleReady
<1>9. CASE DongleThrows
  <2>1. opened' \in BOOLEAN
    BY <1>9 DEF DongleThrows
  <2>2. initFailures' \in 0..5 /\ sinceCycle' \in 0..3
    BY <1>9 DEF DongleThrows
  <2> QED
    BY <1>9, <2>1, <2>2 DEF DongleThrows
<1>10. CASE InstallHandler
  BY <1>10 DEF InstallHandler
<1>11. CASE WatchWait
  BY <1>11 DEF WatchWait
<1>12. CASE Verdict
  BY <1>12 DEF Verdict
<1>13. CASE CloseDongle
  <2>1. opened' \in BOOLEAN
    BY <1>13 DEF CloseDongle
  <2> QED
    BY <1>13, <2>1 DEF CloseDongle
<1>14. CASE HealInit
  BY <1>14 DEF HealInit, CyclePort
<1>15. CASE Detach
  BY <1>15 DEF Detach
<1>16. CASE CycleNow
  <2>1. cycleRequested' \in BOOLEAN /\ unsafeCycle' \in BOOLEAN
    BY <1>16 DEF CycleNow, CyclePort
  <2> QED
    BY <1>16, <2>1 DEF CycleNow, CyclePort
<1>17. CASE SleepEnds
  BY <1>17 DEF SleepEnds, WatchEnds, Stale
<1>18. CASE Unwind
  BY <1>18 DEF Unwind, WatchEnds, Stale
<1>19. CASE Exit
  BY <1>19 DEF Exit
<1>20. CASE Suspend
  BY <1>20 DEF Suspend
<1>21. CASE Resume
  <2>1. suspended' \in BOOLEAN
    BY <1>21 DEF Resume
  <2> QED
    BY <1>21, <2>1 DEF Resume
<1>22. CASE PowerTest
  BY <1>22 DEF PowerTest, Tested
<1>23. CASE PowerUse
  <2>1. lost' \in BOOLEAN
    BY <1>23 DEF PowerUse
  <2> QED
    BY <1>23, <2>1 DEF PowerUse
<1>24. CASE ResetEvent
  BY <1>24 DEF ResetEvent
<1>25. CASE ResetTest
  BY <1>25 DEF ResetTest, Tested
<1>26. CASE ResetUse
  <2>1. lost' \in BOOLEAN
    BY <1>26 DEF ResetUse
  <2> QED
    BY <1>26, <2>1 DEF ResetUse
<1>27. CASE RequestStop
  BY <1>27 DEF RequestStop
<1>28. CASE Terminate
  BY <1>28 DEF Terminate
<1>29. CASE FlapStarts
  BY <1>29 DEF FlapStarts
<1>30. CASE FlapCount
  BY <1>30, FlapsBound DEF FlapCount
<1>31. CASE FlapRequest
  BY <1>31 DEF FlapRequest
<1>32. CASE FlapReport
  BY <1>32 DEF FlapReport
<1>33. CASE UNCHANGED vars
  BY <1>33 DEF vars
<1> QED
  BY <1>1, <1>2, <1>3, <1>4, <1>5, <1>6, <1>7, <1>8, <1>9, <1>10, <1>11,
     <1>12, <1>13, <1>14, <1>15, <1>16, <1>17, <1>18, <1>19, <1>20, <1>21,
     <1>22, <1>23, <1>24, <1>25, <1>26, <1>27, <1>28, <1>29, <1>30, <1>31,
     <1>32, <1>33
  DEF Next, MainStep, LoopStep, Call, PowerCall, ResetCall, FlapCall, Outside

(* What the callbacks and the dongle's threads do is no matter of opening, *)
(* counting and cycling.                                                   *)
LEMMA OthersKeep ==
  ASSUME Call \/ Outside \/ RequestStop
  PROVE  UNCHANGED <<mpc, opened, initFailures, elevated, sinceCycle, unsafeCycle>>
<1> USE DEF loop, rights, hist
<1>1. CASE PowerTest \/ PowerUse \/ ResetTest \/ ResetUse
  BY <1>1 DEF PowerTest, PowerUse, ResetTest, ResetUse
<1>2. CASE FlapCount \/ FlapRequest \/ FlapReport
  BY <1>2 DEF FlapCount, FlapRequest, FlapReport
<1>3. CASE Outside \/ RequestStop
  BY <1>3 DEF Outside, RequestStop, Suspend, Resume, ResetEvent, Terminate, FlapStarts
<1> QED
  BY <1>1, <1>2, <1>3 DEF Call, PowerCall, ResetCall, FlapCall

(* Every step preserves the inductive invariant.                           *)
LEMMA NextInv == IInv /\ [Next]_vars => IInv'
<1> SUFFICES ASSUME IInv, [Next]_vars PROVE IInv'
  OBVIOUS
<1>0. TypeOK'
  BY NextType DEF IInv
<1> USE <1>0 DEF IInv, OpenWhile, CycleClosed, Counted, flags, loop, rights, hist
<1>1. CASE \/ LoopTop \/ Resumed \/ NewWatch \/ DeviceOpened \/ GetDeviceStops
           \/ ListingFails \/ InstallHandler \/ WatchWait \/ Verdict
  BY <1>1 DEF LoopTop, Resumed, NewWatch, DeviceOpened, GetDeviceStops,
     ListingFails, InstallHandler, WatchWait, Verdict
<1>2. CASE Settled \/ DongleReady
  BY <1>2 DEF Settled, DongleReady
<1>3. CASE DongleThrows
  <2>1. initFailures \in 0..5 /\ sinceCycle \in 0..3
    BY DEF TypeOK
  <2>2. elevated => sinceCycle <= initFailures % 3
    BY <1>3 DEF DongleThrows
  <2>3. /\ initFailures' > 0 /\ initFailures % 3 \in 0..2
        /\ (IF initFailures' % 3 = 0 THEN 3 ELSE initFailures' % 3) = (initFailures % 3) + 1
    BY <1>3, <2>1, CountsModuloThree DEF DongleThrows
  <2>4. elevated' => sinceCycle' <= (initFailures % 3) + 1
    BY <1>3, <2>1, <2>2, <2>3 DEF DongleThrows
  <2> QED
    BY <1>3, <2>3, <2>4 DEF DongleThrows
<1>4. CASE HealInit
  BY <1>4 DEF HealInit, ThirdFailure, CyclePort, TypeOK
<1>5. CASE CloseDongle \/ Detach \/ SleepEnds \/ Unwind \/ Exit
  BY <1>5 DEF CloseDongle, Detach, SleepEnds, Unwind, Exit
<1>6. CASE CycleNow
  BY <1>6 DEF CycleNow, CyclePort, TypeOK
<1>7. CASE Call \/ Outside \/ RequestStop
  BY <1>7, OthersKeep
<1>8. CASE UNCHANGED vars
  BY <1>8 DEF vars
<1> QED
  BY <1>1, <1>2, <1>3, <1>4, <1>5, <1>6, <1>7, <1>8 DEF Next, MainStep, LoopStep

(* The inductive invariant holds in every reachable state.                 *)
THEOREM Invariant == Safety => []IInv
<1>1. Init => IInv
  BY InitInv
<1>2. IInv /\ [Next]_vars => IInv'
  BY NextInv
<1> QED
  BY <1>1, <1>2, PTL DEF Safety

(* Type correctness of the loop, its counters and the callbacks.           *)
THEOREM TypeCorrect == Spec => []TypeOK
<1>1. IInv => TypeOK
  BY DEF IInv
<1> QED
  BY <1>1, Invariant, PTL DEF Spec

(* runWorker never cycles the port of a dongle that it has open.           *)
THEOREM ClosedWhenCycled == Spec => []CycleClosed
<1>1. IInv => CycleClosed
  BY DEF IInv
<1> QED
  BY <1>1, Invariant, PTL DEF Spec

(* With admin rights the catch block cycles the port at every third failed *)
(* initialisation in a row, although initFailures is not reset by a cycle. *)
THEOREM InitHealed == Spec => []HealsInit
<1>1. IInv => HealsInit
  BY DEF IInv, TypeOK, Counted, HealsInit
<1> QED
  BY <1>1, Invariant, PTL DEF Spec
=============================================================================
