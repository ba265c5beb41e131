---------------------------- MODULE ServiceProofs ----------------------------
(***************************************************************************)
(* What is proved of the loop holds whatever happens to the adapter, as    *)
(* the composition adds nothing to Worker's steps; and getDevice gives     *)
(* back the reference it takes, but for the handles of failed claims.      *)
(***************************************************************************)
EXTENDS Service, TLAPS

WP == INSTANCE WorkerProofs

-----------------------------------------------------------------------------
(* Every step of the composition is one of the loop's or none to it: the   *)
(* search and the adapter's comings and goings are steps that Worker does  *)
(* not see.                                                                *)
LEMMA StepImplements == [Next]_vars => [W!Next]_(W!vars)
<1> SUFFICES ASSUME [Next]_vars PROVE [W!Next]_(W!vars)
  OBVIOUS
<1>1. CASE UNCHANGED <<shared, worker>>
  BY <1>1 DEF shared, worker, W!vars
<1>2. CASE GetDevice
  BY <1>2 DEF GetDevice, W!Next, W!MainStep
<1>3. CASE DeviceOpened
  BY <1>3 DEF DeviceOpened, W!Next
<1>4. CASE SearchStops
  BY <1>4 DEF SearchStops, W!Next, W!MainStep
<1>5. CASE SearchThrows
  BY <1>5 DEF SearchThrows, W!Next
<1>6. CASE Loops
  BY <1>6 DEF Loops, W!Next, W!MainStep
<1>7. CASE Throws
  BY <1>7 DEF Throws, W!Next
<1>8. CASE Calls \/ Happens
  BY <1>8 DEF Calls, Happens, W!Next
<1>9. CASE Searching \/ Rebinding \/ Unplugged \/ Meanwhile
  BY <1>1, <1>9 DEF Searching, Rebinding, Unplugged, Meanwhile
<1>10. CASE UNCHANGED vars
  BY <1>1, <1>10 DEF vars
<1> QED
  BY <1>2, <1>3, <1>4, <1>5, <1>6, <1>7, <1>8, <1>9, <1>10 DEF Next, Main

-----------------------------------------------------------------------------
(* What Worker's steps do to what the adapter's types need.                *)
LEMMA WorkerKeepsCall ==
  ASSUME [Next]_vars
  PROVE  \/ UNCHANGED <<call, world>>
         \/ Call \/ Find \/ ListingFails \/ StopSeen \/ Open \/ OpenFails
         \/ ClaimFails \/ RebindWorks \/ RebindFails \/ Delay
         \/ Plug \/ OthersOpen \/ WindowsUpdate
  BY DEF Next, Main, GetDevice, Searching, Rebinding, DeviceOpened, SearchStops,
     SearchThrows, Loops, Throws, Calls, Happens, Unplugged, Meanwhile, vars

(* The part of the adapter's types that is not of the worker.              *)
CallOK ==
    /\ gpc \in GetDevicePC /\ openFailures \in 0..MaxFailures
    /\ orphans \in 0..MaxOrphans /\ refs \in 0..(MaxOrphans + 1)
    /\ present \in BOOLEAN /\ winusb \in BOOLEAN /\ busy \in BOOLEAN
    /\ RefsBalanced

(* Every step of the adapter's Worker keeps that part, with the balance of *)
(* the device's references.                                                *)
LEMMA CallPreserved ==
  ASSUME CallOK, [Next]_vars
  PROVE  CallOK'
<1> USE AdapterConstants DEF CallOK, RefsBalanced, GetDevicePC, call, world
<1>1. CASE UNCHANGED <<call, world>>
  BY <1>1
<1>2. CASE Call
  BY <1>2 DEF Call
<1>3. CASE Find
  BY <1>3 DEF Find
<1>4. CASE ListingFails \/ StopSeen
  BY <1>4 DEF ListingFails, StopSeen, Return
<1>5. CASE Open
  BY <1>5 DEF Open, Return
<1>6. CASE OpenFails
  BY <1>6 DEF OpenFails, Fails, OpenFailure
<1>7. CASE ClaimFails
  BY <1>7 DEF ClaimFails, Fails, OpenFailure
<1>12. CASE Delay
  BY <1>12 DEF Delay
<1>8. CASE RebindWorks \/ RebindFails
  BY <1>8 DEF RebindWorks, RebindFails
<1>9. CASE Plug
  BY <1>9 DEF Plug
<1>10. CASE OthersOpen
  BY <1>10 DEF OthersOpen
<1>11. CASE WindowsUpdate
  BY <1>11 DEF WindowsUpdate
<1> QED
  BY <1>1, <1>2, <1>3, <1>4, <1>5, <1>6, <1>7, <1>8, <1>9, <1>10, <1>11, <1>12, WorkerKeepsCall

(* Whatever fails and however a call ends, what getDevice took and neither *)
(* gave back nor handed on is the reference on the device it tries to open *)
(* and one for each handle that a failed claim left open.                  *)
THEOREM References == Spec => []RefsBalanced
<1>1. Init => CallOK
  BY AdapterConstants DEF Init, AdapterInit, CallOK, GetDevicePC, RefsBalanced
<1>2. CallOK /\ [Next]_vars => CallOK'
  BY CallPreserved
<1>3. CallOK => RefsBalanced
  BY DEF CallOK
<1> QED
  BY <1>1, <1>2, <1>3, PTL DEF Spec

-----------------------------------------------------------------------------
(* WorkerProofs is about the same steps as W.                              *)
LEMMA SameSteps == [W!Next]_(W!vars) => [WP!Next]_(WP!vars)
  BY DEF
     W!Next, W!MainStep, W!LoopStep, W!Call, W!PowerCall, W!ResetCall,
     W!FlapCall, W!Outside, W!LoopTop, W!Resumed, W!Settled, W!NewWatch,
     W!DeviceOpened, W!GetDeviceStops, W!ListingFails, W!DongleReady,
     W!DongleThrows, W!InstallHandler, W!WatchWait, W!Verdict, W!CloseDongle,
     W!HealInit, W!ThirdFailure, W!CyclePort, W!Detach, W!CycleNow,
     W!SleepEnds, W!Unwind, W!Exit, W!WatchEnds, W!Stale, W!Suspend,
     W!Resume, W!PowerTest, W!PowerUse, W!Tested, W!ResetEvent, W!ResetTest,
     W!ResetUse, W!RequestStop, W!Terminate, W!FlapStarts, W!FlapCount,
     W!FlapRequest, W!FlapReport, W!vars, W!flags, W!loop, W!calls, W!rights,
     W!hist,
     WP!Next, WP!MainStep, WP!LoopStep, WP!Call, WP!PowerCall, WP!ResetCall,
     WP!FlapCall, WP!Outside, WP!LoopTop, WP!Resumed, WP!Settled,
     WP!NewWatch, WP!DeviceOpened, WP!GetDeviceStops, WP!ListingFails,
     WP!DongleReady, WP!DongleThrows, WP!InstallHandler, WP!WatchWait,
     WP!Verdict, WP!CloseDongle, WP!HealInit, WP!ThirdFailure, WP!CyclePort,
     WP!Detach, WP!CycleNow, WP!SleepEnds, WP!Unwind, WP!Exit, WP!WatchEnds,
     WP!Stale, WP!Suspend, WP!Resume, WP!PowerTest, WP!PowerUse, WP!Tested,
     WP!ResetEvent, WP!ResetTest, WP!ResetUse, WP!RequestStop, WP!Terminate,
     WP!FlapStarts, WP!FlapCount, WP!FlapRequest, WP!FlapReport, WP!vars,
     WP!flags, WP!loop, WP!calls, WP!rights, WP!hist

(* The worker within the composition has the inductive invariant that      *)
(* WorkerProofs finds.                                                     *)
LEMMA ServedInv == Spec => []WP!IInv
<1>1. Init => WP!Init
  BY DEF Init, W!Init, WP!Init
<1>2. [Next]_vars => [WP!Next]_(WP!vars)
  BY StepImplements, SameSteps
<1>3. WP!Safety => []WP!IInv
  BY ServedFlaps, WP!Invariant DEF WP!FlapsBound
<1> QED
  BY <1>1, <1>2, <1>3, PTL DEF Spec, WP!Safety

(* The worker and its adapter have their types.                            *)
THEOREM TypeCorrect == Spec => []TypeOK
<1> DEFINE Types == CallOK /\ dead \in BOOLEAN
<1>1. Init => Types
  <2>1. Init => CallOK
    BY AdapterConstants DEF Init, AdapterInit, CallOK, GetDevicePC, RefsBalanced
  <2>2. Init => dead \in BOOLEAN
    BY DEF Init
  <2> QED
    BY <2>1, <2>2
<1>2. ASSUME Types, WP!IInv, [Next]_vars PROVE Types'
  <2> USE DEF WP!IInv, WP!TypeOK
  <2>1. dead' \in BOOLEAN
    BY <1>2 DEF Next, Main, GetDevice, Searching, Rebinding, DeviceOpened,
       SearchStops, SearchThrows, Loops, Throws, Calls, Happens, Unplugged,
       Meanwhile, vars
  <2> QED
    BY <1>2, <2>1, CallPreserved
<1>3. Types /\ WP!IInv => TypeOK
  BY DEF CallOK, TypeOK, AdapterTypeOK, W!TypeOK, WP!IInv, WP!TypeOK,
     W!MainPC, WP!MainPC, W!CallPC, WP!CallPC, W!FlapPC, WP!FlapPC
<1> QED
  BY <1>1, <1>2, <1>3, ServedInv, PTL DEF Spec

(* The port is not cycled under an open handle, whenever the adapter is    *)
(* unplugged and whatever getDevice does.                                  *)
THEOREM ServedClosedWhenCycled == Spec => []W!CycleClosed
<1>1. WP!IInv => W!CycleClosed
  BY DEF WP!IInv, WP!CycleClosed, W!CycleClosed
<1> QED
  BY <1>1, ServedInv, PTL

(* Every third failed initialisation in a row cycles the port, also when   *)
(* the device was opened again in between.                                 *)
THEOREM ServedInitHealed == Spec => []W!HealsInit
<1>1. WP!IInv => W!HealsInit
  BY DEF WP!IInv, WP!TypeOK, WP!Counted, W!HealsInit
<1> QED
  BY <1>1, ServedInv, PTL
=============================================================================
