------------------------------- MODULE Service --------------------------------
(***************************************************************************)
(* The worker together with the adapter it serves: module Worker's loop    *)
(* with module Adapter as its getDevice, in a world where the adapter is   *)
(* unplugged and plugged in again at any time, also while it is open.      *)
(*                                                                         *)
(* A handle whose device was unplugged stays dead when the adapter comes   *)
(* back: the next transfer fails and the USB layer reports the loss.       *)
(***************************************************************************)
EXTENDS Adapter

CONSTANT MaxFlaps

ASSUME ServedFlaps == MaxFlaps \in Nat

VARIABLES
    suspended, cycleRequested, activeWatch, lost, mpc, opened, retry,
    initFailures, flapCycles, ppc, cpc, fpc, sinceCycle, unsafeCycle,
    dead              \* the device behind the open handle was unplugged

W == INSTANCE Worker

worker == <<suspended, cycleRequested, activeWatch, lost, mpc, opened, retry,
            initFailures, flapCycles, ppc, cpc, fpc, sinceCycle, unsafeCycle>>
vars == <<call, world, shared, worker, dead>>

TypeOK == AdapterTypeOK /\ W!TypeOK /\ dead \in BOOLEAN

Init == AdapterInit /\ W!Init /\ dead = FALSE

-----------------------------------------------------------------------------
GetDevice == W!NewWatch /\ Call /\ UNCHANGED dead

Searching ==
    /\ Find \/ OpenFails \/ ClaimFails \/ Delay
    /\ UNCHANGED <<shared, worker, dead>>

Rebinding ==
    /\ RebindWorks \/ RebindFails
    /\ UNCHANGED <<shared, worker, dead>>

DeviceOpened == Open /\ W!DeviceOpened /\ dead' = FALSE

SearchStops == StopSeen /\ W!GetDeviceStops /\ UNCHANGED dead
SearchThrows == ListingFails /\ W!ListingFails /\ UNCHANGED dead

Loops == W!LoopStep /\ UNCHANGED <<call, world>> /\ dead' = (dead /\ opened')
Throws == W!DongleThrows /\ UNCHANGED <<call, world>> /\ dead' = FALSE
Calls == W!Call /\ UNCHANGED <<call, world, dead>>
Happens == (W!Outside \/ W!RequestStop) /\ UNCHANGED <<call, world, dead>>

Unplugged ==                     \* Plug, in either direction
    /\ Plug /\ dead' = (dead \/ (opened /\ present))
    /\ UNCHANGED <<shared, worker>>

Meanwhile ==
    /\ OthersOpen \/ WindowsUpdate
    /\ UNCHANGED <<shared, worker, dead>>

Main == GetDevice \/ Searching \/ Rebinding \/ DeviceOpened \/ SearchStops \/ Loops

Next == Main \/ SearchThrows \/ Throws \/ Calls \/ Happens \/ Unplugged \/ Meanwhile

(* As in Worker, with two differences: a device is opened when there is    *)
(* one to open, and the readers notice that the device is gone.            *)
Spec == Init /\ [][Next]_vars
    /\ WF_vars(Main)
    /\ WF_vars(Calls /\ W!PowerCall) /\ WF_vars(Calls /\ W!ResetCall) /\ WF_vars(Calls /\ W!FlapCall)
    /\ SF_vars(W!CloseDongle /\ UNCHANGED <<call, world>> /\ dead' = FALSE)
    /\ SF_vars(~dead /\ W!DongleReady /\ UNCHANGED <<call, world, dead>>)
    /\ WF_vars(dead /\ W!Terminate /\ UNCHANGED <<call, world, dead>>)

-----------------------------------------------------------------------------
(* An adapter that is and stays usable is served in the end and for good,  *)
(* whatever failed before: attempts to open it, another driver, an unplug  *)
(* and replug while it was open or being initialised.                      *)
Interrupted == Unplugged \/ SearchThrows \/ (Happens /\ ~W!RequestStop /\ ~W!Resume)

Served ==
    (<>[]Usable /\ <>[][~Interrupted]_vars) =>
        <>[](mpc \in {"wait", "asleep", "done"} /\ (mpc = "wait" => ~dead /\ ~lost))

(* A stop request ends the worker also while it waits for an adapter, or   *)
(* heals or retries one that cannot be opened.                             *)
StopEndsSearch == stopRequested ~> (mpc = "done")

(* main.cpp:30, "adapter can't be opened 3x in a row -> WinUSB rebind": if *)
(* the worker may rebind, the wrong driver does not keep it from an        *)
(* adapter that is present and not in use.                                 *)
DriverHealed == <>[](present /\ ~busy /\ elevated /\ mpc = "open") => []<>winusb
=============================================================================
