------------------------------- MODULE Adapter --------------------------------
(***************************************************************************)
(* How the worker gets hold of the adapter: usb.cpp's findDevice, getDevice *)
(* and UsbDevice constructor, with main.cpp's onOpenFailure, which binds   *)
(* the adapter to WinUSB again when it has the wrong driver.               *)
(*                                                                         *)
(* Around it the adapter is plugged and unplugged, Windows Update puts     *)
(* Microsoft's driver back, another process has the adapter open, and a    *)
(* stop may be requested. libusb and the installation are external.        *)
(*                                                                         *)
(* The worker that calls getDevice is module Service.                      *)
(***************************************************************************)
EXTENDS Naturals

CONSTANTS
    RebindAfter,      \* 3 in the code
    MaxFailures,      \* bound on openFailures
    MaxOrphans        \* bound on the claims that fail

ASSUME AdapterConstants ==
    /\ RebindAfter \in Nat \ {0} /\ MaxFailures \in Nat /\ RebindAfter <= MaxFailures
    /\ MaxOrphans \in Nat

VARIABLES
    gpc,              \* getDevice's step
    refs,             \* references on libusb devices that getDevice took and
                      \* neither gave back nor handed to its caller
    orphans,          \* history: handles opened and left by a failed claim
    openFailures,     \* up to MaxFailures
    stopRequested, elevated,
    present, winusb, busy    \* plugged in; bound to WinUSB; open elsewhere

call == <<gpc, refs, orphans, openFailures>>
world == <<present, winusb, busy>>
shared == <<stopRequested, elevated>>

GetDevicePC == {"idle", "loop", "found", "healing", "delay"}

AdapterTypeOK ==
    /\ gpc \in GetDevicePC
    /\ orphans \in 0..MaxOrphans /\ refs \in 0..(MaxOrphans + 1)
    /\ openFailures \in 0..MaxFailures
    /\ stopRequested \in BOOLEAN /\ elevated \in BOOLEAN
    /\ present \in BOOLEAN /\ winusb \in BOOLEAN /\ busy \in BOOLEAN

AdapterInit ==
    /\ gpc = "idle" /\ refs = 0 /\ orphans = 0 /\ openFailures = 0
    /\ present \in BOOLEAN /\ winusb \in BOOLEAN /\ busy \in BOOLEAN

-----------------------------------------------------------------------------
Call ==
    /\ gpc = "idle" /\ gpc' = "loop"
    /\ UNCHANGED <<refs, orphans, openFailures, world>>

(* The call returns or throws; its locals are gone.                        *)
Return == gpc' = "idle" /\ openFailures' = 0

Find ==                          \* findDevice takes a reference, or nothing is there
    /\ gpc = "loop" /\ ~stopRequested
    /\ IF present THEN gpc' = "found" /\ refs' = refs + 1
                  ELSE gpc' = "loop" /\ UNCHANGED refs
    /\ UNCHANGED <<orphans, openFailures, world>>

ListingFails ==                  \* thrown through getDevice
    /\ gpc = "loop" /\ ~stopRequested
    /\ Return
    /\ UNCHANGED <<refs, orphans, world>>

\* Mutant of StopSeen: getDevice goes on looking for an adapter
StopOverlooked ==
    /\ FALSE
    /\ UNCHANGED <<call, world>>

StopSeen ==
    /\ gpc = "loop" /\ stopRequested
    /\ Return
    /\ UNCHANGED <<refs, orphans, world>>

Usable == present /\ winusb /\ ~busy

\* Mutant of Open: the second attempt is only made by the next call
OpenOnce ==
    /\ gpc = "found" /\ Usable /\ openFailures = 0
    /\ refs' = refs - 1
    /\ Return
    /\ UNCHANGED <<orphans, world>>

(* UsbDevice::UsbDevice: the device is opened and its interface claimed.   *)
(* The handle, with its own reference, is the caller's to close.           *)
Open ==
    /\ gpc = "found" /\ Usable
    /\ refs' = refs - 1
    /\ Return
    /\ UNCHANGED <<orphans, world>>

Due == openFailures + 1 = RebindAfter

OpenFailure == gpc' = IF Due /\ elevated THEN "healing" ELSE "delay"  \* onOpenFailure

Fails ==
    /\ gpc = "found" /\ ~Usable
    /\ openFailures' = IF openFailures = MaxFailures THEN MaxFailures ELSE openFailures + 1
    /\ OpenFailure
    /\ UNCHANGED world

\* Mutant of OpenFails: the reference is only given back after a success
OpenFailsKeepsRef ==
    /\ Fails
    /\ UNCHANGED <<refs, orphans>>

OpenFails ==                     \* libusb_open fails
    /\ Fails
    /\ refs' = refs - 1
    /\ UNCHANGED orphans

(* libusb_claim_interface fails: the constructor throws, so that no        *)
(* destructor closes the handle, which keeps a reference of its own.       *)
ClaimFails ==
    /\ Fails /\ orphans < MaxOrphans
    /\ orphans' = orphans + 1
    /\ UNCHANGED refs

RebindWorks ==
    /\ gpc = "healing" /\ present
    /\ gpc' = "delay" /\ winusb' = TRUE
    /\ UNCHANGED <<refs, orphans, openFailures, present, busy>>

RebindFails ==
    /\ gpc = "healing"
    /\ gpc' = "delay"
    /\ UNCHANGED <<refs, orphans, openFailures, world>>

Delay ==                         \* three seconds, or the stop request
    /\ gpc = "delay"
    /\ gpc' = "loop"
    /\ UNCHANGED <<refs, orphans, openFailures, world>>

-----------------------------------------------------------------------------
(* The world: what only matters to an opening changes during one           *)

Plug ==
    /\ present' = ~present
    /\ UNCHANGED <<call, winusb, busy>>

OthersOpen ==
    /\ gpc # "idle"
    /\ busy' = ~busy
    /\ UNCHANGED <<call, present, winusb>>

WindowsUpdate ==
    /\ gpc # "idle" /\ winusb
    /\ winusb' = FALSE
    /\ UNCHANGED <<call, present, busy>>

-----------------------------------------------------------------------------
(* findDevice, getDevice, usb.cpp:69: in whichever way a call ends, the    *)
(* reference taken by findDevice is given back.  What stays is one handle  *)
(* with its reference for each claim that failed: nothing ever closes it,  *)
(* so that a worker that retries keeps one more after every such attempt.  *)
RefsBalanced == refs = orphans + (IF gpc = "found" THEN 1 ELSE 0)
=============================================================================
