------------------------------- MODULE Worker --------------------------------
(***************************************************************************)
(* main.cpp's worker: the loop of runWorker that opens, serves, closes and *)
(* heals the dongle, and the threads that interrupt it: the power          *)
(* notification, the reset event, the stop request, and the dongle's own   *)
(* threads, which report a lost dongle or a flapping link.                 *)
(*                                                                         *)
(* The loop's DongleWatch lives on the stack of one iteration; the         *)
(* callbacks reach it through the global activeWatch, which they test in   *)
(* one step and use in another.  A watch that is used after its iteration  *)
(* ended is undefined behaviour: the next watch, built at the same place,  *)
(* may or may not count as lost.                                           *)
(*                                                                         *)
(* Delays are steps of arbitrary length.  Counters are kept up to what the *)
(* code can tell apart: initFailures modulo 3 and whether it reached 3.    *)
(***************************************************************************)
EXTENDS Naturals

CONSTANT MaxFlaps     \* 3 in the code: resets per window of ten minutes

ASSUME FlapsBound == MaxFlaps \in Nat

VARIABLES
    stopRequested, suspended, cycleRequested,   \* the global flags
    activeWatch,      \* none, live (the current watch), dangling
    lost,             \* watch.lost
    mpc,              \* main thread
    opened,           \* the dongle's USB handle is open
    retry,            \* retryDelay: none (0), delay (> 0), cycle (-1)
    initFailures, flapCycles,
    ppc, cpc, fpc,    \* power callback, reset-event and dongle threads
    elevated,         \* Recover::isElevated()
    sinceCycle,       \* history: failed initialisations in a row since the
                      \* port was last cycled
    unsafeCycle       \* history: the port was cycled under an open handle

flags == <<stopRequested, suspended, cycleRequested>>
loop  == <<opened, retry, initFailures>>
calls == <<ppc, cpc, fpc>>
rights == <<elevated>>
hist  == <<sinceCycle, unsafeCycle>>
vars  == <<stopRequested, suspended, cycleRequested, activeWatch, lost, mpc,
           opened, retry, initFailures, flapCycles, ppc, cpc, fpc, elevated,
           sinceCycle, unsafeCycle>>

MainPC == {"top", "asleep", "settle", "watch", "open", "init", "install",
           "wait", "verdict", "close", "caught", "detach", "cycle", "sleep",
           "quit", "unwind", "exit", "done"}
CallPC == {"idle", "test", "use", "stale"}
FlapPC == {"idle", "count", "request", "report"}

TypeOK ==
    /\ stopRequested \in BOOLEAN /\ suspended \in BOOLEAN
    /\ cycleRequested \in BOOLEAN
    /\ activeWatch \in {"none", "live", "dangling"}
    /\ lost \in BOOLEAN /\ mpc \in MainPC /\ opened \in BOOLEAN
    /\ retry \in {"none", "delay", "cycle"}
    /\ initFailures \in 0..5 /\ flapCycles \in 0..MaxFlaps
    /\ ppc \in CallPC /\ cpc \in CallPC /\ fpc \in FlapPC
    /\ elevated \in BOOLEAN
    /\ sinceCycle \in 0..3 /\ unsafeCycle \in BOOLEAN

Init ==
    /\ stopRequested = FALSE /\ suspended = FALSE /\ cycleRequested = FALSE
    /\ activeWatch = "none" /\ lost = FALSE
    /\ mpc = "top" /\ opened = FALSE /\ retry = "delay"
    /\ initFailures = 0 /\ flapCycles = 0
    /\ ppc = "idle" /\ cpc = "idle" /\ fpc = "idle"
    /\ elevated \in BOOLEAN
    /\ sinceCycle = 0 /\ unsafeCycle = FALSE

-----------------------------------------------------------------------------
(* Main thread: runWorker *)

\* a callback that holds a pointer to the watch that goes out of scope
Stale(call) == IF call = "use" THEN "stale" ELSE call

WatchEnds == ppc' = Stale(ppc) /\ cpc' = Stale(cpc) /\ UNCHANGED fpc

LoopTop ==                       \* while (!stopRequested), if (suspended)
    /\ mpc = "top"
    /\ mpc' = IF stopRequested THEN "exit" ELSE IF suspended THEN "asleep" ELSE "watch"
    /\ UNCHANGED <<flags, activeWatch, lost, loop, flapCycles, calls, rights, hist>>

Resumed ==                       \* polled every 200 ms
    /\ mpc = "asleep" /\ (~suspended \/ stopRequested)
    /\ mpc' = "settle"
    /\ UNCHANGED <<flags, activeWatch, lost, loop, flapCycles, calls, rights, hist>>

Settled ==                       \* three seconds for the USB stack
    /\ mpc = "settle"
    /\ mpc' = "watch"
    /\ initFailures' = 0 /\ sinceCycle' = 0
    /\ UNCHANGED <<flags, activeWatch, lost, opened, retry, flapCycles, calls,
                   rights, unsafeCycle>>

\* Mutant of NewWatch: one watch is used for all iterations and not reset
NewWatchKeeps ==
    /\ mpc = "watch"
    /\ mpc' = "open" /\ activeWatch' = "live"
    /\ UNCHANGED <<flags, lost, loop, flapCycles, calls, rights, hist>>

NewWatch ==                      \* DongleWatch watch; activeWatch = &watch
    /\ mpc = "watch"
    /\ mpc' = "open"
    /\ lost' = FALSE /\ activeWatch' = "live"
    /\ UNCHANGED <<flags, loop, flapCycles, calls, rights, hist>>

(* getDevice as seen from here (module Service puts Adapter in its place): *)
(* only a stop ends its loop, which may still open a device meanwhile. An  *)
(* adapter that is absent or cannot be opened is tried again, a failure to *)
(* list devices is thrown.                                                 *)
DeviceOpened ==
    /\ mpc = "open"
    /\ mpc' = "init" /\ opened' = TRUE /\ retry' = "delay"
    /\ UNCHANGED <<flags, activeWatch, lost, initFailures, flapCycles, calls, rights, hist>>

GetDeviceStops ==
    /\ mpc = "open" /\ stopRequested
    /\ mpc' = "unwind"
    /\ UNCHANGED <<flags, activeWatch, lost, loop, flapCycles, calls, rights, hist>>

ListingFails ==
    /\ mpc = "open"
    /\ mpc' = "unwind"
    /\ UNCHANGED <<flags, activeWatch, lost, loop, flapCycles, calls, rights, hist>>

(* Dongle's constructor; when it throws the device is closed already.      *)
DongleReady ==
    /\ mpc = "init"
    /\ mpc' = "install" /\ initFailures' = 0 /\ sinceCycle' = 0
    /\ UNCHANGED <<flags, activeWatch, lost, opened, retry, flapCycles, calls,
                   rights, unsafeCycle>>

\* Mutant of DongleThrows: the exception leaves the device open
DongleThrowsOpen ==
    /\ mpc = "init"
    /\ mpc' = "caught"
    /\ initFailures' = IF initFailures = 5 THEN 3 ELSE initFailures + 1
    /\ sinceCycle' = IF sinceCycle = 3 THEN 3 ELSE sinceCycle + 1
    /\ UNCHANGED <<flags, activeWatch, lost, opened, retry, flapCycles, calls, rights, unsafeCycle>>

DongleThrows ==
    /\ mpc = "init"
    /\ mpc' = "caught" /\ opened' = FALSE
    /\ initFailures' = IF initFailures = 5 THEN 3 ELSE initFailures + 1
    /\ sinceCycle' = IF sinceCycle = 3 THEN 3 ELSE sinceCycle + 1
    /\ UNCHANGED <<flags, activeWatch, lost, retry, flapCycles, calls, rights, unsafeCycle>>

InstallHandler ==                \* setLinkFlapHandler
    /\ mpc = "install"
    /\ mpc' = "wait"
    /\ UNCHANGED <<flags, activeWatch, lost, loop, flapCycles, calls, rights, hist>>

\* Mutant of WatchWait: the wait only looks at lost
WatchWaitDeaf ==
    /\ mpc = "wait" /\ lost
    /\ mpc' = "verdict"
    /\ UNCHANGED <<flags, activeWatch, lost, loop, flapCycles, calls, rights, hist>>

WatchWait ==                     \* polled every 200 ms
    /\ mpc = "wait" /\ (lost \/ stopRequested)
    /\ mpc' = IF lost THEN "verdict" ELSE "quit"
    /\ UNCHANGED <<flags, activeWatch, lost, loop, flapCycles, calls, rights, hist>>

Verdict ==
    /\ mpc = "verdict"
    /\ mpc' = "close"
    /\ retry' = IF suspended THEN "none" ELSE IF cycleRequested THEN "cycle" ELSE "delay"
    /\ UNCHANGED <<flags, activeWatch, lost, opened, initFailures, flapCycles,
                   calls, rights, hist>>

(* ~Dongle joins the threads a flap is reported from.                      *)
CloseDongle ==
    /\ mpc \in {"close", "quit"} /\ fpc = "idle"
    /\ mpc' = IF mpc = "close" THEN "detach" ELSE "unwind"
    /\ opened' = FALSE
    /\ UNCHANGED <<flags, activeWatch, lost, retry, initFailures, flapCycles,
                   calls, rights, hist>>

CyclePort == sinceCycle' = 0 /\ unsafeCycle' = (unsafeCycle \/ opened)

\* Mutant of ThirdFailure: off by one
ThirdFailureLate == initFailures >= 3 /\ initFailures % 3 = 1

ThirdFailure == initFailures > 0 /\ initFailures % 3 = 0

HealInit ==                      \* the catch block
    /\ mpc = "caught"
    /\ mpc' = "detach" /\ retry' = "delay"
    /\ IF ThirdFailure /\ elevated THEN CyclePort ELSE UNCHANGED hist
    /\ UNCHANGED <<flags, activeWatch, lost, opened, initFailures, flapCycles, calls, rights>>

Detach ==                        \* activeWatch = nullptr
    /\ mpc = "detach"
    /\ mpc' = "cycle" /\ activeWatch' = "none"
    /\ UNCHANGED <<flags, lost, loop, flapCycles, calls, rights, hist>>

\* Mutant of CycleNow: only the verdict decides about the cycle
CycleNowVerdictOnly ==
    /\ mpc = "cycle"
    /\ mpc' = "sleep"
    /\ IF retry = "cycle"
       THEN /\ cycleRequested' = FALSE /\ retry' = "delay"
            /\ IF elevated THEN CyclePort ELSE UNCHANGED hist
       ELSE UNCHANGED <<cycleRequested, retry, hist>>
    /\ UNCHANGED <<stopRequested, suspended, activeWatch, lost, opened,
                   initFailures, flapCycles, calls, rights>>

CycleNow ==                      \* if (retryDelay < 0 || cycleRequested)
    /\ mpc = "cycle"
    /\ mpc' = "sleep"
    /\ IF retry = "cycle" \/ cycleRequested
       THEN /\ cycleRequested' = FALSE /\ retry' = "delay"
            /\ IF elevated THEN CyclePort ELSE UNCHANGED hist
       ELSE UNCHANGED <<cycleRequested, retry, hist>>
    /\ UNCHANGED <<stopRequested, suspended, activeWatch, lost, opened,
                   initFailures, flapCycles, calls, rights>>

SleepEnds ==                     \* sleepInterruptible; the iteration ends
    /\ mpc = "sleep"
    /\ mpc' = "top" /\ WatchEnds
    /\ UNCHANGED <<flags, activeWatch, lost, loop, flapCycles, rights, hist>>

Unwind ==                        \* break, or the exception leaves the loop
    /\ mpc = "unwind"
    /\ mpc' = "exit" /\ WatchEnds /\ activeWatch' = "dangling"
    /\ UNCHANGED <<flags, lost, loop, flapCycles, rights, hist>>

Exit ==                          \* activeWatch = nullptr, return
    /\ mpc = "exit"
    /\ mpc' = "done" /\ activeWatch' = "none"
    /\ UNCHANGED <<flags, lost, loop, flapCycles, calls, rights, hist>>

LoopStep == LoopTop \/ Resumed \/ Settled \/ DongleReady \/ InstallHandler
    \/ WatchWait \/ Verdict \/ CloseDongle \/ HealInit \/ Detach \/ CycleNow
    \/ SleepEnds \/ Unwind \/ Exit

MainStep == LoopStep \/ NewWatch \/ GetDeviceStops

-----------------------------------------------------------------------------
(* Callbacks: powerCallback, cycleEventThread, requestStop *)

Tested == IF activeWatch = "live" THEN "use" ELSE
          IF activeWatch = "dangling" THEN "stale" ELSE "idle"

Suspend ==
    /\ ppc = "idle" /\ mpc # "done"
    /\ ppc' = "test" /\ suspended' = TRUE
    /\ UNCHANGED <<stopRequested, cycleRequested, activeWatch, lost, mpc, loop,
                   flapCycles, cpc, fpc, rights, hist>>

Resume ==
    /\ ppc = "idle" /\ suspended /\ mpc # "done"
    /\ suspended' = FALSE
    /\ UNCHANGED <<stopRequested, cycleRequested, activeWatch, lost, mpc, loop,
                   flapCycles, calls, rights, hist>>

PowerTest ==                     \* if (activeWatch)
    /\ ppc = "test"
    /\ ppc' = Tested
    /\ UNCHANGED <<flags, activeWatch, lost, mpc, loop, flapCycles, cpc, fpc, rights, hist>>

\* Mutant of PowerUse: the power callback only sets the flag
PowerUseSilent ==
    /\ ppc \in {"use", "stale"}
    /\ ppc' = "idle"
    /\ UNCHANGED <<flags, activeWatch, lost, mpc, loop, flapCycles, cpc, fpc, rights, hist>>

PowerUse ==                      \* activeWatch->lostDongle()
    /\ ppc \in {"use", "stale"}
    /\ ppc' = "idle"
    /\ lost' \in IF ppc = "use" THEN {TRUE} ELSE {lost, TRUE}
    /\ UNCHANGED <<flags, activeWatch, mpc, loop, flapCycles, cpc, fpc, rights, hist>>

ResetEvent ==                    \* Reset-Xbox-Adapter.cmd
    /\ cpc = "idle" /\ mpc # "done"
    /\ cpc' = "test" /\ cycleRequested' = TRUE
    /\ UNCHANGED <<stopRequested, suspended, activeWatch, lost, mpc, loop,
                   flapCycles, ppc, fpc, rights, hist>>

ResetTest ==
    /\ cpc = "test"
    /\ cpc' = Tested
    /\ UNCHANGED <<flags, activeWatch, lost, mpc, loop, flapCycles, ppc, fpc, rights, hist>>

ResetUse ==
    /\ cpc \in {"use", "stale"}
    /\ cpc' = "idle"
    /\ lost' \in IF cpc = "use" THEN {TRUE} ELSE {lost, TRUE}
    /\ UNCHANGED <<flags, activeWatch, mpc, loop, flapCycles, ppc, fpc, rights, hist>>

RequestStop ==
    /\ ~stopRequested /\ mpc # "done"
    /\ stopRequested' = TRUE
    /\ UNCHANGED <<suspended, cycleRequested, activeWatch, lost, mpc, loop,
                   flapCycles, calls, rights, hist>>

-----------------------------------------------------------------------------
(* The dongle's threads *)

Terminate ==                     \* the USB layer calls watch.lostDongle()
    /\ opened
    /\ lost' = TRUE
    /\ UNCHANGED <<flags, activeWatch, mpc, loop, flapCycles, calls, rights, hist>>

FlapStarts ==                    \* a controller left within 15 s
    /\ opened /\ mpc \in {"wait", "verdict", "close", "quit"} /\ fpc = "idle"
    /\ fpc' = "count"
    /\ UNCHANGED <<flags, activeWatch, lost, mpc, loop, flapCycles, ppc, cpc, rights, hist>>

FlapCount ==                     \* a new window may have begun
    /\ fpc = "count"
    /\ \E counted \in {0, flapCycles} :
          IF counted >= MaxFlaps
          THEN fpc' = "idle" /\ flapCycles' = counted
          ELSE fpc' = "request" /\ flapCycles' = counted + 1
    /\ UNCHANGED <<flags, activeWatch, lost, mpc, loop, ppc, cpc, rights, hist>>

FlapRequest ==                   \* cycleRequested = true
    /\ fpc = "request"
    /\ fpc' = "report" /\ cycleRequested' = TRUE
    /\ UNCHANGED <<stopRequested, suspended, activeWatch, lost, mpc, loop,
                   flapCycles, ppc, cpc, rights, hist>>

FlapReport ==                    \* watch.lostDongle()
    /\ fpc = "report"
    /\ fpc' = "idle" /\ lost' = TRUE
    /\ UNCHANGED <<flags, activeWatch, mpc, loop, flapCycles, ppc, cpc, rights, hist>>

-----------------------------------------------------------------------------
PowerCall == PowerTest \/ PowerUse
ResetCall == ResetTest \/ ResetUse
FlapCall  == FlapCount \/ FlapRequest \/ FlapReport

Call == PowerCall \/ ResetCall \/ FlapCall
Outside == Suspend \/ Resume \/ ResetEvent \/ Terminate \/ FlapStarts

Next ==
    \/ MainStep \/ DeviceOpened \/ ListingFails \/ DongleThrows
    \/ Call \/ Outside \/ RequestStop

(* Each thread runs on: sleeps end, polls are repeated, callbacks return.  *)
(* An adapter that is there is opened in the end, and not every            *)
(* initialisation fails.  ~Dongle has told the reader threads to stop, so  *)
(* they do not report flaps for ever and the join ends (module Dongle,     *)
(* LostCloses).  Nobody has to suspend, resume, reset or stop.             *)
Fairness ==
    /\ WF_vars(MainStep) /\ WF_vars(DeviceOpened) /\ SF_vars(DongleReady)
    /\ SF_vars(CloseDongle)
    /\ WF_vars(PowerCall) /\ WF_vars(ResetCall) /\ WF_vars(FlapCall)

Safety == Init /\ [][Next]_vars
Spec == Safety /\ Fairness

-----------------------------------------------------------------------------
(* main.cpp:514, "The dongle is closed now: safe to cycle its port": the   *)
(* port is never cycled while the worker has the device open.              *)
CycleClosed == ~unsafeCycle

(* README.md:40, "after 3 failed dongle initializations, cycles the        *)
(* adapter's USB port": with admin rights there are never three failures   *)
(* in a row without a cycle, however often this repeats.                   *)
HealsInit == (elevated /\ mpc # "caught") => sinceCycle < 3

(* A reset that the flap detector asked for is carried out, also when the  *)
(* request comes while the dongle is being closed for another reason.      *)
FlapServed == (fpc = "report") ~> (~cycleRequested \/ stopRequested)

(* A suspend notification that finds a watch makes the dongle be released, *)
(* also when it comes while the dongle is being opened or initialised.     *)
SuspendReleases == (ppc = "use" /\ opened) ~> ~opened

(* A stop request ends the worker, whatever it is waiting for.             *)
StopExits == stopRequested ~> (mpc = "done")

(* When nothing interrupts any more, the worker comes to serve the dongle  *)
(* for good, unless it was stopped or the system stays asleep.             *)
Interrupted == Terminate \/ Suspend \/ ResetEvent \/ FlapStarts \/ ListingFails

Settles ==
    (<>[][~Interrupted]_vars) =>
        <>[](mpc \in {"wait", "asleep", "done"} /\ (mpc = "wait" => ~lost))

(* main.cpp:75, the dongle "should be USB-cycled at the next opportunity"; *)
(* install.ps1:158, "The controller should reconnect within about 15       *)
(* seconds": a reset request is acted on, at least when nothing interrupts *)
(* the worker any more and the system is awake.                            *)
ResetServed ==
    (<>[][~Interrupted]_vars) =>
        (cycleRequested ~> (~cycleRequested \/ stopRequested \/ mpc \in {"asleep", "done"}))

(* main.cpp:82, "the dongle is released before suspend": the system does   *)
(* not stay asleep with the dongle open.                                   *)
ReleasedForSleep == suspended ~> (~suspended \/ ~opened)
=============================================================================
