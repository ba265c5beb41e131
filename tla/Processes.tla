------------------------------ MODULE Processes ------------------------------
(***************************************************************************)
(* main.cpp's process model: every running xow-win.exe, as a supervisor    *)
(* (--background), a worker (--worker --background) or interactively, and  *)
(* the named objects that keep them apart: the instance mutex, the worker  *)
(* mutex and the stop event, which exist as long as a process has a handle.*)
(*                                                                         *)
(* Any process may be started at any time and may be killed or crash at    *)
(* any step. A worker outlives a supervisor that was killed. What a worker *)
(* does with the dongle is module Worker; here it serves until it ends.    *)
(***************************************************************************)
EXTENDS Naturals, FiniteSets

CONSTANTS
    Copies,           \* slots for the copies that users and tasks start, and
    Workers,          \* for the workers of supervisors: bounds what runs at a time
    NoProc,
    FirstBackoff,     \* 2 in the code, seconds
    MaxBackoff        \* 60 in the code

ASSUME ProcessConstants ==
    /\ IsFiniteSet(Copies) /\ IsFiniteSet(Workers) /\ Copies \cap Workers = {}
    /\ NoProc \notin Copies \cup Workers
    /\ FirstBackoff \in Nat /\ MaxBackoff \in Nat /\ FirstBackoff <= MaxBackoff

VARIABLES
    kind,             \* how each copy was started
    pc,               \* step of each process
    child,            \* the supervisor's handle of the worker it started
    backoffSeconds,
    heard,            \* stopEventThread: off, waiting, stop (stopRequested)
    holders,          \* processes with a handle of the stop event
    stopEvent,        \* clear, signalled
    log, prevLog      \* xow-win.log and xow-win.prev.log exist

event == <<holders, stopEvent>>
files == <<log, prevLog>>
vars  == <<kind, pc, child, backoffSeconds, heard, holders, stopEvent, log, prevLog>>

Procs == Copies \cup Workers
Kinds == {"none", "supervisor", "interactive"}
Ended == {"quit", "failed"}              \* exit code zero, any other
SupervisorPC == {"rotate", "guard", "reset", "spawn", "retry", "watch", "stopping", "died", "backoff"}
WorkerPC == {"claim", "event", "serve"}

TypeOK ==
    /\ kind \in [Copies -> Kinds]
    /\ pc \in [Procs -> Ended \cup SupervisorPC \cup WorkerPC]
    /\ child \in [Copies -> Workers \cup {NoProc}]
    /\ backoffSeconds \in [Copies -> FirstBackoff..(2 * MaxBackoff)]
    /\ heard \in [Procs -> {"off", "waiting", "stop"}]
    /\ holders \in SUBSET Procs /\ stopEvent \in {"clear", "signalled"}
    /\ log \in BOOLEAN /\ prevLog \in BOOLEAN

Init ==
    /\ kind = [c \in Copies |-> "none"] /\ pc = [p \in Procs |-> "quit"]
    /\ child = [c \in Copies |-> NoProc]
    /\ backoffSeconds = [c \in Copies |-> FirstBackoff]
    /\ heard = [p \in Procs |-> "off"]
    /\ holders = {} /\ stopEvent = "clear"
    /\ log = FALSE /\ prevLog = FALSE

-----------------------------------------------------------------------------
Running(p) == pc[p] \notin Ended
NewCopy == CHOOSE c \in Copies : ~Running(c)
FreeWorkers == {w \in Workers : ~Running(w) /\ \A s \in Copies : child[s] # w}
NewWorker == CHOOSE w \in FreeWorkers : TRUE

\* a supervisor or interactive process that has the instance mutex
Instance(c) == Running(c) /\ pc[c] \notin {"rotate", "guard"}

\* a process that has the worker mutex: it drives the dongle
Driving(p) == pc[p] \in {"event", "serve"}

LogOpen ==
    \/ \E w \in Workers : Running(w)
    \/ \E c \in Copies : kind[c] = "supervisor" /\ Running(c) /\ pc[c] # "rotate"

Go(p, step) == pc' = [pc EXCEPT ![p] = step]

(* A process that is gone has closed its handles; an event nobody has a    *)
(* handle of is gone, and the next one is created clear.                   *)
Close(ps) ==
    /\ holders' = holders \ ps
    /\ stopEvent' = IF holders \subseteq ps THEN "clear" ELSE stopEvent
    /\ heard' = [p \in Procs |-> IF p \in ps THEN "off" ELSE heard[p]]

End(p, code) ==
    /\ Go(p, code) /\ Close({p})
    /\ child' = [c \in Copies |-> IF c = p THEN NoProc ELSE child[c]]
    /\ backoffSeconds' = [c \in Copies |-> IF c = p THEN FirstBackoff ELSE backoffSeconds[c]]
    /\ kind' = [c \in Copies |-> IF c = p THEN "none" ELSE kind[c]]
    /\ UNCHANGED files

-----------------------------------------------------------------------------
(* main *)

Launch(k) ==
    /\ \E c \in Copies : ~Running(c)
    /\ kind' = [kind EXCEPT ![NewCopy] = k]
    /\ Go(NewCopy, IF k = "supervisor" THEN "rotate" ELSE "guard")
    /\ UNCHANGED <<child, backoffSeconds, heard, event, files>>

(* DeleteFile, MoveFile (which fails for a log that is open), freopen.     *)
Rotate(p) ==
    /\ pc[p] = "rotate"
    /\ Go(p, "guard")
    /\ log' = TRUE /\ prevLog' = (log /\ ~LogOpen)
    /\ UNCHANGED <<kind, child, backoffSeconds, heard, event>>

TakeInstance(p) ==               \* "Only one instance may own the dongle"
    /\ pc[p] = "guard" /\ ~\E q \in Copies : Instance(q)
    /\ Go(p, "reset")
    /\ UNCHANGED <<kind, child, backoffSeconds, heard, event, files>>

SecondInstance(p) ==             \* "xow-win is already running"
    /\ pc[p] = "guard" /\ \E q \in Copies : Instance(q)
    /\ End(p, "failed")

(* CreateEvent, ResetEvent. An interactive copy closes its handle again;   *)
(* a supervisor that got none goes on without.                             *)
ResetStop(p) ==
    /\ pc[p] = "reset"
    /\ Go(p, IF kind[p] = "supervisor" THEN "spawn" ELSE "claim")
    /\ \/ /\ stopEvent' = "clear"
          /\ holders' = IF kind[p] = "supervisor" THEN holders \cup {p} ELSE holders
       \/ UNCHANGED event
    /\ UNCHANGED <<kind, child, backoffSeconds, heard, files>>

-----------------------------------------------------------------------------
(* runWorker *)

\* Mutant of ClaimDongle: only the instance mutex is looked at
ClaimUnchecked(p) ==
    /\ pc[p] = "claim"
    /\ Go(p, "event")
    /\ UNCHANGED <<kind, child, backoffSeconds, heard, event, files>>

ClaimDongle(p) ==                \* CreateMutex(WORKER_MUTEX_NAME)
    /\ pc[p] = "claim" /\ ~\E q \in Procs : Driving(q)
    /\ Go(p, "event")
    /\ UNCHANGED <<kind, child, backoffSeconds, heard, event, files>>

DongleTaken(p) ==
    /\ pc[p] = "claim" /\ \E q \in Procs : Driving(q)
    /\ End(p, "failed")

OpenStop(p) ==                   \* CreateEvent, start of stopEventThread
    /\ pc[p] = "event"
    /\ Go(p, "serve")
    /\ holders' \in {holders, holders \cup {p}}
    /\ UNCHANGED <<kind, child, backoffSeconds, heard, stopEvent, files>>

Listen(p) ==                     \* stopEventThread: WaitForSingleObject
    /\ pc[p] = "serve" /\ p \in holders /\ heard[p] = "off"
    /\ heard' = [heard EXCEPT ![p] = IF stopEvent = "signalled" THEN "stop" ELSE "waiting"]
    /\ UNCHANGED <<kind, pc, child, backoffSeconds, event, files>>

WorkerStops(p) ==
    /\ pc[p] = "serve" /\ heard[p] = "stop"
    /\ End(p, "quit")

ConsoleStops(p) ==               \* consoleHandler
    /\ pc[p] = "serve"
    /\ End(p, "quit")

-----------------------------------------------------------------------------
(* runSupervisor *)

Unchanging == <<kind, heard, event, files>>

Spawn(p) ==                      \* CreateProcess: the next free slot
    /\ pc[p] = "spawn" /\ FreeWorkers # {}
    /\ pc' = [pc EXCEPT ![p] = "watch", ![NewWorker] = "claim"]
    /\ child' = [child EXCEPT ![p] = NewWorker]
    /\ UNCHANGED <<backoffSeconds, Unchanging>>

SpawnFails(p) ==
    /\ pc[p] = "spawn"
    /\ Go(p, "retry")
    /\ UNCHANGED <<child, backoffSeconds, Unchanging>>

StopSeen(p) == p \in holders /\ stopEvent = "signalled"

RetrySpawn(p) ==                 \* ten seconds, or the stop event
    /\ pc[p] = "retry"
    /\ IF StopSeen(p) THEN End(p, "quit")
       ELSE Go(p, "spawn") /\ UNCHANGED <<child, backoffSeconds, Unchanging>>

\* Mutant of WorkerEnded: only the stop event is waited for
WorkerEndUnseen(p) ==
    /\ FALSE
    /\ UNCHANGED vars

(* WaitForMultipleObjects: the process, or the stop event; the process     *)
(* comes first, but may end after the wait did.                            *)
WorkerEnded(p) ==
    /\ pc[p] = "watch" /\ ~Running(child[p])
    /\ IF pc[child[p]] = "quit" THEN End(p, "quit")
       ELSE /\ Go(p, "died") /\ child' = [child EXCEPT ![p] = NoProc]
            /\ UNCHANGED <<backoffSeconds, Unchanging>>

WorkerToStop(p) ==
    /\ pc[p] = "watch" /\ StopSeen(p)
    /\ Go(p, "stopping")
    /\ UNCHANGED <<child, backoffSeconds, Unchanging>>

\* Mutant of StopWorker: the supervisor does not insist
StopWorkerPatiently(p) ==
    /\ pc[p] = "stopping"
    /\ End(p, "quit")

(* Eight seconds for the worker, then TerminateProcess.                    *)
StopWorker(p) ==
    /\ pc[p] = "stopping"
    /\ pc' = [q \in Procs |-> IF q = p THEN "quit"
                               ELSE IF q = child[p] /\ Running(q) THEN "failed" ELSE pc[q]]
    /\ kind' = [kind EXCEPT ![p] = "none"]
    /\ Close({p, child[p]})
    /\ child' = [child EXCEPT ![p] = NoProc]
    /\ backoffSeconds' = [backoffSeconds EXCEPT ![p] = FirstBackoff]
    /\ UNCHANGED files

NextBackoff(seconds) == IF seconds < MaxBackoff THEN seconds * 2 ELSE MaxBackoff

WorkerDied(p) ==                 \* a worker that ran for two minutes resets the delay
    /\ pc[p] = "died"
    /\ Go(p, "backoff")
    /\ \/ UNCHANGED backoffSeconds
       \/ backoffSeconds' = [backoffSeconds EXCEPT ![p] = FirstBackoff]
    /\ UNCHANGED <<child, Unchanging>>

\* Mutant of BackOff: the stop event is not looked at
BackOffDeaf(p) ==
    /\ pc[p] = "backoff"
    /\ Go(p, "spawn")
    /\ backoffSeconds' = [backoffSeconds EXCEPT ![p] = NextBackoff(backoffSeconds[p])]
    /\ UNCHANGED <<child, Unchanging>>

BackOff(p) ==                    \* the delay, or the stop event
    /\ pc[p] = "backoff"
    /\ IF StopSeen(p) THEN End(p, "quit")
       ELSE /\ Go(p, "spawn")
            /\ backoffSeconds' = [backoffSeconds EXCEPT ![p] = NextBackoff(backoffSeconds[p])]
            /\ UNCHANGED <<child, Unchanging>>

-----------------------------------------------------------------------------
(* The stop script, and the end of a process at any step *)

SignalStop ==                    \* whoever waits is released at once
    /\ holders # {} /\ stopEvent = "clear"
    /\ stopEvent' = "signalled"
    /\ heard' = [p \in Procs |-> IF heard[p] = "waiting" THEN "stop" ELSE heard[p]]
    /\ UNCHANGED <<kind, pc, child, backoffSeconds, holders, files>>

Dies(p) ==                       \* crash, fatal exception, taskkill
    /\ Running(p)
    /\ End(p, "failed")

Begin(c) == Rotate(c) \/ TakeInstance(c) \/ SecondInstance(c)
Supervise(c) == ResetStop(c) \/ Spawn(c) \/ RetrySpawn(c) \/ WorkerEnded(c)
    \/ WorkerToStop(c) \/ StopWorker(c) \/ WorkerDied(c) \/ BackOff(c)
Work(p) == ClaimDongle(p) \/ DongleTaken(p) \/ OpenStop(p) \/ Listen(p) \/ WorkerStops(p)

Next ==
    \/ \E k \in {"supervisor", "interactive"} : Launch(k)
    \/ SignalStop
    \/ \E c \in Copies : Begin(c) \/ Supervise(c) \/ SpawnFails(c)
    \/ \E p \in Procs : Work(p) \/ ConsoleStops(p) \/ Dies(p)

(* Processes run on and waits with a timeout end. CreateProcess does not   *)
(* fail for ever, and not every worker dies before it takes the mutex.     *)
(* Nobody has to start or stop anything. One condition for all instances   *)
(* is enough, as there is one at a time.                                   *)
Fairness ==
    /\ WF_vars(\E c \in Copies : Supervise(c)) /\ SF_vars(\E c \in Copies : Spawn(c))
    /\ WF_vars(\E p \in Procs : Work(p)) /\ SF_vars(\E p \in Procs : ClaimDongle(p))

Spec == Init /\ [][Next]_vars /\ Fairness

-----------------------------------------------------------------------------
(* main.cpp:762, "Only one instance may own the dongle": at most one       *)
(* process drives it, also when a supervisor was killed and its worker is  *)
(* still there while a new one is started.                                 *)
OneDriver == Cardinality({p \in Procs : Driving(p)}) <= 1

(* runSupervisor returns only when there is nothing left for it to do: its *)
(* worker is not running, and either a stop was requested or the worker    *)
(* ended normally. A supervisor never gives up a worker that died.         *)
LeavesInOrder ==
    [][\A s \in Copies : (pc[s] \in SupervisorPC /\ pc'[s] = "quit") =>
          /\ child[s] # NoProc => pc'[child[s]] \in Ended
          /\ stopEvent = "signalled" \/ (child[s] # NoProc /\ pc[child[s]] = "quit")]_vars

(* README.md:36, the supervisor "restarts it if it dies": as long as there *)
(* is a supervisor, somebody comes to drive the dongle, whichever of the   *)
(* processes are killed and whoever holds the worker mutex meanwhile.      *)
Driven ==
    \A s \in Copies : (kind[s] = "supervisor" /\ Instance(s)) ~>
        (~Running(s) \/ \E p \in Procs : Driving(p))

(* A stop request that comes when the instance has reset the event ends    *)
(* it, and is not reset by a copy that is started meanwhile.               *)
StopEnds ==
    \A c \in Copies : (stopEvent = "signalled" /\ c \in holders /\ Instance(c)) ~> ~Running(c)

(* main.cpp:709, "keep the previous run's log so a crash is never lost":   *)
(* the previous log is not deleted while the run that kept it goes on.     *)
PreviousKept ==
    [][(\E s \in Copies : kind[s] = "supervisor" /\ Instance(s)) => (prevLog => prevLog')]_vars

(* README.md:36, "2 s backoff, doubling to 60 s": no delay is longer.      *)
BackoffCapped == \A s \in Copies : pc[s] = "backoff" => backoffSeconds[s] <= MaxBackoff
=============================================================================
