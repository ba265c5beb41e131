--------------------------- MODULE ProcessesProofs ---------------------------
(***************************************************************************)
(* The process model for any number of copies and workers: at most one     *)
(* process drives the dongle, and a supervisor only leaves when there is   *)
(* nothing left for it to do.                                              *)
(***************************************************************************)
EXTENDS Processes, FiniteSetTheorems, TLAPS

(* The two mutexes, each entered only when nobody is inside.               *)
OneInstance == \A c, d \in Copies : Instance(c) /\ Instance(d) => c = d
SoleDriver == \A p, q \in Procs : Driving(p) /\ Driving(q) => p = q

(* Workers do not supervise, and a supervisor has a child while it watches *)
(* or stops it. The request that it stops for is still there: only another *)
(* instance could reset the event, and only the last holder could lose it. *)
Roles == \A w \in Workers : pc[w] \in WorkerPC \cup Ended
Children ==
    \A c \in Copies :
        /\ child[c] # NoProc <=> pc[c] \in {"watch", "stopping"}
        /\ pc[c] = "stopping" => c \in holders /\ stopEvent = "signalled"

IInv == TypeOK /\ OneInstance /\ SoleDriver /\ Roles /\ Children

-----------------------------------------------------------------------------
(* A copy is started in a slot that nothing runs in.                       *)
LEMMA NewCopyFree ==
  ASSUME \E c \in Copies : ~Running(c)
  PROVE  NewCopy \in Copies /\ ~Running(NewCopy)
  BY DEF NewCopy

(* A worker is started in a slot that nothing runs in, nobody's child.     *)
LEMMA NewWorkerFree ==
  ASSUME FreeWorkers # {}
  PROVE  /\ NewWorker \in Workers /\ ~Running(NewWorker)
         /\ \A s \in Copies : child[s] # NewWorker
<1>1. NewWorker \in FreeWorkers
  BY DEF NewWorker
<1> QED
  BY <1>1 DEF FreeWorkers

(* What the end of a process leaves: everybody else goes on, and a stop    *)
(* event that somebody else holds stays as it is.                          *)
LEMMA EndKeeps ==
  ASSUME TypeOK, NEW p \in Procs, NEW code \in Ended, End(p, code)
  PROVE  /\ TypeOK'
         /\ pc' = [pc EXCEPT ![p] = code]
         /\ \A c \in Copies : child'[c] = IF c = p THEN NoProc ELSE child[c]
         /\ holders' = holders \ {p}
         /\ holders \subseteq {p} \/ stopEvent' = stopEvent
<1>1. pc' \in [Procs -> Ended \cup SupervisorPC \cup WorkerPC]
  BY DEF TypeOK, End, Go
<1>2. backoffSeconds' \in [Copies -> FirstBackoff..(2 * MaxBackoff)]
  <2>1. FirstBackoff \in FirstBackoff..(2 * MaxBackoff)
    BY ProcessConstants
  <2> QED
    BY <2>1 DEF TypeOK, End
<1>3. heard' \in [Procs -> {"off", "waiting", "stop"}]
  BY DEF TypeOK, End, Close
<1>4. kind' \in [Copies -> Kinds] /\ child' \in [Copies -> Workers \cup {NoProc}]
  BY DEF TypeOK, End, Kinds
<1>5. holders' \in SUBSET Procs /\ stopEvent' \in {"clear", "signalled"}
  BY DEF TypeOK, End, Close
<1>6. log' \in BOOLEAN /\ prevLog' \in BOOLEAN
  BY DEF TypeOK, End, files
<1> QED
  BY <1>1, <1>2, <1>3, <1>4, <1>5, <1>6 DEF TypeOK, End, Close, Go

(* A process that has ended is not inside, not at work and supervises      *)
(* nobody, so that the invariant stands.                                   *)
LEMMA EndInv ==
  ASSUME IInv, NEW p \in Procs, NEW code \in Ended, End(p, code)
  PROVE  IInv'
<1> USE ProcessConstants DEF IInv
<1>1. TypeOK'
  BY EndKeeps
<1>2. \A q \in Procs : pc'[q] = IF q = p THEN code ELSE pc[q]
  BY EndKeeps DEF TypeOK
<1>3. OneInstance'
  BY <1>2 DEF OneInstance, Instance, Running, Procs
<1>4. SoleDriver'
  BY <1>2 DEF SoleDriver, Driving, Ended
<1>5. Roles'
  BY <1>2 DEF Roles, Procs
<1>6. Children'
  BY <1>2, EndKeeps DEF Children, Procs, Ended
<1> QED
  BY <1>1, <1>3, <1>4, <1>5, <1>6

-----------------------------------------------------------------------------
(* The initial state satisfies the invariant.                              *)
LEMMA InitInv == Init => IInv
<1> SUFFICES ASSUME Init PROVE IInv
  OBVIOUS
<1>1. FirstBackoff \in FirstBackoff..(2 * MaxBackoff)
  BY ProcessConstants
<1>2. log \in BOOLEAN /\ prevLog \in BOOLEAN
  BY DEF Init
<1>3. TypeOK
  BY <1>1, <1>2 DEF Init, TypeOK, Ended, Kinds
<1>4. OneInstance /\ SoleDriver /\ Roles
  BY DEF Init, OneInstance, Instance, Running, SoleDriver, Driving, Roles, Procs, Ended
<1>5. Children
  BY DEF Init, Children, Procs
<1> QED
  BY <1>3, <1>4, <1>5 DEF IInv

(* Starting a copy, and a stop request from outside.                       *)
LEMMA OutsideInv ==
  ASSUME IInv, SignalStop \/ \E k \in {"supervisor", "interactive"} : Launch(k)
  PROVE  IInv'
<1> USE ProcessConstants DEF IInv
<1>1. CASE SignalStop
  <2>1. heard' \in [Procs -> {"off", "waiting", "stop"}]
    BY <1>1 DEF SignalStop, TypeOK
  <2>2. TypeOK'
    BY <1>1, <2>1 DEF SignalStop, TypeOK, files
  <2> QED
    BY <1>1, <2>2 DEF SignalStop, OneInstance, Instance, Running, SoleDriver,
       Driving, Roles, Children
<1>2. ASSUME NEW k \in {"supervisor", "interactive"}, Launch(k) PROVE IInv'
  <2>1. NewCopy \in Copies /\ ~Running(NewCopy)
    BY <1>2, NewCopyFree DEF Launch
  <2>2. PICK step \in {"rotate", "guard"} : pc' = [pc EXCEPT ![NewCopy] = step]
    BY <1>2 DEF Launch, Go
  <2>3. TypeOK'
    BY <1>2, <2>1, <2>2 DEF Launch, TypeOK, Kinds, event, files, SupervisorPC
  <2>4. OneInstance' /\ SoleDriver' /\ Roles'
    BY <2>1, <2>2 DEF OneInstance, Instance, Running, SoleDriver, Driving, Roles,
       Procs, TypeOK
  <2>5. Children'
    BY <1>2, <2>1, <2>2 DEF Children, Launch, Running, Ended, Procs, TypeOK, event
  <2> QED
    BY <2>3, <2>4, <2>5
<1> QED
  BY <1>1, <1>2

(* A start of a copy, up to the instance mutex and the reset of the event  *)
(* that it allows.                                                         *)
LEMMA BeginInv ==
  ASSUME IInv, NEW c \in Copies, Begin(c) \/ ResetStop(c)
  PROVE  IInv'
<1> USE ProcessConstants DEF IInv, Procs
<1>1. CASE Rotate(c)
  <2>1. log' \in BOOLEAN /\ prevLog' \in BOOLEAN
    BY <1>1 DEF Rotate, TypeOK
  <2>2. TypeOK'
    BY <1>1, <2>1 DEF Rotate, Go, TypeOK, event, SupervisorPC
  <2> QED
    BY <1>1, <2>2 DEF Rotate, Go, TypeOK, OneInstance, Instance, Running,
       SoleDriver, Driving, Roles, Children, event
<1>2. CASE TakeInstance(c)
  <2>1. TypeOK'
    BY <1>2 DEF TakeInstance, Go, TypeOK, event, files, SupervisorPC
  <2>2. OneInstance'
    BY <1>2 DEF TakeInstance, Go, TypeOK, OneInstance, Instance, Running
  <2> QED
    BY <1>2, <2>1, <2>2 DEF TakeInstance, Go, TypeOK, SoleDriver, Driving, Roles,
       Children, event
<1>3. CASE SecondInstance(c)
  BY <1>3, EndInv DEF SecondInstance, Ended
<1>4. CASE ResetStop(c)
  <2>1. PICK step \in {"spawn", "claim"} : pc' = [pc EXCEPT ![c] = step]
    BY <1>4 DEF ResetStop, Go
  <2>2. TypeOK'
    BY <1>4, <2>1 DEF ResetStop, TypeOK, event, files, SupervisorPC, WorkerPC
  <2>3. OneInstance' /\ SoleDriver' /\ Roles'
    BY <1>4, <2>1 DEF ResetStop, OneInstance, Instance, Running, Ended, SoleDriver,
       Driving, Roles, TypeOK
  <2>4. \A d \in Copies : pc[d] # "stopping"
    BY <1>4 DEF ResetStop, OneInstance, Instance, Running, Ended
  <2>5. Children'
    BY <1>4, <2>1, <2>4 DEF ResetStop, Children, TypeOK
  <2> QED
    BY <2>2, <2>3, <2>5
<1> QED
  BY <1>1, <1>2, <1>3, <1>4 DEF Begin

(* runWorker: the worker mutex is taken only by a process that finds it    *)
(* free.                                                                   *)
LEMMA WorkInv ==
  ASSUME IInv, NEW p \in Procs, Work(p) \/ ConsoleStops(p) \/ Dies(p)
  PROVE  IInv'
<1> USE ProcessConstants DEF IInv
<1>1. CASE ClaimDongle(p)
  <2>1. TypeOK'
    BY <1>1 DEF ClaimDongle, Go, TypeOK, event, files, WorkerPC
  <2>2. SoleDriver'
    BY <1>1 DEF ClaimDongle, Go, TypeOK, SoleDriver, Driving
  <2>3. OneInstance' /\ Roles'
    BY <1>1 DEF ClaimDongle, Go, TypeOK, OneInstance, Instance, Running, Ended, Roles,
       WorkerPC, Procs
  <2>4. Children'
    BY <1>1 DEF ClaimDongle, Go, TypeOK, Children, event, Procs
  <2> QED
    BY <2>1, <2>2, <2>3, <2>4
<1>2. CASE OpenStop(p)
  <2>1. TypeOK'
    BY <1>2 DEF OpenStop, Go, TypeOK, files, WorkerPC
  <2>2. SoleDriver'
    BY <1>2 DEF OpenStop, Go, TypeOK, SoleDriver, Driving
  <2>3. OneInstance' /\ Roles'
    BY <1>2 DEF OpenStop, Go, TypeOK, OneInstance, Instance, Running, Ended, Roles,
       WorkerPC, Procs
  <2>4. Children'
    BY <1>2 DEF OpenStop, Go, TypeOK, Children, Procs
  <2> QED
    BY <2>1, <2>2, <2>3, <2>4
<1>3. CASE Listen(p)
  <2>1. TypeOK'
    BY <1>3 DEF Listen, TypeOK, event, files
  <2> QED
    BY <1>3, <2>1 DEF Listen, event, OneInstance, Instance, Running, SoleDriver,
       Driving, Roles, Children
<1>4. CASE DongleTaken(p)
  BY <1>4, EndInv DEF DongleTaken, Ended
<1>5. CASE WorkerStops(p)
  BY <1>5, EndInv DEF WorkerStops, Ended
<1>6. CASE ConsoleStops(p)
  BY <1>6, EndInv DEF ConsoleStops, Ended
<1>7. CASE Dies(p)
  BY <1>7, EndInv DEF Dies, Ended
<1> QED
  BY <1>1, <1>2, <1>3, <1>4, <1>5, <1>6, <1>7 DEF Work

(* runSupervisor: the child comes from a free slot and is let go when the  *)
(* supervisor stops watching it.                                           *)
LEMMA SuperviseInv ==
  ASSUME IInv, NEW c \in Copies, Supervise(c) \/ SpawnFails(c)
  PROVE  IInv'
<1> USE ProcessConstants DEF IInv, Procs
<1>0. \A step : pc' = [pc EXCEPT ![c] = step] =>
          \A q \in Procs : pc'[q] = IF q = c THEN step ELSE pc[q]
  BY DEF TypeOK
<1>1. CASE ResetStop(c)
  BY <1>1, BeginInv
<1>2. CASE Spawn(c)
  <2>1. PICK w \in Workers :
            /\ ~Running(w) /\ \A s \in Copies : child[s] # w
            /\ pc' = [pc EXCEPT ![c] = "watch", ![w] = "claim"]
            /\ child' = [child EXCEPT ![c] = w]
    BY <1>2, NewWorkerFree DEF Spawn
  <2>2. \A q \in Procs : pc'[q] = IF q = w THEN "claim" ELSE IF q = c THEN "watch" ELSE pc[q]
    BY <2>1 DEF TypeOK
  <2>3. \A d \in Copies : pc'[d] = IF d = c THEN "watch" ELSE pc[d]
    BY <2>2
  <2>4. \A d \in Copies : child'[d] = IF d = c THEN w ELSE child[d]
    BY <2>1 DEF TypeOK
  <2>5. TypeOK'
    BY <1>2, <2>1 DEF Spawn, TypeOK, Unchanging, event, files, SupervisorPC, WorkerPC
  <2>6. OneInstance'
    BY <1>2, <2>3 DEF Spawn, OneInstance, Instance, Running, Ended
  <2>7. SoleDriver' /\ Roles'
    BY <2>2 DEF SoleDriver, Driving, Roles, WorkerPC
  <2>8. Children'
    <3>1. pc[c] # "stopping" /\ holders' = holders /\ stopEvent' = stopEvent
      BY <1>2 DEF Spawn, Unchanging, event
    <3> QED
      BY <2>3, <2>4, <3>1 DEF Children
  <2> QED
    BY <2>5, <2>6, <2>7, <2>8
<1>3. CASE SpawnFails(c)
  <2>1. TypeOK'
    BY <1>3 DEF SpawnFails, Go, TypeOK, Unchanging, event, files, SupervisorPC
  <2> QED
    BY <1>3, <1>0, <2>1 DEF SpawnFails, Go, OneInstance, Instance, Running, Ended,
       SoleDriver, Driving, Roles, Children, Unchanging, event
<1>4. CASE RetrySpawn(c)
  <2>1. CASE StopSeen(c)
    BY <1>4, <2>1, EndInv DEF RetrySpawn, Ended
  <2>2. CASE ~StopSeen(c)
    <3>1. TypeOK'
      BY <1>4, <2>2 DEF RetrySpawn, Go, TypeOK, Unchanging, event, files, SupervisorPC
    <3> QED
      BY <1>4, <1>0, <2>2, <3>1 DEF RetrySpawn, Go, OneInstance, Instance, Running,
         Ended, SoleDriver, Driving, Roles, Children, Unchanging, event
  <2> QED
    BY <2>1, <2>2
<1>5. CASE WorkerEnded(c)
  <2>1. CASE pc[child[c]] = "quit"
    BY <1>5, <2>1, EndInv DEF WorkerEnded, Ended
  <2>2. CASE pc[child[c]] # "quit"
    <3>1. TypeOK'
      BY <1>5, <2>2 DEF WorkerEnded, Go, TypeOK, Unchanging, event, files, SupervisorPC
    <3>2. \A d \in Copies : child'[d] = IF d = c THEN NoProc ELSE child[d]
      BY <1>5, <2>2 DEF WorkerEnded, TypeOK
    <3> QED
      BY <1>5, <1>0, <2>2, <3>1, <3>2 DEF WorkerEnded, Go, OneInstance, Instance,
         Running, Ended, SoleDriver, Driving, Roles, Children, Unchanging, event
  <2> QED
    BY <2>1, <2>2
<1>6. CASE WorkerToStop(c)
  <2>1. TypeOK'
    BY <1>6 DEF WorkerToStop, Go, TypeOK, Unchanging, event, files, SupervisorPC
  <2> QED
    BY <1>6, <1>0, <2>1 DEF WorkerToStop, StopSeen, Go, OneInstance, Instance, Running,
       Ended, SoleDriver, Driving, Roles, Children, Unchanging, event
<1>7. CASE StopWorker(c)
  <2>1. \A q \in Procs : pc'[q] \in {pc[q], "quit", "failed"}
    BY <1>7 DEF StopWorker
  <2>2. \A d \in Copies : pc'[d] = IF d = c THEN "quit" ELSE pc[d]
    BY <1>7 DEF StopWorker, Children, TypeOK
  <2>3. TypeOK'
    <3>1. pc' \in [Procs -> Ended \cup SupervisorPC \cup WorkerPC]
      BY <1>7 DEF StopWorker, TypeOK, Ended
    <3>2. FirstBackoff \in FirstBackoff..(2 * MaxBackoff)
      OBVIOUS
    <3>3. backoffSeconds' \in [Copies -> FirstBackoff..(2 * MaxBackoff)]
      BY <1>7, <3>2 DEF StopWorker, TypeOK
    <3>4. heard' \in [Procs -> {"off", "waiting", "stop"}]
      BY <1>7 DEF StopWorker, Close, TypeOK
    <3> QED
      BY <1>7, <3>1, <3>3, <3>4 DEF StopWorker, Close, TypeOK, files, Kinds
  <2>4. OneInstance' /\ SoleDriver' /\ Roles'
    BY <2>1, <2>2 DEF OneInstance, Instance, Running, Ended, SoleDriver, Driving, Roles
  <2>5. \A d \in Copies \ {c} : pc[d] # "stopping"
    BY <1>7 DEF StopWorker, OneInstance, Instance, Running, Ended
  <2>6. Children'
    BY <1>7, <2>2, <2>5 DEF StopWorker, Children, TypeOK
  <2> QED
    BY <2>3, <2>4, <2>6
<1>8. CASE WorkerDied(c)
  <2>1. FirstBackoff \in FirstBackoff..(2 * MaxBackoff)
    OBVIOUS
  <2>2. backoffSeconds' \in [Copies -> FirstBackoff..(2 * MaxBackoff)]
    BY <1>8, <2>1 DEF WorkerDied, TypeOK
  <2>3. TypeOK'
    BY <1>8, <2>2 DEF WorkerDied, Go, TypeOK, Unchanging, event, files, SupervisorPC
  <2> QED
    BY <1>8, <1>0, <2>3 DEF WorkerDied, Go, OneInstance, Instance, Running, Ended,
       SoleDriver, Driving, Roles, Children, Unchanging, event
<1>9. CASE BackOff(c)
  <2>1. CASE StopSeen(c)
    BY <1>9, <2>1, EndInv DEF BackOff, Ended
  <2>2. CASE ~StopSeen(c)
    <3>1. NextBackoff(backoffSeconds[c]) \in FirstBackoff..(2 * MaxBackoff)
      BY DEF NextBackoff, TypeOK
    <3>2. backoffSeconds' \in [Copies -> FirstBackoff..(2 * MaxBackoff)]
      BY <1>9, <2>2, <3>1 DEF BackOff, TypeOK
    <3>3. TypeOK'
      BY <1>9, <2>2, <3>2 DEF BackOff, Go, TypeOK, Unchanging, event, files, SupervisorPC
    <3> QED
      BY <1>9, <1>0, <2>2, <3>3 DEF BackOff, Go, OneInstance, Instance, Running, Ended,
         SoleDriver, Driving, Roles, Children, Unchanging, event
  <2> QED
    BY <2>1, <2>2
<1> QED
  BY <1>1, <1>2, <1>3, <1>4, <1>5, <1>6, <1>7, <1>8, <1>9 DEF Supervise

(* Every step preserves the invariant.                                     *)
LEMMA NextInv == IInv /\ [Next]_vars => IInv'
<1> SUFFICES ASSUME IInv, [Next]_vars PROVE IInv'
  OBVIOUS
<1>1. CASE UNCHANGED vars
  BY <1>1 DEF IInv, vars, TypeOK, OneInstance, Instance, Running, SoleDriver, Driving,
     Roles, Children
<1>2. CASE SignalStop \/ \E k \in {"supervisor", "interactive"} : Launch(k)
  BY <1>2, OutsideInv
<1>3. ASSUME NEW c \in Copies, Begin(c) \/ Supervise(c) \/ SpawnFails(c) PROVE IInv'
  BY <1>3, BeginInv, SuperviseInv
<1>4. ASSUME NEW p \in Procs, Work(p) \/ ConsoleStops(p) \/ Dies(p) PROVE IInv'
  BY <1>4, WorkInv
<1> QED
  BY <1>1, <1>2, <1>3, <1>4 DEF Next

(* The invariant holds in every reachable state.                           *)
LEMMA Invariant == Spec => []IInv
  BY InitInv, NextInv, PTL DEF Spec

-----------------------------------------------------------------------------
(* The processes and their named objects have their types.                 *)
THEOREM TypeCorrect == Spec => []TypeOK
<1>1. IInv => TypeOK
  BY DEF IInv
<1> QED
  BY <1>1, Invariant, PTL

(* At most one copy gets past the instance mutex, so that nobody resets a  *)
(* stop request that a running instance has not seen.                      *)
THEOREM InstanceUnique == Spec => []OneInstance
<1>1. IInv => OneInstance
  BY DEF IInv
<1> QED
  BY <1>1, Invariant, PTL

(* At most one process drives the dongle, however many are started and     *)
(* whichever of them are killed.                                           *)
THEOREM DriverUnique == Spec => []OneDriver
<1>1. SoleDriver => OneDriver
  <2> DEFINE Drivers == {p \in Procs : Driving(p)}
  <2>1. ASSUME SoleDriver, Drivers # {} PROVE Cardinality(Drivers) = 1
    <3>1. PICK p : Drivers = {p}
      BY <2>1 DEF SoleDriver
    <3> QED
      BY <3>1, FS_Singleton
  <2>2. Cardinality({}) = 0
    BY FS_EmptySet
  <2> QED
    BY <2>1, <2>2 DEF OneDriver
<1>2. IInv => SoleDriver
  BY DEF IInv
<1> QED
  BY <1>1, <1>2, Invariant, PTL

(* runSupervisor does not return while its worker runs, nor without a stop *)
(* request when its worker has died.                                       *)
THEOREM SupervisorLeavesInOrder == Spec => LeavesInOrder
<1> DEFINE InOrder(s) ==
        (pc[s] \in SupervisorPC /\ pc'[s] = "quit") =>
            /\ child[s] # NoProc => pc'[child[s]] \in Ended
            /\ stopEvent = "signalled" \/ (child[s] # NoProc /\ pc[child[s]] = "quit")
<1>1. ASSUME IInv, [Next]_vars, NEW s \in Copies, pc[s] \in SupervisorPC, pc'[s] = "quit"
      PROVE  /\ child[s] # NoProc => pc'[child[s]] \in Ended
             /\ stopEvent = "signalled" \/ (child[s] # NoProc /\ pc[child[s]] = "quit")
  <2> USE <1>1, ProcessConstants DEF IInv, Procs
  <2>1. pc[s] \notin Ended \cup WorkerPC
    BY DEF SupervisorPC, Ended, WorkerPC
  <2>2. \/ \E c \in Copies : RetrySpawn(c) \/ WorkerEnded(c) \/ StopWorker(c) \/ BackOff(c)
        \/ \A q \in Procs : pc'[q] = "quit" => pc[q] \in Ended \cup WorkerPC
    <3>1. ASSUME NEW k \in {"supervisor", "interactive"}, Launch(k)
          PROVE  \A q \in Procs : pc'[q] = "quit" => pc[q] = "quit"
      BY <3>1 DEF Launch, Go, TypeOK
    <3>2. ASSUME NEW c \in Copies, Begin(c) \/ SpawnFails(c)
          PROVE  \A q \in Procs : pc'[q] = "quit" => pc[q] = "quit"
      BY <3>2 DEF Begin, SpawnFails, Rotate, TakeInstance, SecondInstance, End, Go, TypeOK
    <3>3. ASSUME NEW c \in Copies, ResetStop(c) \/ Spawn(c) \/ WorkerToStop(c) \/ WorkerDied(c)
          PROVE  \A q \in Procs : pc'[q] = "quit" => pc[q] = "quit"
      BY <3>3 DEF ResetStop, Spawn, WorkerToStop, WorkerDied, Go, TypeOK
    <3>4. ASSUME NEW p \in Procs, Work(p) \/ ConsoleStops(p) \/ Dies(p)
          PROVE  \A q \in Procs : pc'[q] = "quit" => pc[q] \in Ended \cup WorkerPC
      BY <3>4 DEF Work, ClaimDongle, DongleTaken, OpenStop, Listen, WorkerStops,
         ConsoleStops, Dies, End, Go, TypeOK, Ended, WorkerPC
    <3>5. CASE SignalStop \/ UNCHANGED vars
      BY <3>5 DEF SignalStop, vars, Ended
    <3> QED
      BY <3>1, <3>2, <3>3, <3>4, <3>5 DEF Next, Supervise, Ended
  <2>3. ASSUME NEW c \in Copies, RetrySpawn(c) \/ BackOff(c)
        PROVE  stopEvent = "signalled" /\ child[s] = NoProc
    BY <2>1, <2>3 DEF RetrySpawn, BackOff, StopSeen, End, Go, TypeOK, Children, Ended
  <2>4. ASSUME NEW c \in Copies, WorkerEnded(c)
        PROVE  /\ child[s] \in Workers /\ pc[child[s]] = "quit"
               /\ pc'[child[s]] \in Ended
    BY <2>1, <2>4 DEF WorkerEnded, End, Go, TypeOK, Children, Ended
  <2>5. ASSUME NEW c \in Copies, StopWorker(c)
        PROVE  stopEvent = "signalled" /\ pc'[child[s]] \in Ended
    <3>1. c = s
      BY <2>1, <2>5 DEF StopWorker, TypeOK, Children, Ended
    <3> QED
      BY <2>5, <3>1 DEF StopWorker, TypeOK, Children, Running, Ended
  <2> QED
    BY <2>1, <2>2, <2>3, <2>4, <2>5
<1>2. IInv /\ [Next]_vars => [\A s \in Copies : InOrder(s)]_vars
  BY <1>1
<1> HIDE DEF InOrder
<1>3. Spec => [][\A s \in Copies : InOrder(s)]_vars
  BY <1>2, Invariant, PTL DEF Spec
<1> QED
  BY <1>3 DEF LeavesInOrder, InOrder
=============================================================================
