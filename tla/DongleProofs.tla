---------------------------- MODULE DongleProofs -----------------------------
(***************************************************************************)
(* The association of controllers for any number of WCIDs, addresses and   *)
(* reader threads: the tables agree, packets reach their owner, nobody     *)
(* stays awake, every step is one that module Seats allows, and so the     *)
(* laws of the seats hold of the WCIDs.                                    *)
(***************************************************************************)
EXTENDS Dongle, TLAPS

(* A handler is past lock_guard exactly while its thread holds             *)
(* controllerMutex.                                                        *)
Locked == \A t \in Threads : pc[t] \in LockedPC <=> mutex = t

(* What each handler works on.                                             *)
Joining  == {"c_add", "c_resp", "c_led", "c_new"}
Cleaning == {"d_addr", "d_led", "d_flap"}

Jobs ==
    \A t \in Threads :
        /\ pc[t] \in {"c_lock", "c_addr"} => job[t].wcid = 0 /\ job[t].addr \in Addrs
        /\ pc[t] \in Joining => job[t].wcid \in Wcids /\ job[t].addr \in Addrs
        /\ pc[t] \in DisconnectPC \cup {"d_lock", "g_lock", "g_send"} => job[t].wcid \in Wcids

(* A controller's bit is set and the hardware has its address as long as   *)
(* it is there; the WCID that a handler gives out or takes back has none.  *)
Seated ==
    /\ \A w \in Live : w \in connected /\ hwAddr[w] = ctrl[w]
    /\ \A t \in Threads : pc[t] \in Joining =>
          /\ ctrl[job[t].wcid] = NoAddr /\ job[t].wcid \in connected
          /\ hwAddr[job[t].wcid] = job[t].addr
    /\ \A t \in Threads : pc[t] = "d_remove" =>
          ctrl[job[t].wcid] = NoAddr /\ job[t].wcid \in connected
    /\ \A t \in Threads : pc[t] \in Cleaning =>
          ctrl[job[t].wcid] = NoAddr /\ job[t].wcid \notin connected

(* The destructor waits for the readers and then for the controllers.      *)
Destroying == mpc \in {"power", "led", "radio", "closed"}
Teardowns ==
    /\ Destroying => \A t \in Threads : pc[t] = "done"
    /\ mpc \in {"led", "radio", "closed"} => Live = {}

(* Without a failed transfer, the tables agree on all WCIDs but the one    *)
(* that a handler works on, and about that one they say how far it is.     *)
Busy(w) ==
    \E t \in Threads : job[t].wcid = w /\ pc[t] \in Joining \cup {"d_remove"} \cup Cleaning

Agreed(w) ==
    /\ w \in connected <=> w \in Live
    /\ w \in fwClients <=> w \in Live
    /\ w \in awake <=> w \in Live
    /\ hwAddr[w] = ctrl[w]

Stage(t) ==
    LET w == job[t].wcid IN
    /\ pc[t] = "c_add" => w \notin fwClients /\ w \notin awake
    /\ pc[t] = "c_resp" => w \in fwClients /\ w \notin awake
    /\ pc[t] \in {"c_led", "c_new"} => w \in fwClients /\ w \in awake
    /\ pc[t] = "d_remove" => w \notin awake
    /\ pc[t] \in Cleaning => w \notin fwClients /\ w \notin awake
    /\ pc[t] \in {"d_led", "d_flap"} => hwAddr[w] = NoAddr

Tables ==
    ~failed =>
        /\ ~Destroying => \A w \in Wcids : ~Busy(w) => Agreed(w)
        /\ Destroying => \A w \in Wcids : w \in awake <=> w \in Live
        /\ \A t \in Threads : Stage(t)

IInv == TypeOK /\ Locked /\ Jobs /\ Seated /\ ToOwner /\ Teardowns /\ Tables

-----------------------------------------------------------------------------
(* The types of the threads and of the mutex, and of everything else.      *)
JobType == [wcid : Wcids \cup {0}, addr : Addrs \cup {NoAddr}, enable : BOOLEAN]

ControlOK ==
    /\ mutex \in Threads \cup {NoThread}
    /\ pc \in [Threads -> LockedPC \cup UnlockedPC]
    /\ job \in [Threads -> JobType]

(* What a step of a handler does to its thread has the right type.         *)
LEMMA ControlType ==
  ASSUME ControlOK, NEW t \in Threads, NEW step \in LockedPC \cup UnlockedPC,
         Goto(t, step) \/ Return(t) \/ Unlock(t) \/ Lock(t, step)
  PROVE  ControlOK'
<1>1. Idle \in JobType
  BY DEF Idle, JobType
<1>2. "read" \in LockedPC \cup UnlockedPC
  BY DEF UnlockedPC
<1> QED
  BY <1>1, <1>2 DEF Goto, Return, Unlock, Lock, ControlOK

(* Booleans of the lost-dongle watch and of the history.                   *)
LEMMA FlagType ==
  ASSUME failed \in BOOLEAN
  PROVE  /\ UsbOk \/ UsbFail => failed' \in BOOLEAN
         /\ \A w \in Wcids : misdirected \in BOOLEAN /\ Transmit(w) => misdirected' \in BOOLEAN
  BY DEF UsbOk, UsbFail, Transmit

RestOK ==
    /\ connected \subseteq Wcids /\ fwClients \subseteq Wcids /\ awake \subseteq Wcids
    /\ ctrl \in [Wcids -> Addrs \cup {NoAddr}]
    /\ hwAddr \in [Wcids -> Addrs \cup {NoAddr}]
    /\ led \in {"off", "on", "blink"} /\ beacon \in BOOLEAN
    /\ mpc \in OwnerPC /\ stopThreads \in BOOLEAN /\ flapSet \in BOOLEAN
    /\ failed \in BOOLEAN /\ flapped \in BOOLEAN
    /\ misdirected \in BOOLEAN /\ pairLed \in BOOLEAN

(* The two parts are the type invariant, before and after a step.          *)
LEMMA TypeParts == /\ TypeOK <=> ControlOK /\ RestOK
                   /\ TypeOK' <=> (ControlOK /\ RestOK)'
  BY DEF TypeOK, ControlOK, RestOK, JobType

(* Initially everything has its type.                                      *)
LEMMA InitType == Init => TypeOK
<1> SUFFICES ASSUME Init PROVE TypeOK
  OBVIOUS
<1>1. Idle \in JobType
  BY DEF Idle, JobType
<1>2. ControlOK
  BY <1>1 DEF Init, ControlOK, UnlockedPC
<1>3. /\ beacon \in BOOLEAN /\ stopThreads \in BOOLEAN /\ flapSet \in BOOLEAN
      /\ failed \in BOOLEAN /\ flapped \in BOOLEAN /\ misdirected \in BOOLEAN
      /\ pairLed \in BOOLEAN
  BY DEF Init
<1>4. RestOK
  BY <1>3 DEF Init, RestOK, OwnerPC
<1> QED
  BY <1>2, <1>4, TypeParts

(* A reader that takes a packet, stops or fails keeps the types.           *)
LEMMA ReaderType ==
  ASSUME TypeOK, NEW t \in Threads, Receive(t) \/ ReaderStops(t) \/ ReaderFails(t)
  PROVE  TypeOK'
<1> USE TypeParts DEF host, own, hw, pair, watch, hist
<1>1. ASSUME NEW step \in UnlockedPC, NEW work \in JobType, Start(t, step, work)
      PROVE  TypeOK'
  <2>1. ControlOK'
    BY <1>1 DEF Start, ControlOK
  <2>2. RestOK'
    BY <1>1 DEF Start, RestOK
  <2> QED
    BY <2>1, <2>2
<1>2. /\ \A a \in Addrs : [Idle EXCEPT !.addr = a] \in JobType
      /\ \A w \in Wcids : [Idle EXCEPT !.wcid = w] \in JobType
      /\ Idle \in JobType /\ [Idle EXCEPT !.enable = TRUE] \in JobType
  BY DEF Idle, JobType
<1>3. /\ "c_lock" \in UnlockedPC /\ "d_lock" \in UnlockedPC /\ "g_lock" \in UnlockedPC
      /\ "p_send" \in UnlockedPC /\ "p_beacon" \in UnlockedPC /\ "done" \in UnlockedPC
  BY DEF UnlockedPC
<1>4. CASE Receive(t)
  BY <1>1, <1>2, <1>3, <1>4 DEF Receive, ReceiveConnect, ReceiveDisconnect, ReceivePacket,
     ReceivePair, ReceiveButton
<1>5. CASE ReaderStops(t)
  <2>1. ControlOK'
    BY <1>3, <1>5, ControlType DEF ReaderStops
  <2>2. RestOK'
    BY <1>5 DEF ReaderStops, RestOK
  <2> QED
    BY <2>1, <2>2
<1>6. CASE ReaderFails(t)
  <2>1. ControlOK'
    BY <1>3, <1>6, ControlType DEF ReaderFails
  <2>2. failed' \in BOOLEAN
    BY <1>6 DEF ReaderFails, UsbFail
  <2>3. RestOK'
    BY <1>6, <2>2 DEF ReaderFails, RestOK
  <2> QED
    BY <2>1, <2>3
<1> QED
  BY <1>4, <1>5, <1>6

(* handleControllerConnect keeps the types.                                *)
LEMMA ConnectType ==
  ASSUME TypeOK, Jobs, NEW t \in Threads, Connect(t)
  PROVE  TypeOK'
<1> USE TypeParts DEF host, own, hw, pair, watch, hist, RestOK
<1>1. \A step \in ConnectPC \cup {"read"} : step \in LockedPC \cup UnlockedPC
  BY DEF LockedPC, UnlockedPC
<1>2. UsbOk \/ UsbFail => failed' \in BOOLEAN
  BY FlagType DEF TypeOK
<1> USE <1>1, <1>2, ControlType
<1>3. CASE ConnectLock(t)
  <2>1. ControlOK'
    BY <1>3 DEF ConnectLock, ConnectPC
  <2> QED
    BY <1>3, <2>1 DEF ConnectLock
<1>4. CASE TableFull(t)
  <2>1. ControlOK'
    BY <1>4 DEF TableFull
  <2> QED
    BY <1>4, <2>1 DEF TableFull
<1>5. CASE ConnectReserve(t)
  <2>1. PICK w \in Wcids :
            /\ connected' = connected \cup {w}
            /\ hwAddr' \in {hwAddr, [hwAddr EXCEPT ![w] = job[t].addr]}
            /\ UsbOk \/ UsbFail
            /\ \/ Reserve(t, w) /\ pc' = [pc EXCEPT ![t] = "c_add"] /\ UNCHANGED mutex
               \/ Unlock(t)
    BY <1>5 DEF ConnectReserve, Reserve
  <2>2. ControlOK'
    BY <2>1 DEF Reserve, ControlOK, JobType, LockedPC, ConnectPC
  <2>3. RestOK'
    BY <1>5, <2>1 DEF ConnectReserve, Jobs
  <2> QED
    BY <2>2, <2>3
<1>6. CASE ConnectAdd(t)
  <2>1. ControlOK'
    BY <1>6 DEF ConnectAdd, ConnectPC
  <2>2. fwClients' \subseteq Wcids
    BY <1>6 DEF ConnectAdd, Jobs, Joining
  <2> QED
    BY <1>6, <2>1, <2>2 DEF ConnectAdd
<1>7. CASE ConnectRespond(t)
  <2>1. ControlOK'
    BY <1>7 DEF ConnectRespond, ConnectPC
  <2>2. awake' \subseteq Wcids
    BY <1>7 DEF ConnectRespond, Jobs, Joining
  <2> QED
    BY <1>7, <2>1, <2>2 DEF ConnectRespond
<1>8. CASE ConnectLed(t)
  <2>1. ControlOK'
    BY <1>8 DEF ConnectLed, ConnectPC
  <2> QED
    BY <1>8, <2>1 DEF ConnectLed
<1>9. CASE ConnectNew(t)
  <2>1. ControlOK'
    BY <1>9 DEF ConnectNew
  <2>2. ctrl' \in [Wcids -> Addrs \cup {NoAddr}]
    BY <1>9 DEF ConnectNew, Jobs, Joining
  <2> QED
    BY <1>9, <2>1, <2>2 DEF ConnectNew
<1> QED
  BY <1>3, <1>4, <1>5, <1>6, <1>7, <1>8, <1>9 DEF Connect

(* ~Controller keeps the types, and what it does to the tables.            *)
LEMMA PowerOffType ==
  ASSUME TypeOK, NEW w \in Wcids, PowerOff(w)
  PROVE  /\ misdirected' \in BOOLEAN /\ failed' \in BOOLEAN
         /\ awake' \subseteq Wcids
         /\ ctrl' \in [Wcids -> Addrs \cup {NoAddr}]
<1>1. misdirected' \in BOOLEAN
  BY FlagType DEF TypeOK, PowerOff
<1>2. failed' \in BOOLEAN
  BY FlagType DEF TypeOK, PowerOff
<1>3. awake' \subseteq Wcids
  BY DEF TypeOK, PowerOff
<1>4. ctrl' \in [Wcids -> Addrs \cup {NoAddr}]
  BY DEF TypeOK, PowerOff
<1> QED
  BY <1>1, <1>2, <1>3, <1>4

(* handleControllerDisconnect keeps the types.                             *)
LEMMA DisconnectType ==
  ASSUME TypeOK, Jobs, NEW t \in Threads, Disconnect(t)
  PROVE  TypeOK'
<1> USE TypeParts DEF host, own, hw, pair, watch, hist, RestOK
<1>1. \A step \in DisconnectPC \cup {"read"} : step \in LockedPC \cup UnlockedPC
  BY DEF LockedPC, UnlockedPC
<1>2. UsbOk \/ UsbFail => failed' \in BOOLEAN
  BY FlagType DEF TypeOK
<1> USE <1>1, <1>2, ControlType
<1>3. CASE DisconnectLock(t)
  <2>1. ControlOK'
    BY <1>3 DEF DisconnectLock, DisconnectPC
  <2> QED
    BY <1>3, <2>1 DEF DisconnectLock
<1>4. CASE NotConnected(t)
  <2>1. ControlOK'
    BY <1>4 DEF NotConnected
  <2> QED
    BY <1>4, <2>1 DEF NotConnected
<1>5. CASE DisconnectReset(t)
  <2>1. ControlOK'
    BY <1>5 DEF DisconnectReset, DisconnectPC
  <2>2. job[t].wcid \in Wcids
    BY <1>5 DEF DisconnectReset, Jobs, DisconnectPC
  <2> QED
    BY <1>5, <2>1, <2>2, PowerOffType DEF DisconnectReset
<1>6. CASE DisconnectRemove(t)
  <2>1. ControlOK'
    BY <1>6 DEF DisconnectRemove, DisconnectPC
  <2>2. fwClients' \subseteq Wcids /\ connected' \subseteq Wcids
    BY <1>6 DEF DisconnectRemove
  <2> QED
    BY <1>6, <2>1, <2>2 DEF DisconnectRemove
<1>7. CASE DisconnectAddr(t)
  <2>1. ControlOK'
    BY <1>7 DEF DisconnectAddr, DisconnectPC
  <2>2. hwAddr' \in [Wcids -> Addrs \cup {NoAddr}]
    BY <1>7 DEF DisconnectAddr
  <2> QED
    BY <1>7, <2>1, <2>2 DEF DisconnectAddr
<1>8. CASE DisconnectLed(t)
  <2>1. ControlOK'
    BY <1>8 DEF DisconnectLed, DisconnectPC
  <2> QED
    BY <1>8, <2>1 DEF DisconnectLed
<1>9. CASE DisconnectFlap(t)
  <2>1. ControlOK'
    BY <1>9 DEF DisconnectFlap
  <2>2. flapped' \in BOOLEAN
    BY <1>9 DEF DisconnectFlap
  <2> QED
    BY <1>9, <2>1, <2>2 DEF DisconnectFlap
<1> QED
  BY <1>3, <1>4, <1>5, <1>6, <1>7, <1>8, <1>9 DEF Disconnect

(* handleControllerPacket and pairing keep the types.                      *)
LEMMA PacketPairType ==
  ASSUME TypeOK, Jobs, NEW t \in Threads, Packet(t) \/ Pairing(t)
  PROVE  TypeOK'
<1> USE TypeParts DEF host, own, hw, pair, watch, hist, RestOK
<1>1. /\ "read" \in LockedPC \cup UnlockedPC /\ "g_send" \in LockedPC \cup UnlockedPC
      /\ "p_beacon" \in LockedPC \cup UnlockedPC /\ "p_calib" \in LockedPC \cup UnlockedPC
      /\ "p_led" \in LockedPC \cup UnlockedPC
  BY DEF LockedPC, UnlockedPC
<1>2. UsbOk \/ UsbFail => failed' \in BOOLEAN
  BY FlagType DEF TypeOK
<1>0. job[t].enable \in BOOLEAN
  BY DEF TypeOK
<1> USE <1>0, <1>1, <1>2, ControlType
<1>3. CASE PacketLock(t)
  <2>1. ControlOK'
    BY <1>3 DEF PacketLock
  <2> QED
    BY <1>3, <2>1 DEF PacketLock
<1>4. CASE PacketIgnored(t)
  <2>1. ControlOK'
    BY <1>4 DEF PacketIgnored
  <2> QED
    BY <1>4, <2>1 DEF PacketIgnored
<1>5. CASE PacketAnswer(t)
  <2>1. ControlOK'
    BY <1>5 DEF PacketAnswer
  <2>2. misdirected' \in BOOLEAN
    BY <1>5, FlagType DEF PacketAnswer, TypeOK, Jobs
  <2> QED
    BY <1>5, <2>1, <2>2 DEF PacketAnswer
<1>6. CASE PairSend(t)
  <2>1. ControlOK'
    BY <1>6 DEF PairSend
  <2> QED
    BY <1>6, <2>1 DEF PairSend
<1>7. CASE PairBeacon(t)
  <2>1. ControlOK'
    BY <1>7 DEF PairBeacon
  <2>2. beacon' \in BOOLEAN
    BY <1>7 DEF PairBeacon
  <2> QED
    BY <1>7, <2>1, <2>2 DEF PairBeacon
<1>8. CASE PairCalibrate(t)
  <2>1. ControlOK'
    BY <1>8 DEF PairCalibrate
  <2> QED
    BY <1>8, <2>1 DEF PairCalibrate
<1>9. CASE PairLed(t)
  <2>1. ControlOK'
    BY <1>9 DEF PairLed
  <2>2. pairLed' \in BOOLEAN
    BY <1>9 DEF PairLed
  <2>3. led' \in {"off", "on", "blink"}
    BY <1>9 DEF PairLed
  <2> QED
    BY <1>9, <2>1, <2>2, <2>3 DEF PairLed
<1> QED
  BY <1>3, <1>4, <1>5, <1>6, <1>7, <1>8, <1>9 DEF Packet, Pairing

(* The owner, its destructors and the rumble threads keep the types.       *)
LEMMA OwnerType ==
  ASSUME TypeOK,
         \/ InstallFlapHandler \/ StopRequested \/ WatchFires \/ Teardown
         \/ \E w \in Wcids : RumbleSend(w)
  PROVE  TypeOK'
<1> USE TypeParts DEF host, own, hw, pair, watch, hist, RestOK, ControlOK
<1>1. \A step \in {"run", "join", "power", "led", "radio", "closed"} : step \in OwnerPC
  BY DEF OwnerPC
<1>2. UsbOk \/ UsbFail => failed' \in BOOLEAN
  BY FlagType DEF TypeOK
<1> USE <1>1, <1>2
<1>3. CASE InstallFlapHandler
  <2>1. flapSet' \in BOOLEAN
    BY <1>3 DEF InstallFlapHandler
  <2> QED
    BY <1>3, <2>1 DEF InstallFlapHandler
<1>4. CASE StopRequested \/ WatchFires
  <2>1. stopThreads' \in BOOLEAN
    BY <1>4 DEF StopRequested, WatchFires, BeginDestroy
  <2> QED
    BY <1>4, <2>1 DEF StopRequested, WatchFires, BeginDestroy
<1>5. CASE JoinReaders
  BY <1>5 DEF JoinReaders
<1>6. ASSUME NEW w \in Wcids, DestroyController(w) PROVE TypeOK'
  BY <1>6, PowerOffType DEF DestroyController
<1>7. CASE AllDestroyed
  BY <1>7 DEF AllDestroyed
<1>8. CASE LedOff
  BY <1>8 DEF LedOff
<1>9. CASE RadioOff
  BY <1>9 DEF RadioOff
<1>10. ASSUME NEW w \in Wcids, RumbleSend(w) PROVE TypeOK'
  <2>1. misdirected' \in BOOLEAN
    BY <1>10, FlagType DEF RumbleSend, TypeOK
  <2> QED
    BY <1>10, <2>1 DEF RumbleSend
<1> QED
  BY <1>3, <1>4, <1>5, <1>6, <1>7, <1>8, <1>9, <1>10 DEF Teardown

(* Every step keeps the types.                                             *)
LEMMA NextType == TypeOK /\ Jobs /\ [Next]_vars => TypeOK'
<1>1. ASSUME TypeOK, UNCHANGED vars PROVE TypeOK'
  BY <1>1 DEF TypeOK, vars
<1> QED
  BY <1>1, ReaderType, ConnectType, DisconnectType, PacketPairType, OwnerType
     DEF Next, Handle

-----------------------------------------------------------------------------
(* What a step of a reader leaves alone: the other threads, and with the   *)
(* mutex everything that they need it for.                                 *)
Only(t) == \A u \in Threads \ {t} : pc'[u] = pc[u] /\ job'[u] = job[u]

(* A thread inside a handler holds the mutex and is the only one there.    *)
LEMMA Exclusive ==
  ASSUME Locked, NEW t \in Threads, pc[t] \in LockedPC
  PROVE  mutex = t /\ \A u \in Threads \ {t} : pc[u] \notin LockedPC
  BY DEF Locked

(* The mutex stays exclusive, and a handler works on what it began with.   *)
Keeps(t) == Locked' /\ Jobs' /\ Only(t)

HasWcid == DisconnectPC \cup {"d_lock", "g_lock", "g_send"}

(* Leaving a handler, going on in it, and entering it after lock_guard     *)
(* keep the mutex exclusive; a handler goes on with what it works on.      *)
LEMMA ControlKeeps ==
  ASSUME TypeOK, Locked, Jobs, NEW t \in Threads
  PROVE  /\ Return(t) /\ mutex # t => Keeps(t)
         /\ Unlock(t) /\ mutex = t => Keeps(t)
         /\ \A step \in LockedPC :
               /\ Goto(t, step) /\ mutex = t
               /\ step # "c_addr"
               /\ step \in Joining => pc[t] \in Joining
               /\ step \in HasWcid => pc[t] \in HasWcid
               => Keeps(t)
         /\ \A step \in {"done", "p_beacon", "p_calib", "p_led"} :
               Goto(t, step) /\ mutex # t => Keeps(t)
         /\ \A step \in LockedPC :
               /\ Lock(t, step)
               /\ step = "c_addr" => pc[t] = "c_lock"
               /\ step \notin Joining
               /\ step \in HasWcid => pc[t] \in HasWcid
               => Keeps(t)
<1> USE DongleConstants DEF Keeps, Only, TypeOK, HasWcid
<1>1. ASSUME Return(t), mutex # t PROVE Keeps(t)
  BY <1>1 DEF Return, Locked, Jobs, LockedPC, Joining, ConnectPC, DisconnectPC
<1>2. ASSUME Unlock(t), mutex = t PROVE Keeps(t)
  BY <1>2 DEF Unlock, Locked, Jobs, LockedPC, Joining, ConnectPC, DisconnectPC
<1>3. ASSUME NEW step \in LockedPC, Goto(t, step), mutex = t, step # "c_addr",
             step \in Joining => pc[t] \in Joining,
             step \in HasWcid => pc[t] \in HasWcid
      PROVE  Keeps(t)
  <2>1. step # "c_lock"
    BY <1>3 DEF LockedPC, ConnectPC, DisconnectPC
  <2> QED
    BY <1>3, <2>1 DEF Goto, Locked, Jobs
<1>4. ASSUME NEW step \in {"done", "p_beacon", "p_calib", "p_led"}, Goto(t, step), mutex # t
      PROVE  Keeps(t)
  BY <1>4 DEF Goto, Locked, Jobs, LockedPC, Joining, ConnectPC, DisconnectPC
<1>5. ASSUME NEW step \in LockedPC, Lock(t, step), step = "c_addr" => pc[t] = "c_lock",
             step \notin Joining, step \in HasWcid => pc[t] \in HasWcid
      PROVE  Keeps(t)
  <2>1. step # "c_lock"
    BY <1>5 DEF LockedPC, ConnectPC, DisconnectPC
  <2>2. Locked' /\ Only(t)
    BY <1>5 DEF Lock, Locked
  <2> QED
    BY <1>5, <2>1, <2>2 DEF Lock, Jobs
<1> QED
  BY <1>1, <1>2, <1>3, <1>4, <1>5

(* Steps of a reader keep the mutex exclusive and know what they work on.  *)
LEMMA ReaderControl ==
  ASSUME TypeOK, Locked, Jobs, NEW t \in Threads,
         Receive(t) \/ ReaderStops(t) \/ ReaderFails(t) \/ Handle(t)
  PROVE  Keeps(t)
<1> USE DEF LockedPC, ConnectPC, DisconnectPC, Joining, HasWcid
<1>1. pc[t] \notin LockedPC => mutex # t
  BY DEF Locked
<1>2. pc[t] \in LockedPC => mutex = t
  BY DEF Locked
<1> USE <1>1, <1>2, ControlKeeps
<1>3. CASE Receive(t)
  BY <1>3 DEF Receive, ReceiveConnect, ReceiveDisconnect, ReceivePacket, ReceivePair,
     ReceiveButton, Start, Idle, Keeps, Locked, Jobs, Only, TypeOK
<1>4. CASE ReaderStops(t) \/ ReaderFails(t)
  BY <1>4 DEF ReaderStops, ReaderFails
<1>5. CASE ConnectLock(t) \/ TableFull(t)
  BY <1>5 DEF ConnectLock, TableFull
<1>6. CASE ConnectReserve(t)
  <2>1. CASE Unlock(t)
    BY <1>6, <2>1 DEF ConnectReserve
  <2>2. ASSUME NEW w \in Wcids, Reserve(t, w), pc' = [pc EXCEPT ![t] = "c_add"],
               UNCHANGED mutex
        PROVE  Keeps(t)
    BY <1>6, <2>2 DEF ConnectReserve, Reserve, Keeps, Locked, Jobs, Only, TypeOK
  <2> QED
    BY <1>6, <2>1, <2>2 DEF ConnectReserve
<1>7. CASE ConnectAdd(t) \/ ConnectRespond(t)
  BY <1>7 DEF ConnectAdd, ConnectRespond
<1>8. CASE ConnectLed(t) \/ ConnectNew(t)
  BY <1>8 DEF ConnectLed, ConnectNew
<1>9. CASE DisconnectLock(t) \/ NotConnected(t)
  BY <1>9 DEF DisconnectLock, NotConnected
<1>10. CASE DisconnectReset(t) \/ DisconnectRemove(t)
  BY <1>10 DEF DisconnectReset, DisconnectRemove
<1>11. CASE DisconnectAddr(t)
  BY <1>11 DEF DisconnectAddr
<1>12. CASE DisconnectLed(t) \/ DisconnectFlap(t)
  BY <1>12 DEF DisconnectLed, DisconnectFlap
<1>13. CASE Packet(t)
  BY <1>13 DEF Packet, PacketLock, PacketIgnored, PacketAnswer
<1>14. CASE Pairing(t)
  BY <1>14 DEF Pairing, PairSend, PairBeacon, PairCalibrate, PairLed
<1> QED
  BY <1>3, <1>4, <1>5, <1>6, <1>7, <1>8, <1>9, <1>10, <1>11, <1>12, <1>13, <1>14
     DEF Handle, Connect, Disconnect

-----------------------------------------------------------------------------
(* The part of the invariant that is about the tables.                     *)
Records == Seated /\ ToOwner /\ Teardowns /\ Tables

Working == Joining \cup {"d_remove"} \cup Cleaning

(* Only the thread that holds the mutex works on a WCID.                   *)
LEMMA OneBusy ==
  ASSUME Locked, NEW t \in Threads, Only(t), pc[t] \in LockedPC
  PROVE  /\ \A w \in Wcids : Busy(w) <=> (job[t].wcid = w /\ pc[t] \in Working)
         /\ \A w \in Wcids : Busy(w)' <=> (job'[t].wcid = w /\ pc'[t] \in Working)
         /\ \A u \in Threads \ {t} : pc[u] \notin LockedPC /\ pc'[u] \notin LockedPC
<1>1. Working \subseteq LockedPC
  BY DEF Working, Joining, Cleaning, LockedPC, ConnectPC, DisconnectPC
<1>2. \A u \in Threads \ {t} : pc[u] \notin LockedPC /\ pc'[u] \notin LockedPC
  BY Exclusive DEF Only
<1> QED
  BY <1>1, <1>2 DEF Busy, Working

(* A reader that has not ended: the dongle is not being destroyed.         *)
LEMMA Alive ==
  ASSUME Teardowns, NEW t \in Threads, pc[t] # "done", mpc' = mpc
  PROVE  ~Destroying /\ ~Destroying' /\ Teardowns'
  BY DEF Teardowns, Destroying

(* Steps of a thread that works on no WCID do not concern the tables.      *)
LEMMA IdleRecords ==
  ASSUME Locked, Records, NEW t \in Threads, Only(t), pc[t] # "done",
         pc[t] \notin Working, pc'[t] \notin Working,
         UNCHANGED <<host, hw, awake, mpc>>, misdirected' = misdirected, failed => failed'
  PROVE  Records'
<1> USE DEF Records, host, hw, hist
<1>1. Seated'
  BY DEF Seated, Only, Live, Working, Joining, Cleaning
<1>2. \A w \in Wcids : Busy(w)' <=> Busy(w)
  BY DEF Busy, Working, Only
<1>3. \A w \in Wcids : Agreed(w)' <=> Agreed(w)
  BY DEF Agreed, Live
<1>4. ASSUME ~failed' PROVE \A u \in Threads : Stage(u)'
  <2>1. ASSUME NEW u \in Threads \ {t} PROVE Stage(u)'
    BY <1>4, <2>1 DEF Stage, Only, Tables
  <2>2. Stage(t)'
    BY DEF Stage, Working, Joining, Cleaning
  <2> QED
    BY <2>1, <2>2
<1>5. Tables'
  BY <1>2, <1>3, <1>4, Alive DEF Tables
<1> QED
  BY <1>1, <1>5, Alive DEF ToOwner

(* The records of one WCID and of the handler that works on it.            *)
Consistent(t, w) ==
    /\ ctrl[w] # NoAddr => w \in connected /\ hwAddr[w] = ctrl[w]
    /\ pc[t] \in Working => job[t].wcid = w
    /\ pc[t] \in Joining => ctrl[w] = NoAddr /\ w \in connected /\ hwAddr[w] = job[t].addr
    /\ pc[t] = "d_remove" => ctrl[w] = NoAddr /\ w \in connected
    /\ pc[t] \in Cleaning => ctrl[w] = NoAddr /\ w \notin connected
    /\ ~failed => Stage(t) /\ (pc[t] \notin Working => Agreed(w))

Elsewhere(w) ==
    \A v \in Wcids \ {w} :
        /\ v \in connected' <=> v \in connected
        /\ v \in fwClients' <=> v \in fwClients
        /\ v \in awake' <=> v \in awake
        /\ ctrl'[v] = ctrl[v] /\ hwAddr'[v] = hwAddr[v]

(* A step under the mutex changes the records of one WCID; it is enough    *)
(* that they are consistent afterwards.                                    *)
LEMMA LockedRecords ==
  ASSUME Locked, Records, NEW t \in Threads, Only(t), pc[t] \in LockedPC, mpc' = mpc,
         NEW w \in Wcids, pc[t] \in Working => job[t].wcid = w,
         Elsewhere(w), Consistent(t, w)',
         misdirected' = misdirected, failed => failed'
  PROVE  Records'
<1> USE DEF Records
<1>1. \A u \in Threads \ {t} : pc[u] \notin LockedPC /\ pc'[u] \notin LockedPC
  BY OneBusy
<1>2. Joining \cup {"d_remove"} \cup Cleaning \subseteq LockedPC
  BY DEF Joining, Cleaning, LockedPC, ConnectPC, DisconnectPC
<1>3. pc[t] # "done"
  BY DEF LockedPC, ConnectPC, DisconnectPC
<1>4. \A v \in Live' : v \in connected' /\ hwAddr'[v] = ctrl'[v]
  BY DEF Live, Seated, Elsewhere, Consistent
<1>5. Seated'
  BY <1>1, <1>2, <1>4 DEF Seated, Consistent, Working
<1>6. ASSUME ~failed' PROVE \A u \in Threads : Stage(u)'
  <2>1. ASSUME NEW u \in Threads \ {t} PROVE Stage(u)'
    BY <1>1, <2>1 DEF Stage, LockedPC, ConnectPC, DisconnectPC, Cleaning
  <2>2. Stage(t)'
    BY <1>6 DEF Consistent
  <2> QED
    BY <2>1, <2>2
<1>7. ASSUME ~failed', NEW v \in Wcids, ~Busy(v)' PROVE Agreed(v)'
  <2>1. CASE v = w
    BY <1>7, <2>1, OneBusy DEF Consistent
  <2>2. CASE v # w
    <3>1. ~Busy(v)
      BY <2>2, OneBusy
    <3>2. Agreed(v)
      BY <1>3, <1>7, <3>1, Alive DEF Tables
    <3> QED
      BY <2>2, <3>2 DEF Agreed, Elsewhere, Live
  <2> QED
    BY <2>1, <2>2
<1>8. Tables'
  BY <1>3, <1>6, <1>7, Alive DEF Tables
<1> QED
  BY <1>3, <1>5, <1>8, Alive DEF ToOwner

(* associateClient: each transfer makes one more record of the new WCID.   *)
LEMMA ConnectRecords ==
  ASSUME TypeOK, Locked, Jobs, Records, NEW t \in Threads, Keeps(t), Connect(t)
  PROVE  Records'
<1> USE DEF host, own, hw, pair, watch, hist, UsbOk, UsbFail, Goto, Unlock
<1>1. Only(t)
  BY DEF Keeps
<1>2. pc[t] \in ConnectPC => pc[t] \in LockedPC /\ pc[t] # "done"
  BY DEF LockedPC, ConnectPC
<1>3. CASE ConnectLock(t)
  BY <1>1, <1>3, IdleRecords DEF ConnectLock, Lock, TypeOK, Working, Joining, Cleaning
<1>4. CASE TableFull(t)
  BY <1>1, <1>4, IdleRecords DEF TableFull, TypeOK, Working, Joining, Cleaning
<1>5. CASE ConnectReserve(t)
  <2>1. PICK v \in Wcids :
            /\ v \notin connected /\ connected' = connected \cup {v}
            /\ \/ /\ job' = [job EXCEPT ![t].wcid = v] /\ failed' = failed
                  /\ hwAddr' = [hwAddr EXCEPT ![v] = job[t].addr]
                  /\ pc' = [pc EXCEPT ![t] = "c_add"]
               \/ /\ hwAddr' \in {hwAddr, [hwAddr EXCEPT ![v] = job[t].addr]}
                  /\ failed' /\ pc' = [pc EXCEPT ![t] = "read"]
    BY <1>5 DEF ConnectReserve, Reserve, FirstFree
  <2>2. /\ pc[t] = "c_addr" /\ mpc' = mpc /\ misdirected' = misdirected
        /\ fwClients' = fwClients /\ awake' = awake /\ ctrl' = ctrl
    BY <1>5 DEF ConnectReserve
  <2>3. pc[t] \notin Working /\ pc[t] \in LockedPC /\ pc[t] # "done"
    BY <1>2, <2>2 DEF Working, Joining, Cleaning, ConnectPC
  <2>4. ctrl[v] = NoAddr
    BY <2>1 DEF Records, Seated, Live
  <2>5. ~failed => Agreed(v)
    <3>1. ~Busy(v)
      BY <1>1, <2>3, OneBusy
    <3> QED
      BY <2>2, <2>3, <3>1, Alive DEF Records, Tables
  <2>6. Elsewhere(v)
    BY <2>1, <2>2 DEF Elsewhere, TypeOK
  <2>7. Consistent(t, v)'
    BY <2>1, <2>2, <2>4, <2>5 DEF Consistent, Stage, Agreed, Live, Working, Joining,
       Cleaning, TypeOK
  <2> QED
    BY <1>1, <2>1, <2>2, <2>3, <2>6, <2>7, LockedRecords
<1>6. ASSUME pc[t] \in Joining
      PROVE  \E w \in Wcids :
             /\ w = job[t].wcid /\ pc[t] \in LockedPC
             /\ ctrl[w] = NoAddr /\ w \in connected /\ hwAddr[w] = job[t].addr
             /\ ~failed => Stage(t)
  BY <1>2, <1>6 DEF Jobs, Records, Seated, Tables, Joining, ConnectPC
<1>7. CASE ConnectAdd(t)
  <2>1. pc[t] \in Joining
    BY <1>7 DEF ConnectAdd, Joining
  <2>2. PICK w \in Wcids :
            /\ w = job[t].wcid /\ pc[t] \in LockedPC
            /\ ctrl[w] = NoAddr /\ w \in connected /\ hwAddr[w] = job[t].addr
            /\ ~failed => Stage(t)
    BY <1>6, <2>1
  <2>3. Elsewhere(w)
    BY <2>2, <1>7 DEF ConnectAdd, Elsewhere
  <2>4. Consistent(t, w)'
    BY <2>2, <1>7, <2>1 DEF ConnectAdd, Consistent, Stage, Working, Joining, Cleaning, TypeOK
  <2> QED
    BY <1>1, <2>2, <1>7, <2>1, <2>3, <2>4, LockedRecords DEF ConnectAdd
<1>8. CASE ConnectRespond(t)
  <2>1. pc[t] \in Joining
    BY <1>8 DEF ConnectRespond, Joining
  <2>2. PICK w \in Wcids :
            /\ w = job[t].wcid /\ pc[t] \in LockedPC
            /\ ctrl[w] = NoAddr /\ w \in connected /\ hwAddr[w] = job[t].addr
            /\ ~failed => Stage(t)
    BY <1>6, <2>1
  <2>3. Elsewhere(w)
    BY <2>2, <1>8 DEF ConnectRespond, Elsewhere
  <2>4. Consistent(t, w)'
    BY <2>2, <1>8, <2>1 DEF ConnectRespond, Consistent, Stage, Working, Joining, Cleaning, TypeOK
  <2> QED
    BY <1>1, <2>2, <1>8, <2>1, <2>3, <2>4, LockedRecords DEF ConnectRespond
<1>9. CASE ConnectLed(t)
  <2>1. pc[t] \in Joining
    BY <1>9 DEF ConnectLed, Joining
  <2>2. PICK w \in Wcids :
            /\ w = job[t].wcid /\ pc[t] \in LockedPC
            /\ ctrl[w] = NoAddr /\ w \in connected /\ hwAddr[w] = job[t].addr
            /\ ~failed => Stage(t)
    BY <1>6, <2>1
  <2>3. Elsewhere(w)
    BY <2>2, <1>9 DEF ConnectLed, Elsewhere
  <2>4. Consistent(t, w)'
    BY <2>2, <1>9, <2>1 DEF ConnectLed, Consistent, Stage, Working, Joining, Cleaning, TypeOK
  <2> QED
    BY <1>1, <2>2, <1>9, <2>1, <2>3, <2>4, LockedRecords DEF ConnectLed
<1>10. CASE ConnectNew(t)
  <2>1. pc[t] \in Joining /\ job[t].addr \in Addrs
    BY <1>10 DEF ConnectNew, Joining, Jobs
  <2>2. PICK w \in Wcids :
            /\ w = job[t].wcid /\ pc[t] \in LockedPC
            /\ ctrl[w] = NoAddr /\ w \in connected /\ hwAddr[w] = job[t].addr
            /\ ~failed => Stage(t)
    BY <1>6, <2>1
  <2>3. Elsewhere(w)
    BY <2>2, <1>10 DEF ConnectNew, Elsewhere, TypeOK
  <2>4. Consistent(t, w)'
    BY <2>2, <1>10, <2>1, DongleConstants DEF ConnectNew, Consistent, Stage, Agreed, Live,
       Working, Joining, Cleaning, TypeOK
  <2> QED
    BY <1>1, <2>2, <1>10, <2>1, <2>3, <2>4, LockedRecords DEF ConnectNew
<1> QED
  BY <1>3, <1>4, <1>5, <1>7, <1>8, <1>9, <1>10 DEF Connect

(* ~Controller of a controller that is there: POWER_OFF goes to the        *)
(* address that the hardware has.                                          *)
LEMMA PowerOffRecords ==
  ASSUME TypeOK, Records, NEW w \in Live, PowerOff(w)
  PROVE  /\ misdirected' = misdirected /\ (failed => failed')
         /\ ctrl' = [ctrl EXCEPT ![w] = NoAddr]
         /\ awake' \in {awake, awake \ {w}}
         /\ ~failed' => awake' = awake \ {w}
<1>1. w \in connected /\ hwAddr[w] = ctrl[w]
  BY DEF Records, Seated
<1> QED
  BY <1>1 DEF PowerOff, Transmit, UsbOk, UsbFail, TypeOK

(* removeClient: each transfer takes one record of the WCID back.          *)
LEMMA DisconnectRecords ==
  ASSUME TypeOK, Locked, Jobs, Records, NEW t \in Threads, Keeps(t), Disconnect(t)
  PROVE  Records'
<1> USE DEF host, own, hw, pair, watch, hist, Goto, Unlock
<1>1. Only(t)
  BY DEF Keeps
<1>2. CASE DisconnectLock(t)
  BY <1>1, <1>2, IdleRecords DEF DisconnectLock, Lock, TypeOK, Working, Joining, Cleaning
<1>3. CASE NotConnected(t)
  BY <1>1, <1>3, IdleRecords DEF NotConnected, TypeOK, Working, Joining, Cleaning
<1>4. pc[t] \in DisconnectPC =>
        \E w \in Wcids : w = job[t].wcid /\ pc[t] \in LockedPC /\ pc[t] # "done"
  BY DEF Jobs, LockedPC, DisconnectPC
<1>5. CASE DisconnectReset(t)
  <2>1. /\ pc[t] = "d_reset" /\ job[t].wcid \in Live /\ PowerOff(job[t].wcid)
        /\ UNCHANGED <<connected, fwClients, hwAddr, mpc, job>>
        /\ pc' = [pc EXCEPT ![t] = "d_remove"]
    BY <1>5 DEF DisconnectReset
  <2>2. PICK w \in Wcids : w = job[t].wcid /\ pc[t] \in LockedPC /\ pc[t] # "done"
    BY <1>4, <2>1 DEF DisconnectPC
  <2>3. /\ misdirected' = misdirected /\ (failed => failed')
        /\ ctrl' = [ctrl EXCEPT ![w] = NoAddr]
        /\ awake' \in {awake, awake \ {w}}
        /\ ~failed' => awake' = awake \ {w}
    BY <2>1, <2>2, PowerOffRecords
  <2>4. w \in connected
    BY <2>1, <2>2 DEF Records, Seated
  <2>5. Elsewhere(w)
    BY <2>1, <2>3 DEF Elsewhere, TypeOK
  <2>6. Consistent(t, w)'
    BY <2>1, <2>2, <2>3, <2>4 DEF Consistent, Stage, Working, Joining, Cleaning, TypeOK
  <2>7. mpc' = mpc /\ (pc[t] \in Working => job[t].wcid = w)
    BY <2>1, <2>2
  <2> QED
    BY <1>1, <2>2, <2>3, <2>5, <2>6, <2>7, LockedRecords
<1>6. CASE DisconnectRemove(t)
  <2>1. pc[t] = "d_remove"
    BY <1>6 DEF DisconnectRemove
  <2>2. PICK w \in Wcids : w = job[t].wcid /\ pc[t] \in LockedPC /\ pc[t] # "done"
    BY <1>4, <2>1 DEF DisconnectPC
  <2>3. ctrl[w] = NoAddr /\ (~failed => Stage(t))
    BY <2>1, <2>2 DEF Records, Seated, Tables
  <2>4. Elsewhere(w)
    BY <1>6, <2>2 DEF DisconnectRemove, Elsewhere
  <2>5. Consistent(t, w)'
    BY <1>6, <2>1, <2>2, <2>3 DEF DisconnectRemove, UsbOk, UsbFail, Consistent, Stage,
       Working, Joining, Cleaning, TypeOK
  <2> QED
    BY <1>1, <1>6, <2>2, <2>4, <2>5, LockedRecords DEF DisconnectRemove, UsbOk, UsbFail
<1>7. ASSUME pc[t] \in Cleaning
      PROVE  \E w \in Wcids :
                /\ w = job[t].wcid /\ pc[t] \in LockedPC
                /\ ctrl[w] = NoAddr /\ w \notin connected /\ (~failed => Stage(t))
  BY <1>4, <1>7 DEF Records, Seated, Tables, Cleaning, DisconnectPC
<1>8. CASE DisconnectAddr(t)
  <2>1. pc[t] = "d_addr" /\ pc[t] \in Cleaning
    BY <1>8 DEF DisconnectAddr, Cleaning
  <2>2. PICK w \in Wcids :
            /\ w = job[t].wcid /\ pc[t] \in LockedPC
            /\ ctrl[w] = NoAddr /\ w \notin connected /\ (~failed => Stage(t))
    BY <1>7, <2>1
  <2>3. Elsewhere(w)
    BY <1>8, <2>2 DEF DisconnectAddr, Elsewhere, TypeOK
  <2>4. Consistent(t, w)'
    BY <1>8, <2>1, <2>2 DEF DisconnectAddr, UsbOk, UsbFail, Consistent, Stage, Working,
       Joining, Cleaning, TypeOK
  <2> QED
    BY <1>1, <1>8, <2>2, <2>3, <2>4, LockedRecords DEF DisconnectAddr, UsbOk, UsbFail
<1>9. ASSUME DisconnectLed(t) \/ DisconnectFlap(t) PROVE Records'
  <2>1. pc[t] \in {"d_led", "d_flap"} /\ pc[t] \in Cleaning
    BY <1>9 DEF DisconnectLed, DisconnectFlap, Cleaning
  <2>2. PICK w \in Wcids :
            /\ w = job[t].wcid /\ pc[t] \in LockedPC
            /\ ctrl[w] = NoAddr /\ w \notin connected /\ (~failed => Stage(t))
    BY <1>7, <2>1
  <2>3. Elsewhere(w)
    BY <1>9 DEF DisconnectLed, DisconnectFlap, Elsewhere
  <2>4. CASE DisconnectLed(t)
    <3>1. Consistent(t, w)'
      BY <2>1, <2>2, <2>4 DEF DisconnectLed, UsbOk, UsbFail, Consistent, Stage, Working,
         Joining, Cleaning, TypeOK
    <3> QED
      BY <1>1, <2>2, <2>3, <2>4, <3>1, LockedRecords DEF DisconnectLed, UsbOk, UsbFail
  <2>5. CASE DisconnectFlap(t)
    <3>1. Consistent(t, w)'
      BY <2>1, <2>2, <2>5 DEF DisconnectFlap, Consistent, Stage, Agreed, Live, Working,
         Joining, Cleaning, TypeOK
    <3> QED
      BY <1>1, <2>2, <2>3, <2>5, <3>1, LockedRecords DEF DisconnectFlap
  <2> QED
    BY <1>9, <2>4, <2>5
<1> QED
  BY <1>2, <1>3, <1>5, <1>6, <1>8, <1>9 DEF Disconnect

(* Packets, pairing and the reader loop leave the tables alone; an answer  *)
(* goes to the address that the hardware has.                              *)
LEMMA OtherRecords ==
  ASSUME TypeOK, Locked, Jobs, Records, NEW t \in Threads, Keeps(t),
         Packet(t) \/ Pairing(t) \/ Receive(t) \/ ReaderStops(t) \/ ReaderFails(t)
  PROVE  Records'
<1> USE DEF host, own, hw, pair, watch, hist, Goto, Unlock, Return, UsbOk, UsbFail
<1>1. pc[t] \notin Working /\ pc'[t] \notin Working /\ pc[t] # "done"
  BY DEF Packet, PacketLock, PacketIgnored, PacketAnswer, Pairing, PairSend, PairBeacon,
     PairCalibrate, PairLed, Receive, ReceiveConnect, ReceiveDisconnect, ReceivePacket,
     ReceivePair, ReceiveButton, Start, ReaderStops, ReaderFails, Lock, Working, Joining,
     Cleaning, TypeOK
<1>2. UNCHANGED <<host, hw, awake, mpc>> /\ (failed => failed')
  BY DEF Packet, PacketLock, PacketIgnored, PacketAnswer, Pairing, PairSend, PairBeacon,
     PairCalibrate, PairLed, Receive, ReceiveConnect, ReceiveDisconnect, ReceivePacket,
     ReceivePair, ReceiveButton, Start, ReaderStops, ReaderFails
<1>3. misdirected' = misdirected
  <2>1. CASE PacketAnswer(t)
    BY <2>1 DEF PacketAnswer, Transmit, Records, Seated, TypeOK
  <2>2. CASE ~PacketAnswer(t)
    BY <2>2 DEF Packet, PacketLock, PacketIgnored, Pairing, PairSend, PairBeacon,
       PairCalibrate, PairLed, Receive, ReceiveConnect, ReceiveDisconnect, ReceivePacket,
       ReceivePair, ReceiveButton, Start, ReaderStops, ReaderFails
  <2> QED
    BY <2>1, <2>2
<1> QED
  BY <1>1, <1>2, <1>3, IdleRecords DEF Keeps

-----------------------------------------------------------------------------
(* The owner: the readers are joined before the controllers are powered    *)
(* off one by one, and then the rest of the dongle is closed.              *)
LEMMA OwnerInv ==
  ASSUME IInv,
         \/ InstallFlapHandler \/ StopRequested \/ WatchFires \/ Teardown
         \/ \E w \in Wcids : RumbleSend(w)
  PROVE  IInv'
<1> USE DEF IInv, host, own, hw, pair, watch, hist
<1>1. TypeOK'
  BY OwnerType
<1>2. UNCHANGED <<mutex, pc, job>> => Locked' /\ Jobs'
  BY DEF Locked, Jobs
<1>3. ASSUME UNCHANGED <<host, hw, mutex, pc, job, awake, misdirected>>, failed => failed',
             Destroying <=> Destroying', Teardowns'
      PROVE  IInv'
  <2>1. Seated'
    BY <1>3 DEF Seated, Live
  <2>2. /\ \A w \in Wcids : (Agreed(w)' <=> Agreed(w)) /\ (Busy(w)' <=> Busy(w))
        /\ \A t \in Threads : Stage(t)' <=> Stage(t)
    BY <1>3 DEF Agreed, Live, Busy, Stage
  <2>3. Live' = Live /\ awake' = awake
    BY <1>3 DEF Live
  <2>4. Tables'
    BY <1>3, <2>2, <2>3 DEF Tables
  <2> QED
    BY <1>1, <1>2, <1>3, <2>1, <2>4 DEF ToOwner
<1>4. CASE InstallFlapHandler \/ StopRequested \/ WatchFires
  BY <1>3, <1>4 DEF InstallFlapHandler, StopRequested, WatchFires, BeginDestroy,
     Destroying, Teardowns
<1>5. CASE AllDestroyed
  BY <1>3, <1>5 DEF AllDestroyed, Destroying, Teardowns, Live
<1>6. CASE LedOff \/ RadioOff
  BY <1>3, <1>6 DEF LedOff, RadioOff, UsbOk, UsbFail, Destroying, Teardowns, Live
<1>7. ASSUME NEW w \in Wcids, RumbleSend(w) PROVE IInv'
  <2>1. misdirected' = misdirected
    BY <1>7 DEF RumbleSend, Transmit, Seated, TypeOK
  <2> QED
    BY <1>3, <1>7, <2>1 DEF RumbleSend, UsbOk, UsbFail, Destroying, Teardowns, Live
<1>8. CASE JoinReaders
  <2>1. UNCHANGED <<host, mutex, pc, job, hw, failed, hist>>
        /\ ~Destroying /\ Destroying' /\ Teardowns'
    BY <1>8 DEF JoinReaders, Destroying, Teardowns
  <2>2. \A w \in Wcids : ~Busy(w)
    BY <1>8 DEF JoinReaders, Busy, Joining, Cleaning
  <2>3. Seated'
    BY <2>1 DEF Seated, Live
  <2>4. ~failed => \A w \in Wcids : w \in awake <=> w \in Live
    BY <2>1, <2>2 DEF Tables, Agreed
  <2>5. Tables'
    BY <2>1, <2>4 DEF Tables, Stage, Live
  <2> QED
    BY <1>1, <1>2, <2>1, <2>3, <2>5 DEF ToOwner
<1>9. ASSUME NEW w \in Wcids, DestroyController(w) PROVE IInv'
  <2>1. /\ misdirected' = misdirected /\ (failed => failed')
        /\ ctrl' = [ctrl EXCEPT ![w] = NoAddr]
        /\ awake' \in {awake, awake \ {w}}
        /\ ~failed' => awake' = awake \ {w}
    BY <1>9, PowerOffRecords DEF DestroyController, Records
  <2>2. UNCHANGED <<connected, mutex, pc, job, mpc, hw>> /\ mpc = "power"
    BY <1>9 DEF DestroyController
  <2>3. \A t \in Threads : pc[t] = "done"
    BY <2>2 DEF Teardowns, Destroying
  <2>4. \A v \in Wcids : v \in Live' <=> (v # w /\ v \in Live)
    BY <2>1 DEF Live, TypeOK
  <2>5. Seated'
    BY <2>1, <2>2, <2>3, <2>4 DEF Seated, Live, Joining, Cleaning, TypeOK
  <2>6. Teardowns'
    BY <2>2, <2>3 DEF Teardowns, Destroying
  <2>7. ~failed' => \A v \in Wcids : v \in awake' <=> v \in Live'
    BY <2>1, <2>2, <2>4 DEF Tables, Destroying
  <2>8. \A t \in Threads : Stage(t)'
    BY <2>2, <2>3 DEF Stage, Cleaning
  <2>9. Tables'
    BY <2>2, <2>7, <2>8 DEF Tables, Destroying
  <2>10. Locked' /\ Jobs'
    BY <1>2, <2>2
  <2> QED
    BY <1>1, <2>1, <2>5, <2>6, <2>9, <2>10 DEF ToOwner
<1> QED
  BY <1>4, <1>5, <1>6, <1>7, <1>8, <1>9 DEF Teardown

-----------------------------------------------------------------------------
(* The initial state satisfies the invariant.                              *)
LEMMA InitInv == Init => IInv
<1> SUFFICES ASSUME Init PROVE IInv
  OBVIOUS
<1>1. \A t \in Threads : pc[t] = "read" /\ mutex # t
  BY DongleConstants DEF Init
<1>2. Locked /\ Jobs
  BY <1>1 DEF Locked, Jobs, LockedPC, ConnectPC, DisconnectPC, Joining
<1>3. Live = {}
  BY DEF Init, Live
<1>4. Seated /\ ToOwner /\ Teardowns
  BY <1>1, <1>3 DEF Init, Seated, ToOwner, Teardowns, Destroying, Joining, Cleaning
<1>5. Tables
  BY <1>1, <1>3 DEF Init, Tables, Destroying, Agreed, Stage, Cleaning
<1> QED
  BY <1>2, <1>4, <1>5, InitType DEF IInv

(* Every step preserves the invariant.                                     *)
LEMMA NextInv == IInv /\ [Next]_vars => IInv'
<1> SUFFICES ASSUME IInv, [Next]_vars PROVE IInv'
  OBVIOUS
<1>1. TypeOK'
  BY NextType DEF IInv
<1>2. ASSUME NEW t \in Threads, Receive(t) \/ ReaderStops(t) \/ ReaderFails(t) \/ Handle(t)
      PROVE  IInv'
  <2>1. Keeps(t)
    BY <1>2, ReaderControl DEF IInv
  <2>2. Records'
    BY <1>2, <2>1, ConnectRecords, DisconnectRecords, OtherRecords DEF IInv, Records, Handle
  <2> QED
    BY <1>1, <2>1, <2>2 DEF IInv, Keeps, Records
<1>3. CASE UNCHANGED vars
  BY <1>1, <1>3 DEF IInv, vars, Locked, Jobs, Seated, Live, ToOwner, Teardowns, Destroying,
     Tables, Busy, Agreed, Stage
<1> QED
  BY <1>2, <1>3, OwnerInv DEF Next

(* The invariant holds in every reachable state.                           *)
LEMMA Invariant == Safety => []IInv
  BY InitInv, NextInv, PTL DEF Safety

(* The dongle's state has its types.                                       *)
THEOREM TypeCorrect == Safety => []TypeOK
<1>1. IInv => TypeOK
  BY DEF IInv
<1> QED
  BY <1>1, Invariant, PTL

(* Between handlers, the five records of who is connected agree unless a   *)
(* transfer failed.                                                        *)
THEOREM RecordsAgree == Safety => []TablesAgree
<1>1. ASSUME IInv, mutex = NoThread, ~failed, mpc \in {"built", "run", "join"}
      PROVE  connected = Live /\ fwClients = Live /\ awake = Live /\ hwAddr = ctrl
  <2>1. \A w \in Wcids : ~Busy(w)
    BY <1>1, DongleConstants DEF IInv, Locked, Busy, Joining, Cleaning, LockedPC, ConnectPC,
       DisconnectPC
  <2>2. \A w \in Wcids : Agreed(w)
    BY <1>1, <2>1 DEF IInv, Tables, Destroying
  <2>3. connected = Live /\ fwClients = Live /\ awake = Live
    BY <1>1, <2>2 DEF IInv, TypeOK, Agreed, Live
  <2>4. hwAddr = ctrl
    BY <1>1, <2>2 DEF IInv, TypeOK, Agreed
  <2> QED
    BY <2>3, <2>4
<1>2. IInv => TablesAgree
  BY <1>1 DEF TablesAgree
<1> QED
  BY <1>2, Invariant, PTL

(* No packet is transmitted on a WCID that has another address.            *)
THEOREM PacketsReachOwner == Safety => []ToOwner
<1>1. IInv => ToOwner
  BY DEF IInv
<1> QED
  BY <1>1, Invariant, PTL

(* No controller stays awake when the dongle was closed without a failed   *)
(* transfer.                                                               *)
THEOREM NobodyAwake == Safety => []AllAsleep
<1>1. IInv => AllAsleep
  BY DEF IInv, AllAsleep, Teardowns, Tables, Destroying, TypeOK
<1> QED
  BY <1>1, Invariant, PTL

-----------------------------------------------------------------------------
(* The refinement. What the seats are while a thread holds the mutex.      *)
RestState(w) == IF w \in Live THEN "taken" ELSE IF w \in connected THEN "unusable" ELSE "free"

HeldState(t, w) ==
    IF job[t].wcid = w /\ pc[t] \in ConnectPC THEN "joining"
    ELSE IF w \in Live THEN "taken"
    ELSE IF job[t].wcid = w /\ pc[t] \in DisconnectPC \ {"d_reset"} THEN "leaving"
    ELSE RestState(w)

HeldGuest(t, w) == IF job[t].wcid = w /\ pc[t] \in ConnectPC THEN job[t].addr ELSE ctrl[w]

(* The seats, told by who holds the mutex.                                 *)
LEMMA SeatsHeld ==
  ASSUME Seated, Seated', NEW t \in Threads, NEW w \in Wcids
  PROVE  /\ mutex = t => SeatState[w] = HeldState(t, w) /\ SeatGuest[w] = HeldGuest(t, w)
         /\ mutex' = t => SeatState'[w] = HeldState(t, w)' /\ SeatGuest'[w] = HeldGuest(t, w)'
         /\ mutex = NoThread => SeatState[w] = RestState(w) /\ SeatGuest[w] = ctrl[w]
         /\ mutex' = NoThread => SeatState'[w] = RestState(w)' /\ SeatGuest'[w] = ctrl'[w]
<1>1. w \in Live => w \in connected
  BY DEF Seated
<1>2. w \in Live' => w \in connected'
  BY DEF Seated
<1>3. t # NoThread
  BY DongleConstants
<1> QED
  BY <1>1, <1>2, <1>3 DEF SeatState, SeatGuest, Changes, HeldState, HeldGuest, RestState

(* A step that moves nobody.                                               *)
LEMMA NobodyMoves ==
  ASSUME \A w \in Wcids : SeatState'[w] = SeatState[w] /\ SeatGuest'[w] = SeatGuest[w],
         Destroying' <=> Destroying
  PROVE  UNCHANGED S!svars
<1>1. SeatState' = SeatState
  BY DEF SeatState
<1>2. SeatGuest' = SeatGuest
  BY DEF SeatGuest
<1> QED
  BY <1>1, <1>2 DEF S!svars, Destroying

(* A step under the mutex moves at most the WCID that the handler works    *)
(* on.                                                                     *)
LEMMA OthersSit ==
  ASSUME Seated, Seated', NEW t \in Threads, mutex = t, mutex' \in {t, NoThread},
         NEW w \in Wcids,
         pc[t] \in ConnectPC \cup DisconnectPC => job[t].wcid \in {0, w},
         mutex' = t => job'[t].wcid = w,
         \A v \in Wcids \ {w} : ctrl'[v] = ctrl[v] /\ (v \in connected' <=> v \in connected)
  PROVE  \A v \in Wcids \ {w} : SeatState'[v] = SeatState[v] /\ SeatGuest'[v] = SeatGuest[v]
<1> SUFFICES ASSUME NEW v \in Wcids \ {w}
             PROVE  SeatState'[v] = SeatState[v] /\ SeatGuest'[v] = SeatGuest[v]
  OBVIOUS
<1>1. v # 0
  BY DEF Wcids
<1>2. RestState(v)' = RestState(v) /\ (v \in Live' <=> v \in Live)
  BY DEF RestState, Live
<1>3. SeatState[v] = RestState(v) /\ SeatGuest[v] = ctrl[v]
  <2>1. HeldState(t, v) = RestState(v) /\ HeldGuest(t, v) = ctrl[v]
    BY <1>1 DEF HeldState, HeldGuest, RestState
  <2> QED
    BY <2>1, SeatsHeld
<1>4. SeatState'[v] = RestState(v)' /\ SeatGuest'[v] = ctrl'[v]
  <2>1. mutex' = t => HeldState(t, v)' = RestState(v)' /\ HeldGuest(t, v)' = ctrl'[v]
    BY DEF HeldState, HeldGuest, RestState
  <2> QED
    BY <2>1, SeatsHeld
<1> QED
  BY <1>2, <1>3, <1>4

(* One WCID moves.                                                         *)
LEMMA OneMoves ==
  ASSUME Seated, Seated', NEW t \in Threads, mutex = t, mutex' \in {t, NoThread},
         NEW w \in Wcids,
         pc[t] \in ConnectPC \cup DisconnectPC => job[t].wcid \in {0, w},
         mutex' = t => job'[t].wcid = w,
         \A v \in Wcids \ {w} : ctrl'[v] = ctrl[v] /\ (v \in connected' <=> v \in connected),
         mpc' = mpc
  PROVE  S!Move(w, SeatState'[w], SeatGuest'[w])
  BY OthersSit DEF S!Move

(* Nobody joins or leaves while no handler works on a WCID.                *)
LEMMA SettledSeats ==
  ASSUME TypeOK,
         \A t \in Threads : mutex = t =>
            /\ pc[t] \in ConnectPC => job[t].wcid \notin Wcids
            /\ pc[t] \notin DisconnectPC \ {"d_reset"}
  PROVE  S!Settled
  BY DEF TypeOK, S!Settled, SeatState, Changes

(* Steps of a reader that works on no WCID, before it and after it.        *)
LEMMA QuietStep ==
  ASSUME IInv, IInv', NEW t \in Threads, Only(t),
         mutex = t \/ mutex' = mutex \/ (mutex' = t /\ mutex = NoThread),
         mutex = t => mutex' \in {t, NoThread},
         mutex = t => pc[t] \in {"c_addr", "d_reset", "g_send"},
         mutex' = t => pc'[t] \in {"c_addr", "d_reset", "g_send"},
         UNCHANGED <<connected, ctrl, mpc>>
  PROVE  UNCHANGED S!svars
<1> SUFFICES ASSUME NEW w \in Wcids
             PROVE  SeatState'[w] = SeatState[w] /\ SeatGuest'[w] = SeatGuest[w]
  BY NobodyMoves DEF Destroying
<1>1. w # 0 /\ Seated /\ Seated' /\ mutex \in Threads \cup {NoThread}
  BY DEF Wcids, IInv, TypeOK
<1>2. RestState(w)' = RestState(w) /\ (w \in Live' <=> w \in Live)
  BY DEF RestState, Live
<1>3. mutex = t => HeldState(t, w) = RestState(w) /\ HeldGuest(t, w) = ctrl[w]
  BY <1>1 DEF HeldState, HeldGuest, RestState, ConnectPC, DisconnectPC, IInv, Jobs
<1>4. mutex' = t => HeldState(t, w)' = RestState(w)' /\ HeldGuest(t, w)' = ctrl'[w]
  BY <1>1 DEF HeldState, HeldGuest, RestState, ConnectPC, DisconnectPC, IInv, Jobs
<1>5. CASE mutex \in {t, NoThread}
  <2>1. SeatState[w] = RestState(w) /\ SeatGuest[w] = ctrl[w]
    BY <1>1, <1>3, <1>5, SeatsHeld
  <2>2. SeatState'[w] = RestState(w)' /\ SeatGuest'[w] = ctrl'[w]
    BY <1>1, <1>4, <1>5, SeatsHeld
  <2> QED
    BY <1>2, <2>1, <2>2
<1>6. CASE mutex \notin {t, NoThread}
  <2>1. PICK u \in Threads \ {t} : mutex = u /\ mutex' = u
    BY <1>1, <1>6
  <2>2. HeldState(u, w)' = HeldState(u, w) /\ HeldGuest(u, w)' = HeldGuest(u, w)
    BY <1>2, <2>1 DEF HeldState, HeldGuest, RestState, Only
  <2> QED
    BY <1>1, <2>1, <2>2, SeatsHeld
<1> QED
  BY <1>5, <1>6

(* associateClient gives a free WCID to the controller, or makes it        *)
(* unusable.                                                               *)
LEMMA ConnectSteps ==
  ASSUME IInv, IInv', NEW t \in Threads, Connect(t)
  PROVE  [S!SNext]_(S!svars)
<1> USE DEF host, own, hw, pair, watch, hist, Goto, Unlock
<1>1. Seated /\ Seated' /\ Only(t) /\ TypeOK
  BY ReaderControl DEF IInv, Handle, Keeps
<1>2. pc[t] \in LockedPC => mutex = t
  BY DEF IInv, Locked
<1>3. ASSUME ConnectLock(t) \/ TableFull(t) PROVE UNCHANGED S!svars
  <2>1. CASE ConnectLock(t)
    BY <1>1, <2>1, QuietStep, DongleConstants DEF ConnectLock, Lock, TypeOK
  <2>2. CASE TableFull(t)
    BY <1>1, <1>2, <2>2, QuietStep, DongleConstants DEF TableFull, LockedPC, ConnectPC
  <2> QED
    BY <1>3, <2>1, <2>2
<1>4. CASE ConnectReserve(t)
  <2>1. PICK v \in Wcids :
            /\ v \notin connected /\ connected' = connected \cup {v}
            /\ \/ /\ job' = [job EXCEPT ![t].wcid = v]
                  /\ pc' = [pc EXCEPT ![t] = "c_add"] /\ mutex' = mutex
               \/ pc' = [pc EXCEPT ![t] = "read"] /\ mutex' = NoThread
    BY <1>4 DEF ConnectReserve, Reserve, FirstFree
  <2>2. pc[t] = "c_addr" /\ mpc' = mpc /\ ctrl' = ctrl /\ mutex = t
    BY <1>2, <1>4 DEF ConnectReserve, LockedPC, ConnectPC
  <2>3. job[t].wcid = 0 /\ job[t].addr \in Addrs /\ v # 0
    BY <2>2 DEF IInv, Jobs, Wcids
  <2>4. /\ mutex' = t => job'[t].wcid = v /\ job'[t].addr = job[t].addr
        /\ mutex' \in {t, NoThread}
    BY <1>1, <2>1, <2>2, DongleConstants DEF TypeOK
  <2>5. S!Move(v, SeatState'[v], SeatGuest'[v])
    BY <1>1, <2>1, <2>2, <2>3, <2>4, OneMoves
  <2>6. S!Settled
    BY <1>1, <2>2, <2>3, SettledSeats DEF Wcids, DisconnectPC
  <2>7. ~Destroying
    BY <2>2, Alive DEF IInv
  <2>8. ctrl[v] = NoAddr
    BY <1>1, <2>1 DEF Seated, Live
  <2>9. SeatState[v] = "free"
    BY <1>1, <2>1, <2>2, <2>3, <2>8, SeatsHeld DEF HeldState, RestState, Live, ConnectPC, DisconnectPC
  <2>10. CASE mutex' = t
    <3>1. pc'[t] = "c_add"
      BY <1>1, <2>1, <2>10, DongleConstants DEF TypeOK
    <3>2. SeatState'[v] = "joining" /\ SeatGuest'[v] = job[t].addr
      BY <1>1, <2>4, <2>10, <3>1, SeatsHeld DEF HeldState, HeldGuest, ConnectPC
    <3>3. S!Join(v, job[t].addr)
      BY <2>5, <2>6, <2>7, <2>9, <3>2 DEF S!Join, Destroying
    <3> QED
      BY <2>3, <3>3 DEF S!SNext
  <2>11. CASE mutex' = NoThread
    <3>1. SeatState'[v] = "unusable" /\ SeatGuest'[v] = NoAddr
      BY <1>1, <2>1, <2>2, <2>8, <2>11, SeatsHeld DEF RestState, Live
    <3>2. S!Fail(v)
      BY <2>5, <2>6, <2>7, <2>9, <3>1 DEF S!Fail, Destroying
    <3> QED
      BY <3>2 DEF S!SNext
  <2> QED
    BY <2>4, <2>10, <2>11
<1>5. ASSUME ConnectAdd(t) \/ ConnectRespond(t) \/ ConnectLed(t) \/ ConnectNew(t)
      PROVE  [S!SNext]_(S!svars)
  <2>1. pc[t] \in Joining /\ pc[t] \in ConnectPC /\ mutex = t /\ mpc' = mpc
        /\ connected' = connected
    BY <1>2, <1>5 DEF ConnectAdd, ConnectRespond, ConnectLed, ConnectNew, Joining, LockedPC,
       ConnectPC
  <2>2. PICK w \in Wcids : w = job[t].wcid /\ w \in connected /\ ctrl[w] = NoAddr
    BY <1>1, <2>1 DEF IInv, Jobs, Seated
  <2>3. SeatState[w] = "joining" /\ SeatGuest[w] = job[t].addr
    BY <1>1, <2>1, <2>2, SeatsHeld DEF HeldState, HeldGuest
  <2>4. \/ pc'[t] \in Joining /\ UNCHANGED <<job, mutex, ctrl>>
        \/ mutex' = NoThread /\ UNCHANGED ctrl
        \/ mutex' = NoThread /\ ConnectNew(t)
    BY <1>1, <1>5 DEF ConnectAdd, ConnectRespond, ConnectLed, ConnectNew, Joining, TypeOK
  <2>5. ctrl' = ctrl \/ ctrl' = [ctrl EXCEPT ![w] = job[t].addr]
    BY <2>2, <2>4 DEF ConnectNew
  <2>6. S!Move(w, SeatState'[w], SeatGuest'[w])
    BY <1>1, <2>1, <2>2, <2>4, <2>5, OneMoves, DongleConstants DEF TypeOK
  <2>7. CASE pc'[t] \in Joining /\ UNCHANGED <<job, mutex, ctrl>>
    <3>1. SeatState'[w] = "joining" /\ SeatGuest'[w] = job[t].addr
      BY <1>1, <2>1, <2>2, <2>7, SeatsHeld DEF HeldState, HeldGuest, Joining, ConnectPC
    <3> QED
      BY <2>1, <2>3, <2>6, <3>1, NobodyMoves DEF S!Move, Destroying
  <2>8. CASE mutex' = NoThread /\ UNCHANGED ctrl
    <3>1. SeatState'[w] = "unusable" /\ SeatGuest'[w] = NoAddr
      BY <1>1, <2>1, <2>2, <2>8, SeatsHeld DEF RestState, Live
    <3>2. S!Fail(w)
      BY <2>3, <2>6, <3>1 DEF S!Fail
    <3> QED
      BY <3>2 DEF S!SNext
  <2>9. CASE mutex' = NoThread /\ ConnectNew(t)
    <3>1. ctrl'[w] = job[t].addr /\ job[t].addr \in Addrs
      BY <1>1, <2>1, <2>2, <2>9 DEF ConnectNew, TypeOK, IInv, Jobs
    <3>2. SeatState'[w] = "taken" /\ SeatGuest'[w] = SeatGuest[w]
      BY <1>1, <2>1, <2>2, <2>3, <2>9, <3>1, SeatsHeld, DongleConstants DEF RestState, Live
    <3>3. S!BeSeated(w)
      BY <2>3, <2>6, <3>2 DEF S!BeSeated
    <3> QED
      BY <3>3 DEF S!SNext
  <2> QED
    BY <2>4, <2>7, <2>8, <2>9
<1> QED
  BY <1>3, <1>4, <1>5 DEF Connect

(* handleControllerDisconnect takes a WCID back.                           *)
LEMMA DisconnectSteps ==
  ASSUME IInv, IInv', NEW t \in Threads, Disconnect(t)
  PROVE  [S!SNext]_(S!svars)
<1> USE DEF host, own, hw, pair, watch, hist, Goto, Unlock
<1>1. Seated /\ Seated' /\ Only(t) /\ TypeOK
  BY ReaderControl DEF IInv, Handle, Keeps
<1>2. pc[t] \in LockedPC => mutex = t
  BY DEF IInv, Locked
<1>3. ASSUME DisconnectLock(t) \/ NotConnected(t) PROVE UNCHANGED S!svars
  <2>1. CASE DisconnectLock(t)
    BY <1>1, <2>1, QuietStep, DongleConstants DEF DisconnectLock, Lock, TypeOK
  <2>2. CASE NotConnected(t)
    BY <1>1, <1>2, <2>2, QuietStep, DongleConstants DEF NotConnected, LockedPC, DisconnectPC
  <2> QED
    BY <1>3, <2>1, <2>2
<1>4. CASE DisconnectReset(t)
  <2>1. /\ pc[t] = "d_reset" /\ pc' = [pc EXCEPT ![t] = "d_remove"] /\ mutex = t
        /\ job[t].wcid \in Live
        /\ UNCHANGED <<connected, mutex, job, mpc>>
        /\ ctrl' = [ctrl EXCEPT ![job[t].wcid] = NoAddr]
    BY <1>2, <1>4 DEF DisconnectReset, PowerOff, LockedPC, DisconnectPC
  <2>2. PICK w \in Wcids : w = job[t].wcid /\ w \in Live
    BY <2>1 DEF Live
  <2>3. S!Move(w, SeatState'[w], SeatGuest'[w])
    BY <1>1, <2>1, <2>2, OneMoves DEF TypeOK
  <2>4. SeatState[w] = "taken"
    BY <1>1, <2>1, <2>2, SeatsHeld DEF HeldState, ConnectPC
  <2>5. ctrl'[w] = NoAddr /\ pc'[t] = "d_remove"
    BY <1>1, <2>1, <2>2 DEF TypeOK
  <2>6. SeatState'[w] = "leaving" /\ SeatGuest'[w] = NoAddr
    BY <1>1, <2>1, <2>2, <2>5, SeatsHeld DEF HeldState, HeldGuest, Live, ConnectPC, DisconnectPC
  <2>7. S!Settled
    BY <1>1, <2>1, SettledSeats DEF ConnectPC
  <2>8. ~Destroying
    BY <2>1, Alive DEF IInv
  <2>9. S!Leave(w)
    BY <2>3, <2>4, <2>6, <2>7, <2>8 DEF S!Leave, Destroying
  <2> QED
    BY <2>9 DEF S!SNext
<1>5. ASSUME \/ DisconnectRemove(t) \/ DisconnectAddr(t) \/ DisconnectLed(t)
             \/ DisconnectFlap(t)
      PROVE  [S!SNext]_(S!svars)
  <2>1. /\ pc[t] \in {"d_remove", "d_addr", "d_led", "d_flap"} /\ mutex = t
        /\ mpc' = mpc /\ ctrl' = ctrl
        /\ connected' \in {connected, connected \ {job[t].wcid}}
        /\ pc[t] # "d_remove" => connected' = connected
        /\ pc[t] = "d_remove" => connected' = connected \ {job[t].wcid}
    BY <1>2, <1>5 DEF DisconnectRemove, DisconnectAddr, DisconnectLed, DisconnectFlap,
       LockedPC, DisconnectPC
  <2>2. PICK w \in Wcids : w = job[t].wcid /\ ctrl[w] = NoAddr /\ w \notin connected'
    BY <1>1, <2>1 DEF IInv, Jobs, Seated, Cleaning, DisconnectPC
  <2>3. SeatState[w] = "leaving"
    BY <1>1, <2>1, <2>2, SeatsHeld DEF HeldState, Live, ConnectPC, DisconnectPC
  <2>4. SeatGuest[w] = NoAddr
    BY <1>1, <2>1, <2>2, SeatsHeld DEF HeldGuest, ConnectPC
  <2>5. \/ pc'[t] \in Cleaning /\ UNCHANGED <<job, mutex>>
        \/ mutex' = NoThread
    BY <1>1, <1>5 DEF DisconnectRemove, DisconnectAddr, DisconnectLed, DisconnectFlap,
       Cleaning, TypeOK
  <2>6. S!Move(w, SeatState'[w], SeatGuest'[w])
    BY <1>1, <2>1, <2>2, <2>5, OneMoves, DongleConstants
  <2>7. CASE pc'[t] \in Cleaning /\ UNCHANGED <<job, mutex>>
    <3>1. SeatState'[w] = "leaving"
      BY <1>1, <2>1, <2>2, <2>7, SeatsHeld DEF HeldState, Live, Cleaning, ConnectPC, DisconnectPC
    <3>2. SeatGuest'[w] = NoAddr
      BY <1>1, <2>1, <2>2, <2>7, SeatsHeld DEF HeldGuest, Cleaning, ConnectPC
    <3> QED
      BY <2>1, <2>3, <2>4, <2>6, <3>1, <3>2, NobodyMoves DEF S!Move, Destroying
  <2>8. CASE mutex' = NoThread
    <3>1. SeatState'[w] = "free" /\ SeatGuest'[w] = NoAddr
      BY <1>1, <2>1, <2>2, <2>8, SeatsHeld DEF RestState, Live
    <3>2. S!Free(w)
      BY <2>3, <2>6, <3>1 DEF S!Free
    <3> QED
      BY <3>2 DEF S!SNext
  <2> QED
    BY <2>5, <2>7, <2>8
<1> QED
  BY <1>3, <1>4, <1>5 DEF Disconnect

(* Packets, pairing and events move nobody.                                *)
LEMMA OtherSteps ==
  ASSUME IInv, IInv', NEW t \in Threads,
         Packet(t) \/ Pairing(t) \/ Receive(t) \/ ReaderStops(t) \/ ReaderFails(t)
  PROVE  UNCHANGED S!svars
<1> USE DongleConstants DEF host, own, hw, pair, watch, hist, Goto, Unlock, Return, Lock
<1>1. Only(t) /\ TypeOK
  BY ReaderControl DEF IInv, Handle, Keeps
<1>2. pc[t] \in LockedPC <=> mutex = t
  BY DEF IInv, Locked
<1>3. pc'[t] \in LockedPC <=> mutex' = t
  BY DEF IInv, Locked
<1>4. UNCHANGED <<connected, ctrl, mpc>>
  BY DEF Packet, PacketLock, PacketIgnored, PacketAnswer, Pairing, PairSend, PairBeacon,
     PairCalibrate, PairLed, Receive, ReceiveConnect, ReceiveDisconnect, ReceivePacket,
     ReceivePair, ReceiveButton, Start, ReaderStops, ReaderFails
<1>5. CASE Packet(t)
  <2>1. \/ mutex = NoThread /\ mutex' = t /\ pc' = [pc EXCEPT ![t] = "g_send"]
        \/ pc[t] = "g_send" /\ mutex' = NoThread
        \/ pc[t] = "g_send" /\ mutex' = mutex /\ pc' = [pc EXCEPT ![t] = "g_send"]
    BY <1>5 DEF Packet, PacketLock, PacketIgnored, PacketAnswer
  <2>2. "g_send" \in LockedPC
    BY DEF LockedPC
  <2> QED
    BY <1>1, <1>2, <1>4, <2>1, <2>2, QuietStep DEF TypeOK
<1>6. CASE Pairing(t) \/ Receive(t) \/ ReaderStops(t) \/ ReaderFails(t)
  <2>1. mutex' = mutex /\ pc[t] \in UnlockedPC
    BY <1>6 DEF Pairing, PairSend, PairBeacon,
       PairCalibrate, PairLed, Receive, ReceiveConnect, ReceiveDisconnect, ReceivePacket,
       ReceivePair, ReceiveButton, Start, ReaderStops, ReaderFails, UnlockedPC
  <2>2. mutex # t
    BY <1>2, <2>1 DEF LockedPC, ConnectPC, DisconnectPC, UnlockedPC
  <2> QED
    BY <1>1, <1>4, <2>1, <2>2, QuietStep
<1> QED
  BY <1>5, <1>6

(* The owner closes the seats and dismisses whoever has one.               *)
LEMMA OwnerSteps ==
  ASSUME IInv, IInv',
         \/ InstallFlapHandler \/ StopRequested \/ WatchFires \/ Teardown
         \/ \E w \in Wcids : RumbleSend(w)
  PROVE  [S!SNext]_(S!svars)
<1> USE DEF host, own, hw, pair, watch, hist
<1>1. Seated /\ Seated' /\ TypeOK
  BY DEF IInv
<1>2. UNCHANGED <<connected, ctrl, mutex, pc, job>>
        => SeatState' = SeatState /\ SeatGuest' = SeatGuest
  BY DEF SeatState, SeatGuest, Changes, Live
<1>3. ASSUME UNCHANGED <<connected, ctrl, mutex, pc, job>>, Destroying' <=> Destroying
      PROVE  UNCHANGED S!svars
  BY <1>2, <1>3, NobodyMoves
<1>4. CASE InstallFlapHandler \/ StopRequested \/ WatchFires
  BY <1>3, <1>4 DEF InstallFlapHandler, StopRequested, WatchFires, BeginDestroy, Destroying
<1>5. CASE AllDestroyed \/ LedOff \/ RadioOff
  BY <1>3, <1>5 DEF AllDestroyed, LedOff, RadioOff, Destroying
<1>6. ASSUME NEW w \in Wcids, RumbleSend(w) PROVE UNCHANGED S!svars
  BY <1>3, <1>6 DEF RumbleSend, Destroying
<1>7. ASSUME mpc \in {"join", "power"}, \A t \in Threads : pc[t] = "done" PROVE mutex = NoThread
  BY <1>1, <1>7 DEF TypeOK, IInv, Locked, LockedPC, ConnectPC, DisconnectPC
<1>8. CASE JoinReaders
  <2>1. /\ UNCHANGED <<connected, ctrl, mutex, pc, job>> /\ mutex = NoThread
        /\ ~Destroying /\ Destroying'
    BY <1>7, <1>8 DEF JoinReaders, Destroying
  <2>2. S!Settled
    BY <1>1, <2>1, SettledSeats, DongleConstants
  <2>3. S!Close
    BY <1>2, <2>1, <2>2 DEF S!Close, Destroying
  <2> QED
    BY <2>3 DEF S!SNext
<1>9. ASSUME NEW w \in Wcids, DestroyController(w) PROVE [S!SNext]_(S!svars)
  <2>1. /\ UNCHANGED <<connected, mutex, pc, job, mpc>> /\ w \in Live /\ mpc = "power"
        /\ ctrl' = [ctrl EXCEPT ![w] = NoAddr]
    BY <1>9 DEF DestroyController, PowerOff
  <2>2. mutex = NoThread /\ mutex' = NoThread
    BY <1>7, <2>1 DEF IInv, Teardowns, Destroying
  <2>3. ASSUME NEW v \in Wcids
        PROVE  /\ SeatState[v] = RestState(v) /\ SeatGuest[v] = ctrl[v]
               /\ SeatState'[v] = RestState(v)' /\ SeatGuest'[v] = ctrl'[v]
    BY <1>1, <2>2 DEF Seated, SeatState, SeatGuest, Changes, RestState
  <2>4. w \in connected' /\ ctrl'[w] = NoAddr
    BY <1>1, <2>1 DEF Seated, TypeOK
  <2>5. SeatState[w] = "taken" /\ SeatState'[w] = "unusable" /\ SeatGuest'[w] = NoAddr
    BY <2>1, <2>3, <2>4 DEF RestState, Live
  <2>6. \A v \in Wcids \ {w} : SeatState'[v] = SeatState[v] /\ SeatGuest'[v] = SeatGuest[v]
    BY <1>1, <2>1, <2>3 DEF RestState, Live, TypeOK
  <2>7. S!Dismiss(w)
    BY <2>1, <2>5, <2>6 DEF S!Dismiss, S!Move
  <2> QED
    BY <2>7 DEF S!SNext
<1> QED
  BY <1>4, <1>5, <1>6, <1>8, <1>9 DEF Teardown

(* The WCIDs are seats as module Seats describes them: one changes at a    *)
(* time, whatever fails and whichever events the endpoints bring.          *)
THEOREM Implementation == Safety => ImplementsSeats
<1>1. Init => S!SInit
  <2> SUFFICES ASSUME Init PROVE S!SInit
    OBVIOUS
  <2>1. SeatState = [w \in Wcids |-> "free"]
    BY DEF SeatState, Init, Changes, Live
  <2>2. SeatGuest = [w \in Wcids |-> NoAddr]
    BY DEF SeatGuest, Init, Changes
  <2>3. (mpc \in {"power", "led", "radio", "closed"}) = FALSE
    BY DEF Init
  <2> QED
    BY <2>1, <2>2, <2>3 DEF S!SInit
<1>2. ASSUME IInv, IInv', [Next]_vars PROVE [S!SNext]_(S!svars)
  <2>1. ASSUME UNCHANGED vars PROVE UNCHANGED S!svars
    BY <2>1 DEF vars, S!svars, SeatState, SeatGuest, Changes, Live
  <2> QED
    BY <1>2, <2>1, ConnectSteps, DisconnectSteps, OtherSteps, OwnerSteps DEF Next, Handle
<1> QED
  BY <1>1, <1>2, Invariant, PTL DEF Safety, ImplementsSeats, S!SSafety
(* What whoever uses a dongle may rely on, and a seat's description alone  *)
(* entails: a WCID whose controller object exists is allocated; it is for  *)
(* a controller exactly while one joins or has it; one WCID changes at a   *)
(* time, and none once the destructor is past joining the readers.         *)
Closing == mpc \in {"power", "led", "radio", "closed"}
Unsettled(w) == SeatState[w] \in {"joining", "leaving"}
SeatLaws ==
    \A w \in Wcids :
        /\ SeatState[w] \in {"free", "joining", "taken", "leaving", "unusable"}
        /\ SeatGuest[w] = NoAddr <=> SeatState[w] \notin {"joining", "taken"}
        /\ Unsettled(w) => ~Closing /\ \A v \in Wcids : Unsettled(v) => v = w

(* A move keeps the laws if nothing else is unsettled, and ends where a    *)
(* seat has a guest exactly if it has to.                                  *)
LEMMA MoveKeepsLaws ==
  ASSUME SeatLaws, NEW w \in Wcids, NEW to, NEW who,
         S!Move(w, to, who),
         to \in {"free", "joining", "taken", "leaving", "unusable"},
         who = NoAddr <=> to \notin {"joining", "taken"},
         to \in {"joining", "leaving"} => ~Closing /\ S!Settled,
         S!Settled \/ Unsettled(w) \/ Closing
  PROVE  SeatLaws'
<1>1. /\ SeatState'[w] = to /\ SeatGuest'[w] = who
      /\ \A v \in Wcids \ {w} : SeatState'[v] = SeatState[v] /\ SeatGuest'[v] = SeatGuest[v]
      /\ Closing' = Closing
  BY DEF S!Move, Closing
<1>2. S!Settled => \A v \in Wcids : ~Unsettled(v)
  BY DEF S!Settled, Unsettled
<1>3. Closing => \A v \in Wcids : ~Unsettled(v)
  BY DEF SeatLaws
<1>4. /\ \A v \in Wcids \ {w} : Unsettled(v)' <=> Unsettled(v)
      /\ Unsettled(w)' <=> to \in {"joining", "leaving"}
  BY <1>1 DEF Unsettled
<1>5. ASSUME NEW v \in Wcids PROVE (SeatState[v] \in {"free", "joining", "taken", "leaving", "unusable"})'
                                   /\ (SeatGuest[v] = NoAddr <=> SeatState[v] \notin {"joining", "taken"})'
  <2>1. CASE v = w
    BY <1>1, <2>1
  <2>2. CASE v # w
    BY <1>1, <2>2 DEF SeatLaws
  <2> QED
    BY <2>1, <2>2
<1>6. ASSUME NEW v \in Wcids, Unsettled(v)'
      PROVE  ~Closing' /\ \A u \in Wcids : Unsettled(u)' => u = v
  <2>1. \A u \in Wcids : Unsettled(u) => u = w
    BY <1>2, <1>3 DEF SeatLaws
  <2>2. v = w
    BY <1>4, <1>6, <2>1
  <2>3. \A u \in Wcids : Unsettled(u)' => u = w
    BY <1>4, <2>1
  <2> QED
    BY <1>1, <1>4, <1>6, <2>2, <2>3
<1> QED
  BY <1>5, <1>6 DEF SeatLaws

(* handleControllerConnect, handleControllerDisconnect, ~Dongle: whatever  *)
(* fails, the laws of the seats hold of the WCIDs.                         *)
THEOREM SeatsInOrder == Safety => []SeatLaws
<1>1. S!SInit => SeatLaws
  BY DongleConstants DEF S!SInit, SeatLaws, Unsettled
<1>2. ASSUME SeatLaws, [S!SNext]_(S!svars) PROVE SeatLaws'
  <2>1. ASSUME UNCHANGED S!svars PROVE SeatLaws'
    <3>1. SeatState' = SeatState /\ SeatGuest' = SeatGuest /\ Closing' = Closing
      BY <2>1 DEF S!svars, Closing
    <3>2. \A v \in Wcids : Unsettled(v)' <=> Unsettled(v)
      BY <3>1 DEF Unsettled
    <3> QED
      BY <1>2, <3>1, <3>2 DEF SeatLaws
  <2>2. ASSUME NEW w \in Wcids, S!BeSeated(w) PROVE SeatLaws'
    <3>1. SeatState[w] = "joining" /\ S!Move(w, "taken", SeatGuest[w])
      BY <2>2 DEF S!BeSeated
    <3>2. SeatGuest[w] # NoAddr /\ Unsettled(w)
      BY <1>2, <3>1 DEF SeatLaws, Unsettled
    <3> QED
      BY <1>2, <3>1, <3>2, MoveKeepsLaws
  <2>3. ASSUME NEW w \in Wcids, S!Fail(w) PROVE SeatLaws'
    <3>1. S!Move(w, "unusable", NoAddr) /\ (S!Settled \/ Unsettled(w))
      BY <2>3 DEF S!Fail, Unsettled
    <3> QED
      BY <1>2, <3>1, MoveKeepsLaws
  <2>4. ASSUME NEW w \in Wcids, S!Leave(w) PROVE SeatLaws'
    <3>1. S!Move(w, "leaving", NoAddr) /\ S!Settled /\ ~Closing
      BY <2>4 DEF S!Leave, Closing
    <3> QED
      BY <1>2, <3>1, MoveKeepsLaws
  <2>5. ASSUME NEW w \in Wcids, S!Free(w) PROVE SeatLaws'
    <3>1. S!Move(w, "free", NoAddr) /\ Unsettled(w)
      BY <2>5 DEF S!Free, Unsettled
    <3> QED
      BY <1>2, <3>1, MoveKeepsLaws
  <2>6. ASSUME NEW w \in Wcids, S!Dismiss(w) PROVE SeatLaws'
    <3>1. S!Move(w, "unusable", NoAddr) /\ Closing
      BY <2>6 DEF S!Dismiss, Closing
    <3> QED
      BY <1>2, <3>1, MoveKeepsLaws
  <2>7. ASSUME NEW w \in Wcids, NEW g \in Addrs, S!Join(w, g) PROVE SeatLaws'
    <3>1. S!Move(w, "joining", g) /\ S!Settled /\ ~Closing /\ g # NoAddr
      BY <2>7, DongleConstants DEF S!Join, Closing
    <3> QED
      BY <1>2, <3>1, MoveKeepsLaws
  <2>8. ASSUME S!Close PROVE SeatLaws'
    <3>1. SeatState' = SeatState /\ SeatGuest' = SeatGuest /\ S!Settled
      BY <2>8 DEF S!Close
    <3>2. \A v \in Wcids : ~Unsettled(v)'
      BY <3>1 DEF S!Settled, Unsettled
    <3> QED
      BY <1>2, <3>1, <3>2 DEF SeatLaws
  <2> QED
    BY <1>2, <2>1, <2>2, <2>3, <2>4, <2>5, <2>6, <2>7, <2>8 DEF S!SNext
<1> QED
  BY <1>1, <1>2, Implementation, PTL DEF ImplementsSeats, S!SSafety
=============================================================================
