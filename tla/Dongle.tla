------------------------------- MODULE Dongle --------------------------------
(***************************************************************************)
(* dongle/dongle.cpp on top of the client operations of dongle/mt76.cpp:   *)
(* two reader threads take events from the two bulk endpoints and handle   *)
(* them, associating, serving, removing and pairing controllers.  The      *)
(* owner (main.cpp's worker loop) builds the dongle and destroys it when   *)
(* it is lost or a stop is requested.                                      *)
(*                                                                         *)
(* Each USB write is a step: handlers interleave there.  A write that      *)
(* fails calls terminate() (the dongle counts as lost), may or may not     *)
(* have reached the hardware, and may be followed by writes that succeed.  *)
(* Events are not restricted to what a sane radio sends: any event may     *)
(* arrive on either endpoint at any time, with any WCID.                   *)
(***************************************************************************)
EXTENDS Naturals

CONSTANTS
    NumWcid,          \* MT_WCID_COUNT
    Addrs,            \* MAC addresses of controllers
    NoAddr,           \* the empty address, or no controller
    Threads,          \* the reader threads, one per endpoint
    NoThread          \* nobody holds controllerMutex

ASSUME DongleConstants ==
    /\ NumWcid \in Nat
    /\ NoAddr \notin Addrs
    /\ NoThread \notin Threads

Wcids == 1..NumWcid

VARIABLES
    \* host
    connected,        \* connectedClients: the WCIDs whose bit is set
    ctrl,             \* controllers[w]: address the controller is bound to
    mutex,            \* holder of controllerMutex
    pc, job,          \* per reader thread: step, and what it works on
    stopThreads,
    flapSet,          \* the link-flap handler is installed
    mpc,              \* the owner's step
    \* dongle hardware
    hwAddr,           \* WCID address table
    fwClients,        \* clients known to the firmware
    led, beacon,      \* LED mode; pairing bit of the beacon
    \* lost-dongle watch
    failed, flapped,  \* terminate() was called; linkFlap() was called
    \* history
    awake,            \* WCIDs welcomed and not told to power off since
    misdirected,      \* a packet went to a WCID of another address
    pairLed           \* last LED mode setPairingStatus wrote is blink

host == <<connected, ctrl>>
hw   == <<hwAddr, fwClients>>
pair == <<led, beacon, pairLed>>
hist == <<awake, misdirected>>
own  == <<stopThreads, flapSet, mpc>>
watch == <<failed, flapped>>
vars == <<connected, ctrl, mutex, pc, job, stopThreads, flapSet, mpc, hwAddr,
          fwClients, led, beacon, failed, flapped, awake, misdirected, pairLed>>

Lost == failed \/ flapped

Live == {w \in Wcids : ctrl[w] # NoAddr}

Idle == [wcid |-> 0, addr |-> NoAddr, enable |-> FALSE]

ConnectPC    == {"c_addr", "c_add", "c_resp", "c_led", "c_new"}
DisconnectPC == {"d_reset", "d_remove", "d_addr", "d_led", "d_flap"}
LockedPC     == ConnectPC \cup DisconnectPC \cup {"g_send"}
UnlockedPC   == {"read", "done", "c_lock", "d_lock", "g_lock",
                 "p_send", "p_beacon", "p_calib", "p_led"}
OwnerPC      == {"built", "run", "join", "power", "led", "radio", "closed"}

TypeOK ==
    /\ connected \subseteq Wcids /\ fwClients \subseteq Wcids
    /\ awake \subseteq Wcids
    /\ ctrl \in [Wcids -> Addrs \cup {NoAddr}]
    /\ hwAddr \in [Wcids -> Addrs \cup {NoAddr}]
    /\ mutex \in Threads \cup {NoThread}
    /\ pc \in [Threads -> LockedPC \cup UnlockedPC]
    /\ job \in [Threads -> [wcid : Wcids \cup {0}, addr : Addrs \cup {NoAddr},
                            enable : BOOLEAN]]
    /\ led \in {"off", "on", "blink"} /\ beacon \in BOOLEAN
    /\ mpc \in OwnerPC /\ stopThreads \in BOOLEAN /\ flapSet \in BOOLEAN
    /\ failed \in BOOLEAN /\ flapped \in BOOLEAN
    /\ misdirected \in BOOLEAN /\ pairLed \in BOOLEAN

(* Mt76's constructor has brought the radio up and written a beacon that   *)
(* does not offer pairing; the reader threads have just been started.      *)
Init ==
    /\ connected = {} /\ fwClients = {} /\ awake = {}
    /\ ctrl = [w \in Wcids |-> NoAddr]
    /\ hwAddr = [w \in Wcids |-> NoAddr]
    /\ mutex = NoThread
    /\ pc = [t \in Threads |-> "read"]
    /\ job = [t \in Threads |-> Idle]
    /\ led = "off" /\ beacon = FALSE /\ pairLed = FALSE
    /\ mpc = "built" /\ stopThreads = FALSE /\ flapSet = FALSE
    /\ failed = FALSE /\ flapped = FALSE
    /\ misdirected = FALSE

-----------------------------------------------------------------------------
(* Steps of a reader thread *)

Goto(t, step) == pc' = [pc EXCEPT ![t] = step] /\ UNCHANGED <<job, mutex>>

\* leave a handler without holding controllerMutex
Return(t) ==
    /\ pc' = [pc EXCEPT ![t] = "read"]
    /\ job' = [job EXCEPT ![t] = Idle]
    /\ UNCHANGED mutex

\* leave a handler, releasing controllerMutex
Unlock(t) ==
    /\ pc' = [pc EXCEPT ![t] = "read"]
    /\ job' = [job EXCEPT ![t] = Idle]
    /\ mutex' = NoThread

Lock(t, step) ==
    /\ mutex = NoThread
    /\ mutex' = t
    /\ pc' = [pc EXCEPT ![t] = step]
    /\ UNCHANGED job

UsbOk   == UNCHANGED failed
UsbFail == failed' = TRUE         \* UsbDevice calls terminate()

Start(t, step, work) ==
    /\ pc[t] = "read" /\ ~stopThreads
    /\ pc' = [pc EXCEPT ![t] = step]
    /\ job' = [job EXCEPT ![t] = work]
    /\ UNCHANGED <<host, mutex, own, hw, pair, watch, hist>>

(* bulkRead returned data: handleBulkData and handleWlanPacket dispatch    *)
(* on the event.  Events they ignore leave the thread where it is.         *)
ReceiveConnect(t) ==
    \E a \in Addrs : Start(t, "c_lock", [Idle EXCEPT !.addr = a])

ReceiveDisconnect(t) ==          \* EVT_CLIENT_LOST or a disassociation
    \E w \in Wcids : Start(t, "d_lock", [Idle EXCEPT !.wcid = w])

ReceivePacket(t) ==
    \E w \in Wcids : Start(t, "g_lock", [Idle EXCEPT !.wcid = w])

ReceivePair(t) == Start(t, "p_send", Idle)

ReceiveButton(t) == Start(t, "p_beacon", [Idle EXCEPT !.enable = TRUE])

Receive(t) == ReceiveConnect(t) \/ ReceiveDisconnect(t) \/ ReceivePacket(t)
              \/ ReceivePair(t) \/ ReceiveButton(t)

(* readBulkPackets leaves its loop.                                        *)
ReaderStops(t) ==
    /\ pc[t] = "read" /\ stopThreads
    /\ Goto(t, "done")
    /\ UNCHANGED <<host, own, hw, pair, watch, hist>>

ReaderFails(t) ==                \* bulkRead returned an error
    /\ pc[t] = "read" /\ ~stopThreads
    /\ Goto(t, "done") /\ UsbFail
    /\ UNCHANGED <<host, own, hw, pair, flapped, hist>>

-----------------------------------------------------------------------------
(* handleControllerConnect and associateClient *)

ConnectLock(t) ==
    /\ pc[t] = "c_lock" /\ Lock(t, "c_addr")
    /\ UNCHANGED <<host, own, hw, pair, watch, hist>>

\* the lowest free WCID
FirstFree(w) == w \notin connected /\ \A v \in Wcids \ connected : w <= v

\* Mutant of Reserve: the WCID is not marked as taken
ReserveForgets(t, w) ==
    /\ connected' = connected
    /\ job' = [job EXCEPT ![t].wcid = w]

Reserve(t, w) ==                 \* connectedClients |= BIT(wcid - 1)
    /\ connected' = connected \cup {w}
    /\ job' = [job EXCEPT ![t].wcid = w]

TableFull(t) ==                  \* all WCIDs are taken
    /\ pc[t] = "c_addr" /\ Wcids \subseteq connected
    /\ Unlock(t)
    /\ UNCHANGED <<host, own, hw, pair, watch, hist>>

ConnectReserve(t) ==             \* take a WCID, write its address
    /\ pc[t] = "c_addr"
    /\ \E w \in Wcids : LET written == [hwAddr EXCEPT ![w] = job[t].addr] IN
        /\ FirstFree(w)
        /\ \/ /\ Reserve(t, w) /\ UsbOk
              /\ hwAddr' = written
              /\ pc' = [pc EXCEPT ![t] = "c_add"]
              /\ UNCHANGED mutex
           \/ /\ connected' = connected \cup {w}
              /\ UsbFail /\ hwAddr' \in {hwAddr, written} /\ Unlock(t)
    /\ UNCHANGED <<ctrl, own, fwClients, pair, flapped, hist>>

ConnectAdd(t) ==                 \* FW_CLIENT_ADD
    LET added == fwClients \cup {job[t].wcid} IN
    /\ pc[t] = "c_add"
    /\ \/ UsbOk /\ fwClients' = added /\ Goto(t, "c_resp")
       \/ UsbFail /\ fwClients' \in {fwClients, added} /\ Unlock(t)
    /\ UNCHANGED <<host, own, hwAddr, pair, flapped, hist>>

ConnectRespond(t) ==             \* association response
    LET woken == awake \cup {job[t].wcid} IN
    /\ pc[t] = "c_resp"
    /\ \/ UsbOk /\ awake' = woken /\ Goto(t, "c_led")
       \/ UsbFail /\ awake' \in {awake, woken} /\ Unlock(t)
    /\ UNCHANGED <<host, own, hw, pair, flapped, misdirected>>

ConnectLed(t) ==
    /\ pc[t] = "c_led"
    /\ \/ UsbOk /\ led' = "on" /\ Goto(t, "c_new")
       \/ UsbFail /\ led' \in {led, "on"} /\ Unlock(t)
    /\ UNCHANGED <<host, own, hw, beacon, pairLed, flapped, hist>>

ConnectNew(t) ==                 \* controllers[wcid - 1].reset(new Controller)
    /\ pc[t] = "c_new"
    /\ ctrl' = [ctrl EXCEPT ![job[t].wcid] = job[t].addr]
    /\ Unlock(t)
    /\ UNCHANGED <<connected, own, hw, pair, watch, hist>>

Connect(t) == ConnectLock(t) \/ TableFull(t) \/ ConnectReserve(t)
    \/ ConnectAdd(t) \/ ConnectRespond(t) \/ ConnectLed(t) \/ ConnectNew(t)

-----------------------------------------------------------------------------
(* sendClientPacket: skipped when the WCID is not connected *)

Transmit(w) == misdirected' = (misdirected \/ (w \in connected /\ hwAddr[w] # ctrl[w]))

(* ~Controller: the rumble thread is joined, then POWER_OFF is sent.       *)
PowerOff(w) ==
    /\ Transmit(w)
    /\ ctrl' = [ctrl EXCEPT ![w] = NoAddr]
    /\ \/ w \notin connected /\ UsbOk /\ UNCHANGED awake
       \/ w \in connected /\ UsbOk /\ awake' = awake \ {w}
       \/ w \in connected /\ UsbFail /\ awake' \in {awake, awake \ {w}}

(* A controller's rumble thread sends a packet; it takes no mutex.         *)
RumbleSend(w) ==
    /\ w \in Live
    /\ Transmit(w)
    /\ UsbOk \/ (w \in connected /\ UsbFail)
    /\ UNCHANGED <<host, mutex, pc, job, own, hw, pair, flapped, awake>>

-----------------------------------------------------------------------------
(* handleControllerDisconnect and removeClient *)

\* Mutant of DisconnectLock: the handler does not wait for the mutex
DisconnectNoLock(t) ==
    /\ pc[t] = "d_lock"
    /\ mutex' = t /\ pc' = [pc EXCEPT ![t] = "d_reset"]
    /\ UNCHANGED <<job, host, own, hw, pair, watch, hist>>

DisconnectLock(t) ==
    /\ pc[t] = "d_lock" /\ Lock(t, "d_reset")
    /\ UNCHANGED <<host, own, hw, pair, watch, hist>>

NotConnected(t) ==
    /\ pc[t] = "d_reset" /\ job[t].wcid \notin Live
    /\ Unlock(t)
    /\ UNCHANGED <<host, own, hw, pair, watch, hist>>

\* Mutant of DisconnectReset: the controller object is not destroyed
DisconnectKeepsObject(t) ==
    /\ pc[t] = "d_reset" /\ job[t].wcid \in Live
    /\ Goto(t, "d_remove")
    /\ UNCHANGED <<host, own, hw, pair, watch, hist>>

\* Mutant of DisconnectReset: the bit is cleared before ~Controller runs
DisconnectClearsFirst(t) ==
    /\ pc[t] = "d_reset" /\ job[t].wcid \in Live
    /\ connected' = connected \ {job[t].wcid}
    /\ ctrl' = [ctrl EXCEPT ![job[t].wcid] = NoAddr]
    /\ Goto(t, "d_remove")
    /\ UNCHANGED <<own, hw, pair, watch, hist>>

DisconnectReset(t) ==            \* controllers[wcid - 1].reset()
    /\ pc[t] = "d_reset" /\ job[t].wcid \in Live
    /\ PowerOff(job[t].wcid)
    /\ Goto(t, "d_remove")
    /\ UNCHANGED <<connected, own, hw, pair, flapped>>

\* Mutant of DisconnectRemove: a failed command keeps the lock
DisconnectRemoveKeepsLock(t) ==
    LET removed == fwClients \ {job[t].wcid} IN
    /\ pc[t] = "d_remove"
    /\ connected' = connected \ {job[t].wcid}
    /\ \/ UsbOk /\ fwClients' = removed /\ Goto(t, "d_addr")
       \/ UsbFail /\ fwClients' \in {fwClients, removed} /\ Goto(t, "read")
    /\ UNCHANGED <<ctrl, own, hwAddr, pair, flapped, hist>>

DisconnectRemove(t) ==           \* clear the bit, FW_CLIENT_REMOVE
    LET removed == fwClients \ {job[t].wcid} IN
    /\ pc[t] = "d_remove"
    /\ connected' = connected \ {job[t].wcid}
    /\ \/ UsbOk /\ fwClients' = removed /\ Goto(t, "d_addr")
       \/ UsbFail /\ fwClients' \in {fwClients, removed} /\ Unlock(t)
    /\ UNCHANGED <<ctrl, own, hwAddr, pair, flapped, hist>>

\* Mutant of DisconnectAddr: the address stays in the table
DisconnectAddrKept(t) ==
    /\ pc[t] = "d_addr"
    /\ Goto(t, IF connected = {} THEN "d_led" ELSE "d_flap")
    /\ UNCHANGED <<host, own, hw, pair, watch, hist>>

DisconnectAddr(t) ==             \* empty address into the WCID table
    LET cleared == [hwAddr EXCEPT ![job[t].wcid] = NoAddr] IN
    /\ pc[t] = "d_addr"
    /\ \/ /\ UsbOk /\ hwAddr' = cleared
          /\ Goto(t, IF connected = {} THEN "d_led" ELSE "d_flap")
       \/ UsbFail /\ hwAddr' \in {hwAddr, cleared} /\ Unlock(t)
    /\ UNCHANGED <<host, own, fwClients, pair, flapped, hist>>

DisconnectLed(t) ==              \* the last client has left
    /\ pc[t] = "d_led"
    /\ \/ UsbOk /\ led' = "off" /\ Goto(t, "d_flap")
       \/ UsbFail /\ led' \in {led, "off"} /\ Unlock(t)
    /\ UNCHANGED <<host, own, hw, beacon, pairLed, flapped, hist>>

DisconnectFlap(t) ==             \* connected for less than 15 s, or not
    /\ pc[t] = "d_flap"
    /\ flapped' \in {flapped, flapped \/ flapSet}
    /\ Unlock(t)
    /\ UNCHANGED <<host, own, hw, pair, failed, hist>>

Disconnect(t) == DisconnectLock(t) \/ NotConnected(t) \/ DisconnectReset(t)
    \/ DisconnectRemove(t) \/ DisconnectAddr(t) \/ DisconnectLed(t)
    \/ DisconnectFlap(t)

-----------------------------------------------------------------------------
(* handleControllerPacket: the controller may answer (acknowledgement,     *)
(* power mode, LED, serial request) while controllerMutex is held          *)

PacketLock(t) ==
    /\ pc[t] = "g_lock" /\ Lock(t, "g_send")
    /\ UNCHANGED <<host, own, hw, pair, watch, hist>>

PacketIgnored(t) ==              \* no controller there, or nothing to send
    /\ pc[t] = "g_send"
    /\ Unlock(t)
    /\ UNCHANGED <<host, own, hw, pair, watch, hist>>

PacketAnswer(t) ==
    /\ pc[t] = "g_send" /\ job[t].wcid \in Live
    /\ Transmit(job[t].wcid)
    /\ \/ UsbOk /\ Goto(t, "g_send")
       \/ job[t].wcid \in connected /\ UsbFail /\ Unlock(t)
    /\ UNCHANGED <<host, own, hw, pair, flapped, awake>>

Packet(t) == PacketLock(t) \/ PacketIgnored(t) \/ PacketAnswer(t)

-----------------------------------------------------------------------------
(* handleControllerPair and setPairingStatus: no mutex *)

PairSend(t) ==                   \* pairClient
    /\ pc[t] = "p_send"
    /\ \/ UsbOk /\ Goto(t, "p_beacon")
       \/ UsbFail /\ Return(t)
    /\ UNCHANGED <<host, own, hw, pair, flapped, hist>>

PairBeacon(t) ==                 \* writeBeacon: the beacon frame
    /\ pc[t] = "p_beacon"
    /\ \/ UsbOk /\ beacon' = job[t].enable /\ Goto(t, "p_calib")
       \/ UsbFail /\ beacon' = job[t].enable /\ Goto(t, "p_calib")
       \/ UsbFail /\ beacon' \in {beacon, job[t].enable} /\ Return(t)
    /\ UNCHANGED <<host, own, hw, led, pairLed, flapped, hist>>

PairCalibrate(t) ==              \* writeBeacon: timer register, calibration
    /\ pc[t] = "p_calib"
    /\ \/ UsbOk /\ Goto(t, "p_led")
       \/ UsbFail /\ Goto(t, "p_led")      \* only the register write failed
       \/ UsbFail /\ Return(t)
    /\ UNCHANGED <<host, own, hw, pair, flapped, hist>>

PairLed(t) ==
    LET mode == IF job[t].enable THEN "blink" ELSE "on" IN
    /\ pc[t] = "p_led"
    /\ \/ UsbOk /\ led' = mode /\ pairLed' = job[t].enable
       \/ UsbFail /\ led' \in {led, mode} /\ pairLed' \in {pairLed, job[t].enable}
    /\ Return(t)
    /\ UNCHANGED <<host, own, hw, beacon, flapped, hist>>

Pairing(t) == PairSend(t) \/ PairBeacon(t) \/ PairCalibrate(t) \/ PairLed(t)

-----------------------------------------------------------------------------
(* The owner: main.cpp's worker loop, ~Dongle and ~Mt76 *)

InstallFlapHandler ==            \* setLinkFlapHandler
    /\ mpc = "built"
    /\ mpc' = "run" /\ flapSet' = TRUE
    /\ UNCHANGED <<host, mutex, pc, job, stopThreads, hw, pair, watch, hist>>

BeginDestroy ==                  \* ~Dongle: stopThreads = true
    /\ mpc = "run"
    /\ mpc' = "join" /\ stopThreads' = TRUE
    /\ UNCHANGED <<host, mutex, pc, job, flapSet, hw, pair, watch, hist>>

StopRequested == ~Lost /\ BeginDestroy
WatchFires == Lost /\ BeginDestroy

JoinReaders ==
    /\ mpc = "join" /\ \A t \in Threads : pc[t] = "done"
    /\ mpc' = "power"
    /\ UNCHANGED <<host, mutex, pc, job, stopThreads, flapSet, hw, pair, watch, hist>>

DestroyController(w) ==          \* the array's members, last one first
    /\ mpc = "power" /\ w \in Live /\ \A v \in Live : v <= w
    /\ PowerOff(w)
    /\ UNCHANGED <<connected, mutex, pc, job, own, hw, pair, flapped>>

AllDestroyed ==
    /\ mpc = "power" /\ Live = {}
    /\ mpc' = "led"
    /\ UNCHANGED <<host, mutex, pc, job, stopThreads, flapSet, hw, pair, watch, hist>>

LedOff ==                        \* ~Mt76; failures are only logged
    /\ mpc = "led"
    /\ mpc' = "radio"
    /\ \/ UsbOk /\ led' = "off"
       \/ UsbFail /\ led' \in {led, "off"}
    /\ UNCHANGED <<host, mutex, pc, job, stopThreads, flapSet, hw, beacon, pairLed, flapped, hist>>

RadioOff ==
    /\ mpc = "radio"
    /\ mpc' = "closed"
    /\ UsbOk \/ UsbFail
    /\ UNCHANGED <<host, mutex, pc, job, stopThreads, flapSet, hw, pair, flapped, hist>>

Teardown == JoinReaders \/ (\E w \in Wcids : DestroyController(w)) \/ AllDestroyed
            \/ LedOff \/ RadioOff

-----------------------------------------------------------------------------
Handle(t) == Connect(t) \/ Disconnect(t) \/ Packet(t) \/ Pairing(t)

Next ==
    \/ \E t \in Threads : Receive(t) \/ ReaderStops(t) \/ ReaderFails(t) \/ Handle(t)
    \/ \E w \in Wcids : RumbleSend(w)
    \/ InstallFlapHandler \/ StopRequested \/ WatchFires \/ Teardown

(* The answers to one packet are finitely many: PacketAnswer is not what   *)
(* the fairness of a reader is about, PacketIgnored ends the handler.      *)
Finish(t) == \/ ReaderStops(t) \/ Connect(t) \/ Disconnect(t) \/ Pairing(t)
             \/ PacketLock(t) \/ PacketIgnored(t)

(* Transfers time out, so started handlers run on; the owner reacts to a   *)
(* lost dongle and runs its destructors.  No event has to arrive.          *)
Fairness ==
    /\ \A t \in Threads : WF_vars(Finish(t))
    /\ WF_vars(InstallFlapHandler) /\ WF_vars(WatchFires) /\ WF_vars(Teardown)

Safety == Init /\ [][Next]_vars
Spec == Safety /\ Fairness

-----------------------------------------------------------------------------
(* Between handlers, and as long as no transfer failed, the five records of *)
(* who is connected agree: the bit set, the controller objects, the WCID   *)
(* address table, the firmware's client list, and who is powered on.       *)
TablesAgree ==
    (mutex = NoThread /\ ~failed /\ mpc \in {"built", "run", "join"}) =>
        /\ connected = Live /\ fwClients = Live /\ awake = Live
        /\ hwAddr = ctrl

(* handleControllerConnect, handleControllerDisconnect: a WCID is a seat   *)
(* that is given to one controller at a time. The seat that the holder of  *)
(* controllerMutex works on is a changing one; no other seat changes,      *)
(* whichever events the two endpoints bring and whatever fails.            *)
Changes(w, steps) == mutex # NoThread /\ job[mutex].wcid = w /\ pc[mutex] \in steps

SeatState == [w \in Wcids |->
    IF Changes(w, ConnectPC) THEN "joining"
    ELSE IF w \in Live THEN (IF w \in connected THEN "taken" ELSE "broken")
    ELSE IF Changes(w, DisconnectPC \ {"d_reset"}) THEN "leaving"
    ELSE IF w \in connected THEN "unusable" ELSE "free"]

SeatGuest == [w \in Wcids |-> IF Changes(w, ConnectPC) THEN job[mutex].addr ELSE ctrl[w]]

S == INSTANCE Seats WITH Seat <- Wcids, Guests <- Addrs, Nobody <- NoAddr,
        state <- SeatState, guest <- SeatGuest,
        closing <- mpc \in {"power", "led", "radio", "closed"}

ImplementsSeats == S!SSafety

(* No packet of a controller, its POWER_OFF included, is transmitted on a  *)
(* WCID that the hardware maps to another address.                         *)
ToOwner == ~misdirected

(* main.cpp:455, "dongle destructor powers controllers off": when no       *)
(* transfer failed, no controller stays awake after the dongle is closed.  *)
AllAsleep == (mpc = "closed" /\ ~failed) => awake = {}

(* A lost dongle is always closed: no handler keeps the destructor waiting. *)
LostCloses == Lost ~> (mpc = "closed")

(* dongle.cpp:299, "Setting the pairing status doesn't require locking the *)
(* mutex": once no call is in progress, the beacon offers pairing exactly  *)
(* when the last LED mode such a call wrote is the blinking one.           *)
PairingSettled ==
    (~failed /\ \A t \in Threads : pc[t] \notin {"p_send", "p_beacon", "p_calib", "p_led"})
        => beacon = pairLed
=============================================================================
