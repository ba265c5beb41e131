------------------------------- MODULE Gamepad --------------------------------
(***************************************************************************)
(* A controller object with its rumble buffer: controller/controller.cpp   *)
(* (module Controller) on top of utils/buffer.h (module TripleBuffer).     *)
(* The notification thread's put and the rumble thread's get run step by   *)
(* step among the steps of the three threads; Controller knows of them the *)
(* queued flag only, which is the same variable here.  A request of the    *)
(* game is followed from the callback to the packet that carries it.       *)
(***************************************************************************)
EXTENDS Controller

CONSTANTS
    MaxPuts,          \* bound on the requests of a game
    Requested         \* the levels it requests, of TripleBuffer's Levels

VARIABLES
    slot, back, middle, front, pput, prevP, arg, pget, prevC,
    puts, taken, gets, last,               \* of TripleBuffer
    sent                                   \* history: newest request sent

B == INSTANCE TripleBuffer

ASSUME LevelsRequested == Requested \subseteq B!Levels

buffer == <<slot, back, middle, front, pput, prevP, arg, pget, prevC, puts,
            taken, gets, last>>
object == <<sequence, flags, hand, mappingMutex, rum, npc, hist>>
gvars  == <<queued, buffer, object, sent>>

GInit == Init /\ B!Init /\ sent = 0

\* a step of the object that does not touch the buffer
Apart(A) == A /\ UNCHANGED <<buffer, sent>>

\* a step inside put or get
Inside(A) == A /\ UNCHANGED <<object, sent>>

-----------------------------------------------------------------------------
Handler == Apart(HandlePacket \/ InitInput \/ ApplyInput \/ Destruct)
HandlerLocks == Apart(LockSettings \/ LockInput)
Outside == Apart(PacketReceived \/ Destroy)

(* processRumble.  get finds the flag raised or returns at once; what it   *)
(* returned is sent by performRumble.                                      *)
Empty == ~queued /\ Apart(RumbleGet)
Get == B!GetTest /\ RumbleGet /\ UNCHANGED sent
Getting == Inside(B!GetExchange \/ B!GetStore \/ B!BeginRead \/ B!EndRead)
Number == pget = "idle" /\ Apart(RumbleNumber)

Perform ==
    /\ PerformRumble
    /\ sent' = IF last.ver > sent THEN last.ver ELSE sent
    /\ UNCHANGED buffer

Waiting == Apart(RumbleCheck \/ RumbleWait \/ RumbleTimeout \/ RumbleDelay)
RumbleLocks == Apart(RumbleLock)
Refresh == Apart(RumbleRefresh)

Rumbling == Empty \/ Get \/ Getting \/ Number \/ Perform \/ Waiting \/ Refresh

(* inputFeedbackReceived.                                                  *)
Request == puts < MaxPuts /\ Apart(GameRumbles)
Put == npc = "put" /\ Inside((\E level \in Requested : B!BeginWrite(level))
                             \/ B!EndWrite \/ B!PutExchange \/ B!PutStore)
Queue == B!PutFlag /\ FeedbackPut /\ UNCHANGED sent
FeedbackLocks == Apart(FeedbackLock)
Notifying == Put \/ Queue \/ Apart(FeedbackLevel \/ FeedbackNotify)

GNext == Handler \/ HandlerLocks \/ Outside \/ Rumbling \/ RumbleLocks
         \/ Request \/ Notifying \/ FeedbackLocks

(* Controller's Fairness, for the steps that put and get consist of.       *)
GFairness ==
    /\ WF_gvars(Handler) /\ WF_gvars(Rumbling) /\ WF_gvars(Notifying)
    /\ SF_gvars(HandlerLocks) /\ SF_gvars(RumbleLocks) /\ SF_gvars(FeedbackLocks)

GSpec == GInit /\ [][GNext]_gvars /\ GFairness

-----------------------------------------------------------------------------
(* TripleBuffer's promises, kept among the threads that use it.            *)
\* put never writes the slot that get is copying from
NoRace == B!NoRace
\* once put and get have returned and nothing is queued, nothing is undelivered
NothingLost == B!NothingLost
\* the buffer behaves as a box whose value a get swaps with the one it had
Implements == B!Implements

(* controller.cpp:330-375: each request that a game makes, or a newer one, *)
(* is sent to the controller, however put and get overlap and whether the  *)
(* wake-up reaches the rumble thread or not, unless the object goes away.  *)
Delivered ==
    \A v \in 1..MaxPuts : puts >= v ~> (sent >= v \/ stopRumbleThread)

(* controller.h:32, "Passes rumble requests from games to the gamepad":    *)
(* what is sent is a request, not what a slot holds that nothing was ever  *)
(* written to.                                                             *)
OnlyRequests == rpc = "send" /\ pget = "idle" => last.ver \in 1..puts

(* The claim of controller.cpp:374, "A zero-power update from the game     *)
(* stops it": when the newest request is a zero-power one and nothing is   *)
(* left to deliver, the motors were not told to run after it.              *)
StopSticks == B!Quiet /\ puts > 0 /\ arg.level = "off" => last.level = "off"
=============================================================================
