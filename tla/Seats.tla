-------------------------------- MODULE Seats ---------------------------------
(***************************************************************************)
(* What a dongle promises about its WCIDs, each of which seats one         *)
(* controller: a controller joins a free seat, is seated or not, leaves    *)
(* it, and only then the seat is free again. One seat changes at a time.   *)
(* A seat whose controller could not be seated stays out of use.           *)
(* dongle/dongle.cpp (module Dongle) is shown to implement it.             *)
(***************************************************************************)
CONSTANTS
    Seat,             \* the WCIDs
    Guests,           \* addresses of controllers
    Nobody

VARIABLES
    state,            \* of each seat: free, joining, taken, leaving, unusable
    guest,            \* who it is for
    closing           \* the dongle is being destroyed

svars == <<state, guest, closing>>

SInit ==
    /\ state = [s \in Seat |-> "free"] /\ guest = [s \in Seat |-> Nobody]
    /\ closing = FALSE

Settled == \A s \in Seat : state[s] \notin {"joining", "leaving"}

Move(s, to, who) ==
    /\ state'[s] = to /\ guest'[s] = who
    /\ \A r \in Seat \ {s} : state'[r] = state[r] /\ guest'[r] = guest[r]
    /\ UNCHANGED closing

Join(s, g) == state[s] = "free" /\ ~closing /\ Settled /\ Move(s, "joining", g)
BeSeated(s) == state[s] = "joining" /\ Move(s, "taken", guest[s])

Fail(s) ==                       \* while joining, or as soon as a seat was found
    /\ state[s] = "joining" \/ (state[s] = "free" /\ ~closing /\ Settled)
    /\ Move(s, "unusable", Nobody)

Leave(s) == state[s] = "taken" /\ ~closing /\ Settled /\ Move(s, "leaving", Nobody)
Free(s) == state[s] = "leaving" /\ Move(s, "free", Nobody)

Close == ~closing /\ closing' = TRUE /\ Settled /\ UNCHANGED <<state, guest>>
Dismiss(s) == closing /\ state[s] = "taken" /\ Move(s, "unusable", Nobody)

SNext ==
    \/ \E s \in Seat : BeSeated(s) \/ Fail(s) \/ Leave(s) \/ Free(s) \/ Dismiss(s)
    \/ \E s \in Seat, g \in Guests : Join(s, g)
    \/ Close

SSafety == SInit /\ [][SNext]_svars
=============================================================================
