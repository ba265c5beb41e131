------------------------------- MODULE Mailbox -------------------------------
(***************************************************************************)
(* What the rumble buffer promises its one producer and one consumer: a    *)
(* box and the consumer's hand, each with one value.  The producer         *)
(* replaces the value in the box by a newer one; a take swaps the box with *)
(* the hand, and what it returns is then in the hand.                      *)
(* utils/buffer.h (module TripleBuffer) is shown to implement it.          *)
(*                                                                         *)
(* A take hands over the newest value if it was not handed over before.    *)
(* Otherwise it swaps an older value back, or one that was never           *)
(* published: values do come back, but no more takes happen than values    *)
(* were published.                                                         *)
(***************************************************************************)
EXTENDS Naturals

CONSTANT Levels                  \* what a value can be

VARIABLES
    newest,           \* number of values published so far
    takes,            \* number of takes so far
    box, hand,        \* the values and their positions in that sequence
    given             \* the value that the last take returned

mvars == <<newest, takes, box, hand, given>>

Value(n, level) == [ver |-> n, level |-> level]

MInit ==
    /\ newest = 0 /\ takes = 0
    /\ box \in {Value(0, level) : level \in Levels}
    /\ hand \in {Value(0, level) : level \in Levels}
    /\ given \in {Value(0, level) : level \in Levels}

Publish ==
    /\ newest' = newest + 1
    /\ \E level \in Levels : box' = Value(newest + 1, level)
    /\ UNCHANGED <<takes, hand, given>>

Take ==
    /\ takes < newest
    /\ takes' = takes + 1
    /\ hand' = box /\ box' = hand
    /\ UNCHANGED <<newest, given>>

Return == given' = hand /\ UNCHANGED <<newest, takes, box, hand>>

MNext == Publish \/ Take \/ Return

MSpec == MInit /\ [][MNext]_mvars
=============================================================================
