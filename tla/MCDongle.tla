------------------------------ MODULE MCDongle -------------------------------
(* Two reader threads, two controllers and two WCIDs: the table can be full *)
(* (a controller that associates twice takes two).                         *)
EXTENDS Dongle, TLC

Symmetry == Permutations(Threads) \cup Permutations(Addrs)
=============================================================================
