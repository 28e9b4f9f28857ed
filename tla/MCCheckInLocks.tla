-------------------------- MODULE MCCheckInLocks --------------------------
(***************************************************************************)
(* A small instance of CheckInLocks for TLC.                               *)
(***************************************************************************)
EXTENDS CheckInLocks

Symmetry == Permutations(Clients) \cup Permutations(Switches)
===========================================================================
