--------------------------- MODULE MCReleasePath ---------------------------
(***************************************************************************)
(* Small instances of ReleasePath for TLC.  One unit of the clock is 12 h: *)
(* an interval of 24 h (the shortest the API accepts) is 2, the ladder of  *)
(* half an interval plus 24 h is 3, the 48 h window is 4.                  *)
(***************************************************************************)
EXTENDS ReleasePath, TLC

Symmetry == Permutations(Workers) \cup Permutations(Slots) \cup Permutations(Recipients)
===========================================================================
