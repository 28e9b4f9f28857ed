--------------------------- MODULE MCSwitchSetup ---------------------------
(* SwitchSetup for model checking: ids that may be exchanged.              *)
EXTENDS SwitchSetup, TLC

Symmetry == Permutations(Slots) \cup Permutations(Switches) \cup Permutations(Recipients)
            \cup Permutations(Titles)
=============================================================================
