---------------------------- MODULE MCOnboarding ----------------------------
(* Onboarding for TLC: two spellings of one address, and another address.   *)
EXTENDS Onboarding, TLC

CONSTANTS ann, ANN, bob

Spellings == [e \in Emails |-> IF e = ANN THEN ann ELSE e]

\* Bound: exports read the log in one step and touch no other table: they are explored
\* on the logs of setup and settings.  Pages are explored at time 0 while at most one
\* account is being made; two at a time are explored without a reader.
Busy == {q \in Slots : requests[q] # None}
Exporting == drawn > 0 \/ \E x \in Exporters : exporters[x] # None
Apart ==
  /\ Exporting =>
       /\ Busy = {} /\ installer = "idle" /\ issued = 1 /\ clock = 0 /\ invites = <<>>
       /\ \A r \in Readers : readers[r] # None => readers[r].of = "ledger"
  /\ (\E r \in Readers : readers[r] # None) =>
       Cardinality(Busy) <= 1 /\ installer = "idle" /\ issued = 1 /\ clock = 0
KeptApart == Apart'

\* Addresses are compared by their Lower alone, which does not tell ann from ANN.
Symmetric == Permutations(Slots) \cup Permutations(Exporters) \cup Permutations({ann, ANN})
=============================================================================
