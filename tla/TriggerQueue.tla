--------------------------- MODULE TriggerQueue ---------------------------
(***************************************************************************)
(* What the durable queue of apps/api/src/lib/trigger-engine.ts promises   *)
(* its users, without leases, owners, clocks or workers: a job is enqueued *)
(* once per key, is worked on any number of times, and ends once - done,   *)
(* dead with its letter, or withdrawn.  ReleasePath implements this module.*)
(***************************************************************************)
CONSTANT Keys       \* (switch, deadline) pairs

VARIABLES rows,     \* state of every job there is
          letters   \* jobs that have a dead letter

Open == {"pending", "running"}

QueueInit == rows = <<>> /\ letters = {}

Become(picked, state) ==
  rows' = [k \in DOMAIN rows |-> IF k \in picked THEN state ELSE rows[k]]

In(state) == {k \in DOMAIN rows : rows[k] = state}

\* Nothing is ever enqueued over an existing row, whatever its state.
Enqueue(added) ==
  /\ added \subseteq Keys \ DOMAIN rows
  /\ rows' = [k \in DOMAIN rows \cup added |->
                IF k \in added THEN "pending" ELSE rows[k]]
  /\ UNCHANGED letters

Start(k) ==
  k \in In("pending") /\ Become({k}, "running") /\ UNCHANGED letters

\* A retry, or leases that ran out.
PutBack(picked) ==
  picked \subseteq In("running") /\ Become(picked, "pending") /\ UNCHANGED letters

Finish(k) ==
  k \in In("running") /\ Become({k}, "succeeded") /\ UNCHANGED letters

Bury(k) ==
  /\ k \in In("running")
  /\ Become({k}, "dead")
  /\ letters' = letters \cup {k}

\* Withdrawn by the owner, open or not yet started.
Withdraw(picked) ==
  /\ picked \subseteq In("pending") \cup In("running")
  /\ Become(picked, "cancelled")
  /\ UNCHANGED letters

\* Deleted with its switch; the letter stays.
Forget(picked) ==
  /\ rows' = [k \in DOMAIN rows \ picked |-> rows[k]]
  /\ UNCHANGED letters

QueueNext ==
  \/ Enqueue(DOMAIN rows' \ DOMAIN rows)
  \/ \E k \in DOMAIN rows : Start(k) \/ Finish(k) \/ Bury(k)
  \/ \E picked \in SUBSET DOMAIN rows :
       PutBack(picked) \/ Withdraw(picked) \/ Forget(picked)

Spec == QueueInit /\ [][QueueNext]_<<rows, letters>>
===========================================================================
