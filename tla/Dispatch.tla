----------------------------- MODULE Dispatch -----------------------------
(***************************************************************************)
(* apps/api/src/channels/dispatch.ts: deliverPendingDeliveries, which ends *)
(* every scheduler cycle.  A claimed row carries no lease.  The providers  *)
(* (email, webhook, telegram) are external: each send may be accepted, may *)
(* ask for a retry (or throw) or may be refused for good.                  *)
(***************************************************************************)
EXTENDS TriggerEngine

\* Fault: available_at is not looked at.
DueAtOnce(t) == {x \in DOMAIN deliveries : deliveries[x].state = "pending"}

\* Fault: rows another loop is sending are claimed as well.
DueOrRunning(t) ==
  {x \in DOMAIN deliveries : /\ deliveries[x].state \in OpenStates
                             /\ deliveries[x].availableAt <= t}

DueDeliveries(t) ==
  {x \in DOMAIN deliveries : /\ deliveries[x].state = "pending"
                             /\ deliveries[x].availableAt <= t}

\* ORDER BY available_at LIMIT DELIVERY_BATCH.
OldestOf(due) ==
  {picked \in SUBSET due :
     /\ Cardinality(picked) <= DeliveryBatch
     /\ picked # due => Cardinality(picked) = DeliveryBatch
     /\ \A x \in picked, y \in due \ picked :
          deliveries[x].availableAt <= deliveries[y].availableAt}

ClaimDeliveries(w) ==
  /\ pc[w] = "dispatch"
  /\ DueDeliveries(now[w]) # {}
  /\ \E picked \in OldestOf(DueDeliveries(now[w])) :
       /\ deliveries' = [x \in DOMAIN deliveries |->
            IF x \in picked
            THEN [deliveries[x] EXCEPT !.state = "running", !.attempts = @ + 1]
            ELSE deliveries[x]]
       /\ batch' = [batch EXCEPT ![w] = picked]
       /\ Goto(w, IF Cardinality(picked) < DeliveryBatch THEN "sendLast" ELSE "send")
  /\ UNCHANGED <<clock, switches, recipients, waits, jobs, deadLetters, lastTick,
                 now, affected, snapshot, claim, requests>>

NothingToDeliver(w) ==
  /\ \/ pc[w] = "dispatch" /\ DueDeliveries(now[w]) = {}
     \/ pc[w] = "sendLast" /\ batch[w] = {}
  /\ EndCycle(w)
  /\ UNCHANGED <<clock, tables, requests>>

NextBatch(w) ==
  /\ pc[w] = "send"
  /\ batch[w] = {}
  /\ Goto(w, "dispatch")
  /\ UNCHANGED <<clock, tables, now, affected, snapshot, claim, batch, requests>>

\* UPDATE delivery_jobs SET state WHERE id: no row, no effect.
Settled(x, state) ==
  [y \in DOMAIN deliveries |->
     IF y = x THEN [deliveries[y] EXCEPT !.state = state] ELSE deliveries[y]]

\* provider.send and the transaction that records its outcome.
SendDelivery(w) ==
  /\ pc[w] \in {"send", "sendLast"}
  /\ \E x \in batch[w] :
       /\ batch' = [batch EXCEPT ![w] = @ \ {x}]
       /\ \/ /\ deliveries' = Settled(x, "succeeded")
             /\ UNCHANGED deadLetters
          \/ /\ x \in DOMAIN deliveries
             /\ deliveries[x].attempts < MaxAttempts
             /\ \E delay \in Backoffs :
                  deliveries' = [deliveries EXCEPT ![x].state = "pending",
                                                   ![x].availableAt = clock + delay]
             /\ UNCHANGED deadLetters
          \/ /\ deliveries' = Settled(x, "dead")
             /\ deadLetters' = WithLetter(x)
  /\ UNCHANGED <<clock, switches, recipients, waits, jobs, lastTick,
                 pc, now, affected, snapshot, claim, requests>>
===========================================================================
