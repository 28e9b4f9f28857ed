--------------------------- MODULE TriggerEngine ---------------------------
(***************************************************************************)
(* apps/api/src/lib/trigger-engine.ts: the durable trigger queue.  Each    *)
(* action is one transaction (or autocommitted statement) of a scheduler   *)
(* loop w; the order of a loop's steps is runSchedulerCycle of main.ts.    *)
(* materializeDueTriggers and processJob each read the switch before the   *)
(* transaction that acts on what they read, so each is two steps.          *)
(***************************************************************************)
EXTENDS VaultStore

PendingJob(kind, runAt) ==
  [state |-> "pending", kind |-> kind, runAt |-> runAt, attempts |-> 0,
   owner |-> None, leaseExpires |-> None]

\* Fault: a misspelt state.
RequeuedUnknown(job) ==
  [job EXCEPT !.state = "queued", !.owner = None, !.leaseExpires = None]

\* Fault: owner_id is not cleared.
RequeuedOwned(job) ==
  [job EXCEPT !.state = "pending", !.leaseExpires = None]

\* Fault: the lease goes, the state stays.
RequeuedRunning(job) ==
  [job EXCEPT !.owner = None, !.leaseExpires = None]

\* The row after the lease is given up: state, owner_id and lease_expires.
Requeued(job) ==
  [job EXCEPT !.state = "pending", !.owner = None, !.leaseExpires = None]

\* Fault: WHERE id alone.
KnownJob(k, w) == k \in DOMAIN jobs

\* WHERE id AND owner_id AND state = 'running'.
OwnedBy(k, w) ==
  k \in DOMAIN jobs /\ jobs[k].owner = w /\ jobs[k].state = "running"

Goto(w, label) == pc' = [pc EXCEPT ![w] = label]

\* The end of the cycle: the locals of the loop go out of scope.
EndCycle(w) ==
  /\ Goto(w, "idle")
  /\ now' = [now EXCEPT ![w] = 0]
  /\ affected' = [affected EXCEPT ![w] = {}]
  /\ snapshot' = [snapshot EXCEPT ![w] = NoRows]
  /\ claim' = [claim EXCEPT ![w] = None]
  /\ batch' = [batch EXCEPT ![w] = {}]

---------------------------------------------------------------------------
(* materializeDueTriggers *)

\* The instant the switch's own trigger falls due; NULL if it never does.
DueAt(s) == IF switches[s].triggerType = "heartbeat"
            THEN switches[s].nextDeadline
            ELSE switches[s].fireAt

\* Fault: no NOT EXISTS (SELECT 1 FROM vault_waits ...).
DueDespiteWait(t) ==
  {s \in DOMAIN switches : switches[s].status = "active" /\ Reached(DueAt(s), t)}

DueSwitches(t) ==
  {s \in DOMAIN switches : /\ switches[s].status = "active"
                           /\ Reached(DueAt(s), t)
                           /\ waits[s] = None}

\* Fault: no escalation ladder.
TriggerRowAtOnce(k) == PendingJob("fire", k[2])

\* The row the INSERT writes for key k = <<switch, deadline_at>>.
TriggerRow(k) == IF switches[k[1]].triggerType = "heartbeat"
                 THEN PendingJob("fire", k[2] + FireLag)
                 ELSE PendingJob("variant", k[2])

\* The statement's snapshot: no lock is taken on the switches it reads.
MaterializeScan(w) ==
  /\ pc[w] = "scan"
  /\ snapshot' = [snapshot EXCEPT
       ![w] = [k \in {<<s, DueAt(s)>> : s \in DueSwitches(now[w])} |-> TriggerRow(k)]]
  /\ Goto(w, "insert")
  /\ UNCHANGED <<clock, tables, now, affected, claim, batch, requests>>

\* The rows become visible, unless a switch is gone: then the foreign key
\* fails the statement and with it the cycle.
MaterializeInsert(w) ==
  /\ pc[w] = "insert"
  /\ \A k \in DOMAIN snapshot[w] : k[1] \in DOMAIN switches
  /\ jobs' = InsertNew(jobs, snapshot[w])
  /\ snapshot' = [snapshot EXCEPT ![w] = NoRows]
  /\ Goto(w, "beat")
  /\ UNCHANGED <<clock, switches, recipients, waits, deliveries, deadLetters,
                 lastTick, now, affected, claim, batch, requests>>

InsertRejected(w) ==
  /\ pc[w] = "insert"
  /\ \E k \in DOMAIN snapshot[w] : k[1] \notin DOMAIN switches
  /\ EndCycle(w)
  /\ UNCHANGED <<clock, tables, requests>>

---------------------------------------------------------------------------
(* reapExpiredLeases and claimJob *)

\* Fault: the lease is not looked at.
AnyRunning(job, t) == job.state = "running"

LeaseOver(job, t) ==
  /\ job.state = "running"
  /\ job.leaseExpires # None
  /\ job.leaseExpires < t

ReapExpiredLeases(w) ==
  /\ pc[w] = "reap"
  /\ jobs' = [k \in DOMAIN jobs |->
       IF LeaseOver(jobs[k], now[w]) THEN Requeued(jobs[k]) ELSE jobs[k]]
  /\ Goto(w, "claim")
  /\ UNCHANGED <<clock, switches, recipients, waits, deliveries, deadLetters,
                 lastTick, now, affected, snapshot, claim, batch, requests>>

ClaimableJobs(t) ==
  {k \in DOMAIN jobs : /\ jobs[k].state = "pending"
                       /\ jobs[k].runAt <= t
                       /\ jobs[k].attempts < ClaimBound}

Claimed(job, w, until) ==
  [job EXCEPT !.state = "running", !.owner = w, !.leaseExpires = until,
              !.attempts = job.attempts + 1]

\* ORDER BY run_at LIMIT 1; the lease runs from the Date the cycle began with.
ClaimJob(w) ==
  /\ pc[w] = "claim"
  /\ \E k \in ClaimableJobs(now[w]) :
       /\ \A other \in ClaimableJobs(now[w]) : jobs[k].runAt <= jobs[other].runAt
       /\ jobs' = [jobs EXCEPT ![k] = Claimed(@, w, now[w] + Lease)]
       /\ claim' = [claim EXCEPT ![w] = [key |-> k, leaseExpires |-> now[w] + Lease]]
  /\ Goto(w, "read")
  /\ UNCHANGED <<clock, switches, recipients, waits, deliveries, deadLetters,
                 lastTick, now, affected, snapshot, batch, requests>>

ClaimNothing(w) ==
  /\ pc[w] = "claim"
  /\ ClaimableJobs(now[w]) = {}
  /\ Goto(w, "dispatch")
  /\ UNCHANGED <<clock, tables, now, affected, snapshot, claim, batch, requests>>

---------------------------------------------------------------------------
(* completeJob, processJob and failJob *)

\* completeJob: a job taken from the worker meanwhile is left as it is.
Completed(k, w) ==
  IF OwnedBy(k, w)
  THEN [jobs EXCEPT ![k].state = "succeeded", ![k].leaseExpires = None]
  ELSE jobs

JobDone(w) ==
  /\ Goto(w, "claim")
  /\ claim' = [claim EXCEPT ![w] = None]

\* processJob's first query, outside its transaction: dry_run is decided here.
ReadSwitch(w) ==
  /\ pc[w] = "read"
  /\ LET s == claim[w].key[1]
     IN  Goto(w, IF s \notin DOMAIN switches THEN "fail"
                 ELSE IF switches[s].dryRun THEN "dryrun" ELSE "release")
  /\ UNCHANGED <<clock, tables, now, affected, snapshot, claim, batch, requests>>

\* A rehearsal restarts the countdown and delivers nothing.
ProcessDryRun(w) ==
  /\ pc[w] = "dryrun"
  /\ LET s == claim[w].key[1]
     IN  switches' = IF s \in DOMAIN switches
                     THEN [switches EXCEPT ![s].nextDeadline = clock + Interval]
                     ELSE switches
  /\ jobs' = Completed(claim[w].key, w)
  /\ JobDone(w)
  /\ UNCHANGED <<clock, recipients, waits, deliveries, deadLetters, lastTick,
                 now, affected, snapshot, batch, requests>>

QueuedDelivery ==
  [state |-> "pending", availableAt |-> clock + CancelWindow,
   createdAt |-> clock, attempts |-> 0]

\* One delivery per accepted recipient; the switch is released whatever its
\* status has become, and whether or not the job is still the worker's.
ProcessRelease(w) ==
  /\ pc[w] = "release"
  /\ LET k == claim[w].key
         s == k[1]
     IN  /\ deliveries' = InsertNew(deliveries,
              [x \in {<<s, k[2], r>> : r \in Accepted(s)} |-> QueuedDelivery])
         /\ switches' = IF s \in DOMAIN switches
                        THEN [switches EXCEPT ![s].status = "released"]
                        ELSE switches
         /\ jobs' = Completed(k, w)
  /\ JobDone(w)
  /\ UNCHANGED <<clock, recipients, waits, deadLetters, lastTick,
                 now, affected, snapshot, batch, requests>>

\* A query of processJob throws: its transaction rolls back, failJob is next.
ProcessThrows(w) ==
  /\ "throw" \in Faults
  /\ pc[w] \in {"read", "dryrun", "release"}
  /\ Goto(w, "fail")
  /\ UNCHANGED <<clock, tables, now, affected, snapshot, claim, batch, requests>>

FailJob(w) ==
  /\ pc[w] = "fail"
  /\ LET k == claim[w].key
     IN  \/ /\ ~OwnedBy(k, w)
            /\ UNCHANGED <<jobs, deadLetters>>
         \/ /\ OwnedBy(k, w)
            /\ jobs[k].attempts >= MaxAttempts
            /\ jobs' = [jobs EXCEPT ![k].state = "dead", ![k].leaseExpires = None]
            /\ deadLetters' = WithLetter(k)
         \/ /\ OwnedBy(k, w)
            /\ jobs[k].attempts < MaxAttempts
            /\ \E delay \in Backoffs :
                 jobs' = [jobs EXCEPT ![k] = [Requeued(@) EXCEPT !.runAt = clock + delay]]
            /\ UNCHANGED deadLetters
  /\ JobDone(w)
  /\ UNCHANGED <<clock, switches, recipients, waits, deliveries, lastTick,
                 now, affected, snapshot, batch, requests>>
===========================================================================
