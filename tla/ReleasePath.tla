---------------------------- MODULE ReleasePath ----------------------------
(***************************************************************************)
(* The release path as one system: the scheduler loops of apps/api/src/    *)
(* main.ts, each running its cycle over and over, and the owners' requests *)
(* that interleave with them at every commit.                              *)
(***************************************************************************)
EXTENDS Downtime, Dispatch, SwitchRoutes

\* A switch as the arm handler leaves it at instant 0: at least one recipient
\* has accepted, others may still be invited.
ArmedSwitch(dryRun) ==
  [status |-> "active", triggerType |-> "heartbeat", dryRun |-> dryRun,
   nextDeadline |-> Interval, fireAt |-> None]

Init ==
  /\ clock = 0
  /\ switches \in [Switches -> {ArmedSwitch(dryRun) : dryRun \in BOOLEAN}]
  /\ recipients \in [Switches -> [Recipients -> {"invited", "accepted"}]]
  /\ \A s \in Switches : Accepted(s) # {}
  /\ waits = [s \in Switches |-> None]
  /\ jobs = NoRows /\ deliveries = NoRows /\ deadLetters = NoRows
  /\ lastTick = None
  /\ pc = [w \in Workers |-> "idle"]
  /\ now = [w \in Workers |-> 0]
  /\ affected = [w \in Workers |-> {}]
  /\ snapshot = [w \in Workers |-> NoRows]
  /\ claim = [w \in Workers |-> None]
  /\ batch = [w \in Workers |-> {}]
  /\ requests = [q \in Slots |-> None]

\* Time passes between any two commits.
Tick ==
  /\ clock < Horizon
  /\ clock' = clock + 1
  /\ UNCHANGED <<tables, loops, requests>>

\* runSchedulerCycle, commit by commit.
CycleStep(w) ==
  \/ BeginCycle(w)
  \/ RecoverScan(w) \/ RecoverWrite(w) \/ PromoteDueWaits(w)
  \/ MaterializeScan(w) \/ MaterializeInsert(w) \/ InsertRejected(w)
  \/ RecordTick(w)
  \/ ReapExpiredLeases(w)
  \/ ClaimJob(w) \/ ClaimNothing(w) \/ ReadSwitch(w)
  \/ ProcessDryRun(w) \/ ProcessRelease(w) \/ FailJob(w)
  \/ ClaimDeliveries(w) \/ SendDelivery(w) \/ NextBatch(w) \/ NothingToDeliver(w)

\* The process dies, or an error reaches the catch of startServer: the cycle
\* ends where it stands and a later one starts from the tables alone.
AbortCycle(w) ==
  /\ "crash" \in Faults
  /\ pc[w] # "idle"
  /\ EndCycle(w)
  /\ UNCHANGED <<clock, tables, requests>>

Next ==
  \/ Tick
  \/ \E w \in Workers : CycleStep(w) \/ ProcessThrows(w) \/ AbortCycle(w)
  \/ \E q \in Slots : Receive(q) \/ Commit(q)

Spec == Init /\ [][Next]_vars

---------------------------------------------------------------------------
(* Safety *)

\* A loop between claimJob and the end of processJob or failJob.
Working(w) == pc[w] \in {"read", "dryrun", "release", "fail"}

Leased(job) ==
  /\ job.state = "running" => job.owner \in Workers /\ job.leaseExpires \in Nat
  /\ job.state = "pending" => job.owner = None

\* The reaper only finds a running row by its lease, and a pending row must not
\* look owned: whatever the interleaving of claim, retry, reap and cancel, no
\* job is running without the lease that brings it back after a crash.
LeasesKept == \A k \in DOMAIN jobs : Leased(jobs[k])

\* claimJob and reapExpiredLeases: two loops work on the same job only once
\* the lease one of them took out has run out (by more than the skew budget
\* allows for): a live lease is never taken away.
LeaseProtects ==
  \A v, w \in Workers :
    /\ v # w /\ Working(v) /\ Working(w)
    /\ claim[v].key = claim[w].key
    => \/ claim[v].leaseExpires < clock + SkewBudget
       \/ claim[w].leaseExpires < clock + SkewBudget

\* The earliest instant a job of this kind for key k may be processed.
EarliestFire(k, kind) ==
  CASE kind = "fire"       -> k[2] + FireLag
    [] kind = "backfilled" -> k[2] + Grace
    [] kind = "variant"    -> k[2]

\* No job is worked on before its time: the full ladder after a missed
\* heartbeat, the full grace after an outage, the date of a variant trigger;
\* neither retries, reclaims nor a check-in racing recovery shorten it.
NeverEarly ==
  \A w \in Workers :
    Working(w) /\ claim[w].key \in DOMAIN jobs
      => EarliestFire(claim[w].key, jobs[claim[w].key].kind) <= clock + SkewBudget

\* Every delivery row stems from a job of a switch that still exists, and it
\* leaves the queue, for whatever reason, only after the cancellation window
\* it was created with (ADR-003), retries included.
WindowHonoured ==
  \A x \in DOMAIN deliveries :
    /\ JobOf(x) \in DOMAIN jobs
    /\ deliveries[x].state \in {"running", "succeeded", "dead"}
         => deliveries[x].createdAt + CancelWindow <= clock + SkewBudget

\* failJob and deliverPendingDeliveries: a row is dead exactly when it has its
\* dead letter, and it never gets a second one, however many loops gave up on it.
DeadLetterExact ==
  /\ \A k \in DOMAIN jobs : jobs[k].state = "dead" <=> k \in DOMAIN deadLetters
  /\ \A x \in DOMAIN deliveries :
       deliveries[x].state = "dead" <=> x \in DOMAIN deadLetters
  /\ \A y \in DOMAIN deadLetters : deadLetters[y] = 1

\* A row that reached a final state keeps it until its switch is deleted: a
\* late completeJob does not overwrite a cancellation, the materializer and
\* the recovery do not revive a deadline that was dealt with.
FinalStays ==
  [][/\ \A k \in DOMAIN jobs \cap DOMAIN jobs' :
          jobs[k].state \in FinalStates => jobs'[k].state = jobs[k].state
     /\ \A x \in DOMAIN deliveries \cap DOMAIN deliveries' :
          deliveries[x].state \in FinalStates => deliveries'[x].state = deliveries[x].state
    ]_vars

\* processJob and promoteDueWaits hold whatever was dropped from under them:
\* no step writes a row for a switch that was deleted while it was on its way.
NoOrphans ==
  /\ \A k \in DOMAIN jobs : k[1] \in DOMAIN switches
  /\ \A s \in Switches : s \notin DOMAIN switches => waits[s] = None

\* While a switch waits out its grace after an outage, no job is made for its
\* miss: materializeDueTriggers and recoverFromOutage leave it alone until the
\* wake-up time is reached (downtime.ts:5-8).
WaitHolds ==
  [][\A k \in DOMAIN jobs' \ DOMAIN jobs :
       waits[k[1]] # None => waits[k[1]] <= clock + SkewBudget]_vars

---------------------------------------------------------------------------
(* The trigger queue as its users see it *)

\* The statements on trigger_jobs, whatever their interleaving, keep the
\* promise of the queue: TriggerQueue holds of the states of its rows.
Queue == INSTANCE TriggerQueue WITH
  Keys <- JobKey,
  rows <- [k \in DOMAIN jobs |-> jobs[k].state],
  letters <- DOMAIN deadLetters \cap JobKey

\* Claims, completions, retries, reaped leases, cancellations and cascading
\* deletes, interleaved, are steps of the abstract queue of TriggerQueue.
QueueRefined == Queue!Spec

---------------------------------------------------------------------------
(* Liveness *)

\* The scheduler keeps running and requests complete; nobody has to make one,
\* and no fault has to happen.
FairSpec ==
  /\ Spec
  /\ WF_vars(Tick)
  /\ \A w \in Workers : WF_vars(CycleStep(w))
  /\ \A q \in Slots : WF_vars(Commit(q))

\* An armed live switch whose owner has let the whole ladder elapse.
Overdue(s) ==
  /\ s \in DOMAIN switches
  /\ switches[s].status = "active"
  /\ switches[s].triggerType = "heartbeat"
  /\ ~switches[s].dryRun
  /\ Reached(switches[s].nextDeadline, clock)
  /\ switches[s].nextDeadline + FireLag <= clock

DeadlineJob(s) == <<s, switches[s].nextDeadline>>

\* The miss is not lost: the operator has its dead letter.
Surfaced(s) ==
  Overdue(s) /\ DeadlineJob(s) \in DOMAIN deadLetters

\* A retry put off past the end of modelled time.
PutOff(s) ==
  Overdue(s) /\ DeadlineJob(s) \in DOMAIN jobs /\ jobs[DeadlineJob(s)].runAt > Horizon

\* A switch whose owner stays silent is released (or its job dead-lettered).
OverdueReleased ==
  \A s \in Switches : Overdue(s) ~> (~Overdue(s) \/ Surfaced(s) \/ PutOff(s))
===========================================================================
