------------------------- MODULE ReleasePathProofs -------------------------
(***************************************************************************)
(* Theorems about ReleasePath, for any number of switches, recipients,     *)
(* scheduler loops and requests and for any durations.                     *)
(*                                                                         *)
(* First the types.  TypeOK is not inductive by itself: processJob indexes *)
(* its queries with the job the loop claimed, so that the proof also needs *)
(* ClaimHeld.                                                              *)
(*                                                                         *)
(* Then the safety of the trigger queue under concurrent scheduler loops.  *)
(* RowLifecycle says what any step of the system may do to one row of      *)
(* trigger_jobs, ClaimLifecycle what it may do to the claim of one loop;   *)
(* the invariants follow from the two.                                     *)
(***************************************************************************)
EXTENDS ReleasePath, TLAPS

\* Between claimJob and the end of processJob a loop holds a job.
ClaimHeld == \A w \in Workers : Working(w) => claim[w] # None

TypeInv == TypeOK /\ ClaimHeld

---------------------------------------------------------------------------
(* Tables *)

\* INSERT ... ON CONFLICT DO NOTHING of well-typed rows keeps a table a table.
LEMMA InsertNewType ==
  ASSUME NEW Keys, NEW Row, NEW t, NEW u, IsTable(t, Keys, Row), IsTable(u, Keys, Row)
  PROVE  IsTable(InsertNew(t, u), Keys, Row)
BY DEF IsTable, InsertNew

\* A cascading delete keeps a table a table.
LEMMA WithoutSwitchType ==
  ASSUME NEW Keys, NEW Row, NEW t, NEW s, IsTable(t, Keys, Row)
  PROVE  IsTable(WithoutSwitch(t, s), Keys, Row)
BY DEF IsTable, WithoutSwitch

\* A requeued job is a pending job without an owner.
LEMMA RequeuedType ==
  ASSUME NEW job \in Job
  PROVE  /\ Requeued(job) \in Job
         /\ Requeued(job).state = "pending" /\ Requeued(job).owner = None
BY DEF Requeued, Job, OpenStates, FinalStates

\* A claimed job is a running job with an owner and a lease.
LEMMA ClaimedType ==
  ASSUME NEW job \in Job, NEW w \in Workers, NEW until \in Nat
  PROVE  /\ Claimed(job, w, until) \in Job
         /\ Claimed(job, w, until).state = "running"
         /\ Claimed(job, w, until).owner = w
         /\ Claimed(job, w, until).leaseExpires = until
<1>1. job.attempts + 1 \in Nat
  BY DEF Job
<1> QED
  BY <1>1 DEF Claimed, Job, OpenStates, FinalStates

\* What the scheduler inserts is a pending job without an owner.
LEMMA PendingJobType ==
  ASSUME NEW kind \in {"fire", "variant", "backfilled"}, NEW runAt \in Nat
  PROVE  /\ PendingJob(kind, runAt) \in Job
         /\ PendingJob(kind, runAt).state = "pending"
         /\ PendingJob(kind, runAt).owner = None
BY DEF PendingJob, Job, OpenStates, FinalStates

\* completeJob keeps trigger_jobs a table.
LEMMA CompletedType ==
  ASSUME NEW k, NEW w, IsTable(jobs, JobKey, Job)
  PROVE  IsTable(Completed(k, w), JobKey, Job)
<1>1. CASE ~OwnedBy(k, w)
  BY <1>1 DEF Completed
<1>2. CASE OwnedBy(k, w)
  <2> DEFINE row == [jobs[k] EXCEPT !.state = "succeeded", !.leaseExpires = None]
  <2>1. k \in DOMAIN jobs /\ jobs[k] \in Job
    BY <1>2 DEF OwnedBy, IsTable
  <2>2. row \in Job
    BY <2>1 DEF Job, OpenStates, FinalStates
  <2>3. Completed(k, w) = [jobs EXCEPT ![k] = row]
    BY <1>2, <2>1 DEF Completed, IsTable, Job
  <2> QED
    BY <2>1, <2>2, <2>3 DEF IsTable
<1> QED
  BY <1>1, <1>2

\* A dead letter is added to a well-typed dead_letter_jobs.
LEMMA WithLetterType ==
  ASSUME NEW x \in JobKey \cup DeliveryKey,
         IsTable(deadLetters, JobKey \cup DeliveryKey, Nat)
  PROVE  IsTable(WithLetter(x), JobKey \cup DeliveryKey, Nat)
BY DEF IsTable, WithLetter, LetterCount

\* An UPDATE of one switch with a well-typed row keeps switches a table.
LEMMA UpdateSwitchType ==
  ASSUME NEW s, NEW statuses, NEW row, IsTable(switches, Switches, Switch),
         s \in DOMAIN switches => row \in Switch,
         UpdateSwitch(s, statuses, row)
  PROVE  IsTable(switches', Switches, Switch)
BY DEF IsTable, UpdateSwitch

---------------------------------------------------------------------------
(* Loops *)

LoopsInv == LoopsTyped /\ ClaimHeld

\* The frame rules: what a step leaves alone keeps its type.
LEMMA TablesFrame == TablesTyped /\ UNCHANGED tables => TablesTyped'
BY DEF TablesTyped, tables, IsTable

LEMMA LoopsFrame == LoopsInv /\ UNCHANGED loops => LoopsInv'
BY DEF LoopsInv, LoopsTyped, ClaimHeld, Working, loops, IsTable

\* A loop that moves to a label outside processJob needs no claim.
LEMMA GotoType ==
  ASSUME LoopsInv, NEW w \in Workers, NEW label \in Pcs, Goto(w, label),
         claim' = claim,
         label \notin {"read", "dryrun", "release", "fail"} \/ claim[w] # None
  PROVE  pc' \in [Workers -> Pcs] /\ ClaimHeld'
BY DEF LoopsInv, LoopsTyped, ClaimHeld, Working, Goto

\* processJob lets go of its claim when it goes back for the next job.
LEMMA JobDoneType ==
  ASSUME LoopsInv, NEW w \in Workers, JobDone(w)
  PROVE  /\ pc' \in [Workers -> Pcs] /\ ClaimHeld'
         /\ claim' \in [Workers -> Claim \cup {None}]
<1>1. "claim" \in Pcs
  BY DEF Pcs
<1> QED
  BY <1>1 DEF LoopsInv, LoopsTyped, ClaimHeld, Working, JobDone, Goto

\* The end of a cycle clears every local.
LEMMA EndCycleType ==
  ASSUME LoopsInv, NEW w \in Workers, EndCycle(w)
  PROVE  LoopsInv'
<1>1. "idle" \in Pcs
  BY DEF Pcs
<1>2. IsTable(NoRows, JobKey, Job)
  BY DEF NoRows, IsTable
<1>3. pc' \in [Workers -> Pcs] /\ ClaimHeld' /\ claim' \in [Workers -> Claim \cup {None}]
  BY <1>1 DEF LoopsInv, LoopsTyped, ClaimHeld, Working, EndCycle, Goto
<1> QED
  BY <1>2, <1>3 DEF LoopsInv, LoopsTyped, EndCycle, IsTable

---------------------------------------------------------------------------
(* Type correctness *)

LEMMA TypeInit == Init => TypeInv
<1> SUFFICES ASSUME Init PROVE TypeInv
  OBVIOUS
<1>1. \A d \in BOOLEAN : ArmedSwitch(d) \in Switch
  BY DurationsAssumption DEF ArmedSwitch, Switch, Statuses, TriggerTypes
<1>2. IsTable(switches, Switches, Switch)
  BY <1>1 DEF Init, IsTable
<1>3. /\ IsTable(NoRows, JobKey, Job) /\ IsTable(NoRows, DeliveryKey, Delivery)
      /\ IsTable(NoRows, JobKey \cup DeliveryKey, Nat)
  BY DEF NoRows, IsTable
<1>4. TablesTyped
  BY <1>2, <1>3 DEF Init, TablesTyped
<1>5. LoopsTyped
  BY <1>3 DEF Init, LoopsTyped, Pcs
<1>6. ClaimHeld
  BY DEF Init, ClaimHeld, Working
<1> QED
  BY <1>4, <1>5, <1>6 DEF Init, TypeInv, TypeOK

\* One step of the proof per action of a scheduler cycle.
LEMMA CycleType ==
  ASSUME TypeInv, NEW w \in Workers, CycleStep(w) \/ ProcessThrows(w) \/ AbortCycle(w)
  PROVE  TypeInv'
<1> USE DEF TypeInv, TypeOK
<1>0. LoopsInv /\ TablesTyped /\ clock \in Nat
  BY DEF LoopsInv
<1>a. SUFFICES LoopsInv' /\ TablesTyped' /\ UNCHANGED <<clock, requests>>
  BY DEF LoopsInv
<1>b. UNCHANGED <<clock, requests>>
  BY DEF CycleStep, ProcessThrows, AbortCycle, BeginCycle, RecoverScan, RecoverWrite,
     PromoteDueWaits, MaterializeScan, MaterializeInsert, InsertRejected, RecordTick,
     ReapExpiredLeases, ClaimJob, ClaimNothing, ReadSwitch, ProcessDryRun, ProcessRelease,
     FailJob, ClaimDeliveries, SendDelivery, NextBatch, NothingToDeliver
<1>1. CASE BeginCycle(w)
  <2>1. PICK t \in HostTimes : now' = [now EXCEPT ![w] = t]
    BY <1>1 DEF BeginCycle
  <2>2. t \in Nat
    BY <1>0, DurationsAssumption DEF HostTimes
  <2>3. pc' \in [Workers -> Pcs] /\ ClaimHeld'
    BY <1>0, <1>1, GotoType DEF BeginCycle, Pcs
  <2>4. LoopsInv'
    BY <1>0, <1>1, <2>1, <2>2, <2>3 DEF BeginCycle, LoopsInv, LoopsTyped
  <2> QED
    BY <1>0, <1>1, <1>b, <2>4, TablesFrame DEF BeginCycle
<1>2. CASE RecoverScan(w)
  <2>1. AffectedSwitches(now[w]) \subseteq Switches
    BY <1>0 DEF AffectedSwitches, TablesTyped, IsTable
  <2>2. pc' \in [Workers -> Pcs] /\ ClaimHeld'
    BY <1>0, <1>2, GotoType DEF RecoverScan, Pcs
  <2>3. affected' \in [Workers -> SUBSET Switches]
    BY <1>0, <1>2, <2>1 DEF RecoverScan, LoopsInv, LoopsTyped
  <2>4. LoopsInv'
    BY <1>0, <1>2, <2>2, <2>3 DEF RecoverScan, LoopsInv, LoopsTyped
  <2> QED
    BY <1>0, <1>2, <1>b, <2>4, TablesFrame DEF RecoverScan
<1>3. CASE RecoverWrite(w)
  <2> DEFINE hit == {s \in affected[w] \cap DOMAIN switches : switches[s].nextDeadline # None}
             waiting == {s \in hit : GraceEnd(s) > now[w]}
             missed == {<<s, switches[s].nextDeadline>> : s \in hit \ waiting}
             added == [k \in missed |-> PendingJob("backfilled", now[w])]
  <2>1. \A s \in hit : s \in Switches /\ switches[s].nextDeadline \in Nat
    BY <1>0 DEF TablesTyped, IsTable, Switch
  <2>2. waits' \in [Switches -> Nat \cup {None}]
    <3>1. \A s \in waiting : GraceEnd(s) \in Nat
      BY <2>1, DurationsAssumption DEF GraceEnd
    <3>2. waits' = [s \in Switches |-> IF s \in waiting THEN GraceEnd(s) ELSE waits[s]]
      BY <1>3 DEF RecoverWrite
    <3> HIDE DEF waiting
    <3> QED
      BY <1>0, <3>1, <3>2 DEF TablesTyped
  <2>3. now[w] \in Nat
    BY <1>0 DEF LoopsInv, LoopsTyped
  <2>4. IsTable(added, JobKey, Job)
    <3>1. missed \subseteq JobKey
      BY <2>1 DEF JobKey
    <3>2. PendingJob("backfilled", now[w]) \in Job
      BY <2>3, PendingJobType
    <3> HIDE DEF missed
    <3> QED
      BY <3>1, <3>2 DEF IsTable
  <2>5. jobs' = InsertNew(jobs, added)
    BY <1>3 DEF RecoverWrite
  <2> HIDE DEF hit, waiting, missed, added
  <2>6. IsTable(jobs', JobKey, Job)
    BY <1>0, <2>4, <2>5, InsertNewType DEF TablesTyped
  <2>7. TablesTyped'
    BY <1>0, <1>3, <2>2, <2>6 DEF RecoverWrite, TablesTyped, IsTable
  <2>8. pc' \in [Workers -> Pcs] /\ ClaimHeld'
    BY <1>0, <1>3, GotoType DEF RecoverWrite, Pcs
  <2>9. LoopsInv'
    BY <1>0, <1>3, <2>8 DEF RecoverWrite, LoopsInv, LoopsTyped
  <2> QED
    BY <1>b, <2>7, <2>9
<1>4. CASE PromoteDueWaits(w)
  <2>1. waits' \in [Switches -> Nat \cup {None}]
    BY <1>0, <1>4 DEF PromoteDueWaits, TablesTyped
  <2>2. TablesTyped'
    BY <1>0, <1>4, <2>1 DEF PromoteDueWaits, TablesTyped, IsTable
  <2>3. pc' \in [Workers -> Pcs] /\ ClaimHeld'
    BY <1>0, <1>4, GotoType DEF PromoteDueWaits, Pcs
  <2>4. LoopsInv'
    BY <1>0, <1>4, <2>3 DEF PromoteDueWaits, LoopsInv, LoopsTyped
  <2> QED
    BY <1>b, <2>2, <2>4
<1>5. CASE MaterializeScan(w)
  <2> DEFINE keys == {<<s, DueAt(s)>> : s \in DueSwitches(now[w])}
             rows == [k \in keys |-> TriggerRow(k)]
  <2>1. \A s \in DueSwitches(now[w]) : s \in Switches /\ DueAt(s) \in Nat
    BY <1>0 DEF DueSwitches, Reached, DueAt, TablesTyped, IsTable, Switch
  <2>2. keys \subseteq JobKey
    BY <2>1 DEF JobKey
  <2>3. \A k \in JobKey : TriggerRow(k) \in Job
    <3> TAKE k \in JobKey
    <3>1. k[2] \in Nat /\ k[2] + FireLag \in Nat
      BY DurationsAssumption DEF JobKey
    <3> QED
      BY <3>1, PendingJobType DEF TriggerRow
  <2> HIDE DEF keys
  <2>4. IsTable(rows, JobKey, Job)
    BY <2>2, <2>3 DEF IsTable
  <2>5. snapshot' = [snapshot EXCEPT ![w] = rows]
    BY <1>5 DEF MaterializeScan, keys
  <2> HIDE DEF rows
  <2>6. pc' \in [Workers -> Pcs] /\ ClaimHeld'
    BY <1>0, <1>5, GotoType DEF MaterializeScan, Pcs
  <2>7. LoopsInv'
    BY <1>0, <1>5, <2>4, <2>5, <2>6 DEF MaterializeScan, LoopsInv, LoopsTyped
  <2> QED
    BY <1>0, <1>5, <1>b, <2>7, TablesFrame DEF MaterializeScan
<1>6. CASE MaterializeInsert(w)
  <2>1. IsTable(snapshot[w], JobKey, Job) /\ IsTable(NoRows, JobKey, Job)
    BY <1>0 DEF LoopsInv, LoopsTyped, NoRows, IsTable
  <2>2. IsTable(jobs', JobKey, Job)
    BY <1>0, <1>6, <2>1, InsertNewType DEF MaterializeInsert, TablesTyped
  <2>3. TablesTyped'
    BY <1>0, <1>6, <2>2 DEF MaterializeInsert, TablesTyped, IsTable
  <2>4. pc' \in [Workers -> Pcs] /\ ClaimHeld'
    BY <1>0, <1>6, GotoType DEF MaterializeInsert, Pcs
  <2>5. LoopsInv'
    BY <1>0, <1>6, <2>1, <2>4 DEF MaterializeInsert, LoopsInv, LoopsTyped
  <2> QED
    BY <1>b, <2>3, <2>5
<1>7. CASE InsertRejected(w)
  BY <1>0, <1>7, <1>b, EndCycleType, TablesFrame DEF InsertRejected
<1>8. CASE RecordTick(w)
  <2>1. TablesTyped'
    BY <1>0, <1>8 DEF RecordTick, TablesTyped, IsTable, LoopsInv, LoopsTyped
  <2>2. pc' \in [Workers -> Pcs] /\ ClaimHeld'
    BY <1>0, <1>8, GotoType DEF RecordTick, Pcs
  <2>3. LoopsInv'
    BY <1>0, <1>8, <2>2 DEF RecordTick, LoopsInv, LoopsTyped
  <2> QED
    BY <1>b, <2>1, <2>3
<1>9. CASE ReapExpiredLeases(w)
  <2>1. IsTable(jobs', JobKey, Job)
    BY <1>0, <1>9, RequeuedType DEF ReapExpiredLeases, TablesTyped, IsTable
  <2>2. TablesTyped'
    BY <1>0, <1>9, <2>1 DEF ReapExpiredLeases, TablesTyped, IsTable
  <2>3. pc' \in [Workers -> Pcs] /\ ClaimHeld'
    BY <1>0, <1>9, GotoType DEF ReapExpiredLeases, Pcs
  <2>4. LoopsInv'
    BY <1>0, <1>9, <2>3 DEF ReapExpiredLeases, LoopsInv, LoopsTyped
  <2> QED
    BY <1>b, <2>2, <2>4
<1>10. CASE ClaimJob(w)
  <2>1. PICK k \in ClaimableJobs(now[w]) :
          /\ jobs' = [jobs EXCEPT ![k] = Claimed(@, w, now[w] + Lease)]
          /\ claim' = [claim EXCEPT ![w] = [key |-> k, leaseExpires |-> now[w] + Lease]]
    BY <1>10 DEF ClaimJob
  <2>2. k \in DOMAIN jobs /\ k \in JobKey /\ jobs[k] \in Job
    BY <1>0 DEF ClaimableJobs, TablesTyped, IsTable
  <2>3. now[w] + Lease \in Nat
    BY <1>0, DurationsAssumption DEF LoopsInv, LoopsTyped
  <2>4. Claimed(jobs[k], w, now[w] + Lease) \in Job
    BY <2>2, <2>3, ClaimedType
  <2>6. IsTable(jobs', JobKey, Job)
    BY <1>0, <2>1, <2>2, <2>4 DEF TablesTyped, IsTable
  <2>7. TablesTyped'
    BY <1>0, <1>10, <2>6 DEF ClaimJob, TablesTyped, IsTable
  <2>8. [key |-> k, leaseExpires |-> now[w] + Lease] \in Claim
    BY <2>2, <2>3 DEF Claim
  <2>9. claim' \in [Workers -> Claim \cup {None}] /\ claim'[w] # None
    <3>1. None \notin Claim
      BY NoneAssumption DEF Claim
    <3>2. claim'[w] = [key |-> k, leaseExpires |-> now[w] + Lease]
      BY <1>0, <2>1 DEF LoopsInv, LoopsTyped
    <3>3. claim' \in [Workers -> Claim \cup {None}]
      BY <1>0, <2>1, <2>8 DEF LoopsInv, LoopsTyped
    <3> QED
      BY <2>8, <3>1, <3>2, <3>3
  <2>10. pc' \in [Workers -> Pcs] /\ ClaimHeld'
    BY <1>0, <1>10, <2>1, <2>9 DEF ClaimJob, Goto, Pcs, LoopsInv, LoopsTyped, ClaimHeld, Working
  <2>11. LoopsInv'
    BY <1>0, <1>10, <2>9, <2>10 DEF ClaimJob, LoopsInv, LoopsTyped
  <2> QED
    BY <1>b, <2>7, <2>11
<1>11. CASE ClaimNothing(w)
  <2>1. pc' \in [Workers -> Pcs] /\ ClaimHeld'
    BY <1>0, <1>11, GotoType DEF ClaimNothing, Pcs
  <2>2. LoopsInv'
    BY <1>0, <1>11, <2>1 DEF ClaimNothing, LoopsInv, LoopsTyped
  <2> QED
    BY <1>0, <1>11, <1>b, <2>2, TablesFrame DEF ClaimNothing
<1>12. CASE ReadSwitch(w) \/ ProcessThrows(w)
  <2>1. claim[w] # None
    BY <1>0, <1>12 DEF ReadSwitch, ProcessThrows, LoopsInv, ClaimHeld, Working
  <2>2. PICK label \in {"fail", "dryrun", "release"} : Goto(w, label)
    BY <1>12 DEF ReadSwitch, ProcessThrows
  <2>3. label \in Pcs
    BY DEF Pcs
  <2>4. pc' \in [Workers -> Pcs] /\ ClaimHeld'
    BY <1>0, <1>12, <2>1, <2>2, <2>3, GotoType DEF ReadSwitch, ProcessThrows
  <2>5. LoopsInv'
    BY <1>0, <1>12, <2>4 DEF ReadSwitch, ProcessThrows, LoopsInv, LoopsTyped
  <2> QED
    BY <1>0, <1>12, <1>b, <2>5, TablesFrame DEF ReadSwitch, ProcessThrows
<1>13. CASE ProcessDryRun(w)
  <2>1. IsTable(jobs', JobKey, Job)
    BY <1>0, <1>13, CompletedType DEF ProcessDryRun, TablesTyped
  <2>2. IsTable(switches', Switches, Switch)
    <3> DEFINE s == claim[w].key[1]
               row == [switches[s] EXCEPT !.nextDeadline = clock + Interval]
    <3>1. CASE s \notin DOMAIN switches
      BY <1>0, <1>13, <3>1 DEF ProcessDryRun, TablesTyped
    <3>2. CASE s \in DOMAIN switches
      <4>1. switches[s] \in Switch
        BY <1>0, <3>2 DEF TablesTyped, IsTable
      <4>2. row \in Switch
        BY <1>0, <4>1, DurationsAssumption DEF Switch
      <4>3. switches' = [switches EXCEPT ![s] = row]
        BY <1>0, <1>13, <3>2, <4>1 DEF ProcessDryRun, TablesTyped, IsTable, Switch
      <4> QED
        BY <1>0, <3>2, <4>2, <4>3 DEF TablesTyped, IsTable
    <3> QED
      BY <3>1, <3>2
  <2>3. TablesTyped'
    BY <1>0, <1>13, <2>1, <2>2 DEF ProcessDryRun, TablesTyped, IsTable
  <2>4. LoopsInv'
    BY <1>0, <1>13, JobDoneType DEF ProcessDryRun, LoopsInv, LoopsTyped
  <2> QED
    BY <1>b, <2>3, <2>4
<1>14. CASE ProcessRelease(w)
  <2> DEFINE k == claim[w].key
             s == k[1]
             keys == {<<s, k[2], r>> : r \in Accepted(s)}
             added == [x \in keys |-> QueuedDelivery]
  <2>1. k \in JobKey
    BY <1>0, <1>14 DEF ProcessRelease, LoopsInv, LoopsTyped, ClaimHeld, Working, Claim
  <2>2. keys \subseteq DeliveryKey
    BY <2>1 DEF Accepted, JobKey, DeliveryKey
  <2>3. QueuedDelivery \in Delivery
    BY <1>0, DurationsAssumption DEF QueuedDelivery, Delivery, OpenStates
  <2> HIDE DEF keys
  <2>4. IsTable(added, DeliveryKey, Delivery)
    BY <2>2, <2>3 DEF IsTable
  <2>5. deliveries' = InsertNew(deliveries, added)
    BY <1>14 DEF ProcessRelease, keys
  <2> HIDE DEF added
  <2>6. IsTable(deliveries', DeliveryKey, Delivery)
    BY <1>0, <2>4, <2>5, InsertNewType DEF TablesTyped
  <2>7. IsTable(jobs', JobKey, Job)
    BY <1>0, <1>14, CompletedType DEF ProcessRelease, TablesTyped
  <2>8. IsTable(switches', Switches, Switch)
    <3> DEFINE row == [switches[s] EXCEPT !.status = "released"]
    <3>1. CASE s \notin DOMAIN switches
      BY <1>0, <1>14, <3>1 DEF ProcessRelease, TablesTyped
    <3>2. CASE s \in DOMAIN switches
      <4>1. switches[s] \in Switch
        BY <1>0, <3>2 DEF TablesTyped, IsTable
      <4>2. row \in Switch
        BY <4>1 DEF Switch, Statuses
      <4>3. switches' = [switches EXCEPT ![s] = row]
        BY <1>0, <1>14, <3>2, <4>1 DEF ProcessRelease, TablesTyped, IsTable, Switch
      <4> QED
        BY <1>0, <3>2, <4>2, <4>3 DEF TablesTyped, IsTable
    <3> QED
      BY <3>1, <3>2
  <2>9. TablesTyped'
    BY <1>0, <1>14, <2>6, <2>7, <2>8 DEF ProcessRelease, TablesTyped, IsTable
  <2>10. LoopsInv'
    BY <1>0, <1>14, JobDoneType DEF ProcessRelease, LoopsInv, LoopsTyped
  <2> QED
    BY <1>b, <2>9, <2>10
<1>15. CASE FailJob(w)
  <2> DEFINE k == claim[w].key
  <2>1. IsTable(jobs', JobKey, Job)
    <3>1. CASE jobs' = jobs
      BY <1>0, <3>1 DEF TablesTyped
    <3>2. ASSUME OwnedBy(k, w),
                 jobs' = [jobs EXCEPT ![k].state = "dead", ![k].leaseExpires = None]
          PROVE  IsTable(jobs', JobKey, Job)
      <4> DEFINE row == [jobs[k] EXCEPT !.state = "dead", !.leaseExpires = None]
      <4>1. k \in DOMAIN jobs /\ jobs[k] \in Job
        BY <1>0, <3>2 DEF OwnedBy, TablesTyped, IsTable
      <4>2. row \in Job
        BY <4>1 DEF Job, FinalStates
      <4>3. jobs' = [jobs EXCEPT ![k] = row]
        BY <1>0, <3>2, <4>1 DEF TablesTyped, IsTable, Job
      <4> QED
        BY <1>0, <4>1, <4>2, <4>3 DEF TablesTyped, IsTable
    <3>3. ASSUME NEW delay \in Backoffs, OwnedBy(k, w),
                 jobs' = [jobs EXCEPT ![k] = [Requeued(@) EXCEPT !.runAt = clock + delay]]
          PROVE  IsTable(jobs', JobKey, Job)
      <4>1. k \in DOMAIN jobs /\ jobs[k] \in Job
        BY <1>0, <3>3 DEF OwnedBy, TablesTyped, IsTable
      <4>2. clock + delay \in Nat
        BY <1>0, DurationsAssumption
      <4>3. Requeued(jobs[k]) \in Job
        BY <4>1, RequeuedType
      <4>4. [Requeued(jobs[k]) EXCEPT !.runAt = clock + delay] \in Job
        BY <4>2, <4>3 DEF Job
      <4> QED
        BY <1>0, <3>3, <4>1, <4>4 DEF TablesTyped, IsTable
    <3> QED
      BY <1>15, <3>1, <3>2, <3>3 DEF FailJob
  <2>2. IsTable(deadLetters', JobKey \cup DeliveryKey, Nat)
    <3>1. CASE deadLetters' = deadLetters
      BY <1>0, <3>1 DEF TablesTyped
    <3>2. CASE OwnedBy(k, w) /\ deadLetters' = WithLetter(k)
      BY <1>0, <3>2, WithLetterType DEF OwnedBy, TablesTyped, IsTable
    <3> QED
      BY <1>15, <3>1, <3>2 DEF FailJob
  <2>3. TablesTyped'
    BY <1>0, <1>15, <2>1, <2>2 DEF FailJob, TablesTyped, IsTable
  <2>4. LoopsInv'
    BY <1>0, <1>15, JobDoneType DEF FailJob, LoopsInv, LoopsTyped
  <2> QED
    BY <1>b, <2>3, <2>4
<1>16. CASE ClaimDeliveries(w)
  <2>1. PICK picked \in OldestOf(DueDeliveries(now[w])) :
          /\ deliveries' = [x \in DOMAIN deliveries |->
               IF x \in picked
               THEN [deliveries[x] EXCEPT !.state = "running", !.attempts = @ + 1]
               ELSE deliveries[x]]
          /\ batch' = [batch EXCEPT ![w] = picked]
          /\ Goto(w, IF Cardinality(picked) < DeliveryBatch THEN "sendLast" ELSE "send")
    BY <1>16 DEF ClaimDeliveries
  <2>2. picked \subseteq DeliveryKey
    BY <1>0 DEF OldestOf, DueDeliveries, TablesTyped, IsTable
  <2>3. IsTable(deliveries', DeliveryKey, Delivery)
    <3>1. \A row \in Delivery :
            [row EXCEPT !.state = "running", !.attempts = @ + 1] \in Delivery
      <4> TAKE row \in Delivery
      <4>1. row.attempts + 1 \in Nat
        BY DEF Delivery
      <4> QED
        BY <4>1 DEF Delivery, OpenStates, FinalStates
    <3> QED
      BY <1>0, <2>1, <3>1 DEF TablesTyped, IsTable
  <2>4. TablesTyped'
    BY <1>0, <1>16, <2>3 DEF ClaimDeliveries, TablesTyped, IsTable
  <2>5. PICK label \in {"send", "sendLast"} : Goto(w, label)
    BY <2>1
  <2>6. pc' \in [Workers -> Pcs] /\ ClaimHeld'
    BY <1>0, <1>16, <2>5, GotoType DEF ClaimDeliveries, Pcs
  <2>7. LoopsInv'
    BY <1>0, <1>16, <2>1, <2>2, <2>6 DEF ClaimDeliveries, LoopsInv, LoopsTyped
  <2> QED
    BY <1>b, <2>4, <2>7
<1>17. CASE SendDelivery(w)
  <2>1. PICK x \in batch[w] :
          /\ batch' = [batch EXCEPT ![w] = @ \ {x}]
          /\ \/ deliveries' = Settled(x, "succeeded") /\ UNCHANGED deadLetters
             \/ /\ x \in DOMAIN deliveries
                /\ \E delay \in Backoffs :
                     deliveries' = [deliveries EXCEPT ![x].state = "pending",
                                                      ![x].availableAt = clock + delay]
                /\ UNCHANGED deadLetters
             \/ deliveries' = Settled(x, "dead") /\ deadLetters' = WithLetter(x)
    BY <1>17 DEF SendDelivery
  <2>2. x \in DeliveryKey
    BY <1>0 DEF LoopsInv, LoopsTyped
  <2>3. IsTable(deliveries', DeliveryKey, Delivery)
    <3>1. ASSUME NEW state \in FinalStates
          PROVE  IsTable(Settled(x, state), DeliveryKey, Delivery)
      BY <1>0 DEF Settled, TablesTyped, IsTable, Delivery
    <3>2. "succeeded" \in FinalStates /\ "dead" \in FinalStates
      BY DEF FinalStates
    <3>3. ASSUME x \in DOMAIN deliveries, NEW delay \in Backoffs,
                 deliveries' = [deliveries EXCEPT ![x].state = "pending",
                                                  ![x].availableAt = clock + delay]
          PROVE  IsTable(deliveries', DeliveryKey, Delivery)
      <4> DEFINE row == [deliveries[x] EXCEPT !.state = "pending",
                                              !.availableAt = clock + delay]
      <4>1. deliveries[x] \in Delivery /\ clock + delay \in Nat
        BY <1>0, <3>3, DurationsAssumption DEF TablesTyped, IsTable
      <4>2. row \in Delivery
        BY <4>1 DEF Delivery, OpenStates
      <4>3. deliveries' = [deliveries EXCEPT ![x] = row]
        BY <1>0, <3>3, <4>1 DEF TablesTyped, IsTable, Delivery
      <4> QED
        BY <1>0, <3>3, <4>2, <4>3 DEF TablesTyped, IsTable
    <3> QED
      BY <2>1, <3>1, <3>2, <3>3
  <2>4. IsTable(deadLetters', JobKey \cup DeliveryKey, Nat)
    BY <1>0, <2>1, <2>2, WithLetterType DEF TablesTyped, IsTable
  <2>5. TablesTyped'
    BY <1>0, <1>17, <2>3, <2>4 DEF SendDelivery, TablesTyped, IsTable
  <2>6. LoopsInv'
    BY <1>0, <1>17, <2>1 DEF SendDelivery, LoopsInv, LoopsTyped, ClaimHeld, Working
  <2> QED
    BY <1>b, <2>5, <2>6
<1>18. CASE NextBatch(w)
  <2>1. pc' \in [Workers -> Pcs] /\ ClaimHeld'
    BY <1>0, <1>18, GotoType DEF NextBatch, Pcs
  <2>2. LoopsInv'
    BY <1>0, <1>18, <2>1 DEF NextBatch, LoopsInv, LoopsTyped
  <2> QED
    BY <1>0, <1>18, <1>b, <2>2, TablesFrame DEF NextBatch
<1>19. CASE NothingToDeliver(w) \/ AbortCycle(w)
  BY <1>0, <1>19, <1>b, EndCycleType, TablesFrame DEF NothingToDeliver, AbortCycle
<1> QED
  BY <1>1, <1>2, <1>3, <1>4, <1>5, <1>6, <1>7, <1>8, <1>9, <1>10, <1>11, <1>12, <1>13,
     <1>14, <1>15, <1>16, <1>17, <1>18, <1>19 DEF CycleStep

\* One step of the proof per handler.
LEMMA CommitType ==
  ASSUME TypeInv, NEW q \in Slots, Commit(q)
  PROVE  TypeInv'
<1> DEFINE s == requests[q].switch
<1>0. /\ TablesTyped /\ LoopsInv /\ clock \in Nat
      /\ requests \in [Slots -> Request \cup {None}]
  BY DEF TypeInv, TypeOK, LoopsInv
<1>1. UNCHANGED <<clock, loops>> /\ requests' \in [Slots -> Request \cup {None}]
  BY <1>0 DEF Commit, CheckIn, Cancel, SetFixedDate, SetPanic, Arm, Disarm, PatchDryRun,
     DeleteSwitch, AcceptRecipient, RemoveRecipient, Reply
<1> SUFFICES TablesTyped'
  BY <1>0, <1>1, LoopsFrame DEF TypeInv, TypeOK, LoopsInv
<1>2. ASSUME s \in DOMAIN switches PROVE switches[s] \in Switch
  BY <1>0, <1>2 DEF TablesTyped, IsTable
<1>3. \A n \in Nat : n + Interval \in Nat
  BY DurationsAssumption
\* The handlers that write nothing but one row of switches.
<1>4. ASSUME NEW statuses, NEW row, s \in DOMAIN switches => row \in Switch,
             UpdateSwitch(s, statuses, row)
      PROVE  IsTable(switches', Switches, Switch)
  BY <1>0, <1>4, UpdateSwitchType DEF TablesTyped
<1>5. ASSUME UNCHANGED <<recipients, waits, jobs, deliveries, deadLetters, lastTick>>,
             IsTable(switches', Switches, Switch)
      PROVE  TablesTyped'
  BY <1>0, <1>5 DEF TablesTyped, IsTable
<1>6. CASE CheckIn(q)
  <2>1. CASE UNCHANGED <<switches, waits>>
    BY <1>0, <1>6, <2>1 DEF CheckIn, TablesTyped, IsTable
  <2>2. CASE /\ s \in DOMAIN switches
             /\ UpdateSwitch(s, {"active"},
                  [switches[s] EXCEPT !.nextDeadline = clock + Interval])
             /\ waits' = [waits EXCEPT ![s] = None]
    <3>1. [switches[s] EXCEPT !.nextDeadline = clock + Interval] \in Switch
      BY <1>0, <1>2, <1>3, <2>2 DEF Switch
    <3>2. IsTable(switches', Switches, Switch)
      BY <1>4, <2>2, <3>1
    <3> QED
      BY <1>0, <1>6, <2>2, <3>2 DEF CheckIn, TablesTyped, IsTable
  <2> QED
    BY <1>6, <2>1, <2>2 DEF CheckIn
<1>7. CASE Cancel(q)
  <2>1. CASE UNCHANGED <<switches, jobs, deliveries>>
    BY <1>0, <1>7, <2>1 DEF Cancel, TablesTyped, IsTable
  <2>2. CASE /\ s \in DOMAIN switches
             /\ UpdateSwitch(s, {"active"},
                  [switches[s] EXCEPT !.status = "paused",
                                      !.nextDeadline = None, !.fireAt = None])
             /\ jobs' = WithoutOpenJobs(s)
             /\ deliveries' = WithoutQueuedDeliveries(s)
    <3>1. [switches[s] EXCEPT !.status = "paused", !.nextDeadline = None,
                              !.fireAt = None] \in Switch
      BY <1>2, <2>2 DEF Switch, Statuses
    <3>2. IsTable(switches', Switches, Switch)
      BY <1>4, <2>2, <3>1
    <3>3. IsTable(jobs', JobKey, Job)
      <4>1. \A job \in Job : [job EXCEPT !.state = "cancelled"] \in Job
        BY DEF Job, FinalStates
      <4> QED
        BY <1>0, <2>2, <4>1 DEF WithoutOpenJobs, TablesTyped, IsTable
    <3>4. IsTable(deliveries', DeliveryKey, Delivery)
      BY <1>0, <2>2, SMTT(30)
      DEF WithoutQueuedDeliveries, TablesTyped, IsTable, Delivery, FinalStates
    <3> QED
      BY <1>0, <1>7, <3>2, <3>3, <3>4 DEF Cancel, TablesTyped, IsTable
  <2> QED
    BY <1>7, <2>1, <2>2 DEF Cancel
<1>8. CASE SetFixedDate(q)
  <2>1. PICK date \in (clock + 1)..(clock + Interval) :
          UpdateSwitch(s, Statuses,
            [switches[s] EXCEPT !.triggerType = "fixed_date", !.fireAt = date])
    BY <1>8 DEF SetFixedDate
  <2>2. date \in Nat
    BY <1>0, DurationsAssumption
  <2>3. s \in DOMAIN switches =>
          [switches[s] EXCEPT !.triggerType = "fixed_date", !.fireAt = date] \in Switch
    BY <1>2, <2>2 DEF Switch, TriggerTypes
  <2> QED
    BY <1>4, <1>5, <1>8, <2>1, <2>3 DEF SetFixedDate
<1>9. CASE SetPanic(q)
  <2>1. s \in DOMAIN switches =>
          [switches[s] EXCEPT !.triggerType = "panic", !.fireAt = clock] \in Switch
    BY <1>0, <1>2 DEF Switch, TriggerTypes
  <2> QED
    BY <1>4, <1>5, <1>9, <2>1 DEF SetPanic
<1>10. CASE Arm(q)
  <2>1. s \in DOMAIN switches =>
          [switches[s] EXCEPT !.status = "active", !.nextDeadline = clock + Interval] \in Switch
    BY <1>0, <1>2, <1>3 DEF Switch, Statuses
  <2>2. IsTable(switches', Switches, Switch)
    <3>1. CASE UNCHANGED switches
      BY <1>0, <3>1 DEF TablesTyped, IsTable
    <3> QED
      BY <1>4, <1>10, <2>1, <3>1 DEF Arm
  <2> QED
    BY <1>5, <1>10, <2>2 DEF Arm
<1>11. CASE Disarm(q)
  <2>1. s \in DOMAIN switches =>
          [switches[s] EXCEPT !.status = "paused", !.nextDeadline = None] \in Switch
    BY <1>2 DEF Switch, Statuses
  <2> QED
    BY <1>4, <1>5, <1>11, <2>1 DEF Disarm
<1>12. CASE PatchDryRun(q)
  <2>1. ASSUME NEW dryRun \in BOOLEAN
        PROVE  s \in DOMAIN switches => [switches[s] EXCEPT !.dryRun = dryRun] \in Switch
    BY <1>2 DEF Switch
  <2> QED
    BY <1>4, <1>5, <1>12, <2>1 DEF PatchDryRun
<1>13. CASE DeleteSwitch(q)
  <2>1. IsTable(switches', Switches, Switch)
    BY <1>0, <1>13 DEF DeleteSwitch, TablesTyped, IsTable
  <2>2. IsTable(jobs', JobKey, Job) /\ IsTable(deliveries', DeliveryKey, Delivery)
    BY <1>0, <1>13, WithoutSwitchType DEF DeleteSwitch, TablesTyped
  <2>3. recipients' \in [Switches -> [Recipients -> {"invited", "accepted", "gone"}]]
    BY <1>0, <1>13 DEF DeleteSwitch, TablesTyped
  <2> QED
    BY <1>0, <1>13, <2>1, <2>2, <2>3 DEF DeleteSwitch, TablesTyped, IsTable
<1>14. CASE AcceptRecipient(q) \/ RemoveRecipient(q)
  <2>1. recipients' \in [Switches -> [Recipients -> {"invited", "accepted", "gone"}]]
    <3> DEFINE States == {"invited", "accepted", "gone"}
    <3>1. PICK r \in Recipients, state \in States :
            recipients' = [recipients EXCEPT ![s][r] = state]
      <4>1. CASE AcceptRecipient(q)
        <5>1. PICK r \in Recipients :
                recipients' = [recipients EXCEPT
                  ![s][r] = IF @ = "invited" THEN "accepted" ELSE @]
          BY <4>1 DEF AcceptRecipient
        <5>2. s \in Switches => recipients[s][r] \in States
          BY <1>0 DEF TablesTyped
        <5> QED
          BY <1>0, <5>1, <5>2, ZenonT(30) DEF TablesTyped
      <4>2. CASE RemoveRecipient(q)
        BY <4>2 DEF RemoveRecipient
      <4> QED
        BY <1>14, <4>1, <4>2
    <3> QED
      BY <1>0, <3>1 DEF TablesTyped
  <2> QED
    BY <1>0, <1>14, <2>1 DEF AcceptRecipient, RemoveRecipient, TablesTyped, IsTable
<1> QED
  BY <1>6, <1>7, <1>8, <1>9, <1>10, <1>11, <1>12, <1>13, <1>14 DEF Commit

LEMMA TypeStep == TypeInv /\ [Next]_vars => TypeInv'
<1> SUFFICES ASSUME TypeInv, [Next]_vars PROVE TypeInv'
  OBVIOUS
<1>1. CASE UNCHANGED vars
  BY <1>1, TablesFrame, LoopsFrame DEF vars, TypeInv, TypeOK, LoopsInv
<1>2. CASE Tick
  <2>1. clock' \in Nat
    BY <1>2 DEF Tick, TypeInv, TypeOK
  <2> QED
    BY <1>2, <2>1, TablesFrame, LoopsFrame DEF Tick, TypeInv, TypeOK, LoopsInv
<1>3. ASSUME NEW w \in Workers, CycleStep(w) \/ ProcessThrows(w) \/ AbortCycle(w)
      PROVE  TypeInv'
  BY <1>3, CycleType
<1>4. ASSUME NEW q \in Slots, Receive(q) PROVE TypeInv'
  <2>1. requests' \in [Slots -> Request \cup {None}]
    BY <1>4 DEF Receive, Request, TypeInv, TypeOK
  <2> QED
    BY <1>4, <2>1, TablesFrame, LoopsFrame DEF Receive, TypeInv, TypeOK, LoopsInv
<1>5. ASSUME NEW q \in Slots, Commit(q) PROVE TypeInv'
  BY <1>5, CommitType
<1> QED
  BY <1>1, <1>2, <1>3, <1>4, <1>5 DEF Next

\* Every table keeps the types of its schema and every loop its locals, for any
\* interleaving of requests, cycles, faults and crashes.
THEOREM TypeCorrect == Spec => []TypeOK
<1>1. TypeInv => TypeOK
  BY DEF TypeInv
<1> QED
  BY <1>1, TypeInit, TypeStep, PTL DEF Spec

---------------------------------------------------------------------------
(* What a step may do to a row *)

Kept(k) == jobs'[k] = jobs[k]

Reaped(k) ==
  \E w \in Workers : LeaseOver(jobs[k], now[w]) /\ jobs'[k] = Requeued(jobs[k])

Taken(k) ==
  \E w \in Workers :
    /\ k \in ClaimableJobs(now[w])
    /\ jobs'[k] = Claimed(jobs[k], w, now[w] + Lease)
    /\ claim'[w] = [key |-> k, leaseExpires |-> now[w] + Lease]

\* The owner finishes its job, or buries it with a letter, and is done with it ...
Ended(k) ==
  \E w \in Workers :
    /\ Working(w) /\ claim[w].key = k /\ OwnedBy(k, w) /\ pc'[w] = "claim"
    /\ \/ jobs'[k].state = "succeeded"
       \/ jobs'[k].state = "dead" /\ deadLetters' = WithLetter(k)
    /\ jobs'[k].kind = jobs[k].kind /\ jobs'[k].runAt = jobs[k].runAt

\* ... or puts it back.
Retried(k) ==
  \E w \in Workers, delay \in Backoffs :
    /\ Working(w) /\ claim[w].key = k /\ OwnedBy(k, w) /\ pc'[w] = "claim"
    /\ jobs'[k] = [Requeued(jobs[k]) EXCEPT !.runAt = clock + delay]

Withdrawn(k) ==
  /\ jobs[k].state \in OpenStates
  /\ jobs'[k] = [jobs[k] EXCEPT !.state = "cancelled"]

Inserted(k) ==
  /\ k[1] \in DOMAIN switches'
  /\ \E w \in Workers :
       \/ k \in DOMAIN snapshot[w] /\ jobs'[k] = snapshot[w][k]
       \/ jobs'[k] = PendingJob("backfilled", now[w]) /\ k[2] + Grace <= now[w]

\* The part of a step that concerns row k.
RowStep(k) ==
  /\ k \in DOMAIN jobs \cap DOMAIN jobs' =>
       \/ Kept(k) \/ Reaped(k) \/ Taken(k) \/ Ended(k) \/ Retried(k) \/ Withdrawn(k)
  /\ k \in DOMAIN jobs' \ DOMAIN jobs => Inserted(k)
  /\ k \in DOMAIN jobs \ DOMAIN jobs' => k[1] \notin DOMAIN switches'
  /\ k \in DOMAIN jobs' /\ k[1] \in DOMAIN switches => k[1] \in DOMAIN switches'

\* Only DELETE removes a switch; nothing brings one back.
LEMMA SwitchDomain ==
  ASSUME TypeInv, [Next]_vars
  PROVE  /\ DOMAIN switches' \subseteq DOMAIN switches
         /\ (\A q \in Slots : ~DeleteSwitch(q)) => DOMAIN switches' = DOMAIN switches
<1>1. CASE UNCHANGED switches
  BY <1>1
<1>2. ASSUME NEW q \in Slots, Commit(q), ~DeleteSwitch(q)
      PROVE  DOMAIN switches' = DOMAIN switches
  BY <1>2 DEF Commit, CheckIn, Cancel, SetFixedDate, SetPanic, Arm, Disarm, PatchDryRun,
     AcceptRecipient, RemoveRecipient, UpdateSwitch
<1>3. ASSUME NEW q \in Slots, DeleteSwitch(q)
      PROVE  DOMAIN switches' \subseteq DOMAIN switches
  BY <1>3 DEF DeleteSwitch
<1>4. ASSUME NEW w \in Workers, ProcessDryRun(w) \/ ProcessRelease(w)
      PROVE  DOMAIN switches' = DOMAIN switches
  BY <1>4 DEF ProcessDryRun, ProcessRelease
<1>5. ASSUME NEW w \in Workers, CycleStep(w) \/ ProcessThrows(w) \/ AbortCycle(w),
             ~ProcessDryRun(w), ~ProcessRelease(w)
      PROVE  UNCHANGED switches
  BY <1>5 DEF CycleStep, ProcessThrows, AbortCycle, tables, BeginCycle, RecoverScan,
     RecoverWrite, PromoteDueWaits, MaterializeScan, MaterializeInsert, InsertRejected,
     RecordTick, ReapExpiredLeases, ClaimJob, ClaimNothing, ReadSwitch, FailJob,
     ClaimDeliveries, SendDelivery, NextBatch, NothingToDeliver
<1>6. Tick \/ (\E q \in Slots : Receive(q)) \/ UNCHANGED vars => UNCHANGED switches
  BY DEF Tick, Receive, vars, tables
<1> QED
  BY <1>1, <1>2, <1>3, <1>4, <1>5, <1>6 DEF Next

\* The steps that leave trigger_jobs alone.
LEMMA JobsUntouched ==
  ASSUME [Next]_vars,
         \A w \in Workers :
           /\ ~RecoverWrite(w) /\ ~MaterializeInsert(w) /\ ~ReapExpiredLeases(w)
           /\ ~ClaimJob(w) /\ ~ProcessDryRun(w) /\ ~ProcessRelease(w) /\ ~FailJob(w),
         \A q \in Slots : ~Cancel(q) /\ ~DeleteSwitch(q)
  PROVE  UNCHANGED jobs
<1>1. ASSUME NEW w \in Workers, CycleStep(w) \/ ProcessThrows(w) \/ AbortCycle(w)
      PROVE  UNCHANGED jobs
  BY <1>1 DEF CycleStep, ProcessThrows, AbortCycle, tables, BeginCycle, RecoverScan,
     PromoteDueWaits, MaterializeScan, InsertRejected, RecordTick, ClaimNothing,
     ReadSwitch, ClaimDeliveries, SendDelivery, NextBatch, NothingToDeliver
<1>2. ASSUME NEW q \in Slots, Receive(q) \/ Commit(q)
      PROVE  UNCHANGED jobs
  BY <1>2 DEF Receive, tables, Commit, CheckIn, SetFixedDate, SetPanic, Arm, Disarm,
     PatchDryRun, AcceptRecipient, RemoveRecipient
<1>3. Tick \/ UNCHANGED vars => UNCHANGED jobs
  BY DEF Tick, vars, tables
<1> QED
  BY <1>1, <1>2, <1>3 DEF Next

\* A job is inserted by recovery or from a snapshot, put back, claimed, ended,
\* cancelled, or deleted with its switch: there is nothing else.
LEMMA RowLifecycle ==
  ASSUME TypeInv, [Next]_vars, NEW k \in JobKey
  PROVE  RowStep(k)
<1>0. /\ IsTable(jobs, JobKey, Job) /\ IsTable(switches, Switches, Switch)
      /\ claim \in [Workers -> Claim \cup {None}] /\ pc \in [Workers -> Pcs]
      /\ ClaimHeld
  BY DEF TypeInv, TypeOK, TablesTyped, LoopsTyped
<1>1. (\A q \in Slots : ~DeleteSwitch(q)) => DOMAIN switches' = DOMAIN switches
  BY SwitchDomain
<1>2. CASE UNCHANGED jobs /\ DOMAIN switches' = DOMAIN switches
  BY <1>2 DEF RowStep, Kept
<1>3. ASSUME NEW q \in Slots, DeleteSwitch(q) PROVE RowStep(k)
  <2> DEFINE s == requests[q].switch
  <2>1. jobs' = WithoutSwitch(jobs, s) /\ DOMAIN switches' = DOMAIN switches \ {s}
    BY <1>3 DEF DeleteSwitch
  <2> QED
    BY <2>1 DEF RowStep, Kept, WithoutSwitch
<1>4. ASSUME \A q \in Slots : ~DeleteSwitch(q), DOMAIN jobs' = DOMAIN jobs,
             k \in DOMAIN jobs =>
               Kept(k) \/ Reaped(k) \/ Taken(k) \/ Ended(k) \/ Retried(k) \/ Withdrawn(k)
      PROVE  RowStep(k)
  BY <1>1, <1>4 DEF RowStep
<1>5. ASSUME NEW w \in Workers, RecoverWrite(w), \A q \in Slots : ~DeleteSwitch(q)
      PROVE  RowStep(k)
  <2> DEFINE hit == {s \in affected[w] \cap DOMAIN switches : switches[s].nextDeadline # None}
             waiting == {s \in hit : GraceEnd(s) > now[w]}
             missed == {<<s, switches[s].nextDeadline>> : s \in hit \ waiting}
             added == [x \in missed |-> PendingJob("backfilled", now[w])]
  <2>1. jobs' = InsertNew(jobs, added)
    BY <1>5 DEF RecoverWrite
  <2>2. \A x \in missed : x[1] \in DOMAIN switches /\ x[2] + Grace <= now[w]
    <3>1. now[w] \in Nat
      BY DEF TypeInv, TypeOK, LoopsTyped
    <3>2. ASSUME NEW s \in hit \ waiting
          PROVE  s \in DOMAIN switches /\ switches[s].nextDeadline + Grace <= now[w]
      <4>1. s \in DOMAIN switches /\ switches[s].nextDeadline \in Nat
        BY <1>0 DEF IsTable, Switch
      <4> QED
        BY <3>1, <4>1, DurationsAssumption DEF GraceEnd
    <3> QED
      BY <3>2
  <2> HIDE DEF missed
  <2>3. DOMAIN added = missed /\ \A x \in missed : added[x] = PendingJob("backfilled", now[w])
    OBVIOUS
  <2> HIDE DEF added
  <2>4. /\ DOMAIN jobs' = DOMAIN jobs \cup missed
        /\ k \in DOMAIN jobs => jobs'[k] = jobs[k]
        /\ k \in missed \ DOMAIN jobs => jobs'[k] = PendingJob("backfilled", now[w])
    BY <2>1, <2>3 DEF InsertNew
  <2> QED
    BY <1>1, <1>5, <2>2, <2>4 DEF RowStep, Kept, Inserted
<1>6. ASSUME NEW w \in Workers, MaterializeInsert(w), \A q \in Slots : ~DeleteSwitch(q)
      PROVE  RowStep(k)
  <2>1. jobs' = InsertNew(jobs, snapshot[w])
        /\ \A x \in DOMAIN snapshot[w] : x[1] \in DOMAIN switches
    BY <1>6 DEF MaterializeInsert
  <2>2. /\ DOMAIN jobs' = DOMAIN jobs \cup DOMAIN snapshot[w]
        /\ k \in DOMAIN jobs => jobs'[k] = jobs[k]
        /\ k \in DOMAIN snapshot[w] \ DOMAIN jobs => jobs'[k] = snapshot[w][k]
    BY <2>1 DEF InsertNew
  <2> QED
    BY <1>1, <1>6, <2>1, <2>2 DEF RowStep, Kept, Inserted
<1>7. ASSUME NEW w \in Workers, ReapExpiredLeases(w), \A q \in Slots : ~DeleteSwitch(q)
      PROVE  RowStep(k)
  <2>1. DOMAIN jobs' = DOMAIN jobs /\ (k \in DOMAIN jobs => Kept(k) \/ Reaped(k))
    BY <1>7 DEF ReapExpiredLeases, Kept, Reaped
  <2> QED
    BY <1>4, <1>7, <2>1
<1>8. ASSUME NEW w \in Workers, ClaimJob(w), \A q \in Slots : ~DeleteSwitch(q)
      PROVE  RowStep(k)
  <2>1. PICK x \in ClaimableJobs(now[w]) :
          /\ jobs' = [jobs EXCEPT ![x] = Claimed(@, w, now[w] + Lease)]
          /\ claim' = [claim EXCEPT ![w] = [key |-> x, leaseExpires |-> now[w] + Lease]]
    BY <1>8 DEF ClaimJob
  <2>2. DOMAIN jobs' = DOMAIN jobs /\ (k \in DOMAIN jobs => Kept(k) \/ Taken(k))
    BY <1>0, <2>1 DEF Kept, Taken, IsTable
  <2> QED
    BY <1>4, <1>8, <2>2
<1>9. ASSUME NEW w \in Workers, Working(w), jobs' = Completed(claim[w].key, w),
             pc'[w] = "claim", \A q \in Slots : ~DeleteSwitch(q)
      PROVE  RowStep(k)
  <2> DEFINE x == claim[w].key
  <2>1. CASE ~OwnedBy(x, w)
    BY <1>4, <1>9, <2>1 DEF Completed, Kept
  <2>2. CASE OwnedBy(x, w)
    <3>1. jobs' = [jobs EXCEPT ![x].state = "succeeded", ![x].leaseExpires = None]
          /\ x \in DOMAIN jobs /\ jobs[x] \in Job
      BY <1>0, <1>9, <2>2 DEF Completed, OwnedBy, IsTable
    <3>2. DOMAIN jobs' = DOMAIN jobs /\ (k # x /\ k \in DOMAIN jobs => Kept(k))
      BY <1>0, <3>1 DEF Kept, IsTable
    <3>3. jobs'[x].state = "succeeded" /\ jobs'[x].kind = jobs[x].kind
          /\ jobs'[x].runAt = jobs[x].runAt
      BY <1>0, <3>1 DEF IsTable, Job
    <3>4. k = x => Ended(k)
      BY <1>9, <2>2, <3>3 DEF Ended
    <3> QED
      BY <1>4, <1>9, <3>2, <3>4
  <2> QED
    BY <2>1, <2>2
<1>10. ASSUME NEW w \in Workers, ProcessDryRun(w) \/ ProcessRelease(w),
              \A q \in Slots : ~DeleteSwitch(q)
       PROVE  RowStep(k)
  BY <1>0, <1>9, <1>10 DEF ProcessDryRun, ProcessRelease, JobDone, Goto, Working
<1>11. ASSUME NEW w \in Workers, FailJob(w), \A q \in Slots : ~DeleteSwitch(q)
       PROVE  RowStep(k)
  <2> DEFINE x == claim[w].key
  <2>1. Working(w) /\ pc'[w] = "claim"
    BY <1>0, <1>11 DEF FailJob, JobDone, Goto, Working
  <2>2. CASE UNCHANGED jobs
    BY <1>1, <1>2, <1>11, <2>2
  <2>3. CASE /\ OwnedBy(x, w) /\ deadLetters' = WithLetter(x)
             /\ jobs' = [jobs EXCEPT ![x].state = "dead", ![x].leaseExpires = None]
    <3>1. x \in DOMAIN jobs /\ jobs[x] \in Job
      BY <1>0, <2>3 DEF OwnedBy, IsTable
    <3>2. DOMAIN jobs' = DOMAIN jobs /\ (k # x /\ k \in DOMAIN jobs => Kept(k))
      BY <1>0, <2>3 DEF Kept, IsTable
    <3>3. jobs'[x].state = "dead" /\ jobs'[x].kind = jobs[x].kind
          /\ jobs'[x].runAt = jobs[x].runAt
      BY <1>0, <2>3, <3>1 DEF IsTable, Job
    <3>4. k = x => Ended(k)
      BY <2>1, <2>3, <3>3 DEF Ended
    <3> QED
      BY <1>4, <1>11, <3>2, <3>4
  <2>4. ASSUME NEW delay \in Backoffs, OwnedBy(x, w),
               jobs' = [jobs EXCEPT ![x] = [Requeued(@) EXCEPT !.runAt = clock + delay]]
        PROVE  RowStep(k)
    <3>1. x \in DOMAIN jobs
      BY <2>4 DEF OwnedBy
    <3>2. DOMAIN jobs' = DOMAIN jobs /\ (k # x /\ k \in DOMAIN jobs => Kept(k))
      BY <1>0, <2>4 DEF Kept, IsTable
    <3>3. k = x => Retried(k)
      BY <1>0, <2>1, <2>4, <3>1 DEF Retried, IsTable
    <3> QED
      BY <1>4, <1>11, <3>2, <3>3
  <2> QED
    BY <1>11, <2>2, <2>3, <2>4 DEF FailJob
<1>12. ASSUME NEW q \in Slots, Cancel(q), \A p \in Slots : ~DeleteSwitch(p)
       PROVE  RowStep(k)
  <2>1. UNCHANGED jobs \/ jobs' = WithoutOpenJobs(requests[q].switch)
    BY <1>12 DEF Cancel
  <2>2. DOMAIN jobs' = DOMAIN jobs /\ (k \in DOMAIN jobs => Kept(k) \/ Withdrawn(k))
    BY <2>1 DEF WithoutOpenJobs, Kept, Withdrawn
  <2> QED
    BY <1>4, <1>12, <2>2
<1> QED
  BY <1>1, <1>2, <1>3, <1>5, <1>6, <1>7, <1>8, <1>10, <1>11, <1>12, JobsUntouched

---------------------------------------------------------------------------
(* What a step may do to a loop and to the clock *)

\* claimJob by a loop that was not working.
ClaimsNow(w, k) ==
  /\ ~Working(w)
  /\ k \in ClaimableJobs(now[w])
  /\ jobs'[k] = Claimed(jobs[k], w, now[w] + Lease)
  /\ DOMAIN jobs' = DOMAIN jobs
  /\ claim'[w] = [key |-> k, leaseExpires |-> now[w] + Lease]

\* A loop at work either was at work on the same claim or has just made it.
LEMMA ClaimLifecycle ==
  ASSUME TypeInv, [Next]_vars, NEW w \in Workers, Working(w)'
  PROVE  \/ Working(w) /\ claim'[w] = claim[w]
         \/ \E k \in DOMAIN jobs : ClaimsNow(w, k)
<1>0. /\ pc \in [Workers -> Pcs] /\ claim \in [Workers -> Claim \cup {None}]
      /\ IsTable(jobs, JobKey, Job)
  BY DEF TypeInv, TypeOK, TablesTyped, LoopsTyped
<1>1. ASSUME pc'[w] = pc[w], claim'[w] = claim[w]
      PROVE  Working(w) /\ claim'[w] = claim[w]
  BY <1>1 DEF Working
<1>2. ASSUME NEW v \in Workers, v # w, CycleStep(v) \/ ProcessThrows(v) \/ AbortCycle(v)
      PROVE  pc'[w] = pc[w] /\ claim'[w] = claim[w]
  BY <1>0, <1>2 DEF CycleStep, ProcessThrows, AbortCycle, EndCycle, Goto, JobDone,
     BeginCycle, RecoverScan, RecoverWrite, PromoteDueWaits, MaterializeScan,
     MaterializeInsert, InsertRejected, RecordTick, ReapExpiredLeases, ClaimJob,
     ClaimNothing, ReadSwitch, ProcessDryRun, ProcessRelease, FailJob,
     ClaimDeliveries, SendDelivery, NextBatch, NothingToDeliver
<1>3. Tick \/ (\E q \in Slots : Receive(q) \/ Commit(q)) \/ UNCHANGED vars
        => UNCHANGED <<pc, claim>>
  BY DEF Tick, Receive, Commit, CheckIn, Cancel, SetFixedDate, SetPanic, Arm, Disarm,
     PatchDryRun, DeleteSwitch, AcceptRecipient, RemoveRecipient, Reply, loops, vars
<1>4. CASE ClaimJob(w)
  <2>1. PICK k \in ClaimableJobs(now[w]) :
          /\ jobs' = [jobs EXCEPT ![k] = Claimed(@, w, now[w] + Lease)]
          /\ claim' = [claim EXCEPT ![w] = [key |-> k, leaseExpires |-> now[w] + Lease]]
    BY <1>4 DEF ClaimJob
  <2>2. k \in DOMAIN jobs
    BY DEF ClaimableJobs
  <2>3. ~Working(w)
    BY <1>4 DEF ClaimJob, Working
  <2> QED
    BY <1>0, <2>1, <2>2, <2>3 DEF ClaimsNow, IsTable
<1>5. CASE ReadSwitch(w) \/ ProcessThrows(w) \/ SendDelivery(w)
  BY <1>0, <1>5 DEF ReadSwitch, ProcessThrows, SendDelivery, Working
<1>6. ASSUME CycleStep(w) \/ AbortCycle(w),
             ~ClaimJob(w), ~ReadSwitch(w), ~SendDelivery(w)
      PROVE  FALSE
  <2>1. pc'[w] \in {"idle", "recover", "compensate", "promote", "scan", "insert", "beat",
                    "reap", "claim", "dispatch", "send", "sendLast"}
    BY <1>0, <1>6 DEF CycleStep, AbortCycle, EndCycle, Goto, JobDone,
       BeginCycle, RecoverScan, RecoverWrite, PromoteDueWaits, MaterializeScan,
       MaterializeInsert, InsertRejected, RecordTick, ReapExpiredLeases,
       ClaimNothing, ProcessDryRun, ProcessRelease, FailJob,
       ClaimDeliveries, NextBatch, NothingToDeliver
  <2> QED
    BY <2>1 DEF Working
<1> QED
  BY <1>1, <1>2, <1>3, <1>4, <1>5, <1>6 DEF Next

\* No loop works with a Date further ahead of the database than the budget.
NowBounded == \A w \in Workers : now[w] <= clock + SkewBudget

LEMMA NowStep ==
  ASSUME TypeInv, NowBounded, [Next]_vars
  PROVE  NowBounded' /\ clock' \in Nat /\ clock <= clock'
<1>0. now \in [Workers -> Nat] /\ clock \in Nat /\ SkewBudget \in Nat
  BY DurationsAssumption DEF TypeInv, TypeOK, LoopsTyped
<1>1. CASE UNCHANGED <<clock, now>>
  BY <1>0, <1>1 DEF NowBounded
<1>2. CASE Tick
  BY <1>0, <1>2 DEF Tick, loops, NowBounded
<1>3. ASSUME NEW w \in Workers, BeginCycle(w) PROVE NowBounded' /\ clock' = clock
  <2>1. PICK t \in HostTimes : now' = [now EXCEPT ![w] = t] /\ clock' = clock
    BY <1>3 DEF BeginCycle
  <2>2. t <= clock + SkewBudget
    BY <1>0 DEF HostTimes
  <2> QED
    BY <1>0, <2>1, <2>2 DEF NowBounded
<1>4. ASSUME NEW w \in Workers, EndCycle(w), clock' = clock PROVE NowBounded'
  BY <1>0, <1>4 DEF EndCycle, NowBounded
<1>5. ASSUME NEW w \in Workers, CycleStep(w) \/ ProcessThrows(w) \/ AbortCycle(w),
             ~BeginCycle(w)
      PROVE  clock' = clock /\ (now' = now \/ EndCycle(w))
  BY <1>5 DEF CycleStep, ProcessThrows, AbortCycle,
     RecoverScan, RecoverWrite, PromoteDueWaits, MaterializeScan,
     MaterializeInsert, InsertRejected, RecordTick, ReapExpiredLeases, ClaimJob,
     ClaimNothing, ReadSwitch, ProcessDryRun, ProcessRelease, FailJob,
     ClaimDeliveries, SendDelivery, NextBatch, NothingToDeliver
<1>6. (\E q \in Slots : Receive(q) \/ Commit(q)) \/ UNCHANGED vars => UNCHANGED <<clock, now>>
  BY DEF Receive, Commit, CheckIn, Cancel, SetFixedDate, SetPanic, Arm, Disarm,
     PatchDryRun, DeleteSwitch, AcceptRecipient, RemoveRecipient, Reply, loops, vars
<1> QED
  BY <1>0, <1>1, <1>2, <1>3, <1>4, <1>5, <1>6 DEF Next

---------------------------------------------------------------------------
(* The inductive invariant *)

\* The job of key k may be processed by instant t.
RipeAt(k, job, t) == EarliestFire(k, job.kind) <= t

\* What the materializer is about to insert is unowned and keeps the ladder.
SnapshotFresh ==
  \A w \in Workers : \A k \in DOMAIN snapshot[w] :
    /\ snapshot[w][k].state = "pending" /\ snapshot[w][k].owner = None
    /\ RipeAt(k, snapshot[w][k], snapshot[w][k].runAt)

\* A job belongs to a switch that exists.
JobsRooted == \A k \in DOMAIN jobs : k[1] \in DOMAIN switches

\* So does a wait.
WaitsRooted == \A s \in Switches : s \notin DOMAIN switches => waits[s] = None

\* A job's run_at respects its time, or its time has come (after a retry).
JobTimes ==
  \A k \in DOMAIN jobs :
    RipeAt(k, jobs[k], jobs[k].runAt) \/ RipeAt(k, jobs[k], clock + SkewBudget)

Holds(w) ==
  LET job == jobs[claim[w].key]
  IN  job.state = "running" /\ job.owner = w /\ job.leaseExpires = claim[w].leaseExpires

Lapsed(w) == claim[w].leaseExpires < clock + SkewBudget

\* The loop still holds its job, or the job is over, or its lease has run out;
\* and a job that is gone went with its switch, so that its key stays unused.
ClaimSound ==
  \A w \in Workers : Working(w) =>
    IF claim[w].key \in DOMAIN jobs
    THEN Holds(w) \/ jobs[claim[w].key].state \in FinalStates \/ Lapsed(w)
    ELSE claim[w].key[1] \notin DOMAIN switches

SafetyInv ==
  /\ TypeInv /\ NowBounded /\ SnapshotFresh
  /\ JobsRooted /\ WaitsRooted /\ JobTimes /\ ClaimSound
  /\ LeasesKept /\ NeverEarly /\ LeaseProtects

LEMMA SafetyInit == Init => SafetyInv
<1> SUFFICES ASSUME Init PROVE SafetyInv
  OBVIOUS
<1>1. TypeInv
  BY TypeInit
<1>2. NowBounded
  BY DurationsAssumption DEF Init, NowBounded
<1>3. DOMAIN NoRows = {}
  BY DEF NoRows
<1>4. SnapshotFresh /\ JobsRooted /\ WaitsRooted /\ JobTimes /\ LeasesKept
  BY <1>3 DEF Init, SnapshotFresh, JobsRooted, WaitsRooted, JobTimes, LeasesKept
<1>5. ClaimSound /\ NeverEarly /\ LeaseProtects
  BY DEF Init, ClaimSound, NeverEarly, LeaseProtects, Working
<1> QED
  BY <1>1, <1>2, <1>4, <1>5 DEF SafetyInv

\* What the materializer inserts keeps the ladder of its kind.
LEMMA TriggerRowFresh ==
  ASSUME NEW k \in JobKey
  PROVE  /\ TriggerRow(k).state = "pending" /\ TriggerRow(k).owner = None
         /\ RipeAt(k, TriggerRow(k), TriggerRow(k).runAt)
<1>1. k[2] \in Nat /\ k[2] + FireLag \in Nat
  BY DurationsAssumption DEF JobKey
<1> QED
  BY <1>1 DEF TriggerRow, PendingJob, RipeAt, EarliestFire

LEMMA SnapshotStep == ASSUME TypeInv, SnapshotFresh, [Next]_vars PROVE SnapshotFresh'
<1>0. snapshot = [w \in Workers |-> snapshot[w]] /\ DOMAIN snapshot = Workers
  BY DEF TypeInv, TypeOK, LoopsTyped
<1>1. CASE UNCHANGED snapshot
  BY <1>1 DEF SnapshotFresh, RipeAt
<1>2. ASSUME NEW w \in Workers, NEW rows, snapshot' = [snapshot EXCEPT ![w] = rows],
             \A k \in DOMAIN rows :
               /\ rows[k].state = "pending" /\ rows[k].owner = None
               /\ RipeAt(k, rows[k], rows[k].runAt)
      PROVE  SnapshotFresh'
  <2>1. \A v \in Workers : snapshot'[v] = IF v = w THEN rows ELSE snapshot[v]
    BY <1>0, <1>2
  <2> SUFFICES ASSUME NEW v \in Workers, NEW k \in DOMAIN snapshot'[v]
               PROVE  /\ snapshot'[v][k].state = "pending" /\ snapshot'[v][k].owner = None
                      /\ RipeAt(k, snapshot'[v][k], snapshot'[v][k].runAt)
    BY DEF SnapshotFresh, RipeAt
  <2>2. CASE v = w
    BY <1>2, <2>1, <2>2
  <2>3. CASE v # w
    BY <2>1, <2>3 DEF SnapshotFresh
  <2> QED
    BY <2>2, <2>3
<1>3. ASSUME NEW w \in Workers, snapshot' = [snapshot EXCEPT ![w] = NoRows]
      PROVE  SnapshotFresh'
  <2>1. DOMAIN NoRows = {}
    BY DEF NoRows
  <2> QED
    BY <1>2, <1>3, <2>1
<1>4. ASSUME NEW w \in Workers, MaterializeScan(w) PROVE SnapshotFresh'
  <2> DEFINE keys == {<<s, DueAt(s)>> : s \in DueSwitches(now[w])}
             rows == [k \in keys |-> TriggerRow(k)]
  <2>1. \A s \in DueSwitches(now[w]) : s \in Switches /\ DueAt(s) \in Nat
    BY DEF TypeInv, TypeOK, TablesTyped, IsTable, Switch, DueSwitches, Reached, DueAt
  <2>2. keys \subseteq JobKey
    BY <2>1 DEF JobKey
  <2>3. snapshot' = [snapshot EXCEPT ![w] = rows]
    BY <1>4 DEF MaterializeScan
  <2> HIDE DEF keys
  <2>4. \A k \in DOMAIN rows :
          /\ rows[k].state = "pending" /\ rows[k].owner = None
          /\ RipeAt(k, rows[k], rows[k].runAt)
    BY <2>2, TriggerRowFresh
  <2> HIDE DEF rows
  <2> QED
    BY <1>2, <2>3, <2>4
<1>5. ASSUME NEW w \in Workers, CycleStep(w) \/ ProcessThrows(w) \/ AbortCycle(w),
             ~MaterializeScan(w)
      PROVE  UNCHANGED snapshot \/ snapshot' = [snapshot EXCEPT ![w] = NoRows]
  BY <1>5 DEF CycleStep, ProcessThrows, AbortCycle, EndCycle, BeginCycle,
     RecoverScan, RecoverWrite, PromoteDueWaits,
     MaterializeInsert, InsertRejected, RecordTick, ReapExpiredLeases, ClaimJob,
     ClaimNothing, ReadSwitch, ProcessDryRun, ProcessRelease, FailJob,
     ClaimDeliveries, SendDelivery, NextBatch, NothingToDeliver
<1>6. Tick \/ (\E q \in Slots : Receive(q) \/ Commit(q)) \/ UNCHANGED vars
        => UNCHANGED snapshot
  BY DEF Tick, Receive, Commit, CheckIn, Cancel, SetFixedDate, SetPanic, Arm, Disarm,
     PatchDryRun, DeleteSwitch, AcceptRecipient, RemoveRecipient, Reply, loops, vars
<1> QED
  BY <1>1, <1>3, <1>4, <1>5, <1>6 DEF Next

---------------------------------------------------------------------------
(* Every step keeps the invariant *)

\* The earliest instant of a well-formed job is a number.
LEMMA EarliestType ==
  ASSUME NEW k \in JobKey, NEW job \in Job
  PROVE  EarliestFire(k, job.kind) \in Nat
<1>1. k[2] \in Nat /\ k[2] + FireLag \in Nat /\ k[2] + Grace \in Nat
  BY DurationsAssumption DEF JobKey
<1>2. job.kind \in {"fire", "variant", "backfilled"}
  BY DEF Job
<1> QED
  BY <1>1, <1>2 DEF EarliestFire

\* No step on a row changes what it is for.
LEMMA KindStays ==
  ASSUME TypeInv, NEW k \in DOMAIN jobs \cap DOMAIN jobs', RowStep(k)
  PROVE  jobs'[k].kind = jobs[k].kind
<1>1. jobs[k] \in Job
  BY DEF TypeInv, TypeOK, TablesTyped, IsTable
<1> QED
  BY <1>1 DEF RowStep, Kept, Reaped, Taken, Ended, Retried, Withdrawn, Requeued, Claimed, Job

\* A job under way is owned, a waiting one is not.
LEMMA LeasesStep ==
  ASSUME TypeInv, SnapshotFresh, LeasesKept, [Next]_vars
  PROVE  LeasesKept'
<1> SUFFICES ASSUME NEW k \in DOMAIN jobs' PROVE Leased(jobs'[k])
  BY DEF LeasesKept, Leased
<1>1. k \in JobKey
  BY TypeStep DEF TypeInv, TypeOK, TablesTyped, IsTable
<1>2. RowStep(k)
  BY <1>1, RowLifecycle
<1>3. CASE k \in DOMAIN jobs
  <2>1. jobs[k] \in Job /\ Leased(jobs[k])
    BY <1>3 DEF TypeInv, TypeOK, TablesTyped, IsTable, LeasesKept
  <2>2. CASE Kept(k)
    BY <2>1, <2>2 DEF Kept
  <2>3. CASE Reaped(k)
    BY <2>1, <2>3 DEF Reaped, Requeued, Leased, Job
  <2>4. CASE Taken(k)
    <3>1. PICK w \in Workers : jobs'[k] = Claimed(jobs[k], w, now[w] + Lease)
      BY <2>4 DEF Taken
    <3>2. now[w] + Lease \in Nat
      BY DurationsAssumption DEF TypeInv, TypeOK, LoopsTyped
    <3> QED
      BY <2>1, <3>1, <3>2 DEF Claimed, Leased, Job
  <2>5. CASE Ended(k)
    BY <2>5 DEF Ended, Leased
  <2>6. CASE Retried(k)
    BY <2>1, <2>6 DEF Retried, Requeued, Leased, Job
  <2>7. CASE Withdrawn(k)
    BY <2>1, <2>7 DEF Withdrawn, Leased, Job
  <2> QED
    BY <1>2, <1>3, <2>2, <2>3, <2>4, <2>5, <2>6, <2>7 DEF RowStep
<1>4. CASE k \notin DOMAIN jobs
  BY <1>2, <1>4 DEF RowStep, Inserted, SnapshotFresh, PendingJob, Leased
<1> QED
  BY <1>3, <1>4

\* A job is only ever made for a switch that is there.
LEMMA RootedStep ==
  ASSUME TypeInv, JobsRooted, [Next]_vars
  PROVE  JobsRooted'
<1> SUFFICES ASSUME NEW k \in DOMAIN jobs' PROVE k[1] \in DOMAIN switches'
  BY DEF JobsRooted
<1>1. k \in JobKey
  BY TypeStep DEF TypeInv, TypeOK, TablesTyped, IsTable
<1> QED
  BY <1>1, RowLifecycle DEF RowStep, Inserted, JobsRooted

\* A retry is scheduled by a worker whose job's time had come.
LEMMA JobTimesStep ==
  ASSUME TypeInv, NowBounded, SnapshotFresh, JobTimes, NeverEarly, [Next]_vars
  PROVE  JobTimes'
<1> SUFFICES ASSUME NEW k \in DOMAIN jobs'
             PROVE  \/ RipeAt(k, jobs'[k], jobs'[k].runAt)
                    \/ RipeAt(k, jobs'[k], clock' + SkewBudget)
  BY DEF JobTimes, RipeAt, EarliestFire
<1>1. k \in JobKey /\ jobs'[k] \in Job
  BY TypeStep DEF TypeInv, TypeOK, TablesTyped, IsTable
<1>2. RowStep(k)
  BY <1>1, RowLifecycle
<1>3. clock \in Nat /\ clock' \in Nat /\ clock <= clock' /\ SkewBudget \in Nat
  BY NowStep, DurationsAssumption DEF TypeInv, TypeOK
<1>4. CASE k \in DOMAIN jobs
  <2>1. jobs[k] \in Job
    BY <1>4 DEF TypeInv, TypeOK, TablesTyped, IsTable
  <2>2. jobs'[k].kind = jobs[k].kind
    BY <1>2, <1>4, KindStays
  <2>3. EarliestFire(k, jobs[k].kind) \in Nat
    BY <1>1, <2>1, EarliestType
  <2>4. ASSUME RipeAt(k, jobs[k], clock + SkewBudget)
        PROVE  RipeAt(k, jobs'[k], clock' + SkewBudget)
    BY <1>3, <2>2, <2>3, <2>4 DEF RipeAt
  <2>5. CASE jobs'[k].runAt = jobs[k].runAt
    BY <1>4, <2>2, <2>4, <2>5 DEF JobTimes, RipeAt
  <2>6. CASE Retried(k)
    BY <1>4, <2>4, <2>6 DEF Retried, NeverEarly, RipeAt
  <2>7. Kept(k) \/ Reaped(k) \/ Taken(k) \/ Ended(k) \/ Withdrawn(k)
          => jobs'[k].runAt = jobs[k].runAt
    BY <2>1 DEF Kept, Reaped, Taken, Ended, Withdrawn, Requeued, Claimed, Job
  <2> QED
    BY <1>2, <1>4, <2>5, <2>6, <2>7 DEF RowStep
<1>5. CASE k \notin DOMAIN jobs
  <2>1. PICK w \in Workers :
          \/ k \in DOMAIN snapshot[w] /\ jobs'[k] = snapshot[w][k]
          \/ jobs'[k] = PendingJob("backfilled", now[w]) /\ k[2] + Grace <= now[w]
    BY <1>2, <1>5 DEF RowStep, Inserted
  <2>2. CASE k \in DOMAIN snapshot[w] /\ jobs'[k] = snapshot[w][k]
    BY <2>2 DEF SnapshotFresh
  <2>3. CASE jobs'[k] = PendingJob("backfilled", now[w]) /\ k[2] + Grace <= now[w]
    BY <2>3 DEF RipeAt, EarliestFire, PendingJob
  <2> QED
    BY <2>1, <2>2, <2>3
<1> QED
  BY <1>4, <1>5

\* A key whose switch is gone stays unused.
LEMMA GoneForGood ==
  ASSUME TypeInv, [Next]_vars, NEW k \in JobKey,
         k \notin DOMAIN jobs, k[1] \notin DOMAIN switches
  PROVE  k \notin DOMAIN jobs' /\ k[1] \notin DOMAIN switches'
<1>1. DOMAIN switches' \subseteq DOMAIN switches
  BY SwitchDomain
<1>2. RowStep(k)
  BY RowLifecycle
<1> QED
  BY <1>1, <1>2 DEF RowStep, Inserted

\* A loop that still works on a key of the old state: what it held is held,
\* over, or lapsed.
LEMMA ClaimKept ==
  ASSUME TypeInv, NowBounded, ClaimSound, [Next]_vars,
         NEW w \in Workers, Working(w), Working(w)', claim'[w] = claim[w]
  PROVE  IF claim'[w].key \in DOMAIN jobs'
         THEN Holds(w)' \/ jobs'[claim'[w].key].state \in FinalStates \/ Lapsed(w)'
         ELSE claim'[w].key[1] \notin DOMAIN switches'
<1> DEFINE k == claim[w].key
<1>1. k \in JobKey /\ claim[w].leaseExpires \in Nat
  BY DEF TypeInv, TypeOK, LoopsTyped, ClaimHeld, Claim
<1>2. RowStep(k)
  BY <1>1, RowLifecycle
<1>3. clock \in Nat /\ clock' \in Nat /\ clock <= clock' /\ SkewBudget \in Nat
  BY NowStep, DurationsAssumption DEF TypeInv, TypeOK
<1>4. CASE k \notin DOMAIN jobs
  BY <1>1, <1>4, GoneForGood DEF ClaimSound
<1>5. CASE k \in DOMAIN jobs /\ k \notin DOMAIN jobs'
  BY <1>2, <1>5 DEF RowStep
<1>6. CASE k \in DOMAIN jobs /\ k \in DOMAIN jobs'
  <2>1. jobs[k] \in Job
    BY <1>6 DEF TypeInv, TypeOK, TablesTyped, IsTable
  <2>2. CASE Lapsed(w)
    BY <1>1, <1>3, <1>6, <2>2 DEF Lapsed
  <2>3. CASE jobs[k].state \in FinalStates
    <3>1. Kept(k)
      BY <1>2, <1>6, <2>3 DEF RowStep, Reaped, LeaseOver, Taken, ClaimableJobs, Ended,
         OwnedBy, Retried, Withdrawn, FinalStates, OpenStates
    <3> QED
      BY <1>6, <2>3, <3>1 DEF Kept
  <2>4. CASE Holds(w)
    <3>1. jobs[k].state = "running" /\ jobs[k].owner = w
          /\ jobs[k].leaseExpires = claim[w].leaseExpires
      BY <2>4 DEF Holds
    <3>2. CASE Kept(k)
      BY <1>6, <3>1, <3>2 DEF Kept, Holds
    <3>3. CASE Reaped(k)
      <4>1. PICK v \in Workers : jobs[k].leaseExpires < now[v]
        BY <3>3 DEF Reaped, LeaseOver
      <4>2. now[v] <= clock + SkewBudget /\ now[v] \in Nat
        BY DEF NowBounded, TypeInv, TypeOK, LoopsTyped
      <4> QED
        BY <1>1, <1>3, <1>6, <3>1, <4>1, <4>2 DEF Lapsed
    <3>4. ~Taken(k)
      BY <3>1 DEF Taken, ClaimableJobs
    <3>5. CASE Ended(k)
      BY <1>6, <3>5 DEF Ended, FinalStates
    <3>6. ~Retried(k)
      BY <3>1 DEF Retried, OwnedBy, Working
    <3>7. CASE Withdrawn(k)
      BY <1>6, <2>1, <3>7 DEF Withdrawn, FinalStates, Job
    <3> QED
      BY <1>2, <1>6, <3>2, <3>3, <3>4, <3>5, <3>6, <3>7 DEF RowStep
  <2> QED
    BY <1>6, <2>2, <2>3, <2>4 DEF ClaimSound
<1> QED
  BY <1>4, <1>5, <1>6

\* A new claim is held by the loop that made it.
LEMMA ClaimMade ==
  ASSUME TypeInv, NEW w \in Workers, NEW k \in DOMAIN jobs, ClaimsNow(w, k)
  PROVE  /\ claim'[w].key = k /\ k \in DOMAIN jobs' /\ Holds(w)'
         /\ jobs[k].state = "pending" /\ jobs[k].runAt <= now[w]
         /\ jobs'[k].kind = jobs[k].kind
<1>1. jobs[k] \in Job /\ now[w] + Lease \in Nat
  BY DurationsAssumption DEF TypeInv, TypeOK, TablesTyped, IsTable, LoopsTyped
<1>2. jobs[k].state = "pending" /\ jobs[k].runAt <= now[w]
  BY DEF ClaimsNow, ClaimableJobs
<1> DEFINE taken == Claimed(jobs[k], w, now[w] + Lease)
<1>3. /\ taken.state = "running" /\ taken.owner = w
      /\ taken.leaseExpires = now[w] + Lease /\ taken.kind = jobs[k].kind
  BY <1>1 DEF Claimed, Job
<1>4. /\ jobs'[k] = taken /\ k \in DOMAIN jobs'
      /\ claim'[w] = [key |-> k, leaseExpires |-> now[w] + Lease]
  BY DEF ClaimsNow
<1> HIDE DEF taken
<1>5. claim'[w].key = k /\ claim'[w].leaseExpires = now[w] + Lease
  BY <1>4
<1> QED
  BY <1>2, <1>3, <1>4, <1>5 DEF Holds

LEMMA ClaimSoundStep ==
  ASSUME TypeInv, NowBounded, ClaimSound, [Next]_vars
  PROVE  ClaimSound'
<1> SUFFICES ASSUME NEW w \in Workers, Working(w)'
             PROVE  IF claim'[w].key \in DOMAIN jobs'
                    THEN \/ Holds(w)' \/ jobs'[claim'[w].key].state \in FinalStates
                         \/ Lapsed(w)'
                    ELSE claim'[w].key[1] \notin DOMAIN switches'
  BY DEF ClaimSound
<1>1. CASE Working(w) /\ claim'[w] = claim[w]
  BY <1>1, ClaimKept
<1>2. ASSUME NEW k \in DOMAIN jobs, ClaimsNow(w, k)
      PROVE  claim'[w].key \in DOMAIN jobs' /\ Holds(w)'
  BY <1>2, ClaimMade
<1> QED
  BY <1>1, <1>2, ClaimLifecycle

\* What a loop works on was ripe when claimed, and stays so.
LEMMA NeverEarlyStep ==
  ASSUME TypeInv, NowBounded, JobTimes, ClaimSound, NeverEarly, [Next]_vars
  PROVE  NeverEarly'
<1> SUFFICES ASSUME NEW w \in Workers, Working(w)', claim'[w].key \in DOMAIN jobs'
             PROVE  EarliestFire(claim'[w].key, jobs'[claim'[w].key].kind)
                      <= clock' + SkewBudget
  BY DEF NeverEarly, EarliestFire
<1>1. clock \in Nat /\ clock' \in Nat /\ clock <= clock' /\ SkewBudget \in Nat
  BY NowStep, DurationsAssumption DEF TypeInv, TypeOK
<1>2. ASSUME NEW k \in DOMAIN jobs, k \in JobKey, jobs'[k].kind = jobs[k].kind,
             EarliestFire(k, jobs[k].kind) <= clock + SkewBudget
      PROVE  EarliestFire(k, jobs'[k].kind) <= clock' + SkewBudget
  <2>1. jobs[k] \in Job
    BY DEF TypeInv, TypeOK, TablesTyped, IsTable
  <2>2. EarliestFire(k, jobs[k].kind) \in Nat
    BY <1>2, <2>1, EarliestType
  <2> QED
    BY <1>1, <1>2, <2>2
<1>3. CASE Working(w) /\ claim'[w] = claim[w]
  <2> DEFINE k == claim[w].key
  <2>1. k \in JobKey
    BY <1>3 DEF TypeInv, TypeOK, LoopsTyped, ClaimHeld, Claim
  <2>2. k \in DOMAIN jobs
    BY <1>3, <2>1, GoneForGood DEF ClaimSound
  <2>3. jobs'[k].kind = jobs[k].kind
    BY <1>3, <2>1, <2>2, RowLifecycle, KindStays
  <2> QED
    BY <1>2, <1>3, <2>1, <2>2, <2>3 DEF NeverEarly
<1>4. ASSUME NEW k \in DOMAIN jobs, ClaimsNow(w, k)
      PROVE  EarliestFire(claim'[w].key, jobs'[claim'[w].key].kind) <= clock' + SkewBudget
  <2>1. jobs[k] \in Job /\ k \in JobKey /\ now[w] \in Nat
    BY DEF TypeInv, TypeOK, TablesTyped, IsTable, LoopsTyped
  <2>2. EarliestFire(k, jobs[k].kind) \in Nat /\ jobs[k].runAt \in Nat
    BY <2>1, EarliestType DEF Job
  <2>3. /\ claim'[w].key = k /\ jobs[k].runAt <= now[w]
        /\ jobs'[k].kind = jobs[k].kind
    BY <1>4, ClaimMade
  <2>4. EarliestFire(k, jobs[k].kind) <= clock + SkewBudget
    BY <1>1, <2>1, <2>2, <2>3 DEF JobTimes, RipeAt, NowBounded
  <2> QED
    BY <1>2, <2>1, <2>3, <2>4
<1> QED
  BY <1>3, <1>4, ClaimLifecycle

\* A job is claimed from the queue, where nobody with a live lease left it.
LEMMA LeaseProtectsStep ==
  ASSUME TypeInv, NowBounded, ClaimSound, LeaseProtects, [Next]_vars
  PROVE  LeaseProtects'
<1> SUFFICES ASSUME NEW v \in Workers, NEW w \in Workers, v # w, Working(v)', Working(w)',
                    claim'[v].key = claim'[w].key
             PROVE  Lapsed(v)' \/ Lapsed(w)'
  BY DEF LeaseProtects, Lapsed
<1>1. clock \in Nat /\ clock' \in Nat /\ clock <= clock' /\ SkewBudget \in Nat
  BY NowStep, DurationsAssumption DEF TypeInv, TypeOK
<1>2. ASSUME NEW u \in Workers, Working(u), claim'[u] = claim[u], Lapsed(u)
      PROVE  Lapsed(u)'
  <2>1. claim[u].leaseExpires \in Nat
    BY <1>2 DEF TypeInv, TypeOK, LoopsTyped, ClaimHeld, Claim
  <2> QED
    BY <1>1, <1>2, <2>1 DEF Lapsed
<1>3. ASSUME NEW u \in Workers, NEW x \in Workers, Working(u), claim'[u] = claim[u],
             NEW k \in DOMAIN jobs, ClaimsNow(x, k), claim'[u].key = claim'[x].key
      PROVE  Lapsed(u)'
  <2>1. claim[u].key = k /\ jobs[k].state = "pending"
    BY <1>3, ClaimMade
  <2>2. ~Holds(u) /\ jobs[k].state \notin FinalStates
    BY <2>1 DEF Holds, FinalStates
  <2> QED
    BY <1>2, <1>3, <2>1, <2>2 DEF ClaimSound
<1>4. CASE /\ Working(v) /\ claim'[v] = claim[v]
           /\ Working(w) /\ claim'[w] = claim[w]
  BY <1>2, <1>4 DEF LeaseProtects, Lapsed
<1>5. ASSUME NEW k \in DOMAIN jobs, NEW l \in DOMAIN jobs, ClaimsNow(v, k), ClaimsNow(w, l)
      PROVE  FALSE
  <2>1. claim'[v].key = k /\ Holds(v)' /\ claim'[w].key = l /\ Holds(w)'
    BY <1>5, ClaimMade
  <2> QED
    BY <2>1 DEF Holds
<1> QED
  BY <1>3, <1>4, <1>5, ClaimLifecycle

\* A wait goes with its switch, and recovery writes one only for a switch that
\* is there when it writes.
LEMMA WaitsRootedStep ==
  ASSUME TypeInv, WaitsRooted, [Next]_vars
  PROVE  WaitsRooted'
<1>0. waits \in [Switches -> Nat \cup {None}] /\ requests \in [Slots -> Request \cup {None}]
  BY DEF TypeInv, TypeOK, TablesTyped
<1>1. DOMAIN switches' \subseteq DOMAIN switches
      /\ ((\A q \in Slots : ~DeleteSwitch(q)) => DOMAIN switches' = DOMAIN switches)
  BY SwitchDomain
<1>2. ASSUME NEW q \in Slots, DeleteSwitch(q) PROVE WaitsRooted'
  <2>1. requests[q].switch \in Switches
    BY <1>0, <1>2 DEF DeleteSwitch, Asks, Request
  <2> QED
    BY <1>0, <1>2, <2>1 DEF DeleteSwitch, WaitsRooted
<1>3. ASSUME \A s \in Switches : waits'[s] # waits[s] => s \in DOMAIN switches \/ waits'[s] = None,
             \A q \in Slots : ~DeleteSwitch(q)
      PROVE  WaitsRooted'
  BY <1>1, <1>3 DEF WaitsRooted
<1>4. ASSUME NEW q \in Slots, CheckIn(q)
      PROVE  \A s \in Switches : waits'[s] # waits[s] => s \in DOMAIN switches
  BY <1>0, <1>4 DEF CheckIn
<1>5. ASSUME NEW w \in Workers, RecoverWrite(w)
      PROVE  \A s \in Switches : waits'[s] # waits[s] => s \in DOMAIN switches
  BY <1>0, <1>5 DEF RecoverWrite
<1>6. ASSUME NEW w \in Workers, PromoteDueWaits(w)
      PROVE  \A s \in Switches : waits'[s] # waits[s] => waits'[s] = None
  BY <1>6 DEF PromoteDueWaits
<1>7. ASSUME NEW w \in Workers, CycleStep(w) \/ ProcessThrows(w) \/ AbortCycle(w),
             ~RecoverWrite(w), ~PromoteDueWaits(w)
      PROVE  UNCHANGED waits
  BY <1>7 DEF CycleStep, ProcessThrows, AbortCycle, tables, BeginCycle, RecoverScan,
     MaterializeScan, MaterializeInsert, InsertRejected, RecordTick, ReapExpiredLeases,
     ClaimJob, ClaimNothing, ReadSwitch, ProcessDryRun, ProcessRelease, FailJob,
     ClaimDeliveries, SendDelivery, NextBatch, NothingToDeliver
<1>8. ASSUME NEW q \in Slots, Receive(q) \/ Commit(q), ~CheckIn(q), ~DeleteSwitch(q)
      PROVE  UNCHANGED waits
  BY <1>8 DEF Receive, tables, Commit, Cancel, SetFixedDate, SetPanic, Arm, Disarm,
     PatchDryRun, AcceptRecipient, RemoveRecipient
<1>9. Tick \/ UNCHANGED vars => UNCHANGED waits
  BY DEF Tick, vars, tables
<1> QED
  BY <1>2, <1>3, <1>4, <1>5, <1>6, <1>7, <1>8, <1>9 DEF Next

LEMMA SafetyStep == SafetyInv /\ [Next]_vars => SafetyInv'
<1> SUFFICES ASSUME SafetyInv, [Next]_vars PROVE SafetyInv'
  OBVIOUS
<1>1. TypeInv'
  BY TypeStep DEF SafetyInv
<1>2. NowBounded'
  BY NowStep DEF SafetyInv
<1>3. SnapshotFresh' /\ JobsRooted' /\ WaitsRooted' /\ JobTimes'
  BY SnapshotStep, RootedStep, WaitsRootedStep, JobTimesStep DEF SafetyInv
<1>4. ClaimSound' /\ LeasesKept' /\ NeverEarly' /\ LeaseProtects'
  BY ClaimSoundStep, LeasesStep, NeverEarlyStep, LeaseProtectsStep DEF SafetyInv
<1> QED
  BY <1>1, <1>2, <1>3, <1>4 DEF SafetyInv

LEMMA Safety == Spec => []SafetyInv
BY SafetyInit, SafetyStep, PTL DEF Spec

---------------------------------------------------------------------------
(* The wait after an outage, for a single loop *)

\* Deployments run one API process; with two loops WaitHolds is not kept.
SingleLoop == \A v, w \in Workers : v = w

\* A deadline is at most an interval away ...
DeadlinesNear ==
  \A s \in DOMAIN switches :
    switches[s].nextDeadline # None => switches[s].nextDeadline <= clock + Interval

\* ... a wait ends at most a grace after it, and after any later deadline ...
WaitsNear ==
  \A s \in Switches : waits[s] # None =>
    /\ waits[s] <= clock + Interval + Grace
    /\ s \in DOMAIN switches /\ switches[s].nextDeadline # None
         => waits[s] <= switches[s].nextDeadline + Grace

\* ... and what is about to be inserted belongs to no switch that waits.
SnapshotAwake ==
  \A w \in Workers : \A k \in DOMAIN snapshot[w] : pc[w] = "insert" /\ waits[k[1]] = None

WaitInv == SafetyInv /\ DeadlinesNear /\ WaitsNear /\ SnapshotAwake

\* Where a deadline may move in a step.
DeadlineMoves(s) ==
  /\ s \in DOMAIN switches
  /\ switches'[s].nextDeadline \in {switches[s].nextDeadline, None, clock + Interval}

\* Where a wait may move in a step.
WaitMoves(s) ==
  \/ waits'[s] \in {waits[s], None}
  \/ /\ \E w \in Workers : RecoverWrite(w)
     /\ s \in DOMAIN switches /\ switches[s].nextDeadline # None
     /\ waits'[s] = switches[s].nextDeadline + Grace

\* A deadline stays, is cleared, or starts a new interval.
LEMMA DeadlineLifecycle ==
  ASSUME TypeInv, [Next]_vars, NEW s \in DOMAIN switches'
  PROVE  DeadlineMoves(s)
<1>0. IsTable(switches, Switches, Switch)
  BY DEF TypeInv, TypeOK, TablesTyped
<1>1. CASE UNCHANGED switches
  BY <1>1 DEF DeadlineMoves
<1>2. ASSUME NEW w \in Workers, ProcessDryRun(w) \/ ProcessRelease(w) PROVE DeadlineMoves(s)
  BY <1>0, <1>2 DEF ProcessDryRun, ProcessRelease, DeadlineMoves, IsTable, Switch
<1>4. ASSUME NEW q \in Slots, Commit(q) PROVE DeadlineMoves(s)
  <2>1. CASE CheckIn(q)
    <3>1. CASE UNCHANGED switches
      BY <1>1, <3>1
    <3>2. CASE ~UNCHANGED switches
      BY <1>0, <2>1, <3>2 DEF CheckIn, UpdateSwitch, DeadlineMoves, IsTable, Switch
    <3> QED
      BY <3>1, <3>2
  <2>2. CASE Cancel(q)
    BY <1>0, <2>2 DEF Cancel, UpdateSwitch, DeadlineMoves, IsTable, Switch
  <2>3. CASE SetFixedDate(q)
    BY <1>0, <2>3 DEF SetFixedDate, UpdateSwitch, DeadlineMoves, IsTable, Switch
  <2>4. CASE SetPanic(q)
    BY <1>0, <2>4 DEF SetPanic, UpdateSwitch, DeadlineMoves, IsTable, Switch
  <2>5. CASE Arm(q)
    BY <1>0, <2>5, ZenonT(30) DEF Arm, UpdateSwitch, DeadlineMoves, IsTable, Switch
  <2>6. CASE Disarm(q)
    BY <1>0, <2>6 DEF Disarm, UpdateSwitch, DeadlineMoves, IsTable, Switch
  <2>7. CASE PatchDryRun(q)
    BY <1>0, <2>7 DEF PatchDryRun, UpdateSwitch, DeadlineMoves, IsTable, Switch
  <2>8. CASE DeleteSwitch(q)
    BY <1>0, <2>8 DEF DeleteSwitch, DeadlineMoves, IsTable
  <2>9. AcceptRecipient(q) \/ RemoveRecipient(q) => UNCHANGED switches
    BY DEF AcceptRecipient, RemoveRecipient
  <2> QED
    BY <1>1, <1>4, <2>1, <2>2, <2>3, <2>4, <2>5, <2>6, <2>7, <2>8, <2>9 DEF Commit
<1>5. ASSUME NEW w \in Workers, CycleStep(w) \/ ProcessThrows(w) \/ AbortCycle(w),
             ~ProcessDryRun(w), ~ProcessRelease(w)
      PROVE  UNCHANGED switches
  BY <1>5 DEF CycleStep, ProcessThrows, AbortCycle, tables, BeginCycle, RecoverScan,
     RecoverWrite, PromoteDueWaits, MaterializeScan, MaterializeInsert, InsertRejected,
     RecordTick, ReapExpiredLeases, ClaimJob, ClaimNothing, ReadSwitch, FailJob,
     ClaimDeliveries, SendDelivery, NextBatch, NothingToDeliver
<1>6. Tick \/ (\E q \in Slots : Receive(q)) \/ UNCHANGED vars => UNCHANGED switches
  BY DEF Tick, Receive, vars, tables
<1> QED
  BY <1>1, <1>2, <1>4, <1>5, <1>6 DEF Next

\* A wait stays, ends, or is set to the end of the grace.
LEMMA WaitLifecycle ==
  ASSUME TypeInv, [Next]_vars, NEW s \in Switches
  PROVE  WaitMoves(s)
<1>0. waits \in [Switches -> Nat \cup {None}] /\ requests \in [Slots -> Request \cup {None}]
  BY DEF TypeInv, TypeOK, TablesTyped
<1>1. CASE UNCHANGED waits
  BY <1>1 DEF WaitMoves
<1>2. ASSUME NEW q \in Slots, CheckIn(q) \/ DeleteSwitch(q) PROVE WaitMoves(s)
  BY <1>0, <1>2 DEF CheckIn, DeleteSwitch, WaitMoves
<1>3. ASSUME NEW w \in Workers, RecoverWrite(w) PROVE WaitMoves(s)
  <2>1. \/ waits'[s] = waits[s]
        \/ /\ s \in DOMAIN switches /\ switches[s].nextDeadline # None
           /\ waits'[s] = switches[s].nextDeadline + Grace
    BY <1>3 DEF RecoverWrite, GraceEnd
  <2> QED
    BY <1>3, <2>1 DEF WaitMoves
<1>4. ASSUME NEW w \in Workers, PromoteDueWaits(w) PROVE WaitMoves(s)
  BY <1>4 DEF PromoteDueWaits, WaitMoves
<1>5. ASSUME NEW w \in Workers, CycleStep(w) \/ ProcessThrows(w) \/ AbortCycle(w),
             ~RecoverWrite(w), ~PromoteDueWaits(w)
      PROVE  UNCHANGED waits
  BY <1>5 DEF CycleStep, ProcessThrows, AbortCycle, tables, BeginCycle, RecoverScan,
     MaterializeScan, MaterializeInsert, InsertRejected, RecordTick, ReapExpiredLeases,
     ClaimJob, ClaimNothing, ReadSwitch, ProcessDryRun, ProcessRelease, FailJob,
     ClaimDeliveries, SendDelivery, NextBatch, NothingToDeliver
<1>6. ASSUME NEW q \in Slots, Receive(q) \/ Commit(q), ~CheckIn(q), ~DeleteSwitch(q)
      PROVE  UNCHANGED waits
  BY <1>6 DEF Receive, tables, Commit, Cancel, SetFixedDate, SetPanic, Arm, Disarm,
     PatchDryRun, AcceptRecipient, RemoveRecipient
<1>7. Tick \/ UNCHANGED vars => UNCHANGED waits
  BY DEF Tick, vars, tables
<1> QED
  BY <1>1, <1>2, <1>3, <1>4, <1>5, <1>6, <1>7 DEF Next

\* A loop that has rows to insert stays about to insert them.
LEMMA SnapshotLifecycle ==
  ASSUME TypeInv, SnapshotAwake, [Next]_vars, NEW w \in Workers, NEW k \in DOMAIN snapshot'[w]
  PROVE  \/ \E v \in Workers : v = w /\ MaterializeScan(v)
         \/ k \in DOMAIN snapshot[w] /\ pc'[w] = pc[w]
<1>0. /\ DOMAIN snapshot = Workers /\ pc \in [Workers -> Pcs]
      /\ DOMAIN NoRows = {}
  BY DEF TypeInv, TypeOK, LoopsTyped, NoRows
<1>1. CASE UNCHANGED <<snapshot, pc>>
  BY <1>1
<1>2. ASSUME NEW v \in Workers, EndCycle(v) PROVE k \in DOMAIN snapshot[w] /\ pc'[w] = pc[w]
  BY <1>0, <1>2 DEF EndCycle, Goto
<1>3. ASSUME NEW v \in Workers, MaterializeInsert(v)
      PROVE  k \in DOMAIN snapshot[w] /\ pc'[w] = pc[w]
  BY <1>0, <1>3 DEF MaterializeInsert, Goto
<1>4. ASSUME NEW v \in Workers, MaterializeScan(v)
      PROVE  v = w \/ (k \in DOMAIN snapshot[w] /\ pc'[w] = pc[w])
  <2>1. PICK rows : snapshot' = [snapshot EXCEPT ![v] = rows]
    BY <1>4 DEF MaterializeScan
  <2>2. pc' = [pc EXCEPT ![v] = "insert"]
    BY <1>4 DEF MaterializeScan, Goto
  <2> QED
    BY <1>0, <2>1, <2>2
<1>5. ASSUME NEW v \in Workers, CycleStep(v) \/ ProcessThrows(v) \/ AbortCycle(v),
             ~EndCycle(v), ~MaterializeInsert(v), ~MaterializeScan(v)
      PROVE  k \in DOMAIN snapshot[w] /\ pc'[w] = pc[w]
  <2>1. UNCHANGED snapshot
    BY <1>5 DEF CycleStep, ProcessThrows, AbortCycle, BeginCycle, RecoverScan, RecoverWrite,
       PromoteDueWaits, InsertRejected, RecordTick, ReapExpiredLeases, ClaimJob,
       ClaimNothing, ReadSwitch, ProcessDryRun, ProcessRelease, FailJob,
       ClaimDeliveries, SendDelivery, NextBatch, NothingToDeliver
  <2>2. pc[w] = "insert"
    BY <2>1 DEF SnapshotAwake
  <2>3. CASE v = w
    BY <1>5, <2>2, <2>3 DEF CycleStep, ProcessThrows, AbortCycle, BeginCycle, RecoverScan,
       RecoverWrite, PromoteDueWaits, InsertRejected, RecordTick, ReapExpiredLeases, ClaimJob,
       ClaimNothing, ReadSwitch, ProcessDryRun, ProcessRelease, FailJob,
       ClaimDeliveries, SendDelivery, NextBatch, NothingToDeliver
  <2>4. CASE v # w
    <3>1. pc' = pc \/ \E label : Goto(v, label)
      BY <1>5 DEF CycleStep, ProcessThrows, AbortCycle, BeginCycle, RecoverScan,
         RecoverWrite, PromoteDueWaits, InsertRejected, RecordTick, ReapExpiredLeases, ClaimJob,
         ClaimNothing, ReadSwitch, ProcessDryRun, ProcessRelease, FailJob, JobDone,
         ClaimDeliveries, SendDelivery, NextBatch, NothingToDeliver
    <3> QED
      BY <1>0, <2>1, <2>4, <3>1 DEF Goto
  <2> QED
    BY <2>3, <2>4
<1>6. Tick \/ (\E q \in Slots : Receive(q) \/ Commit(q)) \/ UNCHANGED vars => UNCHANGED <<snapshot, pc>>
  BY DEF Tick, Receive, Commit, CheckIn, Cancel, SetFixedDate, SetPanic, Arm, Disarm,
     PatchDryRun, DeleteSwitch, AcceptRecipient, RemoveRecipient, Reply, loops, vars
<1> QED
  BY <1>1, <1>2, <1>3, <1>4, <1>5, <1>6 DEF Next

LEMMA WaitInvInit == Init => WaitInv
<1>1. Init => SafetyInv
  BY SafetyInit
<1>2. Init => DeadlinesNear
  BY DurationsAssumption DEF Init, DeadlinesNear, ArmedSwitch
<1>3. Init => WaitsNear /\ SnapshotAwake
  BY DEF Init, WaitsNear, SnapshotAwake, NoRows
<1> QED
  BY <1>1, <1>2, <1>3 DEF WaitInv

\* Each part of the invariant survives a step.
LEMMA DeadlinesStep ==
  ASSUME WaitInv, [Next]_vars
  PROVE  DeadlinesNear'
<1>0. TypeInv /\ NowBounded
  BY DEF WaitInv, SafetyInv
<1>1. clock \in Nat /\ clock' \in Nat /\ clock <= clock' /\ Interval \in Nat
  BY <1>0, NowStep, DurationsAssumption DEF TypeInv, TypeOK
<1>2. ASSUME NEW s \in DOMAIN switches', switches'[s].nextDeadline # None
      PROVE  switches'[s].nextDeadline <= clock' + Interval
  <2>1. DeadlineMoves(s)
    BY <1>0, DeadlineLifecycle
  <2>2. s \in DOMAIN switches /\ switches[s].nextDeadline \in Nat \cup {None}
    BY <1>0, <2>1 DEF DeadlineMoves, TypeInv, TypeOK, TablesTyped, IsTable, Switch
  <2> QED
    BY <1>1, <1>2, <2>1, <2>2 DEF DeadlineMoves, WaitInv, DeadlinesNear
<1> QED
  BY <1>2 DEF DeadlinesNear

LEMMA WaitsStep ==
  ASSUME WaitInv, [Next]_vars
  PROVE  WaitsNear'
<1>0. TypeInv /\ NowBounded
  BY DEF WaitInv, SafetyInv
<1>1. /\ clock \in Nat /\ clock' \in Nat /\ clock <= clock'
      /\ Interval \in Nat /\ Grace \in Nat
  BY <1>0, NowStep, DurationsAssumption DEF TypeInv, TypeOK
<1>2. ASSUME NEW s \in Switches, waits'[s] # None
      PROVE  /\ waits'[s] <= clock' + Interval + Grace
             /\ s \in DOMAIN switches' /\ switches'[s].nextDeadline # None
                  => waits'[s] <= switches'[s].nextDeadline + Grace
  <2>0. waits[s] \in Nat \cup {None}
        /\ (s \in DOMAIN switches => switches[s].nextDeadline \in Nat \cup {None})
    BY <1>0 DEF TypeInv, TypeOK, TablesTyped, IsTable, Switch
  <2>1. WaitMoves(s)
    BY <1>0, WaitLifecycle
  <2>2. CASE waits'[s] = waits[s]
    <3>1. /\ waits[s] \in Nat /\ waits[s] <= clock + Interval + Grace
          /\ s \in DOMAIN switches /\ switches[s].nextDeadline # None
               => waits[s] <= switches[s].nextDeadline + Grace
      BY <1>2, <2>0, <2>2 DEF WaitInv, WaitsNear
    <3>2. ASSUME s \in DOMAIN switches' PROVE DeadlineMoves(s)
      BY <1>0, <3>2, DeadlineLifecycle
    <3> QED
      BY <1>1, <2>0, <2>2, <3>1, <3>2 DEF DeadlineMoves
  <2>3. CASE /\ \E w \in Workers : RecoverWrite(w)
             /\ s \in DOMAIN switches /\ switches[s].nextDeadline # None
             /\ waits'[s] = switches[s].nextDeadline + Grace
    <3>1. switches' = switches
      BY <2>3 DEF RecoverWrite
    <3>2. switches[s].nextDeadline \in Nat /\ switches[s].nextDeadline <= clock + Interval
      BY <2>0, <2>3 DEF WaitInv, DeadlinesNear
    <3> QED
      BY <1>1, <2>3, <3>1, <3>2
  <2> QED
    BY <1>2, <2>1, <2>2, <2>3 DEF WaitMoves
<1> QED
  BY <1>2 DEF WaitsNear

LEMMA AwakeStep ==
  ASSUME SingleLoop, WaitInv, [Next]_vars
  PROVE  SnapshotAwake'
<1>0. TypeInv
  BY DEF WaitInv, SafetyInv
<1>1. ASSUME NEW w \in Workers, NEW k \in DOMAIN snapshot'[w]
      PROVE  pc'[w] = "insert" /\ waits'[k[1]] = None
  <2>1. ASSUME NEW v \in Workers, v = w, MaterializeScan(v)
        PROVE  pc'[w] = "insert" /\ waits'[k[1]] = None
    <3>1. k \in {<<s, DueAt(s)>> : s \in DueSwitches(now[w])}
      BY <1>0, <2>1 DEF MaterializeScan, TypeInv, TypeOK, LoopsTyped
    <3>2. waits[k[1]] = None
      BY <3>1 DEF DueSwitches
    <3>3. pc'[w] = "insert" /\ waits' = waits
      BY <1>0, <2>1 DEF MaterializeScan, Goto, tables, TypeInv, TypeOK, LoopsTyped
    <3> QED
      BY <3>2, <3>3
  <2>2. CASE k \in DOMAIN snapshot[w] /\ pc'[w] = pc[w]
    <3>1. pc[w] = "insert" /\ waits[k[1]] = None
      BY <2>2 DEF WaitInv, SnapshotAwake
    <3>2. k[1] \in Switches
      BY <1>0, <2>2 DEF TypeInv, TypeOK, LoopsTyped, IsTable, JobKey
    <3>3. ~\E v \in Workers : RecoverWrite(v)
      BY <3>1 DEF SingleLoop, RecoverWrite
    <3> QED
      BY <1>0, <2>2, <3>1, <3>2, <3>3, WaitLifecycle DEF WaitMoves
  <2> QED
    BY <1>0, <1>1, <2>1, <2>2, SnapshotLifecycle DEF WaitInv
<1> QED
  BY <1>1 DEF SnapshotAwake

LEMMA WaitInvStep == SingleLoop /\ WaitInv /\ [Next]_vars => WaitInv'
BY SafetyStep, DeadlinesStep, WaitsStep, AwakeStep DEF WaitInv

\* Only the two inserts make a job, and each of a switch whose wait is over.
LEMMA NewJobsAwake ==
  ASSUME WaitInv, [Next]_vars, NEW k \in DOMAIN jobs' \ DOMAIN jobs, waits[k[1]] # None
  PROVE  waits[k[1]] <= clock + SkewBudget
<1>0. TypeInv /\ NowBounded
  BY DEF WaitInv, SafetyInv
<1>1. k \in JobKey /\ waits[k[1]] \in Nat
  <2>1. k \in JobKey
    BY <1>0, TypeStep DEF TypeInv, TypeOK, TablesTyped, IsTable
  <2> QED
    BY <1>0, <2>1 DEF JobKey, TypeInv, TypeOK, TablesTyped
<1>2. ASSUME NEW w \in Workers, RecoverWrite(w) PROVE waits[k[1]] <= clock + SkewBudget
  <2>1. k[1] \in DOMAIN switches /\ switches[k[1]].nextDeadline # None
        /\ ~(GraceEnd(k[1]) > now[w])
    BY <1>2 DEF RecoverWrite, InsertNew
  <2>2. switches[k[1]].nextDeadline \in Nat /\ now[w] \in Nat /\ clock \in Nat
        /\ Grace \in Nat /\ SkewBudget \in Nat
    BY <1>0, <2>1, DurationsAssumption
       DEF TypeInv, TypeOK, TablesTyped, LoopsTyped, IsTable, Switch
  <2>3. waits[k[1]] <= switches[k[1]].nextDeadline + Grace
    BY <1>1, <2>1 DEF WaitInv, WaitsNear, JobKey
  <2> QED
    BY <1>0, <1>1, <2>1, <2>2, <2>3 DEF GraceEnd, NowBounded
<1>3. ASSUME NEW w \in Workers, MaterializeInsert(w) PROVE FALSE
  BY <1>3 DEF MaterializeInsert, InsertNew, WaitInv, SnapshotAwake
<1>4. ASSUME NEW w \in Workers,
             \/ ReapExpiredLeases(w) \/ ClaimJob(w) \/ ProcessDryRun(w)
             \/ ProcessRelease(w) \/ FailJob(w)
      PROVE  DOMAIN jobs' = DOMAIN jobs
  BY <1>4 DEF ReapExpiredLeases, ClaimJob, ProcessDryRun, ProcessRelease, FailJob, Completed
<1>5. ASSUME NEW q \in Slots, Cancel(q) \/ DeleteSwitch(q)
      PROVE  DOMAIN jobs' \subseteq DOMAIN jobs
  BY <1>5 DEF Cancel, DeleteSwitch, WithoutOpenJobs, WithoutSwitch
<1> QED
  BY <1>2, <1>3, <1>4, <1>5, JobsUntouched

---------------------------------------------------------------------------
(* The theorems *)

\* trigger-engine.ts: whatever the interleaving of claims, retries, reaped
\* leases, cancellations, check-ins, deletes and crashes, a running job has an
\* owner and a lease for the reaper to find, and a pending one has no owner.
THEOREM LeasesAlwaysKept == Spec => []LeasesKept
<1>1. SafetyInv => LeasesKept
  BY DEF SafetyInv
<1> QED
  BY <1>1, Safety, PTL

\* claimJob and reapExpiredLeases: with any number of scheduler loops and any
\* lease, two of them work on the same job only after a lease has run out.
THEOREM LeaseAlwaysProtects == Spec => []LeaseProtects
<1>1. SafetyInv => LeaseProtects
  BY DEF SafetyInv
<1> QED
  BY <1>1, Safety, PTL

\* materializeDueTriggers, recoverFromOutage, failJob and claimJob: for every
\* ladder, grace, backoff and skew budget, no job is worked on before its time.
THEOREM NeverFiresEarly == Spec => []NeverEarly
<1>1. SafetyInv => NeverEarly
  BY DEF SafetyInv
<1> QED
  BY <1>1, Safety, PTL

\* materializeDueTriggers, recoverFromOutage and the cascades of DELETE: no job
\* and no wait outlives its switch or is written for one already deleted.
THEOREM NothingOrphaned == Spec => []NoOrphans
<1>1. SafetyInv => NoOrphans
  BY DEF SafetyInv, JobsRooted, WaitsRooted, NoOrphans
<1> QED
  BY <1>1, Safety, PTL

\* materializeDueTriggers, recoverFromOutage and promoteDueWaits: with one loop, for every
\* grace, interval and skew, no job is made for a switch before its wake-up time.
THEOREM WaitAlwaysHolds ==
  ASSUME SingleLoop PROVE Spec => WaitHolds
<1>1. WaitInv /\ [Next]_vars =>
        [\A k \in DOMAIN jobs' \ DOMAIN jobs :
           waits[k[1]] # None => waits[k[1]] <= clock + SkewBudget]_vars
  BY NewJobsAwake
<1>2. WaitInv /\ [Next]_vars => WaitInv'
  BY WaitInvStep
<1> QED
  BY <1>1, <1>2, WaitInvInit, PTL DEF Spec, WaitHolds

===========================================================================
