------------------------- MODULE ReleaseQueueProofs -------------------------
(***************************************************************************)
(* Deliveries, dead letters and final states for every value of the        *)
(* constants, and the refinement of TriggerQueue.  DeliveryLifecycle is to *)
(* delivery_jobs what RowLifecycle is to trigger_jobs; BatchLifecycle says *)
(* which deliveries a loop may have in hand.                               *)
(***************************************************************************)
EXTENDS ReleasePathProofs

---------------------------------------------------------------------------
(* What a step may do to a delivery *)

Unmoved(x) == deliveries'[x] = deliveries[x]

PickedUp(x) ==
  \E w \in Workers :
    /\ x \in DueDeliveries(now[w]) /\ x \in batch'[w]
    /\ deliveries'[x] = [deliveries[x] EXCEPT !.state = "running",
                                              !.attempts = deliveries[x].attempts + 1]

\* The loop that has it in hand lets go of it, with an outcome.
LetGo(x) ==
  \E w \in Workers :
    /\ x \in batch[w] /\ x \notin batch'[w]
    /\ deliveries'[x].createdAt = deliveries[x].createdAt
    /\ \/ deliveries'[x].state = "succeeded"
       \/ deliveries'[x].state = "pending"
       \/ deliveries'[x].state = "dead" /\ deadLetters' = WithLetter(x)
    /\ deliveries'[x].state # "dead" => deadLetters' = deadLetters

Recalled(x) ==
  /\ deliveries[x].state = "pending"
  /\ deliveries'[x] = [deliveries[x] EXCEPT !.state = "cancelled"]

\* processJob queues it for a recipient who accepted.
Queued(x) ==
  /\ deliveries'[x] = QueuedDelivery
  /\ x[3] \in Accepted(x[1])
  /\ \E w \in Workers : Working(w) /\ claim[w].key = JobOf(x)
  /\ DOMAIN jobs' = DOMAIN jobs

DeliveryStep(x) ==
  /\ x \in DOMAIN deliveries \cap DOMAIN deliveries' =>
       Unmoved(x) \/ PickedUp(x) \/ LetGo(x) \/ Recalled(x)
  /\ x \in DOMAIN deliveries' \ DOMAIN deliveries => Queued(x)
  /\ x \in DOMAIN deliveries \ DOMAIN deliveries' => x[1] \notin DOMAIN switches'
  /\ x \in DOMAIN deliveries' /\ x[1] \in DOMAIN switches => x[1] \in DOMAIN switches'

\* The steps that leave delivery_jobs alone.
LEMMA DeliveriesUntouched ==
  ASSUME [Next]_vars,
         \A w \in Workers : ~ProcessRelease(w) /\ ~ClaimDeliveries(w) /\ ~SendDelivery(w),
         \A q \in Slots : ~Cancel(q) /\ ~DeleteSwitch(q)
  PROVE  UNCHANGED deliveries
<1>1. ASSUME NEW w \in Workers, CycleStep(w) \/ ProcessThrows(w) \/ AbortCycle(w)
      PROVE  UNCHANGED deliveries
  BY <1>1 DEF CycleStep, ProcessThrows, AbortCycle, tables, BeginCycle, RecoverScan,
     RecoverWrite, PromoteDueWaits, MaterializeScan, MaterializeInsert, InsertRejected,
     RecordTick, ReapExpiredLeases, ClaimJob, ClaimNothing, ReadSwitch, ProcessDryRun,
     FailJob, NextBatch, NothingToDeliver
<1>2. ASSUME NEW q \in Slots, Receive(q) \/ Commit(q)
      PROVE  UNCHANGED deliveries
  BY <1>2 DEF Receive, tables, Commit, CheckIn, SetFixedDate, SetPanic, Arm, Disarm,
     PatchDryRun, AcceptRecipient, RemoveRecipient
<1>3. Tick \/ UNCHANGED vars => UNCHANGED deliveries
  BY DEF Tick, vars, tables
<1> QED
  BY <1>1, <1>2, <1>3 DEF Next

\* A provider's answer, recorded: one delivery is let go, the others stay.
LEMMA SentStep ==
  ASSUME TypeInv, NEW w \in Workers, SendDelivery(w), NEW x \in DeliveryKey
  PROVE  /\ DOMAIN deliveries' = DOMAIN deliveries
         /\ x \in DOMAIN deliveries => Unmoved(x) \/ LetGo(x)
<1>0. /\ IsTable(deliveries, DeliveryKey, Delivery)
      /\ batch \in [Workers -> SUBSET DeliveryKey]
  BY DEF TypeInv, TypeOK, TablesTyped, LoopsTyped
<1>1. PICK y \in batch[w] :
        /\ batch' = [batch EXCEPT ![w] = @ \ {y}]
        /\ \/ /\ deliveries' = Settled(y, "succeeded")
              /\ UNCHANGED deadLetters
           \/ /\ y \in DOMAIN deliveries
              /\ \E delay \in Backoffs :
                   deliveries' = [deliveries EXCEPT ![y].state = "pending",
                                                    ![y].availableAt = clock + delay]
              /\ UNCHANGED deadLetters
           \/ /\ deliveries' = Settled(y, "dead")
              /\ deadLetters' = WithLetter(y)
  BY DEF SendDelivery
<1>2. y \in batch[w] /\ y \notin batch'[w]
  BY <1>0, <1>1
<1>3. ASSUME NEW state \in {"succeeded", "dead"}, deliveries' = Settled(y, state)
      PROVE  /\ DOMAIN deliveries' = DOMAIN deliveries
             /\ x \in DOMAIN deliveries /\ x # y => Unmoved(x)
             /\ x \in DOMAIN deliveries /\ x = y =>
                  deliveries'[x].createdAt = deliveries[x].createdAt
                  /\ deliveries'[x].state = state
  BY <1>0, <1>3 DEF Settled, Unmoved, IsTable, Delivery
<1>4. ASSUME y \in DOMAIN deliveries, NEW delay \in Backoffs,
             deliveries' = [deliveries EXCEPT ![y].state = "pending",
                                              ![y].availableAt = clock + delay]
      PROVE  /\ DOMAIN deliveries' = DOMAIN deliveries
             /\ x \in DOMAIN deliveries /\ x # y => Unmoved(x)
             /\ x \in DOMAIN deliveries /\ x = y =>
                  deliveries'[x].createdAt = deliveries[x].createdAt
                  /\ deliveries'[x].state = "pending"
  BY <1>0, <1>4 DEF Unmoved, IsTable, Delivery
<1> QED
  BY <1>1, <1>2, <1>3, <1>4 DEF LetGo

\* A delivery is queued, picked up, let go, recalled or deleted with its switch.
LEMMA DeliveryLifecycle ==
  ASSUME TypeInv, [Next]_vars, NEW x \in DeliveryKey
  PROVE  DeliveryStep(x)
<1>0. /\ IsTable(deliveries, DeliveryKey, Delivery) /\ IsTable(jobs, JobKey, Job)
      /\ batch \in [Workers -> SUBSET DeliveryKey]
  BY DEF TypeInv, TypeOK, TablesTyped, LoopsTyped
<1>1. (\A q \in Slots : ~DeleteSwitch(q)) => DOMAIN switches' = DOMAIN switches
  BY SwitchDomain
<1>2. CASE UNCHANGED deliveries /\ DOMAIN switches' = DOMAIN switches
  BY <1>2 DEF DeliveryStep, Unmoved
<1>3. ASSUME NEW w \in Workers, ProcessRelease(w), \A q \in Slots : ~DeleteSwitch(q)
      PROVE  DeliveryStep(x)
  <2> DEFINE k == claim[w].key
             added == {<<k[1], k[2], r>> : r \in Accepted(k[1])}
  <2>1. /\ deliveries' = InsertNew(deliveries, [y \in added |-> QueuedDelivery])
        /\ jobs' = Completed(k, w) /\ Working(w)
    BY <1>3 DEF ProcessRelease, Working
  <2>2. k \in JobKey
    BY <2>1 DEF TypeInv, TypeOK, LoopsTyped, ClaimHeld, Claim
  <2>3. DOMAIN jobs' = DOMAIN jobs
    BY <1>0, <2>1 DEF Completed, IsTable
  <2>4. x \in added => x[3] \in Accepted(x[1]) /\ k = JobOf(x)
    BY <2>2 DEF JobOf, JobKey
  <2> HIDE DEF added
  <2>5. /\ DOMAIN deliveries' = DOMAIN deliveries \cup added
        /\ x \in DOMAIN deliveries => deliveries'[x] = deliveries[x]
        /\ x \in added \ DOMAIN deliveries => deliveries'[x] = QueuedDelivery
    BY <2>1 DEF InsertNew
  <2> QED
    BY <1>1, <1>3, <2>1, <2>3, <2>4, <2>5 DEF DeliveryStep, Unmoved, Queued
<1>4. ASSUME NEW w \in Workers, ClaimDeliveries(w), \A q \in Slots : ~DeleteSwitch(q)
      PROVE  DeliveryStep(x)
  <2>1. PICK picked \in OldestOf(DueDeliveries(now[w])) :
          /\ deliveries' = [y \in DOMAIN deliveries |->
               IF y \in picked
               THEN [deliveries[y] EXCEPT !.state = "running", !.attempts = @ + 1]
               ELSE deliveries[y]]
          /\ batch' = [batch EXCEPT ![w] = picked]
    BY <1>4 DEF ClaimDeliveries
  <2>2. picked \subseteq DueDeliveries(now[w]) /\ batch'[w] = picked
    BY <1>0, <2>1 DEF OldestOf
  <2>3. /\ DOMAIN deliveries' = DOMAIN deliveries
        /\ x \in DOMAIN deliveries \ picked => deliveries'[x] = deliveries[x]
        /\ x \in DOMAIN deliveries \cap picked =>
             deliveries'[x] = [deliveries[x] EXCEPT !.state = "running",
                                                    !.attempts = deliveries[x].attempts + 1]
    BY <2>1
  <2> QED
    BY <1>1, <1>4, <2>2, <2>3 DEF DeliveryStep, Unmoved, PickedUp
<1>5. ASSUME NEW w \in Workers, SendDelivery(w), \A q \in Slots : ~DeleteSwitch(q)
      PROVE  DeliveryStep(x)
  BY <1>1, <1>5, SentStep DEF DeliveryStep
<1>6. ASSUME NEW q \in Slots, Cancel(q), \A p \in Slots : ~DeleteSwitch(p)
      PROVE  DeliveryStep(x)
  BY <1>1, <1>6 DEF Cancel, WithoutQueuedDeliveries, DeliveryStep, Unmoved, Recalled
<1>7. ASSUME NEW q \in Slots, DeleteSwitch(q) PROVE DeliveryStep(x)
  BY <1>7 DEF DeleteSwitch, WithoutSwitch, DeliveryStep, Unmoved
<1> QED
  BY <1>1, <1>2, <1>3, <1>4, <1>5, <1>6, <1>7, DeliveriesUntouched

---------------------------------------------------------------------------
(* What a step may do to the deliveries a loop has in hand *)

\* deliverPendingDeliveries: nobody else's hand changes when a loop picks up a batch.
PicksUp(w) ==
  /\ batch'[w] \subseteq DueDeliveries(now[w])
  /\ \A x \in batch'[w] : x \in DOMAIN deliveries' /\ deliveries'[x].state = "running"
  /\ \A v \in Workers \ {w} : batch'[v] = batch[v]
  /\ deadLetters' = deadLetters

LEMMA BatchLifecycle ==
  ASSUME TypeInv, [Next]_vars
  PROVE  \/ \A w \in Workers : batch'[w] \subseteq batch[w]
         \/ \E w \in Workers : PicksUp(w)
<1>0. batch \in [Workers -> SUBSET DeliveryKey] /\ IsTable(deliveries, DeliveryKey, Delivery)
  BY DEF TypeInv, TypeOK, TablesTyped, LoopsTyped
<1>1. ASSUME NEW w \in Workers, ClaimDeliveries(w) PROVE PicksUp(w)
  <2>1. PICK picked \in OldestOf(DueDeliveries(now[w])) :
          /\ deliveries' = [y \in DOMAIN deliveries |->
               IF y \in picked
               THEN [deliveries[y] EXCEPT !.state = "running", !.attempts = @ + 1]
               ELSE deliveries[y]]
          /\ batch' = [batch EXCEPT ![w] = picked]
    BY <1>1 DEF ClaimDeliveries
  <2>2. /\ picked \subseteq DueDeliveries(now[w]) /\ batch'[w] = picked
        /\ \A v \in Workers \ {w} : batch'[v] = batch[v]
    BY <1>0, <2>1 DEF OldestOf
  <2>3. picked \subseteq DOMAIN deliveries
    BY <2>2 DEF DueDeliveries
  <2>4. \A x \in picked : x \in DOMAIN deliveries' /\ deliveries'[x].state = "running"
    BY <1>0, <2>1, <2>3 DEF IsTable, Delivery
  <2> QED
    BY <1>1, <2>2, <2>4 DEF PicksUp, ClaimDeliveries
<1>2. ASSUME NEW w \in Workers, CycleStep(w) \/ ProcessThrows(w) \/ AbortCycle(w),
             ~ClaimDeliveries(w)
      PROVE  \A v \in Workers : batch'[v] \subseteq batch[v]
  <2>1. batch' = batch \/ \E rest : rest \subseteq batch[w] /\ batch' = [batch EXCEPT ![w] = rest]
    BY <1>2 DEF CycleStep, ProcessThrows, AbortCycle, EndCycle, BeginCycle, RecoverScan,
       RecoverWrite, PromoteDueWaits, MaterializeScan, MaterializeInsert, InsertRejected,
       RecordTick, ReapExpiredLeases, ClaimJob, ClaimNothing, ReadSwitch, ProcessDryRun,
       ProcessRelease, FailJob, SendDelivery, NextBatch, NothingToDeliver
  <2> QED
    BY <1>0, <2>1
<1>3. Tick \/ (\E q \in Slots : Receive(q) \/ Commit(q)) \/ UNCHANGED vars
        => UNCHANGED batch
  BY DEF Tick, Receive, Commit, CheckIn, Cancel, SetFixedDate, SetPanic, Arm, Disarm,
     PatchDryRun, DeleteSwitch, AcceptRecipient, RemoveRecipient, Reply, loops, vars
<1> QED
  BY <1>1, <1>2, <1>3 DEF Next

---------------------------------------------------------------------------
(* What a step may do to dead_letter_jobs *)

\* failJob writes a letter with the row it buries, the dispatcher for a delivery in hand.
Buried(k) ==
  /\ k \in DOMAIN jobs /\ jobs[k].state = "running"
  /\ k \in DOMAIN jobs' /\ jobs'[k].state = "dead"

Refused(x) ==
  /\ \E w \in Workers : x \in batch[w] /\ x \notin batch'[w]
  /\ DOMAIN deliveries' = DOMAIN deliveries
  /\ x \in DOMAIN deliveries => deliveries'[x].state = "dead"

LEMMA LetterLifecycle ==
  ASSUME TypeInv, [Next]_vars
  PROVE  \/ deadLetters' = deadLetters
         \/ \E y : deadLetters' = WithLetter(y) /\ (Buried(y) \/ Refused(y))
<1>0. /\ batch \in [Workers -> SUBSET DeliveryKey]
      /\ IsTable(deliveries, DeliveryKey, Delivery) /\ IsTable(jobs, JobKey, Job)
  BY DEF TypeInv, TypeOK, TablesTyped, LoopsTyped
<1>1. ASSUME NEW w \in Workers, FailJob(w), deadLetters' # deadLetters
      PROVE  \E y : deadLetters' = WithLetter(y) /\ Buried(y)
  <2> DEFINE k == claim[w].key
  <2>1. /\ OwnedBy(k, w) /\ deadLetters' = WithLetter(k)
        /\ jobs' = [jobs EXCEPT ![k].state = "dead", ![k].leaseExpires = None]
    BY <1>1 DEF FailJob
  <2>2. k \in DOMAIN jobs /\ jobs[k] \in Job /\ jobs[k].state = "running"
    BY <1>0, <2>1 DEF OwnedBy, IsTable
  <2>3. k \in DOMAIN jobs' /\ jobs'[k].state = "dead"
    BY <1>0, <2>1, <2>2 DEF IsTable, Job
  <2> QED
    BY <2>1, <2>2, <2>3 DEF Buried
<1>2. ASSUME NEW w \in Workers, SendDelivery(w), deadLetters' # deadLetters
      PROVE  \E y : deadLetters' = WithLetter(y) /\ Refused(y)
  <2>1. PICK y \in batch[w] :
          /\ batch' = [batch EXCEPT ![w] = @ \ {y}]
          /\ deliveries' = Settled(y, "dead") /\ deadLetters' = WithLetter(y)
    BY <1>2 DEF SendDelivery
  <2>2. y \in batch[w] /\ y \notin batch'[w]
    BY <1>0, <2>1
  <2>3. /\ DOMAIN deliveries' = DOMAIN deliveries
        /\ y \in DOMAIN deliveries => deliveries'[y].state = "dead"
    BY <1>0, <2>1 DEF Settled, IsTable, Delivery
  <2> QED
    BY <2>1, <2>2, <2>3 DEF Refused
<1>3. ASSUME NEW w \in Workers, CycleStep(w) \/ ProcessThrows(w) \/ AbortCycle(w),
             ~FailJob(w), ~SendDelivery(w)
      PROVE  deadLetters' = deadLetters
  BY <1>3 DEF CycleStep, ProcessThrows, AbortCycle, tables, BeginCycle, RecoverScan,
     RecoverWrite, PromoteDueWaits, MaterializeScan, MaterializeInsert, InsertRejected,
     RecordTick, ReapExpiredLeases, ClaimJob, ClaimNothing, ReadSwitch, ProcessDryRun,
     ProcessRelease, ClaimDeliveries, NextBatch, NothingToDeliver
<1>4. Tick \/ (\E q \in Slots : Receive(q) \/ Commit(q)) \/ UNCHANGED vars
        => deadLetters' = deadLetters
  BY DEF Tick, Receive, Commit, CheckIn, Cancel, SetFixedDate, SetPanic, Arm, Disarm,
     PatchDryRun, DeleteSwitch, AcceptRecipient, RemoveRecipient, tables, vars
<1> QED
  BY <1>1, <1>2, <1>3, <1>4 DEF Next

---------------------------------------------------------------------------
(* The inductive invariant *)

\* DELETE takes the recipients with the switch, and nobody accepts afterwards.
RecipientsOver ==
  \A s \in Switches : s \notin DOMAIN switches =>
    \A r \in Recipients : recipients[s][r] = "gone"

\* A delivery stems from a job.
DeliveriesRooted == \A x \in DOMAIN deliveries : JobOf(x) \in DOMAIN jobs

\* What a loop has in hand is running, or is gone for good with its switch, and has
\* no letter.
BatchRunning ==
  \A w \in Workers : \A x \in batch[w] :
    /\ IF x \in DOMAIN deliveries
       THEN deliveries[x].state = "running"
       ELSE x[1] \notin DOMAIN switches
    /\ x \notin DOMAIN deadLetters

BatchesApart ==
  \A v, w \in Workers : \A x \in batch[v] \cap batch[w] : v = w

\* A letter whose row is gone is one of a deleted switch, so that no new row meets it.
LettersRooted ==
  \A y \in DOMAIN deadLetters :
    y[1] \in DOMAIN switches => y \in DOMAIN jobs \cup DOMAIN deliveries

\* available_at respects the window, or the window has passed (after a retry).
DeliveryTimes ==
  \A x \in DOMAIN deliveries :
    \/ deliveries[x].createdAt + CancelWindow <= deliveries[x].availableAt
    \/ deliveries[x].createdAt + CancelWindow <= clock + SkewBudget

DispatchInv ==
  /\ SafetyInv
  /\ RecipientsOver /\ DeliveriesRooted /\ BatchRunning /\ BatchesApart
  /\ LettersRooted /\ DeliveryTimes
  /\ WindowHonoured /\ DeadLetterExact

LEMMA DispatchInit == Init => DispatchInv
<1> SUFFICES ASSUME Init PROVE DispatchInv
  OBVIOUS
<1>1. SafetyInv
  BY SafetyInit
<1>2. DOMAIN NoRows = {}
  BY DEF NoRows
<1>3. DOMAIN jobs = {} /\ DOMAIN deliveries = {} /\ DOMAIN deadLetters = {}
      /\ DOMAIN switches = Switches /\ batch = [w \in Workers |-> {}]
  BY <1>2 DEF Init
<1> QED
  BY <1>1, <1>3 DEF DispatchInv, RecipientsOver, DeliveriesRooted, BatchRunning,
     BatchesApart, LettersRooted, DeliveryTimes, WindowHonoured, DeadLetterExact

---------------------------------------------------------------------------
(* Every step keeps it *)

\* Keys of jobs are pairs, keys of deliveries triples.
LEMMA KeysApart == ASSUME NEW k \in JobKey, NEW x \in DeliveryKey PROVE k # x
BY DEF JobKey, DeliveryKey

LEMMA JobOfKey ==
  ASSUME NEW x \in DeliveryKey
  PROVE  JobOf(x) \in JobKey /\ JobOf(x)[1] = x[1] /\ x[1] \in Switches
BY DEF JobOf, JobKey, DeliveryKey

\* acceptRecipient finds nobody left to invite once the switch is deleted.
LEMMA RecipientsStep ==
  ASSUME TypeInv, RecipientsOver, [Next]_vars
  PROVE  RecipientsOver'
<1>0. recipients \in [Switches -> [Recipients -> {"invited", "accepted", "gone"}]]
      /\ requests \in [Slots -> Request \cup {None}]
  BY DEF TypeInv, TypeOK, TablesTyped
<1>1. DOMAIN switches' \subseteq DOMAIN switches
      /\ ((\A q \in Slots : ~DeleteSwitch(q)) => DOMAIN switches' = DOMAIN switches)
  BY SwitchDomain
<1>2. ASSUME NEW q \in Slots, DeleteSwitch(q) PROVE RecipientsOver'
  <2>1. requests[q].switch \in Switches
    BY <1>0, <1>2 DEF DeleteSwitch, Asks, Request
  <2> QED
    BY <1>0, <1>2, <2>1 DEF DeleteSwitch, RecipientsOver
<1>3. ASSUME \A s \in Switches : \A r \in Recipients :
               recipients[s][r] = "gone" => recipients'[s][r] = "gone",
             \A q \in Slots : ~DeleteSwitch(q)
      PROVE  RecipientsOver'
  BY <1>1, <1>3 DEF RecipientsOver
<1>4. ASSUME NEW q \in Slots, AcceptRecipient(q) \/ RemoveRecipient(q)
      PROVE  \A s \in Switches : \A r \in Recipients :
               recipients[s][r] = "gone" => recipients'[s][r] = "gone"
  <2>1. requests[q].switch \in Switches
    BY <1>0, <1>4 DEF AcceptRecipient, RemoveRecipient, Asks, Request
  <2>2. PICK r \in Recipients :
          \E status : /\ recipients' = [recipients EXCEPT ![requests[q].switch][r] = status]
                      /\ recipients[requests[q].switch][r] = "gone" => status = "gone"
    BY <1>4 DEF AcceptRecipient, RemoveRecipient
  <2> QED
    BY <1>0, <2>1, <2>2
<1>5. ASSUME NEW w \in Workers, CycleStep(w) \/ ProcessThrows(w) \/ AbortCycle(w)
      PROVE  UNCHANGED recipients
  BY <1>5 DEF CycleStep, ProcessThrows, AbortCycle, tables, BeginCycle, RecoverScan,
     RecoverWrite, PromoteDueWaits, MaterializeScan, MaterializeInsert, InsertRejected,
     RecordTick, ReapExpiredLeases, ClaimJob, ClaimNothing, ReadSwitch, ProcessDryRun,
     ProcessRelease, FailJob, ClaimDeliveries, SendDelivery, NextBatch, NothingToDeliver
<1>6. ASSUME NEW q \in Slots, Receive(q) \/ Commit(q), ~DeleteSwitch(q),
             ~AcceptRecipient(q), ~RemoveRecipient(q)
      PROVE  UNCHANGED recipients
  BY <1>6 DEF Receive, tables, Commit, CheckIn, Cancel, SetFixedDate, SetPanic, Arm,
     Disarm, PatchDryRun
<1>7. Tick \/ UNCHANGED vars => UNCHANGED recipients
  BY DEF Tick, vars, tables
<1> QED
  BY <1>2, <1>3, <1>4, <1>5, <1>6, <1>7 DEF Next

\* A delivery is queued only for a switch, and with a job, that is there.
LEMMA QueuedRooted ==
  ASSUME DispatchInv, [Next]_vars, NEW x \in DeliveryKey, Queued(x)
  PROVE  /\ x[1] \in DOMAIN switches
         /\ JobOf(x) \in DOMAIN jobs /\ JobOf(x) \in DOMAIN jobs'
<1>1. x[1] \in Switches /\ JobOf(x)[1] = x[1]
  BY JobOfKey
<1>2. x[1] \in DOMAIN switches
  BY <1>1 DEF DispatchInv, RecipientsOver, Queued, Accepted
<1>3. JobOf(x) \in DOMAIN jobs
  BY <1>1, <1>2 DEF Queued, DispatchInv, SafetyInv, ClaimSound
<1> QED
  BY <1>2, <1>3 DEF Queued

LEMMA DeliveriesRootedStep ==
  ASSUME DispatchInv, [Next]_vars
  PROVE  DeliveriesRooted'
<1> SUFFICES ASSUME NEW x \in DOMAIN deliveries' PROVE JobOf(x) \in DOMAIN jobs'
  BY DEF DeliveriesRooted, JobOf
<1>1. TypeInv /\ TypeInv'
  BY TypeStep DEF DispatchInv, SafetyInv
<1>2. x \in DeliveryKey
  BY <1>1 DEF TypeInv, TypeOK, TablesTyped, IsTable
<1>3. DeliveryStep(x) /\ RowStep(JobOf(x)) /\ JobOf(x)[1] = x[1]
  BY <1>1, <1>2, DeliveryLifecycle, RowLifecycle, JobOfKey
<1>4. CASE x \in DOMAIN deliveries
  BY <1>2, <1>3, <1>4
     DEF DispatchInv, DeliveriesRooted, SafetyInv, JobsRooted, RowStep, DeliveryStep
<1>5. CASE x \notin DOMAIN deliveries
  BY <1>2, <1>3, <1>5, QueuedRooted DEF DeliveryStep
<1> QED
  BY <1>4, <1>5

\* Two loops never have the same delivery in hand: what one has is not pending.
LEMMA BatchesApartStep ==
  ASSUME DispatchInv, [Next]_vars
  PROVE  BatchesApart'
<1> SUFFICES ASSUME NEW v \in Workers, NEW w \in Workers, NEW x \in batch'[v] \cap batch'[w]
             PROVE  v = w
  BY DEF BatchesApart
<1>1. CASE \A u \in Workers : batch'[u] \subseteq batch[u]
  BY <1>1 DEF DispatchInv, BatchesApart
<1>2. ASSUME NEW u \in Workers, PicksUp(u) PROVE v = w
  <2>1. \A z \in Workers \ {u} : x \in batch'[z] => x \notin batch'[u]
    BY <1>2 DEF PicksUp, DueDeliveries, DispatchInv, BatchRunning
  <2>2. \A z \in Workers \ {u} : batch'[z] = batch[z]
    BY <1>2 DEF PicksUp
  <2> QED
    BY <2>1, <2>2 DEF DispatchInv, BatchesApart
<1> QED
  BY <1>1, <1>2, BatchLifecycle DEF DispatchInv, SafetyInv

\* The letter a step writes, if any, is the first for its row.
LEMMA LetterNew ==
  ASSUME DispatchInv, [Next]_vars
  PROVE  /\ DOMAIN deadLetters \subseteq DOMAIN deadLetters'
         /\ \A y \in DOMAIN deadLetters' :
              /\ deadLetters'[y] = 1
              /\ y \in DOMAIN deadLetters \/ Buried(y) \/ Refused(y)
<1>1. \A y \in DOMAIN deadLetters : deadLetters[y] = 1
  BY DEF DispatchInv, DeadLetterExact
<1>2. CASE deadLetters' = deadLetters
  BY <1>1, <1>2
<1>3. ASSUME NEW y, deadLetters' = WithLetter(y), Buried(y) \/ Refused(y)
      PROVE  /\ DOMAIN deadLetters' = DOMAIN deadLetters \cup {y}
             /\ \A z \in DOMAIN deadLetters' : deadLetters'[z] = 1
  <2>1. y \notin DOMAIN deadLetters
    BY <1>3 DEF Buried, Refused, DispatchInv, DeadLetterExact, BatchRunning
  <2> QED
    BY <1>1, <1>3, <2>1 DEF WithLetter, LetterCount
<1>4. TypeInv
  BY DEF DispatchInv, SafetyInv
<1>5. CASE \E y : deadLetters' = WithLetter(y) /\ (Buried(y) \/ Refused(y))
  <2>1. PICK y : deadLetters' = WithLetter(y) /\ (Buried(y) \/ Refused(y))
    BY <1>5
  <2>2. /\ DOMAIN deadLetters' = DOMAIN deadLetters \cup {y}
        /\ \A z \in DOMAIN deadLetters' : deadLetters'[z] = 1
    BY <1>3, <2>1
  <2> QED
    BY <2>1, <2>2
<1> QED
  BY <1>2, <1>4, <1>5, LetterLifecycle

\* What stays in hand is settled by nobody else; what is picked up was pending, and
\* so had no letter.
LEMMA BatchRunningStep ==
  ASSUME DispatchInv, [Next]_vars
  PROVE  BatchRunning'
<1> SUFFICES ASSUME NEW w \in Workers, NEW x \in batch'[w]
             PROVE  /\ IF x \in DOMAIN deliveries'
                       THEN deliveries'[x].state = "running"
                       ELSE x[1] \notin DOMAIN switches'
                    /\ x \notin DOMAIN deadLetters'
  BY DEF BatchRunning
<1>1. TypeInv /\ TypeInv'
  BY TypeStep DEF DispatchInv, SafetyInv
<1>2. x \in DeliveryKey
  BY <1>1 DEF TypeInv, TypeOK, LoopsTyped
<1>3. DeliveryStep(x) /\ DOMAIN switches' \subseteq DOMAIN switches
  BY <1>1, <1>2, DeliveryLifecycle, SwitchDomain
<1>4. ASSUME NEW u \in Workers, PicksUp(u), x \in batch'[u]
      PROVE  /\ x \in DOMAIN deliveries' /\ deliveries'[x].state = "running"
             /\ x \notin DOMAIN deadLetters'
  BY <1>4 DEF PicksUp, DueDeliveries, DispatchInv, DeadLetterExact
<1>5. CASE x \in batch[w]
  <2>1. \A v \in Workers : x \in batch[v] => v = w
    BY <1>5 DEF DispatchInv, BatchesApart
  <2>2. ~LetGo(x) /\ ~Refused(x)
    BY <2>1 DEF LetGo, Refused
  <2>3. x \in DOMAIN deliveries => deliveries[x].state = "running"
    BY <1>5 DEF DispatchInv, BatchRunning
  <2>4. ~(x \in DOMAIN deliveries /\ PickedUp(x)) /\ ~(x \in DOMAIN deliveries /\ Recalled(x))
    BY <2>3 DEF PickedUp, DueDeliveries, Recalled
  <2>5. x \notin DOMAIN deadLetters'
    <3>1. ~Buried(x)
      BY <1>1, <1>2, KeysApart DEF Buried, TypeInv, TypeOK, TablesTyped, IsTable
    <3>2. x \notin DOMAIN deadLetters
      BY <1>5 DEF DispatchInv, BatchRunning
    <3> QED
      BY <2>2, <3>1, <3>2, LetterNew
  <2>6. CASE x \in DOMAIN deliveries
    BY <1>3, <2>2, <2>3, <2>4, <2>5, <2>6 DEF DeliveryStep, Unmoved
  <2>7. CASE x \notin DOMAIN deliveries
    <3>1. x[1] \notin DOMAIN switches
      BY <1>5, <2>7 DEF DispatchInv, BatchRunning
    <3>2. x \notin DOMAIN deliveries'
      BY <1>2, <1>3, <2>7, <3>1, QueuedRooted DEF DeliveryStep
    <3> QED
      BY <1>3, <2>5, <3>1, <3>2
  <2> QED
    BY <2>6, <2>7
<1>6. CASE x \notin batch[w]
  <2>1. PICK u \in Workers : PicksUp(u)
    BY <1>1, <1>6, BatchLifecycle
  <2>2. u = w
    BY <1>6, <2>1 DEF PicksUp
  <2> QED
    BY <1>4, <2>1, <2>2
<1> QED
  BY <1>5, <1>6

\* A letter keeps its row, or outlives its switch.
LEMMA LettersRootedStep ==
  ASSUME DispatchInv, [Next]_vars
  PROVE  LettersRooted'
<1> SUFFICES ASSUME NEW y \in DOMAIN deadLetters', y[1] \in DOMAIN switches'
             PROVE  y \in DOMAIN jobs' \cup DOMAIN deliveries'
  BY DEF LettersRooted
<1>1. TypeInv /\ DOMAIN switches' \subseteq DOMAIN switches
  BY SwitchDomain DEF DispatchInv, SafetyInv
<1>2. y[1] \in DOMAIN switches
  BY <1>1
<1>3. y \in DOMAIN jobs => y \in DOMAIN jobs'
  <2>1. y \in DOMAIN jobs => RowStep(y)
    BY <1>1, RowLifecycle DEF TypeInv, TypeOK, TablesTyped, IsTable
  <2> QED
    BY <2>1 DEF RowStep
<1>4. y \in DOMAIN deliveries => y \in DOMAIN deliveries'
  <2>1. y \in DOMAIN deliveries => DeliveryStep(y)
    BY <1>1, DeliveryLifecycle DEF TypeInv, TypeOK, TablesTyped, IsTable
  <2> QED
    BY <2>1 DEF DeliveryStep
<1>5. CASE y \in DOMAIN deadLetters
  BY <1>2, <1>3, <1>4, <1>5 DEF DispatchInv, LettersRooted
<1>6. CASE y \notin DOMAIN deadLetters
  <2>1. Buried(y) \/ Refused(y)
    BY <1>6, LetterNew
  <2>2. Refused(y) => y \in DOMAIN deliveries
    BY <1>2 DEF Refused, DispatchInv, BatchRunning
  <2> QED
    BY <1>3, <1>4, <2>1, <2>2 DEF Buried
<1> QED
  BY <1>5, <1>6

\* A row is dead exactly with its letter, and with one.
LEMMA DeadLetterStep ==
  ASSUME DispatchInv, [Next]_vars
  PROVE  DeadLetterExact'
<1>1. TypeInv /\ TypeInv'
  BY TypeStep DEF DispatchInv, SafetyInv
<1>2. /\ DOMAIN deadLetters \subseteq DOMAIN deadLetters'
      /\ \A y \in DOMAIN deadLetters' :
           /\ deadLetters'[y] = 1
           /\ y \in DOMAIN deadLetters \/ Buried(y) \/ Refused(y)
  BY LetterNew
<1>3. ASSUME NEW k \in DOMAIN jobs'
      PROVE  jobs'[k].state = "dead" <=> k \in DOMAIN deadLetters'
  <2>1. k \in JobKey /\ RowStep(k)
    BY <1>1, <1>3, RowLifecycle DEF TypeInv, TypeOK, TablesTyped, IsTable
  <2>2. ~Refused(k)
    BY <1>1, <2>1, KeysApart DEF Refused, TypeInv, TypeOK, LoopsTyped
  <2>3. k \in DOMAIN deadLetters' \ DOMAIN deadLetters => jobs'[k].state = "dead"
    BY <1>2, <2>2 DEF Buried
  <2>4. CASE k \in DOMAIN jobs
    <3>1. jobs[k] \in Job /\ (jobs[k].state = "dead" <=> k \in DOMAIN deadLetters)
      BY <1>1, <2>4 DEF DispatchInv, DeadLetterExact, TypeInv, TypeOK, TablesTyped, IsTable
    <3>2. CASE Kept(k)
      BY <1>2, <2>3, <3>1, <3>2 DEF Kept
    <3>3. CASE Ended(k)
      <4>1. jobs[k].state = "running"
        BY <3>3 DEF Ended, OwnedBy
      <4>2. jobs'[k].state = "dead" => k \in DOMAIN deadLetters'
        BY <3>3 DEF Ended, WithLetter
      <4> QED
        BY <2>3, <3>1, <4>1, <4>2
    <3>4. CASE Reaped(k) \/ Taken(k) \/ Retried(k) \/ Withdrawn(k)
      <4>1. jobs[k].state # "dead" /\ jobs'[k].state # "dead"
        BY <3>1, <3>4 DEF Reaped, LeaseOver, Taken, ClaimableJobs, Claimed, Retried,
           OwnedBy, Requeued, Withdrawn, OpenStates, Job
      <4> QED
        BY <2>3, <3>1, <4>1
    <3> QED
      BY <1>3, <2>1, <2>4, <3>2, <3>3, <3>4 DEF RowStep
  <2>5. CASE k \notin DOMAIN jobs
    <3>1. Inserted(k)
      BY <1>3, <2>1, <2>5 DEF RowStep
    <3>2. jobs'[k].state = "pending"
      BY <3>1 DEF Inserted, DispatchInv, SafetyInv, SnapshotFresh, PendingJob
    <3>3. k[1] \in DOMAIN switches
      BY <1>1, <3>1, SwitchDomain DEF Inserted
    <3>4. k \notin DOMAIN deliveries
      BY <1>1, <2>1, KeysApart DEF TypeInv, TypeOK, TablesTyped, IsTable
    <3>5. k \notin DOMAIN deadLetters
      BY <2>5, <3>3, <3>4 DEF DispatchInv, LettersRooted
    <3> QED
      BY <2>3, <3>2, <3>5
  <2> QED
    BY <2>4, <2>5
<1>4. ASSUME NEW x \in DOMAIN deliveries'
      PROVE  deliveries'[x].state = "dead" <=> x \in DOMAIN deadLetters'
  <2>1. x \in DeliveryKey /\ DeliveryStep(x)
    BY <1>1, <1>4, DeliveryLifecycle DEF TypeInv, TypeOK, TablesTyped, IsTable
  <2>2. ~Buried(x)
    BY <1>1, <2>1, KeysApart DEF Buried, TypeInv, TypeOK, TablesTyped, IsTable
  <2>3. x \in DOMAIN deadLetters' \ DOMAIN deadLetters =>
          x \in DOMAIN deliveries /\ deliveries'[x].state = "dead"
    BY <1>2, <1>4, <2>2 DEF Refused
  <2>4. CASE x \in DOMAIN deliveries
    <3>1. /\ deliveries[x] \in Delivery
          /\ deliveries[x].state = "dead" <=> x \in DOMAIN deadLetters
      BY <1>1, <2>4 DEF DispatchInv, DeadLetterExact, TypeInv, TypeOK, TablesTyped, IsTable
    <3>2. CASE Unmoved(x)
      BY <1>2, <2>3, <3>1, <3>2 DEF Unmoved
    <3>3. CASE LetGo(x)
      <4>1. x \notin DOMAIN deadLetters
        BY <3>3 DEF LetGo, DispatchInv, BatchRunning
      <4>2. deliveries'[x].state = "dead" => x \in DOMAIN deadLetters'
        BY <3>3 DEF LetGo, WithLetter
      <4> QED
        BY <2>3, <4>1, <4>2
    <3>4. CASE PickedUp(x) \/ Recalled(x)
      <4>1. deliveries[x].state # "dead" /\ deliveries'[x].state # "dead"
        BY <3>1, <3>4 DEF PickedUp, DueDeliveries, Recalled, Delivery
      <4> QED
        BY <2>3, <3>1, <4>1
    <3> QED
      BY <1>4, <2>1, <2>4, <3>2, <3>3, <3>4 DEF DeliveryStep
  <2>5. CASE x \notin DOMAIN deliveries
    <3>1. Queued(x)
      BY <1>4, <2>1, <2>5 DEF DeliveryStep
    <3>2. deliveries'[x].state = "pending" /\ x[1] \in DOMAIN switches
      BY <2>1, <3>1, QueuedRooted DEF Queued, QueuedDelivery
    <3>3. x \notin DOMAIN jobs
      BY <1>1, <2>1, KeysApart DEF TypeInv, TypeOK, TablesTyped, IsTable
    <3>4. x \notin DOMAIN deadLetters
      BY <2>5, <3>2, <3>3 DEF DispatchInv, LettersRooted
    <3> QED
      BY <2>3, <2>5, <3>2, <3>4
  <2> QED
    BY <2>4, <2>5
<1>5. \A y \in DOMAIN deadLetters' : deadLetters'[y] = 1
  BY <1>2
<1> QED
  BY <1>3, <1>4, <1>5 DEF DeadLetterExact

\* A delivery leaves the queue by a loop whose Date has reached its available_at, and is
\* put back only by a loop that had taken it.
LEMMA WindowStep ==
  ASSUME DispatchInv, [Next]_vars
  PROVE  DeliveryTimes' /\ WindowHonoured'
<1>0. TypeInv /\ TypeInv' /\ NowBounded
  BY TypeStep DEF DispatchInv, SafetyInv
<1>1. /\ clock \in Nat /\ clock' \in Nat /\ clock <= clock'
      /\ SkewBudget \in Nat /\ CancelWindow \in Nat
  BY <1>0, NowStep, DurationsAssumption DEF TypeInv, TypeOK
<1> DEFINE Passed(x) == deliveries[x].createdAt + CancelWindow <= clock + SkewBudget
           InWindow(x) == deliveries[x].createdAt + CancelWindow <= deliveries[x].availableAt
           Left(x) == deliveries[x].state \in {"running", "succeeded", "dead"}
<1>2. ASSUME NEW x \in DOMAIN deliveries'
      PROVE  (InWindow(x) \/ Passed(x))' /\ (Left(x) => Passed(x))'
  <2>1. x \in DeliveryKey /\ DeliveryStep(x) /\ deliveries'[x] \in Delivery
    BY <1>0, <1>2, DeliveryLifecycle DEF TypeInv, TypeOK, TablesTyped, IsTable
  <2>2. CASE x \in DOMAIN deliveries
    <3>1. deliveries[x] \in Delivery /\ (InWindow(x) \/ Passed(x)) /\ (Left(x) => Passed(x))
      BY <1>0, <2>2
         DEF DispatchInv, DeliveryTimes, WindowHonoured, TypeInv, TypeOK, TablesTyped, IsTable
    <3>2. deliveries[x].createdAt \in Nat /\ deliveries[x].availableAt \in Nat
      BY <3>1 DEF Delivery
    <3>3. ASSUME deliveries'[x].createdAt = deliveries[x].createdAt, Passed(x)
          PROVE  Passed(x)'
      BY <1>1, <3>2, <3>3
    <3>4. CASE Unmoved(x)
      BY <3>1, <3>3, <3>4 DEF Unmoved
    <3>5. CASE PickedUp(x)
      <4>1. PICK w \in Workers : x \in DueDeliveries(now[w])
        BY <3>5 DEF PickedUp
      <4>2. deliveries[x].availableAt <= now[w] /\ now[w] <= clock + SkewBudget /\ now[w] \in Nat
        BY <1>0, <4>1 DEF DueDeliveries, NowBounded, TypeInv, TypeOK, LoopsTyped
      <4>3. Passed(x)
        BY <1>1, <3>1, <3>2, <4>2
      <4>4. deliveries'[x].createdAt = deliveries[x].createdAt
        BY <3>1, <3>5 DEF PickedUp, Delivery
      <4> QED
        BY <3>3, <4>3, <4>4
    <3>6. CASE LetGo(x)
      <4>1. deliveries[x].state = "running" /\ deliveries'[x].createdAt = deliveries[x].createdAt
        BY <2>2, <3>6 DEF LetGo, DispatchInv, BatchRunning
      <4> QED
        BY <3>1, <3>3, <4>1
    <3>7. CASE Recalled(x)
      <4>1. /\ deliveries'[x].createdAt = deliveries[x].createdAt
            /\ deliveries'[x].availableAt = deliveries[x].availableAt
            /\ deliveries'[x].state = "cancelled"
        BY <3>1, <3>7 DEF Recalled, Delivery
      <4> QED
        BY <3>1, <3>3, <4>1
    <3> QED
      BY <1>2, <2>1, <2>2, <3>4, <3>5, <3>6, <3>7 DEF DeliveryStep
  <2>3. CASE x \notin DOMAIN deliveries
    <3>1. deliveries'[x] = QueuedDelivery
      BY <1>2, <2>1, <2>3 DEF DeliveryStep, Queued
    <3> QED
      BY <1>1, <3>1 DEF QueuedDelivery
  <2> QED
    BY <2>2, <2>3
<1>3. DeliveriesRooted'
  BY DeliveriesRootedStep
<1> QED
  BY <1>2, <1>3 DEF DeliveryTimes, WindowHonoured, DeliveriesRooted

LEMMA DispatchStep == DispatchInv /\ [Next]_vars => DispatchInv'
<1> SUFFICES ASSUME DispatchInv, [Next]_vars PROVE DispatchInv'
  OBVIOUS
<1>1. SafetyInv' /\ RecipientsOver'
  BY SafetyStep, RecipientsStep DEF DispatchInv, SafetyInv
<1>2. DeliveriesRooted' /\ DeliveryTimes' /\ WindowHonoured'
  BY DeliveriesRootedStep, WindowStep
<1>3. BatchRunning' /\ BatchesApart' /\ LettersRooted' /\ DeadLetterExact'
  BY BatchRunningStep, BatchesApartStep, LettersRootedStep, DeadLetterStep
<1> QED
  BY <1>1, <1>2, <1>3 DEF DispatchInv

LEMMA DispatchSafe == Spec => []DispatchInv
BY DispatchInit, DispatchStep, PTL DEF Spec

---------------------------------------------------------------------------
(* The abstract queue: each step on trigger_jobs is one of TriggerQueue *)

\* What TriggerQueue sees of the tables.
States == [k \in DOMAIN jobs |-> jobs[k].state]
Letters == DOMAIN deadLetters \cap JobKey

QueueStep == Queue!QueueNext \/ UNCHANGED <<States, Letters>>

\* The letter of a delivery is none of a job.
LEMMA LettersOfJobs ==
  ASSUME NEW x \in DeliveryKey, deadLetters' = WithLetter(x)
  PROVE  Letters' = Letters
<1>1. x \notin JobKey
  BY KeysApart
<1> QED
  BY <1>1 DEF WithLetter, Letters

\* An update of the states of some rows, seen from outside.
LEMMA Becomes ==
  ASSUME NEW picked, NEW state, DOMAIN jobs' = DOMAIN jobs,
         \A k \in DOMAIN jobs :
           jobs'[k].state = IF k \in picked THEN state ELSE jobs[k].state
  PROVE  Queue!Become(picked, state)
BY DEF Queue!Become

LEMMA EnqueueStep ==
  ASSUME NEW added, jobs' = InsertNew(jobs, added), UNCHANGED deadLetters,
         DOMAIN added \subseteq JobKey, \A k \in DOMAIN added : added[k].state = "pending"
  PROVE  QueueStep
<1>1. DOMAIN jobs' = DOMAIN jobs \cup DOMAIN added
      /\ \A k \in DOMAIN jobs' : jobs'[k] = IF k \in DOMAIN jobs THEN jobs[k] ELSE added[k]
  BY DEF InsertNew
<1>2. DOMAIN States = DOMAIN jobs /\ DOMAIN States' = DOMAIN jobs'
  BY DEF States
<1>3. Queue!Enqueue(DOMAIN States' \ DOMAIN States)
  BY <1>1, <1>2 DEF Queue!Enqueue, States
<1> QED
  BY <1>3 DEF Queue!QueueNext, QueueStep, States

LEMMA ReapStep ==
  ASSUME TypeInv, NEW w \in Workers, ReapExpiredLeases(w)
  PROVE  QueueStep
<1> DEFINE picked == {k \in DOMAIN jobs : LeaseOver(jobs[k], now[w])}
<1>1. /\ jobs' = [k \in DOMAIN jobs |-> IF LeaseOver(jobs[k], now[w])
                                        THEN Requeued(jobs[k]) ELSE jobs[k]]
      /\ UNCHANGED deadLetters
  BY DEF ReapExpiredLeases
<1>2. \A k \in DOMAIN jobs : jobs[k] \in Job
  BY DEF TypeInv, TypeOK, TablesTyped, IsTable
<1>3. \A k \in DOMAIN jobs :
        jobs'[k].state = IF k \in picked THEN "pending" ELSE jobs[k].state
  BY <1>1, <1>2, RequeuedType
<1>4. Queue!Become(picked, "pending")
  BY <1>1, <1>3, Becomes
<1>5. picked \subseteq Queue!In("running")
  BY DEF Queue!In, LeaseOver
<1> HIDE DEF picked
<1>6. PICK p : p = picked
  OBVIOUS
<1>7. Queue!PutBack(p)
  BY <1>1, <1>4, <1>5, <1>6 DEF Queue!PutBack, Queue!Become
<1>8. p \in SUBSET DOMAIN States
  BY <1>5, <1>6 DEF Queue!In, States
<1> QED
  BY <1>7, <1>8 DEF Queue!QueueNext, QueueStep, States

LEMMA StartStep ==
  ASSUME TypeInv, NEW w \in Workers, ClaimJob(w)
  PROVE  QueueStep
<1>1. PICK k \in ClaimableJobs(now[w]) :
        jobs' = [jobs EXCEPT ![k] = Claimed(@, w, now[w] + Lease)]
  BY DEF ClaimJob
<1>2. k \in DOMAIN jobs /\ jobs[k].state = "pending" /\ jobs[k] \in Job
  BY DEF ClaimableJobs, TypeInv, TypeOK, TablesTyped, IsTable
<1>3. /\ DOMAIN jobs' = DOMAIN jobs
      /\ \A x \in DOMAIN jobs :
           jobs'[x].state = IF x \in {k} THEN "running" ELSE jobs[x].state
  <2>1. Claimed(jobs[k], w, now[w] + Lease).state = "running"
    BY <1>2 DEF Claimed, Job
  <2> QED
    BY <1>1, <1>2, <2>1 DEF TypeInv, TypeOK, TablesTyped, IsTable
<1>4. Queue!Become({k}, "running")
  BY <1>3, Becomes
<1>5. Queue!Start(k)
  BY <1>2, <1>4 DEF Queue!Start, Queue!In, ClaimJob
<1> QED
  BY <1>2, <1>5 DEF Queue!QueueNext, QueueStep, States

\* completeJob, by the owner or to no effect.
LEMMA FinishStep ==
  ASSUME TypeInv, NEW w \in Workers, NEW k, jobs' = Completed(k, w), UNCHANGED deadLetters
  PROVE  QueueStep
<1>1. CASE ~OwnedBy(k, w)
  BY <1>1 DEF Completed, QueueStep, States, Letters
<1>2. CASE OwnedBy(k, w)
  <2>1. k \in DOMAIN jobs /\ jobs[k].state = "running" /\ jobs[k] \in Job
    BY <1>2 DEF OwnedBy, TypeInv, TypeOK, TablesTyped, IsTable
  <2>2. /\ DOMAIN jobs' = DOMAIN jobs
        /\ \A x \in DOMAIN jobs :
             jobs'[x].state = IF x \in {k} THEN "succeeded" ELSE jobs[x].state
    BY <1>2, <2>1 DEF Completed, TypeInv, TypeOK, TablesTyped, IsTable, Job
  <2>3. Queue!Become({k}, "succeeded")
    BY <2>2, Becomes
  <2>4. Queue!Finish(k)
    BY <2>1, <2>3 DEF Queue!Finish, Queue!In
  <2> QED
    BY <2>1, <2>4 DEF Queue!QueueNext, QueueStep, States
<1> QED
  BY <1>1, <1>2

\* failJob: nothing, a letter, or another attempt.
LEMMA FailStep ==
  ASSUME TypeInv, NEW w \in Workers, FailJob(w)
  PROVE  QueueStep
<1> PICK k : k = claim[w].key
  OBVIOUS
<1>0. IsTable(jobs, JobKey, Job) /\ (OwnedBy(k, w) => jobs[k].state = "running" /\ jobs[k] \in Job
                                                   /\ k \in DOMAIN jobs /\ k \in JobKey)
  BY DEF OwnedBy, TypeInv, TypeOK, TablesTyped, IsTable
<1>1. CASE UNCHANGED <<jobs, deadLetters>>
  BY <1>1 DEF QueueStep, States, Letters
<1>2. CASE /\ OwnedBy(k, w) /\ deadLetters' = WithLetter(k)
           /\ jobs' = [jobs EXCEPT ![k].state = "dead", ![k].leaseExpires = None]
  <2>1. /\ DOMAIN jobs' = DOMAIN jobs
        /\ \A x \in DOMAIN jobs :
             jobs'[x].state = IF x \in {k} THEN "dead" ELSE jobs[x].state
    BY <1>0, <1>2 DEF IsTable, Job
  <2>2. Queue!Become({k}, "dead")
    BY <2>1, Becomes
  <2>3. Letters' = Letters \cup {k}
    BY <1>0, <1>2 DEF WithLetter, Letters
  <2>4. Queue!Bury(k)
    BY <1>0, <1>2, <2>2, <2>3 DEF Queue!Bury, Queue!In, Letters
  <2> QED
    BY <1>0, <1>2, <2>4 DEF Queue!QueueNext, QueueStep, States
<1>3. ASSUME OwnedBy(k, w), UNCHANGED deadLetters, NEW delay \in Backoffs,
             jobs' = [jobs EXCEPT ![k] = [Requeued(@) EXCEPT !.runAt = clock + delay]]
      PROVE  QueueStep
  <2>1. /\ DOMAIN jobs' = DOMAIN jobs
        /\ \A x \in DOMAIN jobs :
             jobs'[x].state = IF x \in {k} THEN "pending" ELSE jobs[x].state
    BY <1>0, <1>3 DEF IsTable, Job, Requeued
  <2>2. Queue!Become({k}, "pending")
    BY <2>1, Becomes
  <2>3. PICK p : p = {k}
    OBVIOUS
  <2>4. Queue!PutBack(p)
    BY <1>0, <1>3, <2>2, <2>3 DEF Queue!PutBack, Queue!In, Queue!Become
  <2>5. p \in SUBSET DOMAIN States
    BY <1>0, <1>3, <2>3 DEF States
  <2> QED
    BY <2>4, <2>5 DEF Queue!QueueNext, QueueStep, States
<1> QED
  BY <1>1, <1>2, <1>3 DEF FailJob

LEMMA WithdrawStep ==
  ASSUME TypeInv, NEW q \in Slots, Cancel(q)
  PROVE  QueueStep
<1> DEFINE s == requests[q].switch
           picked == {k \in DOMAIN jobs : k[1] = s /\ jobs[k].state \in OpenStates}
<1>1. UNCHANGED deadLetters /\ (jobs' = jobs \/ jobs' = WithoutOpenJobs(s))
  BY DEF Cancel
<1>2. CASE jobs' = jobs
  BY <1>1, <1>2 DEF QueueStep, States, Letters
<1>3. CASE jobs' = WithoutOpenJobs(s)
  <2>1. /\ DOMAIN jobs' = DOMAIN jobs
        /\ \A x \in DOMAIN jobs :
             jobs'[x].state = IF x \in picked THEN "cancelled" ELSE jobs[x].state
    BY <1>3 DEF WithoutOpenJobs, TypeInv, TypeOK, TablesTyped, IsTable, Job
  <2>2. Queue!Become(picked, "cancelled")
    BY <2>1, Becomes
  <2>3. picked \subseteq Queue!In("pending") \cup Queue!In("running")
    BY DEF Queue!In, OpenStates
  <2>4. picked \subseteq DOMAIN States
    BY DEF States
  <2> HIDE DEF picked
  <2>5. PICK p : p = picked
    OBVIOUS
  <2>6. Queue!Withdraw(p)
    BY <1>1, <2>2, <2>3, <2>5 DEF Queue!Withdraw, Queue!Become
  <2> QED
    BY <2>4, <2>5, <2>6 DEF Queue!QueueNext, QueueStep, States
<1> QED
  BY <1>1, <1>2, <1>3

LEMMA ForgetStep ==
  ASSUME NEW q \in Slots, DeleteSwitch(q)
  PROVE  QueueStep
<1> DEFINE s == requests[q].switch
           picked == {k \in DOMAIN jobs : k[1] = s}
<1>1. jobs' = WithoutSwitch(jobs, s) /\ UNCHANGED deadLetters
  BY DEF DeleteSwitch
<1>2. DOMAIN jobs' = DOMAIN jobs \ picked /\ \A k \in DOMAIN jobs' : jobs'[k] = jobs[k]
  BY <1>1 DEF WithoutSwitch
<1>3. picked \subseteq DOMAIN States
  BY DEF States
<1> HIDE DEF picked
<1>4. PICK p : p = picked
  OBVIOUS
<1>5. Queue!Forget(p)
  BY <1>1, <1>2, <1>4 DEF Queue!Forget
<1> QED
  BY <1>3, <1>4, <1>5 DEF Queue!QueueNext, QueueStep, States

\* Whatever a loop or a request does, the queue sees one of its own steps, or none.
LEMMA QueueSees ==
  ASSUME SafetyInv, [Next]_vars
  PROVE  QueueStep
<1>0. TypeInv
  BY DEF SafetyInv
<1>1. ASSUME NEW w \in Workers, RecoverWrite(w) PROVE QueueStep
  <2> DEFINE hit == {s \in affected[w] \cap DOMAIN switches : switches[s].nextDeadline # None}
             waiting == {s \in hit : GraceEnd(s) > now[w]}
             missed == {<<s, switches[s].nextDeadline>> : s \in hit \ waiting}
             added == [x \in missed |-> PendingJob("backfilled", now[w])]
  <2>1. jobs' = InsertNew(jobs, added) /\ UNCHANGED deadLetters
    BY <1>1 DEF RecoverWrite
  <2>2. missed \subseteq JobKey
    BY <1>0 DEF JobKey, TypeInv, TypeOK, TablesTyped, IsTable, Switch
  <2> HIDE DEF missed
  <2>3. DOMAIN added \subseteq JobKey /\ \A k \in DOMAIN added : added[k].state = "pending"
    BY <2>2 DEF PendingJob
  <2> HIDE DEF added
  <2> QED
    BY <2>1, <2>3, EnqueueStep
<1>2. ASSUME NEW w \in Workers, MaterializeInsert(w) PROVE QueueStep
  <2>1. jobs' = InsertNew(jobs, snapshot[w]) /\ UNCHANGED deadLetters
    BY <1>2 DEF MaterializeInsert
  <2>2. DOMAIN snapshot[w] \subseteq JobKey
        /\ \A k \in DOMAIN snapshot[w] : snapshot[w][k].state = "pending"
    BY DEF SafetyInv, TypeInv, TypeOK, LoopsTyped, IsTable, SnapshotFresh
  <2> QED
    BY <2>1, <2>2, EnqueueStep
<1>3. ASSUME NEW w \in Workers, ProcessDryRun(w) \/ ProcessRelease(w) PROVE QueueStep
  BY <1>0, <1>3, FinishStep DEF ProcessDryRun, ProcessRelease
<1>4. ASSUME UNCHANGED jobs, \A w \in Workers : ~FailJob(w) PROVE QueueStep
  <2>1. Letters' = Letters
    <3>1. ASSUME NEW y, deadLetters' = WithLetter(y), Refused(y) PROVE Letters' = Letters
      <4>1. y \in DeliveryKey
        BY <1>0, <3>1 DEF Refused, TypeInv, TypeOK, LoopsTyped
      <4> QED
        BY <3>1, <4>1, LettersOfJobs
    <3>2. \A y : ~Buried(y)
      BY <1>4 DEF Buried
    <3> QED
      BY <1>0, <3>1, <3>2, LetterLifecycle DEF Letters
  <2> QED
    BY <1>4, <2>1 DEF QueueStep, States
<1> QED
  BY <1>0, <1>1, <1>2, <1>3, <1>4, ReapStep, StartStep, FailStep, WithdrawStep, ForgetStep,
     JobsUntouched


---------------------------------------------------------------------------
(* The theorems *)

\* deliverPendingDeliveries and processJob: with any number of loops, every backoff and
\* every crash, a delivery stems from a job that exists and leaves the queue only after
\* its cancellation window.
THEOREM WindowAlwaysHonoured == Spec => []WindowHonoured
<1>1. DispatchInv => WindowHonoured
  BY DEF DispatchInv
<1> QED
  BY <1>1, DispatchSafe, PTL

\* failJob and deliverPendingDeliveries: a job or delivery is dead exactly when it has a
\* dead letter, and has one, however many loops gave up on it and however often they crashed.
THEOREM DeadLettersExact == Spec => []DeadLetterExact
<1>1. DispatchInv => DeadLetterExact
  BY DEF DispatchInv
<1> QED
  BY <1>1, DispatchSafe, PTL

\* completeJob, failJob, cancel, the inserts and the dispatcher: a job or delivery that
\* reached a final state keeps it as long as there is its row.
THEOREM FinalAlwaysStays == Spec => FinalStays
<1>1. ASSUME DispatchInv, [Next]_vars,
             NEW k \in DOMAIN jobs \cap DOMAIN jobs', jobs[k].state \in FinalStates
      PROVE  jobs'[k].state = jobs[k].state
  <2>1. TypeInv /\ k \in JobKey
    BY <1>1 DEF DispatchInv, SafetyInv, TypeInv, TypeOK, TablesTyped, IsTable
  <2>2. RowStep(k)
    BY <1>1, <2>1, RowLifecycle
  <2> QED
    BY <1>1, <2>2 DEF RowStep, Kept, Reaped, LeaseOver, Taken, ClaimableJobs, Ended,
       OwnedBy, Retried, Withdrawn, FinalStates, OpenStates
<1>2. ASSUME DispatchInv, [Next]_vars,
             NEW x \in DOMAIN deliveries \cap DOMAIN deliveries',
             deliveries[x].state \in FinalStates
      PROVE  deliveries'[x].state = deliveries[x].state
  <2>1. TypeInv /\ x \in DeliveryKey
    BY <1>2 DEF DispatchInv, SafetyInv, TypeInv, TypeOK, TablesTyped, IsTable
  <2>2. DeliveryStep(x)
    BY <1>2, <2>1, DeliveryLifecycle
  <2>3. ~PickedUp(x) /\ ~Recalled(x)
    BY <1>2 DEF PickedUp, DueDeliveries, Recalled, FinalStates
  <2>4. ~LetGo(x)
    BY <1>2 DEF LetGo, DispatchInv, BatchRunning, FinalStates
  <2> QED
    BY <1>2, <2>2, <2>3, <2>4 DEF DeliveryStep, Unmoved
<1>3. DispatchInv /\ [Next]_vars =>
        [/\ \A k \in DOMAIN jobs \cap DOMAIN jobs' :
              jobs[k].state \in FinalStates => jobs'[k].state = jobs[k].state
         /\ \A x \in DOMAIN deliveries \cap DOMAIN deliveries' :
              deliveries[x].state \in FinalStates => deliveries'[x].state = deliveries[x].state
        ]_vars
  BY <1>1, <1>2
<1> QED
  BY <1>3, DispatchSafe, PTL DEF Spec, FinalStays

\* Every behaviour of the release path is one of the abstract queue: a job is
\* enqueued once per (switch, deadline), leaves an end only by deletion, and
\* dies with its letter in one step.
THEOREM QueueImplemented == Spec => QueueRefined
<1>1. Init => Queue!QueueInit
  <2> SUFFICES ASSUME Init PROVE Queue!QueueInit
    OBVIOUS
  <2>1. DOMAIN jobs = {} /\ DOMAIN deadLetters = {}
    BY DEF Init, NoRows
  <2> QED
    BY <2>1 DEF Queue!QueueInit
<1>2. SafetyInv /\ [Next]_vars => [Queue!QueueNext]_<<States, Letters>>
  BY QueueSees DEF QueueStep
<1>3. Spec => []SafetyInv
  BY Safety
<1> QED
  BY <1>1, <1>2, <1>3, PTL DEF Spec, QueueRefined, Queue!Spec, States, Letters

=============================================================================
