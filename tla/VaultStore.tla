---------------------------- MODULE VaultStore ----------------------------
(***************************************************************************)
(* The tables of the release path (packages/db/src/schema.ts and its       *)
(* migrations) and the local state of the scheduler processes that work on *)
(* them.  PostgreSQL is the only shared state of the system and its only   *)
(* queue: every other module reads and writes the variables of this one,   *)
(* one committed transaction (or one autocommitted statement) per step.    *)
(*                                                                         *)
(* A table is a function whose domain is the set of rows that exist, so    *)
(* that an INSERT ... ON CONFLICT DO NOTHING, a DELETE and its cascade are *)
(* what they are in SQL.  A NULL column is None.                           *)
(*                                                                         *)
(* An operator whose comment starts with "Fault:" is a plausible mistake   *)
(* in the operator that follows it.  No specification uses it: replacing   *)
(* the one by the other shows which property notices the mistake.          *)
(***************************************************************************)
EXTENDS Naturals, FiniteSets

CONSTANTS
  Switches,      \* rows that may exist in "switches"
  Recipients,    \* recipients a switch may have
  Workers,       \* scheduler loops, one per API process
  Slots,         \* HTTP requests that may be in flight at the same time
  Ops,           \* the requests made in this instance (see SwitchRoutes)
  Faults,        \* the faults that may occur in this instance
  None           \* SQL NULL

\* Durations, in units of the modelled clock.
CONSTANTS
  Horizon,       \* the clock stops here (bounds the model, not the code)
  Interval,      \* switches.heartbeat_interval
  Grace,         \* switches.grace_window
  FireLag,       \* half an interval plus FIRE_LAG_SECONDS
  Lease,         \* LEASE_SECONDS
  CancelWindow,  \* the 48 hours of delivery_jobs.available_at
  Backoffs,      \* delays jitteredBackoffSeconds may return
  OutageGap,     \* two tick intervals
  SkewBudget     \* CLOCK_SKEW_BUDGET_MS

CONSTANTS
  MaxAttempts,   \* max_attempts of both queues
  DeliveryBatch, \* DELIVERY_BATCH
  ClaimBound     \* claims of one job (bounds the model, not the code)

ASSUME SetsAssumption ==
  /\ IsFiniteSet(Switches)
  /\ IsFiniteSet(Recipients)

ASSUME DurationsAssumption ==
  /\ Horizon \in Nat /\ Interval \in Nat \ {0} /\ Grace \in Nat
  /\ FireLag \in Nat /\ Lease \in Nat /\ CancelWindow \in Nat
  /\ Backoffs \subseteq Nat /\ Backoffs # {}
  /\ OutageGap \in Nat /\ SkewBudget \in Nat

ASSUME QueueAssumption ==
  MaxAttempts \in Nat \ {0} /\ DeliveryBatch \in Nat \ {0} /\ ClaimBound \in Nat

ASSUME FaultsAssumption ==
  Faults \subseteq {"throw", "crash"}

VARIABLES
  clock,         \* clock_timestamp() of the database
  switches,      \* switches table
  recipients,    \* recipients.status per switch, "gone" once the row is deleted
  waits,         \* vault_waits.wake_at, per switch
  jobs,          \* trigger_jobs, by unique (switch_id, deadline_at)
  deliveries,    \* delivery_jobs, by unique idempotency key job:recipient
  deadLetters,   \* dead_letter_jobs, rows counted per source
  lastTick,      \* scheduler_heartbeat.last_tick_at
  pc,            \* where each scheduler loop stands in its cycle
  now,           \* the Date each cycle was started with
  affected,      \* ids recoverFromOutage selected
  snapshot,      \* rows the materializer's SELECT produced, not yet inserted
  claim,         \* the TriggerJobRow the loop is processing
  batch,         \* delivery rows the dispatcher claimed and has not settled
  requests       \* requests that passed their checks but not yet committed

tables == <<switches, recipients, waits, jobs, deliveries, deadLetters, lastTick>>
loops == <<pc, now, affected, snapshot, claim, batch>>
vars == <<clock, tables, loops, requests>>

---------------------------------------------------------------------------
(* Row types *)

Statuses == {"active", "paused", "released"}
TriggerTypes == {"heartbeat", "fixed_date", "panic"}
OpenStates == {"pending", "running"}
FinalStates == {"succeeded", "dead", "cancelled"}

Switch == [status : Statuses,
           triggerType : TriggerTypes,
           dryRun : BOOLEAN,
           nextDeadline : Nat \cup {None},
           fireAt : Nat \cup {None}]

\* payload tells a heartbeat fire from a variant one and from a backfill.
Job == [state : OpenStates \cup FinalStates,
        kind : {"fire", "variant", "backfilled"},
        runAt : Nat,
        attempts : Nat,
        owner : Workers \cup {None},
        leaseExpires : Nat \cup {None}]

Delivery == [state : OpenStates \cup FinalStates,
             availableAt : Nat,
             createdAt : Nat,
             attempts : Nat]

JobKey == Switches \X Nat
DeliveryKey == Switches \X Nat \X Recipients

JobOf(x) == <<x[1], x[2]>>

Pcs == {"idle", "recover", "compensate", "promote", "scan", "insert", "beat",
        "reap", "claim", "read", "dryrun", "release", "fail",
        "dispatch", "send", "sendLast"}

\* A request past the checks its handler makes before its transaction.
Request == [op : Ops, switch : Switches]

Claim == [key : JobKey, leaseExpires : Nat]

ASSUME NoneAssumption ==
  None \notin Nat /\ None \notin Workers /\ None \notin Claim /\ None \notin Request

NoRows == <<>>  \* the function with an empty domain

---------------------------------------------------------------------------
(* SQL idioms *)

\* col <= t, which is not true of NULL.
Reached(col, t) == col # None /\ col <= t

\* Fault: ON CONFLICT DO UPDATE.
InsertOver(table, rows) ==
  [k \in DOMAIN table \cup DOMAIN rows |->
     IF k \in DOMAIN rows THEN rows[k] ELSE table[k]]

\* INSERT ... ON CONFLICT DO NOTHING: an existing row wins.
InsertNew(table, rows) ==
  [k \in DOMAIN table \cup DOMAIN rows |->
     IF k \in DOMAIN table THEN table[k] ELSE rows[k]]

\* Fault: a foreign key without ON DELETE CASCADE.
WithoutCascade(table, s) == table

\* DELETE FROM switches cascades to every table that references the row.
WithoutSwitch(table, s) ==
  [k \in {x \in DOMAIN table : x[1] # s} |-> table[k]]

Accepted(s) == {r \in Recipients : recipients[s][r] = "accepted"}

LetterCount(x) == IF x \in DOMAIN deadLetters THEN deadLetters[x] ELSE 0

\* INSERT INTO dead_letter_jobs, a table without a unique key on its source.
WithLetter(x) ==
  [y \in DOMAIN deadLetters \cup {x} |->
     IF y = x THEN LetterCount(x) + 1 ELSE deadLetters[y]]

\* Host clocks that pass checkClockSkew.
HostTimes ==
  {t \in 0..(clock + SkewBudget) : clock <= t + SkewBudget}

IsTable(t, Keys, Row) == DOMAIN t \subseteq Keys /\ t \in [DOMAIN t -> Row]

\* Every column holds a value of its SQL type ...
TablesTyped ==
  /\ IsTable(switches, Switches, Switch)
  /\ recipients \in [Switches -> [Recipients -> {"invited", "accepted", "gone"}]]
  /\ waits \in [Switches -> Nat \cup {None}]
  /\ IsTable(jobs, JobKey, Job)
  /\ IsTable(deliveries, DeliveryKey, Delivery)
  /\ IsTable(deadLetters, JobKey \cup DeliveryKey, Nat)
  /\ lastTick \in Nat \cup {None}

\* ... every local of a loop what the query it came from returns ...
LoopsTyped ==
  /\ pc \in [Workers -> Pcs]
  /\ now \in [Workers -> Nat]
  /\ affected \in [Workers -> SUBSET Switches]
  /\ DOMAIN snapshot = Workers /\ snapshot = [w \in Workers |-> snapshot[w]]
  /\ \A w \in Workers : IsTable(snapshot[w], JobKey, Job)
  /\ claim \in [Workers -> Claim \cup {None}]
  /\ batch \in [Workers -> SUBSET DeliveryKey]

\* ... and every request in flight names an operation and a switch.
TypeOK ==
  /\ clock \in Nat
  /\ TablesTyped
  /\ LoopsTyped
  /\ requests \in [Slots -> Request \cup {None}]
===========================================================================
