--------------------------- MODULE OwnerReminders ---------------------------
(***************************************************************************)
(* Reminder e-mails to the owner of a switch: materializeDueOwnerReminders *)
(* of main.ts, reminders/index.ts and reminders/delivery.ts.  Every        *)
(* scheduler cycle scans for missed deadlines, inserts one row per         *)
(* (switch, deadline, stage), and then sends what is pending, one          *)
(* transaction per e-mail: the row stays locked while the provider works.  *)
(*                                                                         *)
(* Of the switches only what the scan reads is here: next_deadline of the  *)
(* active heartbeat switches.  A provider may take a message and the loop  *)
(* never learn of it (crash, deadline of the send, failing audit row).     *)
(* "Fault:" marks a mistake for mutation, as in VaultStore.                *)
(***************************************************************************)
EXTENDS Naturals, FiniteSets

CONSTANTS
  Switches, Workers, None,
  Interval,     \* heartbeat_interval
  WarningLag,   \* a quarter of it
  MaxDelay,     \* 60 minutes, in units of the clock
  MaxTries,     \* attempts after which a reminder has failed
  SkewBudget,   \* CLOCK_SKEW_BUDGET_MS
  Horizon,      \* the clock stops here (bounds the model, not the code)
  Failures      \* faults that may occur (bounds the model, not the code)

ASSUME RemindersAssumption ==
  /\ IsFiniteSet(Switches)
  /\ Interval \in Nat \ {0} /\ WarningLag \in Nat /\ MaxDelay \in Nat \ {0}
  /\ MaxTries \in Nat \ {0} /\ SkewBudget \in Nat /\ Horizon \in Nat /\ Failures \in Nat
  /\ None \notin Nat

VARIABLES
  clock,
  deadline,   \* next_deadline of each switch there is, None if it is not active
  reminders,  \* reminder_jobs, by its idempotency key
  accepted,   \* keys of the e-mails the provider took
  pc, now,    \* where each loop stands, and the Date of its cycle
  due,        \* reminders its scan found and it has not yet inserted
  sending,    \* the row it has locked, None if none
  tried,      \* rows it has settled in this cycle (to state a property)
  met,        \* <<s, d, t>>: at t the owner moved deadline d of s, before the
              \* last stage of it was reached (likewise)
  failures    \* faults left

rows == <<deadline, reminders>>
loops == <<pc, now, due, sending, tried>>
vars == <<clock, rows, accepted, loops, met, failures>>

Stages == {"reminder", "warning"}
Key == Switches \X Nat \X Stages
ASSUME KeysAssumption == None \notin Key

Pcs == {"idle", "scan", "materialize", "deliver", "send", "sent", "failed"}

Reminder == [state : {"pending", "sent", "failed"}, attempts : Nat,
             createdAt : Nat, nextAttempt : Nat \cup {None}]

HostTimes == {t \in 0..(clock + SkewBudget) : clock <= t + SkewBudget}

StageLag(stage) == IF stage = "warning" THEN WarningLag ELSE 0

GoTo(w, where) == pc' = [pc EXCEPT ![w] = where]

\* The cycle is over, and its Date with it.
GoIdle(w) ==
  /\ GoTo(w, "idle")
  /\ now' = [now EXCEPT ![w] = 0]
  /\ tried' = [tried EXCEPT ![w] = {}]

---------------------------------------------------------------------------
(* What the owner does to next_deadline (see SwitchRoutes) *)

Live(s) == s \in DOMAIN deadline /\ deadline[s] # None

SetDeadline(s, d) == deadline' = [deadline EXCEPT ![s] = d]

CheckIn(s) ==
  /\ Live(s)
  /\ SetDeadline(s, clock + Interval)
  /\ met' = met \cup {m \in {<<s, deadline[s], clock>>} :
                        deadline[s] # deadline'[s] /\ clock < deadline[s] + WarningLag}
  /\ UNCHANGED <<clock, reminders, accepted, loops, failures>>

\* Disarm, cancel, release, a trigger of another type.
Stop(s) ==
  /\ Live(s)
  /\ SetDeadline(s, None)
  /\ UNCHANGED <<clock, reminders, accepted, loops, met, failures>>

Arm(s) ==
  /\ s \in DOMAIN deadline /\ ~Live(s)
  /\ SetDeadline(s, clock + Interval)
  /\ UNCHANGED <<clock, reminders, accepted, loops, met, failures>>

\* The cascade waits for a row that a sending loop has locked.
Delete(s) ==
  /\ s \in DOMAIN deadline
  /\ \A w \in Workers : sending[w] # None => sending[w][1] # s
  /\ deadline' = [t \in DOMAIN deadline \ {s} |-> deadline[t]]
  /\ reminders' = [k \in {x \in DOMAIN reminders : x[1] # s} |-> reminders[k]]
  /\ accepted' = {k \in accepted : k[1] # s}
  /\ met' = {m \in met : m[1] # s}
  /\ UNCHANGED <<clock, loops, failures>>

---------------------------------------------------------------------------
(* main.ts: materializeDueOwnerReminders *)

StartCycle(w) ==
  /\ pc[w] = "idle"
  /\ GoTo(w, "scan")
  /\ \E t \in HostTimes : now' = [now EXCEPT ![w] = t]
  /\ UNCHANGED <<clock, rows, accepted, due, sending, tried, met, failures>>

\* Fault: the warning a quarter of an interval early.
ReachedEarly(d, stage, t) == d <= t + StageLag(stage)

\* next_deadline + heartbeat_interval * interval_fraction <= $1
Reached(d, stage, t) == d + StageLag(stage) <= t

\* Fault: each switch joined with its first stage only.
DueFirstStage(t) ==
  {<<s, deadline[s], "reminder">> : s \in {x \in DOMAIN deadline :
                                             Live(x) /\ Reached(deadline[x], "reminder", t)}}

DueReminders(t) ==
  {<<s, deadline[s], stage>> : s \in {x \in DOMAIN deadline : Live(x)}, stage \in Stages}
    \cap {k \in Key : Reached(k[2], k[3], t)}

Scan(w) ==
  /\ pc[w] = "scan"
  /\ due' = [due EXCEPT ![w] = DueReminders(now[w])]
  /\ GoTo(w, "materialize")
  /\ UNCHANGED <<clock, rows, accepted, now, sending, tried, met, failures>>

\* Fault: ON CONFLICT DO UPDATE.
InsertOver(k, row) ==
  [x \in DOMAIN reminders \cup {k} |-> IF x = k THEN row ELSE reminders[x]]

\* INSERT ... ON CONFLICT (idempotency_key) DO NOTHING.
InsertNew(k, row) ==
  [x \in DOMAIN reminders \cup {k} |-> IF x \in DOMAIN reminders THEN reminders[x] ELSE row]

\* Fault: no FOR UPDATE.
NeverLocked(k) == FALSE

Locked(k) == \E w \in Workers : sending[w] = k

\* materializeOwnerReminder: the switch is locked, its deadline not looked at
\* again; a deleted one is a ReminderValidationError, which the scan skips.  A
\* row that is there already is read FOR UPDATE, so it waits for a loop that is
\* sending it.
Materialize(w) ==
  /\ pc[w] = "materialize"
  /\ \E k \in due[w] :
       /\ ~Locked(k)
       /\ due' = [due EXCEPT ![w] = @ \ {k}]
       /\ reminders' =
            IF k[1] \in DOMAIN deadline
            THEN InsertNew(k, [state |-> "pending", attempts |-> 0,
                               createdAt |-> now[w], nextAttempt |-> None])
            ELSE reminders
  /\ UNCHANGED <<clock, deadline, accepted, pc, now, sending, tried, met, failures>>

Materialized(w) ==
  /\ pc[w] = "materialize" /\ due[w] = {}
  /\ GoTo(w, "deliver")
  /\ UNCHANGED <<clock, rows, accepted, now, due, sending, tried, met, failures>>

---------------------------------------------------------------------------
(* reminders/delivery.ts: deliverPendingOwnerReminders *)

Claimable(t) ==
  {k \in DOMAIN reminders :
     /\ reminders[k].state = "pending"
     /\ reminders[k].createdAt <= t
     /\ reminders[k].nextAttempt = None \/ reminders[k].nextAttempt <= t
     /\ ~Locked(k)}

\* ORDER BY created_at: the oldest first.
ClaimReminder(w) ==
  /\ pc[w] = "deliver"
  /\ \E k \in Claimable(now[w]) :
       /\ \A j \in Claimable(now[w]) : reminders[k].createdAt <= reminders[j].createdAt
       /\ sending' = [sending EXCEPT ![w] = k]
  /\ GoTo(w, "send")
  /\ UNCHANGED <<clock, rows, accepted, now, due, tried, met, failures>>

NothingToSend(w) ==
  /\ pc[w] = "deliver" /\ Claimable(now[w]) = {}
  /\ GoIdle(w)
  /\ UNCHANGED <<clock, rows, accepted, due, sending, met, failures>>

\* The provider takes the message, and says so within the deadline of the send ...
SendTaken(w) ==
  /\ pc[w] = "send"
  /\ accepted' = accepted \cup {sending[w]}
  /\ GoTo(w, "sent")
  /\ UNCHANGED <<clock, rows, now, due, sending, tried, met, failures>>

\* ... or it refuses, throws, or does not answer in time: then it may have
\* taken the message all the same.
SendRefused(w) ==
  /\ pc[w] = "send" /\ failures > 0
  /\ failures' = failures - 1
  /\ \/ UNCHANGED accepted
     \/ accepted' = accepted \cup {sending[w]}
  /\ GoTo(w, "failed")
  /\ UNCHANGED <<clock, rows, now, due, sending, tried, met>>

\* The row is settled, unlocked, and the loop asks for the next one.
Settle(w, row) ==
  /\ reminders' = [reminders EXCEPT ![sending[w]] = row]
  /\ tried' = [tried EXCEPT ![w] = @ \cup {sending[w]}]
  /\ sending' = [sending EXCEPT ![w] = None]
  /\ GoTo(w, "deliver")
  /\ UNCHANGED <<clock, deadline, accepted, now, due, met, failures>>

MarkSent(w) ==
  /\ pc[w] = "sent"
  /\ Settle(w, [reminders[sending[w]] EXCEPT !.state = "sent"])

\* make_interval(mins => LEAST(n * n, 60)).
Delay(n) == IF n * n < MaxDelay THEN n * n ELSE MaxDelay

Tries(n) == n + 1

\* Fault: given up one attempt before the last.
SoonExhausted(n) == n + 1 >= MaxTries

Exhausted(n) == n >= MaxTries

MarkFailed(w) ==
  /\ pc[w] = "failed"
  /\ LET row == reminders[sending[w]]
         n == Tries(row.attempts)
     IN  Settle(w, [row EXCEPT
           !.attempts = n,
           !.state = IF Exhausted(n) THEN "failed" ELSE "pending",
           !.nextAttempt = IF Exhausted(n) THEN None ELSE now[w] + Delay(n)])

---------------------------------------------------------------------------
(* Faults *)

\* A reminder that could not be inserted: logged, and the scan goes on.
SkipReminder(w) ==
  /\ pc[w] = "materialize" /\ failures > 0
  /\ failures' = failures - 1
  /\ \E k \in due[w] : due' = [due EXCEPT ![w] = @ \ {k}]
  /\ UNCHANGED <<clock, rows, accepted, pc, now, sending, tried, met>>

\* A crash, or an error of the database: ROLLBACK, the row is free again, and
\* the rest of the cycle has no reminders.
Abort(w) ==
  /\ pc[w] # "idle" /\ failures > 0
  /\ failures' = failures - 1
  /\ GoIdle(w)
  /\ due' = [due EXCEPT ![w] = {}]
  /\ sending' = [sending EXCEPT ![w] = None]
  /\ UNCHANGED <<clock, rows, accepted, met>>

Tick ==
  /\ clock < Horizon
  /\ clock' = clock + 1
  /\ UNCHANGED <<rows, accepted, loops, met, failures>>

---------------------------------------------------------------------------
Init ==
  /\ clock = 0
  /\ deadline = [s \in Switches |-> Interval]
  /\ reminders = [k \in {} |-> None]
  /\ accepted = {}
  /\ pc = [w \in Workers |-> "idle"]
  /\ now = [w \in Workers |-> 0]
  /\ due = [w \in Workers |-> {}]
  /\ sending = [w \in Workers |-> None]
  /\ tried = [w \in Workers |-> {}]
  /\ met = {}
  /\ failures = Failures

CycleStep(w) ==
  \/ StartCycle(w) \/ Scan(w) \/ Materialize(w) \/ Materialized(w)
  \/ ClaimReminder(w) \/ NothingToSend(w) \/ SendTaken(w) \/ SendRefused(w)
  \/ MarkSent(w) \/ MarkFailed(w)

Next ==
  \/ \E s \in Switches : CheckIn(s) \/ Stop(s) \/ Arm(s) \/ Delete(s)
  \/ \E w \in Workers : CycleStep(w) \/ SkipReminder(w) \/ Abort(w)
  \/ Tick

Spec == Init /\ [][Next]_vars

\* Loops go on (scheduleNextTick), providers answer or run into the deadline of
\* the send, time passes.  Faults end by themselves.
FairSpec == Spec /\ WF_vars(Tick) /\ \A w \in Workers : WF_vars(CycleStep(w))

---------------------------------------------------------------------------
TypeOK ==
  /\ clock \in Nat /\ failures \in Nat
  /\ DOMAIN deadline \subseteq Switches
  /\ deadline \in [DOMAIN deadline -> Nat \cup {None}]
  /\ DOMAIN reminders \subseteq Key /\ reminders \in [DOMAIN reminders -> Reminder]
  /\ accepted \subseteq Key /\ met \subseteq Switches \X Nat \X Nat
  /\ pc \in [Workers -> Pcs] /\ now \in [Workers -> Nat]
  /\ due \in [Workers -> SUBSET Key] /\ tried \in [Workers -> SUBSET Key]
  /\ \A w \in Workers : sending[w] = None \/ sending[w] \in DOMAIN reminders

\* The owner who checked in before a stage of the deadline was reached is not
\* reminded of it, whatever the scan saw (materializeDueOwnerReminders).
OnlyOfMissed ==
  \A k \in DOMAIN reminders, m \in met :
    m[1] = k[1] /\ m[2] = k[2] => k[2] + StageLag(k[3]) <= m[3] + SkewBudget

\* One loop at a time sends a reminder, and none sends it twice in a cycle, so
\* that the for (;;) of deliverPendingOwnerReminders ends.
OneSenderOnce ==
  \A w \in Workers : sending[w] # None =>
    /\ sending[w] \notin tried[w]
    /\ \A v \in Workers \ {w} : sending[v] # sending[w]

\* "sent" is only said of what the provider took; "failed" only after all the
\* attempts; what is neither will be attempted again.
SettledHonestly ==
  \A k \in DOMAIN reminders :
    LET row == reminders[k]
    IN  /\ row.state = "sent" => k \in accepted
        /\ row.state = "failed" <=> row.attempts >= MaxTries
        /\ row.state = "pending" /\ row.attempts > 0 => row.nextAttempt # None

\* A settled reminder is never sent again, nor is its outcome changed, by a
\* later scan of the same missed deadline or by a slower loop.
Final == {"sent", "failed"}
SettledStays ==
  [][\A k \in DOMAIN reminders \cap DOMAIN reminders' :
       reminders[k].state \in Final => reminders'[k] = reminders[k]]_vars

\* An owner who stays silent hears of it, or the e-mail has failed for good, or
\* its next attempt lies beyond modelled time ("Every active switch emails you a
\* reminder when its deadline passes", README.md).
Silent(k) == Live(k[1]) /\ deadline[k[1]] = k[2] /\ k[2] + StageLag(k[3]) <= clock
Settled(k) ==
  k \in DOMAIN reminders /\ (reminders[k].state \in Final
    \/ (reminders[k].nextAttempt # None /\ reminders[k].nextAttempt > Horizon))
OwnerHears ==
  \A k \in Switches \X (1..Horizon) \X Stages :
    Silent(k) ~> (Settled(k) \/ ~Silent(k))
=============================================================================
