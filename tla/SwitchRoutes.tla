--------------------------- MODULE SwitchRoutes ---------------------------
(***************************************************************************)
(* The HTTP handlers that write the tables of the release path:            *)
(* routes/heartbeat.ts, routes/triggers.ts and routes/switches.ts.  Each   *)
(* handler reads the switch and may refuse (Receive), and only then opens  *)
(* the transaction that acts (one action per handler below).  What a       *)
(* scheduler commits in between is what the handler did not see.           *)
(*                                                                         *)
(* Authentication, TOTP step-up, rate limits and the audit log decide who  *)
(* may ask, not what a request does to these tables; they are not here.    *)
(***************************************************************************)
EXTENDS VaultStore

KnownOps == {"check-in", "cancel", "disarm", "arm", "dry-run", "delete",
             "fixed-date", "panic", "accept", "remove-recipient"}

ASSUME OpsAssumption == Ops \subseteq KnownOps

\* The early returns of the cancel handler: 409 released, 409 not_pending.
CancelAllowed(s) == switches[s].status = "active"

\* The early returns of each handler, on the switch as it was first read.
Accepts(op, s) ==
  /\ s \in DOMAIN switches
  /\ op = "check-in" => switches[s].status = "active"
  /\ op = "cancel" => CancelAllowed(s)
  /\ op = "arm" => switches[s].status # "active"
  /\ op = "accept" => \E r \in Recipients : recipients[s][r] = "invited"
  /\ op \in {"delete", "fixed-date", "panic"} => switches[s].status # "released"

Receive(q) ==
  /\ requests[q] = None
  /\ \E op \in Ops, s \in Switches :
       /\ Accepts(op, s)
       /\ requests' = [requests EXCEPT ![q] = [op |-> op, switch |-> s]]
  /\ UNCHANGED <<clock, tables, loops>>

Asks(q, op) == requests[q] # None /\ requests[q].op = op

\* The handler's transaction ends, committed or rolled back.
Reply(q) ==
  /\ requests' = [requests EXCEPT ![q] = None]
  /\ UNCHANGED <<clock, loops>>

\* UPDATE switches SET ... WHERE id = s AND status IN statuses.
UpdateSwitch(s, statuses, row) ==
  switches' = [t \in DOMAIN switches |->
    IF t = s /\ switches[t].status \in statuses THEN row ELSE switches[t]]

---------------------------------------------------------------------------
(* routes/heartbeat.ts *)

\* recordHeartbeat: only an active switch gets a new deadline, but the wait
\* goes in any case.  A deleted switch fails the insert into heartbeats.
CheckIn(q) ==
  /\ Asks(q, "check-in")
  /\ LET s == requests[q].switch
     IN  \/ /\ s \in DOMAIN switches
            /\ UpdateSwitch(s, {"active"},
                 [switches[s] EXCEPT !.nextDeadline = clock + Interval])
            /\ waits' = [waits EXCEPT ![s] = None]
         \/ /\ s \notin DOMAIN switches
            /\ UNCHANGED <<switches, waits>>
  /\ Reply(q)
  /\ UNCHANGED <<recipients, jobs, deliveries, deadLetters, lastTick>>

---------------------------------------------------------------------------
(* routes/triggers.ts *)

\* Jobs of s that are still open are cancelled, whoever is running them.
WithoutOpenJobs(s) ==
  [k \in DOMAIN jobs |->
     IF k[1] = s /\ jobs[k].state \in OpenStates
     THEN [jobs[k] EXCEPT !.state = "cancelled"] ELSE jobs[k]]

\* Deliveries still inside their cancellation window.
WithoutQueuedDeliveries(s) ==
  [x \in DOMAIN deliveries |->
     IF /\ x[1] = s
        /\ deliveries[x].state = "pending"
        /\ deliveries[x].availableAt > clock
     THEN [deliveries[x] EXCEPT !.state = "cancelled"] ELSE deliveries[x]]

Cancel(q) ==
  /\ Asks(q, "cancel")
  /\ LET s == requests[q].switch
     IN  \/ /\ s \in DOMAIN switches
            /\ CancelAllowed(s)
            /\ UpdateSwitch(s, {"active"},
                 [switches[s] EXCEPT !.status = "paused",
                                     !.nextDeadline = None, !.fireAt = None])
            /\ jobs' = WithoutOpenJobs(s)
            /\ deliveries' = WithoutQueuedDeliveries(s)
         \/ /\ s \in DOMAIN switches => ~CancelAllowed(s)
            /\ UNCHANGED <<switches, jobs, deliveries>>
  /\ Reply(q)
  /\ UNCHANGED <<recipients, waits, deadLetters, lastTick>>

\* A date is compared with the host clock and must lie ahead of it.
SetFixedDate(q) ==
  /\ Asks(q, "fixed-date")
  /\ LET s == requests[q].switch
     IN  \E date \in (clock + 1)..(clock + Interval) :
           UpdateSwitch(s, Statuses,
             [switches[s] EXCEPT !.triggerType = "fixed_date", !.fireAt = date])
  /\ Reply(q)
  /\ UNCHANGED <<recipients, waits, jobs, deliveries, deadLetters, lastTick>>

SetPanic(q) ==
  /\ Asks(q, "panic")
  /\ LET s == requests[q].switch
     IN  UpdateSwitch(s, Statuses,
           [switches[s] EXCEPT !.triggerType = "panic", !.fireAt = clock])
  /\ Reply(q)
  /\ UNCHANGED <<recipients, waits, jobs, deliveries, deadLetters, lastTick>>

---------------------------------------------------------------------------
(* routes/switches.ts *)

\* Blocked in the transaction when no recipient accepted (the payload a switch
\* needs as well is taken to be there).  The status is not looked at again.
Arm(q) ==
  /\ Asks(q, "arm")
  /\ LET s == requests[q].switch
     IN  \/ /\ Accepted(s) # {}
            /\ UpdateSwitch(s, Statuses,
                 [switches[s] EXCEPT !.status = "active",
                                     !.nextDeadline = clock + Interval])
         \/ Accepted(s) = {} /\ UNCHANGED switches
  /\ Reply(q)
  /\ UNCHANGED <<recipients, waits, jobs, deliveries, deadLetters, lastTick>>

Disarm(q) ==
  /\ Asks(q, "disarm")
  /\ LET s == requests[q].switch
     IN  UpdateSwitch(s, {"active", "paused"},
           [switches[s] EXCEPT !.status = "paused", !.nextDeadline = None])
  /\ Reply(q)
  /\ UNCHANGED <<recipients, waits, jobs, deliveries, deadLetters, lastTick>>

\* PATCH: the field the release path reads is dry_run.
PatchDryRun(q) ==
  /\ Asks(q, "dry-run")
  /\ LET s == requests[q].switch
     IN  \E dryRun \in BOOLEAN :
           UpdateSwitch(s, Statuses, [switches[s] EXCEPT !.dryRun = dryRun])
  /\ Reply(q)
  /\ UNCHANGED <<recipients, waits, jobs, deliveries, deadLetters, lastTick>>

DeleteSwitch(q) ==
  /\ Asks(q, "delete")
  /\ LET s == requests[q].switch
     IN  /\ switches' = [t \in DOMAIN switches \ {s} |-> switches[t]]
         /\ recipients' = [recipients EXCEPT ![s] = [r \in Recipients |-> "gone"]]
         /\ waits' = [waits EXCEPT ![s] = None]
         /\ jobs' = WithoutSwitch(jobs, s)
         /\ deliveries' = WithoutSwitch(deliveries, s)
  /\ Reply(q)
  /\ UNCHANGED <<deadLetters, lastTick>>

\* POST /api/recipients/accept: UPDATE ... WHERE status = 'invited'.
AcceptRecipient(q) ==
  /\ Asks(q, "accept")
  /\ LET s == requests[q].switch
     IN  \E r \in Recipients :
           recipients' = [recipients EXCEPT
             ![s][r] = IF @ = "invited" THEN "accepted" ELSE @]
  /\ Reply(q)
  /\ UNCHANGED <<switches, waits, jobs, deliveries, deadLetters, lastTick>>

\* A recipient may leave an armed switch.
RemoveRecipient(q) ==
  /\ Asks(q, "remove-recipient")
  /\ LET s == requests[q].switch
     IN  \E r \in Recipients :
           recipients' = [recipients EXCEPT ![s][r] = "gone"]
  /\ Reply(q)
  /\ UNCHANGED <<switches, waits, jobs, deliveries, deadLetters, lastTick>>

Commit(q) ==
  \/ CheckIn(q) \/ Cancel(q) \/ SetFixedDate(q) \/ SetPanic(q)
  \/ Arm(q) \/ Disarm(q) \/ PatchDryRun(q) \/ DeleteSwitch(q)
  \/ AcceptRecipient(q) \/ RemoveRecipient(q)
===========================================================================
