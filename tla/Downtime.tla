----------------------------- MODULE Downtime -----------------------------
(***************************************************************************)
(* apps/api/src/lib/downtime.ts: what a scheduler tick does about the time *)
(* the scheduler itself was down, before it materializes anything.         *)
(***************************************************************************)
EXTENDS TriggerEngine

\* runSchedulerCycle reads the host clock once checkClockSkew let it pass; a
\* clock beyond the budget holds the cycle, which leaves the loop idle.
BeginCycle(w) ==
  /\ pc[w] = "idle"
  /\ \E t \in HostTimes : now' = [now EXCEPT ![w] = t]
  /\ Goto(w, "recover")
  /\ UNCHANGED <<clock, tables, affected, snapshot, claim, batch, requests>>

Outage(t) == lastTick # None /\ t > lastTick + OutageGap

\* AFFECTED_SQL: the deadline passed while nobody was looking.
AffectedSwitches(t) ==
  {s \in DOMAIN switches :
     /\ switches[s].status = "active"
     /\ Reached(switches[s].nextDeadline, t)
     /\ switches[s].nextDeadline > lastTick
     /\ <<s, switches[s].nextDeadline>> \notin DOMAIN jobs}

RecoverScan(w) ==
  /\ pc[w] = "recover"
  /\ \/ /\ Outage(now[w])
        /\ affected' = [affected EXCEPT ![w] = AffectedSwitches(now[w])]
        /\ Goto(w, "compensate")
     \/ /\ ~Outage(now[w])
        /\ UNCHANGED affected
        /\ Goto(w, "promote")
  /\ UNCHANGED <<clock, tables, now, snapshot, claim, batch, requests>>

\* Fault: the grace window is not added.
NoGrace(s) == switches[s].nextDeadline

GraceEnd(s) == switches[s].nextDeadline + Grace

\* The inserts read the deadlines again, which a check-in may have moved and
\* a disarm cleared since the ids were selected.
RecoverWrite(w) ==
  /\ pc[w] = "compensate"
  /\ LET hit     == {s \in affected[w] \cap DOMAIN switches :
                       switches[s].nextDeadline # None}
         waiting == {s \in hit : GraceEnd(s) > now[w]}
         missed  == {<<s, switches[s].nextDeadline>> : s \in hit \ waiting}
     IN  /\ waits' = [s \in Switches |-> IF s \in waiting THEN GraceEnd(s) ELSE waits[s]]
         /\ jobs' = InsertNew(jobs, [k \in missed |-> PendingJob("backfilled", now[w])])
  /\ affected' = [affected EXCEPT ![w] = {}]
  /\ Goto(w, "promote")
  /\ UNCHANGED <<clock, switches, recipients, deliveries, deadLetters, lastTick,
                 now, snapshot, claim, batch, requests>>

PromoteDueWaits(w) ==
  /\ pc[w] = "promote"
  /\ waits' = [s \in Switches |-> IF Reached(waits[s], now[w]) THEN None ELSE waits[s]]
  /\ Goto(w, "scan")
  /\ UNCHANGED <<clock, switches, recipients, jobs, deliveries, deadLetters,
                 lastTick, now, affected, snapshot, claim, batch, requests>>

\* The upsert of scheduler_heartbeat that ends runSchedulerTick.
RecordTick(w) ==
  /\ pc[w] = "beat"
  /\ lastTick' = now[w]
  /\ Goto(w, "reap")
  /\ UNCHANGED <<clock, switches, recipients, waits, jobs, deliveries, deadLetters,
                 now, affected, snapshot, claim, batch, requests>>
===========================================================================
