------------------------ MODULE OwnerRemindersProofs ------------------------
(***************************************************************************)
(* Owner reminders, for any number of switches and loops, any skew and any *)
(* number of faults.  Two things carry the proof:                          *)
(*   - time: a deadline is never set to what it was before an owner moved  *)
(*     it, so what a scan finds was not moved in time (Deadlines);         *)
(*   - the row lock: a row that is being sent is pending and due for the   *)
(*     loop that locked it, one that a loop has settled is not due for it  *)
(*     any more (Sending).                                                 *)
(***************************************************************************)
EXTENDS OwnerReminders, TLAPS

Types == TypeOK /\ sending \in [Workers -> Key \cup {None}]

\* Deadlines lie ahead of the moves that set them, and only grow.
DeadlinesGrow ==
  /\ \A s \in DOMAIN deadline : deadline[s] # None => deadline[s] <= clock + Interval
  /\ \A m \in met : /\ m[1] \in DOMAIN deadline /\ m[2] < clock + Interval
                    /\ Live(m[1]) => m[2] < deadline[m[1]]

\* The stage was reached, and before the owner moved the deadline, if at all.
Missed(k) ==
  /\ k[2] + StageLag(k[3]) <= clock + SkewBudget
  /\ \A m \in met : m[1] = k[1] /\ m[2] = k[2] => k[2] + StageLag(k[3]) <= m[3] + SkewBudget

Deadlines ==
  /\ DeadlinesGrow
  /\ \A w \in Workers : now[w] <= clock + SkewBudget /\ \A k \in due[w] : Missed(k)
  /\ \A k \in DOMAIN reminders : Missed(k)

\* What nextAttempt says at time t.
DueAt(row, t) == row.state = "pending" /\ (row.nextAttempt = None \/ row.nextAttempt <= t)

Sending ==
  /\ \A k \in DOMAIN reminders : k[1] \in DOMAIN deadline
  /\ \A w \in Workers :
       /\ sending[w] # None <=> pc[w] \in {"send", "sent", "failed"}
       /\ sending[w] # None => DueAt(reminders[sending[w]], now[w])
       /\ pc[w] = "idle" => tried[w] = {}
       /\ pc[w] = "sent" => sending[w] \in accepted
       /\ \A k \in tried[w] : k[1] \in DOMAIN deadline =>
            k \in DOMAIN reminders /\ ~DueAt(reminders[k], now[w])

IInv == Types /\ Deadlines /\ OneSenderOnce /\ Sending /\ SettledHonestly

LEMMA InitInv == Init => IInv
<1> SUFFICES ASSUME Init PROVE IInv
  OBVIOUS
<1> USE RemindersAssumption, KeysAssumption
<1>1. DOMAIN reminders = {} /\ reminders \in [{} -> Reminder]
  BY DEF Init
<1>2. Types
  BY <1>1 DEF Init, Types, TypeOK, Pcs
<1>3. Deadlines
  BY <1>1 DEF Init, Deadlines, DeadlinesGrow
<1>4. OneSenderOnce /\ Sending /\ SettledHonestly
  BY <1>1 DEF Init, OneSenderOnce, Sending, SettledHonestly
<1> QED BY <1>2, <1>3, <1>4 DEF IInv
-----------------------------------------------------------------------------
(* Types.                                                                  *)

LEMMA TickTypes ==
  ASSUME NEW t \in HostTimes, clock \in Nat
  PROVE  t \in Nat /\ t <= clock + SkewBudget
BY RemindersAssumption DEF HostTimes

LEMMA DelayType ==
  ASSUME NEW n \in Nat \ {0}
  PROVE  Delay(n) \in Nat \ {0}
<1>1. n * n \in Nat /\ n * n # 0
  BY SMT
<1> QED BY <1>1, RemindersAssumption DEF Delay

\* A settled row is the one that was sent, with what became of it.
LEMMA SettleTypes ==
  ASSUME IInv, NEW w \in Workers, MarkSent(w) \/ MarkFailed(w)
  PROVE  \E row \in Reminder :
           /\ Settle(w, row) /\ sending[w] \in DOMAIN reminders
           /\ ~DueAt(row, now[w])
           /\ \/ MarkSent(w) /\ row = [reminders[sending[w]] EXCEPT !.state = "sent"]
              \/ /\ row.attempts = reminders[sending[w]].attempts + 1
                 /\ row.state = IF Exhausted(row.attempts) THEN "failed" ELSE "pending"
                 /\ row.state = "pending" => row.nextAttempt # None
<1>0. /\ sending[w] # None /\ sending[w] \in DOMAIN reminders
      /\ reminders[sending[w]] \in Reminder /\ now[w] \in Nat
  BY DEF IInv, Types, TypeOK, Sending, MarkSent, MarkFailed
<1>1. CASE MarkSent(w)
  BY <1>0, <1>1 DEF MarkSent, Reminder, DueAt
<1>2. CASE MarkFailed(w)
  <2> DEFINE old == reminders[sending[w]]
             n == old.attempts + 1
  <2>1. n \in Nat \ {0} /\ Delay(n) \in Nat \ {0}
    BY <1>0, DelayType DEF Reminder
  <2> DEFINE state == IF Exhausted(n) THEN "failed" ELSE "pending"
             next == IF Exhausted(n) THEN None ELSE now[w] + Delay(n)
             counted == [old EXCEPT !.attempts = n]
             judged == [counted EXCEPT !.state = state]
             row == [judged EXCEPT !.nextAttempt = next]
  <2>2. Settle(w, row)
    BY <1>2 DEF MarkFailed, Tries
  <2>3. /\ state \in {"failed", "pending"} /\ next \in Nat \cup {None}
        /\ state = "pending" => next # None /\ ~(next <= now[w])
    BY <1>0, <2>1, RemindersAssumption
  <2>4. state = IF Exhausted(n) THEN "failed" ELSE "pending"
    OBVIOUS
  <2> HIDE DEF n, state, next
  <2>5. counted \in Reminder /\ counted.attempts = n
    BY <1>0, <2>1 DEF Reminder
  <2> HIDE DEF counted
  <2>6. judged \in Reminder /\ judged.attempts = n /\ judged.state = state
    BY <2>3, <2>5 DEF Reminder
  <2> HIDE DEF judged
  <2>7. /\ row \in Reminder /\ row.attempts = n /\ row.state = state
        /\ row.nextAttempt = next
    BY <2>3, <2>6 DEF Reminder
  <2> HIDE DEF row
  <2>8. ~DueAt(row, now[w]) /\ (row.state = "pending" => row.nextAttempt # None)
    BY <2>3, <2>7 DEF DueAt
  <2> QED BY <1>0, <2>2, <2>4, <2>7, <2>8 DEF n
<1> QED BY <1>1, <1>2

\* What a row of the scan becomes: its key is new, or nothing changes.
LEMMA MaterializeTypes ==
  ASSUME IInv, NEW w \in Workers, Materialize(w)
  PROVE  \E k \in due[w] :
           /\ ~Locked(k) /\ due' = [due EXCEPT ![w] = @ \ {k}]
           /\ \/ reminders' = reminders
              \/ \E row \in Reminder :
                   /\ k \notin DOMAIN reminders /\ k[1] \in DOMAIN deadline
                   /\ reminders' = [x \in DOMAIN reminders \cup {k} |->
                                      IF x = k THEN row ELSE reminders[x]]
                   /\ row.state = "pending" /\ row.attempts = 0 /\ row.nextAttempt = None
<1>1. PICK k \in due[w] :
        /\ ~Locked(k) /\ due' = [due EXCEPT ![w] = @ \ {k}]
        /\ reminders' = IF k[1] \in DOMAIN deadline
             THEN InsertNew(k, [state |-> "pending", attempts |-> 0,
                                createdAt |-> now[w], nextAttempt |-> None])
             ELSE reminders
  BY DEF Materialize
<1>2. reminders = [x \in DOMAIN reminders |-> reminders[x]] /\ now[w] \in Nat
  BY DEF IInv, Types, TypeOK
<1>3. PICK row : row = [state |-> "pending", attempts |-> 0,
                        createdAt |-> now[w], nextAttempt |-> None]
  OBVIOUS
<1>4. /\ row \in Reminder
      /\ row.state = "pending" /\ row.attempts = 0 /\ row.nextAttempt = None
  BY <1>2, <1>3 DEF Reminder
<1>5. CASE k \in DOMAIN reminders \/ k[1] \notin DOMAIN deadline
  BY <1>1, <1>2, <1>5 DEF InsertNew
<1>6. CASE k \notin DOMAIN reminders /\ k[1] \in DOMAIN deadline
  <2>1. reminders' = InsertNew(k, row)
    BY <1>1, <1>3, <1>6
  <2>2. reminders' = [x \in DOMAIN reminders \cup {k} |-> IF x = k THEN row ELSE reminders[x]]
    BY <1>6, <2>1 DEF InsertNew
  <2> QED BY <1>1, <1>4, <1>6, <2>2
<1> QED BY <1>1, <1>5, <1>6

LEMMA MaterializedKeys ==
  ASSUME IInv, NEW w \in Workers, Materialize(w)
  PROVE  DOMAIN reminders' \subseteq DOMAIN reminders \cup due[w]
<1>1. PICK k \in due[w] :
        /\ due' = [due EXCEPT ![w] = @ \ {k}]
        /\ \/ reminders' = reminders
           \/ \E row \in Reminder : reminders' =
                [x \in DOMAIN reminders \cup {k} |-> IF x = k THEN row ELSE reminders[x]]
  BY MaterializeTypes, ZenonT(30)
<1> QED BY <1>1

LEMMA TypesStep ==
  ASSUME IInv, Next
  PROVE  Types'
<1> USE RemindersAssumption DEF Types, TypeOK
<1>0. Types
  BY DEF IInv
<1>1. ASSUME NEW s \in Switches, CheckIn(s) PROVE Types'
  BY <1>0, <1>1 DEF CheckIn, Live, SetDeadline, loops
<1>2. ASSUME NEW s \in Switches, Stop(s) PROVE Types'
  BY <1>0, <1>2 DEF Stop, Live, SetDeadline, loops
<1>3. ASSUME NEW s \in Switches, Arm(s) PROVE Types'
  BY <1>0, <1>3 DEF Arm, Live, SetDeadline, loops
<1>4. ASSUME NEW s \in Switches, Delete(s) PROVE Types'
  BY <1>0, <1>4 DEF Delete, loops
<1>5. ASSUME NEW w \in Workers, StartCycle(w) PROVE Types'
  BY <1>0, <1>5, TickTypes DEF StartCycle, GoTo, rows, Pcs
<1>6. ASSUME NEW w \in Workers, Scan(w) PROVE Types'
  BY <1>0, <1>6 DEF Scan, GoTo, rows, Pcs, DueReminders
<1>7. ASSUME NEW w \in Workers, Materialize(w) PROVE Types'
  <2>1. PICK k \in due[w] :
          /\ due' = [due EXCEPT ![w] = @ \ {k}]
          /\ \/ reminders' = reminders
             \/ \E row \in Reminder : reminders' =
                  [x \in DOMAIN reminders \cup {k} |-> IF x = k THEN row ELSE reminders[x]]
    BY <1>7, MaterializeTypes
  <2>2. k \in Key /\ DOMAIN reminders \subseteq DOMAIN reminders'
    BY <1>0, <2>1
  <2>3. DOMAIN reminders' \subseteq Key /\ reminders' \in [DOMAIN reminders' -> Reminder]
    BY <1>0, <2>1, <2>2
  <2>4. due' \in [Workers -> SUBSET Key]
    BY <1>0, <2>1
  <2> QED BY <1>0, <1>7, <2>2, <2>3, <2>4 DEF Materialize
<1>8. ASSUME NEW w \in Workers,
             Materialized(w) \/ NothingToSend(w) \/ SendTaken(w) \/ SendRefused(w)
      PROVE  Types'
  <2>1. pc' \in [Workers -> Pcs] /\ now' \in [Workers -> Nat] /\ tried' \in [Workers -> SUBSET Key]
    BY <1>0, <1>8
       DEF Materialized, NothingToSend, SendTaken, SendRefused, GoTo, GoIdle, rows, Pcs
  <2>2. accepted' \subseteq Key
    BY <1>0, <1>8 DEF Materialized, NothingToSend, SendTaken, SendRefused, IInv, Sending
  <2>3. UNCHANGED <<clock, deadline, reminders, due, sending, met>> /\ failures' \in Nat
    BY <1>0, <1>8 DEF Materialized, NothingToSend, SendTaken, SendRefused, rows
  <2> QED BY <1>0, <2>1, <2>2, <2>3
<1>9. ASSUME NEW w \in Workers, ClaimReminder(w) PROVE Types'
  BY <1>0, <1>9 DEF ClaimReminder, GoTo, rows, Pcs, Claimable
<1>10. ASSUME NEW w \in Workers, MarkSent(w) \/ MarkFailed(w) PROVE Types'
  <2>1. PICK row \in Reminder : Settle(w, row) /\ sending[w] \in DOMAIN reminders
    BY <1>10, SettleTypes
  <2>2. /\ DOMAIN reminders' = DOMAIN reminders
        /\ reminders' \in [DOMAIN reminders -> Reminder]
    BY <1>0, <2>1 DEF Settle
  <2>3. /\ sending' \in [Workers -> Key \cup {None}] /\ tried' \in [Workers -> SUBSET Key]
        /\ pc' \in [Workers -> Pcs]
        /\ \A v \in Workers : sending'[v] = None \/ sending'[v] \in DOMAIN reminders
    BY <1>0, <2>1 DEF Settle, GoTo, Pcs
  <2> QED BY <1>0, <2>1, <2>2, <2>3 DEF Settle
<1>11. ASSUME NEW w \in Workers, SkipReminder(w) PROVE Types'
  BY <1>0, <1>11 DEF SkipReminder, rows
<1>12. ASSUME NEW w \in Workers, Abort(w) PROVE Types'
  BY <1>0, <1>12 DEF Abort, GoIdle, GoTo, rows, Pcs
<1>13. CASE Tick
  BY <1>0, <1>13 DEF Tick, rows, loops
<1> QED BY <1>1, <1>2, <1>3, <1>4, <1>5, <1>6, <1>7, <1>8, <1>9, <1>10, <1>11, <1>12, <1>13
        DEF Next, CycleStep
-----------------------------------------------------------------------------
(* Time.                                                                   *)

\* What was reached stays reached; a move made now comes after it.
LEMMA MissedKept ==
  ASSUME IInv, clock' \in Nat, clock <= clock',
         \A m \in met' : m \in met \/ m[3] = clock,
         NEW k \in Key, Missed(k)
  PROVE  Missed(k)'
<1>1. /\ clock \in Nat /\ SkewBudget \in Nat /\ k[2] + StageLag(k[3]) \in Nat
  BY RemindersAssumption DEF IInv, Types, TypeOK, Key, StageLag
<1>2. k[2] + StageLag(k[3]) <= clock' + SkewBudget
  BY <1>1 DEF Missed
<1>3. ASSUME NEW m \in met', m[1] = k[1], m[2] = k[2]
      PROVE  k[2] + StageLag(k[3]) <= m[3] + SkewBudget
  BY <1>3 DEF Missed
<1> QED BY <1>2, <1>3 DEF Missed

\* What a scan finds, nobody moved: the deadline is later than every one that was moved.
LEMMA ScanMissed ==
  ASSUME IInv, NEW w \in Workers, NEW k \in DueReminders(now[w])
  PROVE  Missed(k)
<1> USE RemindersAssumption
<1>1. /\ k \in Key /\ k[1] \in DOMAIN deadline /\ Live(k[1]) /\ k[2] = deadline[k[1]]
      /\ k[2] + StageLag(k[3]) <= now[w]
  BY DEF DueReminders, Reached, Live
<1>2. k[2] \in Nat /\ StageLag(k[3]) \in Nat /\ clock \in Nat /\ now[w] \in Nat
  BY <1>1 DEF Key, StageLag, IInv, Types, TypeOK
<1>3. now[w] <= clock + SkewBudget
  BY DEF IInv, Deadlines
<1>4. ASSUME NEW m \in met, m[1] = k[1], m[2] = k[2] PROVE FALSE
  <2>1. m[2] < deadline[m[1]]
    BY <1>1, <1>4 DEF IInv, Deadlines, DeadlinesGrow
  <2> QED BY <1>1, <1>2, <1>4, <2>1
<1> QED BY <1>1, <1>2, <1>3, <1>4 DEF Missed

\* Deadlines are set by owners, and moves are recorded when they check in.
LEMMA GrowStep ==
  ASSUME IInv, Next
  PROVE  /\ DeadlinesGrow'
         /\ \A m \in met' : m \in met \/ m[3] = clock
         /\ clock <= clock'
<1> USE RemindersAssumption
<1>0. /\ clock \in Nat /\ met \subseteq Switches \X Nat \X Nat
      /\ DOMAIN deadline \subseteq Switches
      /\ deadline \in [DOMAIN deadline -> Nat \cup {None}] /\ DeadlinesGrow
  BY DEF IInv, Types, TypeOK, Deadlines
<1>1. ASSUME NEW s \in Switches, CheckIn(s)
      PROVE  DeadlinesGrow' /\ \A m \in met' : m \in met \/ m[3] = clock
  <2>1. /\ s \in DOMAIN deadline /\ deadline[s] \in Nat
        /\ deadline' = [deadline EXCEPT ![s] = clock + Interval] /\ clock' = clock
        /\ deadline[s] <= clock + Interval
    BY <1>0, <1>1 DEF CheckIn, Live, SetDeadline, DeadlinesGrow
  <2>2. ASSUME NEW m \in met', m \notin met
        PROVE  m[1] = s /\ m[2] = deadline[s] /\ m[3] = clock /\ deadline[s] # clock + Interval
    BY <1>1, <2>1, <2>2 DEF CheckIn
  <2>3. \A t \in DOMAIN deadline' : deadline'[t] # None => deadline'[t] <= clock' + Interval
    BY <1>0, <2>1 DEF DeadlinesGrow
  <2>4. ASSUME NEW m \in met'
        PROVE  /\ m[1] \in DOMAIN deadline' /\ m[2] < clock' + Interval
               /\ Live(m[1])' => m[2] < deadline'[m[1]]
    <3>1. CASE m \in met
      BY <1>0, <2>1, <3>1 DEF DeadlinesGrow, Live
    <3>2. CASE m \notin met
      BY <1>0, <2>1, <2>2, <3>2 DEF Live
    <3> QED BY <3>1, <3>2
  <2> QED BY <2>2, <2>3, <2>4 DEF DeadlinesGrow
<1>2. ASSUME NEW s \in Switches, Stop(s) PROVE DeadlinesGrow'
  BY <1>0, <1>2 DEF Stop, SetDeadline, DeadlinesGrow, Live
<1>3. ASSUME NEW s \in Switches, Arm(s) PROVE DeadlinesGrow'
  BY <1>0, <1>3 DEF Arm, SetDeadline, DeadlinesGrow, Live
<1>4. ASSUME NEW s \in Switches, Delete(s)
      PROVE  DeadlinesGrow' /\ met' \subseteq met
  BY <1>0, <1>4 DEF Delete, DeadlinesGrow, Live
<1>5. CASE Tick
  BY <1>0, <1>5 DEF Tick, rows, DeadlinesGrow, Live
<1>6. ASSUME NEW w \in Workers, CycleStep(w) \/ SkipReminder(w) \/ Abort(w)
      PROVE  UNCHANGED <<clock, deadline, met>>
  BY <1>6 DEF CycleStep, StartCycle, Scan, Materialize, Materialized, ClaimReminder,
     NothingToSend, SendTaken, SendRefused, MarkSent, MarkFailed, Settle, SkipReminder,
     Abort, rows
<1>7. CASE UNCHANGED <<clock, deadline, met>>
  BY <1>0, <1>7 DEF DeadlinesGrow, Live
<1>8. clock <= clock'
  <2>1. CASE \E s \in Switches : CheckIn(s) \/ Stop(s) \/ Arm(s) \/ Delete(s)
    BY <1>0, <2>1 DEF CheckIn, Stop, Arm, Delete
  <2> QED BY <1>0, <1>6, <2>1 DEF Next, Tick
<1> QED BY <1>1, <1>2, <1>3, <1>4, <1>5, <1>6, <1>7, <1>8
        DEF Next, Stop, Arm, Tick

LEMMA DeadlinesStep ==
  ASSUME IInv, Next
  PROVE  Deadlines'
<1> USE RemindersAssumption
<1>0. /\ clock \in Nat /\ clock' \in Nat /\ clock <= clock' /\ DeadlinesGrow'
      /\ now \in [Workers -> Nat] /\ due \in [Workers -> SUBSET Key]
      /\ DOMAIN reminders \subseteq Key
      /\ \A w \in Workers : now[w] <= clock + SkewBudget
  BY GrowStep, TypesStep DEF IInv, Types, TypeOK, Deadlines
<1>1. \A k \in Key : Missed(k) => Missed(k)'
  BY <1>0, GrowStep, MissedKept
<1>2. \A w \in Workers : now'[w] <= clock' + SkewBudget
  <2>1. CASE now' = now
    BY <1>0, <2>1
  <2>2. ASSUME NEW w \in Workers, StartCycle(w) PROVE \A v \in Workers : now'[v] <= clock' + SkewBudget
    BY <1>0, <2>2, TickTypes DEF StartCycle
  <2>3. ASSUME NEW w \in Workers, GoIdle(w) PROVE \A v \in Workers : now'[v] <= clock' + SkewBudget
    BY <1>0, <2>3 DEF GoIdle
  <2>4. ASSUME NEW w \in Workers, CycleStep(w) \/ SkipReminder(w) \/ Abort(w)
        PROVE  now' = now \/ StartCycle(w) \/ GoIdle(w)
    BY <2>4 DEF CycleStep, Scan, Materialize, Materialized, ClaimReminder, NothingToSend,
       SendTaken, SendRefused, MarkSent, MarkFailed, Settle, SkipReminder, Abort
  <2>5. ASSUME NEW s \in Switches, CheckIn(s) \/ Stop(s) \/ Arm(s) \/ Delete(s)
        PROVE  now' = now
    BY <2>5 DEF CheckIn, Stop, Arm, Delete, loops
  <2> QED BY <2>1, <2>2, <2>3, <2>4, <2>5 DEF Next, Tick, loops
<1>3. ASSUME NEW w \in Workers, NEW k \in due'[w] PROVE Missed(k)
  <2>1. CASE k \in due[w]
    BY <2>1 DEF IInv, Deadlines
  <2>2. CASE k \notin due[w]
    <3>1. ASSUME NEW v \in Workers, CycleStep(v) \/ SkipReminder(v) \/ Abort(v) PROVE Scan(v)
      BY <1>0, <1>3, <2>2, <3>1 DEF CycleStep, StartCycle, Materialize, Materialized,
         ClaimReminder, NothingToSend, SendTaken, SendRefused, MarkSent, MarkFailed, Settle,
         SkipReminder, Abort
    <3>2. ASSUME NEW s \in Switches, CheckIn(s) \/ Stop(s) \/ Arm(s) \/ Delete(s) PROVE FALSE
      BY <1>3, <2>2, <3>2 DEF CheckIn, Stop, Arm, Delete, loops
    <3>3. PICK v \in Workers : Scan(v)
      BY <1>3, <2>2, <3>1, <3>2 DEF Next, Tick, loops
    <3>4. k \in DueReminders(now[w])
      BY <1>0, <1>3, <2>2, <3>3 DEF Scan
    <3> QED BY <3>4, ScanMissed
  <2> QED BY <2>1, <2>2
<1>4. ASSUME NEW k \in DOMAIN reminders'
      PROVE  k \in DOMAIN reminders \/ \E w \in Workers : k \in due[w]
  <2>1. ASSUME NEW w \in Workers, Materialize(w)
        PROVE  k \in DOMAIN reminders \/ k \in due[w]
    BY <1>4, <2>1, MaterializedKeys
  <2>2. CASE \E w \in Workers : MarkSent(w) \/ MarkFailed(w)
    BY <1>4, <2>2 DEF MarkSent, MarkFailed, Settle
  <2>3. ASSUME NEW w \in Workers, CycleStep(w) \/ SkipReminder(w) \/ Abort(w),
               ~Materialize(w), ~MarkSent(w), ~MarkFailed(w)
        PROVE  reminders' = reminders
    BY <2>3 DEF CycleStep, StartCycle, Scan, Materialized, ClaimReminder, NothingToSend,
       SendTaken, SendRefused, SkipReminder, Abort, rows
  <2>4. ASSUME NEW s \in Switches, CheckIn(s) \/ Stop(s) \/ Arm(s) \/ Delete(s)
        PROVE  k \in DOMAIN reminders
    BY <1>4, <2>4 DEF CheckIn, Stop, Arm, Delete
  <2> QED BY <1>4, <2>1, <2>2, <2>3, <2>4 DEF Next, Tick, rows
<1>5. \A w \in Workers : \A k \in due'[w] : Missed(k)'
  BY <1>0, <1>1, <1>3, TypesStep DEF Types, TypeOK
<1>6. \A k \in DOMAIN reminders' : Missed(k)'
  BY <1>0, <1>1, <1>4 DEF IInv, Deadlines
<1> QED BY <1>0, <1>2, <1>5, <1>6 DEF Deadlines
-----------------------------------------------------------------------------
(* The row lock.                                                           *)

\* The rows a loop is sending and has settled, for every loop.
LEMMA SendingStep ==
  ASSUME IInv, Next
  PROVE  Sending' /\ OneSenderOnce'
<1> USE RemindersAssumption, KeysAssumption DEF Sending, OneSenderOnce
<1> DEFINE Goal == Sending' /\ OneSenderOnce'
<1>0. /\ Sending /\ OneSenderOnce
      /\ sending \in [Workers -> Key \cup {None}] /\ tried \in [Workers -> SUBSET Key]
      /\ \A w \in Workers : sending[w] = None \/ sending[w] \in DOMAIN reminders
      /\ pc \in [Workers -> Pcs] /\ now \in [Workers -> Nat]
      /\ DOMAIN reminders \subseteq Key /\ \A k \in DOMAIN reminders : reminders[k] \in Reminder
  BY DEF IInv, Types, TypeOK
<1>1. ASSUME NEW s \in Switches, CheckIn(s) \/ Stop(s) \/ Arm(s) PROVE Goal
  <2>1. DOMAIN deadline' = DOMAIN deadline /\ UNCHANGED <<reminders, accepted, pc, now, sending, tried>>
    BY <1>1 DEF CheckIn, Stop, Arm, SetDeadline, loops
  <2> QED BY <1>0, <2>1
<1>2. ASSUME NEW s \in Switches, Delete(s) PROVE Goal
  <2>1. /\ DOMAIN deadline' = DOMAIN deadline \ {s}
        /\ reminders' = [k \in {x \in DOMAIN reminders : x[1] # s} |-> reminders[k]]
        /\ accepted' = {k \in accepted : k[1] # s}
        /\ \A w \in Workers : sending[w] # None => sending[w][1] # s
        /\ UNCHANGED <<pc, now, sending, tried>>
    BY <1>2 DEF Delete, loops
  <2>2. \A k \in DOMAIN reminders' : k \in DOMAIN reminders /\ reminders'[k] = reminders[k]
    BY <2>1
  <2>3. \A k \in DOMAIN reminders : k[1] \in DOMAIN deadline' => k \in DOMAIN reminders'
    BY <2>1
  <2>4. \A w \in Workers : sending[w] # None =>
          sending[w] \in DOMAIN reminders' /\ (sending[w] \in accepted => sending[w] \in accepted')
    BY <1>0, <2>1
  <2> QED BY <1>0, <2>1, <2>2, <2>3, <2>4
<1>3. ASSUME NEW w \in Workers,
             StartCycle(w) \/ Scan(w) \/ Materialized(w) \/ SendTaken(w) \/ SendRefused(w)
      PROVE  Goal
  <2>1. /\ UNCHANGED <<deadline, reminders, sending, tried>>
        /\ accepted \subseteq accepted'
        /\ pc'[w] = "sent" => sending[w] \in accepted'
        /\ pc' = [pc EXCEPT ![w] = pc'[w]] /\ now' = [now EXCEPT ![w] = now'[w]]
        /\ pc'[w] # "idle"
        /\ pc'[w] \in {"send", "sent", "failed"} <=> pc[w] \in {"send", "sent", "failed"}
        /\ now'[w] = now[w] \/ pc[w] = "idle"
    BY <1>0, <1>3 DEF StartCycle, Scan, Materialized, SendTaken, SendRefused, GoTo, rows
  <2>2. \A v \in Workers \ {w} : pc'[v] = pc[v] /\ now'[v] = now[v]
    BY <1>0, <2>1
  <2>3. now'[w] = now[w] \/ (tried[w] = {} /\ sending[w] = None)
    BY <1>0, <2>1
  <2> QED BY <1>0, <2>1, <2>2, <2>3
<1>4. ASSUME NEW w \in Workers, NothingToSend(w) \/ Abort(w) PROVE Goal
  <2>1. /\ UNCHANGED <<deadline, reminders, accepted>>
        /\ sending' = [sending EXCEPT ![w] = None] /\ tried' = [tried EXCEPT ![w] = {}]
        /\ pc' = [pc EXCEPT ![w] = "idle"] /\ now' = [now EXCEPT ![w] = 0]
    BY <1>0, <1>4 DEF NothingToSend, Abort, GoIdle, GoTo, rows
  <2> QED BY <1>0, <2>1
<1>5. ASSUME NEW w \in Workers, ClaimReminder(w) PROVE Goal
  <2>1. PICK k \in Claimable(now[w]) :
          /\ sending' = [sending EXCEPT ![w] = k] /\ pc[w] = "deliver"
          /\ pc' = [pc EXCEPT ![w] = "send"]
          /\ UNCHANGED <<deadline, reminders, accepted, now, tried>>
    BY <1>5 DEF ClaimReminder, GoTo, rows
  <2>2. /\ k \in DOMAIN reminders /\ DueAt(reminders[k], now[w]) /\ k # None
        /\ \A v \in Workers : sending[v] # k
    BY <1>0, <2>1 DEF Claimable, DueAt, Locked
  <2>3. k \notin tried[w]
    BY <1>0, <2>2
  <2> QED BY <1>0, <2>1, <2>2, <2>3
<1>6. ASSUME NEW w \in Workers, Materialize(w) PROVE Goal
  <2>1. PICK k \in due[w] :
          \/ reminders' = reminders
          \/ \E row \in Reminder :
               /\ k \notin DOMAIN reminders /\ k[1] \in DOMAIN deadline
               /\ reminders' = [x \in DOMAIN reminders \cup {k} |->
                                  IF x = k THEN row ELSE reminders[x]]
    BY <1>6, MaterializeTypes, ZenonT(30)
  <2>2. UNCHANGED <<deadline, accepted, pc, now, sending, tried>>
    BY <1>6 DEF Materialize
  <2>3. CASE reminders' = reminders
    BY <1>0, <2>2, <2>3
  <2>4. ASSUME NEW row, k \notin DOMAIN reminders, k[1] \in DOMAIN deadline,
               reminders' = [x \in DOMAIN reminders \cup {k} |->
                              IF x = k THEN row ELSE reminders[x]]
        PROVE  Goal
    <3>1. \A x \in DOMAIN reminders : x \in DOMAIN reminders' /\ reminders'[x] = reminders[x]
      BY <2>4
    <3>2. \A x \in DOMAIN reminders' : x \in DOMAIN reminders \/ x = k
      BY <2>4
    <3> QED BY <1>0, <2>2, <2>4, <3>1, <3>2
  <2> QED BY <2>1, <2>3, <2>4
<1>7. ASSUME NEW w \in Workers, MarkSent(w) \/ MarkFailed(w) PROVE Goal
  <2>1. PICK row \in Reminder :
          Settle(w, row) /\ sending[w] \in DOMAIN reminders /\ ~DueAt(row, now[w])
    BY <1>7, SettleTypes
  <2>2. /\ reminders' = [reminders EXCEPT ![sending[w]] = row]
        /\ tried' = [tried EXCEPT ![w] = @ \cup {sending[w]}]
        /\ sending' = [sending EXCEPT ![w] = None]
        /\ pc' = [pc EXCEPT ![w] = "deliver"]
        /\ UNCHANGED <<deadline, accepted, now>>
    BY <2>1 DEF Settle, GoTo
  <2>3. sending[w] # None /\ DueAt(reminders[sending[w]], now[w])
    BY <1>0, <1>7 DEF MarkSent, MarkFailed
  <2>4. ASSUME NEW v \in Workers, NEW k \in tried'[v], k[1] \in DOMAIN deadline'
        PROVE  k \in DOMAIN reminders' /\ ~DueAt(reminders'[k], now'[v])
    <3>1. CASE k # sending[w]
      BY <1>0, <2>2, <2>4, <3>1
    <3>2. CASE k = sending[w] /\ v = w
      BY <1>0, <2>1, <2>2, <3>2
    <3>3. CASE k = sending[w] /\ v # w
      <4>1. k \in DOMAIN reminders /\ ~DueAt(reminders[k], now[v])
        BY <1>0, <2>2, <2>4, <3>3
      <4>2. now[v] < now[w]
        BY <1>0, <2>3, <3>3, <4>1 DEF DueAt, Reminder
      <4>3. ~DueAt(row, now[v])
        BY <1>0, <2>1, <4>2 DEF DueAt, Reminder
      <4> QED BY <1>0, <2>2, <3>3, <4>1, <4>3
    <3> QED BY <3>1, <3>2, <3>3
  <2>5. \A v \in Workers \ {w} : /\ sending'[v] = sending[v] /\ tried'[v] = tried[v]
                                 /\ pc'[v] = pc[v] /\ sending[v] # sending[w]
    BY <1>0, <2>2, <2>3
  <2>6. sending'[w] = None /\ pc'[w] = "deliver"
    BY <1>0, <2>2
  <2>7. /\ DOMAIN reminders' = DOMAIN reminders
        /\ \A k \in DOMAIN reminders \ {sending[w]} : reminders'[k] = reminders[k]
    BY <2>2
  <2>8. OneSenderOnce'
    BY <1>0, <2>5, <2>6
  <2> QED BY <1>0, <2>2, <2>4, <2>5, <2>6, <2>7, <2>8
<1>8. ASSUME NEW w \in Workers, SkipReminder(w) PROVE Goal
  BY <1>0, <1>8 DEF SkipReminder, rows
<1>9. CASE Tick
  BY <1>0, <1>9 DEF Tick, rows, loops
<1> HIDE DEF Sending, OneSenderOnce
<1>10. ASSUME NEW w \in Workers, CycleStep(w) \/ SkipReminder(w) \/ Abort(w) PROVE Goal
  BY <1>3, <1>4, <1>5, <1>6, <1>7, <1>8, <1>10 DEF CycleStep
<1> QED BY <1>1, <1>2, <1>9, <1>10 DEF Next
-----------------------------------------------------------------------------
(* What is settled.                                                        *)

\* What becomes of a row that a loop settles.
Outcome(old, new, taken) ==
  \/ taken /\ new = [old EXCEPT !.state = "sent"]
  \/ /\ new.attempts = old.attempts + 1
     /\ new.state = IF Exhausted(new.attempts) THEN "failed" ELSE "pending"
     /\ new.state = "pending" => new.nextAttempt # None

\* A row stays as it was, is new, or was pending and a loop has settled it.
LEMMA RowStep ==
  ASSUME IInv, Next, NEW k \in DOMAIN reminders'
  PROVE  \/ k \in DOMAIN reminders /\ reminders'[k] = reminders[k]
         \/ /\ k \notin DOMAIN reminders
            /\ reminders'[k].state = "pending" /\ reminders'[k].attempts = 0
         \/ /\ k \in DOMAIN reminders /\ reminders[k].state = "pending"
            /\ accepted' = accepted /\ Outcome(reminders[k], reminders'[k], k \in accepted)
<1> DEFINE Goal == \/ k \in DOMAIN reminders /\ reminders'[k] = reminders[k]
                   \/ /\ k \notin DOMAIN reminders
                      /\ reminders'[k].state = "pending" /\ reminders'[k].attempts = 0
                   \/ /\ k \in DOMAIN reminders /\ reminders[k].state = "pending"
                      /\ accepted' = accepted
                      /\ Outcome(reminders[k], reminders'[k], k \in accepted)
<1>1. CASE reminders' = reminders
  BY <1>1
<1>2. ASSUME NEW s \in Switches, Delete(s) PROVE Goal
  BY <1>2 DEF Delete
<1>3. ASSUME NEW w \in Workers, Materialize(w) PROVE Goal
  <2>1. PICK found \in due[w] :
          \/ reminders' = reminders
          \/ \E row \in Reminder :
               /\ found \notin DOMAIN reminders
               /\ reminders' = [x \in DOMAIN reminders \cup {found} |->
                                  IF x = found THEN row ELSE reminders[x]]
               /\ row.state = "pending" /\ row.attempts = 0
    BY <1>3, MaterializeTypes
  <2> QED BY <2>1
<1>4. ASSUME NEW w \in Workers, MarkSent(w) \/ MarkFailed(w) PROVE Goal
  <2>1. PICK row \in Reminder :
          /\ Settle(w, row) /\ sending[w] \in DOMAIN reminders
          /\ \/ MarkSent(w) /\ row = [reminders[sending[w]] EXCEPT !.state = "sent"]
             \/ /\ row.attempts = reminders[sending[w]].attempts + 1
                /\ row.state = IF Exhausted(row.attempts) THEN "failed" ELSE "pending"
                /\ row.state = "pending" => row.nextAttempt # None
    BY <1>4, SettleTypes
  <2>2. /\ reminders[sending[w]].state = "pending"
        /\ MarkSent(w) => sending[w] \in accepted
    BY <1>4 DEF IInv, Sending, DueAt, MarkSent, MarkFailed
  <2>3. Outcome(reminders[sending[w]], row, sending[w] \in accepted)
    BY <2>1, <2>2 DEF Outcome
  <2>4. reminders' = [reminders EXCEPT ![sending[w]] = row] /\ accepted' = accepted
    BY <2>1 DEF Settle
  <2>5. CASE k = sending[w]
    BY <2>1, <2>2, <2>3, <2>4, <2>5
  <2>6. CASE k # sending[w]
    BY <2>4, <2>6
  <2> QED BY <2>5, <2>6
<1>5. ASSUME NEW w \in Workers, CycleStep(w) \/ SkipReminder(w) \/ Abort(w),
             ~Materialize(w), ~MarkSent(w), ~MarkFailed(w)
      PROVE  reminders' = reminders
  BY <1>5 DEF CycleStep, StartCycle, Scan, Materialized, ClaimReminder, NothingToSend,
     SendTaken, SendRefused, SkipReminder, Abort, rows
<1>6. ASSUME NEW s \in Switches, CheckIn(s) \/ Stop(s) \/ Arm(s) PROVE reminders' = reminders
  BY <1>6 DEF CheckIn, Stop, Arm
<1>7. Tick => reminders' = reminders
  BY DEF Tick, rows
<1> QED BY <1>1, <1>2, <1>3, <1>4, <1>5, <1>6, <1>7 DEF Next

LEMMA HonestStep ==
  ASSUME IInv, Next
  PROVE  SettledHonestly'
<1> USE RemindersAssumption
<1>0. SettledHonestly /\ reminders \in [DOMAIN reminders -> Reminder]
      /\ DOMAIN reminders \subseteq Key
  BY DEF IInv, Types, TypeOK
<1> SUFFICES ASSUME NEW k \in DOMAIN reminders'
             PROVE  /\ reminders'[k].state = "sent" => k \in accepted'
                    /\ reminders'[k].state = "failed" <=> reminders'[k].attempts >= MaxTries
                    /\ reminders'[k].state = "pending" /\ reminders'[k].attempts > 0
                         => reminders'[k].nextAttempt # None
  BY DEF SettledHonestly
<1>1. CASE k \in DOMAIN reminders /\ reminders'[k] = reminders[k]
  <2>1. k \in accepted => k \in accepted'
    <3>1. ASSUME NEW s \in Switches, Delete(s) PROVE k \in accepted => k \in accepted'
      BY <3>1 DEF Delete
    <3>2. ASSUME NEW s \in Switches, CheckIn(s) \/ Stop(s) \/ Arm(s) PROVE accepted' = accepted
      BY <3>2 DEF CheckIn, Stop, Arm
    <3>3. ASSUME NEW w \in Workers, CycleStep(w) \/ SkipReminder(w) \/ Abort(w)
          PROVE  accepted \subseteq accepted'
      BY <3>3 DEF CycleStep, StartCycle, Scan, Materialize, Materialized, ClaimReminder,
         NothingToSend, SendTaken, SendRefused, MarkSent, MarkFailed, Settle, SkipReminder, Abort
    <3> QED BY <3>1, <3>2, <3>3 DEF Next, Tick
  <2> QED BY <1>0, <1>1, <2>1 DEF SettledHonestly
<1>2. CASE reminders'[k].state = "pending" /\ reminders'[k].attempts = 0
  BY <1>2
<1>3. CASE /\ k \in DOMAIN reminders /\ reminders[k].state = "pending"
           /\ accepted' = accepted /\ Outcome(reminders[k], reminders'[k], k \in accepted)
  <2>1. reminders[k] \in Reminder /\ reminders[k].attempts \in Nat
        /\ ~(reminders[k].attempts >= MaxTries)
    BY <1>0, <1>3 DEF SettledHonestly, Reminder
  <2>2. CASE k \in accepted /\ reminders'[k] = [reminders[k] EXCEPT !.state = "sent"]
    <3>1. reminders'[k].state = "sent" /\ reminders'[k].attempts = reminders[k].attempts
      BY <2>1, <2>2 DEF Reminder
    <3> QED BY <1>3, <2>1, <2>2, <3>1
  <2>3. CASE /\ reminders'[k].attempts = reminders[k].attempts + 1
             /\ reminders'[k].state =
                  IF Exhausted(reminders'[k].attempts) THEN "failed" ELSE "pending"
             /\ reminders'[k].state = "pending" => reminders'[k].nextAttempt # None
    BY <2>1, <2>3 DEF Exhausted
  <2> QED BY <1>3, <2>2, <2>3 DEF Outcome
<1> QED BY <1>1, <1>2, <1>3, RowStep

LEMMA StepInv == IInv /\ [Next]_vars => IInv'
<1> SUFFICES ASSUME IInv, [Next]_vars PROVE IInv'
  OBVIOUS
<1>1. CASE Next
  BY <1>1, TypesStep, DeadlinesStep, SendingStep, HonestStep DEF IInv
<1>2. CASE UNCHANGED vars
  <2>1. UNCHANGED <<clock, deadline, reminders, accepted, pc, now, due, sending, tried, met, failures>>
    BY <1>2 DEF vars, rows, loops
  <2>2. Types'
    BY <2>1 DEF IInv, Types, TypeOK
  <2>3. \A k : Missed(k)' <=> Missed(k)
    BY <2>1 DEF Missed
  <2>4. Deadlines'
    BY <2>1, <2>3 DEF IInv, Deadlines, DeadlinesGrow, Live
  <2>5. Sending' /\ OneSenderOnce' /\ SettledHonestly'
    BY <2>1 DEF IInv, Sending, OneSenderOnce, SettledHonestly
  <2> QED BY <2>2, <2>4, <2>5 DEF IInv
<1> QED BY <1>1, <1>2

LEMMA Inductive == Spec => []IInv
BY InitInv, StepInv, PTL DEF Spec

\* Whatever the clocks of the loops say, an owner who moves a deadline before one of its
\* stages is reached, up to the skew, is not reminded of that stage (main.ts).
THEOREM OnlyMissedRemind == Spec => []OnlyOfMissed
<1>1. IInv => OnlyOfMissed
  BY DEF IInv, Deadlines, Missed, OnlyOfMissed
<1> QED BY <1>1, Inductive, PTL

\* Any number of loops, however their clocks differ, never send one reminder at the same
\* time, and none takes a reminder it has settled again (reminders/delivery.ts).
THEOREM OneSenderAlways == Spec => []OneSenderOnce
<1>1. IInv => OneSenderOnce
  BY DEF IInv
<1> QED BY <1>1, Inductive, PTL

\* What a reminder's row says of its e-mail is so, after any crash, lost answer or slow
\* loop (reminders/delivery.ts).
THEOREM AlwaysHonest == Spec => []SettledHonestly
<1>1. IInv => SettledHonestly
  BY DEF IInv
<1> QED BY <1>1, Inductive, PTL

\* No step of any loop or owner changes a settled reminder that stays
\* (reminders/index.ts, reminders/delivery.ts).
THEOREM SettledForGood == Spec => SettledStays
<1> DEFINE Stays == \A k \in DOMAIN reminders \cap DOMAIN reminders' :
                      reminders[k].state \in Final => reminders'[k] = reminders[k]
<1>1. ASSUME IInv, Next PROVE Stays
  BY <1>1, RowStep DEF Final
<1>2. IInv /\ [Next]_vars => [Stays]_vars
  BY <1>1
<1> HIDE DEF Stays
<1>3. Spec => [][Stays]_vars
  BY <1>2, Inductive, PTL DEF Spec
<1> QED BY <1>3 DEF SettledStays, Stays
=============================================================================
