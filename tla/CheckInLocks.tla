---------------------------- MODULE CheckInLocks ----------------------------
(***************************************************************************)
(* The transactions that meet on the rows of a switch and of its owner,    *)
(* statement by statement, with the row locks PostgreSQL takes for them:   *)
(* the check-ins of routes/heartbeat.ts and routes/bulk-check-in.ts, the   *)
(* cancel of routes/triggers.ts, the handlers that lock a switch, and what *)
(* the scheduler does to the same rows.  ReleasePath has these as single   *)
(* steps; here is why they may be: what they read under a lock still holds *)
(* when they commit, and only few of them can wait for each other.         *)
(*                                                                         *)
(* Reads see committed rows (READ COMMITTED); the writes of a transaction  *)
(* are kept in work[c] until it commits.  An operator whose comment starts *)
(* with "Fault:" is a mistake for mutation, as in VaultStore.              *)
(***************************************************************************)
EXTENDS Naturals, FiniteSets, Sequences, SequencesExt

CONSTANTS
  Switches,
  Linked,       \* switches with an e-mailed check-in link
  Owner,        \* the user who owns the switches ...
  Delegates,    \* ... and users who may cancel for the owner
  TotpUsers,    \* users with totp_verified_at set
  Clients,      \* database connections in use at the same time
  Kinds,        \* the transactions of this instance
  TimeSteps,    \* TOTP steps 1 .. TimeSteps (bounds the model, not the code)
  LogBound,     \* audit rows (bounds the model, not the code)
  None

Users == {Owner} \cup Delegates
Codes == (1..TimeSteps) \cup {None}
Statuses == {"active", "paused", "released", "deleted"}

KnownKinds == {"manual", "token", "link", "bulk", "cancel", "arm", "disarm",
               "delete", "issue", "duplicate", "grant", "vote", "test", "release",
               "remind", "deliver", "recover", "promote"}

ASSUME LocksAssumption ==
  /\ IsFiniteSet(Switches) /\ Linked \subseteq Switches
  /\ TotpUsers \subseteq Users /\ Kinds \subseteq KnownKinds
  /\ TimeSteps \in Nat \ {0} /\ LogBound \in Nat
  /\ None \notin Nat

VARIABLES
  status,     \* switches.status, "deleted" once the row is gone
  waits,      \* switches that have a row in vault_waits
  used,       \* switches whose heartbeat_links row has used_at set
  counter,    \* users.totp_last_counter
  log,        \* audit_log, the committed rows
  nextId,     \* the sequence behind audit_log.id
  step,       \* the current TOTP step
  txn,        \* what each transaction is, None if the connection is free
  todo,       \* the statements it has still to make
  held,       \* the locks it holds
  work        \* what it has written and not committed

rows == <<status, waits, used, counter, log>>
vars == <<rows, nextId, step, txn, todo, held, work>>

---------------------------------------------------------------------------
(* The transactions, as the statements they make *)

\* A statement and the row it is made on.
Do(what, on) == <<what, on>>
Each(ss, what) == [i \in DOMAIN ss |-> Do(what, ss[i])]

\* Fault: the audit row first.
RecordAuditFirst(s) ==
  <<Do("audit", s), Do("heartbeat", s), Do("reset", s), Do("unwait", s)>>

RecordHeartbeat(s) ==
  <<Do("heartbeat", s), Do("reset", s), Do("unwait", s), Do("audit", s)>>

\* DELETE FROM switches, and what its foreign keys cascade to, one after the
\* other, while the row of the switch is locked.
Drops == {"dropRecipients", "dropWait", "dropLinks", "dropReminders"}
DeleteSwitch(s) ==
  <<Do("delete", s), Do("dropRecipients", s), Do("dropWait", s), Do("dropLinks", s),
    Do("dropReminders", s), Do("audit", s)>>

\* Some of the members of S: the rows of one statement are locked in the order
\* in which its plan meets them.
Orders(S) == SetToAllKPermutations(S) \ {<<>>}

\* recordHeartbeat of one after the other, of four statements each.
RecordEach(ss) ==
  [i \in 1..4 * Len(ss) |-> RecordHeartbeat(ss[(i - 1) \div 4 + 1])[((i - 1) % 4) + 1]]

BulkProgram(locked, listed) ==
  Each(locked, "lockActive") \o <<Do("stepUp", Owner)>> \o RecordEach(listed)

\* The statements that are not made on s.
Without(program, s) ==
  LET kept == {i \in DOMAIN program : program[i][2] # s}
  IN  [k \in 1..Cardinality(kept) |->
         program[CHOOSE i \in kept : Cardinality({j \in kept : j < i}) = k - 1]]

\* What a transaction has written: the TOTP step, the link it used, deadlines
\* reset, new statuses, waits deleted and inserted, audit rows.
Nothing ==
  [code |-> None, link |-> {}, reset |-> {}, becomes |-> <<>>,
   unwaited |-> {}, waited |-> {}, entries |-> {}]

Free(c) == txn[c] = None /\ nextId <= LogBound

\* BEGIN, with the code the user brings and the statements to be made.
Start(c, kind, user, code, program) ==
  /\ kind \in Kinds /\ Free(c)
  /\ txn' = [txn EXCEPT ![c] = [kind |-> kind, user |-> user, code |-> code]]
  /\ todo' = [todo EXCEPT ![c] = program]
  /\ UNCHANGED <<rows, nextId, step, held, work>>

\* Who has TOTP and brings no code is turned away before the transaction.
Asks(user, code) == user \in TotpUsers => code # None

\* The handlers that act on one switch, which they look at before BEGIN.
BeginCheckIn(c, s) ==
  /\ status[s] = "active"
  /\ \/ \E code \in Codes :
          /\ Asks(Owner, code)
          /\ Start(c, "manual", Owner, code, <<Do("stepUp", Owner)>> \o RecordHeartbeat(s))
     \/ Start(c, "token", None, None, RecordHeartbeat(s))
     \/ /\ s \in Linked \ used
        /\ Start(c, "link", None, None, <<Do("claimLink", s)>> \o RecordHeartbeat(s))

BeginCancel(c, s) ==
  /\ status[s] = "active"
  /\ \E u \in Users, code \in Codes :
       /\ Asks(u, code)
       /\ Start(c, "cancel", u, code, <<Do("stepUp", u), Do("pause", s), Do("audit", s)>>)

BeginSetStatus(c, s) ==
  \/ /\ status[s] \in {"paused", "released"}
     /\ Start(c, "arm", Owner, None, <<Do("lock", s), Do("arm", s), Do("audit", s)>>)
  \/ /\ status[s] # "deleted"
     /\ Start(c, "disarm", Owner, None, <<Do("disarm", s), Do("audit", s)>>)
  \/ /\ status[s] \in {"active", "paused"}
     /\ Start(c, "delete", Owner, None, DeleteSwitch(s))

\* A heartbeat token is written into the switch, as a patch is; a new link refers
\* to it, as a first payload and an invitation do.  (A trigger is configured with
\* the locks of arm.)
BeginIssue(c, s) ==
  \E first \in {"setToken", "refer"} :
    Start(c, "issue", None, None, <<Do(first, s), Do("audit", s)>>)

\* SELECT ... FOR SHARE of the source; the copy refers to the user who makes it.
BeginDuplicate(c, s) ==
  Start(c, "duplicate", Owner, None, <<Do("read", s), Do("copyFor", Owner), Do("audit", s)>>)

\* A vote is written into the recipient (as an acceptance and a removal are); the
\* one that reaches the threshold also makes a job, which refers to the switch.
BeginVote(c, s) ==
  /\ status[s] = "active"
  /\ \E last \in {<<Do("audit", s)>>, <<Do("refer", s), Do("audit", s)>>} :
       Start(c, "vote", None, None, <<Do("castVote", s)>> \o last)

\* A delegation refers to the switch and to the owner who made it (the delegate,
\* whom nobody locks here, is left out).
BeginGrant(c, s) ==
  Start(c, "grant", Owner, None, <<Do("refer", s), Do("referUser", Owner), Do("audit", s)>>)

\* A test release commits the code it asked for before it sends anything.
BeginTestRelease(c, s) ==
  \E code \in Codes :
    Start(c, "test", Owner, code,
          <<Do("stepUp", Owner), Do("commitStepUp", Owner), Do("audit", s)>>)

BeginOwners(c, s) ==
  status[s] # "deleted" /\ (BeginIssue(c, s) \/ BeginGrant(c, s) \/ BeginTestRelease(c, s))

\* A release; a reminder inserted or found; the delivery of a reminder.  The
\* scheduler found the switch active some time ago.
BeginJob(c, s) ==
  \/ /\ status[s] # "deleted"
     /\ \/ Start(c, "release", None, None, <<Do("lock", s), Do("release", s)>>)
        \/ \E last \in {Do("audit", s), Do("lockReminder", s)} :
             Start(c, "remind", None, None, <<Do("lock", s), Do("lockUser", Owner), last>>)
  \/ Start(c, "deliver", None, None, <<Do("takeReminder", s), Do("audit", s)>>)

\* The transactions that go over many switches.
BeginBulk(c) ==
  \E locked, listed \in SetToSeqs(Switches), code \in Codes :
    Start(c, "bulk", Owner, code, BulkProgram(locked, listed))

BeginSweep(c) ==
  \/ \E found \in Orders({s \in Switches : status[s] = "active"}) :
       Start(c, "recover", None, None, Each(found, "upsertWait") \o Each(found, "audit"))
  \/ \E found \in Orders(waits) :
       Start(c, "promote", None, None, Each(found, "takeWait"))

---------------------------------------------------------------------------
(* PostgreSQL: the locks of a statement, and who waits for whom *)

User(u) == <<"user", u>>
Row(s) == <<"switch", s>>
Wait(s) == <<"wait", s>>
Link(s) == <<"link", s>>
Recipient(s) == <<"recipient", s>>
Reminder(s) == <<"reminder", s>>
AuditChain == <<"audit", None>>

\* Fault: SELECT without FOR UPDATE.
NoUserLock(u) == {}
UserLock(u) == {<<User(u), "own">>}

\* Fault: no pg_advisory_xact_lock.
NoAuditLock == {}
AuditLock == {<<AuditChain, "own">>}

\* Fault: the reset of a deadline without AND status = 'active'.
MatchingAll(what) ==
  IF what \in {"lockActive", "pause"} THEN {"active"} ELSE {"active", "paused", "released"}

\* The WHERE of a statement on a switch.
Matching(what) ==
  CASE what \in {"lockActive", "reset", "pause"} -> {"active"}
    [] what = "disarm" -> {"active", "paused"}
    [] OTHER -> {"active", "paused", "released"}

Running(c) == txn[c] # None /\ todo[c] # <<>>
Doing(c) == Head(todo[c])[1]
On(c) == Head(todo[c])[2]

\* The switch the statement is made on exists and matches.
Finds(c) == status[On(c)] \in Matching(Doing(c))

OnSwitch(c, mode) == IF Finds(c) THEN {<<Row(On(c)), mode>>} ELSE {}

\* The locks the next statement of c takes.  A row that does not match is
\* neither locked nor waited for.  "share" is FOR KEY SHARE (of a foreign key),
\* "read" FOR SHARE, "change" FOR NO KEY UPDATE (of an UPDATE), "own" FOR UPDATE
\* (of a DELETE too).
Needs(c) ==
  LET x == On(c)
  IN  CASE Doing(c) \in {"stepUp", "lockUser"} -> UserLock(x)
        [] Doing(c) \in {"lock", "lockActive", "delete"} -> OnSwitch(c, "own")
        [] Doing(c) \in {"heartbeat", "refer"} -> OnSwitch(c, "share")
        [] Doing(c) = "read" -> OnSwitch(c, "read")
        [] Doing(c) \in {"referUser", "copyFor"} -> {<<User(x), "share">>}
        [] Doing(c) \in {"setToken", "reset", "pause", "disarm", "arm", "release"} ->
             OnSwitch(c, "change")
        [] Doing(c) = "dropRecipients" -> {<<Recipient(x), "own">>}
        [] Doing(c) = "dropLinks" -> IF x \in Linked THEN {<<Link(x), "own">>} ELSE {}
        [] Doing(c) \in {"unwait", "takeWait", "dropWait"} ->
             IF x \in waits THEN {<<Wait(x), "own">>} ELSE {}
        [] Doing(c) = "upsertWait" ->
             {<<Wait(x), "own">>} \cup IF x \in waits THEN {} ELSE OnSwitch(c, "share")
        [] Doing(c) = "claimLink" ->
             IF Finds(c) /\ x \notin used THEN {<<Link(x), "change">>} ELSE {}
        [] Doing(c) = "castVote" -> IF Finds(c) THEN {<<Recipient(x), "change">>} ELSE {}
        [] Doing(c) \in {"lockReminder", "dropReminders"} -> {<<Reminder(x), "own">>}
        [] Doing(c) = "audit" -> AuditLock
        [] Doing(c) \in {"takeReminder", "commitStepUp"} -> {}

Conflicts(m, n) ==
  \/ "own" \in {m, n}
  \/ "change" \in {m, n} /\ {m, n} \subseteq {"read", "change"}

WaitingFor(c) ==
  IF ~Running(c) THEN {}
  ELSE {d \in Clients \ {c} : \E l \in held[d], n \in Needs(c) :
          l[1] = n[1] /\ Conflicts(l[2], n[2])}

\* Transactions that wait for each other in a circle, and nobody else.
InCircle(S) == S # {} /\ \A c \in S : WaitingFor(c) \cap S # {}
Circles ==
  {S \in SUBSET Clients : InCircle(S) /\ \A T \in (SUBSET S) \ {S} : ~InCircle(T)}

---------------------------------------------------------------------------
(* The statements *)

\* The next statement of c is one of these, and has its locks.
Granted(c, whats) ==
  /\ Running(c) /\ Doing(c) \in whats
  /\ WaitingFor(c) = {}

\* It is made, and this much is written now.
Made(c, written) ==
  /\ held' = [held EXCEPT ![c] = @ \cup Needs(c)]
  /\ work' = [work EXCEPT ![c] = written]
  /\ todo' = [todo EXCEPT ![c] = Tail(@)]
  /\ UNCHANGED <<rows, step, txn>>

End(c) ==
  /\ txn' = [txn EXCEPT ![c] = None]
  /\ todo' = [todo EXCEPT ![c] = <<>>]
  /\ held' = [held EXCEPT ![c] = {}]
  /\ work' = [work EXCEPT ![c] = Nothing]
  /\ UNCHANGED <<nextId, step>>

Rollback(c) == End(c) /\ UNCHANGED rows

\* verifyTotpCode: this step or the one before, and none that was accepted.
CodeFits(code, last) ==
  code # None /\ code \in {step - 1, step} /\ code > last

\* SELECT ... FROM users FOR UPDATE, then the code against the locked row.
StepUp(c) ==
  /\ Granted(c, {"stepUp"})
  /\ LET u == On(c)
     IN  \/ /\ u \in TotpUsers => CodeFits(txn[c].code, counter[u])
            /\ Made(c, [work[c] EXCEPT !.code = IF u \in TotpUsers THEN txn[c].code ELSE None])
            /\ UNCHANGED nextId
         \/ /\ u \in TotpUsers /\ ~CodeFits(txn[c].code, counter[u])
            /\ Rollback(c)

\* Statements that only lock, or lock and write what is not modelled here.  A
\* heartbeat of a deleted switch breaks the foreign key; a locked switch that
\* is gone ends the transaction in each of the handlers.
Lock(c) ==
  /\ Granted(c, {"heartbeat", "refer", "referUser", "setToken", "lock", "lockUser",
                  "lockReminder", "read", "copyFor", "castVote", "dropRecipients",
                  "dropLinks", "dropReminders"})
  /\ LET found == Doing(c) \in {"heartbeat", "refer", "lock", "read"} => Finds(c)
     IN  \/ found /\ Made(c, work[c]) /\ UNCHANGED nextId
         \/ ~found /\ Rollback(c)

\* SELECT ... FOR UPDATE SKIP LOCKED: no row, nothing to deliver.
TakeReminder(c) ==
  /\ Granted(c, {"takeReminder"})
  /\ LET lock == <<Reminder(On(c)), "own">>
     IN  \/ /\ Finds(c) /\ \A d \in Clients : lock \notin held[d]
            /\ held' = [held EXCEPT ![c] = @ \cup {lock}]
            /\ todo' = [todo EXCEPT ![c] = Tail(@)]
            /\ UNCHANGED <<rows, nextId, step, txn, work>>
         \/ (Finds(c) => \E d \in Clients : lock \in held[d]) /\ Rollback(c)

\* Bulk: SELECT ... WHERE status = 'active' FOR UPDATE.  The switches it does
\* not find are answered not_found and left out of the rest.
LockActive(c) ==
  /\ Granted(c, {"lockActive"})
  /\ \/ Finds(c) /\ Made(c, work[c])
     \/ /\ ~Finds(c)
        /\ todo' = [todo EXCEPT ![c] = Without(@, On(c))]
        /\ UNCHANGED <<rows, step, txn, held, work>>
  /\ UNCHANGED nextId

ResetDeadline(c) ==
  /\ Granted(c, {"reset"})
  /\ Made(c, [work[c] EXCEPT !.reset = IF Finds(c) THEN @ \cup {On(c)} ELSE @])
  /\ UNCHANGED nextId

NewStatus(what) ==
  CASE what \in {"pause", "disarm"} -> "paused"
    [] what = "arm" -> "active"
    [] what = "release" -> "released"
    [] what = "delete" -> "deleted"

\* A status is written where the WHERE finds the row.  Only cancel looks at
\* how many rows that were, and rolls back when there was none.  A DELETE that
\* finds none has nothing to cascade to.
SetStatus(c) ==
  /\ Granted(c, {"pause", "disarm", "arm", "release", "delete"})
  /\ LET s == On(c)
         becomes == [t \in {s} \cup DOMAIN work[c].becomes |->
                       IF t = s THEN NewStatus(Doing(c)) ELSE work[c].becomes[t]]
     IN  \/ /\ Finds(c)
            /\ Made(c, [work[c] EXCEPT !.becomes = becomes])
            /\ UNCHANGED nextId
         \/ /\ ~Finds(c) /\ Doing(c) \notin {"pause", "delete"}
            /\ Made(c, work[c])
            /\ UNCHANGED nextId
         \/ /\ ~Finds(c) /\ Doing(c) = "delete"
            /\ todo' = [todo EXCEPT ![c] = <<Do("audit", s)>>]
            /\ UNCHANGED <<rows, nextId, step, txn, held, work>>
         \/ /\ ~Finds(c) /\ Doing(c) = "pause"
            /\ Rollback(c)

\* DELETE FROM vault_waits, or the cascade to it, of a row there may not be.
DeleteWait(c) ==
  /\ Granted(c, {"unwait", "takeWait", "dropWait"})
  /\ Made(c, [work[c] EXCEPT !.unwaited = IF On(c) \in waits THEN @ \cup {On(c)} ELSE @])
  /\ UNCHANGED nextId

\* INSERT INTO vault_waits SELECT ... FROM switches ON CONFLICT DO UPDATE.
UpsertWait(c) ==
  /\ Granted(c, {"upsertWait"})
  /\ Made(c, [work[c] EXCEPT !.waited = IF Finds(c) THEN @ \cup {On(c)} ELSE @])
  /\ UNCHANGED nextId

\* UPDATE heartbeat_links ... WHERE used_at IS NULL; no row is a rollback.
ClaimLink(c) ==
  /\ Granted(c, {"claimLink"})
  /\ \/ /\ Finds(c) /\ On(c) \notin used
        /\ Made(c, [work[c] EXCEPT !.link = {On(c)}])
        /\ UNCHANGED nextId
     \/ (Finds(c) => On(c) \in used) /\ Rollback(c)

\* The newest of some audit rows: SELECT hash ... ORDER BY id DESC LIMIT 1.
Newest(entries) == IF entries = {} THEN 0 ELSE Max({e.id : e \in entries})

\* writeAudit: the advisory lock, the newest row c can see, the new row.
WriteAudit(c) ==
  /\ Granted(c, {"audit"})
  /\ LET seen == log \cup work[c].entries
     IN  Made(c, [work[c] EXCEPT
           !.entries = @ \cup {[id |-> nextId, prev |-> Newest(seen)]}])
  /\ nextId' = nextId + 1

\* The code is spent, and the locks are released: COMMIT, and BEGIN anew.
CommitStepUp(c) ==
  /\ Granted(c, {"commitStepUp"})
  /\ counter' = IF work[c].code = None THEN counter
                ELSE [counter EXCEPT ![txn[c].user] = work[c].code]
  /\ held' = [held EXCEPT ![c] = {}]
  /\ work' = [work EXCEPT ![c] = Nothing]
  /\ todo' = [todo EXCEPT ![c] = Tail(@)]
  /\ UNCHANGED <<status, waits, used, log, nextId, step, txn>>

Commit(c) ==
  /\ txn[c] # None /\ todo[c] = <<>>
  /\ LET w == work[c]
     IN  /\ status' = [s \in Switches |->
                          IF s \in DOMAIN w.becomes THEN w.becomes[s] ELSE status[s]]
         /\ waits' = (waits \ w.unwaited) \cup w.waited
         /\ used' = used \cup w.link
         /\ counter' = IF w.code = None THEN counter
                       ELSE [counter EXCEPT ![txn[c].user] = w.code]
         /\ log' = log \cup w.entries
  /\ End(c)

\* The deadlock detector of PostgreSQL ends one of those in a circle; its
\* handler answers 500, its scheduler loop ends the cycle.
Victim(c) == WaitingFor(c) # {} /\ (\E S \in Circles : c \in S) /\ Rollback(c)

NextStep ==
  /\ step < TimeSteps
  /\ step' = step + 1
  /\ UNCHANGED <<rows, nextId, txn, todo, held, work>>

\* The end of the modelled log.
Rest ==
  /\ nextId > LogBound /\ \A c \in Clients : txn[c] = None
  /\ UNCHANGED vars

---------------------------------------------------------------------------
Init ==
  /\ status \in [Switches -> {"active", "paused"}]
  /\ waits \in SUBSET {s \in Switches : status[s] = "active"}
  /\ used = {}
  /\ counter = [u \in Users |-> 0]
  /\ log = {} /\ nextId = 1
  /\ step = 1
  /\ txn = [c \in Clients |-> None]
  /\ todo = [c \in Clients |-> <<>>]
  /\ held = [c \in Clients |-> {}]
  /\ work = [c \in Clients |-> Nothing]

Proceed(c) ==
  \/ StepUp(c) \/ Lock(c) \/ TakeReminder(c) \/ LockActive(c)
  \/ ResetDeadline(c) \/ SetStatus(c) \/ DeleteWait(c) \/ UpsertWait(c)
  \/ ClaimLink(c) \/ WriteAudit(c) \/ CommitStepUp(c) \/ Commit(c)

Begin(c) ==
  /\ Free(c)
  /\ \/ BeginBulk(c) \/ BeginSweep(c)
     \/ \E s \in Switches :
          \/ BeginCheckIn(c, s) \/ BeginCancel(c, s) \/ BeginSetStatus(c, s)
          \/ BeginOwners(c, s) \/ BeginDuplicate(c, s) \/ BeginVote(c, s) \/ BeginJob(c, s)

Next ==
  \/ \E c \in Clients : Begin(c) \/ Proceed(c) \/ Victim(c)
  \/ NextStep \/ Rest

Spec == Init /\ [][Next]_vars

---------------------------------------------------------------------------
Objects ==
  {User(u) : u \in Users} \cup {AuditChain}
    \cup UNION {{Row(s), Wait(s), Link(s), Recipient(s), Reminder(s)} : s \in Switches}

\* Every row and every local of a handler has its type (schema.ts).
TypeOK ==
  /\ status \in [Switches -> Statuses]
  /\ waits \subseteq Switches /\ used \subseteq Linked
  /\ counter \in [Users -> 0..TimeSteps]
  /\ log \subseteq [id : Nat, prev : Nat] /\ nextId \in Nat /\ step \in 1..TimeSteps
  /\ \A c \in Clients :
       /\ txn[c] = None => todo[c] = <<>> /\ held[c] = {} /\ work[c] = Nothing
       /\ held[c] \subseteq Objects \X {"share", "read", "change", "own"}

\* A TOTP code is accepted once and a link is used once, by however many
\* check-ins, cancels and test releases at the same time (the locked re-reads of
\* heartbeat.ts, bulk-check-in.ts, triggers.ts and switches.ts).
SpentOnce ==
  [][\A c \in Clients : Commit(c) \/ CommitStepUp(c) =>
       /\ work[c].code # None => work[c].code > counter[txn[c].user]
       /\ work[c].link \cap used = {}]_vars

\* writeAudit chains every row to the one before it, never two to the same.
AuditLinear ==
  \A e \in log : e.prev = Newest({f \in log : f.id < e.id})

\* A deadline is only ever set on a switch that is active at that moment, and a
\* bulk check-in resets every switch it answers ok for (recordHeartbeat).
ResetsLive ==
  [][\A c \in Clients : Commit(c) =>
       /\ \A s \in work[c].reset : status[s] = "active"
       /\ txn[c].kind = "bulk" =>
            \A s \in Switches : <<Row(s), "own">> \in held[c] => s \in work[c].reset]_vars

\* Handlers lock user, switch, wait, audit in this order.  So a deadlock takes one
\* that goes over many switches (or a reminder, which locks the switch before its
\* owner), or it is one of these, of two transactions: a link or a vote is claimed
\* before the switch it belongs to, which a DELETE holds when it cascades to them;
\* a copy reads its source before it refers to the user, whom a check-in or a
\* cancel holds when it changes the source.
ManyRows == {"bulk", "remind", "recover", "promote"}
Opposed == {{"link", "delete"}, {"vote", "delete"}, {"duplicate", "manual"},
            {"duplicate", "cancel"}}
CirclesKnown ==
  \A S \in Circles :
    \/ \E c \in S : txn[c].kind \in ManyRows
    \/ \E c, d \in S : S = {c, d} /\ {txn[c].kind, txn[d].kind} \in Opposed

=============================================================================
