# Heartbeat Vault, specified

TLA+ specifications of Heartbeat Vault (a self-hosted dead man's switch: Fastify API,
in-process scheduler, PostgreSQL as the only store and queue), the TLC configurations that
check them and proofs checked by TLAPS. Paths are relative to the repository; `api/`
stands for `apps/api/src/`.

    tlc -workers 4 -config engine.cfg MCReleasePath.tla     # a run
    tlapm ReleasePathProofs.tla                              # the proofs

## 1. The system

An owner arms a *switch* and checks in; when the heartbeat interval passes in
silence the scheduler makes a *trigger job*, processes it once the escalation
ladder has elapsed, marks the switch released and queues one *delivery* per
accepted recipient, to be sent 48 hours later. A switch may also be released at a fixed
date, at once (panic), or by a quorum of its recipients. Every API process runs a scheduler
loop; all of them, and all HTTP requests, meet only in the database.

| Component | State | Operations | Hard part | What makes it correct |
|---|---|---|---|---|
| Trigger engine `api/lib/trigger-engine.ts` | `trigger_jobs`, `switches.status` | materialize, claim, complete, fail, reap, process | loops and requests between any two statements; leases; retries; crashes | no job lost, finished twice or processed early; a live lease protects |
| Downtime recovery `api/lib/downtime.ts` | `vault_waits`, `scheduler_heartbeat` | recover, promote, skew gate, tick | outages, clock skew, check-ins during recovery, two loops recovering | a wait holds; grace is kept; a key is used once |
| Dispatcher `api/channels/dispatch.ts` | `delivery_jobs`, `dead_letter_jobs` | claim a batch, send, settle | no lease; provider failures; crash while sending | window honoured, one dead letter per dead row |
| Scheduler loop `api/main.ts` | locals of a cycle | `runSchedulerCycle`, `startServer`, `stop` | each step works with the `Date` the cycle began with | order of the steps; restart from the tables alone |
| Check-in `api/routes/heartbeat.ts` | `switches`, `vault_waits`, tokens, links | manual, token and link check-in; issuing tokens and links | status read before the transaction | a check-in resets the countdown; a link and a code are used once |
| Triggers `api/routes/triggers.ts` | `switches`, jobs, deliveries, votes | configure, vote, cancel | cancel against the scheduler; concurrent votes | a quorum fires at its threshold and only then |
| Switches `api/routes/switches.ts` | `switches`, `recipients`, payloads, delegations | create, duplicate, patch, arm, disarm, delete, recipients, test release | stale status; cascade under a running cycle; guards read before the write | armed only with something to release and somebody to release to; no orphans |
| Bulk check-in `api/routes/bulk-check-in.ts` | the same | check in to all switches | locks in another order than the single check-in | no deadlock that is not resolved |
| Reminders `api/reminders/` | `reminder_jobs` | materialize, claim, send, mark | a send that outlives its deadline; duplicates | at most one send per stage within its deadline |
| Audit `api/lib/audit*.ts`, `api/routes/{audit-log,reports}.ts` | `audit_log`, `export_jobs` | append, page, export | concurrent appenders; pages of a growing table; a ledger written beside the file | a chain, never a fork; no row twice or left out; nothing sent without its ledger row |
| Accounts `api/routes/{auth,account,users,password-resets}.ts` | `users`, `sessions`, `password_resets`, in-memory windows | login, lockout, revoke, change, reset | concurrent attempts; two lock orders; window boundary | exact lockout; one open reset; a password changes only for who may change it |
| 2FA `api/routes/{totp,recovery,webauthn*}.ts` | `users.totp_*`, `recovery_codes`, challenges | enrol, verify, challenge, disable, recover | rows read, verified and written later | a recovery code opens one session; no full session without its factor |
| Onboarding `api/routes/{setup,invites,register,admin}.ts`, `install.sh` | `app_config`, `invites`, `users` | issue, consume, register | two requests with one token or address; a token issued again | single use; every account as its token says |
| Crypto `packages/crypto` | envelopes, keys | seal, open, rotate | rotation of mixed batches, repeated, reverted | what was sealed opens, under exactly its key |

Providers (`api/channels/{email,webhook,telegram}.ts`), server assembly, migrations,
the web console (`apps/web`), installer, scripts and CI are described in
`PROJECT.json`; they keep no state of their own that the modules above rely on.

Interaction: requests and loops never call each other. A request writes rows, a loop
finds them in a later statement, and everything one side read before may be stale.

## 2. Modules

| Module | Models | State and actions |
|---|---|---|
| `VaultStore` | `packages/db/src/schema.ts`, locals of a cycle | variables of the release path, row types, SQL idioms (`InsertNew` is `ON CONFLICT DO NOTHING`, `WithoutSwitch` a cascade), `TypeOK` |
| `TriggerEngine` | `api/lib/trigger-engine.ts` | one action per statement or transaction of a loop |
| `Downtime` | `api/lib/downtime.ts` | start of a cycle behind the skew gate, recovery (read, then write), promotion, tick record |
| `Dispatch` | `api/channels/dispatch.ts` | claim a batch, send and settle one row, next batch |
| `SwitchRoutes` | handlers of `heartbeat.ts`, `triggers.ts`, `switches.ts` that meet the scheduler | `Receive` (the checks before `BEGIN`), then one action per handler's transaction |
| `ReleasePath` | `api/main.ts` and the composition of the five above | `Init`, `CycleStep` (the cycle), `AbortCycle`, `Tick`, `Next`, fairness, the properties |
| `TriggerQueue` | what the queue promises | abstract queue without leases, owners or clocks; `ReleasePath` implements it |
| `CheckInLocks` | the transactions of `heartbeat.ts`, `bulk-check-in.ts`, `triggers.ts` (cancel, vote), `switches.ts` (duplicate, arm, disarm, delete with its cascades, delegation, test release) and of the scheduler that touch a switch, its owner, its wait, link, recipients, reminders or the audit chain; `writeAudit` | `txn`, `todo` (the statements still to make), `held` (row locks), `work` (uncommitted writes); one action per statement, `Commit`, `Rollback`, `Victim` |
| `OwnerReminders` | the reminder steps of `api/main.ts`, `api/reminders/` | `reminders` = `reminder_jobs`; scan, materialize, claim, send, settle by several loops; the owner moves `next_deadline` |
| `SwitchSetup` | `switches.ts` up to the release, the quorum of `triggers.ts` | `switches`, `recipients`, `payloads`, `quorumJobs`; create, copy, patch, delete, fill, arm, pause as transactions; arming, copying and voting statement by statement |
| `Accounts` | one account: `auth.ts`, `account.ts`, `password-resets.ts`, `users.ts`, `totp.ts`, `recovery.ts`, `webauthn*.ts`, `auth-middleware.ts`, `rate-limit.ts` | `user`, `sessions`, `codes`, `credential`, `resets`, `bucket`; a request goes "look", "act", "write"; `Victim` for the deadlock detector |
| `AuditPages` | `audit-log.ts`, `audit-pagination.ts`, `reports.ts` | `log`, `ledger`; readers turn pages, exporters select, draw a number, record, send or fail |
| `Onboarding` | `install.sh` (`issue_setup_token`), `setup.ts`, `invites.ts`, `register.ts`, `admin.ts`, `roles.ts`; composed with `AuditPages` | `config` = `app_config`, `invites`, `users`; each way to an account as look, lock, commit or refusal |
| `Envelopes` | `packages/crypto/src/{envelope,rotation}.ts`, `totp-store.ts`, `kek.ts` | `store` (rows with their envelopes), `ring` (keys by version); `Encrypt`, `Decrypt`, `RotateKEK` as operators, `Seal`, `Rotate`, `NewKey`, `SealUnder` as actions |
| `MCReleasePath`, `MCCheckInLocks`, `MCSwitchSetup`, `MCAccounts`, `MCOnboarding`, `MCEnvelopes` | - | symmetry, definitions of constants, bounds for TLC |
| `ReleasePathProofs`, `ReleaseQueueProofs`, `CheckInLocksProofs`, `OwnerRemindersProofs`, `SwitchSetupProofs`, `AccountsProofs`, `OnboardingProofs`, `EnvelopesProofs` | - | theorems about the module each is named after (`OnboardingProofs` also about `AuditPages`, `ReleaseQueueProofs` about `Dispatch` and `TriggerQueue`) |

**What a step is.** One committed transaction or autocommitted statement.
`materializeDueTriggers` is one statement but two steps, because its `SELECT` takes
no locks: the rows are computed from a snapshot (`MaterializeScan`) and become visible
later (`MaterializeInsert`), where the foreign key may reject them (`InsertRejected`,
which ends the cycle). `processJob` reads the switch outside its transaction
(`ReadSwitch`) and acts later (`ProcessDryRun`, `ProcessRelease`).
`recoverFromOutage` selects ids (`RecoverScan`) and re-reads the deadlines when it writes
(`RecoverWrite`). A handler is its early returns (`Receive`) and its transaction.

In `Accounts`, `Onboarding` and `SwitchSetup` the same holds of requests: what a handler reads
and verifies is one step, what it writes another, and a row lock lasts from the step that
takes it to the step that ends the transaction. Handlers that take no lock and write in one
transaction write in one step.

**Abstractions.**
- A table is a function from keys to rows. A trigger job is named by its unique
  (switch, deadline), a delivery by (switch, deadline, recipient), which is what its
  idempotency key `job:<id>:recipient:<id>` comes to. A token or code is a number or model
  value that is never drawn twice; only its hash is stored, which comes to the same.
- The two inserts of `recoverFromOutage` and its commit are one step. Not shown, therefore:
  a check-in that commits between the insert of the wait and the commit and leaves a
  wait with the old wake-up time.
- Equal instants: times are whole units, so two events may carry the same instant. The
  heartbeat interval and the grace window are the same for all switches.
- `ORDER BY run_at, id`: ties are broken freely.
- The clock of the host is read once per cycle, within the skew budget of the
  database (`HostTimes`). A cycle held by the skew gate does nothing.
- A provider is external: it accepts, asks for a retry or refuses, freely. The backoff is
  any member of `Backoffs`.
- A crash of the process and an error that reaches the `catch` of `startServer` are the same
  to the tables: `AbortCycle`.
- Locks do not appear in `ReleasePath`; every write re-checks in its step what its SQL re-checks.
  Authentication, TOTP, rate limits and audit rows only decide who may ask.
- In `SwitchRoutes`, `PATCH` changes `dry_run` only (title, interval and grace are constants
  there), the payload `arm` asks for is taken to be there, and there is no quorum: these are in
  `SwitchSetup`, where in turn `Release` stands for the whole path from a deadline to
  `processJob`, `Disarm` also for the cancel, and a quorum job is only its key.
- Bulk check-in does for each switch what `CheckIn` does; `CheckInLocks` shows the difference.
- `CheckInLocks` looks inside the transactions that are one step in `ReleasePath`. A statement
  is granted when nobody holds a conflicting lock; "share", "read", "change" and "own" are
  `FOR KEY SHARE` (foreign keys), `FOR SHARE`, `FOR NO KEY UPDATE` (an `UPDATE`) and `FOR UPDATE` (a
  `DELETE`). The rows of one statement are locked in any order; the cascades of a `DELETE` follow it one
  table after the other. The locks are those on users, switches, and the waits, links, recipients and
  reminders of a switch (one row each), and on the audit chain. Locks on rows of `trigger_jobs` and
  `delivery_jobs`, and waits for another insert of the same unique key, are not there. The TOTP routes, which write the counter without a lock, are in `Accounts`.
- `OwnerReminders` knows of a switch only its deadline. A provider that refuses, throws or does
  not answer within 30 s is one action, and may have taken the message. `executeOwnerReminder`
  is called by tests only and left out.
- `Accounts` has one account and one address for the limiter; the other scopes are the same
  function with other limits. A password is a model value, its verification equality. A TOTP
  step is the clock's instant or the one before, counted from 1. The verifiers of TOTP and WebAuthn are
  external: they may refuse, and accept only what the row just read allows (a step above
  its counter; a fresh challenge). `RevokeAll` is the user's own revoke-all and the
  administrator's: one statement each, at any time. The read and the transaction of `Enroll`
  and `Logout` are one step, because what they write does not depend on what they read.
- `Onboarding`: addresses have spellings (`Lower`); `users.email` is unique as written,
  invitations compare without case. The installer reads and writes `app_config` in two sessions of `psql`.
- `AuditPages`: a row of the log gets its id in the order of commits, which is what
  `AuditLinear` of `CheckInLocks` shows; a row of the ledger has its number before it is visible. Of
  the filters only the category is kept; the others select rows in the same way. The two
  formats of an export are one.
- `Envelopes`: encryption is symbolic. What is sealed under a key and associated data opens under
  exactly those, and a data key is never drawn twice. The API always seals under version 1
  and never rotates; `rotateKEK` and `needsRotation` are the package's interface for an
  operator, exercised by its tests, and `NewKey` and `SealUnder` are that operator.
- Operators whose comment begins with `Fault:` are mistakes for mutation; no
  specification uses them.

## 3. Runs

In the release path one unit of the clock stands for about 12 hours: an interval of 24 h is 2, the ladder of
half an interval plus 24 h is 3, 48 h is 4; the 30 s lease is 0 and still protects
within its unit, because `lease_expires < now` is strict. Runs shrink these numbers when
only their order matters. In `Accounts` and `Onboarding` a unit stands for whatever tells
"before" from "after" an expiry.

Bounds of the models, not of the code: `Horizon` (the clock stops), `ClaimBound` (claims per
job), the range of dates in `SetFixedDate`, the `Slots` (requests in flight), `MaxTokens`,
`MaxResets`, `Codes` (what may be drawn), `MaxIssues`, `MaxInvites`, `MaxLog`, `MaxExports`,
`MaxVersion`, `MaxSeals`, `LogBound`, `TimeSteps`. After the horizon of `ReleasePath` loops and requests go
on, so no run of it stops and deadlock is checked; `Accounts` and `Onboarding` come to an
end when every token is drawn and the clock has stopped, so their configurations switch it off.

| Run | Instance | Checks | Why it is enough |
|---|---|---|---|
| `engine` | 2 loops, 2 recipients, cancel, delete and a late acceptance, throw + crash, 2 attempts, batches of 1, retries at once, window 1, ladder 1, horizon 3 | `TypeOK`, `LeasesKept`, `LeaseProtects`, `DeadLetterExact`, `WindowHonoured`, `FinalStays`, `QueueRefined` | both loops claim, lose and retry the same job, up to its dead letter, with a cancel or a delete anywhere; after the release a full batch, a last batch, overlapping claims, and deliveries up to their dead letter |
| `lifecycle` | 1 loop; disarm, arm, panic, fixed date | `NeverEarly` | a job of every kind; re-arming between its creation and its processing, and after a release |
| `outage` | 1 loop, 2 requests at a time (check-in, delete, dry-run), outage gap 1, skew 1, grace 2, interval 2, ladder 3 | `NeverEarly`, `NoOrphans`, `WaitHolds` | a cycle may pause for any time anywhere, so outages before, within and after the grace occur, with clocks ahead and behind; a delete falls between any read and write of a cycle or of another request |
| `liveness` | 1 loop, check-ins, the removal of the recipient, throws, outages, fair | `OverdueReleased` | the whole path, with retries and dead letters, also with nobody to deliver to |
| `locks` | 2 connections, any of 18 kinds of transactions, 2 switches with a link each, one owner with TOTP, 2 TOTP steps | `AuditLinear`, `CirclesKnown`, `SpentOnce`, `ResetsLive` | every pair of transactions meets statement by statement, on the same or on crossed rows; each starts before the first audit row (`LogBound`); two connections make circles of two, longer ones are excluded by the proof |
| `reminders` | 2 loops, 1 switch, 2 attempts, 2 faults, horizon 2, fair | `OnlyOfMissed`, `OneSenderOnce`, `SettledHonestly`, `SettledStays`, `OwnerHears` | both stages are reached within the horizon, a reminder can fail, be retried and be given up, a loop can be a scan behind |
| `accounts` | 2 requests, 1 session token, 2 resets, 2 passwords, lockout at 2, limit 2 in a window of 2, horizon 2, at the last instant only logins arrive (`LateLogins`), fair | `TypeOK`, `LockoutExact`, `OneOpenReset`, `Throttled`, `PasswordChanges`, `RequestsEnd` | two logins count past the lockout together; issue and consume meet in both lock orders, and deadlock; attempts fall on both sides of a window's end |
| `factors` | 2 requests, 3 session tokens, 2 codes in batches of 1, horizon 0 | `RecoveryOnce`, `FactorFirst` | two requests of the same or of different sessions between any look and write of enrolment, verification, challenge, disable, regeneration and WebAuthn; a code twice at once, and a batch replaced under it |
| `onboarding` | 2 requests, addresses ann, ANN, bob, 2 setup tokens, 1 invitation, 1 reader, 2 exporters, pages and exports of 1 row, horizon 1 | `AccountsExact`, `SetupFollowsToken`, `ClosedForGood`, `PagesExact`, `ExportsRecorded` | one token or address twice at once, by every pair of ways; a token issued again while another completes, and before and after; the log and the ledger grow between pages; a ledger row written, failed or failed after it was written |
| `setup_closed` | the same | `SetupStaysClosed`, which it violates | the installer looks, setup completes, the installer writes |
| `switches` | 2 requests, 2 switches, 2 recipients, 2 titles, threshold 2 | `TypeOK`, `Deliverable`, `QuorumExact`, `CopyIsSnapshot` | any two handlers overlap on the same or on different switches, both votes overlap, a copy meets a patch, another trigger and a delete |
| `crypto` | 3 rows (one with the default associated data, one with another kid), 3 keys, 3 versions, 4 seals | `OpensExactly`, `RotationExact` | every batch, with every old and new key, with and without the caller's resolver, forth and back, and a row sealed again between rotations |

In `engine` a retry comes at once (`Backoffs`), so that jobs and deliveries reach their last attempt within
the horizon; it is met by two loops with a lease that runs out at 2 or 3. Recipients who are removed meet one loop only
(`liveness`); for any number of loops `WindowHonoured` and `DeadLetterExact` are proved with them.

`WaitHolds` is stated for a single loop. With two it fails: one loop may materialize
the job, or recover the same outage, between the statements of the other.

`onboarding` keeps two things apart (`KeptApart`, an action constraint): exports run only while
nobody makes an account or an invitation, and a reader turns pages only at time 0 and while at
most one request makes an account. Exports and pages read `log` and `ledger` and nothing else,
and accounts only append to `log`, so that more overlap would change neither. Its symmetry
exchanges the two spellings of one address, which are compared by their `Lower` alone.

`accounts` lets only logins arrive at the last instant (`LateLogins`): the limiter needs a third
instant to open a window anew, while a session or reset opened at time 0 runs out at time 1
already, and whatever was opened at either has run out by the last. What has arrived earlier runs on to its end, so that the constraint forbids no step that `FairSpec`
asks for.

The type invariants of `CheckInLocks`, `OwnerReminders` and `Onboarding` hold on the same
instances, but no run repeats them; that of `Envelopes` is proved.

Properties, in words:
- `LeasesKept`: a running job has an owner and a lease (else the reaper never finds it), a
  pending one has no owner. `LeaseProtects`: two loops are at work on one job only after
  a lease ran out. `DeadLetterExact`: dead exactly with one letter. `FinalStays`: a final
  state is never left. `QueueRefined`: all that, as an implementation of `TriggerQueue`.
- `NeverEarly`: a job is not processed before the ladder, grace or date it stands for.
  `WaitHolds`: no job is made while the wait of its switch holds.
- `WindowHonoured`: no delivery leaves its queue before its 48 hours.
- `NoOrphans`: no job or wait of a deleted switch.
- `SpentOnce`: a TOTP code or a link is accepted by one of the transactions that bring it.
  `ResetsLive`: no deadline is set on a switch that is not active, and a bulk check-in resets
  all it answers ok for. `AuditLinear`: the audit log is a chain without forks.
  `CirclesKnown`: a deadlock takes a transaction that goes over many switches, or the
  materialization of a reminder (switch before owner, where a check-in goes the other way), or it is
  one of the pairs of `Opposed`: a link check-in or a vote with a delete, a duplicate with a manual
  check-in or a cancel. PostgreSQL ends one of them, its handler answers 500.
- `OnlyOfMissed`: who checks in before a stage is reached is not reminded of it.
  `OneSenderOnce`: one loop sends a reminder, and once in a cycle. `SettledHonestly`: sent means
  taken by the provider, failed means all attempts made. `SettledStays`: both are final.
  `OwnerHears`: a silent owner is reminded, or the e-mail failed for good.
- `OverdueReleased`: an overdue live switch is released, or checked in, or its job has a
  dead letter, or its retry lies past modelled time.
- `LockoutExact`: no failed login is lost or counted twice, and the lockout is set exactly at the limit.
  `Throttled`: a fixed window lets through at most twice the limit, less one, in any stretch of its
  length. `OneOpenReset`: one reset at most is open. `PasswordChanges`: for who
  brought the password in force, or by an open reset that the same commit closes with every
  session. `RequestsEnd`: every request is answered, also out of a deadlock.
- `RecoveryOnce`: a recovery code opens one session and is used up. `FactorFirst`: a
  pending session becomes a full one by its own verified factor, or because 2FA was disabled.
- `AccountsExact`: a setup token and an invitation make one account each, with the role and
  address the invitation names, and the audit log has a row for each account and no other.
  `SetupFollowsToken`: the setup token issued last decides, setup is complete exactly when that token
  has made its account, and a replaced one makes none. `ClosedForGood`: once setup is complete, and no
  installer is between its look and its write, it stays complete and makes no administrator any more.
  `SetupStaysClosed` is what `docs/API.md` says, without the condition on the installer, and does not hold.
- `PagesExact`: a reader gets every row that was there at the first page, newest first, none twice and none left
  out; of the audit log no other. `ExportsRecorded`: an export is sent only with its row in the ledger.
- `Deliverable`: a switch that was armed has a payload and somebody who accepted (who may be
  removed later). `QuorumExact`: the quorum job has as many votes behind it as the threshold, and
  the vote that reaches the threshold makes it, if votes did not overlap and the threshold was
  set before them. `CopyIsSnapshot`: what a copy read of its source holds until it is inserted.
- `OpensExactly`: after any rotations each envelope opens to its secret with the key of the version it
  names and with its own associated data, and with nothing else. `RotationExact`: needsRotation is exact, so
  that it can be asked before a key is given up.

**Fairness.** `FairSpec` of `ReleasePath` and of `OwnerReminders` (where a send also comes to an end
because of its 30 s deadline): time passes; every loop keeps taking the steps of its cycle
(`scheduleNextTick` re-arms its timer in `finally`, whatever the cycle did); a received
request ends. Nobody has to send a request and no fault has to happen. Within a
loop weak fairness is enough, because a loop always has exactly one place to go on
from and only its own steps move it. `FairSpec` of `Accounts`: Node runs every request on, and
PostgreSQL hands a row lock to those who wait in the order in which they asked; the wait for a
lock may be interrupted by others again and again in the model, so this is strong fairness.

### Met while modelling

Where documents and code differ, or the code surprised us. The first has a run of its own; of the
others the properties above state what holds.

- `issue_setup_token` looks at `setup_completed` in one session and writes `'false'` in another
  (`install.sh:231-246`), so that a setup that completes in between is open again, for the new token and
  a second administrator. `docs/API.md:12` has setup "permanently unavailable after completion", and
  `docs/API.md:24` has it answer 410 "once bootstrap is complete". The run `setup_closed` shows it;
  `ClosedForGood` is what is left of the promise.
- Requests about one switch can deadlock, two at a time. A link check-in claims the link and a vote
  writes the recipient before they refer to the switch (`heartbeat.ts:325`, `triggers.ts:162`), while a
  delete locks the switch before it cascades to both (`switches.ts:683`). A duplicate reads the switch `FOR SHARE`
  before the copy refers to its owner (`switches.ts:240`), while a manual check-in and a cancel lock the
  owner before they change the switch. `CirclesKnown` says that these are all.

- `recordHeartbeat` leaves an open trigger job as it is, and `processJob` does not compare the job
  with the deadline: a check-in after the materializer ran does not stop the release
  (`docs/adr/003-fail-safe-default.md:14-15` has the owner check in "during the
  grace/cancellation window").
- Disarm sets status and deadline only; an open job is later processed and releases the paused
  switch (`README.md:68`: "disarm or cancel as appropriate before release").
  A cancel that commits between two statements of the scheduler is undone in the same way
  (`trigger-engine.ts:220` has no status guard).
- Only `completeJob` looks at `owner_id`: a worker whose lease ran out may restart the
  countdown of a rehearsal its successor completed (`docs/adr/004-clock-contract.md:52-53`).
- The grace window is used by the recovery only; `run_at` is the deadline plus the ladder
  (`docs/ARCHITECTURE.md:3`). After an outage longer than the grace the recovery skips the
  rest of the ladder (ADR-004: uncertainty never accelerates).
- A claimed delivery has no lease: a crash while sending leaves it running
  (`docs/adr/002-postgres-as-queue.md:81`). A job whose worker crashes each time passes `max_attempts`,
  because the reaper does not look at it.
- `processJob` releases the switch in the transaction that queues the deliveries, and cancel refuses
  released switches, so that the 48 h window of ADR-003 cannot be used for a cancel
  (`docs/API.md:128` says so). A released switch can be armed again although `docs/API.md:125`
  calls it immutable.
- A single check-in that races with a pause is answered ok and resets nothing (`heartbeat.ts:56` finds no
  row); a switch put into rehearsal between the two reads of `processJob` is delivered; recovery
  treats the heartbeat deadline of a fixed-date switch as its own; the materialization of a
  reminder waits up to 30 s for a loop that is sending the same one, holding the switch and its owner.
- Votes are counted before they are committed: two that overlap may each count one too few, and
  a later vote counts them (`QuorumNoticed` says under which condition the job is made at once).
- Rows of the ledger of exports become visible in any order, so that a page may begin below a row that
  appears later; `PagesExact` promises such rows to nobody.

## 4. Proofs

Under the assumptions named in the modules (durations are natural numbers, sets that need it
are finite, `None` is none of the values it stands beside), which TLC evaluates in the runs.

**Release path**, for any number of switches, loops, requests and recipients and any durations,
skew budget and attempts.

- `ReleasePathProofs`: `TypeCorrect` (`Spec => []TypeOK`; inductive with `ClaimHeld`, a loop
  at work has a claim, because `claim[w].key` is used where the code uses its `job`),
  `LeasesAlwaysKept`, `LeaseAlwaysProtects`, `NeverFiresEarly`, `NothingOrphaned`, and for a single
  loop (`SingleLoop`) `WaitAlwaysHolds`.
- `ReleaseQueueProofs`: `WindowAlwaysHonoured`, `DeadLettersExact`, `FinalAlwaysStays`,
  `QueueImplemented`.

The argument. `RowLifecycle` says what *any* step of the system does to one
row of `trigger_jobs`: keep it, reap it, let a loop take it, end it or retry it by its
owner, withdraw it, insert it (by recovery, or from a snapshot), or drop it with its
switch. `ClaimLifecycle` says that a loop at work either was at work on the same claim or has
just made it from a pending row; `NowStep` bounds a loop's `Date` by the clock and the budget.
The properties are not inductive by themselves; `SafetyInv` adds

- `SnapshotFresh`: rows not yet inserted are unowned and keep their ladder,
- `JobsRooted`, `WaitsRooted`: keys belong to existing switches, so the key of a deleted
  job never comes back under a worker that still holds it,
- `JobTimes`: `run_at` respects the row's time, or that time has come (a retry may set it
  lower than the ladder, but only a worker retries, and it worked late enough),
- `ClaimSound`: a loop at work still holds its row, or the row is final, or the lease ran
  out, or the row is gone with its switch.

A new claim needs a pending row, so by `ClaimSound` any other worker's lease on it is over:
that is `LeaseProtects`.

`WaitHolds` adds to this, for the loop that is alone, `DeadlinesNear` (a deadline is at most an
interval away), `WaitsNear` (a wait ends at most a grace after the deadline of its switch), and
`SnapshotAwake`: what the loop is about to insert belongs to switches that do not wait, because
nobody but the loop makes one wait.

For the deliveries, `DeliveryStep` is what `RowLifecycle` is for jobs. `DispatchInv` adds that what a loop has in hand
is running or gone with its switch (`BatchRunning`), and that no other loop has it too (`BatchesApart`); that a
deleted switch has nobody who accepts (`RecipientsOver`), deliveries stem from jobs
(`DeliveriesRooted`) and a letter without its row is one of a deleted switch (`LettersRooted`), so that
no new row meets an old letter; and `DeliveryTimes`: `available_at` respects the 48 h, or they are over.

`QueueImplemented` is the refinement: with `States` and `Letters` for the abstract queue's two
variables, the initial state maps to its initial state and every step of every action to
a step of `TriggerQueue` or to a stutter (`QueueStep`); it follows from `RowLifecycle` and
`DeadLetterExact`.

**Locks and the audit chain** (`CheckInLocksProofs`), for any number of connections, switches,
owners, delegates and audit rows: `LocksAlways` (the invariant), `AuditAlwaysLinear`, `AlwaysSpentOnce`,
`ResetsAlwaysLive`, `CirclesAlwaysKnown`.

`Moves` says what a step of one transaction is: it starts, makes or skips one statement that may come
next, or ends. `LocksInv` is: locks exclude (`LocksExclude`); each transaction still has a program of
the shape its kind has and makes it in order (`Ordered`, `Recording`); what it has written or
looked at is covered by a lock it holds (`WorkCovered`, `BulkCovers`, `RemindersOwned`); and
`Chained`: the rows that are committed form a chain, and who holds the audit lock appends to its newest.
Deadlocks: `HeldInOrder` tells from what a transaction holds what it may still ask for, and
`Rooted` what a statement rests on (a reset and the delete of a wait on the heartbeat's share of the switch, the
cascades on the lock of the delete). Each statement has a `Rank`, 0 to 6. Among transactions outside
`ManyRows` (bulk check-in, a reminder's materialization, recovery, promotion) the rank grows from the one that
waits to the one it waits for, or the two wait for each other and are one of the pairs of
`Opposed` (`RankGrows`). A circle in which it always grew would have no end (`NoOtherCircle`), so there is such a pair in
it, and the pair is a circle by itself: it is all of it.

**Reminders** (`OwnerRemindersProofs`), for any number of switches, loops, faults and any skew:
`OnlyMissedRemind`, `OneSenderAlways`, `AlwaysHonest`, `SettledForGood`. Two facts carry it. Deadlines only grow
(`DeadlinesGrow`), so what a scan found is a deadline the owner did not move in time (`Missed`), however
late it is inserted. And a row that is being sent is pending and due for its loop (`Sending`,
`DueAt`), while one the loop has settled is not.

**Switches before the release** (`SwitchSetupProofs`), for any number of switches, recipients,
requests and any threshold: `SetupTyped`, `AlwaysDeliverable`, `QuorumAlwaysExact`, `CopiesAreSnapshots`. `Fits` is
what a request in flight may count on: what it has seen is locked, as the source of a copy and the
switch to arm are, or only grows, as payloads, votes and acceptances do. For the quorum, votes
that nobody disturbed come one after the other (`InTurn`, `Undisturbed`), and then the counted votes are all.

**Accounts** (`AccountsProofs`), for any number of requests, passwords, tokens and codes:
`CountsExactly` (`LockoutExact`), `OneOpen` (`OneOpenReset`), `ChangesAuthorised` (`PasswordChanges`).

The argument is the row locks. `UserExclusive` and `ResetsExclusive` say that `FOR UPDATE`
excludes; `RequestStep` and `Taken` that a step changes one request, which ends, holds nothing or
takes a lock that was free. What was true when the lock was taken then still is: the issuer
closes every reset that is open (`IssuerCloses`), the consumer's reset is open (`ConsumerOpen`), the
password a change verified is in force (`PasswordKept`). `IssuerCloses` survives another
consumer because that only closes, and another issuer because there is none while the user is
held; so the reset an issuer inserts is the only open one (`AtMostOne`).

`OpensOnce` (`RecoveryOnce`) and `FactorAlwaysFirst` (`FactorFirst`) go through the steps by what they do to
the sessions: a step keeps their tokens and codes, or opens one with a token not drawn before
(`SessionsFormed`), with the recovery code its own update has just used up, or with none; a session loses
`pending` only in a step of a request that verifies its factor, or when 2FA is disabled. `AccountsTyped`
(`TypeOK`) needs what a request carries for its later steps (`RequestsKnow`) and that the bounds keep a
token and a reset back for every request that may still draw one (`TokensReserved`, `ResetsReserved`).

`AlwaysThrottled` (`Throttled`) counts pairs (instant, number) as cardinalities, so that no sum over a range
is needed. The invariant `WindowInv`: the open window has counted all that it let through; and of
what came before its start, a stretch that begins within a window's length of it holds at most
the limit less one, because the first admission of the window before lies further back. A stretch that
reaches into the open window is two parts, and the bound is the sum of the two.

**Onboarding and pages** (`OnboardingProofs`), for any number of requests, addresses and spellings,
tokens, readers, exporters and any size of pages: `AccountsAlwaysExact`, `SetupAlwaysFollowsToken`,
`SetupClosedForGood`, `PagesAlwaysExact`, `ExportsAlwaysRecorded`. Accounts: a request about to write holds the row of its token, which is
the one in force (`HeldConfig`) or open (`HeldInvites`), and no account carries a token yet to be issued
(`IssuedTokens`). Setup: the token in force is the one issued last while setup is open
(`SetupFollowsToken`), so nobody is about to write once it is complete. Pages: `ReaderFits` says what a reader has between two pages, namely every row of the
first page's table from its cursor up, and `PageFits` that one page adds the next ones; rows are named by their
place, the number of rows above them, which works for pages and tables of any length without
induction. Exports: a number that is not visible yet belongs to one exporter (`ExportsInv`).

**Envelopes** (`EnvelopesProofs`), for any rows, keys, versions and secrets: `EnvelopesTyped` (`TypeOK`),
`EnvelopesOpen` (`OpensExactly`), `RotationKnown` (`RotationExact`). The invariant `WellSealed`: every envelope is what
`encrypt` would make of the row's secret under the key of the version it names. `DecryptEncrypt`,
`RewrapEncrypt` and `RotatedEncrypt` say so of the functions: a rotation that is not refused
returns what `encrypt` would have made under the new key, whatever key and associated data it was
called with. Both properties follow, with one key per version (`RingInjective`).

Every safety property of the runs is thus a theorem, `WaitHolds` under the condition under which it is
checked. Only model-checked are the liveness properties `OverdueReleased`, `OwnerHears` and
`RequestsEnd`: liveness under fairness and `ENABLED` are out of the prover's reach.

## 5. Not modelled

- Escalation (`api/lib/escalation.ts`): a pure function only its test calls; the engine and the
  reminders compute their times in SQL, which is modelled.
- Sharing, asymmetric sealing, key derivation, password hashing, the ciphers (`packages/crypto`), and the hash
  of the audit chain: arithmetic out of TLC's reach. The API does not call the first three.
- Providers (pure I/O, an outcome each), server assembly, the web console (presentation; the
  server checks everything), migrations, backup, installer beyond the setup token, CI.
- Lists and views of switches, users, sessions, delegates: reads without consequence. Revoking a
  delegation: one `DELETE`, after which the delegate is not found any more.
- The shutdown of `startServer` waits for the running cycle: the same to the tables as no
  further cycle.
- Two releases of one switch within one run of the ladder (an interval shorter than the
  ladder): the state space of two full ladders is out of reach; `NeverEarly` is proved for it.
- An abstract dead man's switch over the whole release path, which would have to say under which
  races an owner's act still counts: the list under "Met while modelling" is the reason it is not stated.
