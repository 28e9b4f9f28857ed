------------------------------ MODULE Accounts ------------------------------
(***************************************************************************)
(* One account of Heartbeat Vault: password login with lockout, sessions,  *)
(* TOTP, recovery codes, WebAuthn and password resets (auth.ts, totp.ts,   *)
(* recovery.ts, webauthn*.ts, account.ts, password-resets.ts, users.ts).   *)
(*                                                                         *)
(* A request goes through up to three steps: "look" (the session has been  *)
(* checked by the pre-handler, the rows are still to be read), "act" (they *)
(* are read and verified, and may be stale by now) and, where a            *)
(* transaction locks a row first, "write".  Rows are locked FOR UPDATE     *)
(* only by the password change and by issuing and consuming a reset.       *)
(***************************************************************************)
EXTENDS Integers, FiniteSets

CONSTANTS
  Slots,          \* requests that may be in flight
  MaxTokens,      \* bound: session tokens that may be drawn
  MaxResets,      \* bound: password reset tokens that may be drawn
  Passwords,
  Ops,            \* what requests ask for
  Codes,          \* recovery codes that may be drawn
  BatchSize,      \* RECOVERY_CODE_COUNT
  None,
  MaxFailed, Lockout, SessionTtl, ChallengeTtl, ResetTtl,
  LoginMax, LoginWindow,
  Horizon         \* bound: the clock stops here

ASSUME AccountDurations ==
  /\ {Lockout, SessionTtl, ChallengeTtl, ResetTtl, Horizon} \subseteq Nat
  /\ {MaxFailed, LoginMax, LoginWindow} \subseteq Nat \ {0}
ASSUME AccountSets ==
  /\ {MaxTokens, MaxResets} \subseteq Nat
  /\ IsFiniteSet(Codes)
  /\ Passwords # {}
  /\ None \notin Passwords \cup Codes \cup Int \cup [count : Nat, start : Nat]

VARIABLES
  clock,
  user,           \* the row of users
  sessions,       \* token -> row of sessions
  codes,          \* recovery code -> has been used
  credential,     \* a WebAuthn credential is registered
  resets,         \* token -> row of password_resets
  bucket,         \* the limiter's entry for login from one address
  requests,       \* slot -> request, or None
  failures,       \* history: failed logins committed since the last success
  admitted        \* history: when the limiter let a login through

\* Tokens are never drawn twice: they are numbered as they are.
Tokens == 1..MaxTokens
Resets == 1..MaxResets

rows == <<user, sessions, codes, credential, resets>>
history == <<failures, admitted>>
vars == <<clock, rows, bucket, requests, history>>

Instants == 0 .. Horizon + Lockout + SessionTtl + ResetTtl

User == [password : Passwords, failed : Nat, lockedUntil : Instants \cup {None},
         enrolled : BOOLEAN, verified : BOOLEAN, counter : Nat]
Session == [pending : BOOLEAN, revoked : BOOLEAN, expires : Instants,
            challenge : Instants \cup {None}, by : Codes \cup {None}]
Reset == [consumed : BOOLEAN, expires : Instants]
Seen == [password : Passwords, failed : Nat, verified : BOOLEAN]
Request ==
  [op : Ops, pc : {"look", "act", "write"}, session : Tokens \cup {None},
   pending : BOOLEAN, brought : Passwords \cup Codes \cup Resets \cup {None},
   seen : Seen \cup {None}, step : Nat, closing : SUBSET Resets]

TypeOK ==
  /\ clock \in 0..Horizon
  /\ user \in User
  /\ DOMAIN sessions \subseteq Tokens /\ \A s \in DOMAIN sessions : sessions[s] \in Session
  /\ DOMAIN codes \subseteq Codes /\ \A c \in DOMAIN codes : codes[c] \in BOOLEAN
  /\ credential \in BOOLEAN
  /\ DOMAIN resets \subseteq Resets /\ \A r \in DOMAIN resets : resets[r] \in Reset
  /\ bucket \in [count : 1..LoginMax, start : 0..Horizon] \cup {None}
  /\ requests \in [Slots -> Request \cup {None}]
  /\ failures \in Nat
  /\ admitted \in [0..Horizon -> Nat]

Init ==
  /\ clock = 0
  /\ user = [password |-> CHOOSE p \in Passwords : TRUE, failed |-> 0, lockedUntil |-> None,
             enrolled |-> FALSE, verified |-> FALSE, counter |-> 0]
  /\ sessions = [s \in {} |-> None]
  /\ codes = [c \in {} |-> FALSE]
  /\ credential = FALSE
  /\ resets = [r \in {} |-> None]
  /\ bucket = None
  /\ requests = [q \in Slots |-> None]
  /\ failures = 0
  /\ admitted = [t \in 0..Horizon |-> 0]
-----------------------------------------------------------------------------
(* Requests and the rows they hold.                                        *)

At(q, op, pc) == requests[q] # None /\ requests[q].op = op /\ requests[q].pc = pc

Set(q, request) == requests' = [requests EXCEPT ![q] = request]

\* The reply: whatever the request held is released.
Ends(q) == Set(q, None)

\* SELECT ... FROM users WHERE id = $1 FOR UPDATE, until the transaction ends.
HoldsUser(q) ==
  requests[q] # None /\ \/ requests[q].op = "password" /\ requests[q].pc = "write"
                        \/ requests[q].op = "issue" /\ requests[q].pc # "look"

\* The locked rows of password_resets.
HeldResets(q) ==
  IF requests[q] = None THEN {}
  ELSE IF At(q, "consume", "write") THEN {requests[q].brought} ELSE requests[q].closing

\* Updating the user, or inserting a row that refers to it, waits for the lock.
UserFree(q) == \A p \in Slots \ {q} : ~HoldsUser(p)
ResetsFree(q, wanted) == \A p \in Slots \ {q} : HeldResets(p) \cap wanted = {}

Arrived(op, session, brought) ==
  [op |-> op, pc |-> "look", session |-> session, pending |-> FALSE,
   brought |-> brought, seen |-> None, step |-> 0, closing |-> {}]

Live(s) == s \in DOMAIN sessions /\ ~sessions[s].revoked /\ sessions[s].expires > clock

\* createAuthPreHandler: sessions that wait for their second factor are for 2FA routes.
Authenticated(s, allowPending) == Live(s) /\ (sessions[s].pending => allowPending)

\* Bound: tokens and codes in flight or used up are not drawn again.
Opening ==
  {q \in Slots : /\ requests[q] # None
                 /\ \/ requests[q].op = "recover"
                    \/ requests[q].op = "login" /\ requests[q].brought = requests[q].seen.password}
TokensLeft == Cardinality(DOMAIN sessions) + Cardinality(Opening) < Cardinality(Tokens)
FreshCodes ==
  Codes \ (DOMAIN codes \cup {sessions[s].by : s \in DOMAIN sessions}
           \cup {requests[q].brought : q \in {p \in Slots : requests[p] # None}})
Regenerating == {q \in Slots : requests[q] # None /\ requests[q].op = "regenerate"}

\* INSERT INTO sessions with a token just drawn.
OpenSession(pending, by) ==
  LET s == Cardinality(DOMAIN sessions) + 1 IN
    sessions' = [t \in DOMAIN sessions \cup {s} |->
      IF t = s THEN [pending |-> pending, revoked |-> FALSE, expires |-> clock + SessionTtl,
                     challenge |-> None, by |-> by]
      ELSE sessions[t]]

\* Fault: only the sessions that wait for their second factor.
RevokedPending ==
  [s \in DOMAIN sessions |-> [sessions[s] EXCEPT !.revoked = @ \/ sessions[s].pending]]

\* UPDATE sessions SET revoked_at WHERE user_id = $1 AND revoked_at IS NULL.
RevokedSessions == [s \in DOMAIN sessions |-> [sessions[s] EXCEPT !.revoked = TRUE]]
-----------------------------------------------------------------------------
(* Login.                                                                  *)

\* checkRateLimit: a window opens with the first attempt after the last one ended.
WindowOver(t) == bucket # None => t - bucket.start >= LoginWindow

\* Fault: one attempt more than the limit.
AdmitsOneMore(t) == ~WindowOver(t) => bucket.count <= LoginMax

Admits(t) == ~WindowOver(t) => bucket.count < LoginMax

\* Fault: the window is never started anew.
CountedOnwards(t) == IF bucket = None THEN [count |-> 1, start |-> t]
                     ELSE [bucket EXCEPT !.count = @ + 1]

Counted(t) == IF WindowOver(t) THEN [count |-> 1, start |-> t]
              ELSE [bucket EXCEPT !.count = @ + 1]

\* What a login takes from the row it reads, for later.
UserRead ==
  [password |-> user.password, failed |-> user.failed, verified |-> user.verified]

\* The row is read without a lock.  A locked account is answered at once.
LoginArrives(q) ==
  /\ "login" \in Ops /\ requests[q] = None
  /\ Admits(clock)
  /\ bucket' = Counted(clock)
  /\ admitted' = [admitted EXCEPT ![clock] = @ + 1]
  /\ IF user.lockedUntil # None /\ user.lockedUntil > clock
     THEN UNCHANGED requests
     ELSE \E password \in Passwords :
            /\ password = user.password => TokensLeft
            /\ Set(q, [Arrived("login", None, password) EXCEPT !.pc = "act", !.seen = UserRead])
  /\ UNCHANGED <<clock, rows, failures>>

\* Fault: counted from the row as the request read it.
FailureCountedFromSeen(seen) ==
  [user EXCEPT !.failed = seen.failed + 1,
               !.lockedUntil = IF seen.failed + 1 >= MaxFailed THEN clock + Lockout ELSE @]

FailureCounted(seen) ==
  [user EXCEPT !.failed = @ + 1,
               !.lockedUntil = IF user.failed + 1 >= MaxFailed THEN clock + Lockout ELSE @]

LoginFails(q) ==
  /\ At(q, "login", "act") /\ UserFree(q)
  /\ requests[q].brought # requests[q].seen.password
  /\ user' = FailureCounted(requests[q].seen)
  /\ failures' = failures + 1
  /\ Ends(q)
  /\ UNCHANGED <<clock, sessions, codes, credential, resets, bucket, admitted>>

\* Whether a second factor is asked for was read with the password.
LoginOpens(q) ==
  /\ At(q, "login", "act") /\ UserFree(q)
  /\ requests[q].brought = requests[q].seen.password
  /\ user' = [user EXCEPT !.failed = 0, !.lockedUntil = None]
  /\ OpenSession(requests[q].seen.verified, None)
  /\ failures' = 0
  /\ Ends(q)
  /\ UNCHANGED <<clock, codes, credential, resets, bucket, admitted>>

\* /api/login/recover: the unused codes are read and compared, and one is matched.
RecoverArrives(q) ==
  /\ "recover" \in Ops /\ requests[q] = None /\ TokensLeft
  /\ \E c \in DOMAIN codes :
       /\ ~codes[c]
       /\ Set(q, [Arrived("recover", None, c) EXCEPT !.pc = "act"])
  /\ UNCHANGED <<clock, rows, bucket, history>>

\* Fault: the update does not look at used_at.
ConsumableAgain(c) == c \in DOMAIN codes

\* UPDATE recovery_codes SET used_at WHERE id = $1 AND used_at IS NULL.
Consumable(c) == c \in DOMAIN codes /\ ~codes[c]

Recover(q) ==
  /\ At(q, "recover", "act") /\ UserFree(q)
  /\ LET c == requests[q].brought IN
       \/ /\ Consumable(c)
          /\ codes' = [d \in DOMAIN codes |-> d = c \/ codes[d]]
          /\ OpenSession(FALSE, c)
       \/ ~Consumable(c) /\ UNCHANGED <<codes, sessions>>
  /\ Ends(q)
  /\ UNCHANGED <<clock, user, credential, resets, bucket, history>>
-----------------------------------------------------------------------------
(* Requests of a session.                                                  *)

PendingRoutes == {"challenge", "loginOptions", "loginVerify"}
SessionRoutes == PendingRoutes \cup {"logout", "enroll", "verify", "disable",
                                     "regenerate", "password", "registerOptions", "registerVerify"}

Arrives(q) ==
  /\ requests[q] = None
  /\ \E op \in SessionRoutes \cap Ops, s \in Tokens :
       /\ Authenticated(s, op \in PendingRoutes)
       /\ op \in {"regenerate"} =>
            BatchSize * (1 + Cardinality(Regenerating)) <= Cardinality(FreshCodes)
       /\ \E password \in Passwords \cup {None} :
            /\ password = None <=> op \notin {"disable", "password"}
            /\ Set(q, [Arrived(op, s, password) EXCEPT !.pending = sessions[s].pending])
  /\ UNCHANGED <<clock, rows, bucket, history>>

Logout(q) ==
  /\ At(q, "logout", "look")
  /\ sessions' = [sessions EXCEPT ![requests[q].session].revoked = TRUE]
  /\ Ends(q)
  /\ UNCHANGED <<clock, user, codes, credential, resets, bucket, history>>

\* /api/sessions/revoke-all and /api/users/:id/revoke-sessions: the user or an
\* administrator, at any time and in one statement.
RevokeAll ==
  /\ "revoke" \in Ops
  /\ sessions' = RevokedSessions
  /\ UNCHANGED <<clock, user, codes, credential, resets, bucket, requests, history>>

\* totp/enroll: a new secret, not yet verified, even over a verified one.
Enroll(q) ==
  /\ At(q, "enroll", "look") /\ UserFree(q)
  /\ user' = [user EXCEPT !.enrolled = TRUE, !.verified = FALSE, !.counter = 0]
  /\ Ends(q)
  /\ UNCHANGED <<clock, sessions, codes, credential, resets, bucket, history>>

\* Past-step-only window: the current step or the one before it.
CodeSteps == {clock + 1, clock + 2}

\* What verify, challenge and regenerate ask of the row before they look at the code.
TotpUsable(request) ==
  /\ user.enrolled
  /\ request.op # "verify" => user.verified
  /\ request.op = "challenge" => request.pending

\* The code is compared with the secret and the counter just read.
TotpLook(q) ==
  /\ requests[q] # None /\ requests[q].op \in {"verify", "challenge", "regenerate"}
  /\ requests[q].pc = "look"
  /\ \/ Ends(q)
     \/ /\ TotpUsable(requests[q])
        /\ \E step \in CodeSteps :
             /\ step > user.counter
             /\ Set(q, [requests[q] EXCEPT !.pc = "act", !.step = step])
  /\ UNCHANGED <<clock, rows, bucket, history>>

TotpVerify(q) ==
  /\ At(q, "verify", "act") /\ UserFree(q)
  /\ user' = [user EXCEPT !.verified = TRUE, !.counter = requests[q].step]
  /\ Ends(q)
  /\ UNCHANGED <<clock, sessions, codes, credential, resets, bucket, history>>

\* Fault: every session of the user.
CompletedEverywhere(s) == [t \in DOMAIN sessions |-> [sessions[t] EXCEPT !.pending = FALSE]]

\* UPDATE sessions SET totp_pending = false WHERE token_hash = $1.
Completed(s) == [sessions EXCEPT ![s].pending = FALSE]

TotpChallenge(q) ==
  /\ At(q, "challenge", "act") /\ UserFree(q)
  /\ user' = [user EXCEPT !.counter = requests[q].step]
  /\ sessions' = Completed(requests[q].session)
  /\ Ends(q)
  /\ UNCHANGED <<clock, codes, credential, resets, bucket, history>>

\* recovery-codes/regenerate: the previous batch dies.
Regenerate(q) ==
  /\ At(q, "regenerate", "act") /\ UserFree(q)
  /\ \E batch \in {b \in SUBSET FreshCodes : Cardinality(b) = BatchSize} :
       codes' = [c \in batch |-> FALSE]
  /\ user' = [user EXCEPT !.counter = requests[q].step]
  /\ Ends(q)
  /\ UNCHANGED <<clock, sessions, credential, resets, bucket, history>>

\* totp/disable: the password is compared with the hash just read.
DisableLook(q) ==
  /\ At(q, "disable", "look")
  /\ IF requests[q].brought = user.password
     THEN Set(q, [requests[q] EXCEPT !.pc = "act"])
     ELSE Ends(q)
  /\ UNCHANGED <<clock, rows, bucket, history>>

\* Sessions that wait for a second factor have nothing left to wait for.
Disable(q) ==
  /\ At(q, "disable", "act") /\ UserFree(q)
  /\ user' = [user EXCEPT !.enrolled = FALSE, !.verified = FALSE, !.counter = 0]
  /\ sessions' = [s \in DOMAIN sessions |-> [sessions[s] EXCEPT !.pending = FALSE]]
  /\ codes' = [c \in {} |-> FALSE]
  /\ Ends(q)
  /\ UNCHANGED <<clock, credential, resets, bucket, history>>

\* webauthn/register-options: a challenge that belongs to this session.
RegisterOptions(q) ==
  /\ At(q, "registerOptions", "look")
  /\ sessions' = [sessions EXCEPT ![requests[q].session].challenge = clock]
  /\ Ends(q)
  /\ UNCHANGED <<clock, user, codes, credential, resets, bucket, history>>

\* webauthn/login-options: only while the session waits, and for a credential.
LoginOptions(q) ==
  /\ At(q, "loginOptions", "look")
  /\ sessions' = IF requests[q].pending /\ credential
                 THEN [sessions EXCEPT ![requests[q].session].challenge = clock]
                 ELSE sessions
  /\ Ends(q)
  /\ UNCHANGED <<clock, user, codes, credential, resets, bucket, history>>

\* readStoredChallenge, and the verifier of @simplewebauthn/server, which may refuse.
ChallengeFresh(s) ==
  sessions[s].challenge # None /\ clock - sessions[s].challenge <= ChallengeTtl

WebauthnLook(q) ==
  /\ requests[q] # None /\ requests[q].op \in {"registerVerify", "loginVerify"}
  /\ requests[q].pc = "look"
  /\ \/ Ends(q)
     \/ /\ ChallengeFresh(requests[q].session)
        /\ requests[q].op = "loginVerify" => credential
        /\ Set(q, [requests[q] EXCEPT !.pc = "act"])
  /\ UNCHANGED <<clock, rows, bucket, history>>

WebauthnRegister(q) ==
  /\ At(q, "registerVerify", "act") /\ UserFree(q)
  /\ credential' = TRUE
  /\ sessions' = [sessions EXCEPT ![requests[q].session].challenge = None]
  /\ Ends(q)
  /\ UNCHANGED <<clock, user, codes, resets, bucket, history>>

WebauthnLogin(q) ==
  /\ At(q, "loginVerify", "act")
  /\ sessions' = [Completed(requests[q].session) EXCEPT ![requests[q].session].challenge = None]
  /\ Ends(q)
  /\ UNCHANGED <<clock, user, codes, credential, resets, bucket, history>>
-----------------------------------------------------------------------------
(* Passwords.                                                              *)

\* account/password: the row is locked before the current password is compared.
ChangeLock(q) ==
  /\ At(q, "password", "look") /\ UserFree(q)
  /\ IF requests[q].brought = user.password
     THEN Set(q, [requests[q] EXCEPT !.pc = "write"])
     ELSE Ends(q)
  /\ UNCHANGED <<clock, rows, bucket, history>>

ChangePassword(q) ==
  /\ At(q, "password", "write") /\ UserFree(q)
  /\ \E new \in Passwords : user' = [user EXCEPT !.password = new]
  /\ Ends(q)
  /\ UNCHANGED <<clock, sessions, codes, credential, resets, bucket, history>>

OpenResets == {r \in DOMAIN resets : ~resets[r].consumed}

\* Fault: the user is not locked.
IssueUnlocked(q) ==
  /\ "issue" \in Ops /\ requests[q] = None
  /\ DOMAIN resets # Resets
  /\ Set(q, [Arrived("issue", None, None) EXCEPT !.pc = "act"])
  /\ UNCHANGED <<clock, rows, bucket, history>>

\* users/:id/password-reset: another administrator locks the user.
IssueLock(q) ==
  /\ "issue" \in Ops /\ requests[q] = None
  /\ DOMAIN resets # Resets
  /\ UserFree(q)
  /\ Set(q, [Arrived("issue", None, None) EXCEPT !.pc = "act"])
  /\ UNCHANGED <<clock, rows, bucket, history>>

\* UPDATE password_resets SET consumed_at: the open resets, once their rows are free.
IssueClose(q) ==
  /\ At(q, "issue", "act")
  /\ ResetsFree(q, OpenResets)
  /\ Set(q, [requests[q] EXCEPT !.pc = "write", !.closing = OpenResets])
  /\ UNCHANGED <<clock, rows, bucket, history>>

IssueCommit(q) ==
  /\ At(q, "issue", "write")
  /\ LET fresh == Cardinality(DOMAIN resets) + 1 IN
       resets' = [r \in DOMAIN resets \cup {fresh} |->
         IF r = fresh THEN [consumed |-> FALSE, expires |-> clock + ResetTtl]
         ELSE [resets[r] EXCEPT !.consumed = @ \/ r \in requests[q].closing]]
  /\ Ends(q)
  /\ UNCHANGED <<clock, user, sessions, codes, credential, bucket, history>>

\* account/password/reset: the reset's row is locked before it is looked at.
ConsumeLock(q) ==
  /\ "consume" \in Ops /\ requests[q] = None
  /\ \E r \in OpenResets :
       /\ ResetsFree(q, {r})
       /\ resets[r].expires > clock
       /\ Set(q, [Arrived("consume", None, r) EXCEPT !.pc = "write"])
  /\ UNCHANGED <<clock, rows, bucket, history>>

ConsumeWrite(q) ==
  /\ At(q, "consume", "write") /\ UserFree(q)
  /\ \E new \in Passwords : user' = [user EXCEPT !.password = new]
  /\ sessions' = RevokedSessions
  /\ resets' = [resets EXCEPT ![requests[q].brought].consumed = TRUE]
  /\ Ends(q)
  /\ UNCHANGED <<clock, codes, credential, bucket, history>>

\* The issuer holds the user and waits for the reset, its consumer the other way
\* round: PostgreSQL makes one of them fail, and its transaction is rolled back.
InCircle(p, q) ==
  /\ At(p, "issue", "act") /\ At(q, "consume", "write")
  /\ requests[q].brought \in OpenResets

\* Fault: nobody breaks the circle.
Victimless(q) == FALSE

Victim(q) ==
  /\ \E p \in Slots : InCircle(q, p) \/ InCircle(p, q)
  /\ Ends(q)
  /\ UNCHANGED <<clock, rows, bucket, history>>
-----------------------------------------------------------------------------
Tick ==
  /\ clock < Horizon
  /\ clock' = clock + 1
  /\ UNCHANGED <<rows, bucket, requests, history>>

\* The steps of a request that has arrived.
Progress(q) ==
  /\ requests[q] # None
  /\ \/ IssueClose(q) \/ IssueCommit(q) \/ ConsumeWrite(q) \/ Victim(q)
     \/ ChangeLock(q) \/ ChangePassword(q)
     \/ LoginFails(q) \/ LoginOpens(q) \/ Recover(q)
     \/ Logout(q) \/ Enroll(q)
     \/ TotpLook(q) \/ TotpVerify(q) \/ TotpChallenge(q) \/ Regenerate(q)
     \/ DisableLook(q) \/ Disable(q)
     \/ RegisterOptions(q) \/ LoginOptions(q) \/ WebauthnLook(q) \/ WebauthnRegister(q) \/ WebauthnLogin(q)

Next ==
  \/ Tick \/ RevokeAll
  \/ \E q \in Slots :
       LoginArrives(q) \/ RecoverArrives(q) \/ Arrives(q) \/ IssueLock(q) \/ ConsumeLock(q)
       \/ Progress(q)

Spec == Init /\ [][Next]_vars

\* Node runs every request on, and PostgreSQL grants row locks in the order of asking.
FairSpec == Spec /\ \A q \in Slots : SF_vars(Progress(q))
-----------------------------------------------------------------------------
(* What must hold.                                                         *)

\* auth.ts counts failed logins by read and write of one row, however many are in
\* flight: none is lost, and a lockout is set exactly when the limit is reached.
LockoutExact ==
  /\ user.failed = failures
  /\ user.failed >= MaxFailed <=> user.lockedUntil # None

\* recovery.ts: a recovery code opens one session at most, and is then used up.
RecoveryOnce ==
  \A s, t \in DOMAIN sessions :
    sessions[s].by # None /\ sessions[s].by = sessions[t].by
      => s = t /\ (sessions[s].by \in DOMAIN codes => codes[sessions[s].by])

\* password-resets.ts: of all tokens ever issued to a user, one at most is open,
\* however the requests that issue and consume them interleave.
OneOpenReset == Cardinality(OpenResets) <= 1

\* The logins let through from one instant to another, numbered at each instant.
Admissions(from, to) ==
  UNION {{t} \X (1..admitted[t]) : t \in {u \in 0..Horizon : from <= u /\ u <= to}}

\* rate-limit.ts, a fixed window: any LoginWindow consecutive instants admit at
\* most twice the limit, the worst case at the boundary of two windows.
Throttled ==
  \A t \in 0..Horizon : Cardinality(Admissions(t, t + LoginWindow - 1)) <= 2 * LoginMax - 1

\* account.ts, password-resets.ts: the password changes only for a request that brought
\* the one in force at that moment, or by a reset that was open, that is consumed by the
\* same commit, and that leaves no session alive.
PasswordChanges ==
  [][user.password' # user.password =>
       \E q \in Slots :
         /\ requests[q] # None
         /\ \/ requests[q].op = "password" /\ requests[q].brought = user.password
            \/ /\ requests[q].op = "consume"
               /\ requests[q].brought \in OpenResets
               /\ requests[q].brought \notin OpenResets'
               /\ \A s \in DOMAIN sessions : sessions'[s].revoked]_vars

\* A session that waits for its second factor becomes a full one only by a step of its
\* own that proved one, or when the second factor was switched off altogether.
FactorFirst ==
  [][\A s \in DOMAIN sessions :
       sessions[s].pending /\ ~sessions'[s].pending =>
         \/ \E q \in Slots : /\ requests[q] # None /\ requests[q].session = s
                             /\ requests[q].op \in {"challenge", "loginVerify"}
                             /\ requests[q].pc = "act"
         \/ ~user'.enrolled]_vars

\* Every request is answered, also when a reset is issued while another is consumed.
RequestsEnd == \A q \in Slots : requests[q] # None ~> requests[q] = None
=============================================================================
