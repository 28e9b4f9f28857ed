----------------------------- MODULE Onboarding -----------------------------
(***************************************************************************)
(* How accounts come to be: the one-time setup token the installer issues  *)
(* (install.sh, setup.ts), invitations (invites.ts) and open registration  *)
(* (register.ts, admin.ts).  Each ends in a transaction that inserts the   *)
(* user and appends to the audit log, which others read meanwhile          *)
(* (AuditPages).                                                           *)
(***************************************************************************)
EXTENDS AuditPages

CONSTANTS
  Slots,          \* requests that may be in flight
  Emails,
  Lower,          \* String.prototype.toLowerCase on Emails
  SetupTtl, InviteTtl,
  MaxIssues,      \* bound: setup tokens the installer issues
  MaxInvites,     \* bound: invitations
  MaxLog,         \* bound: settings are changed while the log is shorter
  Horizon         \* bound: the clock stops here

ASSUME OnboardingConstants ==
  /\ Lower \in [Emails -> Emails]
  /\ {SetupTtl, InviteTtl, MaxIssues, MaxInvites, MaxLog, Horizon} \subseteq Nat

VARIABLES
  clock,
  config,         \* app_config: [completed, token, expires, open]
  issued,         \* setup tokens issued so far; token n was the n-th, 0 is the empty hash
  installer,      \* "idle", or "write" between issue_setup_token's SELECT and INSERT
  users,          \* email -> [role, way, token]
  invites,        \* invites, in the order of their creation
  requests        \* slot -> request, or None

tables == <<config, issued, installer, users, invites>>
vars == <<clock, tables, requests, pageVars>>

Roles == {"user", "admin"}
Config == [completed : BOOLEAN, token : Nat, expires : Nat, open : BOOLEAN]
User == [role : Roles, way : {"setup", "invite", "register"}, token : Nat]
Invite == [email : Emails, role : Roles, consumed : BOOLEAN, expires : Nat]
Request == [way : {"setup", "invite", "register"}, pc : {"look", "write"},
            email : Emails, token : Nat]

TypeOK ==
  /\ PagesTypeOK
  /\ clock \in 0..Horizon
  /\ config \in Config /\ config.token <= issued /\ issued \in 0..MaxIssues
  /\ installer \in {"idle", "write"}
  /\ DOMAIN users \subseteq Emails /\ \A e \in DOMAIN users : users[e] \in User
  /\ invites \in Seq(Invite) /\ Len(invites) <= MaxInvites
  /\ requests \in [Slots -> Request \cup {None}]

\* seed.ts.
Init ==
  /\ PagesInit
  /\ clock = 0
  /\ config = [completed |-> FALSE, token |-> 0, expires |-> 0, open |-> FALSE]
  /\ issued = 0 /\ installer = "idle"
  /\ users = [e \in {} |-> None]
  /\ invites = <<>>
  /\ requests = [q \in Slots |-> None]
-----------------------------------------------------------------------------
At(q, way, pc) == requests[q] # None /\ requests[q].way = way /\ requests[q].pc = pc
Set(q, request) == requests' = [requests EXCEPT ![q] = request]
Ends(q) == Set(q, None)

\* requireRole: a role that is not known has no rank.
Rank(role) == CASE role = "user" -> 1 [] role = "admin" -> 2 [] OTHER -> 0
Allowed(role, required) == Rank(role) # 0 /\ Rank(role) >= Rank(required)
Somebody(required) == \E e \in DOMAIN users : Allowed(users[e].role, required)

\* INSERT INTO users; the email is unique as it is written.
Inserted(email, role, way, token) ==
  [e \in DOMAIN users \cup {email} |->
    IF e = email THEN [role |-> role, way |-> way, token |-> token] ELSE users[e]]

\* 23505, or any failure before COMMIT: everything is rolled back.
RolledBack(q) ==
  /\ Ends(q)
  /\ UNCHANGED <<clock, tables, pageVars>>
-----------------------------------------------------------------------------
(* Setup.                                                                  *)

ConfigFree(q) == \A p \in Slots \ {q} : ~At(p, "setup", "write")

\* issue_setup_token looks first, in a session of its own.
InstallerLooks ==
  /\ installer = "idle" /\ ~config.completed /\ issued < MaxIssues
  /\ installer' = "write"
  /\ UNCHANGED <<clock, config, issued, users, invites, requests, pageVars>>

InstallerIssues ==
  /\ installer = "write"
  /\ \A p \in Slots : ~At(p, "setup", "write")
  /\ issued' = issued + 1
  /\ config' = [config EXCEPT !.completed = FALSE, !.token = issued + 1,
                              !.expires = clock + SetupTtl]
  /\ installer' = "idle"
  /\ UNCHANGED <<clock, users, invites, requests, pageVars>>

SetupOpen == ~config.completed /\ config.token # 0 /\ config.expires > clock

\* The probe, without a lock.
SetupProbe(q) ==
  /\ requests[q] = None /\ SetupOpen
  /\ \E email \in Emails, token \in 1..issued :
       Set(q, [way |-> "setup", pc |-> "look", email |-> email, token |-> token])
  /\ UNCHANGED <<clock, tables, pageVars>>

\* Fault: setup_completed is looked at again, and a token the installer replaced still counts.
SetupTakesOldToken(q) ==
  /\ At(q, "setup", "look") /\ ConfigFree(q)
  /\ IF SetupOpen
     THEN Set(q, [requests[q] EXCEPT !.pc = "write"])
     ELSE Ends(q)
  /\ UNCHANGED <<clock, tables, pageVars>>

\* Fault: what the probe saw is not looked at again.
SetupTrustsProbe(q) ==
  /\ At(q, "setup", "look") /\ ConfigFree(q)
  /\ Set(q, [requests[q] EXCEPT !.pc = "write"])
  /\ UNCHANGED <<clock, tables, pageVars>>

\* SELECT ... FROM app_config FOR UPDATE, and everything is looked at again.
SetupLock(q) ==
  /\ At(q, "setup", "look") /\ ConfigFree(q)
  /\ IF SetupOpen /\ requests[q].token = config.token
     THEN Set(q, [requests[q] EXCEPT !.pc = "write"])
     ELSE Ends(q)
  /\ UNCHANGED <<clock, tables, pageVars>>

SetupCommit(q) ==
  /\ At(q, "setup", "write")
  /\ requests[q].email \notin DOMAIN users
  /\ users' = Inserted(requests[q].email, "admin", "setup", requests[q].token)
  /\ config' = [config EXCEPT !.completed = TRUE, !.token = 0]
  /\ Logged("setup_completed")
  /\ Ends(q)
  /\ UNCHANGED <<clock, issued, installer, invites, ledger, drawn, readers, exporters, delivered>>

SetupRefused(q) ==
  /\ At(q, "setup", "write")
  /\ requests[q].email \in DOMAIN users
  /\ RolledBack(q)
-----------------------------------------------------------------------------
(* Invitations.                                                            *)

InviteCreate ==
  /\ Somebody("admin") /\ Len(invites) < MaxInvites
  /\ \E email \in Emails, role \in Roles :
       invites' = Append(invites, [email |-> email, role |-> role, consumed |-> FALSE,
                                   expires |-> clock + InviteTtl])
  /\ Logged("invite_created")
  /\ UNCHANGED <<clock, config, issued, installer, users, requests, ledger, drawn, readers,
                 exporters, delivered>>

\* Fault: SELECT without FOR UPDATE.
InviteNeverHeld(n) == TRUE

InviteFree(n) == \A p \in Slots : ~(At(p, "invite", "write") /\ requests[p].token = n)

\* SELECT ... FROM invites FOR UPDATE; the email is compared without its case.
InviteLock(q) ==
  /\ requests[q] = None
  /\ \E n \in DOMAIN invites, email \in Emails :
       /\ InviteFree(n)
       /\ ~invites[n].consumed /\ invites[n].expires > clock
       /\ Lower[invites[n].email] = Lower[email]
       /\ Set(q, [way |-> "invite", pc |-> "write", email |-> email, token |-> n])
  /\ UNCHANGED <<clock, tables, pageVars>>

InviteCommit(q) ==
  /\ At(q, "invite", "write")
  /\ requests[q].email \notin DOMAIN users
  /\ LET n == requests[q].token IN
       /\ users' = Inserted(requests[q].email, invites[n].role, "invite", n)
       /\ invites' = [invites EXCEPT ![n].consumed = TRUE]
  /\ Logged("invite_consumed")
  /\ Ends(q)
  /\ UNCHANGED <<clock, config, issued, installer, ledger, drawn, readers, exporters, delivered>>

InviteRefused(q) ==
  /\ At(q, "invite", "write")
  /\ requests[q].email \in DOMAIN users
  /\ RolledBack(q)
-----------------------------------------------------------------------------
(* Open registration.                                                      *)

Settings ==
  /\ Somebody("admin") /\ Len(log) < MaxLog
  /\ \E open \in BOOLEAN : config' = [config EXCEPT !.open = open]
  /\ Logged("admin_settings_updated")
  /\ UNCHANGED <<clock, issued, installer, users, invites, requests, ledger, drawn, readers,
                 exporters, delivered>>

\* The setting is read before, and outside, the transaction.
RegisterLook(q) ==
  /\ requests[q] = None /\ config.open
  /\ \E email \in Emails :
       Set(q, [way |-> "register", pc |-> "write", email |-> email, token |-> 0])
  /\ UNCHANGED <<clock, tables, pageVars>>

RegisterCommit(q) ==
  /\ At(q, "register", "write")
  /\ requests[q].email \notin DOMAIN users
  /\ users' = Inserted(requests[q].email, "user", "register", 0)
  /\ Logged("user_registered")
  /\ Ends(q)
  /\ UNCHANGED <<clock, config, issued, installer, invites, ledger, drawn, readers, exporters,
                 delivered>>

RegisterRefused(q) ==
  /\ At(q, "register", "write")
  /\ requests[q].email \in DOMAIN users
  /\ RolledBack(q)
-----------------------------------------------------------------------------
Tick ==
  /\ clock < Horizon
  /\ clock' = clock + 1
  /\ UNCHANGED <<tables, requests, pageVars>>

OnboardingNext ==
  \/ Tick \/ InstallerLooks \/ InstallerIssues \/ InviteCreate \/ Settings
  \/ \E q \in Slots :
       \/ SetupProbe(q) \/ SetupLock(q) \/ SetupCommit(q) \/ SetupRefused(q)
       \/ InviteLock(q) \/ InviteCommit(q) \/ InviteRefused(q)
       \/ RegisterLook(q) \/ RegisterCommit(q) \/ RegisterRefused(q)

Next ==
  \/ OnboardingNext
  \/ PagesNext /\ UNCHANGED <<clock, tables, requests>>

Spec == Init /\ [][Next]_vars
-----------------------------------------------------------------------------
(* What must hold.                                                         *)

\* setup.ts, invites.ts: a setup token and an invitation make one account each at most,
\* the invitation is used up exactly when there is the account it made, with its role
\* and its address, and two requests that bring it at the same time share one success.
TokensMakeOne ==
  /\ \A e, f \in DOMAIN users :
       users[e] = users[f] /\ users[e].way # "register" => e = f
  /\ \A e \in DOMAIN users :
       users[e].way = "invite" =>
         LET invite == invites[users[e].token] IN
           invite.consumed /\ invite.role = users[e].role /\ Lower[invite.email] = Lower[e]
  /\ \A n \in DOMAIN invites :
       invites[n].consumed =>
         \E e \in DOMAIN users : users[e].way = "invite" /\ users[e].token = n

\* No account without its row in the audit log, and no such row without its account.
AccountsAudited ==
  Cardinality(DOMAIN users) =
    Cardinality({i \in DOMAIN log :
                   log[i] \in {"setup_completed", "invite_consumed", "user_registered"}})

\* However requests with the same token, the same invitation or the same address overlap:
\* every account was made once, by what it says, and the audit log tells of each.
AccountsExact == TokensMakeOne /\ AccountsAudited

SetupAdmins == {e \in DOMAIN users : users[e].way = "setup"}

\* setup.ts, install.sh: the token issued last decides.  Setup is complete exactly when that
\* token has made its account, and until then it takes no other: a token the installer has
\* replaced makes no account afterwards, though a request with it was already past the probe.
SetupFollowsToken ==
  /\ config.completed <=> \E e \in SetupAdmins : users[e].token = issued
  /\ config.token = IF config.completed THEN 0 ELSE issued

Closed == config.completed /\ installer = "idle"

\* setup.ts, install.sh: once setup is complete and no installer is between its look and its
\* write, setup stays complete and makes no administrator any more, whatever requests are in
\* flight since before, and however often the installer runs.
ClosedForGood == [][Closed => Closed' /\ SetupAdmins' = SetupAdmins]_vars

\* docs/API.md: setup is permanently unavailable after completion, it answers 410 once
\* bootstrap is complete.  The code falls short of it: an installer that looked before setup
\* was completed writes setup_completed = 'false' after it (install.sh).
SetupStaysClosed == SetupAdmins # {} => ~SetupOpen
=============================================================================
