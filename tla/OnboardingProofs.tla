-------------------------- MODULE OnboardingProofs --------------------------
(***************************************************************************)
(* Accounts are made once and audited, and exports are recorded, for any   *)
(* number of requests, addresses, tokens and readers.                      *)
(*                                                                         *)
(* A request that writes holds the row of its token: what it looked at     *)
(* under the lock is still so when it commits (HeldConfig, HeldInvites).   *)
(***************************************************************************)
EXTENDS Onboarding, FiniteSetTheorems, SequenceTheorems, TLAPS

\* The rows of the audit log that tell of an account.
Telling == {"setup_completed", "invite_consumed", "user_registered"}
Told == {i \in DOMAIN log : log[i] \in Telling}

Typed ==
  /\ clock \in Nat
  /\ config \in Config /\ config.token <= issued /\ issued \in Nat
  /\ DOMAIN users \subseteq Emails /\ \A e \in DOMAIN users : users[e] \in User
  /\ invites \in Seq(Invite)
  /\ requests \in [Slots -> Request \cup {None}]
  /\ log \in Seq(Actions)

\* FOR UPDATE on app_config: one request at a time, and for the token in force.
HeldConfig ==
  /\ \A p, q \in Slots : At(p, "setup", "write") /\ At(q, "setup", "write") => p = q
  /\ \A q \in Slots : At(q, "setup", "write") =>
       requests[q].token = config.token /\ config.token # 0

\* FOR UPDATE on the invitation: one request at a time, and it is still open.
HeldInvites ==
  /\ \A p, q \in Slots : /\ At(p, "invite", "write") /\ At(q, "invite", "write")
                         /\ requests[p].token = requests[q].token
                         => p = q
  /\ \A q \in Slots : At(q, "invite", "write") =>
       LET n == requests[q].token IN
         /\ n \in DOMAIN invites /\ ~invites[n].consumed
         /\ Lower[invites[n].email] = Lower[requests[q].email]

IssuedTokens ==
  \A e \in DOMAIN users : /\ users[e].way = "setup" => users[e].token \in 1..issued
                          /\ users[e].way = "invite" => users[e].token \in DOMAIN invites

AccountsInv ==
  /\ Typed /\ IsFiniteSet(DOMAIN users)
  /\ HeldConfig /\ HeldInvites /\ IssuedTokens
  /\ TokensMakeOne /\ Cardinality(DOMAIN users) = Cardinality(Told) /\ SetupFollowsToken

LEMMA InitAccounts == Init => AccountsInv
<1> SUFFICES ASSUME Init PROVE AccountsInv
  OBVIOUS
<1> USE DEF Init, PagesInit
<1>1. DOMAIN users = {} /\ invites = <<>> /\ DOMAIN invites = {} /\ \A q \in Slots : requests[q] = None
  OBVIOUS
<1>2. Told = {}
  BY DEF Told
<1>3. Typed
  BY <1>1, OnboardingConstants DEF Typed, Config
<1> QED BY <1>1, <1>2, <1>3, FS_EmptySet DEF AccountsInv, HeldConfig, HeldInvites, IssuedTokens,
        TokensMakeOne, SetupFollowsToken, SetupAdmins, At
-----------------------------------------------------------------------------
(* The audit log and the accounts.                                         *)

LEMMA LogGrows ==
  ASSUME log \in Seq(Actions), NEW action \in Actions, Logged(action)
  PROVE  /\ log' \in Seq(Actions)
         /\ Told' = IF action \in Telling THEN Told \cup {Len(log) + 1} ELSE Told
         /\ Len(log) + 1 \notin Told /\ IsFiniteSet(Told)
<1>1. log' \in Seq(Actions) /\ Len(log') = Len(log) + 1 /\ Len(log) \in Nat
  BY DEF Logged
<1>2. \A i \in 1..Len(log) + 1 : log'[i] = IF i <= Len(log) THEN log[i] ELSE action
  BY DEF Logged
<1>3. DOMAIN log = 1..Len(log) /\ DOMAIN log' = 1..Len(log) + 1
  BY <1>1
<1>4. Told' = IF action \in Telling THEN Told \cup {Len(log) + 1} ELSE Told
  <2>1. Told' = {i \in 1..Len(log) + 1 : log'[i] \in Telling}
    BY <1>3 DEF Told
  <2>2. Told = {i \in 1..Len(log) : log[i] \in Telling}
    BY <1>3 DEF Told
  <2>3. /\ 1..Len(log) + 1 = 1..Len(log) \cup {Len(log) + 1}
        /\ log'[Len(log) + 1] = action /\ \A i \in 1..Len(log) : log'[i] = log[i]
    BY <1>1, <1>2
  <2> QED BY <2>1, <2>2, <2>3
<1>5. Told \subseteq 1..Len(log)
  BY <1>3 DEF Told
<1>6. IsFiniteSet(Told)
  <2>1. IsFiniteSet(1..Len(log))
    BY <1>1, FS_Interval
  <2> QED BY <1>5, <2>1, FS_Subset
<1> QED BY <1>1, <1>4, <1>5, <1>6

\* An account and its row in the log.
Joins(email, role, way, token) ==
  /\ DOMAIN users' = DOMAIN users \cup {email}
  /\ DOMAIN users' \subseteq Emails /\ \A e \in DOMAIN users' : users'[e] \in User
  /\ \A e \in DOMAIN users : users'[e] = users[e]
  /\ users'[email].role = role /\ users'[email].way = way /\ users'[email].token = token
  /\ IsFiniteSet(DOMAIN users') /\ Cardinality(DOMAIN users') = Cardinality(Told')
  /\ log' \in Seq(Actions)

LEMMA AccountMade ==
  ASSUME AccountsInv, NEW email \in Emails \ DOMAIN users, NEW role \in Roles,
         NEW way \in {"setup", "invite", "register"}, NEW token \in Nat, NEW action \in Telling,
         users' = Inserted(email, role, way, token), Logged(action)
  PROVE  Joins(email, role, way, token)
<1>1. /\ DOMAIN users' = DOMAIN users \cup {email}
      /\ \A e \in DOMAIN users : users'[e] = users[e]
      /\ users'[email] = [role |-> role, way |-> way, token |-> token]
  BY DEF Inserted
<1>2. [role |-> role, way |-> way, token |-> token] \in User
  BY DEF User
<1>3. /\ log' \in Seq(Actions) /\ Told' = Told \cup {Len(log) + 1}
      /\ Len(log) + 1 \notin Told /\ IsFiniteSet(Told)
  BY LogGrows DEF AccountsInv, Typed, Telling, Actions
<1>4. Cardinality(Told') = Cardinality(Told) + 1
  BY <1>3, FS_AddElement
<1>5. /\ IsFiniteSet(DOMAIN users')
      /\ Cardinality(DOMAIN users') = Cardinality(DOMAIN users) + 1
  BY <1>1, FS_AddElement DEF AccountsInv
<1> QED BY <1>1, <1>2, <1>3, <1>4, <1>5 DEF AccountsInv, Typed, Joins
-----------------------------------------------------------------------------
(* One step.                                                               *)

\* A step that only moves one request on, or ends it.
LEMMA RequestMoves ==
  ASSUME AccountsInv, NEW q \in Slots, NEW r \in Request \cup {None}, Set(q, r),
         UNCHANGED <<clock, config, issued, users, invites, log>>,
         r # None /\ r.way = "setup" /\ r.pc = "write" =>
           ConfigFree(q) /\ r.token = config.token /\ config.token # 0,
         r # None /\ r.way = "invite" /\ r.pc = "write" =>
           /\ InviteFree(r.token) /\ r.token \in DOMAIN invites
           /\ ~invites[r.token].consumed /\ Lower[invites[r.token].email] = Lower[r.email]
  PROVE  AccountsInv'
<1>1. /\ requests' \in [Slots -> Request \cup {None}]
      /\ requests'[q] = r /\ \A p \in Slots \ {q} : requests'[p] = requests[p]
  BY DEF AccountsInv, Typed, Set
<1>2. Typed' /\ IsFiniteSet(DOMAIN users)' /\ IssuedTokens' /\ TokensMakeOne' /\ SetupFollowsToken'
  BY <1>1 DEF AccountsInv, Typed, IssuedTokens, TokensMakeOne, SetupFollowsToken, SetupAdmins
<1>3. (Cardinality(DOMAIN users) = Cardinality(Told))'
  BY DEF AccountsInv, Told
<1>4. \A p \in Slots : \A way, pc : At(p, way, pc)' =>
        IF p = q THEN r # None /\ r.way = way /\ r.pc = pc ELSE At(p, way, pc)
  BY <1>1 DEF At
<1>5. HeldConfig'
  BY <1>1, <1>4 DEF AccountsInv, HeldConfig, ConfigFree
<1>6. HeldInvites'
  BY <1>1, <1>4 DEF AccountsInv, HeldInvites, InviteFree
<1> QED BY <1>2, <1>3, <1>5, <1>6 DEF AccountsInv

\* A request that ends leaves its locks to the others.
LEMMA RequestEnds ==
  ASSUME AccountsInv, NEW q \in Slots, Ends(q)
  PROVE  /\ requests' \in [Slots -> Request \cup {None}]
         /\ \A p \in Slots : \A way, pc : At(p, way, pc)' =>
              p # q /\ At(p, way, pc) /\ requests'[p] = requests[p]
BY DEF AccountsInv, Typed, Ends, Set, At

LEMMA SetupCommitStep ==
  ASSUME AccountsInv, NEW q \in Slots, SetupCommit(q)
  PROVE  AccountsInv'
<1>1. /\ requests[q] \in Request /\ requests[q].token = config.token /\ config.token # 0
      /\ requests[q].email \notin DOMAIN users /\ requests[q].email \in Emails
      /\ config \in Config /\ config.token <= issued /\ issued \in Nat
  BY DEF AccountsInv, Typed, HeldConfig, SetupCommit, At, Request
<1>2. PICK email, token : email = requests[q].email /\ token = requests[q].token
  OBVIOUS
<1>3. /\ DOMAIN users' = DOMAIN users \cup {email}
      /\ DOMAIN users' \subseteq Emails /\ \A e \in DOMAIN users' : users'[e] \in User
      /\ \A e \in DOMAIN users : users'[e] = users[e]
      /\ users'[email].way = "setup" /\ users'[email].token = token
      /\ IsFiniteSet(DOMAIN users') /\ Cardinality(DOMAIN users') = Cardinality(Told')
      /\ log' \in Seq(Actions)
  <2>1. token \in Nat /\ email \in Emails \ DOMAIN users
    BY <1>1, <1>2 DEF Config
  <2>2. users' = Inserted(email, "admin", "setup", token) /\ Logged("setup_completed")
    BY <1>2 DEF SetupCommit
  <2>3. "admin" \in Roles /\ "setup_completed" \in Telling
    BY DEF Roles, Telling
  <2>4. "setup" \in {"setup", "invite", "register"}
    OBVIOUS
  <2>5. Joins(email, "admin", "setup", token)
    BY <2>1, <2>2, <2>3, <2>4, AccountMade
  <2> QED BY <2>5 DEF Joins
<1>4. /\ config' \in Config /\ config'.token = 0 /\ config'.completed
      /\ UNCHANGED <<clock, issued, invites>>
  <2> DEFINE done == [config EXCEPT !.completed = TRUE]
  <2>1. done \in Config /\ done.completed
    BY <1>1 DEF Config
  <2>2. config' = [done EXCEPT !.token = 0]
    BY DEF SetupCommit
  <2> HIDE DEF done
  <2> QED BY <2>1, <2>2 DEF SetupCommit, Config
<1>5. /\ requests' \in [Slots -> Request \cup {None}]
      /\ \A p \in Slots : \A way, pc : At(p, way, pc)' =>
           p # q /\ At(p, way, pc) /\ requests'[p] = requests[p]
  BY RequestEnds DEF SetupCommit
<1>6. Typed'
  BY <1>1, <1>3, <1>4, <1>5 DEF AccountsInv, Typed
<1>7. HeldConfig'
  BY <1>5 DEF AccountsInv, HeldConfig, SetupCommit
<1>8. HeldInvites'
  BY <1>4, <1>5 DEF AccountsInv, HeldInvites
<1>9. /\ IssuedTokens' /\ SetupFollowsToken'
      /\ \A e \in DOMAIN users : users[e].way = "setup" => users[e].token # token
  <2>1. token \in 1..issued /\ token = config.token
    BY <1>1, <1>2 DEF Config
  <2>2. token = issued /\ ~config.completed
    BY <1>1, <2>1 DEF AccountsInv, SetupFollowsToken
  <2>3. \A e \in DOMAIN users : users[e].way = "setup" =>
          users[e].token # token /\ users[e].token \in 1..issued
    BY <2>2 DEF AccountsInv, SetupFollowsToken, SetupAdmins, IssuedTokens
  <2>4. \A e \in DOMAIN users : users[e].way = "invite" => users[e].token \in DOMAIN invites'
    BY <1>4 DEF AccountsInv, IssuedTokens
  <2>5. IssuedTokens'
    BY <1>3, <1>4, <2>1, <2>3, <2>4 DEF IssuedTokens
  <2>6. email \in SetupAdmins' /\ users'[email].token = issued'
    BY <1>3, <1>4, <2>2 DEF SetupAdmins
  <2> QED BY <1>4, <2>3, <2>5, <2>6 DEF SetupFollowsToken
<1>10. TokensMakeOne'
  <2>1. email \notin DOMAIN users
    BY <1>1, <1>2
  <2>2. \A e, f \in DOMAIN users' :
          users'[e] = users'[f] /\ users'[e].way # "register" => e = f
    BY <1>3, <1>9, <2>1 DEF AccountsInv, TokensMakeOne
  <2> QED BY <1>3, <1>4, <2>1, <2>2 DEF AccountsInv, TokensMakeOne
<1> QED BY <1>3, <1>6, <1>7, <1>8, <1>9, <1>10 DEF AccountsInv

LEMMA InviteCommitStep ==
  ASSUME AccountsInv, NEW q \in Slots, InviteCommit(q)
  PROVE  AccountsInv'
<1>1. PICK email, n : email = requests[q].email /\ n = requests[q].token
  OBVIOUS
<1>2. /\ At(q, "invite", "write") /\ requests[q] \in Request
      /\ email \in Emails /\ email \notin DOMAIN users
      /\ n \in DOMAIN invites /\ n \in Nat /\ ~invites[n].consumed /\ invites[n] \in Invite
      /\ Lower[invites[n].email] = Lower[email]
  BY <1>1 DEF AccountsInv, Typed, HeldInvites, InviteCommit, At, Request
<1>3. PICK role : role = invites[n].role
  OBVIOUS
<1>4. Joins(email, role, "invite", n)
  <2>1. users' = Inserted(email, role, "invite", n) /\ Logged("invite_consumed")
    BY <1>1, <1>3 DEF InviteCommit
  <2>2. role \in Roles /\ "invite_consumed" \in Telling
    BY <1>2, <1>3 DEF Invite, Telling
  <2>3. "invite" \in {"setup", "invite", "register"}
    OBVIOUS
  <2> QED BY <1>2, <2>1, <2>2, <2>3, AccountMade
<1>5. /\ invites' \in Seq(Invite) /\ DOMAIN invites' = DOMAIN invites
      /\ \A m \in DOMAIN invites \ {n} : invites'[m] = invites[m]
      /\ invites'[n].consumed /\ invites'[n].role = role /\ invites'[n].email = invites[n].email
  <2>1. invites' = [invites EXCEPT ![n].consumed = TRUE]
    BY <1>1 DEF InviteCommit
  <2>2. invites \in Seq(Invite)
    BY DEF AccountsInv, Typed
  <2> DEFINE row == [invites[n] EXCEPT !.consumed = TRUE]
  <2>3. row \in Invite /\ row.consumed /\ row.role = role /\ row.email = invites[n].email
    BY <1>2, <1>3 DEF Invite
  <2>4. invites' = [invites EXCEPT ![n] = row]
    BY <2>1
  <2> HIDE DEF row
  <2> QED BY <1>2, <2>2, <2>3, <2>4
<1>6. UNCHANGED <<clock, config, issued>>
  BY DEF InviteCommit
<1>7. /\ requests' \in [Slots -> Request \cup {None}]
      /\ \A p \in Slots : \A way, pc : At(p, way, pc)' =>
           p # q /\ At(p, way, pc) /\ requests'[p] = requests[p]
  BY RequestEnds DEF InviteCommit
<1>8. Typed'
  BY <1>4, <1>5, <1>6, <1>7 DEF AccountsInv, Typed, Joins
<1>9. HeldConfig'
  BY <1>6, <1>7 DEF AccountsInv, HeldConfig
<1>10. HeldInvites'
  <2>1. ASSUME NEW p \in Slots, At(p, "invite", "write")'
        PROVE  /\ At(p, "invite", "write") /\ requests'[p] = requests[p]
               /\ requests[p].token # n
    BY <1>1, <1>2, <1>7, <2>1 DEF AccountsInv, HeldInvites
  <2> QED BY <1>5, <2>1 DEF AccountsInv, HeldInvites
<1>11. IssuedTokens' /\ SetupFollowsToken'
  BY <1>2, <1>4, <1>5, <1>6 DEF AccountsInv, IssuedTokens, SetupFollowsToken, SetupAdmins, Joins
<1>12. TokensMakeOne'
  <2>1. \A e \in DOMAIN users : users[e].way = "invite" => users[e].token # n
    BY <1>2 DEF AccountsInv, TokensMakeOne
  <2>2. \A e, f \in DOMAIN users' :
          users'[e] = users'[f] /\ users'[e].way # "register" => e = f
    BY <1>2, <1>4, <2>1 DEF AccountsInv, TokensMakeOne, Joins
  <2>3. ASSUME NEW e \in DOMAIN users', users'[e].way = "invite"
        PROVE  LET invite == invites'[users'[e].token] IN
                 invite.consumed /\ invite.role = users'[e].role /\ Lower[invite.email] = Lower[e]
    <3>1. CASE e = email
      BY <1>2, <1>4, <1>5, <3>1 DEF Joins
    <3>2. CASE e # email
      <4>1. /\ e \in DOMAIN users /\ users'[e] = users[e] /\ users[e].token # n
            /\ invites[users[e].token].consumed
            /\ invites[users[e].token].role = users[e].role
            /\ Lower[invites[users[e].token].email] = Lower[e]
        BY <1>4, <2>1, <2>3, <3>2 DEF AccountsInv, TokensMakeOne, Joins
      <4>2. invites'[users[e].token] = invites[users[e].token]
        <5>1. invites' = [invites EXCEPT ![n].consumed = TRUE]
          BY <1>1 DEF InviteCommit
        <5> QED BY <4>1, <5>1 DEF AccountsInv, Typed
      <4> QED BY <4>1, <4>2
    <3> QED BY <3>1, <3>2
  <2>4. \A m \in DOMAIN invites' : invites'[m].consumed =>
          \E e \in DOMAIN users' : users'[e].way = "invite" /\ users'[e].token = m
    BY <1>4, <1>5 DEF AccountsInv, TokensMakeOne, Joins
  <2> QED BY <2>2, <2>3, <2>4 DEF TokensMakeOne
<1> QED BY <1>4, <1>8, <1>9, <1>10, <1>11, <1>12 DEF AccountsInv, Joins

LEMMA RegisterCommitStep ==
  ASSUME AccountsInv, NEW q \in Slots, RegisterCommit(q)
  PROVE  AccountsInv'
<1>1. PICK email : email = requests[q].email
  OBVIOUS
<1>2. email \in Emails \ DOMAIN users
  BY <1>1 DEF AccountsInv, Typed, RegisterCommit, At, Request
<1>3. Joins(email, "user", "register", 0)
  <2>1. users' = Inserted(email, "user", "register", 0) /\ Logged("user_registered")
    BY <1>1 DEF RegisterCommit
  <2>2. "user" \in Roles /\ "user_registered" \in Telling
    BY DEF Roles, Telling
  <2>3. "register" \in {"setup", "invite", "register"} /\ 0 \in Nat
    OBVIOUS
  <2> QED BY <1>2, <2>1, <2>2, <2>3, AccountMade
<1>4. UNCHANGED <<clock, config, issued, invites>>
  BY DEF RegisterCommit
<1>5. /\ requests' \in [Slots -> Request \cup {None}]
      /\ \A p \in Slots : \A way, pc : At(p, way, pc)' =>
           p # q /\ At(p, way, pc) /\ requests'[p] = requests[p]
  BY RequestEnds DEF RegisterCommit
<1>6. Typed' /\ HeldConfig' /\ HeldInvites'
  BY <1>3, <1>4, <1>5 DEF AccountsInv, Typed, HeldConfig, HeldInvites, Joins
<1>7. IssuedTokens' /\ SetupFollowsToken'
  BY <1>3, <1>4 DEF AccountsInv, IssuedTokens, SetupFollowsToken, SetupAdmins, Joins
<1>8. TokensMakeOne'
  BY <1>2, <1>3, <1>4 DEF AccountsInv, TokensMakeOne, Joins
<1> QED BY <1>3, <1>6, <1>7, <1>8 DEF AccountsInv, Joins

\* What is logged without an account: a setting, an invitation.
LEMMA LoggedAside ==
  ASSUME AccountsInv, NEW action \in Actions \ Telling, Logged(action),
         UNCHANGED <<clock, issued, users, requests>>,
         config' \in Config, config'.token = config.token, config'.completed = config.completed,
         invites' \in Seq(Invite), DOMAIN invites \subseteq DOMAIN invites',
         \A n \in DOMAIN invites : invites'[n] = invites[n],
         \A n \in DOMAIN invites' \ DOMAIN invites : ~invites'[n].consumed
  PROVE  AccountsInv'
<1>1. log' \in Seq(Actions) /\ Told' = Told
  BY LogGrows DEF AccountsInv, Typed
<1>2. Typed' /\ IsFiniteSet(DOMAIN users)' /\ IssuedTokens' /\ SetupFollowsToken'
  BY <1>1 DEF AccountsInv, Typed, IssuedTokens, SetupFollowsToken, SetupAdmins
<1>3. HeldConfig' /\ HeldInvites'
  BY DEF AccountsInv, HeldConfig, HeldInvites, At
<1>4. TokensMakeOne'
  <2>1. \A e \in DOMAIN users : users[e].way = "invite" => users[e].token \in DOMAIN invites
    BY DEF AccountsInv, IssuedTokens
  <2> QED BY <2>1 DEF AccountsInv, TokensMakeOne
<1> QED BY <1>1, <1>2, <1>3, <1>4 DEF AccountsInv

LEMMA InstallerStep ==
  ASSUME AccountsInv, InstallerIssues
  PROVE  AccountsInv'
<1>1. /\ UNCHANGED <<clock, users, invites, requests, log>> /\ issued' = issued + 1
      /\ \A p \in Slots : ~At(p, "setup", "write")
  BY DEF InstallerIssues, pageVars
<1>2. /\ config \in Config /\ config.token <= issued /\ issued \in Nat /\ clock \in Nat
      /\ clock + SetupTtl \in Nat
  BY OnboardingConstants DEF AccountsInv, Typed
<1>3. config' \in Config /\ config'.token = issued + 1 /\ ~config'.completed
  <2> DEFINE reopened == [config EXCEPT !.completed = FALSE]
             renewed == [reopened EXCEPT !.token = issued + 1]
  <2>1. config' = [renewed EXCEPT !.expires = clock + SetupTtl]
    BY DEF InstallerIssues
  <2>2. reopened \in Config /\ ~reopened.completed
    BY <1>2 DEF Config
  <2> HIDE DEF reopened
  <2>3. renewed \in Config /\ renewed.token = issued + 1 /\ ~renewed.completed
    BY <1>2, <2>2 DEF Config
  <2> HIDE DEF renewed
  <2> QED BY <1>2, <2>1, <2>3 DEF Config
<1>4. Typed' /\ IsFiniteSet(DOMAIN users)' /\ TokensMakeOne'
  BY <1>1, <1>2, <1>3 DEF AccountsInv, Typed, TokensMakeOne
<1>5. HeldConfig' /\ HeldInvites'
  BY <1>1 DEF AccountsInv, HeldConfig, HeldInvites, At
<1>6. IssuedTokens' /\ SetupFollowsToken'
  <2>1. \A e \in SetupAdmins : users[e].token \in 1..issued
    BY DEF AccountsInv, IssuedTokens, SetupAdmins
  <2>2. SetupFollowsToken'
    BY <1>1, <1>2, <1>3, <2>1 DEF SetupFollowsToken, SetupAdmins
  <2> QED BY <1>1, <1>2, <2>2 DEF AccountsInv, IssuedTokens
<1>7. (Cardinality(DOMAIN users) = Cardinality(Told))'
  BY <1>1 DEF AccountsInv, Told
<1> QED BY <1>4, <1>5, <1>6, <1>7 DEF AccountsInv

\* The clock, and everything this invariant does not speak of.
LEMMA AccountsAside ==
  ASSUME AccountsInv, UNCHANGED <<config, issued, users, invites, requests, log>>, clock' \in Nat
  PROVE  AccountsInv'
<1>1. Typed' /\ IsFiniteSet(DOMAIN users)' /\ IssuedTokens' /\ SetupFollowsToken' /\ TokensMakeOne'
  BY DEF AccountsInv, Typed, IssuedTokens, SetupFollowsToken, SetupAdmins, TokensMakeOne
<1>2. HeldConfig' /\ HeldInvites'
  BY DEF AccountsInv, HeldConfig, HeldInvites, At
<1>3. (Cardinality(DOMAIN users) = Cardinality(Told))'
  BY DEF AccountsInv, Told
<1> QED BY <1>1, <1>2, <1>3 DEF AccountsInv

LEMMA AccountsStep ==
  ASSUME AccountsInv, [Next]_vars
  PROVE  AccountsInv'
<1>0. /\ config \in Config /\ issued \in Nat /\ clock \in Nat /\ invites \in Seq(Invite)
      /\ requests \in [Slots -> Request \cup {None}]
  BY DEF AccountsInv, Typed
<1>1. ASSUME NEW q \in Slots, SetupProbe(q) PROVE AccountsInv'
  <2>1. PICK email \in Emails, token \in 1..issued :
          Set(q, [way |-> "setup", pc |-> "look", email |-> email, token |-> token])
    BY <1>1 DEF SetupProbe
  <2>2. PICK r : r = [way |-> "setup", pc |-> "look", email |-> email, token |-> token]
    OBVIOUS
  <2>3. r \in Request /\ r.way = "setup" /\ r.pc = "look"
    BY <1>0, <2>2 DEF Request
  <2> QED BY <1>1, <2>1, <2>2, <2>3, RequestMoves DEF SetupProbe, tables, pageVars
<1>2. ASSUME NEW q \in Slots, SetupLock(q) PROVE AccountsInv'
  <2>1. UNCHANGED <<clock, config, issued, users, invites, log>>
    BY <1>2 DEF SetupLock, tables, pageVars
  <2>2. CASE Ends(q)
    BY <2>1, <2>2, RequestMoves DEF Ends
  <2>3. CASE ~Ends(q)
    <3>1. PICK r : r = [requests[q] EXCEPT !.pc = "write"]
      OBVIOUS
    <3>2. /\ Set(q, r) /\ SetupOpen /\ requests[q].token = config.token /\ ConfigFree(q)
          /\ requests[q] \in Request /\ requests[q].way = "setup"
      BY <1>0, <1>2, <2>3, <3>1 DEF SetupLock, At
    <3>3. /\ r \in Request /\ r.way = "setup" /\ r.token = config.token /\ config.token # 0
      BY <3>1, <3>2 DEF Request, SetupOpen
    <3> QED BY <2>1, <3>2, <3>3, RequestMoves
  <2> QED BY <2>2, <2>3
<1>3. ASSUME NEW q \in Slots, InviteLock(q) PROVE AccountsInv'
  <2>1. PICK n \in DOMAIN invites, email \in Emails :
          /\ InviteFree(n) /\ ~invites[n].consumed /\ Lower[invites[n].email] = Lower[email]
          /\ Set(q, [way |-> "invite", pc |-> "write", email |-> email, token |-> n])
    BY <1>3 DEF InviteLock
  <2>2. PICK r : r = [way |-> "invite", pc |-> "write", email |-> email, token |-> n]
    OBVIOUS
  <2>3. r \in Request /\ r.way = "invite" /\ r.email = email /\ r.token = n
    BY <1>0, <2>2 DEF Request
  <2> QED BY <1>3, <2>1, <2>2, <2>3, RequestMoves DEF InviteLock, tables, pageVars
<1>4. ASSUME NEW q \in Slots, RegisterLook(q) PROVE AccountsInv'
  <2>1. PICK email \in Emails :
          Set(q, [way |-> "register", pc |-> "write", email |-> email, token |-> 0])
    BY <1>4 DEF RegisterLook
  <2>2. PICK r : r = [way |-> "register", pc |-> "write", email |-> email, token |-> 0]
    OBVIOUS
  <2>3. r \in Request /\ r.way = "register"
    BY <2>2 DEF Request
  <2> QED BY <1>4, <2>1, <2>2, <2>3, RequestMoves DEF RegisterLook, tables, pageVars
<1>5. ASSUME NEW q \in Slots, SetupRefused(q) \/ InviteRefused(q) \/ RegisterRefused(q)
      PROVE  AccountsInv'
  <2>1. Set(q, None) /\ UNCHANGED <<clock, config, issued, users, invites, log>>
    BY <1>5 DEF SetupRefused, InviteRefused, RegisterRefused, RolledBack, Ends, tables, pageVars
  <2> QED BY <2>1, RequestMoves
<1>6. ASSUME Settings PROVE AccountsInv'
  <2>1. PICK open \in BOOLEAN : config' = [config EXCEPT !.open = open]
    BY <1>6 DEF Settings
  <2>2. config' \in Config /\ config'.token = config.token /\ config'.completed = config.completed
    BY <1>0, <2>1 DEF Config
  <2>3. "admin_settings_updated" \in Actions \ Telling
    BY DEF Actions, Telling
  <2>4. /\ Logged("admin_settings_updated")
        /\ UNCHANGED <<clock, issued, users, requests>> /\ invites' = invites
    BY <1>6 DEF Settings
  <2> QED BY <1>0, <2>2, <2>3, <2>4, LoggedAside
<1>7. ASSUME InviteCreate PROVE AccountsInv'
  <2>1. PICK email \in Emails, role \in Roles :
          invites' = Append(invites, [email |-> email, role |-> role, consumed |-> FALSE,
                                      expires |-> clock + InviteTtl])
    BY <1>7 DEF InviteCreate
  <2>2. PICK row : row = [email |-> email, role |-> role, consumed |-> FALSE,
                          expires |-> clock + InviteTtl]
    OBVIOUS
  <2>3. row \in Invite /\ ~row.consumed
    <3>1. clock + InviteTtl \in Nat
      BY <1>0, OnboardingConstants
    <3> QED BY <2>2, <3>1 DEF Invite
  <2>4. /\ invites' \in Seq(Invite) /\ DOMAIN invites \subseteq DOMAIN invites'
        /\ \A n \in DOMAIN invites : invites'[n] = invites[n]
        /\ \A n \in DOMAIN invites' \ DOMAIN invites : invites'[n] = row
    <3>1. invites' = Append(invites, row)
      BY <2>1, <2>2
    <3> QED BY <1>0, <2>3, <3>1
  <2>5. "invite_created" \in Actions \ Telling
    BY DEF Actions, Telling
  <2>6. Logged("invite_created") /\ UNCHANGED <<clock, issued, users, requests>> /\ config' = config
    BY <1>7 DEF InviteCreate
  <2> QED BY <1>0, <2>3, <2>4, <2>5, <2>6, LoggedAside
<1>8. ASSUME Tick \/ InstallerLooks \/ (PagesNext /\ UNCHANGED <<clock, tables, requests>>)
             \/ UNCHANGED vars
      PROVE  AccountsInv'
  <2>1. UNCHANGED <<config, issued, users, invites, requests>> /\ clock' \in Nat
    BY <1>0, <1>8 DEF Tick, InstallerLooks, vars, tables
  <2>2. PagesNext => UNCHANGED log
    BY DEF PagesNext, FirstPage, NextPage, LeavesPages, ExportSelect, RecordDraw, RecordInsert,
       RecordThrows
  <2>3. UNCHANGED log
    BY <1>8, <2>2 DEF Tick, InstallerLooks, vars, pageVars
  <2> QED BY <2>1, <2>3, AccountsAside
<1> QED BY <1>1, <1>2, <1>3, <1>4, <1>5, <1>6, <1>7, <1>8, InstallerStep, SetupCommitStep,
        InviteCommitStep, RegisterCommitStep DEF Next, OnboardingNext

LEMMA AccountsInductive == Spec => []AccountsInv
BY InitAccounts, AccountsStep, PTL DEF Spec

\* However requests with the same setup token (setup.ts), the same invitation (invites.ts) or
\* the same address (register.ts) overlap: every account was made once, by what it says, and
\* has its row in the audit log.
THEOREM AccountsAlwaysExact == Spec => []AccountsExact
<1>1. AccountsInv => AccountsExact
  BY DEF AccountsInv, AccountsExact, AccountsAudited, Told, Telling
<1> QED BY <1>1, AccountsInductive, PTL

\* The setup token issued last decides (setup.ts, install.sh): setup is complete exactly when
\* it has made its account, and a token the installer has replaced makes none afterwards.
THEOREM SetupAlwaysFollowsToken == Spec => []SetupFollowsToken
<1>1. AccountsInv => SetupFollowsToken
  BY DEF AccountsInv
<1> QED BY <1>1, AccountsInductive, PTL

\* Setup once complete (setup.ts), with no installer between its look and its write
\* (install.sh), stays complete, and no request in flight makes another administrator.
THEOREM SetupClosedForGood == Spec => ClosedForGood
<1>1. ASSUME AccountsInv, [Next]_vars, Closed PROVE Closed' /\ SetupAdmins' = SetupAdmins
  <2>1. \A q \in Slots : ~SetupCommit(q)
    BY <1>1 DEF AccountsInv, HeldConfig, SetupFollowsToken, SetupCommit, Closed
  <2>2. ASSUME NEW q \in Slots, InviteCommit(q) \/ RegisterCommit(q)
        PROVE  SetupAdmins' = SetupAdmins /\ UNCHANGED <<config, installer>>
    <3>1. PICK email, role, way, token :
            users' = Inserted(email, role, way, token) /\ email \notin DOMAIN users
            /\ way # "setup"
      BY <2>2 DEF InviteCommit, RegisterCommit
    <3> QED BY <2>2, <3>1 DEF Inserted, SetupAdmins, InviteCommit, RegisterCommit
  <2>3. ASSUME Settings PROVE Closed' /\ SetupAdmins' = SetupAdmins
    <3>1. PICK open \in BOOLEAN : config' = [config EXCEPT !.open = open]
      BY <2>3 DEF Settings
    <3>2. config'.completed = config.completed
      BY <1>1, <3>1 DEF AccountsInv, Typed, Config
    <3> QED BY <1>1, <2>3, <3>2 DEF Settings, Closed, SetupAdmins
  <2>4. ~InstallerLooks /\ ~InstallerIssues
    BY <1>1 DEF Closed, InstallerLooks, InstallerIssues
  <2>5. CASE UNCHANGED <<config, installer, users>>
    BY <1>1, <2>5 DEF Closed, SetupAdmins
  <2>6. \/ UNCHANGED <<config, installer, users>> \/ Settings
        \/ \E q \in Slots : InviteCommit(q) \/ RegisterCommit(q)
    BY <1>1, <2>1, <2>4
    DEF Next, OnboardingNext, Tick, InviteCreate, SetupProbe, SetupLock, SetupRefused, InviteLock,
        InviteRefused, RegisterLook, RegisterRefused, RolledBack, tables, vars
  <2> QED BY <1>1, <2>2, <2>3, <2>5, <2>6 DEF Closed
<1>2. AccountsInv /\ [Next]_vars => [Closed => Closed' /\ SetupAdmins' = SetupAdmins]_vars
  BY <1>1
<1> QED BY <1>2, AccountsInductive, PTL DEF Spec, ClosedForGood
-----------------------------------------------------------------------------
(* Newest: each row of a finite table has a place of its own.              *)

LEMMA AboveFinite ==
  ASSUME NEW ids \in SUBSET Nat, IsFiniteSet(ids), NEW i \in ids
  PROVE  /\ IsFiniteSet(Above(ids, i)) /\ Cardinality(Above(ids, i)) \in Nat
         /\ Cardinality(Above(ids, i)) < Cardinality(ids) /\ Cardinality(ids) \in Nat
<1>1. Above(ids, i) \cup {i} \subseteq ids /\ i \notin Above(ids, i) /\ Above(ids, i) \subseteq ids
  BY DEF Above
<1>2. IsFiniteSet(Above(ids, i)) /\ IsFiniteSet(Above(ids, i) \cup {i})
  BY <1>1, FS_Subset
<1>3. Cardinality(Above(ids, i) \cup {i}) = Cardinality(Above(ids, i)) + 1
  BY <1>1, <1>2, FS_AddElement
<1>4. Cardinality(Above(ids, i) \cup {i}) <= Cardinality(ids)
  BY <1>1, FS_Subset
<1>5. Cardinality(Above(ids, i)) \in Nat /\ Cardinality(ids) \in Nat
  BY <1>2, FS_CardinalityType
<1> QED BY <1>2, <1>3, <1>4, <1>5

LEMMA AboveOrdered ==
  ASSUME NEW ids \in SUBSET Nat, IsFiniteSet(ids), NEW i \in ids, NEW j \in ids, i > j
  PROVE  Cardinality(Above(ids, i)) < Cardinality(Above(ids, j))
<1>0. i \in Nat /\ j \in Nat /\ \A l \in ids : l \in Nat
  OBVIOUS
<1>1. /\ Above(ids, i) \cup {i} \subseteq Above(ids, j) /\ i \notin Above(ids, i)
  <2>1. ASSUME NEW l \in Above(ids, i) PROVE l \in ids /\ l > j
    <3>1. l \in ids /\ l \in Nat /\ l > i
      BY <1>0 DEF Above
    <3> QED BY <1>0, <3>1
  <2>2. ~(i > i)
    BY <1>0
  <2> QED BY <2>1, <2>2 DEF Above
<1>2. /\ IsFiniteSet(Above(ids, i)) /\ Cardinality(Above(ids, i)) \in Nat
      /\ IsFiniteSet(Above(ids, j)) /\ Cardinality(Above(ids, j)) \in Nat
  BY AboveFinite
<1>3. Cardinality(Above(ids, i) \cup {i}) = Cardinality(Above(ids, i)) + 1
  BY <1>1, <1>2, FS_AddElement
<1>4. Cardinality(Above(ids, i) \cup {i}) <= Cardinality(Above(ids, j))
  BY <1>1, <1>2, FS_Subset
<1> QED BY <1>2, <1>3, <1>4

LEMMA EveryPlaceTaken ==
  ASSUME NEW ids \in SUBSET Nat, IsFiniteSet(ids), NEW k \in 1..Cardinality(ids)
  PROVE  \E i \in ids : Cardinality(Above(ids, i)) = k - 1
<1> DEFINE place == [i \in ids |-> Cardinality(Above(ids, i)) + 1]
<1>1. \A i \in ids : /\ Cardinality(Above(ids, i)) \in Nat
                     /\ Cardinality(Above(ids, i)) < Cardinality(ids)
  BY AboveFinite
<1>2. Cardinality(ids) \in Nat
  BY FS_CardinalityType
<1>3. place \in [ids -> 1..Cardinality(ids)]
  BY <1>1, <1>2
<1>4. ASSUME NEW i \in ids, NEW j \in ids, place[i] = place[j] PROVE i = j
  <2>1. Cardinality(Above(ids, i)) = Cardinality(Above(ids, j))
    BY <1>1, <1>4
  <2>2. i > j \/ j > i \/ i = j
    OBVIOUS
  <2> QED BY <1>1, <2>1, <2>2, AboveOrdered
<1>5. place \in Injection(ids, 1..Cardinality(ids))
  BY <1>3, <1>4 DEF Injection, IsInjective
<1>6. IsFiniteSet(1..Cardinality(ids)) /\ Cardinality(1..Cardinality(ids)) = Cardinality(ids)
  BY <1>2, FS_Interval
<1>7. place \in Surjection(ids, 1..Cardinality(ids))
  BY <1>5, <1>6, FS_Injection
<1>8. PICK i \in ids : place[i] = k
  BY <1>7 DEF Surjection
<1> QED BY <1>1, <1>8

\* Newest lists the n greatest, each once, in descending order: whatever is not below a
\* listed row is listed before it.
LEMMA NewestRows ==
  ASSUME NEW ids \in SUBSET Nat, IsFiniteSet(ids), NEW n \in Nat
  PROVE  /\ Newest(ids, n) \in Seq(ids) /\ Len(Newest(ids, n)) \in 0..n
         /\ \A k, l \in 1..Len(Newest(ids, n)) : k < l => Newest(ids, n)[k] > Newest(ids, n)[l]
         /\ Len(Newest(ids, n)) < n => ids \subseteq ToSet(Newest(ids, n))
         /\ \A k \in 1..Len(Newest(ids, n)), i \in ids :
              i >= Newest(ids, n)[k] => \E m \in 1..k : Newest(ids, n)[m] = i
<1> DEFINE size == IF Cardinality(ids) < n THEN Cardinality(ids) ELSE n
           row(k) == CHOOSE i \in ids : Cardinality(Above(ids, i)) = k - 1
           rows == [k \in 1..size |-> row(k)]
<1>0. Newest(ids, n) = rows
  BY DEF Newest
<1>1. /\ Cardinality(ids) \in Nat /\ size \in 0..n /\ size <= Cardinality(ids)
      /\ size < n => size = Cardinality(ids)
  BY FS_CardinalityType
<1>2. \A k \in 1..size : row(k) \in ids /\ Cardinality(Above(ids, row(k))) = k - 1
  <2> SUFFICES ASSUME NEW k \in 1..size
               PROVE  row(k) \in ids /\ Cardinality(Above(ids, row(k))) = k - 1
    OBVIOUS
  <2>1. k \in 1..Cardinality(ids)
    BY <1>1
  <2> QED BY <2>1, EveryPlaceTaken
<1> HIDE DEF row
<1>3. rows \in [1..size -> ids] /\ \A k \in 1..size : rows[k] = row(k)
  BY <1>2
<1> HIDE DEF rows, size
<1>4. rows \in Seq(ids) /\ Len(rows) = size
  BY <1>1, <1>3
<1>5. \A i \in ids : /\ Cardinality(Above(ids, i)) \in Nat
                     /\ Cardinality(Above(ids, i)) < Cardinality(ids)
  BY AboveFinite
<1>6. \A i, j \in ids : i > j => Cardinality(Above(ids, i)) < Cardinality(Above(ids, j))
  BY AboveOrdered
<1>7. ASSUME NEW k \in 1..size, NEW l \in 1..size, k < l PROVE rows[k] > rows[l]
  <2>1. /\ rows[k] \in ids /\ Cardinality(Above(ids, rows[k])) = k - 1
        /\ rows[l] \in ids /\ Cardinality(Above(ids, rows[l])) = l - 1
    BY <1>2, <1>3
  <2>2. PICK a \in ids, b \in ids : a = rows[k] /\ b = rows[l]
    BY <2>1
  <2>3. /\ a \in Nat /\ b \in Nat /\ k \in Nat /\ l \in Nat
        /\ Cardinality(Above(ids, a)) = k - 1 /\ Cardinality(Above(ids, b)) = l - 1
    BY <1>1, <2>1, <2>2
  <2>4. ~(Cardinality(Above(ids, b)) < Cardinality(Above(ids, a))) /\ a # b
    BY <1>7, <2>3
  <2>5. ~(b > a)
    BY <1>6, <2>4
  <2> QED BY <2>2, <2>3, <2>4, <2>5
<1>8. ASSUME NEW i \in ids, Cardinality(Above(ids, i)) < size
      PROVE  /\ Cardinality(Above(ids, i)) + 1 \in 1..size
             /\ rows[Cardinality(Above(ids, i)) + 1] = i
  <2>1. Cardinality(Above(ids, i)) + 1 \in 1..size
    BY <1>1, <1>5, <1>8
  <2>2. PICK j \in ids : j = rows[Cardinality(Above(ids, i)) + 1]
    BY <1>3, <2>1
  <2>3. Cardinality(Above(ids, j)) = Cardinality(Above(ids, i))
    BY <1>2, <1>3, <1>5, <2>1, <2>2
  <2>4. i > j \/ j > i \/ i = j
    OBVIOUS
  <2>5. i = j
    BY <1>5, <1>6, <2>3, <2>4
  <2> QED BY <2>1, <2>2, <2>5
<1>9. ASSUME size < n PROVE ids \subseteq ToSet(rows)
  <2>1. \A i \in ids : Cardinality(Above(ids, i)) < size
    BY <1>1, <1>5, <1>9
  <2>2. \A i \in ids : \E m \in 1..size : rows[m] = i
    BY <1>8, <2>1
  <2> QED BY <1>3, <2>2 DEF ToSet
<1>10. ASSUME NEW k \in 1..size, NEW i \in ids, i >= rows[k] PROVE \E m \in 1..k : rows[m] = i
  <2>1. rows[k] \in ids /\ Cardinality(Above(ids, rows[k])) = k - 1
    BY <1>2, <1>3
  <2>2. Cardinality(Above(ids, i)) <= k - 1
    <3>1. PICK j \in ids : j = rows[k]
      BY <2>1
    <3>2. i \in Nat /\ j \in Nat /\ i >= j /\ k \in Nat
      BY <1>1, <1>10, <3>1
    <3>3. i > j \/ i = j
      BY <3>2
    <3>4. Cardinality(Above(ids, i)) <= Cardinality(Above(ids, j))
      BY <1>5, <1>6, <3>3
    <3> QED BY <2>1, <3>1, <3>4
  <2>3. Cardinality(Above(ids, i)) + 1 \in 1..k /\ Cardinality(Above(ids, i)) < size
    BY <1>1, <1>5, <2>2
  <2> QED BY <1>8, <2>3
<1> QED BY <1>0, <1>1, <1>4, <1>7, <1>9, <1>10
-----------------------------------------------------------------------------
(* Pages.                                                                  *)

\* A page of rows: the newest ones, all of them or down to where the next page begins.
PageFits(page, rows) ==
  /\ page.items \in Seq(Nat \ {0}) /\ ToSet(page.items) \subseteq rows
  /\ \A k, l \in DOMAIN page.items : k < l => page.items[k] > page.items[l]
  /\ page.nextBeforeId = None => rows \subseteq ToSet(page.items)
  /\ page.nextBeforeId # None =>
       /\ page.nextBeforeId \in Nat /\ page.nextBeforeId \in ToSet(page.items)
       /\ \A i \in ToSet(page.items) : i >= page.nextBeforeId
       /\ \A i \in rows : i >= page.nextBeforeId => i \in ToSet(page.items)

LEMMA PageRows ==
  ASSUME NEW ids \in SUBSET (Nat \ {0}), IsFiniteSet(ids), NEW before
  PROVE  PageFits(Page(ids, before), Below(ids, before))
<1> DEFINE below == Below(ids, before)
           rows == Newest(below, Limit + 1)
           size == IF Len(rows) < Limit THEN Len(rows) ELSE Limit
           items == SubSeq(rows, 1, size)
           next == IF Len(rows) > Limit THEN Last(items) ELSE None
<1>0. Limit \in Nat /\ Limit >= 1 /\ None \notin Nat
  BY PageLimits
<1>1. below \in SUBSET (Nat \ {0}) /\ below \in SUBSET Nat /\ IsFiniteSet(below)
  BY FS_Subset DEF Below
<1>2. /\ rows \in Seq(below) /\ Len(rows) \in 0..Limit + 1
      /\ \A k, l \in 1..Len(rows) : k < l => rows[k] > rows[l]
      /\ Len(rows) < Limit + 1 => below \subseteq ToSet(rows)
      /\ \A k \in 1..Len(rows), i \in below : i >= rows[k] => \E m \in 1..k : rows[m] = i
  <2>1. Limit + 1 \in Nat
    BY <1>0
  <2> HIDE DEF below
  <2> QED BY <1>1, <2>1, NewestRows
<1>3. Page(ids, before) = [items |-> items, nextBeforeId |-> next]
  BY DEF Page
<1> HIDE DEF rows, below
<1>4. /\ size \in 0..Len(rows) /\ size <= Limit
      /\ Len(rows) > Limit => size = Limit /\ Limit \in 1..Len(rows)
      /\ ~(Len(rows) > Limit) => size = Len(rows) /\ Len(rows) < Limit + 1
  BY <1>0, <1>2
<1> HIDE DEF size
<1>5. /\ items \in Seq(below) /\ Len(items) = size /\ DOMAIN items = 1..size
      /\ \A k \in 1..size : items[k] = rows[k] /\ k \in 1..Len(rows)
  BY <1>2, <1>4, SubSeqProperties
<1> HIDE DEF items
<1>6. ToSet(items) = {rows[k] : k \in 1..size} /\ ToSet(items) \subseteq below
  <2>1. ToSet(items) = {items[k] : k \in 1..size}
    BY <1>5 DEF ToSet
  <2>2. \A k \in 1..size : items[k] = rows[k] /\ rows[k] \in below
    BY <1>2, <1>5
  <2> QED BY <2>1, <2>2
<1>7. items \in Seq(Nat \ {0})
  BY <1>1, <1>5, SeqMonotonic
<1>8. \A k, l \in DOMAIN items : k < l => items[k] > items[l]
  BY <1>2, <1>5
<1>9. CASE Len(rows) > Limit
  <2>1. next = rows[Limit] /\ size = Limit /\ Limit \in 1..Len(rows) /\ Limit \in 1..size
    BY <1>0, <1>4, <1>5, <1>9 DEF Last
  <2>2. next \in ToSet(items) /\ next \in below /\ next \in Nat /\ next # None
    BY <1>0, <1>1, <1>6, <2>1
  <2>3. ASSUME NEW k \in 1..size PROVE rows[k] >= next
    <3>1. (k = Limit \/ k < Limit) /\ k \in 1..Len(rows) /\ Limit \in 1..Len(rows)
      BY <1>0, <1>5, <2>1
    <3>2. rows[k] \in Nat
      <4>1. rows[k] \in ToSet(items)
        BY <1>6
      <4> QED BY <1>1, <1>6, <4>1
    <3> QED BY <1>2, <1>5, <2>1, <2>2, <3>1, <3>2
  <2>4. \A i \in ToSet(items) : i >= next
    BY <1>6, <2>3
  <2>5. \A i \in below : i >= next => i \in ToSet(items)
    BY <1>2, <1>6, <2>1
  <2> QED BY <1>3, <1>6, <1>7, <1>8, <2>2, <2>4, <2>5 DEF PageFits, below
<1>10. CASE ~(Len(rows) > Limit)
  <2>1. next = None /\ below \subseteq ToSet(items)
    <3>1. below \subseteq ToSet(rows) /\ size = Len(rows)
      BY <1>2, <1>4, <1>10
    <3>2. ToSet(rows) = {rows[k] : k \in 1..Len(rows)}
      BY <1>2 DEF ToSet
    <3> QED BY <1>6, <1>10, <3>1, <3>2
  <2> QED BY <1>3, <1>6, <1>7, <1>8, <2>1 DEF PageFits, below
<1> QED BY <1>9, <1>10
-----------------------------------------------------------------------------
(* The ledger of exports, and readers.                                     *)

Recordable(row) ==
  /\ row \in Row /\ (row.status = "success" => row.count \in Nat)
  /\ row.count # None => row.count <= ExportRowLimit

Inserting(x) == exporters[x] # None /\ exporters[x].pc = "insert"

\* The number of a row that is not visible yet belongs to one export.
ExportsInv ==
  /\ drawn \in Nat /\ DOMAIN ledger \subseteq 1..drawn
  /\ \A n \in DOMAIN ledger : Recordable(ledger[n])
  /\ exporters \in [Exporters -> Export \cup {None}]
  /\ \A x \in Exporters : exporters[x] # None => Recordable(exporters[x].row)
  /\ \A x \in Exporters : Inserting(x) => exporters[x].seq \in (1..drawn) \ DOMAIN ledger
  /\ \A x, y \in Exporters : Inserting(x) /\ Inserting(y) /\ exporters[x].seq = exporters[y].seq
       => x = y
  /\ \A sent \in delivered : sent.seq \in DOMAIN ledger
                            /\ ledger[sent.seq] = [status |-> "success", count |-> sent.count]

\* What a reader holds between two pages: everything it saw at first down to where it stands,
\* and of the audit log nothing else, nor will there be.
ReaderFits(reader) ==
  LET ids == Visible(reader.of, reader.filter)
      got == ToSet(reader.got)
  IN  /\ reader \in Reader
      /\ reader.first \subseteq ids /\ got \subseteq ids
      /\ \A i, j \in DOMAIN reader.got : i < j => reader.got[i] > reader.got[j]
      /\ reader.done <=> reader.before = None
      /\ reader.before # None => reader.before \in got /\ \A i \in got : i >= reader.before
      /\ \A i \in reader.first : reader.done \/ i >= reader.before => i \in got
      /\ reader.of = "log" =>
           /\ got \subseteq reader.first
           /\ \A i \in ids : ~reader.done /\ i < reader.before => i \in reader.first

PagesInv ==
  /\ log \in Seq(Actions) /\ ExportsInv /\ DOMAIN readers = Readers
  /\ \A r \in Readers : readers[r] # None => ReaderFits(readers[r])

LEMMA VisibleFinite ==
  ASSUME log \in Seq(Actions), ExportsInv, NEW of, NEW filter
  PROVE  Visible(of, filter) \in SUBSET (Nat \ {0}) /\ IsFiniteSet(Visible(of, filter))
<1>1. Len(log) \in Nat /\ DOMAIN log = 1..Len(log) /\ drawn \in Nat /\ DOMAIN ledger \subseteq 1..drawn
  BY DEF ExportsInv
<1>2. IsFiniteSet(1..Len(log)) /\ IsFiniteSet(1..drawn)
  BY <1>1, FS_Interval
<1>3. Visible(of, filter) \subseteq 1..Len(log) \/ Visible(of, filter) \subseteq 1..drawn
  BY <1>1 DEF Visible, Matching
<1>4. 1..Len(log) \subseteq Nat \ {0} /\ 1..drawn \subseteq Nat \ {0}
  BY <1>1
<1> QED BY <1>2, <1>3, <1>4, FS_Subset

\* What becomes of the pages read when another is added.
LEMMA ElementsJoined ==
  ASSUME NEW S, NEW s \in Seq(S), NEW t \in Seq(S)
  PROVE  ToSet(s \o t) = ToSet(s) \cup ToSet(t)
<1>1. s \o t \in Seq(S) /\ Range(s \o t) = Range(s) \cup Range(t)
  BY RangeConcatenation
<1> QED BY <1>1 DEF ToSet, Range

LEMMA DescentsJoined ==
  ASSUME NEW S, NEW s \in Seq(S), NEW t \in Seq(S),
         \A i, j \in DOMAIN s : i < j => s[i] > s[j],
         \A i, j \in DOMAIN t : i < j => t[i] > t[j],
         \A i \in ToSet(s), j \in ToSet(t) : i > j
  PROVE  \A i, j \in DOMAIN (s \o t) : i < j => (s \o t)[i] > (s \o t)[j]
<1> DEFINE joined == s \o t
<1>1. /\ Len(s) \in Nat /\ Len(t) \in Nat /\ DOMAIN joined = 1..Len(s) + Len(t)
      /\ DOMAIN s = 1..Len(s) /\ DOMAIN t = 1..Len(t)
  BY ConcatProperties
<1>2. \A i \in 1..Len(s) + Len(t) :
        joined[i] = IF i <= Len(s) THEN s[i] ELSE t[i - Len(s)]
  BY ConcatProperties
<1> HIDE DEF joined
<1> SUFFICES ASSUME NEW i \in 1..Len(s) + Len(t), NEW j \in 1..Len(s) + Len(t), i < j
             PROVE  joined[i] > joined[j]
  BY <1>1 DEF joined
<1>3. CASE j <= Len(s)
  BY <1>1, <1>2, <1>3
<1>4. CASE i <= Len(s) /\ ~(j <= Len(s))
  <2>1. i \in DOMAIN s /\ j - Len(s) \in DOMAIN t
    BY <1>1, <1>4
  <2>2. s[i] \in ToSet(s) /\ t[j - Len(s)] \in ToSet(t)
    BY <2>1 DEF ToSet
  <2> QED BY <1>2, <1>4, <2>2
<1>5. CASE ~(i <= Len(s))
  <2>1. i - Len(s) \in DOMAIN t /\ j - Len(s) \in DOMAIN t /\ i - Len(s) < j - Len(s)
    BY <1>1, <1>5
  <2> QED BY <1>1, <1>2, <1>5, <2>1, SMTT(30)
<1> QED BY <1>1, <1>3, <1>4, <1>5

\* A reader that has read nothing yet, on the table as it is.
Unread(reader) ==
  reader.before = None /\ reader.got = <<>> /\ reader.first = Visible(reader.of, reader.filter)

LEMMA TurnedFits ==
  ASSUME log \in Seq(Actions), ExportsInv, NEW reader \in Reader, ~reader.done,
         ReaderFits(reader) \/ Unread(reader)
  PROVE  ReaderFits(Turned(reader))
<1> DEFINE ids == Visible(reader.of, reader.filter)
           page == Page(ids, reader.before)
           added == [reader EXCEPT !.got = @ \o page.items]
           moved == [added EXCEPT !.before = page.nextBeforeId]
           new == [moved EXCEPT !.done = page.nextBeforeId = None]
<1>0. ids \in SUBSET (Nat \ {0}) /\ IsFiniteSet(ids)
  BY VisibleFinite
<1>1. PageFits(page, Below(ids, reader.before))
  BY <1>0, PageRows
<1>2. Turned(reader) = new
  BY DEF Turned
<1> HIDE DEF page
<1>3. /\ page.items \in Seq(Nat \ {0}) /\ page.nextBeforeId \in Nat \cup {None}
      /\ reader.got \in Seq(Nat \ {0})
  BY <1>1 DEF PageFits, Reader
<1>4. /\ new \in Reader /\ new.of = reader.of /\ new.filter = reader.filter
      /\ new.first = reader.first /\ new.got = reader.got \o page.items
      /\ new.before = page.nextBeforeId /\ new.done = (page.nextBeforeId = None)
  <2>1. reader.got \o page.items \in Seq(Nat \ {0})
    BY <1>3
  <2> DEFINE got == reader.got \o page.items
  <2>2. added = [reader EXCEPT !.got = got]
    OBVIOUS
  <2> HIDE DEF got, added
  <2>3. /\ added \in Reader /\ added.of = reader.of /\ added.filter = reader.filter
        /\ added.first = reader.first /\ added.got = got
    BY <2>1, <2>2 DEF Reader, got
  <2>4. /\ moved \in Reader /\ moved.of = reader.of /\ moved.filter = reader.filter
        /\ moved.first = reader.first /\ moved.got = got /\ moved.before = page.nextBeforeId
    BY <1>3, <2>3 DEF Reader
  <2> HIDE DEF moved
  <2> QED BY <2>4 DEF Reader, got
<1> HIDE DEF new
<1> DEFINE old == ToSet(reader.got)
           items == ToSet(page.items)
           below == Below(ids, reader.before)
<1>5. ToSet(new.got) = old \cup items
  BY <1>3, <1>4, ElementsJoined
<1>6. /\ reader.first \subseteq ids /\ old \subseteq ids /\ items \subseteq below /\ below \subseteq ids
      /\ \A i \in old, j \in below : i > j
      /\ \A i \in reader.first : i \in old \/ i \in below
      /\ reader.of = "log" => old \subseteq reader.first /\ below \subseteq reader.first
  <2>1. items \subseteq below /\ below \subseteq ids
    BY <1>1 DEF PageFits, Below
  <2>2. CASE Unread(reader)
    <3>1. reader.first = ids /\ old = {} /\ below = ids
      BY <2>2 DEF Unread, ToSet, Below
    <3> QED BY <2>1, <3>1
  <2>3. CASE ReaderFits(reader)
    <3>1. /\ reader.first \subseteq ids /\ old \subseteq ids
          /\ reader.before # None /\ reader.before \in old /\ \A i \in old : i >= reader.before
          /\ \A i \in reader.first : i >= reader.before => i \in old
          /\ reader.of = "log" =>
               old \subseteq reader.first /\ \A i \in ids : i < reader.before => i \in reader.first
      BY <2>3 DEF ReaderFits
    <3>2. below = {i \in ids : i < reader.before}
      BY <3>1 DEF Below
    <3>3. \A i \in ids : i \in Nat
      BY <1>0
    <3>4. \A i \in old, j \in below : i > j
      BY <3>1, <3>2, <3>3
    <3>5. \A i \in reader.first : i \in old \/ i \in below
      BY <3>1, <3>2, <3>3
    <3> QED BY <2>1, <3>1, <3>2, <3>4, <3>5
  <2> QED BY <2>2, <2>3
<1>7. \A i, j \in DOMAIN reader.got : i < j => reader.got[i] > reader.got[j]
  BY DEF ReaderFits, Unread
<1>8. \A i, j \in DOMAIN new.got : i < j => new.got[i] > new.got[j]
  <2>1. \A i, j \in DOMAIN page.items : i < j => page.items[i] > page.items[j]
    BY <1>1 DEF PageFits
  <2>2. \A i \in old, j \in items : i > j
    BY <1>6
  <2>3. PICK s, u : s = reader.got /\ u = page.items
    OBVIOUS
  <2>4. \A i, j \in DOMAIN (s \o u) : i < j => (s \o u)[i] > (s \o u)[j]
    BY <1>3, <1>7, <2>1, <2>2, <2>3, DescentsJoined
  <2> QED BY <1>4, <2>3, <2>4
<1>9. /\ new.done <=> new.before = None
      /\ ~new.done => /\ new.before \in Nat /\ new.before \in items
                      /\ \A i \in items : i >= new.before
                      /\ \A i \in below : i >= new.before => i \in items
      /\ new.done => below \subseteq items
  BY <1>1, <1>4 DEF PageFits
<1>10. new.before # None => new.before \in ToSet(new.got) /\ \A i \in ToSet(new.got) : i >= new.before
  <2> SUFFICES ASSUME new.before # None
               PROVE  new.before \in ToSet(new.got) /\ \A i \in ToSet(new.got) : i >= new.before
    OBVIOUS
  <2>1. \A i \in old : i \in Nat /\ i > new.before
    BY <1>0, <1>6, <1>9
  <2> QED BY <1>5, <1>9, <2>1
<1>11. \A i \in new.first : new.done \/ i >= new.before => i \in ToSet(new.got)
  BY <1>4, <1>5, <1>6, <1>9
<1>12. new.of = "log" =>
         /\ ToSet(new.got) \subseteq new.first
         /\ \A i \in ids : ~new.done /\ i < new.before => i \in new.first
  <2> SUFFICES ASSUME new.of = "log", NEW i \in ids, ~new.done, i < new.before
               PROVE  i \in below
    BY <1>4, <1>5, <1>6
  <2>1. new.before \in below /\ new.before \in Nat /\ i \in Nat
    BY <1>0, <1>6, <1>9
  <2>2. CASE reader.before = None
    BY <2>2 DEF Below
  <2>3. CASE reader.before # None
    <3>1. reader.before \in Nat /\ new.before < reader.before
      BY <2>1, <2>3 DEF Below, Reader
    <3>2. i < reader.before
      BY <2>1, <3>1
    <3> QED BY <3>2 DEF Below
  <2> QED BY <2>2, <2>3
<1>13. ReaderFits(new)
  BY <1>4, <1>5, <1>6, <1>8, <1>9, <1>10, <1>11, <1>12 DEF ReaderFits
<1> QED BY <1>2, <1>13
-----------------------------------------------------------------------------
(* Readers and exports, one step.                                          *)

LEMMA InitPages == Init => PagesInv
<1> SUFFICES ASSUME Init PROVE PagesInv
  OBVIOUS
<1>1. /\ log = <<>> /\ DOMAIN ledger = {} /\ drawn = 0 /\ delivered = {}
      /\ readers = [r \in Readers |-> None] /\ exporters = [x \in Exporters |-> None]
  BY DEF Init, PagesInit
<1> QED BY <1>1 DEF PagesInv, ExportsInv, Inserting

\* What happens to the log: nothing, or a row is appended.
LEMMA LogStep ==
  ASSUME log \in Seq(Actions), [Next]_vars
  PROVE  /\ log' \in Seq(Actions) /\ Len(log) \in Nat
         /\ DOMAIN log = 1..Len(log) /\ DOMAIN log' \in {1..Len(log), 1..Len(log) + 1}
         /\ \A i \in DOMAIN log : log'[i] = log[i]
<1>1. PagesNext => UNCHANGED log
  BY DEF PagesNext, FirstPage, NextPage, LeavesPages, ExportSelect, RecordDraw, RecordInsert,
     RecordThrows
<1>2. ASSUME NEW q \in Slots,
             \/ SetupProbe(q) \/ SetupLock(q) \/ SetupRefused(q) \/ InviteLock(q)
             \/ InviteRefused(q) \/ RegisterLook(q) \/ RegisterRefused(q)
      PROVE  UNCHANGED log
  BY <1>2 DEF SetupProbe, SetupLock, SetupRefused, InviteLock, InviteRefused, RegisterLook,
     RegisterRefused, RolledBack, pageVars
<1>3. Tick \/ InstallerLooks \/ InstallerIssues \/ UNCHANGED vars => UNCHANGED log
  BY DEF Tick, InstallerLooks, InstallerIssues, vars, pageVars
<1>4. ASSUME NEW q \in Slots, SetupCommit(q) \/ InviteCommit(q) \/ RegisterCommit(q)
      PROVE  \E action \in Actions : Logged(action)
  BY <1>4 DEF SetupCommit, InviteCommit, RegisterCommit, Actions
<1>5. Settings \/ InviteCreate => \E action \in Actions : Logged(action)
  BY DEF Settings, InviteCreate, Actions
<1>6. UNCHANGED log \/ \E action \in Actions : Logged(action)
  BY <1>1, <1>2, <1>3, <1>4, <1>5 DEF Next, OnboardingNext
<1>7. CASE UNCHANGED log
  BY <1>7
<1>8. ASSUME NEW action \in Actions, Logged(action)
      PROVE  /\ log' \in Seq(Actions) /\ DOMAIN log' = 1..Len(log) + 1
             /\ \A i \in DOMAIN log : log'[i] = log[i]
  BY <1>8 DEF Logged
<1> QED BY <1>6, <1>7, <1>8

\* Everything but the pages and exports leaves the ledger, the readers and the exports.
LEMMA ElsewhereStep ==
  ASSUME [Next]_vars
  PROVE  PagesNext \/ UNCHANGED <<ledger, drawn, readers, exporters, delivered>>
<1>1. ASSUME NEW q \in Slots,
             \/ SetupProbe(q) \/ SetupLock(q) \/ SetupRefused(q) \/ InviteLock(q)
             \/ InviteRefused(q) \/ RegisterLook(q) \/ RegisterRefused(q)
             \/ SetupCommit(q) \/ InviteCommit(q) \/ RegisterCommit(q)
      PROVE  UNCHANGED <<ledger, drawn, readers, exporters, delivered>>
  BY <1>1 DEF SetupProbe, SetupLock, SetupRefused, InviteLock, InviteRefused, RegisterLook,
     RegisterRefused, RolledBack, SetupCommit, InviteCommit, RegisterCommit, pageVars
<1>2. \/ Tick \/ InstallerLooks \/ InstallerIssues \/ Settings \/ InviteCreate \/ UNCHANGED vars
      => UNCHANGED <<ledger, drawn, readers, exporters, delivered>>
  BY DEF Tick, InstallerLooks, InstallerIssues, Settings, InviteCreate, vars, pageVars
<1> QED BY <1>1, <1>2 DEF Next, OnboardingNext

LEMMA ExportsStep ==
  ASSUME PagesInv, [Next]_vars
  PROVE  ExportsInv' /\ DOMAIN ledger \subseteq DOMAIN ledger'
<1> DEFINE Goal == ExportsInv' /\ DOMAIN ledger \subseteq DOMAIN ledger'
<1>0. log \in Seq(Actions) /\ ExportsInv
  BY DEF PagesInv
<1>1. CASE UNCHANGED <<ledger, drawn, exporters, delivered>>
  BY <1>0, <1>1 DEF ExportsInv, Inserting
<1>2. ASSUME NEW r \in Readers, FirstPage(r) \/ NextPage(r) \/ LeavesPages(r) PROVE Goal
  BY <1>1, <1>2 DEF FirstPage, NextPage, LeavesPages
<1>3. ASSUME NEW x \in Exporters, NEW row, Recordable(row), NEW retry \in BOOLEAN,
             exporters' = [exporters EXCEPT ![x] =
               [pc |-> "draw", seq |-> 0, retry |-> retry, row |-> row]],
             UNCHANGED <<ledger, drawn, delivered>>
      PROVE  Goal
  <2>1. PICK export : export = [pc |-> "draw", seq |-> 0, retry |-> retry, row |-> row]
    OBVIOUS
  <2>2. export \in Export /\ export.pc = "draw" /\ export.row = row
    BY <1>3, <2>1 DEF Export, Recordable
  <2>3. exporters' = [exporters EXCEPT ![x] = export]
    BY <1>3, <2>1
  <2> QED BY <1>0, <1>3, <2>2, <2>3 DEF ExportsInv, Inserting
<1>4. ASSUME NEW x \in Exporters, ExportSelect(x) PROVE Goal
  <2>1. PICK filter \in Categories \cup {None} :
          LET count == Len(Newest(Matching(filter), ExportRowLimit + 1)) IN
            exporters' = [exporters EXCEPT ![x] =
              [pc |-> "draw", seq |-> 0, retry |-> FALSE,
               row |-> IF count > ExportRowLimit THEN [status |-> "failed", count |-> None]
                       ELSE [status |-> "success", count |-> count]]]
    BY <1>4 DEF ExportSelect
  <2>2. PICK count : count = Len(Newest(Matching(filter), ExportRowLimit + 1))
    OBVIOUS
  <2>3. PICK row : row = IF count > ExportRowLimit THEN [status |-> "failed", count |-> None]
                         ELSE [status |-> "success", count |-> count]
    OBVIOUS
  <2>4. count \in Nat
    <3>1. Matching(filter) \in SUBSET (Nat \ {0}) /\ IsFiniteSet(Matching(filter))
      <4>1. Visible("log", filter) = Matching(filter)
        BY DEF Visible
      <4> QED BY <1>0, <4>1, VisibleFinite
    <3>2. Matching(filter) \in SUBSET Nat /\ ExportRowLimit + 1 \in Nat
      BY <3>1, PageLimits
    <3>3. Len(Newest(Matching(filter), ExportRowLimit + 1)) \in 0..ExportRowLimit + 1
      BY <3>1, <3>2, NewestRows
    <3> QED BY <2>2, <3>2, <3>3
  <2>5. Recordable(row)
    BY <2>3, <2>4, PageLimits DEF Recordable, Row
  <2>6. exporters' = [exporters EXCEPT ![x] =
          [pc |-> "draw", seq |-> 0, retry |-> FALSE, row |-> row]]
    BY <2>1, <2>2, <2>3
  <2> QED BY <1>3, <1>4, <2>5, <2>6 DEF ExportSelect
<1>5. ASSUME NEW x \in Exporters, RecordDraw(x) PROVE Goal
  <2> DEFINE drawing == [exporters[x] EXCEPT !.pc = "insert"]
             new == [drawing EXCEPT !.seq = drawn + 1]
  <2>1. exporters[x] \in Export /\ drawn \in Nat /\ Recordable(exporters[x].row)
    BY <1>0, <1>5 DEF RecordDraw, ExportsInv
  <2>2. /\ exporters' = [exporters EXCEPT ![x] = new]
    BY <1>0, <1>5 DEF RecordDraw, ExportsInv
  <2>3. drawing \in Export /\ drawing.pc = "insert" /\ drawing.row = exporters[x].row
    BY <2>1 DEF Export
  <2> HIDE DEF drawing
  <2>4. new \in Export /\ new.pc = "insert" /\ new.row = exporters[x].row /\ new.seq = drawn + 1
    BY <2>1, <2>3 DEF Export
  <2> HIDE DEF new
  <2>5. /\ exporters' \in [Exporters -> Export \cup {None}]
        /\ exporters'[x] = new /\ \A y \in Exporters \ {x} : exporters'[y] = exporters[y]
    BY <1>0, <2>2, <2>4 DEF ExportsInv
  <2>6. drawn' = drawn + 1 /\ UNCHANGED <<ledger, delivered>>
    BY <1>5 DEF RecordDraw
  <2>7. \A y \in Exporters : Inserting(y)' =>
          IF y = x THEN exporters'[y].seq = drawn + 1
          ELSE Inserting(y) /\ exporters'[y].seq = exporters[y].seq /\ exporters[y].seq \in 1..drawn
    BY <1>0, <2>4, <2>5 DEF ExportsInv, Inserting
  <2>8. \A y \in Exporters : Inserting(y)' => exporters'[y].seq \in (1..drawn') \ DOMAIN ledger'
    BY <1>0, <2>1, <2>6, <2>7 DEF ExportsInv, Inserting
  <2>9. \A y, z \in Exporters :
          Inserting(y)' /\ Inserting(z)' /\ exporters'[y].seq = exporters'[z].seq => y = z
    BY <1>0, <2>1, <2>7 DEF ExportsInv
  <2>10. \A y \in Exporters : exporters'[y] # None => Recordable(exporters'[y].row)
    BY <1>0, <2>1, <2>4, <2>5 DEF ExportsInv
  <2>11. drawn' \in Nat /\ DOMAIN ledger' \subseteq 1..drawn'
    BY <1>0, <2>1, <2>6 DEF ExportsInv
  <2> QED BY <1>0, <2>5, <2>6, <2>8, <2>9, <2>10, <2>11 DEF ExportsInv, Inserting
<1>6. ASSUME NEW x \in Exporters, Inserting(x),
             ledger' = Recorded(x) \/ ledger' = ledger,
             exporters' \in [Exporters -> Export \cup {None}],
             exporters'[x] # None =>
               exporters'[x].pc = "draw" /\ Recordable(exporters'[x].row),
             \A y \in Exporters \ {x} : exporters'[y] = exporters[y],
             \/ UNCHANGED delivered
             \/ ledger' = Recorded(x) /\ delivered' = Sends(x),
             UNCHANGED drawn
      PROVE  Goal
  <2> DEFINE seq == exporters[x].seq
             row == exporters[x].row
  <2>1. /\ seq \in (1..drawn) \ DOMAIN ledger /\ Recordable(row)
        /\ DOMAIN ledger \subseteq 1..drawn
    BY <1>0, <1>6 DEF ExportsInv, Inserting
  <2>2. ledger' = Recorded(x) =>
          /\ DOMAIN ledger' = DOMAIN ledger \cup {seq}
          /\ ledger'[seq] = row
    BY DEF Recorded
  <2>3. /\ DOMAIN ledger \subseteq DOMAIN ledger' /\ DOMAIN ledger' \subseteq DOMAIN ledger \cup {seq}
        /\ \A n \in DOMAIN ledger : ledger'[n] = ledger[n]
    BY <1>6, <2>1 DEF Recorded
  <2>4. \A n \in DOMAIN ledger' : Recordable(ledger'[n])
    <3> SUFFICES ASSUME NEW n \in DOMAIN ledger' PROVE Recordable(ledger'[n])
      OBVIOUS
    <3>1. CASE n \in DOMAIN ledger
      BY <1>0, <2>3, <3>1 DEF ExportsInv
    <3>2. CASE n \notin DOMAIN ledger
      <4>1. n = seq /\ ledger' = Recorded(x)
        BY <1>6, <2>3, <3>2
      <4> QED BY <2>1, <2>2, <4>1
    <3> QED BY <3>1, <3>2
  <2>5. \A y \in Exporters : Inserting(y)' =>
          /\ y # x /\ Inserting(y) /\ exporters'[y] = exporters[y]
          /\ exporters[y].seq \in (1..drawn) \ DOMAIN ledger /\ exporters[y].seq # seq
    BY <1>0, <1>6 DEF ExportsInv, Inserting
  <2>6. \A y \in Exporters : Inserting(y)' => exporters'[y].seq \in (1..drawn') \ DOMAIN ledger'
    BY <1>6, <2>3, <2>5
  <2>7. \A y, z \in Exporters :
          Inserting(y)' /\ Inserting(z)' /\ exporters'[y].seq = exporters'[z].seq => y = z
    BY <1>0, <2>5 DEF ExportsInv
  <2>8. \A y \in Exporters : exporters'[y] # None => Recordable(exporters'[y].row)
    BY <1>0, <1>6 DEF ExportsInv
  <2>9. \A sent \in delivered' :
          sent.seq \in DOMAIN ledger' /\ ledger'[sent.seq] = [status |-> "success", count |-> sent.count]
    <3>1. \A sent \in delivered :
            sent.seq \in DOMAIN ledger' /\ ledger'[sent.seq] = [status |-> "success", count |-> sent.count]
      BY <1>0, <2>3 DEF ExportsInv
    <3>2. CASE ledger' = Recorded(x) /\ delivered' = Sends(x) /\ row.status = "success"
      <4> DEFINE sent == [seq |-> seq, count |-> row.count]
      <4>1. delivered' = delivered \cup {sent}
        BY <3>2 DEF Sends
      <4>2. row = [status |-> "success", count |-> row.count]
        BY <2>1, <3>2 DEF Recordable, Row
      <4>3. sent.seq = seq /\ sent.count = row.count
        OBVIOUS
      <4> HIDE DEF sent
      <4> QED BY <2>2, <3>1, <3>2, <4>1, <4>2, <4>3
    <3>3. CASE ledger' = Recorded(x) /\ delivered' = Sends(x) /\ row.status # "success"
      BY <3>1, <3>3 DEF Sends
    <3> QED BY <1>6, <3>1, <3>2, <3>3
  <2>10. drawn' \in Nat /\ DOMAIN ledger' \subseteq 1..drawn'
    BY <1>0, <1>6, <2>1, <2>3 DEF ExportsInv
  <2> QED BY <1>6, <2>3, <2>4, <2>6, <2>7, <2>8, <2>9, <2>10 DEF ExportsInv, Inserting
<1>7. ASSUME NEW x \in Exporters, RecordInsert(x) PROVE Goal
  <2>1. exporters' = [exporters EXCEPT ![x] = None]
    BY <1>7 DEF RecordInsert
  <2>2. /\ exporters' \in [Exporters -> Export \cup {None}] /\ exporters'[x] = None
        /\ \A y \in Exporters \ {x} : exporters'[y] = exporters[y]
    BY <1>0, <2>1 DEF ExportsInv
  <2> QED BY <1>6, <1>7, <2>2 DEF RecordInsert, Inserting
<1>8. ASSUME NEW x \in Exporters, RecordThrows(x) PROVE Goal
  <2>1. PICK again : again = [pc |-> "draw", seq |-> 0, retry |-> TRUE,
                              row |-> [status |-> "failed", count |-> None]]
    OBVIOUS
  <2>2. again \in Export /\ again.pc = "draw" /\ Recordable(again.row)
    BY <2>1 DEF Export, Recordable, Row
  <2>3. exporters' = [exporters EXCEPT ![x] = IF exporters[x].retry THEN None ELSE again]
    BY <1>8, <2>1 DEF RecordThrows
  <2>4. /\ exporters' \in [Exporters -> Export \cup {None}]
        /\ exporters'[x] # None => exporters'[x].pc = "draw" /\ Recordable(exporters'[x].row)
        /\ \A y \in Exporters \ {x} : exporters'[y] = exporters[y]
    BY <1>0, <2>2, <2>3 DEF ExportsInv
  <2> QED BY <1>6, <1>8, <2>4 DEF RecordThrows, Inserting
<1> QED BY <1>1, <1>2, <1>4, <1>5, <1>7, <1>8, ElsewhereStep DEF PagesNext

\* A reader who waits: the table only grows, and the log only above what was read.
LEMMA ReaderKept ==
  ASSUME PagesInv, [Next]_vars, NEW reader, ReaderFits(reader)
  PROVE  ReaderFits(reader)'
<1> DEFINE ids == Visible(reader.of, reader.filter)
<1>1. /\ log' \in Seq(Actions) /\ Len(log) \in Nat
      /\ DOMAIN log = 1..Len(log) /\ DOMAIN log' \in {1..Len(log), 1..Len(log) + 1}
      /\ \A i \in DOMAIN log : log'[i] = log[i]
  BY LogStep DEF PagesInv
<1>2. DOMAIN ledger \subseteq DOMAIN ledger'
  BY ExportsStep
<1>3. ids \subseteq ids'
  BY <1>1, <1>2 DEF Visible, Matching
<1>4. reader.of = "log" => ids \subseteq 1..Len(log) /\ \A i \in ids' : i \in ids \/ i = Len(log) + 1
  BY <1>1 DEF Visible, Matching
<1>5. reader.of = "log" => \A i \in ids' : ~reader.done /\ i < reader.before => i \in reader.first
  <2> SUFFICES ASSUME reader.of = "log", NEW i \in ids', ~reader.done, i < reader.before
               PROVE  i \in reader.first
    OBVIOUS
  <2>1. reader.before \in ids
    BY DEF ReaderFits
  <2>2. reader.before \in 1..Len(log)
    BY <1>4, <2>1
  <2>3. i \in ids
    BY <1>1, <1>4, <2>2
  <2> QED BY <2>3 DEF ReaderFits
<1>6. reader.first \subseteq ids' /\ ToSet(reader.got) \subseteq ids'
  BY <1>3 DEF ReaderFits
<1> QED BY <1>5, <1>6 DEF ReaderFits

LEMMA ReadersStep ==
  ASSUME PagesInv, [Next]_vars, NEW r \in Readers, readers'[r] # None
  PROVE  ReaderFits(readers[r])'
<1> DEFINE Goal == ReaderFits(readers[r])'
<1>0. /\ log \in Seq(Actions) /\ ExportsInv /\ DOMAIN readers = Readers
      /\ \A q \in Readers : readers[q] # None => ReaderFits(readers[q])
  BY DEF PagesInv
<1>1. CASE readers'[r] = readers[r]
  <2>1. PICK reader : reader = readers[r]
    OBVIOUS
  <2>2. ReaderFits(reader)'
    BY <1>0, <1>1, <2>1, ReaderKept
  <2> QED BY <1>1, <2>1, <2>2 DEF ReaderFits
<1>2. ASSUME NEW reader \in Reader, ~reader.done, ReaderFits(reader) \/ Unread(reader),
             readers'[r] = Turned(reader), UNCHANGED <<log, ledger>>
      PROVE  Goal
  <2>1. PICK turned : turned = Turned(reader)
    OBVIOUS
  <2>2. ReaderFits(turned)
    BY <1>0, <1>2, <2>1, TurnedFits
  <2>3. ReaderFits(turned)'
    BY <1>2, <2>2 DEF ReaderFits, Visible, Matching
  <2> QED BY <1>2, <2>1, <2>3 DEF ReaderFits
<1>3. ASSUME FirstPage(r) PROVE Goal
  <2>1. PICK of \in {"log", "ledger"}, filter \in Categories \cup {None} :
          readers' = [readers EXCEPT ![r] =
            Turned([of |-> of, filter |-> filter, before |-> None, got |-> <<>>,
                    first |-> Visible(of, filter), done |-> FALSE])]
    BY <1>3 DEF FirstPage
  <2>2. PICK reader : reader = [of |-> of, filter |-> filter, before |-> None, got |-> <<>>,
                                first |-> Visible(of, filter), done |-> FALSE]
    OBVIOUS
  <2>3. reader \in Reader /\ ~reader.done /\ Unread(reader)
    BY <1>0, <2>2, VisibleFinite DEF Reader, Unread
  <2>4. readers'[r] = Turned(reader)
    <3>1. reader.of = of /\ reader.filter = filter
      BY <2>2
    <3> QED BY <1>0, <2>1, <2>2, <3>1 DEF Turned, Visible, Matching
  <2> QED BY <1>2, <1>3, <2>3, <2>4 DEF FirstPage
<1>4. ASSUME NextPage(r) PROVE Goal
  <2>1. PICK reader : reader = readers[r]
    OBVIOUS
  <2>2. reader \in Reader /\ ~reader.done /\ ReaderFits(reader)
    BY <1>0, <1>4, <2>1 DEF NextPage, ReaderFits
  <2>3. readers'[r] = Turned(reader)
    BY <1>0, <1>4, <2>1 DEF NextPage, Turned, Visible, Matching
  <2> QED BY <1>2, <1>4, <2>2, <2>3 DEF NextPage
<1>5. \/ readers'[r] = readers[r] \/ readers'[r] = None \/ FirstPage(r) \/ NextPage(r)
  <2>1. ASSUME NEW q \in Readers, FirstPage(q) \/ NextPage(q) \/ LeavesPages(q)
        PROVE  readers'[r] = readers[r] \/ q = r
    BY <1>0, <2>1 DEF FirstPage, NextPage, LeavesPages
  <2>2. LeavesPages(r) => readers'[r] = None
    BY <1>0 DEF LeavesPages
  <2>3. ASSUME NEW x \in Exporters,
               ExportSelect(x) \/ RecordDraw(x) \/ RecordInsert(x) \/ RecordThrows(x)
        PROVE  readers' = readers
    BY <2>3 DEF ExportSelect, RecordDraw, RecordInsert, RecordThrows
  <2> QED BY <2>1, <2>2, <2>3, ElsewhereStep DEF PagesNext
<1> QED BY <1>1, <1>3, <1>4, <1>5

LEMMA PagesStep == PagesInv /\ [Next]_vars => PagesInv'
<1> SUFFICES ASSUME PagesInv, [Next]_vars PROVE PagesInv'
  OBVIOUS
<1>1. log' \in Seq(Actions)
  BY LogStep DEF PagesInv
<1>2. ExportsInv'
  BY ExportsStep
<1>3. \A r \in Readers : readers'[r] # None => ReaderFits(readers[r])'
  BY ReadersStep
<1>4. DOMAIN readers' = Readers
  <2>1. DOMAIN readers = Readers
    BY DEF PagesInv
  <2> QED BY <2>1, ElsewhereStep DEF PagesNext, FirstPage, NextPage, LeavesPages, ExportSelect,
       RecordDraw, RecordInsert, RecordThrows
<1> QED BY <1>1, <1>2, <1>3, <1>4 DEF PagesInv

LEMMA PagesInductive == Spec => []PagesInv
BY InitPages, PagesStep, PTL DEF Spec

\* audit-pagination.ts: whatever any number of requests add between two pages, of whatever
\* size, a reader gets every row that was there at its first page, newest first, none twice
\* and none left out; and of the audit log nothing younger than its first page.
THEOREM PagesAlwaysExact == Spec => []PagesExact
<1>1. PagesInv => PagesExact
  <2> SUFFICES ASSUME PagesInv, NEW r \in Readers, readers[r] # None
               PROVE  LET got == readers[r].got
                          reached == {i \in readers[r].first :
                                        readers[r].done \/ i >= readers[r].before}
                      IN  /\ \A i, j \in DOMAIN got : i < j => got[i] > got[j]
                          /\ reached \subseteq ToSet(got)
                          /\ readers[r].of = "log" => ToSet(got) = reached
    BY DEF PagesExact
  <2>1. ReaderFits(readers[r])
    BY DEF PagesInv
  <2> QED BY <2>1 DEF ReaderFits
<1> QED BY <1>1, PagesInductive, PTL

\* reports.ts: an export was sent only if the ledger of exports tells of it with the number of
\* rows that were sent, however numbers are drawn, rows become visible and recordings fail in
\* between; and no recorded count is beyond the limit.
THEOREM ExportsAlwaysRecorded == Spec => []ExportsRecorded
<1>1. PagesInv => ExportsRecorded
  BY DEF PagesInv, ExportsInv, Recordable, ExportsRecorded
<1> QED BY <1>1, PagesInductive, PTL

=============================================================================
