--------------------------- MODULE AccountsProofs ---------------------------
(***************************************************************************)
(* Accounts, for any number of requests, passwords, tokens and codes.      *)
(*   - The lockout counter, the single open reset, and what changes a      *)
(*     password rest on the row locks: RequestStep says what a step may do *)
(*     to the locks a request holds, ResetStep and UserStep what may       *)
(*     happen to the rows, and only under which locks.                     *)
(*   - Sessions and recovery codes hold no lock: SessionStep and CodeStep  *)
(*     say how a session opens and what becomes of a code.                 *)
(*   - Types: RequestTypes says what a request brings along, and which     *)
(*     token or reset the bounds hold back for it.                         *)
(***************************************************************************)
EXTENDS Accounts, FiniteSetTheorems, TLAPS

Fields == {"op", "pc", "session", "pending", "brought", "seen", "step", "closing"}

RequestsShaped ==
  /\ requests = [q \in Slots |-> requests[q]]
  /\ \A q \in Slots : requests[q] # None => DOMAIN requests[q] = Fields

RowsShaped ==
  /\ DOMAIN user = {"password", "failed", "lockedUntil", "enrolled", "verified", "counter"}
  /\ user.failed \in Nat
  /\ clock \in Nat
  /\ resets = [r \in DOMAIN resets |-> resets[r]]
  /\ \A r \in DOMAIN resets : DOMAIN resets[r] = {"consumed", "expires"}

SessionsShaped == \A s \in DOMAIN sessions : "revoked" \in DOMAIN sessions[s]

Shaped == RequestsShaped /\ RowsShaped

\* FOR UPDATE excludes.
UserExclusive == \A p, q \in Slots : HoldsUser(p) /\ HoldsUser(q) => p = q
ResetsExclusive ==
  \A p, q \in Slots : HeldResets(p) \cap HeldResets(q) # {} => p = q

\* What was true when the lock was taken still is.
IssuerCloses == \A q \in Slots : At(q, "issue", "write") => OpenResets \subseteq requests[q].closing
ConsumerOpen == \A q \in Slots : At(q, "consume", "write") => requests[q].brought \in OpenResets
PasswordKept ==
  \A q \in Slots : At(q, "password", "write") => requests[q].brought = user.password
AtMostOne == \A r, s \in OpenResets : r = s

\* A request that holds no row, and the request that has just arrived.
Quiet(q) ==
  requests[q] # None =>
  /\ DOMAIN requests[q] = Fields
  /\ requests[q].op \notin {"issue", "consume"}
  /\ ~(requests[q].op = "password" /\ requests[q].pc = "write")
  /\ requests[q].closing = {}

\* Only an issuer that writes has rows to close.
ClosingOfIssuers ==
  \A q \in Slots : requests[q] # None /\ requests[q].op # "issue" => requests[q].closing = {}

IInv ==
  /\ Shaped /\ ClosingOfIssuers /\ UserExclusive /\ ResetsExclusive
  /\ IssuerCloses /\ ConsumerOpen /\ PasswordKept /\ AtMostOne /\ LockoutExact
  /\ SessionsShaped

LEMMA InitInv == Init => IInv
<1> SUFFICES ASSUME Init PROVE IInv
  OBVIOUS
<1> USE AccountDurations, AccountSets
<1>1. \A q \in Slots : requests[q] = None
  BY DEF Init
<1>2. RequestsShaped /\ ClosingOfIssuers
  BY <1>1 DEF Init, RequestsShaped, ClosingOfIssuers
<1>3. RowsShaped
  BY DEF Init, RowsShaped
<1>4. UserExclusive
  BY <1>1 DEF UserExclusive, HoldsUser
<1>5. ResetsExclusive
  <2>1. \A q \in Slots : HeldResets(q) = {}
    BY <1>1 DEF HeldResets
  <2> QED BY <2>1 DEF ResetsExclusive
<1>6. OpenResets = {}
  BY DEF Init, OpenResets
<1>7. IssuerCloses /\ ConsumerOpen /\ PasswordKept /\ AtMostOne
  BY <1>1, <1>6 DEF IssuerCloses, ConsumerOpen, PasswordKept, AtMostOne, At
<1>8. LockoutExact
  BY DEF Init, LockoutExact
<1>9. SessionsShaped
  BY DEF Init, SessionsShaped
<1> QED BY <1>2, <1>3, <1>4, <1>5, <1>7, <1>8, <1>9 DEF IInv, Shaped
-----------------------------------------------------------------------------
\* The steps after which a request holds more than before.
Takes(q) == ChangeLock(q) \/ IssueLock(q) \/ IssueClose(q) \/ ConsumeLock(q)

\* A step moves one request at most, which ends, holds nothing, or takes a lock.
LEMMA RequestStep ==
  ASSUME Shaped, ClosingOfIssuers, Next
  PROVE  \/ requests' = requests
         \/ \E q \in Slots : /\ requests' = [p \in Slots |-> requests'[p]]
                             /\ \A p \in Slots \ {q} : requests'[p] = requests[p]
                             /\ Quiet(q)' \/ Takes(q)
<1> USE AccountSets
<1> DEFINE Goal(q) == /\ requests' = [p \in Slots |-> requests'[p]]
                      /\ \A p \in Slots \ {q} : requests'[p] = requests[p]
                      /\ Quiet(q)' \/ Takes(q)
<1>1. ASSUME Tick \/ RevokeAll PROVE requests' = requests
  BY <1>1 DEF Tick, RevokeAll
<1>2. ASSUME NEW q \in Slots, NEW request, Set(q, request)
      PROVE  /\ requests' = [p \in Slots |-> requests'[p]]
             /\ requests'[q] = request /\ \A p \in Slots \ {q} : requests'[p] = requests[p]
  BY <1>2 DEF Set, Shaped, RequestsShaped
<1>3. ASSUME NEW q \in Slots, Ends(q) PROVE Goal(q)
  BY <1>2, <1>3 DEF Ends, Quiet
<1>4. ASSUME NEW q \in Slots, LoginArrives(q) PROVE requests' = requests \/ Goal(q)
  <2>1. CASE requests' = requests
    BY <2>1
  <2>2. ASSUME NEW password,
               Set(q, [Arrived("login", None, password) EXCEPT !.pc = "act", !.seen = UserRead])
        PROVE  Goal(q)
    <3>1. PICK request : /\ Set(q, request)
                         /\ DOMAIN request = Fields
                         /\ request.op = "login" /\ request.closing = {}
      <4> DEFINE new == [Arrived("login", None, password) EXCEPT !.pc = "act", !.seen = UserRead]
      <4>1. /\ Set(q, new) /\ DOMAIN new = Fields
            /\ new.op = "login" /\ new.closing = {}
        BY <2>2 DEF Arrived, Fields
      <4> HIDE DEF new
      <4> QED BY <4>1
    <3>2. /\ requests' = [p \in Slots |-> requests'[p]]
          /\ requests'[q] = request /\ \A p \in Slots \ {q} : requests'[p] = requests[p]
      BY <1>2, <3>1
    <3>3. Quiet(q)'
      BY <3>1, <3>2 DEF Quiet
    <3> QED BY <3>2, <3>3
  <2> QED BY <1>4, <2>1, <2>2 DEF LoginArrives
<1>5. ASSUME NEW q \in Slots, RecoverArrives(q) PROVE Goal(q)
  <2>1. PICK c : Set(q, [Arrived("recover", None, c) EXCEPT !.pc = "act"])
    BY <1>5 DEF RecoverArrives
  <2> QED BY <1>2, <2>1 DEF Quiet, Arrived, Fields
<1>6. ASSUME NEW q \in Slots, Arrives(q) PROVE Goal(q)
  <2>1. PICK op \in SessionRoutes, s \in Tokens, password \in Passwords \cup {None} :
          Set(q, [Arrived(op, s, password) EXCEPT !.pending = sessions[s].pending])
    BY <1>6 DEF Arrives
  <2> QED BY <1>2, <2>1 DEF Quiet, Arrived, Fields, SessionRoutes, PendingRoutes
<1>7. ASSUME NEW q \in Slots, TotpLook(q) PROVE Goal(q)
  <2>1. CASE Ends(q)
    BY <1>3, <2>1
  <2>2. ASSUME NEW step, Set(q, [requests[q] EXCEPT !.pc = "act", !.step = step])
        PROVE  Goal(q)
    <3>1. /\ requests[q] # None /\ requests[q].op \in {"verify", "challenge", "regenerate"}
          /\ DOMAIN requests[q] = Fields /\ requests[q].closing = {}
      BY <1>7 DEF TotpLook, Shaped, RequestsShaped, ClosingOfIssuers
    <3>2. PICK request : /\ Set(q, request)
                         /\ DOMAIN request = Fields
                         /\ request.op = requests[q].op /\ request.closing = requests[q].closing
      <4> DEFINE acting == [requests[q] EXCEPT !.pc = "act"]
                 new == [acting EXCEPT !.step = step]
      <4>1. DOMAIN acting = Fields /\ acting.op = requests[q].op
            /\ acting.closing = requests[q].closing
        BY <3>1 DEF Fields
      <4>2. new = [requests[q] EXCEPT !.pc = "act", !.step = step]
        OBVIOUS
      <4> HIDE DEF acting
      <4>3. /\ DOMAIN new = Fields
            /\ new.op = requests[q].op /\ new.closing = requests[q].closing
        BY <4>1 DEF Fields
      <4> HIDE DEF new
      <4> QED BY <2>2, <4>2, <4>3
    <3>3. /\ requests' = [p \in Slots |-> requests'[p]]
          /\ requests'[q] = request /\ \A p \in Slots \ {q} : requests'[p] = requests[p]
      BY <1>2, <3>2
    <3>4. Quiet(q)'
      BY <3>1, <3>2, <3>3 DEF Quiet
    <3> QED BY <3>3, <3>4
  <2> QED BY <1>7, <2>1, <2>2 DEF TotpLook
<1>8. ASSUME NEW q \in Slots, DisableLook(q) PROVE Goal(q)
  <2>1. CASE Ends(q)
    BY <1>3, <2>1
  <2>2. CASE Set(q, [requests[q] EXCEPT !.pc = "act"])
    <3>1. /\ requests[q] # None /\ requests[q].op = "disable"
          /\ DOMAIN requests[q] = Fields /\ requests[q].closing = {}
      BY <1>8 DEF DisableLook, At, Shaped, RequestsShaped, ClosingOfIssuers
    <3> QED BY <1>2, <2>2, <3>1 DEF Quiet, Fields
  <2> QED BY <1>8, <2>1, <2>2 DEF DisableLook
<1>9. ASSUME NEW q \in Slots, WebauthnLook(q) PROVE Goal(q)
  <2>1. CASE Ends(q)
    BY <1>3, <2>1
  <2>2. CASE Set(q, [requests[q] EXCEPT !.pc = "act"])
    <3>1. /\ requests[q] # None /\ requests[q].op \in {"registerVerify", "loginVerify"}
          /\ DOMAIN requests[q] = Fields /\ requests[q].closing = {}
      BY <1>9 DEF WebauthnLook, Shaped, RequestsShaped, ClosingOfIssuers
    <3> QED BY <1>2, <2>2, <3>1 DEF Quiet, Fields
  <2> QED BY <1>9, <2>1, <2>2 DEF WebauthnLook
<1>10. ASSUME NEW q \in Slots, Takes(q) PROVE Goal(q)
  <2>1. \E request : Set(q, request)
    BY <1>10 DEF Takes, ChangeLock, IssueLock, IssueClose, ConsumeLock, Ends
  <2> QED BY <1>2, <1>10, <2>1
<1>11. ASSUME NEW q \in Slots, Progress(q) PROVE Goal(q)
  <2>1. Ends(q) \/ Takes(q) \/ TotpLook(q) \/ DisableLook(q) \/ WebauthnLook(q)
    BY <1>11 DEF Progress, Takes, IssueCommit, ConsumeWrite, Victim, ChangePassword, LoginFails,
       LoginOpens, Recover, Logout, Enroll, TotpVerify, TotpChallenge, Regenerate,
       Disable, RegisterOptions, LoginOptions, WebauthnRegister, WebauthnLogin
  <2> QED BY <1>3, <1>7, <1>8, <1>9, <1>10, <2>1
<1>12. Tick \/ RevokeAll \/ \E q \in Slots :
         LoginArrives(q) \/ RecoverArrives(q) \/ Arrives(q) \/ Takes(q) \/ Progress(q)
  BY DEF Next, Takes
<1> HIDE DEF Goal
<1>13. requests' = requests \/ \E q \in Slots : Goal(q)
  <2>1. ASSUME Tick \/ RevokeAll PROVE requests' = requests
    BY <1>1, <2>1
  <2>2. ASSUME NEW q \in Slots,
               LoginArrives(q) \/ RecoverArrives(q) \/ Arrives(q) \/ Takes(q) \/ Progress(q)
        PROVE  requests' = requests \/ Goal(q)
    BY <1>4, <1>5, <1>6, <1>10, <1>11, <2>2
  <2> QED BY <1>12, <2>1, <2>2
<1> QED BY <1>13 DEF Goal

\* What a step that takes a lock finds, and what it takes.
LEMMA Taken ==
  ASSUME Shaped, ClosingOfIssuers, NEW q \in Slots, Takes(q)
  PROVE  /\ UNCHANGED <<user, resets>>
         /\ requests'[q] # None => DOMAIN requests'[q] = Fields
         /\ HoldsUser(q)' => HoldsUser(q) \/ UserFree(q)
         /\ \A p \in Slots \ {q} : HeldResets(p) \cap HeldResets(q)' = {}
         /\ At(q, "issue", "write")' => OpenResets \subseteq requests'[q].closing
         /\ At(q, "consume", "write")' => requests'[q].brought \in OpenResets
         /\ At(q, "password", "write")' => requests'[q].brought = user.password
         /\ requests'[q] # None /\ requests'[q].op # "issue" => requests'[q].closing = {}
<1> DEFINE Goal ==
         /\ UNCHANGED <<user, resets>>
         /\ requests'[q] # None => DOMAIN requests'[q] = Fields
         /\ HoldsUser(q)' => HoldsUser(q) \/ UserFree(q)
         /\ \A p \in Slots \ {q} : HeldResets(p) \cap HeldResets(q)' = {}
         /\ At(q, "issue", "write")' => OpenResets \subseteq requests'[q].closing
         /\ At(q, "consume", "write")' => requests'[q].brought \in OpenResets
         /\ At(q, "password", "write")' => requests'[q].brought = user.password
         /\ requests'[q] # None /\ requests'[q].op # "issue" => requests'[q].closing = {}
<1>1. ASSUME NEW request, Set(q, request) PROVE requests'[q] = request
  BY <1>1 DEF Set, Shaped, RequestsShaped
<1>2. ASSUME Ends(q), UNCHANGED <<user, resets>> PROVE Goal
  <2>1. requests'[q] = None
    BY <1>1, <1>2 DEF Ends
  <2> QED BY <1>2, <2>1 DEF HoldsUser, HeldResets, At
<1>3. CASE ChangeLock(q)
  <2>1. CASE Ends(q)
    BY <1>2, <1>3, <2>1 DEF ChangeLock, rows
  <2>2. CASE ~Ends(q)
    <3>1. /\ requests[q] # None /\ requests[q].op = "password"
          /\ DOMAIN requests[q] = Fields /\ requests[q].closing = {}
      BY <1>3 DEF ChangeLock, At, Shaped, RequestsShaped, ClosingOfIssuers
    <3>2. /\ requests'[q] = [requests[q] EXCEPT !.pc = "write"]
          /\ UserFree(q) /\ requests[q].brought = user.password
          /\ UNCHANGED <<user, resets>>
      BY <1>1, <1>3, <2>2 DEF ChangeLock, rows
    <3>3. /\ DOMAIN requests'[q] = Fields /\ requests'[q].op = "password"
          /\ requests'[q].closing = {} /\ requests'[q].brought = user.password
      BY <3>1, <3>2 DEF Fields
    <3>4. HeldResets(q)' = {}
      BY <3>3 DEF HeldResets, At
    <3> QED BY <3>2, <3>3, <3>4 DEF At
  <2> QED BY <2>1, <2>2
<1>4. CASE IssueLock(q)
  <2>1. /\ requests'[q] = [Arrived("issue", None, None) EXCEPT !.pc = "act"]
        /\ UserFree(q) /\ UNCHANGED <<user, resets>>
    BY <1>1, <1>4 DEF IssueLock, rows
  <2>2. /\ DOMAIN requests'[q] = Fields /\ requests'[q].op = "issue"
        /\ requests'[q].pc = "act" /\ requests'[q].closing = {}
    BY <2>1 DEF Arrived, Fields
  <2>3. HeldResets(q)' = {}
    BY <2>2 DEF HeldResets, At
  <2> QED BY <2>1, <2>2, <2>3 DEF At
<1>5. CASE IssueClose(q)
  <2>1. /\ requests[q] # None /\ requests[q].op = "issue" /\ requests[q].pc = "act"
        /\ DOMAIN requests[q] = Fields
    BY <1>5 DEF IssueClose, At, Shaped, RequestsShaped
  <2>2. \E request : /\ Set(q, request) /\ DOMAIN request = Fields
                     /\ request.op = "issue" /\ request.closing = OpenResets
    <3> DEFINE writing == [requests[q] EXCEPT !.pc = "write"]
               new == [writing EXCEPT !.closing = OpenResets]
    <3>1. DOMAIN writing = Fields /\ writing.op = "issue"
      BY <2>1 DEF Fields
    <3>2. new = [requests[q] EXCEPT !.pc = "write", !.closing = OpenResets]
      OBVIOUS
    <3> HIDE DEF writing
    <3>3. DOMAIN new = Fields /\ new.op = "issue" /\ new.closing = OpenResets
      BY <3>1 DEF Fields
    <3> HIDE DEF new
    <3> QED BY <1>5, <3>2, <3>3 DEF IssueClose
  <2>3. /\ DOMAIN requests'[q] = Fields /\ requests'[q].op = "issue"
        /\ requests'[q].closing = OpenResets
    BY <1>1, <2>2
  <2>4. ResetsFree(q, OpenResets) /\ UNCHANGED <<user, resets>>
    BY <1>5 DEF IssueClose, rows
  <2>5. HeldResets(q)' \subseteq OpenResets
    BY <2>3 DEF HeldResets, At
  <2>6. HoldsUser(q)
    BY <2>1 DEF HoldsUser
  <2> QED BY <2>3, <2>4, <2>5, <2>6 DEF At, ResetsFree
<1>6. CASE ConsumeLock(q)
  <2>1. PICK r \in OpenResets :
          /\ ResetsFree(q, {r})
          /\ Set(q, [Arrived("consume", None, r) EXCEPT !.pc = "write"])
    BY <1>6 DEF ConsumeLock
  <2>2. /\ requests'[q] = [Arrived("consume", None, r) EXCEPT !.pc = "write"]
        /\ UNCHANGED <<user, resets>>
    BY <1>1, <1>6, <2>1 DEF ConsumeLock, rows
  <2>3. /\ DOMAIN requests'[q] = Fields /\ requests'[q].op = "consume"
        /\ requests'[q].pc = "write" /\ requests'[q].closing = {}
        /\ requests'[q].brought = r
    BY <2>2 DEF Arrived, Fields
  <2>4. HeldResets(q)' \subseteq {r} /\ ~HoldsUser(q)'
    BY <2>3 DEF HeldResets, HoldsUser, At
  <2> QED BY <2>1, <2>2, <2>3, <2>4 DEF At, ResetsFree
<1> QED BY <1>3, <1>4, <1>5, <1>6 DEF Takes
-----------------------------------------------------------------------------
\* Who may change the rows.
LEMMA ResetStep ==
  ASSUME Next
  PROVE  resets' = resets \/ \E q \in Slots : IssueCommit(q) \/ ConsumeWrite(q)
<1>1. CASE Tick \/ RevokeAll
  BY <1>1 DEF Tick, RevokeAll, rows
<1>2. ASSUME NEW q \in Slots,
             \/ LoginArrives(q) \/ RecoverArrives(q) \/ Arrives(q)
             \/ IssueLock(q) \/ ConsumeLock(q)
      PROVE  resets' = resets
  BY <1>2 DEF LoginArrives, RecoverArrives, Arrives, IssueLock, ConsumeLock, rows
<1>3. ASSUME NEW q \in Slots, Progress(q), ~IssueCommit(q), ~ConsumeWrite(q)
      PROVE  resets' = resets
  BY <1>3 DEF Progress, IssueClose, Victim, ChangeLock, ChangePassword, LoginFails, LoginOpens,
     Recover, Logout, Enroll, TotpLook, TotpVerify, TotpChallenge, Regenerate,
     DisableLook, Disable, RegisterOptions, LoginOptions, WebauthnLook, WebauthnRegister,
     WebauthnLogin, rows
<1> QED BY <1>1, <1>2, <1>3 DEF Next

LEMMA UserStep ==
  ASSUME RowsShaped, Next
  PROVE  /\ DOMAIN user' = DOMAIN user
         /\ \/ user'.password = user.password
            \/ \E q \in Slots : ChangePassword(q) \/ ConsumeWrite(q)
         /\ \/ UNCHANGED <<user.failed, user.lockedUntil, failures>>
            \/ user'.failed = 0 /\ user'.lockedUntil = None /\ failures' = 0
            \/ /\ user'.failed = user.failed + 1 /\ failures' = failures + 1
               /\ user'.lockedUntil = IF user.failed + 1 >= MaxFailed
                                      THEN clock + Lockout ELSE user.lockedUntil
<1> DEFINE Rest == UNCHANGED <<user.failed, user.lockedUntil, failures>>
<1>1. CASE UNCHANGED <<user, failures>>
  BY <1>1
<1>2. ASSUME NEW q \in Slots, LoginFails(q)
      PROVE  /\ DOMAIN user' = DOMAIN user /\ user'.password = user.password
             /\ user'.failed = user.failed + 1 /\ failures' = failures + 1
             /\ user'.lockedUntil = IF user.failed + 1 >= MaxFailed
                                    THEN clock + Lockout ELSE user.lockedUntil
  <2>1. PICK locked : /\ locked = IF user.failed + 1 >= MaxFailed
                                  THEN clock + Lockout ELSE user.lockedUntil
                      /\ user' = [user EXCEPT !.failed = user.failed + 1, !.lockedUntil = locked]
    BY <1>2 DEF LoginFails, FailureCounted
  <2> QED BY <1>2, <2>1 DEF LoginFails, RowsShaped
<1>3. ASSUME NEW q \in Slots, LoginOpens(q)
      PROVE  /\ DOMAIN user' = DOMAIN user /\ user'.password = user.password
             /\ user'.failed = 0 /\ user'.lockedUntil = None /\ failures' = 0
  BY <1>3 DEF LoginOpens, RowsShaped
<1>4. ASSUME NEW q \in Slots,
             \/ Enroll(q) \/ TotpVerify(q) \/ TotpChallenge(q) \/ Regenerate(q) \/ Disable(q)
      PROVE  DOMAIN user' = DOMAIN user /\ user'.password = user.password /\ Rest
  BY <1>4 DEF Enroll, TotpVerify, TotpChallenge, Regenerate, Disable, RowsShaped, history
<1>5. ASSUME NEW q \in Slots, ChangePassword(q) \/ ConsumeWrite(q)
      PROVE  DOMAIN user' = DOMAIN user /\ Rest
  BY <1>5 DEF ChangePassword, ConsumeWrite, RowsShaped, history
<1>6. ASSUME NEW q \in Slots,
             \/ IssueClose(q) \/ IssueCommit(q) \/ Victim(q) \/ ChangeLock(q) \/ Recover(q)
             \/ Logout(q) \/ TotpLook(q) \/ DisableLook(q)
             \/ RegisterOptions(q) \/ LoginOptions(q)
             \/ WebauthnLook(q) \/ WebauthnRegister(q) \/ WebauthnLogin(q)
             \/ LoginArrives(q) \/ RecoverArrives(q) \/ Arrives(q)
             \/ IssueLock(q) \/ ConsumeLock(q)
      PROVE  UNCHANGED <<user, failures>>
  BY <1>6 DEF IssueClose, IssueCommit, Victim, ChangeLock, Recover, Logout, TotpLook,
     DisableLook, RegisterOptions, LoginOptions, WebauthnLook, WebauthnRegister, WebauthnLogin,
     LoginArrives, RecoverArrives, Arrives, IssueLock, ConsumeLock, rows, history
<1>7. CASE Tick \/ RevokeAll
  BY <1>7 DEF Tick, RevokeAll, rows, history
<1>8. CASE \E q \in Slots : LoginFails(q) \/ LoginOpens(q)
  BY <1>2, <1>3, <1>8
<1>9. CASE \E q \in Slots :
             \/ Enroll(q) \/ TotpVerify(q) \/ TotpChallenge(q) \/ Regenerate(q) \/ Disable(q)
  BY <1>4, <1>9
<1>10. CASE \E q \in Slots : ChangePassword(q) \/ ConsumeWrite(q)
  BY <1>5, <1>10
<1> HIDE DEF Rest
<1> QED BY <1>1, <1>6, <1>7, <1>8, <1>9, <1>10 DEF Next, Progress

LEMMA ClockStep ==
  ASSUME Next
  PROVE  clock' = clock \/ clock' = clock + 1
<1>1. CASE Tick \/ RevokeAll
  BY <1>1 DEF Tick, RevokeAll
<1>2. ASSUME NEW q \in Slots,
             \/ LoginArrives(q) \/ RecoverArrives(q) \/ Arrives(q)
             \/ IssueLock(q) \/ ConsumeLock(q)
      PROVE  clock' = clock
  BY <1>2 DEF LoginArrives, RecoverArrives, Arrives, IssueLock, ConsumeLock
<1>3. ASSUME NEW q \in Slots, Progress(q) PROVE clock' = clock
  BY <1>3 DEF Progress, IssueClose, IssueCommit, ConsumeWrite, Victim, ChangeLock, ChangePassword,
     LoginFails, LoginOpens, Recover, Logout, Enroll, TotpLook, TotpVerify,
     TotpChallenge, Regenerate, DisableLook, Disable, RegisterOptions, LoginOptions,
     WebauthnLook, WebauthnRegister, WebauthnLogin
<1> QED BY <1>1, <1>2, <1>3 DEF Next
-----------------------------------------------------------------------------
\* The locks keep what they keep.
LEMMA LocksStep ==
  ASSUME IInv, Next
  PROVE  RequestsShaped' /\ ClosingOfIssuers' /\ UserExclusive' /\ ResetsExclusive'
<1> USE DEF IInv
<1>1. CASE requests' = requests
  BY <1>1 DEF Shaped, RequestsShaped, ClosingOfIssuers, UserExclusive, ResetsExclusive,
     HoldsUser, HeldResets, At
<1>2. ASSUME NEW q \in Slots,
             requests' = [p \in Slots |-> requests'[p]],
             \A p \in Slots \ {q} : requests'[p] = requests[p],
             Quiet(q)' \/ Takes(q)
      PROVE  RequestsShaped' /\ ClosingOfIssuers' /\ UserExclusive' /\ ResetsExclusive'
  <2>1. /\ requests'[q] # None => DOMAIN requests'[q] = Fields
        /\ requests'[q] # None /\ requests'[q].op # "issue" => requests'[q].closing = {}
    BY <1>2, Taken DEF Quiet
  <2>2. HoldsUser(q)' => HoldsUser(q) \/ UserFree(q)
    BY <1>2, Taken DEF Quiet, HoldsUser
  <2>3. \A p \in Slots \ {q} : HeldResets(p) \cap HeldResets(q)' = {}
    <3>1. CASE Quiet(q)'
      <4>1. HeldResets(q)' = {}
        BY <3>1 DEF Quiet, HeldResets, At
      <4> QED BY <4>1
    <3> QED BY <1>2, <3>1, Taken
  <2>4. \A p \in Slots \ {q} : /\ HoldsUser(p)' <=> HoldsUser(p)
                               /\ HeldResets(p)' = HeldResets(p)
    BY <1>2 DEF HoldsUser, HeldResets, At
  <2>5. RequestsShaped'
    BY <1>2, <2>1 DEF Shaped, RequestsShaped
  <2>6. ClosingOfIssuers'
    BY <1>2, <2>1 DEF ClosingOfIssuers
  <2>7. UserExclusive'
    BY <2>2, <2>4 DEF UserExclusive, UserFree
  <2>8. ResetsExclusive'
    BY <2>3, <2>4 DEF ResetsExclusive
  <2> QED BY <2>5, <2>6, <2>7, <2>8
<1> QED BY <1>1, <1>2, RequestStep

LEMMA RowsStep ==
  ASSUME IInv, Next
  PROVE  RowsShaped' /\ LockoutExact'
<1> USE AccountDurations, AccountSets DEF IInv, Shaped
<1>1. clock' \in Nat
  BY ClockStep DEF RowsShaped
<1>2. /\ DOMAIN user' = {"password", "failed", "lockedUntil", "enrolled", "verified", "counter"}
      /\ user'.failed \in Nat
  BY UserStep DEF RowsShaped
<1>3. /\ resets' = [r \in DOMAIN resets' |-> resets'[r]]
      /\ \A r \in DOMAIN resets' : DOMAIN resets'[r] = {"consumed", "expires"}
  <2>1. CASE resets' = resets
    BY <2>1 DEF RowsShaped
  <2>2. ASSUME NEW q \in Slots, IssueCommit(q) PROVE <1>3!:
    BY <2>2 DEF IssueCommit, RowsShaped
  <2>3. ASSUME NEW q \in Slots, ConsumeWrite(q) PROVE <1>3!:
    BY <2>3 DEF ConsumeWrite, RowsShaped
  <2> QED BY <2>1, <2>2, <2>3, ResetStep
<1>4. LockoutExact'
  <2>1. clock + Lockout # None
    BY DEF RowsShaped
  <2> QED BY <2>1, UserStep DEF LockoutExact, RowsShaped
<1> QED BY <1>1, <1>2, <1>3, <1>4 DEF RowsShaped

\* A session that is there keeps its columns.
LEMMA SessionsStep ==
  ASSUME SessionsShaped, Next
  PROVE  SessionsShaped'
<1> USE DEF SessionsShaped
<1>1. ASSUME UNCHANGED sessions PROVE SessionsShaped'
  BY <1>1
<1>2. ASSUME sessions' = RevokedSessions PROVE SessionsShaped'
  BY <1>2 DEF RevokedSessions
<1>3. ASSUME NEW pending, NEW by, OpenSession(pending, by) PROVE SessionsShaped'
  BY <1>3 DEF OpenSession
<1>4. ASSUME NEW s, NEW value,
             \/ sessions' = [sessions EXCEPT ![s].revoked = TRUE]
             \/ sessions' = [sessions EXCEPT ![s].pending = FALSE]
             \/ sessions' = [sessions EXCEPT ![s].challenge = value]
      PROVE  SessionsShaped'
  BY <1>4
<1>5. ASSUME NEW q \in Slots, WebauthnLogin(q) PROVE SessionsShaped'
  <2>1. \A s \in DOMAIN Completed(requests[q].session) :
          "revoked" \in DOMAIN Completed(requests[q].session)[s]
    BY DEF Completed
  <2> QED BY <1>5, <2>1 DEF WebauthnLogin
<1>6. ASSUME NEW q \in Slots, Disable(q) PROVE SessionsShaped'
  BY <1>6 DEF Disable
<1>7. ASSUME NEW q \in Slots,
             \/ LoginOpens(q) \/ Recover(q) \/ Logout(q) \/ TotpChallenge(q)
             \/ RegisterOptions(q) \/ LoginOptions(q) \/ WebauthnRegister(q) \/ ConsumeWrite(q)
      PROVE  SessionsShaped'
  BY <1>1, <1>2, <1>3, <1>4, <1>7 DEF LoginOpens, Recover, Logout, TotpChallenge,
     Completed, RegisterOptions, LoginOptions, WebauthnRegister, ConsumeWrite
<1>8. ASSUME NEW q \in Slots,
             \/ IssueClose(q) \/ IssueCommit(q) \/ Victim(q) \/ ChangeLock(q) \/ ChangePassword(q)
             \/ LoginFails(q) \/ Enroll(q) \/ TotpLook(q) \/ TotpVerify(q) \/ Regenerate(q)
             \/ DisableLook(q) \/ WebauthnLook(q)
             \/ LoginArrives(q) \/ RecoverArrives(q) \/ Arrives(q) \/ IssueLock(q) \/ ConsumeLock(q)
      PROVE  UNCHANGED sessions
  BY <1>8 DEF IssueClose, IssueCommit, Victim, ChangeLock, ChangePassword, LoginFails, Enroll,
     TotpLook, TotpVerify, Regenerate, DisableLook, WebauthnLook, LoginArrives, RecoverArrives,
     Arrives, IssueLock, ConsumeLock, rows
<1>9. CASE Tick \/ RevokeAll
  BY <1>1, <1>2, <1>9 DEF Tick, RevokeAll, rows
<1> QED BY <1>1, <1>5, <1>6, <1>7, <1>8, <1>9 DEF Next, Progress
-----------------------------------------------------------------------------
\* A reset that is issued replaces all open ones; one that is consumed is closed.
LEMMA Issued ==
  ASSUME IInv, NEW q \in Slots, IssueCommit(q)
  PROVE  \E fresh : OpenResets' \subseteq {fresh}
<1>1. OpenResets \subseteq requests[q].closing
  BY DEF IInv, IssuerCloses, IssueCommit
<1>2. PICK fresh :
        resets' = [r \in DOMAIN resets \cup {fresh} |->
          IF r = fresh THEN [consumed |-> FALSE, expires |-> clock + ResetTtl]
          ELSE [resets[r] EXCEPT !.consumed = @ \/ r \in requests[q].closing]]
  BY DEF IssueCommit
<1>3. ASSUME NEW r \in DOMAIN resets, r # fresh PROVE resets'[r].consumed
  <2>1. resets'[r].consumed = (resets[r].consumed \/ r \in requests[q].closing)
    BY <1>2, <1>3 DEF IInv, Shaped, RowsShaped
  <2> QED BY <1>1, <2>1 DEF OpenResets
<1> QED BY <1>2, <1>3 DEF OpenResets

LEMMA Consumed ==
  ASSUME IInv, NEW q \in Slots, ConsumeWrite(q)
  PROVE  OpenResets' = OpenResets \ {requests[q].brought}
BY DEF ConsumeWrite, OpenResets, IInv, Shaped, RowsShaped, ConsumerOpen

\* The request that commits has ended, the others are where they were.
LEMMA Committed ==
  ASSUME IInv, NEW q \in Slots, IssueCommit(q) \/ ConsumeWrite(q) \/ ChangePassword(q)
  PROVE  requests'[q] = None /\ \A p \in Slots \ {q} : requests'[p] = requests[p]
BY DEF IssueCommit, ConsumeWrite, ChangePassword, Ends, Set, IInv, Shaped, RequestsShaped

\* Whoever is about to write and did not just take its lock held it before.
LEMMA Kept ==
  ASSUME IInv, Next, NEW q \in Slots, NEW op \in {"issue", "consume", "password"},
         At(q, op, "write")', requests'[q] # None
  PROVE  Takes(q) \/ (requests'[q] = requests[q] /\ At(q, op, "write"))
<1>1. requests'[q] = requests[q] => At(q, op, "write")
  BY DEF At
<1>2. requests'[q] = requests[q] \/ Quiet(q)' \/ Takes(q)
  BY RequestStep DEF IInv
<1>3. ~Quiet(q)'
  BY DEF Quiet, At
<1> QED BY <1>1, <1>2, <1>3

\* Nobody issues a reset while somebody consumes one.
LEMMA NoIssueUnderConsumer ==
  ASSUME IInv, NEW p \in Slots, NEW q \in Slots,
         At(p, "issue", "write"), At(q, "consume", "write")
  PROVE  FALSE
<1>1. requests[q].brought \in requests[p].closing
  BY DEF IInv, ConsumerOpen, IssuerCloses
<1>2. HeldResets(q) = {requests[q].brought} /\ HeldResets(p) = requests[p].closing /\ p # q
  BY DEF HeldResets, At
<1> QED BY <1>1, <1>2 DEF IInv, ResetsExclusive

LEMMA AtMostOneStep == ASSUME IInv, Next PROVE AtMostOne'
<1>1. CASE resets' = resets
  BY <1>1 DEF IInv, AtMostOne, OpenResets
<1>2. CASE \E q \in Slots : IssueCommit(q)
  BY <1>2, Issued DEF AtMostOne
<1>3. CASE \E q \in Slots : ConsumeWrite(q)
  BY <1>3, Consumed DEF IInv, AtMostOne
<1> QED BY <1>1, <1>2, <1>3, ResetStep

LEMMA IssuerClosesStep == ASSUME IInv, Next PROVE IssuerCloses'
<1> SUFFICES ASSUME NEW c \in Slots, At(c, "issue", "write")'
             PROVE  OpenResets' \subseteq requests'[c].closing
  BY DEF IssuerCloses
<1>1. requests'[c] # None
  BY DEF At
<1>2. CASE Takes(c)
  BY <1>2, Taken DEF IInv, OpenResets
<1>3. CASE requests'[c] = requests[c] /\ At(c, "issue", "write")
  <2>1. OpenResets \subseteq requests'[c].closing
    BY <1>3 DEF IInv, IssuerCloses
  <2>2. ASSUME NEW p \in Slots, IssueCommit(p) PROVE FALSE
    <3>1. HoldsUser(p) /\ HoldsUser(c)
      BY <1>3, <2>2 DEF IssueCommit, At, HoldsUser
    <3>2. p = c
      BY <3>1 DEF IInv, UserExclusive
    <3> QED BY <1>1, <2>2, <3>2, Committed
  <2>3. CASE \E p \in Slots : ConsumeWrite(p)
    BY <2>1, <2>3, Consumed
  <2>4. CASE resets' = resets
    BY <2>1, <2>4 DEF OpenResets
  <2> QED BY <2>2, <2>3, <2>4, ResetStep
<1> QED BY <1>1, <1>2, <1>3, Kept

LEMMA ConsumerOpenStep == ASSUME IInv, Next PROVE ConsumerOpen'
<1> SUFFICES ASSUME NEW c \in Slots, At(c, "consume", "write")'
             PROVE  requests'[c].brought \in OpenResets'
  BY DEF ConsumerOpen
<1>1. requests'[c] # None
  BY DEF At
<1>2. CASE Takes(c)
  BY <1>2, Taken DEF IInv, OpenResets
<1>3. CASE requests'[c] = requests[c] /\ At(c, "consume", "write")
  <2>1. requests'[c].brought \in OpenResets
    BY <1>3 DEF IInv, ConsumerOpen
  <2>2. ASSUME NEW p \in Slots, IssueCommit(p) PROVE FALSE
    BY <1>3, <2>2, NoIssueUnderConsumer DEF IssueCommit
  <2>3. ASSUME NEW p \in Slots, ConsumeWrite(p) PROVE requests'[c].brought \in OpenResets'
    <3>1. p # c
      BY <1>1, <2>3, Committed
    <3>2. HeldResets(p) = {requests[p].brought} /\ HeldResets(c) = {requests[c].brought}
      BY <1>3, <2>3 DEF ConsumeWrite, At, HeldResets
    <3>3. requests[p].brought # requests[c].brought
      BY <3>1, <3>2 DEF IInv, ResetsExclusive
    <3> QED BY <1>3, <2>1, <2>3, <3>3, Consumed
  <2>4. CASE resets' = resets
    BY <2>1, <2>4 DEF OpenResets
  <2> QED BY <2>2, <2>3, <2>4, ResetStep
<1> QED BY <1>1, <1>2, <1>3, Kept

LEMMA PasswordKeptStep == ASSUME IInv, Next PROVE PasswordKept'
<1> SUFFICES ASSUME NEW c \in Slots, At(c, "password", "write")'
             PROVE  requests'[c].brought = user'.password
  BY DEF PasswordKept
<1>1. requests'[c] # None
  BY DEF At
<1>2. CASE Takes(c)
  BY <1>2, Taken DEF IInv
<1>3. CASE requests'[c] = requests[c] /\ At(c, "password", "write")
  <2>1. requests'[c].brought = user.password /\ HoldsUser(c)
    BY <1>3 DEF IInv, PasswordKept, HoldsUser, At
  <2>2. ASSUME NEW p \in Slots, ChangePassword(p) \/ ConsumeWrite(p) PROVE FALSE
    <3>1. p # c
      BY <1>1, <2>2, Committed
    <3> QED BY <2>1, <2>2, <3>1 DEF ChangePassword, ConsumeWrite, UserFree
  <2> QED BY <2>1, <2>2, UserStep DEF IInv, Shaped
<1> QED BY <1>1, <1>2, <1>3, Kept

LEMMA StepInv == IInv /\ [Next]_vars => IInv'
<1> SUFFICES ASSUME IInv, [Next]_vars PROVE IInv'
  OBVIOUS
<1>1. CASE Next
  <2>1. SessionsShaped'
    BY <1>1, SessionsStep DEF IInv
  <2> QED BY <1>1, <2>1, LocksStep, RowsStep, AtMostOneStep, IssuerClosesStep, ConsumerOpenStep,
             PasswordKeptStep DEF IInv, Shaped
<1>2. CASE UNCHANGED vars
  BY <1>2 DEF vars, rows, history, IInv, Shaped, RequestsShaped, RowsShaped, SessionsShaped,
     ClosingOfIssuers, UserExclusive, ResetsExclusive, IssuerCloses, ConsumerOpen, PasswordKept,
     AtMostOne, LockoutExact, OpenResets, HoldsUser, HeldResets, At
<1> QED BY <1>1, <1>2
-----------------------------------------------------------------------------
LEMMA Inductive == Spec => []IInv
BY InitInv, StepInv, PTL DEF Spec

\* No failed login is lost and none is counted twice, however many logins are in
\* flight, and the account is locked exactly when the limit is reached (auth.ts).
THEOREM CountsExactly == Spec => []LockoutExact
<1>1. IInv => LockoutExact
  BY DEF IInv
<1> QED BY <1>1, Inductive, PTL

\* However many administrators issue resets and however many links are used at the
\* same time, one reset at most is open (password-resets.ts).
THEOREM OneOpen == Spec => []OneOpenReset
<1>1. IInv => OneOpenReset
  <2> SUFFICES ASSUME IInv PROVE OneOpenReset
    OBVIOUS
  <2>1. CASE OpenResets = {}
    BY <2>1, FS_EmptySet DEF OneOpenReset
  <2>2. ASSUME NEW r \in OpenResets PROVE OneOpenReset
    <3>1. OpenResets = {r}
      BY <2>2 DEF IInv, AtMostOne
    <3> QED BY <3>1, FS_Singleton DEF OneOpenReset
  <2> QED BY <2>1, <2>2
<1> QED BY <1>1, Inductive, PTL

\* A password changes only for who knew it, or by a reset that the same commit closes
\* together with every session (account.ts, password-resets.ts).
THEOREM ChangesAuthorised == Spec => PasswordChanges
<1> DEFINE Authorised ==
      user.password' # user.password =>
        \E q \in Slots :
          /\ requests[q] # None
          /\ \/ requests[q].op = "password" /\ requests[q].brought = user.password
             \/ /\ requests[q].op = "consume"
                /\ requests[q].brought \in OpenResets
                /\ requests[q].brought \notin OpenResets'
                /\ \A s \in DOMAIN sessions : sessions'[s].revoked
<1>1. ASSUME IInv, Next PROVE Authorised
  <2>1. ASSUME NEW q \in Slots, ChangePassword(q) PROVE Authorised
    BY <1>1, <2>1 DEF ChangePassword, At, IInv, PasswordKept
  <2>2. ASSUME NEW q \in Slots, ConsumeWrite(q) PROVE Authorised
    <3>1. At(q, "consume", "write") /\ requests[q].brought \in OpenResets
      BY <1>1, <2>2 DEF ConsumeWrite, IInv, ConsumerOpen
    <3>2. requests[q].brought \notin OpenResets'
      BY <1>1, <2>2, Consumed
    <3>3. \A s \in DOMAIN sessions : sessions'[s].revoked
      BY <1>1, <2>2 DEF ConsumeWrite, RevokedSessions, IInv, SessionsShaped
    <3> QED BY <3>1, <3>2, <3>3 DEF At
  <2> QED BY <1>1, <2>1, <2>2, UserStep DEF IInv, Shaped
<1>2. IInv /\ [Next]_vars => [Authorised]_vars
  BY <1>1
<1> HIDE DEF Authorised
<1>3. Spec => [][Authorised]_vars
  BY <1>2, Inductive, PTL DEF Spec
<1> QED BY <1>3 DEF PasswordChanges, Authorised
-----------------------------------------------------------------------------
(* Sessions and recovery codes.                                            *)

SessionColumns == {"pending", "revoked", "expires", "challenge", "by"}

\* Tokens are numbered as they are drawn.
Numbered(S) == \E n \in Nat : S = 1..n

SessionsFormed ==
  /\ sessions = [s \in DOMAIN sessions |-> sessions[s]]
  /\ \A s \in DOMAIN sessions : DOMAIN sessions[s] = SessionColumns
  /\ Numbered(DOMAIN sessions)

\* Who proves the second factor of session s, or makes it needless.
FactorGiven(s) ==
  \/ \E q \in Slots : /\ requests[q] # None /\ requests[q].session = s
                      /\ requests[q].op \in {"challenge", "loginVerify"}
                      /\ requests[q].pc = "act"
  \/ ~user'.enrolled

\* Session t is opened, by a recovery code or by none.
Opens(by, t) ==
  /\ t \notin DOMAIN sessions
  /\ sessions' = [s \in DOMAIN sessions \cup {t} |-> IF s = t THEN sessions'[t] ELSE sessions[s]]
  /\ DOMAIN sessions'[t] = SessionColumns /\ sessions'[t].by = by
  /\ Numbered(DOMAIN sessions')

Keeps ==
  /\ sessions' = [s \in DOMAIN sessions |-> sessions'[s]]
  /\ \A s \in DOMAIN sessions :
       /\ DOMAIN sessions'[s] = SessionColumns
       /\ sessions'[s].by = sessions[s].by
       /\ sessions[s].pending /\ ~sessions'[s].pending => FactorGiven(s)

LEMMA NextNumber ==
  ASSUME NEW S, Numbered(S)
  PROVE  Cardinality(S) + 1 \notin S /\ Numbered(S \cup {Cardinality(S) + 1})
<1>1. PICK n \in Nat : S = 1..n
  BY DEF Numbered
<1>2. Cardinality(S) = n
  BY <1>1, FS_Interval
<1>3. S \cup {n + 1} = 1..(n + 1)
  BY <1>1
<1> QED BY <1>1, <1>2, <1>3 DEF Numbered

LEMMA OpenedNew ==
  ASSUME SessionsFormed, NEW pending, NEW by, OpenSession(pending, by)
  PROVE  \E t : Opens(by, t)
<1>1. PICK t : t = Cardinality(DOMAIN sessions) + 1
  OBVIOUS
<1>2. t \notin DOMAIN sessions /\ Numbered(DOMAIN sessions \cup {t})
  BY <1>1, NextNumber DEF SessionsFormed
<1>3. sessions' = [s \in DOMAIN sessions \cup {t} |->
         IF s = t THEN [pending |-> pending, revoked |-> FALSE, expires |-> clock + SessionTtl,
                        challenge |-> None, by |-> by]
         ELSE sessions[s]]
  BY <1>1 DEF OpenSession
<1> QED BY <1>2, <1>3 DEF Opens, SessionColumns

\* A step keeps the sessions, or opens one: after a login, or for an unused code.
LEMMA SessionStep ==
  ASSUME Shaped, SessionsFormed, Next
  PROVE  \/ Keeps
         \/ \E q \in Slots : \E t : LoginOpens(q) /\ Opens(None, t)
         \/ \E q \in Slots : \E t :
              Recover(q) /\ Consumable(requests[q].brought) /\ Opens(requests[q].brought, t)
<1> USE DEF SessionsFormed, SessionColumns
<1>1. ASSUME UNCHANGED sessions PROVE Keeps
  BY <1>1 DEF Keeps
<1>2. ASSUME sessions' = RevokedSessions PROVE Keeps
  BY <1>2 DEF RevokedSessions, Keeps
<1>3. ASSUME NEW s, NEW value,
             \/ sessions' = [sessions EXCEPT ![s].revoked = TRUE]
             \/ sessions' = [sessions EXCEPT ![s].challenge = value]
      PROVE  Keeps
  BY <1>3 DEF Keeps
<1>4. ASSUME NEW q \in Slots, TotpChallenge(q) PROVE Keeps
  <2>1. FactorGiven(requests[q].session)
    BY <1>4 DEF TotpChallenge, At, FactorGiven
  <2> QED BY <1>4, <2>1 DEF TotpChallenge, Completed, Keeps
<1>5. ASSUME NEW q \in Slots, WebauthnLogin(q) PROVE Keeps
  <2>1. FactorGiven(requests[q].session)
    BY <1>5 DEF WebauthnLogin, At, FactorGiven
  <2> DEFINE completed == Completed(requests[q].session)
  <2>2. /\ completed = [s \in DOMAIN sessions |-> completed[s]]
        /\ \A s \in DOMAIN sessions :
             /\ DOMAIN completed[s] = SessionColumns
             /\ completed[s].by = sessions[s].by
             /\ s # requests[q].session => completed[s].pending = sessions[s].pending
    BY DEF Completed
  <2>3. sessions' = [completed EXCEPT ![requests[q].session].challenge = None]
    BY <1>5 DEF WebauthnLogin
  <2> HIDE DEF completed
  <2> QED BY <2>1, <2>2, <2>3 DEF Keeps
<1>6. ASSUME NEW q \in Slots, Disable(q) PROVE Keeps
  <2>1. ~user'.enrolled
    BY <1>6 DEF Disable, Shaped, RowsShaped
  <2>2. \A s : FactorGiven(s)
    BY <2>1 DEF FactorGiven
  <2> QED BY <1>6, <2>2 DEF Disable, Keeps
<1>7. ASSUME NEW q \in Slots, LoginOpens(q) PROVE \E t : Opens(None, t)
  BY <1>7, OpenedNew DEF LoginOpens
<1>8. ASSUME NEW q \in Slots, Recover(q)
      PROVE  Keeps \/ (Consumable(requests[q].brought) /\ \E t : Opens(requests[q].brought, t))
  BY <1>1, <1>8, OpenedNew DEF Recover
<1>9. ASSUME NEW q \in Slots,
             \/ Logout(q) \/ RegisterOptions(q) \/ LoginOptions(q) \/ WebauthnRegister(q)
             \/ ConsumeWrite(q)
      PROVE  Keeps
  BY <1>1, <1>2, <1>3, <1>9 DEF Logout, RegisterOptions, LoginOptions, WebauthnRegister, ConsumeWrite
<1>10. ASSUME NEW q \in Slots,
             \/ IssueClose(q) \/ IssueCommit(q) \/ Victim(q) \/ ChangeLock(q) \/ ChangePassword(q)
             \/ LoginFails(q) \/ Enroll(q) \/ TotpLook(q) \/ TotpVerify(q) \/ Regenerate(q)
             \/ DisableLook(q) \/ WebauthnLook(q)
             \/ LoginArrives(q) \/ RecoverArrives(q) \/ Arrives(q) \/ IssueLock(q) \/ ConsumeLock(q)
      PROVE  UNCHANGED sessions
  BY <1>10 DEF IssueClose, IssueCommit, Victim, ChangeLock, ChangePassword, LoginFails, Enroll,
     TotpLook, TotpVerify, Regenerate, DisableLook, WebauthnLook, LoginArrives, RecoverArrives,
     Arrives, IssueLock, ConsumeLock, rows
<1>11. CASE Tick \/ RevokeAll
  BY <1>1, <1>2, <1>11 DEF Tick, RevokeAll, rows
<1> QED BY <1>1, <1>4, <1>5, <1>6, <1>7, <1>8, <1>9, <1>10, <1>11 DEF Next, Progress

\* A code is used up, dies with its batch, or has just been drawn.
LEMMA CodeStep ==
  ASSUME Next, NEW c \in DOMAIN codes'
  PROVE  c \in FreshCodes \/ (c \in DOMAIN codes /\ (codes[c] => codes'[c]))
<1>1. CASE UNCHANGED codes
  BY <1>1
<1>2. ASSUME NEW q \in Slots, Recover(q) \/ Disable(q)
      PROVE  c \in DOMAIN codes /\ (codes[c] => codes'[c])
  BY <1>1, <1>2 DEF Recover, Disable
<1>3. ASSUME NEW q \in Slots, Regenerate(q) PROVE c \in FreshCodes
  BY <1>3 DEF Regenerate
<1>4. ASSUME NEW q \in Slots,
             \/ LoginArrives(q) \/ RecoverArrives(q) \/ Arrives(q) \/ IssueLock(q) \/ ConsumeLock(q)
      PROVE  UNCHANGED codes
  BY <1>4 DEF LoginArrives, RecoverArrives, Arrives, IssueLock, ConsumeLock, rows
<1>5. ASSUME NEW q \in Slots, Progress(q), ~Recover(q), ~Disable(q), ~Regenerate(q)
      PROVE  UNCHANGED codes
  BY <1>5 DEF Progress, IssueClose, IssueCommit, ConsumeWrite, Victim, ChangeLock, ChangePassword,
     LoginFails, LoginOpens, Logout, Enroll, TotpLook, TotpVerify, TotpChallenge, DisableLook,
     RegisterOptions, LoginOptions, WebauthnLook, WebauthnRegister, WebauthnLogin, rows
<1>6. Tick \/ RevokeAll => UNCHANGED codes
  BY DEF Tick, RevokeAll, rows
<1> QED BY <1>1, <1>2, <1>3, <1>4, <1>5, <1>6 DEF Next

\* The inductive invariant of the sessions: what RecoveryOnce says, and the shape it needs.
SessionInv == IInv /\ SessionsFormed /\ RecoveryOnce

LEMMA SessionInit == Init => SessionInv
<1> SUFFICES ASSUME Init PROVE SessionInv
  OBVIOUS
<1>1. DOMAIN sessions = {} /\ sessions = [s \in DOMAIN sessions |-> sessions[s]]
  BY DEF Init
<1>2. Numbered({})
  <2>1. {} = 1..0
    OBVIOUS
  <2> QED BY <2>1 DEF Numbered
<1>3. SessionsFormed
  BY <1>1, <1>2 DEF SessionsFormed
<1>4. RecoveryOnce
  BY <1>1 DEF RecoveryOnce
<1> QED BY <1>3, <1>4, InitInv DEF SessionInv

LEMMA OnceStep ==
  ASSUME SessionInv, Next
  PROVE  RecoveryOnce'
<1>0. /\ Shaped /\ SessionsFormed
      /\ \A s \in DOMAIN sessions : sessions[s].by \notin FreshCodes
  BY DEF SessionInv, IInv, FreshCodes
<1>1. ASSUME NEW s \in DOMAIN sessions, sessions[s].by # None, sessions[s].by \in DOMAIN codes'
      PROVE  codes'[sessions[s].by]
  BY <1>0, <1>1, CodeStep DEF SessionInv, RecoveryOnce
<1>2. CASE Keeps
  BY <1>1, <1>2 DEF Keeps, SessionInv, RecoveryOnce
<1>3. ASSUME NEW t, Opens(None, t) PROVE RecoveryOnce'
  BY <1>1, <1>3 DEF Opens, SessionInv, RecoveryOnce
<1>4. ASSUME NEW q \in Slots, NEW t, Recover(q), Consumable(requests[q].brought),
             Opens(requests[q].brought, t)
      PROVE  RecoveryOnce'
  <2> DEFINE c == requests[q].brought
  <2>1. c \in DOMAIN codes /\ ~codes[c]
    BY <1>4 DEF Consumable
  <2>2. \A s \in DOMAIN sessions : sessions[s].by # None => sessions[s].by # c
    BY <2>1 DEF SessionInv, RecoveryOnce
  <2>3. codes'[c]
    BY <1>4, <2>1 DEF Recover
  <2> HIDE DEF c
  <2>4. /\ DOMAIN sessions' = DOMAIN sessions \cup {t} /\ t \notin DOMAIN sessions
        /\ sessions'[t].by = c /\ \A s \in DOMAIN sessions : sessions'[s] = sessions[s]
    BY <1>4 DEF Opens, c
  <2> QED BY <1>1, <2>2, <2>3, <2>4 DEF SessionInv, RecoveryOnce
<1> QED BY <1>0, <1>2, <1>3, <1>4, SessionStep

LEMMA FormedStep ==
  ASSUME Shaped, SessionsFormed, Next
  PROVE  SessionsFormed'
<1>1. CASE Keeps
  BY <1>1 DEF Keeps, SessionsFormed
<1>2. ASSUME NEW by, NEW t, Opens(by, t) PROVE SessionsFormed'
  BY <1>2 DEF Opens, SessionsFormed
<1> QED BY <1>1, <1>2, SessionStep

LEMMA SessionNext == SessionInv /\ [Next]_vars => SessionInv'
<1> SUFFICES ASSUME SessionInv, [Next]_vars PROVE SessionInv'
  OBVIOUS
<1>1. CASE Next
  BY <1>1, StepInv, OnceStep, FormedStep DEF SessionInv, IInv
<1>2. CASE UNCHANGED vars
  <2>1. IInv'
    BY StepInv DEF SessionInv
  <2>2. UNCHANGED <<sessions, codes>>
    BY <1>2 DEF vars, rows
  <2> QED BY <2>1, <2>2 DEF SessionInv, SessionsFormed, RecoveryOnce
<1> QED BY <1>1, <1>2

LEMMA SessionsSafe == Spec => []SessionInv
BY SessionInit, SessionNext, PTL DEF Spec

\* However many requests bring the same code at the same time, it opens one session at
\* most and is used up by then; a new batch draws no code that opened one (recovery.ts).
THEOREM OpensOnce == Spec => []RecoveryOnce
<1>1. SessionInv => RecoveryOnce
  BY DEF SessionInv
<1> QED BY <1>1, SessionsSafe, PTL

\* No step of any number of requests lets a session past its second factor but its own
\* proof of one, or the factor being switched off (totp.ts, webauthn-login.ts).
THEOREM FactorAlwaysFirst == Spec => FactorFirst
<1> DEFINE First == \A s \in DOMAIN sessions :
                      sessions[s].pending /\ ~sessions'[s].pending => FactorGiven(s)
<1>1. ASSUME SessionInv, Next PROVE First
  <2>1. Shaped /\ SessionsFormed
    BY <1>1 DEF SessionInv, IInv
  <2>2. ASSUME NEW by, NEW t, Opens(by, t) PROVE First
    BY <2>2 DEF Opens
  <2>3. CASE Keeps
    BY <2>3 DEF Keeps
  <2> QED BY <1>1, <2>1, <2>2, <2>3, SessionStep
<1>2. SessionInv /\ [Next]_vars => [First]_vars
  BY <1>1
<1> HIDE DEF First
<1>3. Spec => [][First]_vars
  BY <1>2, SessionsSafe, PTL DEF Spec
<1> QED BY <1>3 DEF FactorFirst, First, FactorGiven
-----------------------------------------------------------------------------
(* Types.                                                                  *)

\* What a request carries that a later step of it relies on.
RequestsKnow ==
  \A q \in Slots : requests[q] # None =>
    /\ requests[q].op = "login" => requests[q].seen \in Seen
    /\ requests[q].op = "recover" => requests[q].brought \in Codes
    /\ requests[q].op = "issue" => requests[q].pc # "look"

\* The bounds hold tokens back for the requests that may still draw one.
TokensReserved ==
  /\ IsFiniteSet(Opening)
  /\ Cardinality(DOMAIN sessions) + Cardinality(Opening) <= MaxTokens
ResetsReserved ==
  /\ Numbered(DOMAIN resets)
  /\ \A q \in Slots :
       requests[q] # None /\ requests[q].op = "issue" => DOMAIN resets # Resets

TypeInv == SessionInv /\ TypeOK /\ RequestsKnow /\ TokensReserved /\ ResetsReserved

\* What request q may be after a step: only arrivals reserve a token or a reset.
Becomes(q, r) ==
  /\ requests' = [requests EXCEPT ![q] = r]
  /\ r # None =>
       /\ r.op = "login" => /\ r.seen \in Seen
                            /\ r.brought = r.seen.password => TokensLeft /\ UNCHANGED sessions
       /\ r.op = "recover" => r.brought \in Codes /\ TokensLeft /\ UNCHANGED sessions
       /\ r.op = "issue" => DOMAIN resets # Resets /\ UNCHANGED resets /\ r.pc # "look"

LEMMA ArrivedType ==
  ASSUME NEW op \in Ops, NEW session \in Tokens \cup {None},
         NEW brought \in Passwords \cup Codes \cup Resets \cup {None}
  PROVE  /\ Arrived(op, session, brought) \in Request
         /\ Arrived(op, session, brought).op = op
         /\ Arrived(op, session, brought).brought = brought
BY DEF Arrived, Request

LEMMA PcType ==
  ASSUME NEW r \in Request, NEW pc \in {"look", "act", "write"}
  PROVE  /\ [r EXCEPT !.pc = pc] \in Request
         /\ [r EXCEPT !.pc = pc].op = r.op /\ [r EXCEPT !.pc = pc].brought = r.brought
BY DEF Request

LEMMA SeenType ==
  ASSUME NEW r \in Request, NEW seen \in Seen
  PROVE  /\ [r EXCEPT !.seen = seen] \in Request
         /\ [r EXCEPT !.seen = seen].op = r.op /\ [r EXCEPT !.seen = seen].brought = r.brought
         /\ [r EXCEPT !.seen = seen].seen = seen
BY DEF Request

\* A request is new, ends, or goes on with what it brought.
LEMMA RequestTypes ==
  ASSUME TypeInv, Next
  PROVE  requests' = requests \/ \E q \in Slots : \E r \in Request \cup {None} : Becomes(q, r)
<1>0. /\ requests \in [Slots -> Request \cup {None}] /\ user \in User
      /\ DOMAIN codes \subseteq Codes /\ OpenResets \subseteq Resets
      /\ clock \in Nat
      /\ \A s \in DOMAIN sessions : sessions[s] \in Session
  BY AccountDurations DEF TypeInv, TypeOK, OpenResets
<1> DEFINE Goal(q) == \E r \in Request \cup {None} : Becomes(q, r)
<1>1. Tick \/ RevokeAll => requests' = requests
  BY DEF Tick, RevokeAll
<1>2. ASSUME NEW q \in Slots, Ends(q) PROVE Goal(q)
  BY <1>2 DEF Ends, Set, Becomes
<1>3. ASSUME NEW q \in Slots, LoginArrives(q) PROVE requests' = requests \/ Goal(q)
  <2>1. CASE requests' = requests
    BY <2>1
  <2>2. CASE ~(requests' = requests)
    <3>1. PICK password \in Passwords :
            /\ password = user.password => TokensLeft
            /\ Set(q, [Arrived("login", None, password) EXCEPT !.pc = "act", !.seen = UserRead])
      BY <1>3, <2>2 DEF LoginArrives
    <3>2. UserRead \in Seen /\ UserRead.password = user.password
      BY <1>0 DEF UserRead, Seen, User
    <3>3. PICK r \in Request : /\ Set(q, r) /\ r.op = "login"
                               /\ r.seen = UserRead /\ r.brought = password
      <4> DEFINE acting == [Arrived("login", None, password) EXCEPT !.pc = "act"]
                 new == [acting EXCEPT !.seen = UserRead]
      <4>1. acting \in Request /\ acting.op = "login" /\ acting.brought = password
        <5>1. /\ Arrived("login", None, password) \in Request
              /\ Arrived("login", None, password).op = "login"
              /\ Arrived("login", None, password).brought = password
          <6>1. "login" \in Ops /\ password \in Passwords \cup Codes \cup Resets \cup {None}
            BY <1>3 DEF LoginArrives
          <6> QED BY <6>1, ArrivedType
        <5> QED BY <5>1, PcType
      <4>2. new = [Arrived("login", None, password) EXCEPT !.pc = "act", !.seen = UserRead]
        OBVIOUS
      <4> HIDE DEF acting
      <4>3. /\ new \in Request /\ new.op = "login"
            /\ new.seen = UserRead /\ new.brought = password
        BY <3>2, <4>1, SeenType
      <4> HIDE DEF new
      <4> QED BY <3>1, <4>2, <4>3
    <3> QED BY <1>3, <3>1, <3>2, <3>3 DEF Set, Becomes, LoginArrives, rows
  <2> QED BY <2>1, <2>2
<1>4. ASSUME NEW q \in Slots, RecoverArrives(q) PROVE Goal(q)
  <2>1. PICK c \in DOMAIN codes : Set(q, [Arrived("recover", None, c) EXCEPT !.pc = "act"])
    BY <1>4 DEF RecoverArrives
  <2>2. PICK r \in Request : Set(q, r) /\ r.op = "recover" /\ r.brought = c
    <3>1. /\ Arrived("recover", None, c) \in Request
          /\ Arrived("recover", None, c).op = "recover" /\ Arrived("recover", None, c).brought = c
      BY <1>0, <1>4, ArrivedType DEF RecoverArrives
    <3> QED BY <2>1, <3>1, PcType, ZenonT(30)
  <2> QED BY <1>0, <1>4, <2>2 DEF Set, Becomes, RecoverArrives, rows
<1>5. ASSUME NEW q \in Slots, Arrives(q) PROVE Goal(q)
  <2>1. PICK op \in SessionRoutes \cap Ops, s \in Tokens, password \in Passwords \cup {None} :
          /\ s \in DOMAIN sessions
          /\ Set(q, [Arrived(op, s, password) EXCEPT !.pending = sessions[s].pending])
    BY <1>5 DEF Arrives, Authenticated, Live
  <2>2. sessions[s].pending \in BOOLEAN
    BY <1>0, <2>1 DEF Session
  <2>3. PICK r \in Request : Set(q, r) /\ r.op = op
    <3> DEFINE new == [Arrived(op, s, password) EXCEPT !.pending = sessions[s].pending]
    <3>1. new \in Request /\ new.op = op
      BY <2>1, <2>2 DEF Arrived, Request
    <3> HIDE DEF new
    <3> QED BY <2>1, <3>1 DEF new
  <2> QED BY <2>3 DEF Set, Becomes, SessionRoutes, PendingRoutes
<1>6. ASSUME NEW q \in Slots, NEW pc \in {"look", "act", "write"}, NEW step \in Nat,
             NEW closing \in SUBSET Resets,
             requests[q] # None, requests[q].op \notin {"login", "recover"},
             requests[q].op = "issue" => UNCHANGED resets /\ pc = "write",
             Set(q, [requests[q] EXCEPT !.pc = pc, !.step = step, !.closing = closing])
      PROVE  Goal(q)
  <2>1. PICK r \in Request : Set(q, r) /\ r.op = requests[q].op /\ r.pc = pc
    <3> DEFINE new == [requests[q] EXCEPT !.pc = pc, !.step = step, !.closing = closing]
    <3>1. requests[q] \in Request
      BY <1>0, <1>6
    <3>2. new \in Request /\ new.op = requests[q].op /\ new.pc = pc
      BY <3>1 DEF Request
    <3> HIDE DEF new
    <3> QED BY <1>6, <3>2 DEF new
  <2> QED BY <1>6, <2>1 DEF Set, Becomes, TypeInv, ResetsReserved
<1>7. ASSUME NEW q \in Slots, NEW pc \in {"look", "act", "write"},
             requests[q] # None, requests[q].op \notin {"login", "recover", "issue"},
             Set(q, [requests[q] EXCEPT !.pc = pc])
      PROVE  Goal(q)
  <2>1. requests[q] \in Request
    BY <1>0, <1>7
  <2>2. /\ [requests[q] EXCEPT !.pc = pc]
             = [requests[q] EXCEPT !.pc = pc, !.step = requests[q].step,
                                   !.closing = requests[q].closing]
        /\ requests[q].step \in Nat /\ requests[q].closing \in SUBSET Resets
    BY <2>1 DEF Request
  <2> QED BY <1>6, <1>7, <2>2, ZenonT(30)
<1>8. ASSUME NEW q \in Slots, TotpLook(q) PROVE Goal(q)
  <2>1. CASE Ends(q)
    BY <1>2, <2>1
  <2>2. CASE ~Ends(q)
    <3>1. PICK step \in CodeSteps : Set(q, [requests[q] EXCEPT !.pc = "act", !.step = step])
      BY <1>8, <2>2 DEF TotpLook
    <3>2. /\ requests[q] # None /\ requests[q].op \in {"verify", "challenge", "regenerate"}
          /\ requests[q] \in Request
      BY <1>0, <1>8 DEF TotpLook
    <3>3. [requests[q] EXCEPT !.pc = "act", !.step = step]
            = [requests[q] EXCEPT !.pc = "act", !.step = step, !.closing = requests[q].closing]
          /\ requests[q].closing \in SUBSET Resets
      BY <3>2 DEF Request
    <3>4. step \in Nat
      BY <1>0 DEF CodeSteps
    <3> QED BY <1>6, <3>1, <3>2, <3>3, <3>4
  <2> QED BY <2>1, <2>2
<1>9. ASSUME NEW q \in Slots, ChangeLock(q) \/ DisableLook(q) \/ WebauthnLook(q) PROVE Goal(q)
  <2>1. CASE Ends(q)
    BY <1>2, <2>1
  <2>2. CASE ~Ends(q)
    <3>1. PICK pc \in {"look", "act", "write"} : Set(q, [requests[q] EXCEPT !.pc = pc])
      BY <1>9, <2>2 DEF ChangeLock, DisableLook, WebauthnLook
    <3>2. requests[q] # None
          /\ requests[q].op \in {"password", "disable", "registerVerify", "loginVerify"}
      BY <1>9 DEF ChangeLock, DisableLook, WebauthnLook, At
    <3> QED BY <1>7, <3>1, <3>2
  <2> QED BY <2>1, <2>2
<1>10. ASSUME NEW q \in Slots, IssueLock(q) PROVE Goal(q)
  <2>1. PICK r \in Request : Set(q, r) /\ r.op = "issue" /\ r.pc = "act"
    <3>1. Arrived("issue", None, None) \in Request /\ Arrived("issue", None, None).op = "issue"
      BY <1>10, ArrivedType DEF IssueLock
    <3>2. Set(q, [Arrived("issue", None, None) EXCEPT !.pc = "act"])
      BY <1>10 DEF IssueLock
    <3>3. [Arrived("issue", None, None) EXCEPT !.pc = "act"].pc = "act"
      BY DEF Arrived
    <3> QED BY <3>1, <3>2, <3>3, PcType
  <2> QED BY <1>10, <2>1 DEF Set, Becomes, IssueLock, rows
<1>11. ASSUME NEW q \in Slots, IssueClose(q) PROVE Goal(q)
  <2>1. /\ requests[q] # None /\ requests[q].op = "issue" /\ requests[q] \in Request
        /\ UNCHANGED resets
        /\ Set(q, [requests[q] EXCEPT !.pc = "write", !.closing = OpenResets])
    BY <1>0, <1>11 DEF IssueClose, At, rows
  <2>2. [requests[q] EXCEPT !.pc = "write", !.closing = OpenResets]
          = [requests[q] EXCEPT !.pc = "write", !.step = requests[q].step, !.closing = OpenResets]
        /\ requests[q].step \in Nat
    BY <2>1 DEF Request
  <2>3. OpenResets \in SUBSET Resets
    BY <1>0
  <2> QED BY <1>6, <2>1, <2>2, <2>3
<1>12. ASSUME NEW q \in Slots, ConsumeLock(q) PROVE Goal(q)
  <2>1. PICK t \in OpenResets : Set(q, [Arrived("consume", None, t) EXCEPT !.pc = "write"])
    BY <1>12 DEF ConsumeLock
  <2>2. PICK r \in Request : Set(q, r) /\ r.op = "consume"
    <3>1. Arrived("consume", None, t) \in Request /\ Arrived("consume", None, t).op = "consume"
      BY <1>0, <1>12, ArrivedType DEF ConsumeLock
    <3> QED BY <2>1, <3>1, PcType
  <2> QED BY <2>2 DEF Set, Becomes
<1>13. ASSUME NEW q \in Slots, Progress(q)
       PROVE  \/ Ends(q) \/ TotpLook(q) \/ IssueClose(q)
              \/ ChangeLock(q) \/ DisableLook(q) \/ WebauthnLook(q)
  BY <1>13 DEF Progress, IssueCommit, ConsumeWrite, Victim, ChangePassword, LoginFails,
     LoginOpens, Recover, Logout, Enroll, TotpVerify, TotpChallenge, Regenerate,
     Disable, RegisterOptions, LoginOptions, WebauthnRegister, WebauthnLogin
<1> HIDE DEF Goal
<1>14. requests' = requests \/ \E q \in Slots : Goal(q)
  BY <1>1, <1>2, <1>3, <1>4, <1>5, <1>8, <1>9, <1>10, <1>11, <1>12, <1>13 DEF Next
<1> QED BY <1>14 DEF Goal

\* Who may draw a token did so before, or has arrived while there was one left.
LEMMA OpeningStep ==
  ASSUME TypeInv, Next
  PROVE  Opening' \subseteq Opening
         \/ (TokensLeft /\ UNCHANGED sessions /\ \E q \in Slots : Opening' \subseteq Opening \cup {q})
<1>1. CASE requests' = requests
  BY <1>1 DEF Opening
<1>2. ASSUME NEW q \in Slots, NEW r \in Request \cup {None}, Becomes(q, r)
      PROVE  Opening' \subseteq Opening
             \/ (TokensLeft /\ UNCHANGED sessions /\ Opening' \subseteq Opening \cup {q})
  <2>1. /\ requests'[q] = r
        /\ \A p \in Slots \ {q} : requests'[p] = requests[p]
    BY <1>2 DEF Becomes, TypeInv, TypeOK
  <2>2. Opening' \subseteq Opening \cup {q}
    BY <2>1 DEF Opening
  <2>3. q \in Opening' => TokensLeft /\ UNCHANGED sessions
    BY <1>2, <2>1 DEF Opening, Becomes
  <2> QED BY <2>2, <2>3
<1> QED BY <1>1, <1>2, RequestTypes

LEMMA NumberedSize ==
  ASSUME NEW S, Numbered(S)
  PROVE  IsFiniteSet(S) /\ Cardinality(S) \in Nat /\ S = 1..Cardinality(S)
<1>1. PICK n \in Nat : S = 1..n
  BY DEF Numbered
<1> QED BY <1>1, FS_Interval

LEMMA TokensStep ==
  ASSUME TypeInv, Next
  PROVE  TokensReserved'
<1>0. /\ IsFiniteSet(Opening) /\ Cardinality(Opening) \in Nat
      /\ IsFiniteSet(DOMAIN sessions) /\ Cardinality(DOMAIN sessions) \in Nat
      /\ Cardinality(DOMAIN sessions) + Cardinality(Opening) <= MaxTokens
      /\ MaxTokens \in Nat /\ Cardinality(Tokens) = MaxTokens
  <2>1. IsFiniteSet(Opening) /\ Cardinality(Opening) \in Nat
        /\ Cardinality(DOMAIN sessions) + Cardinality(Opening) <= MaxTokens
    BY FS_CardinalityType DEF TypeInv, TokensReserved
  <2>2. IsFiniteSet(DOMAIN sessions) /\ Cardinality(DOMAIN sessions) \in Nat
    BY NumberedSize DEF TypeInv, SessionInv, SessionsFormed
  <2>3. MaxTokens \in Nat /\ Cardinality(Tokens) = MaxTokens
    BY FS_Interval, AccountSets DEF Tokens
  <2> QED BY <2>1, <2>2, <2>3
<1>1. ASSUME DOMAIN sessions' = DOMAIN sessions PROVE TokensReserved'
  <2>1. CASE Opening' \subseteq Opening
    <3>1. IsFiniteSet(Opening') /\ Cardinality(Opening') <= Cardinality(Opening)
          /\ Cardinality(Opening') \in Nat
      BY <1>0, <2>1, FS_Subset, FS_CardinalityType
    <3> QED BY <1>0, <1>1, <3>1 DEF TokensReserved
  <2>2. ASSUME NEW q \in Slots, TokensLeft, Opening' \subseteq Opening \cup {q}
        PROVE  TokensReserved'
    <3>1. IsFiniteSet(Opening \cup {q})
          /\ Cardinality(Opening \cup {q}) <= Cardinality(Opening) + 1
          /\ Cardinality(Opening \cup {q}) \in Nat
      <4>1. IsFiniteSet(Opening \cup {q})
            /\ \/ Cardinality(Opening \cup {q}) = Cardinality(Opening)
               \/ Cardinality(Opening \cup {q}) = Cardinality(Opening) + 1
        BY <1>0, FS_AddElement
      <4> QED BY <1>0, <4>1
    <3>2. IsFiniteSet(Opening') /\ Cardinality(Opening') <= Cardinality(Opening \cup {q})
          /\ Cardinality(Opening') \in Nat
      BY <2>2, <3>1, FS_Subset, FS_CardinalityType
    <3> QED BY <1>0, <1>1, <2>2, <3>1, <3>2 DEF TokensReserved, TokensLeft
  <2> QED BY <2>1, <2>2, OpeningStep
<1>2. ASSUME NEW q \in Slots, NEW by, NEW t, LoginOpens(q) \/ Recover(q), Opens(by, t)
      PROVE  TokensReserved'
  <2>1. q \in Opening
    BY <1>2 DEF LoginOpens, Recover, At, Opening
  <2>2. requests'[q] = None /\ \A p \in Slots \ {q} : requests'[p] = requests[p]
    BY <1>2 DEF LoginOpens, Recover, Ends, Set, TypeInv, TypeOK
  <2>3. Opening' = Opening \ {q}
    BY <2>2 DEF Opening
  <2>4. IsFiniteSet(Opening') /\ Cardinality(Opening') = Cardinality(Opening) - 1
    BY <1>0, <2>1, <2>3, FS_RemoveElement
  <2>5. DOMAIN sessions' = DOMAIN sessions \cup {t} /\ t \notin DOMAIN sessions
    BY <1>2 DEF Opens
  <2>6. Cardinality(DOMAIN sessions') = Cardinality(DOMAIN sessions) + 1
    BY <1>0, <2>5, FS_AddElement
  <2> QED BY <1>0, <2>4, <2>6 DEF TokensReserved
<1>3. CASE Keeps
  BY <1>1, <1>3 DEF Keeps
<1> QED BY <1>2, <1>3, SessionStep DEF TypeInv, SessionInv, IInv

LEMMA ResetsReservedStep ==
  ASSUME TypeInv, Next
  PROVE  ResetsReserved'
<1>0. /\ Shaped /\ UserExclusive /\ ConsumerOpen /\ ResetsReserved
      /\ requests \in [Slots -> Request \cup {None}]
  BY DEF TypeInv, TypeOK, SessionInv, IInv
<1>1. ASSUME NEW q \in Slots, IssueCommit(q) PROVE ResetsReserved'
  <2>1. DOMAIN resets' = DOMAIN resets \cup {Cardinality(DOMAIN resets) + 1}
    BY <1>1 DEF IssueCommit
  <2>2. Numbered(DOMAIN resets')
    BY <1>0, <2>1, NextNumber DEF ResetsReserved
  <2>3. ASSUME NEW p \in Slots, requests'[p] # None, requests'[p].op = "issue" PROVE FALSE
    <3>1. p # q /\ requests'[p] = requests[p]
      BY <1>0, <1>1, <2>3 DEF IssueCommit, Ends, Set
    <3>2. HoldsUser(q) /\ At(q, "issue", "write")
      BY <1>1 DEF IssueCommit, HoldsUser, At
    <3>3. HoldsUser(p)
      BY <2>3, <3>1 DEF HoldsUser, TypeInv, RequestsKnow
    <3> QED BY <1>0, <2>3, <3>1, <3>2, <3>3 DEF UserExclusive
  <2> QED BY <2>2, <2>3 DEF ResetsReserved
<1>2. ASSUME DOMAIN resets' = DOMAIN resets PROVE ResetsReserved'
  <2>1. ASSUME NEW p \in Slots, requests'[p] # None, requests'[p].op = "issue"
        PROVE  DOMAIN resets # Resets
    <3>1. CASE requests' = requests
      BY <1>0, <2>1, <3>1 DEF ResetsReserved
    <3>2. ASSUME NEW q \in Slots, NEW r \in Request \cup {None}, Becomes(q, r)
          PROVE  DOMAIN resets # Resets
      BY <1>0, <2>1, <3>2 DEF Becomes, ResetsReserved
    <3> QED BY <3>1, <3>2, RequestTypes
  <2> QED BY <1>0, <1>2, <2>1 DEF ResetsReserved, Resets
<1>3. ASSUME NEW q \in Slots, ConsumeWrite(q) PROVE DOMAIN resets' = DOMAIN resets
  BY <1>3 DEF ConsumeWrite
<1> QED BY <1>1, <1>2, <1>3, ResetStep

LEMMA InstantTypes ==
  ASSUME clock \in 0..Horizon
  PROVE  /\ clock \in Nat /\ {clock, clock + Lockout, clock + SessionTtl, clock + ResetTtl} \subseteq Instants
         /\ clock \in 0..Horizon
BY AccountDurations DEF Instants

LEMMA RowTypes ==
  ASSUME NEW row \in Session, NEW value \in Instants \cup {None}
  PROVE  /\ [row EXCEPT !.revoked = TRUE] \in Session
         /\ [row EXCEPT !.pending = FALSE] \in Session
         /\ [row EXCEPT !.challenge = value] \in Session
BY DEF Session

LEMMA SessionTypes ==
  ASSUME TypeInv, Next
  PROVE  DOMAIN sessions' \subseteq Tokens /\ \A s \in DOMAIN sessions' : sessions'[s] \in Session
<1>0. /\ Shaped /\ SessionsFormed /\ user \in User /\ clock \in 0..Horizon
      /\ \A s \in DOMAIN sessions : sessions[s] \in Session
      /\ requests \in [Slots -> Request \cup {None}]
  BY DEF TypeInv, TypeOK, SessionInv, IInv
<1>1. DOMAIN sessions' \subseteq Tokens
  <2>1. TokensReserved' /\ Numbered(DOMAIN sessions')
    BY <1>0, TokensStep, FormedStep DEF SessionsFormed
  <2>2. /\ DOMAIN sessions' = 1..Cardinality(DOMAIN sessions')
        /\ Cardinality(DOMAIN sessions') \in Nat /\ Cardinality(Opening') \in Nat
        /\ Cardinality(DOMAIN sessions') + Cardinality(Opening') <= MaxTokens
    BY <2>1, NumberedSize, FS_CardinalityType DEF TokensReserved
  <2> QED BY <2>2, AccountSets DEF Tokens
<1> DEFINE Goal == \A s \in DOMAIN sessions' : sessions'[s] \in Session
<1>2. ASSUME UNCHANGED sessions PROVE Goal
  BY <1>0, <1>2
<1>3. ASSUME sessions' = RevokedSessions PROVE Goal
  BY <1>0, <1>3, ZenonT(30) DEF RevokedSessions, Session
<1>4. ASSUME NEW s, NEW value \in Instants \cup {None},
             \/ sessions' = [sessions EXCEPT ![s].revoked = TRUE]
             \/ sessions' = [sessions EXCEPT ![s].pending = FALSE]
             \/ sessions' = [sessions EXCEPT ![s].challenge = value]
      PROVE  Goal
  <2>1. CASE sessions' = [sessions EXCEPT ![s].revoked = TRUE]
    BY <1>0, <2>1, RowTypes DEF SessionsFormed
  <2>2. CASE sessions' = [sessions EXCEPT ![s].pending = FALSE]
    BY <1>0, <2>2, RowTypes DEF SessionsFormed
  <2>3. CASE sessions' = [sessions EXCEPT ![s].challenge = value]
    BY <1>0, <2>3, RowTypes DEF SessionsFormed
  <2> QED BY <1>4, <2>1, <2>2, <2>3
<1>5. ASSUME NEW q \in Slots, WebauthnLogin(q) PROVE Goal
  <2> DEFINE completed == Completed(requests[q].session)
  <2>1. /\ completed = [s \in DOMAIN sessions |-> completed[s]]
        /\ \A s \in DOMAIN sessions : completed[s] \in Session
    BY <1>0, ZenonT(30) DEF Completed, Session, SessionsFormed
  <2>2. sessions' = [completed EXCEPT ![requests[q].session].challenge = None]
    BY <1>5 DEF WebauthnLogin
  <2> HIDE DEF completed
  <2> QED BY <2>1, <2>2, SMTT(30) DEF Session
<1>6. ASSUME NEW q \in Slots, Disable(q) PROVE Goal
  BY <1>0, <1>6, ZenonT(30) DEF Disable, Session
<1>7. ASSUME NEW pending \in BOOLEAN, NEW by \in Codes \cup {None}, OpenSession(pending, by)
      PROVE  Goal
  <2>1. [pending |-> pending, revoked |-> FALSE, expires |-> clock + SessionTtl,
         challenge |-> None, by |-> by] \in Session
    BY <1>0, InstantTypes DEF Session
  <2> QED BY <1>0, <1>7, <2>1 DEF OpenSession
<1>8. ASSUME NEW q \in Slots, LoginOpens(q) PROVE Goal
  <2>1. requests[q].seen \in Seen
    BY <1>8 DEF LoginOpens, At, TypeInv, RequestsKnow
  <2>2. requests[q].seen.verified \in BOOLEAN
    BY <2>1 DEF Seen
  <2> QED BY <1>7, <1>8, <2>2 DEF LoginOpens
<1>9. ASSUME NEW q \in Slots, Recover(q) PROVE Goal
  <2>1. requests[q].brought \in Codes
    BY <1>9 DEF Recover, At, TypeInv, RequestsKnow
  <2> QED BY <1>2, <1>7, <1>9, <2>1 DEF Recover
<1>10. ASSUME NEW q \in Slots,
             \/ Logout(q) \/ RegisterOptions(q) \/ LoginOptions(q) \/ WebauthnRegister(q)
             \/ TotpChallenge(q) \/ ConsumeWrite(q)
       PROVE  Goal
  <2>1. clock \in Instants /\ None \in Instants \cup {None}
    BY <1>0, InstantTypes
  <2> HIDE DEF Goal
  <2> QED BY <1>2, <1>3, <1>4, <1>10, <2>1 DEF Logout, RegisterOptions, LoginOptions,
             WebauthnRegister, TotpChallenge, Completed, ConsumeWrite
<1>11. ASSUME NEW q \in Slots,
             \/ IssueClose(q) \/ IssueCommit(q) \/ Victim(q) \/ ChangeLock(q) \/ ChangePassword(q)
             \/ LoginFails(q) \/ Enroll(q) \/ TotpLook(q) \/ TotpVerify(q) \/ Regenerate(q)
             \/ DisableLook(q) \/ WebauthnLook(q)
             \/ LoginArrives(q) \/ RecoverArrives(q) \/ Arrives(q) \/ IssueLock(q) \/ ConsumeLock(q)
      PROVE  UNCHANGED sessions
  BY <1>11 DEF IssueClose, IssueCommit, Victim, ChangeLock, ChangePassword, LoginFails, Enroll,
     TotpLook, TotpVerify, Regenerate, DisableLook, WebauthnLook, LoginArrives, RecoverArrives,
     Arrives, IssueLock, ConsumeLock, rows
<1> HIDE DEF Goal
<1>12. Tick \/ RevokeAll => Goal
  BY <1>2, <1>3 DEF Tick, RevokeAll, rows
<1>13. Goal
  BY <1>2, <1>5, <1>6, <1>8, <1>9, <1>10, <1>11, <1>12 DEF Next, Progress
<1> QED BY <1>1, <1>13 DEF Goal

LEMMA UserTypes ==
  ASSUME TypeInv, Next
  PROVE  user' \in User
<1>0. /\ user \in User /\ clock \in 0..Horizon
      /\ requests \in [Slots -> Request \cup {None}]
  BY DEF TypeInv, TypeOK
<1>1. CASE UNCHANGED user
  BY <1>0, <1>1
<1>2. ASSUME NEW q \in Slots, LoginFails(q) PROVE user' \in User
  <2> DEFINE locked == IF user.failed + 1 >= MaxFailed THEN clock + Lockout ELSE user.lockedUntil
             counting == [user EXCEPT !.failed = @ + 1]
             new == [counting EXCEPT !.lockedUntil = locked]
  <2>1. locked \in Instants \cup {None}
    BY <1>0, InstantTypes DEF User
  <2>2. counting \in User /\ counting.lockedUntil = user.lockedUntil
    BY <1>0 DEF User
  <2>3. user' = new
    BY <1>0, <1>2 DEF LoginFails, FailureCounted, User
  <2> HIDE DEF locked, counting
  <2>4. new \in User
    BY <2>1, <2>2 DEF User
  <2> QED BY <2>3, <2>4
<1>3. ASSUME NEW q \in Slots, LoginOpens(q) PROVE user' \in User
  BY <1>0, <1>3 DEF LoginOpens, User
<1>8. ASSUME NEW q \in Slots, Enroll(q) PROVE user' \in User
  BY <1>0, <1>8 DEF Enroll, User
<1>9. ASSUME NEW q \in Slots, Disable(q) PROVE user' \in User
  BY <1>0, <1>9 DEF Disable, User
<1>4. ASSUME NEW q \in Slots, TotpVerify(q) \/ TotpChallenge(q) \/ Regenerate(q)
      PROVE  user' \in User
  <2>1. requests[q].step \in Nat
    BY <1>0, <1>4 DEF TotpVerify, TotpChallenge, Regenerate, At, Request
  <2> QED BY <1>0, <1>4, <2>1 DEF TotpVerify, TotpChallenge, Regenerate, User
<1>5. ASSUME NEW q \in Slots, ChangePassword(q) \/ ConsumeWrite(q) PROVE user' \in User
  BY <1>0, <1>5 DEF ChangePassword, ConsumeWrite, User
<1>6. ASSUME NEW q \in Slots,
             \/ IssueClose(q) \/ IssueCommit(q) \/ Victim(q) \/ ChangeLock(q) \/ Recover(q)
             \/ Logout(q) \/ TotpLook(q) \/ DisableLook(q)
             \/ RegisterOptions(q) \/ LoginOptions(q)
             \/ WebauthnLook(q) \/ WebauthnRegister(q) \/ WebauthnLogin(q)
             \/ LoginArrives(q) \/ RecoverArrives(q) \/ Arrives(q)
             \/ IssueLock(q) \/ ConsumeLock(q)
      PROVE  UNCHANGED user
  BY <1>6 DEF IssueClose, IssueCommit, Victim, ChangeLock, Recover, Logout, TotpLook,
     DisableLook, RegisterOptions, LoginOptions, WebauthnLook, WebauthnRegister, WebauthnLogin,
     LoginArrives, RecoverArrives, Arrives, IssueLock, ConsumeLock, rows
<1>7. Tick \/ RevokeAll => UNCHANGED user
  BY DEF Tick, RevokeAll, rows
<1> QED BY <1>1, <1>2, <1>3, <1>4, <1>5, <1>6, <1>7, <1>8, <1>9 DEF Next, Progress

LEMMA ResetTypes ==
  ASSUME TypeInv, Next
  PROVE  DOMAIN resets' \subseteq Resets /\ \A r \in DOMAIN resets' : resets'[r] \in Reset
<1>0. /\ DOMAIN resets \subseteq Resets /\ \A r \in DOMAIN resets : resets[r] \in Reset
      /\ requests \in [Slots -> Request \cup {None}]
      /\ clock + ResetTtl \in Instants
      /\ ResetsReserved /\ ConsumerOpen /\ resets = [r \in DOMAIN resets |-> resets[r]]
  BY InstantTypes DEF TypeInv, TypeOK, SessionInv, IInv, Shaped, RowsShaped
<1>1. ASSUME NEW q \in Slots, IssueCommit(q)
      PROVE  DOMAIN resets' \subseteq Resets /\ \A r \in DOMAIN resets' : resets'[r] \in Reset
  <2>1. PICK fresh : fresh = Cardinality(DOMAIN resets) + 1
    OBVIOUS
  <2>2. fresh \in Resets
    <3>1. DOMAIN resets # 1..MaxResets
      BY <1>0, <1>1 DEF IssueCommit, At, ResetsReserved, Resets
    <3>2. DOMAIN resets = 1..Cardinality(DOMAIN resets) /\ Cardinality(DOMAIN resets) \in Nat
      BY <1>0, NumberedSize DEF ResetsReserved
    <3> QED BY <1>0, <2>1, <3>1, <3>2, AccountSets DEF Resets
  <2>3. resets' = [r \in DOMAIN resets \cup {fresh} |->
          IF r = fresh THEN [consumed |-> FALSE, expires |-> clock + ResetTtl]
          ELSE [resets[r] EXCEPT !.consumed = @ \/ r \in requests[q].closing]]
    BY <1>1, <2>1 DEF IssueCommit
  <2> QED BY <1>0, <2>2, <2>3 DEF Reset
<1>2. ASSUME NEW q \in Slots, ConsumeWrite(q)
      PROVE  DOMAIN resets' \subseteq Resets /\ \A r \in DOMAIN resets' : resets'[r] \in Reset
  BY <1>0, <1>2 DEF ConsumeWrite, Reset
<1> QED BY <1>0, <1>1, <1>2, ResetStep

LEMMA CodeTypes ==
  ASSUME TypeInv, Next
  PROVE  DOMAIN codes' \subseteq Codes /\ \A c \in DOMAIN codes' : codes'[c] \in BOOLEAN
<1>0. DOMAIN codes \subseteq Codes /\ \A c \in DOMAIN codes : codes[c] \in BOOLEAN
  BY DEF TypeInv, TypeOK
<1>1. ASSUME NEW q \in Slots, Recover(q) \/ Regenerate(q) \/ Disable(q)
      PROVE  \A c \in DOMAIN codes' : codes'[c] \in BOOLEAN
  BY <1>0, <1>1 DEF Recover, Regenerate, Disable
<1>2. ASSUME NEW q \in Slots,
             \/ IssueClose(q) \/ IssueCommit(q) \/ ConsumeWrite(q) \/ Victim(q)
             \/ ChangeLock(q) \/ ChangePassword(q) \/ LoginFails(q) \/ LoginOpens(q)
             \/ Logout(q) \/ Enroll(q) \/ TotpLook(q) \/ TotpVerify(q) \/ TotpChallenge(q)
             \/ DisableLook(q) \/ RegisterOptions(q) \/ LoginOptions(q) \/ WebauthnLook(q)
             \/ WebauthnRegister(q) \/ WebauthnLogin(q)
             \/ LoginArrives(q) \/ RecoverArrives(q) \/ Arrives(q) \/ IssueLock(q) \/ ConsumeLock(q)
      PROVE  UNCHANGED codes
  BY <1>2 DEF IssueClose, IssueCommit, ConsumeWrite, Victim, ChangeLock, ChangePassword,
     LoginFails, LoginOpens, Logout, Enroll, TotpLook, TotpVerify, TotpChallenge, DisableLook,
     RegisterOptions, LoginOptions, WebauthnLook, WebauthnRegister, WebauthnLogin, LoginArrives,
     RecoverArrives, Arrives, IssueLock, ConsumeLock, rows
<1>3. Tick \/ RevokeAll => UNCHANGED codes
  BY DEF Tick, RevokeAll, rows
<1>4. \A c \in DOMAIN codes' : codes'[c] \in BOOLEAN
  BY <1>0, <1>1, <1>2, <1>3 DEF Next, Progress
<1>5. DOMAIN codes' \subseteq Codes
  BY <1>0, CodeStep DEF FreshCodes
<1> QED BY <1>4, <1>5

\* The limiter is asked by logins only.
LEMMA LimiterKept ==
  ASSUME TypeInv, Next, \A q \in Slots : ~LoginArrives(q)
  PROVE  /\ UNCHANGED <<bucket, admitted>> /\ credential' \in BOOLEAN
         /\ clock' \in 0..Horizon /\ clock' >= clock
<1>0. /\ clock \in 0..Horizon /\ credential \in BOOLEAN /\ clock \in Int
  BY AccountDurations DEF TypeInv, TypeOK
<1>1. ASSUME NEW q \in Slots, WebauthnRegister(q)
      PROVE  UNCHANGED <<clock, bucket, admitted>> /\ credential' \in BOOLEAN
  BY <1>1 DEF WebauthnRegister, history
<1>2. ASSUME NEW q \in Slots,
             \/ IssueClose(q) \/ IssueCommit(q) \/ ConsumeWrite(q) \/ Victim(q)
             \/ ChangeLock(q) \/ ChangePassword(q) \/ LoginFails(q) \/ LoginOpens(q) \/ Recover(q)
             \/ Logout(q) \/ Enroll(q) \/ TotpLook(q) \/ TotpVerify(q) \/ TotpChallenge(q)
             \/ Regenerate(q) \/ DisableLook(q) \/ Disable(q) \/ RegisterOptions(q)
             \/ LoginOptions(q) \/ WebauthnLook(q) \/ WebauthnLogin(q)
             \/ RecoverArrives(q) \/ Arrives(q) \/ IssueLock(q) \/ ConsumeLock(q)
      PROVE  UNCHANGED <<clock, bucket, admitted, credential>>
  BY <1>2 DEF IssueClose, IssueCommit, ConsumeWrite, Victim, ChangeLock, ChangePassword,
     LoginFails, LoginOpens, Recover, Logout, Enroll, TotpLook, TotpVerify, TotpChallenge,
     Regenerate, DisableLook, Disable, RegisterOptions, LoginOptions, WebauthnLook,
     WebauthnLogin, RecoverArrives, Arrives, IssueLock, ConsumeLock, rows, history
<1>3. RevokeAll => UNCHANGED <<clock, bucket, admitted, credential>>
  BY DEF RevokeAll, history
<1>4. Tick => /\ UNCHANGED <<bucket, admitted, credential>>
              /\ clock' \in 0..Horizon /\ clock' >= clock
  BY <1>0, AccountDurations DEF Tick, rows, history
<1>5. \/ \E q \in Slots :
           \/ WebauthnRegister(q)
           \/ IssueClose(q) \/ IssueCommit(q) \/ ConsumeWrite(q) \/ Victim(q)
           \/ ChangeLock(q) \/ ChangePassword(q) \/ LoginFails(q) \/ LoginOpens(q) \/ Recover(q)
           \/ Logout(q) \/ Enroll(q) \/ TotpLook(q) \/ TotpVerify(q) \/ TotpChallenge(q)
           \/ Regenerate(q) \/ DisableLook(q) \/ Disable(q) \/ RegisterOptions(q)
           \/ LoginOptions(q) \/ WebauthnLook(q) \/ WebauthnLogin(q)
           \/ RecoverArrives(q) \/ Arrives(q) \/ IssueLock(q) \/ ConsumeLock(q)
      \/ RevokeAll \/ Tick
  BY DEF Next, Progress
<1>6. UNCHANGED clock => clock' \in 0..Horizon /\ clock' >= clock
  BY <1>0
<1> QED BY <1>0, <1>1, <1>2, <1>3, <1>4, <1>5, <1>6

LEMMA LimiterTypes ==
  ASSUME TypeInv, Next
  PROVE  /\ clock' \in 0..Horizon
         /\ bucket' \in [count : 1..LoginMax, start : 0..Horizon] \cup {None}
         /\ admitted' \in [0..Horizon -> Nat]
         /\ credential' \in BOOLEAN
<1>0. /\ clock \in 0..Horizon /\ admitted \in [0..Horizon -> Nat] /\ credential \in BOOLEAN
      /\ bucket \in [count : 1..LoginMax, start : 0..Horizon] \cup {None}
  BY DEF TypeInv, TypeOK
<1>1. ASSUME NEW q \in Slots, LoginArrives(q)
      PROVE  /\ bucket' \in [count : 1..LoginMax, start : 0..Horizon] \cup {None}
             /\ admitted' \in [0..Horizon -> Nat]
             /\ UNCHANGED <<clock, credential>>
  <2>1. UNCHANGED <<clock, credential>> /\ bucket' = Counted(clock) /\ Admits(clock)
    BY <1>1 DEF LoginArrives, rows
  <2>2. admitted' \in [0..Horizon -> Nat]
    <3>1. admitted' = [admitted EXCEPT ![clock] = @ + 1]
      BY <1>1 DEF LoginArrives
    <3> QED BY <1>0, <3>1
  <2>3. CASE WindowOver(clock)
    <3>1. bucket' = [count |-> 1, start |-> clock]
      BY <2>1, <2>3 DEF Counted
    <3> QED BY <1>0, <2>1, <2>2, <3>1, AccountDurations
  <2>4. CASE ~WindowOver(clock)
    <3>1. /\ bucket \in [count : 1..LoginMax, start : 0..Horizon] /\ bucket.count < LoginMax
          /\ bucket' = [bucket EXCEPT !.count = @ + 1]
      BY <1>0, <2>1, <2>4 DEF Admits, WindowOver, Counted
    <3>2. bucket' \in [count : 1..LoginMax, start : 0..Horizon]
      BY <3>1, AccountDurations
    <3> QED BY <2>1, <2>2, <3>2
  <2> QED BY <2>3, <2>4
<1> QED BY <1>0, <1>1, LimiterKept

LEMMA RequestsStep ==
  ASSUME TypeInv, Next
  PROVE  requests' \in [Slots -> Request \cup {None}] /\ RequestsKnow'
<1>0. requests \in [Slots -> Request \cup {None}] /\ RequestsKnow
  BY DEF TypeInv, TypeOK
<1>1. ASSUME NEW q \in Slots, NEW r \in Request \cup {None}, Becomes(q, r)
      PROVE  requests' \in [Slots -> Request \cup {None}] /\ RequestsKnow'
  BY <1>0, <1>1 DEF Becomes, RequestsKnow
<1>2. CASE requests' = requests
  BY <1>0, <1>2 DEF RequestsKnow
<1> QED BY <1>1, <1>2, RequestTypes

LEMMA TypeInit == Init => TypeInv
<1> SUFFICES ASSUME Init PROVE TypeInv
  OBVIOUS
<1>1. \A q \in Slots : requests[q] = None
  BY DEF Init
<1>2. /\ DOMAIN sessions = {} /\ DOMAIN resets = {} /\ Opening = {}
  BY <1>1 DEF Init, Opening
<1>3. IsFiniteSet({}) /\ Cardinality({}) = 0
  BY FS_EmptySet
<1>4. TokensReserved /\ ResetsReserved /\ RequestsKnow
  <2>1. {} = 1..0
    OBVIOUS
  <2> QED BY <1>1, <1>2, <1>3, <2>1, AccountSets
          DEF TokensReserved, ResetsReserved, RequestsKnow, Numbered
<1>5. user \in User /\ 0 \in Nat
  BY AccountSets DEF Init, User
<1>6. TypeOK
  <2>1. /\ requests \in [Slots -> Request \cup {None}] /\ bucket = None
        /\ codes = [c \in {} |-> FALSE] /\ DOMAIN codes = {}
        /\ credential \in BOOLEAN /\ failures \in Nat
    BY DEF Init
  <2>2. clock \in 0..Horizon /\ admitted \in [0..Horizon -> Nat]
    BY AccountDurations DEF Init
  <2> QED BY <1>2, <1>5, <2>1, <2>2 DEF TypeOK
<1> QED BY <1>4, <1>6, SessionInit DEF TypeInv

LEMMA TypeNext == TypeInv /\ [Next]_vars => TypeInv'
<1> SUFFICES ASSUME TypeInv, [Next]_vars PROVE TypeInv'
  OBVIOUS
<1>1. SessionInv'
  BY SessionNext DEF TypeInv
<1>2. CASE Next
  <2>1. failures' \in Nat
    BY <1>1 DEF SessionInv, IInv, Shaped, RowsShaped, LockoutExact
  <2>2. TypeOK'
    BY <1>2, <2>1, SessionTypes, UserTypes, ResetTypes, CodeTypes, LimiterTypes, RequestsStep
       DEF TypeOK
  <2> QED BY <1>1, <1>2, <2>2, TokensStep, ResetsReservedStep, RequestsStep DEF TypeInv
<1>3. CASE UNCHANGED vars
  <2>1. UNCHANGED <<clock, user, sessions, codes, credential, resets, bucket, requests,
                    failures, admitted>>
    BY <1>3 DEF vars, rows, history
  <2> QED BY <1>1, <2>1 DEF TypeInv, TypeOK, RequestsKnow, TokensReserved, ResetsReserved, Opening
<1> QED BY <1>2, <1>3

\* Every row, request and counter keeps its columns and their ranges, whatever the
\* number of requests in flight: the tokens a login or a recovery is about to draw are
\* there, because nobody else may draw them (auth.ts, recovery.ts, password-resets.ts).
THEOREM AccountsTyped == Spec => []TypeOK
<1>1. TypeInv => TypeOK
  BY DEF TypeInv
<1> QED BY <1>1, TypeInit, TypeNext, PTL DEF Spec
-----------------------------------------------------------------------------
(* The limiter.                                                            *)

\* The window that is open, and what the one before it let through since any
\* instant that a stretch with both may begin at.
WindowInv ==
  /\ \A t \in 0..Horizon : t > clock => admitted[t] = 0
  /\ IsFiniteSet(Admissions(0, Horizon))
  /\ bucket = None => \A t \in 0..Horizon : admitted[t] = 0
  /\ bucket # None =>
       /\ bucket.start <= clock /\ admitted[bucket.start] > 0
       /\ \A t \in 0..Horizon : t >= bucket.start + LoginWindow => admitted[t] = 0
       /\ Cardinality(Admissions(bucket.start, Horizon)) <= bucket.count
       /\ \A t \in 0..Horizon : t > bucket.start - LoginWindow =>
            Cardinality(Admissions(t, bucket.start - 1)) <= LoginMax - 1

ThrottleInv == TypeInv /\ Throttled /\ WindowInv

LEMMA Admission ==
  ASSUME NEW from, NEW to, NEW p
  PROVE  p \in Admissions(from, to) <=>
           \E t \in 0..Horizon : /\ from <= t /\ t <= to
                                 /\ \E k \in 1..admitted[t] : p = <<t, k>>
BY DEF Admissions

\* Any stretch is part of the whole.
LEMMA AdmissionsFinite ==
  ASSUME IsFiniteSet(Admissions(0, Horizon)), AccountDurations, NEW from, NEW to
  PROVE  IsFiniteSet(Admissions(from, to)) /\ Cardinality(Admissions(from, to)) \in Nat
<1>1. \A t \in 0..Horizon : 0 <= t /\ t <= Horizon
  OBVIOUS
<1>2. Admissions(from, to) \subseteq Admissions(0, Horizon)
  BY <1>1 DEF Admissions
<1> QED BY <1>2, FS_Subset, FS_CardinalityType

\* One login more.
LEMMA OneMore ==
  ASSUME TypeOK, IsFiniteSet(Admissions(0, Horizon)),
         admitted' = [admitted EXCEPT ![clock] = @ + 1]
  PROVE  \E new :
           /\ \A from, to : new \notin Admissions(from, to)
           /\ \A from, to : Admissions(from, to)' =
                IF from <= clock /\ clock <= to THEN Admissions(from, to) \cup {new}
                ELSE Admissions(from, to)
<1> DEFINE new == <<clock, admitted[clock] + 1>>
<1>0. clock \in 0..Horizon /\ admitted \in [0..Horizon -> Nat]
  BY DEF TypeOK
<1>1. ~(admitted[clock] + 1 \in 1..admitted[clock])
  BY <1>0
<1>2. \A from, to : new \notin Admissions(from, to)
  BY <1>1, Admission
<1>3. \A t \in 0..Horizon : t # clock => admitted'[t] = admitted[t]
  BY <1>0
<1>4. 1..admitted'[clock] = 1..admitted[clock] \cup {admitted[clock] + 1}
  BY <1>0
<1>5. ASSUME NEW from, NEW to, NEW p
      PROVE  p \in Admissions(from, to)' <=>
               \/ p \in Admissions(from, to)
               \/ from <= clock /\ clock <= to /\ p = new
  <2>1. p \in Admissions(from, to)' <=>
          \E t \in 0..Horizon : /\ from <= t /\ t <= to
                                /\ \E k \in 1..admitted'[t] : p = <<t, k>>
    BY DEF Admissions
  <2> QED BY <1>0, <1>3, <1>4, <2>1, Admission
<1>6. \A from, to : Admissions(from, to)' =
        IF from <= clock /\ clock <= to THEN Admissions(from, to) \cup {new}
        ELSE Admissions(from, to)
  BY <1>5
<1> HIDE DEF new
<1> QED BY <1>2, <1>6

\* A login is let through: the window that is open counts it, or a new one opens.
LEMMA AdmittedStep ==
  ASSUME ThrottleInv, AccountDurations, NEW q \in Slots, LoginArrives(q)
  PROVE  Throttled' /\ WindowInv'
<1> DEFINE N(from, to) == Cardinality(Admissions(from, to))
           M(from, to) == Cardinality(Admissions(from, to)')
<1>0. /\ clock \in 0..Horizon /\ admitted \in [0..Horizon -> Nat] /\ TypeOK
      /\ bucket \in [count : 1..LoginMax, start : 0..Horizon] \cup {None}
      /\ Horizon \in Nat /\ LoginMax \in Nat \ {0} /\ LoginWindow \in Nat \ {0}
  BY AccountDurations DEF ThrottleInv, TypeInv, TypeOK
<1>1. /\ \A t \in 0..Horizon : t > clock => admitted[t] = 0
      /\ IsFiniteSet(Admissions(0, Horizon))
      /\ \A t \in 0..Horizon : N(t, t + LoginWindow - 1) <= 2 * LoginMax - 1
  BY DEF ThrottleInv, Throttled, WindowInv
<1>2. /\ clock' = clock /\ bucket' = Counted(clock) /\ Admits(clock)
      /\ admitted' = [admitted EXCEPT ![clock] = @ + 1]
  BY DEF LoginArrives
<1>3. PICK new :
        /\ \A from, to : new \notin Admissions(from, to)
        /\ \A from, to : Admissions(from, to)' =
             IF from <= clock /\ clock <= to THEN Admissions(from, to) \cup {new}
             ELSE Admissions(from, to)
  BY <1>0, <1>1, <1>2, OneMore
<1>4. \A from, to : IsFiniteSet(Admissions(from, to)) /\ N(from, to) \in Nat
  BY <1>1, AccountDurations, AdmissionsFinite
<1>5. ASSUME NEW from, NEW to
      PROVE  /\ IsFiniteSet(Admissions(from, to)') /\ M(from, to) \in Nat
             /\ M(from, to) <= N(from, to) + 1
             /\ ~(from <= clock /\ clock <= to) => M(from, to) = N(from, to)
  <2>1. CASE from <= clock /\ clock <= to
    <3>1. Admissions(from, to)' = Admissions(from, to) \cup {new} /\ new \notin Admissions(from, to)
      BY <1>3, <2>1
    <3>2. /\ IsFiniteSet(Admissions(from, to) \cup {new})
          /\ Cardinality(Admissions(from, to) \cup {new}) = N(from, to) + 1
      BY <1>4, <3>1, FS_AddElement
    <3> QED BY <1>4, <2>1, <3>1, <3>2
  <2>2. CASE ~(from <= clock /\ clock <= to)
    <3>1. Admissions(from, to)' = Admissions(from, to)
      BY <1>3, <2>2
    <3> QED BY <1>4, <2>2, <3>1
  <2> QED BY <2>1, <2>2
<1>6. /\ \A t \in 0..Horizon : t > clock => admitted'[t] = 0
      /\ \A t \in 0..Horizon : t # clock => admitted'[t] = admitted[t]
      /\ admitted'[clock] > 0
  BY <1>0, <1>1, <1>2, SMTT(30)
<1>7. \A t \in 0..Horizon : ~(t <= clock /\ clock <= t + LoginWindow - 1) =>
        M(t, t + LoginWindow - 1) <= 2 * LoginMax - 1
  BY <1>1, <1>5
<1> HIDE DEF N, M
<1>8. CASE WindowOver(clock)
  <2>1. bucket' = [count |-> 1, start |-> clock]
    BY <1>2, <1>8 DEF Counted
  <2>2. bucket'.count = 1 /\ bucket'.start = clock /\ bucket' # None
    <3>1. [count |-> 1, start |-> clock] \in [count : Nat, start : Nat]
      BY <1>0
    <3> QED BY <2>1, <3>1, AccountSets
  <2>3. \A t \in 0..Horizon : t >= clock => admitted[t] = 0
    <3>1. CASE bucket = None
      BY <3>1 DEF ThrottleInv, WindowInv
    <3>2. CASE bucket # None
      <4>1. /\ clock >= bucket.start + LoginWindow /\ bucket.start \in Nat
            /\ \A t \in 0..Horizon : t >= bucket.start + LoginWindow => admitted[t] = 0
        BY <1>0, <1>8, <3>2, SMTT(30) DEF ThrottleInv, WindowInv, WindowOver
      <4> QED BY <1>0, <4>1, SMTT(30)
    <3> QED BY <3>1, <3>2
  <2>4. M(clock, Horizon) <= 1
    <3>1. ASSUME NEW p PROVE p \notin Admissions(clock, Horizon)
      <4>1. \A t \in 0..Horizon : clock <= t => 1..admitted[t] = {}
        BY <2>3
      <4> QED BY <4>1, Admission
    <3>2. Admissions(clock, Horizon) = {}
      BY <3>1
    <3>3. N(clock, Horizon) = 0
      BY <3>2, FS_EmptySet DEF N
    <3>4. M(clock, Horizon) <= N(clock, Horizon) + 1 /\ M(clock, Horizon) \in Nat
      BY <1>5
    <3> QED BY <3>3, <3>4
  <2>5. ASSUME NEW t \in 0..Horizon, t > clock - LoginWindow, NEW to
        PROVE  N(t, to) <= LoginMax - 1
    <3>1. CASE bucket = None
      <4>1. \A p : p \notin Admissions(t, to)
        <5>1. \A u \in 0..Horizon : 1..admitted[u] = {}
          BY <3>1 DEF ThrottleInv, WindowInv
        <5> QED BY <5>1, Admission
      <4>2. Admissions(t, to) = {}
        BY <4>1
      <4>3. N(t, to) = 0
        BY <4>2, FS_EmptySet DEF N
      <4> QED BY <1>0, <4>3
    <3>2. CASE bucket # None
      <4>1. PICK s : s = bucket.start
        OBVIOUS
      <4>2. /\ s \in 0..Horizon /\ clock >= s + LoginWindow /\ admitted[s] > 0
            /\ N(s, Horizon) <= LoginMax
        <5>1. /\ bucket.count \in 1..LoginMax /\ bucket.start \in 0..Horizon
              /\ N(bucket.start, Horizon) <= bucket.count /\ admitted[bucket.start] > 0
          BY <1>0, <3>2 DEF ThrottleInv, WindowInv, N
        <5>2. clock - bucket.start >= LoginWindow
          BY <1>8, <3>2 DEF WindowOver
        <5>3. N(bucket.start, Horizon) \in Nat
          BY <1>4 DEF N
        <5>4. N(bucket.start, Horizon) <= LoginMax
          BY <1>0, <5>1, <5>3
        <5>5. clock >= bucket.start + LoginWindow
          BY <1>0, <5>1, <5>2, SMTT(30)
        <5> QED BY <4>1, <5>1, <5>4, <5>5
      <4>3. t > s
        BY <1>0, <2>5, <4>2
      <4>4. <<s, 1>> \in Admissions(s, Horizon)
        <5>1. 1 \in 1..admitted[s] /\ s <= s /\ s <= Horizon
          BY <1>0, <4>2
        <5> QED BY <4>2, <5>1, Admission
      <4>5. Admissions(t, to) \subseteq Admissions(s, Horizon) \ {<<s, 1>>}
        <5>1. ASSUME NEW p \in Admissions(t, to)
              PROVE  p \in Admissions(s, Horizon) /\ p # <<s, 1>>
          <6>1. PICK u \in 0..Horizon : t <= u /\ \E k \in 1..admitted[u] : p = <<u, k>>
            BY Admission
          <6>2. s <= u /\ u <= Horizon /\ u # s
            BY <1>0, <4>2, <4>3, <6>1
          <6> QED BY <6>1, <6>2, Admission
        <5> QED BY <5>1
      <4>6. /\ IsFiniteSet(Admissions(s, Horizon) \ {<<s, 1>>})
            /\ Cardinality(Admissions(s, Horizon) \ {<<s, 1>>}) = N(s, Horizon) - 1
        BY <1>4, <4>4, FS_RemoveElement DEF N
      <4>7. N(t, to) <= N(s, Horizon) - 1
        BY <4>5, <4>6, FS_Subset DEF N
      <4>8. N(t, to) \in Nat /\ N(s, Horizon) \in Nat
        BY <1>4 DEF N
      <4> QED BY <1>0, <4>2, <4>7, <4>8, SMTT(30)
    <3> QED BY <3>1, <3>2
  <2>6. \A t \in 0..Horizon : t > clock - LoginWindow => M(t, clock - 1) <= LoginMax - 1
    <3> SUFFICES ASSUME NEW t \in 0..Horizon, t > clock - LoginWindow
                 PROVE  M(t, clock - 1) <= LoginMax - 1
      OBVIOUS
    <3>1. PICK to : to = clock - 1
      OBVIOUS
    <3>2. ~(clock <= to)
      BY <1>0, <3>1
    <3>3. M(t, to) = N(t, to)
      BY <1>5, <3>2 DEF N, M
    <3>4. N(t, to) <= LoginMax - 1
      BY <2>5
    <3> QED BY <3>1, <3>3, <3>4
  <2>7. \A t \in 0..Horizon : M(t, t + LoginWindow - 1) <= 2 * LoginMax - 1
    <3> SUFFICES ASSUME NEW t \in 0..Horizon, t <= clock, clock <= t + LoginWindow - 1
                 PROVE  M(t, t + LoginWindow - 1) <= 2 * LoginMax - 1
      BY <1>7 DEF M
    <3>1. t > clock - LoginWindow
      BY <1>0
    <3>2. N(t, t + LoginWindow - 1) <= LoginMax - 1
      BY <2>5, <3>1
    <3>3. /\ M(t, t + LoginWindow - 1) <= N(t, t + LoginWindow - 1) + 1
          /\ M(t, t + LoginWindow - 1) \in Nat /\ N(t, t + LoginWindow - 1) \in Nat
      BY <1>4, <1>5 DEF N, M
    <3> QED BY <1>0, <3>2, <3>3, SMTT(30)
  <2>8. \A t \in 0..Horizon : t >= clock + LoginWindow => admitted'[t] = 0
    BY <1>0, <1>6
  <2>9. Throttled'
    BY <2>7 DEF Throttled, M
  <2>10. WindowInv'
    BY <1>0, <1>2, <1>5, <1>6, <2>2, <2>4, <2>6, <2>8 DEF WindowInv, M
  <2> QED BY <2>9, <2>10
<1>9. CASE ~WindowOver(clock)
  <2>1. PICK s : s = bucket.start
    OBVIOUS
  <2>2. /\ bucket # None /\ s \in 0..Horizon /\ s <= clock /\ clock < s + LoginWindow
        /\ bucket.count \in 1..LoginMax /\ bucket.count < LoginMax
        /\ admitted[s] > 0 /\ N(s, Horizon) <= bucket.count /\ N(s, Horizon) \in Nat
        /\ bucket \in [count : 1..LoginMax, start : 0..Horizon]
    <3>1. bucket # None /\ ~(clock - bucket.start >= LoginWindow) /\ bucket.count < LoginMax
      BY <1>2, <1>9 DEF WindowOver, Admits
    <3>2. /\ bucket.start <= clock /\ admitted[bucket.start] > 0
          /\ N(bucket.start, Horizon) <= bucket.count
      BY <3>1 DEF ThrottleInv, WindowInv, N
    <3>3. N(s, Horizon) \in Nat
      BY <1>4 DEF N
    <3> QED BY <1>0, <2>1, <3>1, <3>2, <3>3, SMTT(30)
  <2>3. /\ \A t \in 0..Horizon : t >= s + LoginWindow => admitted[t] = 0
        /\ \A t \in 0..Horizon : t > s - LoginWindow => N(t, s - 1) <= LoginMax - 1
    BY <2>1, <2>2 DEF ThrottleInv, WindowInv, N
  <2>4. bucket' = [bucket EXCEPT !.count = @ + 1]
    BY <1>2, <1>9 DEF Counted
  <2>5. bucket' # None /\ bucket'.start = s /\ bucket'.count = bucket.count + 1
    <3>1. PICK b \in [count : 1..LoginMax, start : 0..Horizon] : b = bucket
      BY <2>2
    <3>2. [b EXCEPT !.count = @ + 1] \in [count : Nat, start : Nat]
      BY <1>0, <3>1, SMTT(30)
    <3>3. bucket' = [b EXCEPT !.count = @ + 1]
      BY <2>4, <3>1
    <3>4. bucket' # None
      BY <3>2, <3>3, AccountSets
    <3>5. bucket'.start = b.start /\ bucket'.count = b.count + 1
      BY <3>1, <3>3
    <3> QED BY <2>1, <3>1, <3>4, <3>5
  <2>6. M(s, Horizon) <= bucket'.count
    <3>1. M(s, Horizon) <= N(s, Horizon) + 1 /\ M(s, Horizon) \in Nat
      BY <1>5 DEF N, M
    <3> QED BY <2>2, <2>5, <3>1
  <2>7. \A t \in 0..Horizon : t > s - LoginWindow => M(t, s - 1) <= LoginMax - 1
    <3> SUFFICES ASSUME NEW t \in 0..Horizon, t > s - LoginWindow PROVE M(t, s - 1) <= LoginMax - 1
      OBVIOUS
    <3>1. ~(clock <= s - 1)
      BY <1>0, <2>2
    <3>2. M(t, s - 1) = N(t, s - 1)
      BY <1>5, <3>1 DEF N, M
    <3> QED BY <2>3, <3>2
  <2>8. \A t \in 0..Horizon : M(t, t + LoginWindow - 1) <= 2 * LoginMax - 1
    <3> SUFFICES ASSUME NEW t \in 0..Horizon, t <= clock, clock <= t + LoginWindow - 1
                 PROVE  M(t, t + LoginWindow - 1) <= 2 * LoginMax - 1
      BY <1>7 DEF M
    <3>1. t > s - LoginWindow
      BY <1>0, <2>2
    <3>2. Admissions(t, t + LoginWindow - 1)' \subseteq Admissions(t, s - 1)' \cup Admissions(s, Horizon)'
      <4>1. ASSUME NEW u \in 0..Horizon PROVE u <= s - 1 \/ (s <= u /\ u <= Horizon)
        BY <1>0, <2>2
      <4> QED BY <4>1 DEF Admissions
    <3>3. /\ IsFiniteSet(Admissions(t, s - 1)' \cup Admissions(s, Horizon)')
          /\ Cardinality(Admissions(t, s - 1)' \cup Admissions(s, Horizon)') <= M(t, s - 1) + M(s, Horizon)
          /\ M(t, s - 1) \in Nat /\ M(s, Horizon) \in Nat
          /\ Cardinality(Admissions(t, s - 1)' \cup Admissions(s, Horizon)') \in Nat
      <4>1. PICK A, B : A = Admissions(t, s - 1)' /\ B = Admissions(s, Horizon)'
        OBVIOUS
      <4>2. IsFiniteSet(A) /\ IsFiniteSet(B) /\ M(t, s - 1) = Cardinality(A) /\ M(s, Horizon) = Cardinality(B)
        BY <1>5, <4>1 DEF M
      <4>3. /\ IsFiniteSet(A \cup B)
            /\ Cardinality(A \cup B) = Cardinality(A) + Cardinality(B) - Cardinality(A \cap B)
        BY <4>2, FS_Union
      <4>4. IsFiniteSet(A \cap B)
        BY <4>2, FS_Subset
      <4>5. Cardinality(A) \in Nat /\ Cardinality(B) \in Nat /\ Cardinality(A \cap B) \in Nat
        BY <4>2, <4>4, FS_CardinalityType
      <4>6. Cardinality(A \cup B) <= Cardinality(A) + Cardinality(B)
        BY <4>3, <4>5
      <4>7. Cardinality(A \cup B) \in Nat
        BY <4>3, FS_CardinalityType
      <4> QED BY <4>1, <4>2, <4>3, <4>5, <4>6, <4>7
    <3>4. /\ M(t, t + LoginWindow - 1) <= Cardinality(Admissions(t, s - 1)' \cup Admissions(s, Horizon)')
          /\ M(t, t + LoginWindow - 1) \in Nat
      <4>1. PICK A, B : /\ A = Admissions(t, t + LoginWindow - 1)'
                        /\ B = Admissions(t, s - 1)' \cup Admissions(s, Horizon)'
        OBVIOUS
      <4>2. A \subseteq B /\ IsFiniteSet(B)
        BY <3>2, <3>3, <4>1
      <4>3. Cardinality(A) <= Cardinality(B) /\ Cardinality(A) \in Nat
        BY <4>2, FS_Subset, FS_CardinalityType
      <4> QED BY <4>1, <4>3 DEF M
    <3>5. M(t, s - 1) <= LoginMax - 1 /\ M(s, Horizon) <= LoginMax
      <4>1. bucket.count + 1 <= LoginMax /\ bucket.count + 1 \in Nat
        BY <1>0, <2>2, SMTT(30)
      <4>2. M(s, Horizon) <= bucket.count + 1
        BY <2>5, <2>6
      <4> QED BY <1>0, <2>7, <3>1, <3>3, <4>1, <4>2, SMTT(30)
    <3>6. PICK m, k, a, b \in Nat :
            /\ m = M(t, t + LoginWindow - 1) /\ a = M(t, s - 1) /\ b = M(s, Horizon)
            /\ k = Cardinality(Admissions(t, s - 1)' \cup Admissions(s, Horizon)')
      BY <3>3, <3>4
    <3>7. m <= k /\ k <= a + b /\ a <= LoginMax - 1 /\ b <= LoginMax
      BY <3>3, <3>4, <3>5, <3>6
    <3>8. m <= 2 * LoginMax - 1
      BY <1>0, <3>7
    <3> QED BY <3>6, <3>8
  <2>9. /\ \A t \in 0..Horizon : t >= s + LoginWindow => admitted'[t] = 0
        /\ admitted'[s] > 0
    <3>1. ASSUME NEW t \in 0..Horizon, t >= s + LoginWindow PROVE admitted'[t] = 0
      <4>1. t # clock
        BY <1>0, <2>2, <3>1
      <4>2. admitted[t] = 0
        BY <2>3, <3>1
      <4> QED BY <1>6, <4>1, <4>2
    <3>2. admitted'[s] > 0
      <4>1. CASE s = clock
        BY <1>6, <4>1
      <4>2. CASE s # clock
        <5>1. admitted'[s] = admitted[s]
          BY <1>6, <2>2, <4>2
        <5> QED BY <2>2, <5>1
      <4> QED BY <4>1, <4>2
    <3> QED BY <3>1, <3>2
  <2>10. Throttled'
    BY <2>8 DEF Throttled, M
  <2>11. WindowInv'
    BY <1>0, <1>2, <1>5, <1>6, <2>2, <2>5, <2>6, <2>7, <2>9 DEF WindowInv, M
  <2> QED BY <2>10, <2>11
<1> QED BY <1>8, <1>9

LEMMA ThrottleInit == Init => ThrottleInv
<1> SUFFICES ASSUME Init PROVE ThrottleInv
  OBVIOUS
<1>1. TypeInv
  BY TypeInit
<1>2. \A t \in 0..Horizon : admitted[t] = 0 /\ 1..admitted[t] = {}
  BY DEF Init
<1>3. ASSUME NEW from, NEW to PROVE Admissions(from, to) = {}
  <2>1. ASSUME NEW p PROVE p \notin Admissions(from, to)
    BY <1>2, Admission
  <2> QED BY <2>1
<1>4. IsFiniteSet({}) /\ Cardinality({}) = 0
  BY FS_EmptySet
<1>5. Throttled
  <2>1. 0 <= 2 * LoginMax - 1
    BY AccountDurations
  <2> QED BY <1>3, <1>4, <2>1 DEF Throttled
<1>6. WindowInv
  BY <1>2, <1>3, <1>4 DEF Init, WindowInv
<1> QED BY <1>1, <1>5, <1>6 DEF ThrottleInv

LEMMA ThrottleNext == ThrottleInv /\ [Next]_vars => ThrottleInv'
<1> SUFFICES ASSUME ThrottleInv, [Next]_vars PROVE ThrottleInv'
  OBVIOUS
<1>1. TypeInv'
  BY TypeNext DEF ThrottleInv
<1>2. ASSUME NEW q \in Slots, LoginArrives(q) PROVE Throttled' /\ WindowInv'
  BY <1>2, AdmittedStep, AccountDurations
<1>3. ASSUME UNCHANGED <<bucket, admitted>>, clock' >= clock PROVE Throttled' /\ WindowInv'
  <2>1. Throttled'
    BY <1>3 DEF ThrottleInv, Throttled, Admissions
  <2>2. clock \in Nat /\ clock' \in Nat /\ (bucket # None => bucket.start \in Nat)
    BY <1>1, AccountDurations DEF ThrottleInv, TypeInv, TypeOK
  <2>3. \A t \in 0..Horizon : t > clock' => admitted'[t] = 0
    BY <1>3, <2>2 DEF ThrottleInv, WindowInv
  <2>4. bucket # None => bucket.start <= clock'
    BY <1>3, <2>2 DEF ThrottleInv, WindowInv
  <2>5. WindowInv'
    BY <1>3, <2>3, <2>4 DEF ThrottleInv, WindowInv, Admissions
  <2> QED BY <2>1, <2>5
<1>4. ASSUME Next, \A q \in Slots : ~LoginArrives(q)
      PROVE  UNCHANGED <<bucket, admitted>> /\ clock' >= clock
  BY <1>4, LimiterKept DEF ThrottleInv
<1>5. CASE UNCHANGED vars
  <2>1. UNCHANGED <<clock, bucket, admitted>> /\ clock \in Nat
    BY <1>5, AccountDurations DEF vars, history, ThrottleInv, TypeInv, TypeOK
  <2> QED BY <1>1, <1>3, <2>1 DEF ThrottleInv
<1> QED BY <1>1, <1>2, <1>3, <1>4, <1>5 DEF ThrottleInv

\* The limiter of logins (lib/rate-limit.ts), a fixed window, lets through at most
\* twice its limit, less one, in any stretch of the length of a window, wherever the
\* stretch begins and however the attempts are spread.
THEOREM AlwaysThrottled == Spec => []Throttled
<1>1. ThrottleInv => Throttled
  BY DEF ThrottleInv
<1> QED BY <1>1, ThrottleInit, ThrottleNext, PTL DEF Spec
=============================================================================
