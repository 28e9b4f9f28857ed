----------------------------- MODULE MCAccounts -----------------------------
(* Accounts for TLC, in two halves: passwords and resets, and factors.      *)
EXTENDS Accounts, TLC

PasswordOps == {"login", "password", "issue", "consume", "logout", "revoke"}
FactorOps == ({"login", "recover"} \cup SessionRoutes) \ {"password", "logout"}

\* Bound: at the last instant only logins arrive, for the limiter's windows.  What has
\* arrived runs on, whatever the time.
LoginsOnly ==
  /\ \A q \in Slots :
       requests[q] = None /\ requests'[q] # None => requests'[q].op = "login"
  /\ sessions' # sessions => requests' # requests
LateLogins == clock = Horizon => LoginsOnly

Symmetric == Permutations(Slots) \cup Permutations(Codes)
=============================================================================
