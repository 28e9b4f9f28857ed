------------------------- MODULE SwitchSetupProofs -------------------------
(***************************************************************************)
(* The life of a switch up to its release, for any number of switches,     *)
(* recipients and requests.  Everything rests on what a request in flight  *)
(* may still count on (Fits): what it has seen is locked, or only grows.   *)
(* The votes of a switch that nobody disturbed come one after the other    *)
(* (InTurn).                                                               *)
(***************************************************************************)
EXTENDS SwitchSetup, FiniteSetTheorems, TLAPS

\* Somebody accepted to receive s, removed since or not.
Reached(s) ==
  \E r \in Recipients : /\ recipients[r] # None /\ recipients[r].switch = s
                        /\ recipients[r].status = "accepted"

\* The votes ever given for s, and the one a request is about to give.
Voted(s) == {r \in Recipients : /\ recipients[r] # None /\ recipients[r].switch = s
                                /\ recipients[r].vote}
Gives(request) == IF request.held THEN {request.recipient} ELSE {}

ForRecipients == {"remove", "accept", "vote"}

\* What a request in flight has seen and may still count on.
Fits(request) ==
  LET s == request.switch
  IN  /\ switches[s] # None
      /\ request.op \in ForRecipients =>
           recipients[request.recipient] # None /\ recipients[request.recipient].switch = s
      /\ request.op = "vote" => recipients[request.recipient].status = "accepted"
      /\ request.op = "arm" /\ request.pc = "commit" =>
           s \in Existing \cap payloads /\ Reached(s)
      /\ request.op = "duplicate" /\ request.pc = "insert" =>
           /\ s \in Existing
           /\ request.seen = [policy |-> switches[s].policy, quorum |-> switches[s].quorum]
      /\ request.op = "vote" /\ request.pc = "decide" =>
           request.counted <= Cardinality(Voted(s) \cup Gives(request))

AllFit == \A q \in Slots : requests[q] # None => Fits(requests[q])

\* Votes for a switch nobody disturbed: against its threshold, one at a time, and
\* nothing is added to what was counted.
InTurn(s) ==
  /\ \A q \in Slots : requests[q] # None /\ requests[q].op = "vote" /\ On(q) = s
       => requests[q].need = switches[s].quorum
  /\ \A p, q \in OpenVotes(s) : p = q
  /\ \A q \in OpenVotes(s) : At(q, "vote", "decide") =>
       Cardinality(VotesSeen(q)) <= requests[q].counted
Undisturbed == \A s \in Existing \ disturbed : InTurn(s)

IInv == TypeOK /\ AllFit /\ Deliverable /\ QuorumExact /\ Undisturbed

LEMMA InitInv == Init => IInv
<1> SUFFICES ASSUME Init PROVE IInv
  OBVIOUS
<1> USE SetupConstants DEF Init
<1>1. Existing = {} /\ \A s \in Switches : Present(s) = {} /\ VotesFor(s) = {}
  BY DEF Existing, Present, VotesFor
<1>2. TypeOK
  BY <1>1 DEF TypeOK
<1> QED BY <1>1, <1>2 DEF IInv, AllFit, Deliverable, QuorumExact, QuorumBacked, QuorumNoticed,
        Undisturbed
-----------------------------------------------------------------------------
(* What becomes of the rows.                                               *)

\* A switch stays, is made, is deleted or changed while nobody holds its row, or is
\* armed by the request that holds it.
SwitchBecomes(s) ==
  \/ switches'[s] = switches[s]
  \/ switches[s] = None /\ switches'[s] \in Switch /\ ~switches'[s].started
  \/ s \in Existing /\ switches'[s] = Gone /\ \E q \in Slots : Delete(q) /\ On(q) = s
  \/ /\ Updatable(s) /\ s \in Existing /\ switches'[s] \in Switch
     /\ switches'[s].started = switches[s].started
     /\ switches'[s].quorum # switches[s].quorum => \E q \in Slots : SetTrigger(q) /\ On(q) = s
  \/ /\ s \in Existing /\ switches'[s] \in Switch
     /\ \E q \in Slots : At(q, "arm", "commit") /\ On(q) = s
     /\ switches'[s].policy = switches[s].policy /\ switches'[s].quorum = switches[s].quorum

LEMMA RequestOn ==
  ASSUME TypeOK, NEW q \in Slots, requests[q] # None
  PROVE  requests[q] \in Request /\ On(q) \in Switches
BY DEF TypeOK, Request, On

LEMMA SwitchStep ==
  ASSUME TypeOK, AllFit, Next
  PROVE  /\ switches' \in [Switches -> Switch \cup {None, Gone}]
         /\ \A s \in Switches : SwitchBecomes(s)
<1> DEFINE Goal == /\ switches' \in [Switches -> Switch \cup {None, Gone}]
                   /\ \A s \in Switches : SwitchBecomes(s)
<1>0. /\ switches \in [Switches -> Switch \cup {None, Gone}]
      /\ \A s \in Existing : s \in Switches /\ switches[s] \in Switch
      /\ Statuses = {"active", "paused", "released"}
  BY DEF TypeOK, Existing, Statuses
<1>1. CASE UNCHANGED switches
  BY <1>0, <1>1 DEF SwitchBecomes
<1>2. ASSUME NEW s \in Switches, NEW row, Update(s, row),
             \/ switches[s] = None /\ row \in Switch /\ ~row.started
             \/ s \in Existing /\ row = Gone /\ \E q \in Slots : Delete(q) /\ On(q) = s
             \/ /\ Updatable(s) /\ s \in Existing /\ row \in Switch
                /\ row.started = switches[s].started
                /\ row.quorum # switches[s].quorum =>
                     \E q \in Slots : SetTrigger(q) /\ On(q) = s
             \/ /\ s \in Existing /\ row \in Switch
                /\ \E q \in Slots : At(q, "arm", "commit") /\ On(q) = s
                /\ row.policy = switches[s].policy /\ row.quorum = switches[s].quorum
      PROVE  Goal
  <2>1. switches'[s] = row /\ \A t \in Switches \ {s} : switches'[t] = switches[t]
    BY <1>0, <1>2 DEF Update
  <2>2. switches' \in [Switches -> Switch \cup {None, Gone}]
    BY <1>0, <1>2 DEF Update
  <2> QED BY <1>2, <2>1, <2>2 DEF SwitchBecomes
<1>3. ASSUME NEW owner \in Owners, NEW title \in Titles, NEW policy \in Policies,
             NEW quorum \in Thresholds \cup {None}
      PROVE  /\ NewSwitch(owner, title, policy, quorum) \in Switch
             /\ ~NewSwitch(owner, title, policy, quorum).started
  BY <1>0 DEF NewSwitch, Switch
<1>4. CASE Create
  <2>1. PICK s \in Unused, owner \in Owners, title \in Titles, policy \in Policies :
          Update(s, NewSwitch(owner, title, policy, None))
    BY <1>4 DEF Create
  <2> QED BY <1>2, <1>3, <2>1 DEF Unused
<1>5. ASSUME NEW q \in Slots, DuplicateInsert(q) PROVE Goal
  <2>1. PICK s \in Unused, owner \in Owners, title \in Titles :
          Update(s, NewSwitch(owner, title, requests[q].seen.policy, requests[q].seen.quorum))
    BY <1>5 DEF DuplicateInsert
  <2>2. /\ On(q) \in Existing
        /\ requests[q].seen = [policy |-> switches[On(q)].policy,
                               quorum |-> switches[On(q)].quorum]
    BY <1>5 DEF DuplicateInsert, At, AllFit, Fits, On
  <2>3. requests[q].seen.policy \in Policies /\ requests[q].seen.quorum \in Thresholds \cup {None}
    BY <1>0, <2>2 DEF Switch
  <2> QED BY <1>2, <1>3, <2>1, <2>3 DEF Unused
<1>6. ASSUME NEW q \in Slots, Patch(q) PROVE Goal
  <2>1. CASE On(q) \in Existing
    <3>1. PICK title \in Titles, policy \in Policies :
            Update(On(q), [switches[On(q)] EXCEPT !.title = title, !.policy = policy])
      BY <1>6, <2>1 DEF Patch
    <3>2. PICK row : row = [switches[On(q)] EXCEPT !.title = title, !.policy = policy]
      OBVIOUS
    <3>3. /\ row \in Switch /\ row.started = switches[On(q)].started
          /\ row.quorum = switches[On(q)].quorum
      <4> DEFINE titled == [switches[On(q)] EXCEPT !.title = title]
                 new == [titled EXCEPT !.policy = policy]
      <4>1. /\ titled \in Switch /\ titled.started = switches[On(q)].started
            /\ titled.quorum = switches[On(q)].quorum
        BY <1>0, <2>1 DEF Switch
      <4>2. row = new
        BY <3>2
      <4> HIDE DEF titled
      <4> QED BY <4>1, <4>2 DEF Switch
    <3>4. On(q) \in Switches /\ Updatable(On(q)) /\ Update(On(q), row)
      BY <1>0, <1>6, <2>1, <3>1, <3>2 DEF Patch
    <3> QED BY <1>2, <2>1, <3>3, <3>4
  <2> QED BY <1>1, <1>6, <2>1 DEF Patch
<1>7. ASSUME NEW q \in Slots, Delete(q) PROVE Goal
  <2>1. /\ Updatable(On(q)) /\ switches' = [switches EXCEPT ![On(q)] = Gone]
        /\ On(q) \in Switches /\ switches[On(q)] # None
    BY <1>7, RequestOn DEF Delete, At, AllFit, Fits, On
  <2>2. CASE On(q) \in Existing
    BY <1>2, <1>7, <2>1, <2>2 DEF Update
  <2>3. CASE On(q) \notin Existing
    <3>1. switches[On(q)] = Gone
      BY <2>1, <2>3 DEF Existing
    <3> QED BY <1>0, <1>1, <2>1, <3>1
  <2> QED BY <2>2, <2>3
<1>8. ASSUME NEW q \in Slots, ArmCommit(q) PROVE Goal
  <2>1. PICK row : row = [switches[On(q)] EXCEPT !.status = "active", !.started = TRUE]
    OBVIOUS
  <2>2. On(q) \in Existing /\ On(q) \in Switches /\ At(q, "arm", "commit") /\ Update(On(q), row)
    BY <1>0, <1>8, <2>1 DEF ArmCommit, At, AllFit, Fits, On
  <2>3. row \in Switch /\ row.policy = switches[On(q)].policy /\ row.quorum = switches[On(q)].quorum
    <3> DEFINE active == [switches[On(q)] EXCEPT !.status = "active"]
               new == [active EXCEPT !.started = TRUE]
    <3>1. /\ active \in Switch
          /\ active.policy = switches[On(q)].policy /\ active.quorum = switches[On(q)].quorum
      BY <1>0, <2>2 DEF Switch
    <3>2. row = new
      BY <2>1
    <3> HIDE DEF active
    <3> QED BY <3>1, <3>2 DEF Switch
  <2> QED BY <1>2, <2>2, <2>3
<1>9. ASSUME NEW s \in Switches, NEW status \in Statuses, Updatable(s), s \in Existing,
             Update(s, [switches[s] EXCEPT !.status = status])
      PROVE  Goal
  <2>1. PICK row : row = [switches[s] EXCEPT !.status = status]
    OBVIOUS
  <2>2. row \in Switch /\ row.started = switches[s].started /\ row.quorum = switches[s].quorum
    BY <1>0, <1>9, <2>1 DEF Switch
  <2> QED BY <1>2, <1>9, <2>1, <2>2
<1>10. ASSUME NEW q \in Slots, Disarm(q) PROVE Goal
  BY <1>0, <1>1, <1>9, <1>10 DEF Disarm
<1>11. ASSUME NEW s \in Switches, Release(s) PROVE Goal
  BY <1>0, <1>9, <1>11 DEF Release
<1>12. ASSUME NEW q \in Slots, SetTrigger(q) PROVE Goal
  <2>1. CASE On(q) \in Existing
    <3>1. PICK quorum \in Thresholds \cup {None} :
            Update(On(q), [switches[On(q)] EXCEPT !.quorum = quorum])
      BY <1>12, <2>1 DEF SetTrigger
    <3>2. PICK row : row = [switches[On(q)] EXCEPT !.quorum = quorum]
      OBVIOUS
    <3>3. row \in Switch /\ row.started = switches[On(q)].started
      BY <1>0, <2>1, <3>2 DEF Switch
    <3>4. On(q) \in Switches /\ Updatable(On(q)) /\ Update(On(q), row)
      BY <1>0, <1>12, <2>1, <3>1, <3>2 DEF SetTrigger
    <3> QED BY <1>2, <1>12, <2>1, <3>3, <3>4
  <2> QED BY <1>1, <1>12, <2>1 DEF SetTrigger
<1>13. ASSUME NEW q \in Slots,
             \/ Arrives(q) \/ DuplicateArrives(q) \/ RecipientArrives(q) \/ VoteArrives(q)
             \/ DuplicateRead(q) \/ StorePayload(q) \/ Invite(q) \/ AcceptRecipient(q)
             \/ RemoveRecipient(q) \/ ArmCheck(q) \/ VoteUpdate(q) \/ VoteCount(q)
             \/ VoteDecide(q) \/ Fails(q)
      PROVE  UNCHANGED switches
  BY <1>13 DEF Arrives, DuplicateArrives, RecipientArrives, VoteArrives, DuplicateRead,
     StorePayload, Invite, AcceptRecipient, RemoveRecipient, ArmCheck, VoteUpdate, VoteCount,
     VoteDecide, Fails, RolledBack
<1> QED BY <1>1, <1>4, <1>5, <1>6, <1>7, <1>8, <1>10, <1>11, <1>12, <1>13 DEF Next, Handle

\* A recipient stays, is invited, accepts or is removed while no vote holds the row,
\* or gets the vote of the request that holds it.
RecipientBecomes(r) ==
  \/ recipients'[r] = recipients[r]
  \/ /\ recipients[r] = None /\ recipients'[r] \in Recipient
     /\ recipients'[r].switch \in Existing /\ UNCHANGED switches
     /\ ~recipients'[r].vote
  \/ /\ recipients[r] # None /\ RowFree(r) /\ recipients'[r] \in Recipient
     /\ recipients'[r].switch = recipients[r].switch /\ recipients'[r].vote = recipients[r].vote
     /\ recipients[r].status = "accepted" => recipients'[r].status = "accepted"
     /\ recipients'[r].present => recipients[r].present
  \/ \E q \in Slots :
       /\ VoteDecide(q)
       /\ At(q, "vote", "decide") /\ requests[q].held /\ requests[q].recipient = r
       /\ recipients[r] # None /\ recipients[r].status = "accepted"
       /\ recipients[r].switch = On(q)
       /\ recipients'[r] = [recipients[r] EXCEPT !.vote = TRUE]

LEMMA RecipientStep ==
  ASSUME TypeOK, AllFit, Next
  PROVE  /\ recipients' \in [Recipients -> Recipient \cup {None}]
         /\ \A r \in Recipients : RecipientBecomes(r)
<1> DEFINE Goal == /\ recipients' \in [Recipients -> Recipient \cup {None}]
                   /\ \A r \in Recipients : RecipientBecomes(r)
<1>0. /\ recipients \in [Recipients -> Recipient \cup {None}]
      /\ \A r \in Recipients : recipients[r] # None => recipients[r] \in Recipient
      /\ requests \in [Slots -> Request \cup {None}]
  BY DEF TypeOK
<1>1. CASE UNCHANGED recipients
  BY <1>0, <1>1 DEF RecipientBecomes
<1>2. ASSUME NEW q \in Slots, Invite(q) PROVE Goal
  <2>1. PICK r \in Recipients :
          /\ recipients[r] = None
          /\ recipients' = [recipients EXCEPT ![r] =
               [switch |-> On(q), status |-> "invited", vote |-> FALSE, present |-> TRUE]]
    BY <1>2 DEF Invite
  <2>2. PICK row : row = [switch |-> On(q), status |-> "invited", vote |-> FALSE, present |-> TRUE]
    OBVIOUS
  <2>3. row \in Recipient /\ row.switch \in Existing /\ ~row.vote
    BY <1>2, <2>2 DEF Recipient, Invite, Existing
  <2>4. UNCHANGED switches /\ recipients' = [recipients EXCEPT ![r] = row]
    BY <1>2, <2>1, <2>2 DEF Invite
  <2> QED BY <1>0, <2>1, <2>3, <2>4 DEF RecipientBecomes
<1>3. ASSUME NEW q \in Slots, AcceptRecipient(q) PROVE Goal
  <2>1. CASE UNCHANGED recipients
    BY <1>1, <2>1
  <2>2. CASE ~UNCHANGED recipients
    <3>1. PICK r : r = requests[q].recipient
      OBVIOUS
    <3>2. /\ r \in Recipients /\ RowFree(r) /\ recipients[r] # None
          /\ recipients' = [recipients EXCEPT ![r].status = "accepted"]
      BY <1>0, <1>3, <2>2, <3>1 DEF AcceptRecipient, At, AllFit, Fits, ForRecipients, Request, Plain
    <3> QED BY <1>0, <3>2 DEF RecipientBecomes, Recipient
  <2> QED BY <2>1, <2>2
<1>4. ASSUME NEW q \in Slots, RemoveRecipient(q) PROVE Goal
  <2>1. PICK r : r = requests[q].recipient
    OBVIOUS
  <2>2. /\ r \in Recipients /\ RowFree(r) /\ recipients[r] # None
        /\ recipients' = [recipients EXCEPT ![r].present = FALSE]
    BY <1>0, <1>4, <2>1 DEF RemoveRecipient, At, AllFit, Fits, ForRecipients, Request, Plain
  <2> QED BY <1>0, <2>2, ZenonT(30) DEF RecipientBecomes, Recipient
<1>5. ASSUME NEW q \in Slots, Delete(q) PROVE Goal
  <2>1. /\ \A r \in Present(On(q)) : RowFree(r)
        /\ recipients' = [r \in Recipients |->
              IF r \in Present(On(q)) THEN [recipients[r] EXCEPT !.present = FALSE]
              ELSE recipients[r]]
    BY <1>5 DEF Delete
  <2>2. \A r \in Present(On(q)) : recipients[r] # None
    BY DEF Present
  <2> QED BY <1>0, <2>1, <2>2, ZenonT(30) DEF RecipientBecomes, Recipient
<1>6. ASSUME NEW q \in Slots, VoteDecide(q) PROVE Goal
  <2>1. CASE requests[q].held
    <3>1. PICK r : r = requests[q].recipient
      OBVIOUS
    <3>2. /\ r \in Recipients /\ recipients[r] # None /\ recipients[r].switch = On(q)
          /\ recipients[r].status = "accepted"
      BY <1>0, <1>6, <3>1
         DEF VoteDecide, At, AllFit, Fits, ForRecipients, Request, Plain, On
    <3>3. recipients' = [recipients EXCEPT ![r].vote = TRUE]
      BY <1>6, <2>1, <3>1 DEF VoteDecide
    <3>4. /\ recipients'[r] = [recipients[r] EXCEPT !.vote = TRUE]
          /\ \A t \in Recipients \ {r} : recipients'[t] = recipients[t]
      BY <1>0, <3>2, <3>3
    <3>5. recipients' \in [Recipients -> Recipient \cup {None}]
      <4>1. [recipients[r] EXCEPT !.vote = TRUE] \in Recipient
        BY <1>0, <3>2 DEF Recipient
      <4> QED BY <1>0, <3>2, <3>3, <4>1
    <3>6. At(q, "vote", "decide")
      BY <1>6 DEF VoteDecide
    <3>7. RecipientBecomes(r)
      BY <1>6, <2>1, <3>1, <3>2, <3>4, <3>6 DEF RecipientBecomes
    <3> QED BY <3>4, <3>5, <3>7 DEF RecipientBecomes
  <2>2. CASE ~requests[q].held
    BY <1>1, <1>6, <2>2 DEF VoteDecide
  <2> QED BY <2>1, <2>2
<1>7. ASSUME NEW q \in Slots,
             \/ Arrives(q) \/ DuplicateArrives(q) \/ RecipientArrives(q) \/ VoteArrives(q)
             \/ DuplicateRead(q) \/ DuplicateInsert(q) \/ Patch(q) \/ StorePayload(q)
             \/ ArmCheck(q) \/ ArmCommit(q) \/ Disarm(q) \/ SetTrigger(q)
             \/ VoteUpdate(q) \/ VoteCount(q) \/ Fails(q)
      PROVE  UNCHANGED recipients
  BY <1>7 DEF Arrives, DuplicateArrives, RecipientArrives, VoteArrives, DuplicateRead,
     DuplicateInsert, Patch, StorePayload, ArmCheck, ArmCommit, Disarm, SetTrigger, VoteUpdate,
     VoteCount, Fails, RolledBack
<1>8. ASSUME NEW s \in Switches, Release(s) PROVE UNCHANGED recipients
  BY <1>8 DEF Release
<1>9. Create => UNCHANGED recipients
  BY DEF Create
<1> QED BY <1>1, <1>2, <1>3, <1>4, <1>5, <1>6, <1>7, <1>8, <1>9 DEF Next, Handle
-----------------------------------------------------------------------------
(* What becomes of the requests.                                           *)

\* A vote arrives, takes its row, or counts.
Votes(q, request) ==
  \/ /\ requests[q] = None /\ request.pc = "update" /\ UNCHANGED disturbed
     /\ request.need = switches[request.switch].quorum
  \/ /\ At(q, "vote", "update") /\ request.pc = "count"
     /\ request.switch = On(q) /\ request.need = requests[q].need
     /\ disturbed' = IF OpenVotes(On(q)) # {} THEN disturbed \cup {On(q)} ELSE disturbed
  \/ /\ At(q, "vote", "count") /\ request.pc = "decide" /\ UNCHANGED disturbed
     /\ request.switch = On(q) /\ request.need = requests[q].need
     /\ request.held = requests[q].held /\ request.recipient = requests[q].recipient
     /\ request.counted = Cardinality(VotesSeen(q))

\* A request that does not end leaves the rows alone.
Advances(q, request) ==
  /\ request \in Request /\ Set(q, request) /\ Fits(request)
  /\ UNCHANGED <<switches, recipients, payloads, quorumJobs>>
  /\ IF request.op = "vote" THEN Votes(q, request)
     ELSE /\ UNCHANGED disturbed
          /\ requests[q] # None => requests[q].op = request.op

LEMMA VotesCounted ==
  ASSUME TypeOK, NEW q \in Slots, At(q, "vote", "count")
  PROVE  /\ Cardinality(VotesSeen(q)) \in Nat
         /\ Cardinality(VotesSeen(q)) <= Cardinality(Voted(On(q)) \cup Gives(requests[q]))
<1>1. Gives(requests[q]) \subseteq Recipients
  BY DEF TypeOK, At, Gives, Request, Plain
<1>2. /\ VotesSeen(q) \subseteq Voted(On(q)) \cup Gives(requests[q])
      /\ Voted(On(q)) \cup Gives(requests[q]) \subseteq Recipients
  BY <1>1 DEF VotesSeen, Gives, VotesFor, Present, Voted
<1>3. /\ IsFiniteSet(Voted(On(q)) \cup Gives(requests[q]))
      /\ IsFiniteSet(VotesSeen(q))
  BY <1>2, SetupConstants, FS_Subset
<1> QED BY <1>2, <1>3, FS_Subset, FS_CardinalityType

LEMMA RequestStep ==
  ASSUME TypeOK, AllFit, Next
  PROVE  \/ requests' = requests
         \/ \E q \in Slots : Ends(q)
         \/ \E q \in Slots : \E request \in Request : Advances(q, request)
<1> DEFINE Goal(q) == Ends(q) \/ \E request \in Request : Advances(q, request)
<1>0. /\ requests \in [Slots -> Request \cup {None}]
      /\ Existing \subseteq Switches /\ \A s \in Existing : switches[s] # None
      /\ \A s \in Existing : switches[s] \in Switch
  BY DEF TypeOK, Existing
<1>1. ASSUME NEW q \in Slots, Arrives(q) PROVE Goal(q)
  <2>1. PICK op \in Plain, s \in Existing : Set(q, [op |-> op, switch |-> s, pc |-> "write"])
    BY <1>1 DEF Arrives, Accepts
  <2>2. PICK r : r = [op |-> op, switch |-> s, pc |-> "write"]
    OBVIOUS
  <2>3. r \in Request /\ r.op = op /\ r.switch = s /\ r.pc = "write"
    BY <1>0, <2>2 DEF Request
  <2>4. Fits(r) /\ r.op # "vote"
    BY <1>0, <2>3 DEF Fits, Plain, ForRecipients
  <2> QED BY <1>1, <2>1, <2>2, <2>3, <2>4 DEF Advances, Arrives
<1>2. ASSUME NEW q \in Slots, DuplicateArrives(q) PROVE Goal(q)
  <2>1. PICK s \in Switches \ Unused :
          Set(q, [op |-> "duplicate", switch |-> s, pc |-> "read", seen |-> None])
    BY <1>2 DEF DuplicateArrives
  <2>2. PICK r : r = [op |-> "duplicate", switch |-> s, pc |-> "read", seen |-> None]
    OBVIOUS
  <2>3. r \in Request /\ r.op = "duplicate" /\ r.switch = s /\ r.pc = "read"
    BY <2>2 DEF Request
  <2>4. Fits(r)
    BY <2>1, <2>3 DEF Fits, ForRecipients, Unused
  <2> QED BY <1>2, <2>1, <2>2, <2>3, <2>4 DEF Advances, DuplicateArrives
<1>3. ASSUME NEW q \in Slots, RecipientArrives(q) PROVE Goal(q)
  <2>1. PICK s \in Switches : \E rcp \in Present(s), op \in {"remove", "accept"} :
          Set(q, [op |-> op, recipient |-> rcp, switch |-> s, pc |-> "write"])
    BY <1>3 DEF RecipientArrives
  <2>2. PICK rcp \in Present(s), op \in {"remove", "accept"} :
          Set(q, [op |-> op, recipient |-> rcp, switch |-> s, pc |-> "write"])
    BY <2>1
  <2>3. PICK r : r = [op |-> op, recipient |-> rcp, switch |-> s, pc |-> "write"]
    OBVIOUS
  <2>4. r \in Request /\ r.op = op /\ r.switch = s /\ r.pc = "write" /\ r.recipient = rcp
    BY <2>3 DEF Request, Present
  <2>5. s \in Existing
    BY DEF TypeOK
  <2>6. Fits(r)
    BY <1>0, <2>4, <2>5 DEF Fits, ForRecipients, Present
  <2> QED BY <1>3, <2>2, <2>3, <2>4, <2>6 DEF Advances, RecipientArrives
<1>4. ASSUME NEW q \in Slots, VoteArrives(q) PROVE Goal(q)
  <2>1. PICK s \in Existing : \E rcp \in MayVote(s) :
          /\ switches[s].quorum # None
          /\ Set(q, [op |-> "vote", recipient |-> rcp, switch |-> s, need |-> switches[s].quorum,
                     pc |-> "update", held |-> FALSE, counted |-> 0])
    BY <1>4 DEF VoteArrives
  <2>2. PICK rcp \in MayVote(s) :
          /\ switches[s].quorum # None
          /\ Set(q, [op |-> "vote", recipient |-> rcp, switch |-> s, need |-> switches[s].quorum,
                     pc |-> "update", held |-> FALSE, counted |-> 0])
    BY <2>1
  <2>3. PICK r : r = [op |-> "vote", recipient |-> rcp, switch |-> s, need |-> switches[s].quorum,
                      pc |-> "update", held |-> FALSE, counted |-> 0]
    OBVIOUS
  <2>4. switches[s].quorum \in Thresholds
    BY <1>0, <2>2 DEF Switch
  <2>5. /\ r \in Request /\ r.op = "vote" /\ r.switch = s /\ r.pc = "update"
        /\ r.recipient = rcp /\ r.need = switches[s].quorum
    BY <1>0, <2>3, <2>4 DEF Request, MayVote, AcceptedBy, Present
  <2>6. Fits(r)
    BY <1>0, <2>5 DEF Fits, ForRecipients, MayVote, AcceptedBy, Present
  <2>7. Votes(q, r)
    BY <1>4, <2>5 DEF Votes, VoteArrives
  <2> QED BY <1>4, <2>2, <2>3, <2>5, <2>6, <2>7 DEF Advances, VoteArrives
<1>5. ASSUME NEW q \in Slots, DuplicateRead(q) PROVE Goal(q)
  <2>1. CASE On(q) \notin Existing
    BY <1>5, <2>1 DEF DuplicateRead
  <2>2. CASE On(q) \in Existing
    <3> DEFINE seen == [policy |-> switches[On(q)].policy, quorum |-> switches[On(q)].quorum]
               read == [requests[q] EXCEPT !.pc = "insert"]
               r == [read EXCEPT !.seen = seen]
    <3>1. Set(q, r)
      BY <1>5, <2>2 DEF DuplicateRead
    <3>2. seen \in [policy : Policies, quorum : Thresholds \cup {None}]
      BY <1>0, <2>2 DEF Switch
    <3>3. /\ requests[q].op = "duplicate"
          /\ requests[q] \in [op : {"duplicate"}, switch : Switches, pc : {"read", "insert"},
               seen : [policy : Policies, quorum : Thresholds \cup {None}] \cup {None}]
      BY <1>0, <1>5 DEF DuplicateRead, At, Request, Plain
    <3> HIDE DEF seen
    <3>4. /\ read \in [op : {"duplicate"}, switch : Switches, pc : {"read", "insert"},
               seen : [policy : Policies, quorum : Thresholds \cup {None}] \cup {None}]
          /\ read.switch = On(q) /\ read.pc = "insert"
      BY <3>3 DEF On
    <3> HIDE DEF read
    <3>5. /\ r \in [op : {"duplicate"}, switch : Switches, pc : {"read", "insert"},
               seen : [policy : Policies, quorum : Thresholds \cup {None}] \cup {None}]
          /\ r.switch = On(q) /\ r.op = "duplicate" /\ r.seen = seen
      BY <3>2, <3>4
    <3> HIDE DEF r
    <3>6. Fits(r)
      BY <1>0, <2>2, <3>5 DEF Fits, ForRecipients, seen
    <3>7. r \in Request
      BY <3>5 DEF Request
    <3>8. Advances(q, r)
      BY <1>5, <3>1, <3>3, <3>5, <3>6, <3>7 DEF Advances, DuplicateRead
    <3> QED BY <3>7, <3>8
  <2> QED BY <2>1, <2>2
<1>6. ASSUME NEW q \in Slots, ArmCheck(q) PROVE Goal(q)
  <2>1. CASE ~ReadyToArm(On(q))
    BY <1>6, <2>1 DEF ArmCheck
  <2>2. CASE ReadyToArm(On(q))
    <3>1. PICK r : r = [requests[q] EXCEPT !.pc = "commit"]
      OBVIOUS
    <3>2. /\ r \in Request /\ r.op = "arm" /\ r.switch = On(q) /\ On(q) \in Switches
          /\ requests[q].op = "arm" /\ requests[q] # None
      BY <1>0, <1>6, <3>1 DEF ArmCheck, At, Request, Plain, On
    <3>3. On(q) \in payloads /\ On(q) \in Existing /\ Reached(On(q))
      BY <2>2, <3>2 DEF ReadyToArm, Reached, AcceptedBy, Present, TypeOK
    <3>4. Fits(r)
      BY <1>0, <3>2, <3>3 DEF Fits, ForRecipients
    <3> QED BY <1>6, <2>2, <3>1, <3>2, <3>4 DEF Advances, ArmCheck
  <2> QED BY <2>1, <2>2
<1> DEFINE Vote == [op : {"vote"}, recipient : Recipients, switch : Switches, need : Thresholds,
                    pc : {"update", "count", "decide"}, held : BOOLEAN, counted : Nat]
<1>7. ASSUME NEW q \in Slots, requests[q] # None, requests[q].op = "vote"
      PROVE  /\ requests[q] \in Vote /\ Fits(requests[q])
             /\ recipients[requests[q].recipient] \in Recipient
  BY <1>0, <1>7 DEF AllFit, Fits, ForRecipients, Request, Plain, TypeOK
<1>8. ASSUME NEW q \in Slots, VoteUpdate(q) PROVE Goal(q)
  <2> DEFINE counting == [requests[q] EXCEPT !.pc = "count"]
             held == recipients[requests[q].recipient].present
             r == [counting EXCEPT !.held = held]
  <2>1. /\ requests[q] \in Vote /\ held \in BOOLEAN /\ Fits(requests[q])
        /\ At(q, "vote", "update") /\ requests[q] # None
    BY <1>7, <1>8 DEF VoteUpdate, At, Recipient
  <2>2. Set(q, r)
    BY <1>8 DEF VoteUpdate
  <2> HIDE DEF held
  <2>3. /\ counting \in Vote /\ counting.switch = On(q) /\ counting.pc = "count"
        /\ counting.need = requests[q].need /\ counting.recipient = requests[q].recipient
    BY <2>1 DEF On
  <2> HIDE DEF counting
  <2>4. /\ r \in Vote /\ r.switch = On(q) /\ r.pc = "count" /\ r.op = "vote"
        /\ r.need = requests[q].need /\ r.recipient = requests[q].recipient
    BY <2>1, <2>3
  <2> HIDE DEF r
  <2>5. Fits(r)
    BY <2>1, <2>4 DEF Fits, ForRecipients, On
  <2>6. Votes(q, r)
    BY <1>8, <2>1, <2>4 DEF Votes, VoteUpdate
  <2>7. r \in Request
    BY <2>4 DEF Request
  <2> QED BY <1>8, <2>2, <2>4, <2>5, <2>6, <2>7 DEF Advances, VoteUpdate
<1>9. ASSUME NEW q \in Slots, VoteCount(q) PROVE Goal(q)
  <2> DEFINE deciding == [requests[q] EXCEPT !.pc = "decide"]
             counted == Cardinality(VotesSeen(q))
             r == [deciding EXCEPT !.counted = counted]
  <2>1. /\ requests[q] \in Vote /\ counted \in Nat /\ Fits(requests[q])
        /\ At(q, "vote", "count") /\ requests[q] # None
        /\ counted <= Cardinality(Voted(On(q)) \cup Gives(requests[q]))
    BY <1>7, <1>9, VotesCounted DEF VoteCount, At
  <2>2. Set(q, r)
    BY <1>9 DEF VoteCount
  <2>3. counted = Cardinality(VotesSeen(q))
    OBVIOUS
  <2> HIDE DEF counted
  <2>4. /\ deciding \in Vote /\ deciding.switch = On(q) /\ deciding.pc = "decide"
        /\ deciding.need = requests[q].need /\ deciding.recipient = requests[q].recipient
        /\ deciding.held = requests[q].held
    BY <2>1 DEF On
  <2> HIDE DEF deciding
  <2>5. /\ r \in Vote /\ r.switch = On(q) /\ r.pc = "decide" /\ r.op = "vote"
        /\ r.need = requests[q].need /\ r.recipient = requests[q].recipient
        /\ r.held = requests[q].held /\ r.counted = counted
    BY <2>1, <2>4
  <2> HIDE DEF r
  <2>6. Fits(r)
    BY <2>1, <2>5 DEF Fits, ForRecipients, On, Gives
  <2>7. Votes(q, r)
    BY <1>9, <2>1, <2>3, <2>5 DEF Votes, VoteCount
  <2>8. r \in Request
    BY <2>5 DEF Request
  <2> QED BY <1>9, <2>2, <2>5, <2>6, <2>7, <2>8 DEF Advances, VoteCount
<1>10. ASSUME NEW q \in Slots,
             \/ DuplicateInsert(q) \/ Patch(q) \/ Delete(q) \/ StorePayload(q) \/ Invite(q)
             \/ AcceptRecipient(q) \/ RemoveRecipient(q) \/ ArmCommit(q) \/ Disarm(q)
             \/ SetTrigger(q) \/ VoteDecide(q) \/ Fails(q)
      PROVE  Ends(q)
  BY <1>10 DEF DuplicateInsert, Patch, Delete, StorePayload, Invite, AcceptRecipient,
     RemoveRecipient, ArmCommit, Disarm, SetTrigger, VoteDecide, Fails, RolledBack
<1>11. Create => requests' = requests
  BY DEF Create
<1>12. ASSUME NEW s \in Switches, Release(s) PROVE requests' = requests
  BY <1>12 DEF Release
<1> HIDE DEF Goal
<1>13. requests' = requests \/ \E q \in Slots : Goal(q)
  <2>1. ASSUME NEW q \in Slots, Handle(q) PROVE Goal(q)
    <3>1. CASE Ends(q)
      BY <3>1 DEF Goal
    <3> QED BY <1>1, <1>2, <1>3, <1>4, <1>5, <1>6, <1>8, <1>9, <1>10, <2>1, <3>1 DEF Handle
  <2> QED BY <1>11, <1>12, <2>1 DEF Next
<1> QED BY <1>13 DEF Goal
-----------------------------------------------------------------------------
(* What is kept.                                                           *)

\* Payloads and quorum jobs: who adds one finds the switch, who deletes it takes both.
LEMMA PayloadStep ==
  ASSUME Next
  PROVE  \/ UNCHANGED payloads
         \/ \E q \in Slots : \/ Delete(q) /\ payloads' = payloads \ {On(q)}
                            \/ /\ payloads' = payloads \cup {On(q)} /\ On(q) \in Existing
                               /\ UNCHANGED switches
<1>1. ASSUME NEW q \in Slots, Delete(q) PROVE payloads' = payloads \ {On(q)}
  BY <1>1 DEF Delete
<1>2. ASSUME NEW q \in Slots, StorePayload(q)
      PROVE  payloads' = payloads \cup {On(q)} /\ On(q) \in Existing /\ UNCHANGED switches
  BY <1>2 DEF StorePayload
<1>3. ASSUME NEW q \in Slots, Handle(q), ~Delete(q), ~StorePayload(q) PROVE UNCHANGED payloads
  BY <1>3 DEF Handle, Arrives, DuplicateArrives, RecipientArrives, VoteArrives, DuplicateRead,
     DuplicateInsert, Patch, Invite, AcceptRecipient, RemoveRecipient, ArmCheck, ArmCommit,
     Disarm, SetTrigger, VoteUpdate, VoteCount, VoteDecide, Fails, RolledBack
<1>4. ASSUME NEW s \in Switches, Release(s) PROVE UNCHANGED payloads
  BY <1>4 DEF Release
<1>5. Create => UNCHANGED payloads
  BY DEF Create
<1> QED BY <1>1, <1>2, <1>3, <1>4, <1>5 DEF Next

LEMMA JobStep ==
  ASSUME Next
  PROVE  \/ UNCHANGED quorumJobs
         \/ \E q \in Slots :
              \/ Delete(q) /\ quorumJobs' = [quorumJobs EXCEPT ![On(q)] = None]
              \/ /\ At(q, "vote", "decide") /\ VoteDecide(q) /\ Enough(q)
                 /\ quorumJobs[On(q)] = None /\ On(q) \in Existing /\ UNCHANGED switches
                 /\ quorumJobs' = [quorumJobs EXCEPT ![On(q)] = requests[q].need]
<1>1. ASSUME NEW q \in Slots, Delete(q) PROVE quorumJobs' = [quorumJobs EXCEPT ![On(q)] = None]
  BY <1>1 DEF Delete
<1>2. ASSUME NEW q \in Slots, VoteDecide(q)
      PROVE  \/ UNCHANGED quorumJobs
             \/ /\ At(q, "vote", "decide") /\ VoteDecide(q) /\ Enough(q)
                /\ quorumJobs[On(q)] = None /\ On(q) \in Existing /\ UNCHANGED switches
                /\ quorumJobs' = [quorumJobs EXCEPT ![On(q)] = requests[q].need]
  BY <1>2 DEF VoteDecide
<1>3. ASSUME NEW q \in Slots, Handle(q), ~Delete(q), ~VoteDecide(q) PROVE UNCHANGED quorumJobs
  BY <1>3 DEF Handle, Arrives, DuplicateArrives, RecipientArrives, VoteArrives, DuplicateRead,
     DuplicateInsert, Patch, StorePayload, Invite, AcceptRecipient, RemoveRecipient, ArmCheck,
     ArmCommit, Disarm, SetTrigger, VoteUpdate, VoteCount, Fails, RolledBack
<1>4. ASSUME NEW s \in Switches, Release(s) PROVE UNCHANGED quorumJobs
  BY <1>4 DEF Release
<1>5. Create => UNCHANGED quorumJobs
  BY DEF Create
<1> QED BY <1>1, <1>2, <1>3, <1>4, <1>5 DEF Next

\* A switch that exists goes on to, unless it is deleted, and nobody deletes or changes
\* it while a request holds its row.
LEMMA ExistingStep ==
  ASSUME TypeOK, AllFit, Next, NEW s \in Switches
  PROVE  /\ switches[s] # None => switches'[s] # None
         /\ s \in Existing => s \in Existing' \/ \E q \in Slots : Delete(q) /\ On(q) = s
         /\ s \in Existing /\ (Exclusive(s) \/ Shared(s)) =>
              /\ s \in Existing'
              /\ switches'[s].policy = switches[s].policy
              /\ switches'[s].quorum = switches[s].quorum
<1>1. SwitchBecomes(s)
  BY SwitchStep
<1>2. \A q \in Slots : Delete(q) => Updatable(On(q))
  BY DEF Delete
<1>3. s \in Existing => switches[s] \notin {None, Gone}
  BY DEF Existing
<1> QED BY <1>1, <1>2, <1>3, SetupConstants, SetupRows DEF SwitchBecomes, Updatable, Existing

\* Nobody who was invited is forgotten, nor is an acceptance or a vote taken back.
LEMMA RecipientKept ==
  ASSUME TypeOK, AllFit, Next, NEW r \in Recipients, recipients[r] # None
  PROVE  /\ recipients'[r] # None /\ recipients'[r].switch = recipients[r].switch
         /\ recipients[r].status = "accepted" => recipients'[r].status = "accepted"
         /\ recipients[r].vote => recipients'[r].vote
<1>1. RecipientBecomes(r) /\ recipients[r] \in Recipient
  BY RecipientStep DEF TypeOK
<1>2. CASE recipients'[r] = [recipients[r] EXCEPT !.vote = TRUE]
  <2>1. /\ recipients'[r] \in Recipient /\ recipients'[r].switch = recipients[r].switch
        /\ recipients'[r].status = recipients[r].status /\ recipients'[r].vote
    BY <1>1, <1>2 DEF Recipient
  <2> QED BY <2>1, SetupRows
<1> QED BY <1>1, <1>2, SetupRows DEF RecipientBecomes

LEMMA VotesKept ==
  ASSUME TypeOK, AllFit, Next, NEW s
  PROVE  Voted(s) \subseteq Voted(s)' /\ (Reached(s) => Reached(s)')
BY RecipientKept DEF Voted, Reached

LEMMA FitsStep ==
  ASSUME TypeOK, AllFit, Next
  PROVE  AllFit'
<1> SUFFICES ASSUME NEW p \in Slots, requests'[p] # None
             PROVE  Fits(requests[p])'
  BY DEF AllFit
<1>0. requests \in [Slots -> Request \cup {None}]
  BY DEF TypeOK
<1>1. ASSUME NEW q \in Slots, NEW request \in Request, Advances(q, request)
      PROVE  Fits(requests[p])'
  <2>1. UNCHANGED <<switches, recipients, payloads>>
    BY <1>1 DEF Advances
  <2>2. Fits(requests'[p])
    BY <1>0, <1>1 DEF Advances, Set, AllFit
  <2> QED BY <2>1, <2>2 DEF Fits, Existing, Reached, Voted, Gives
<1>2. ASSUME requests'[p] = requests[p] PROVE Fits(requests[p])'
  <2>0. PICK s : s = requests[p].switch
    OBVIOUS
  <2>1. Fits(requests[p]) /\ requests[p] \in Request /\ requests[p] # None /\ s \in Switches
    BY <1>0, <1>2, <2>0 DEF AllFit, Request
  <2>2. requests[p].op \in ForRecipients => requests[p].recipient \in Recipients
    BY <2>1 DEF Request, ForRecipients, Plain
  <2>3. switches'[s] # None
    BY <2>0, <2>1, ExistingStep DEF Fits
  <2>4. requests[p].op \in ForRecipients =>
          recipients'[requests[p].recipient] # None /\ recipients'[requests[p].recipient].switch = s
    BY <2>0, <2>1, <2>2, RecipientKept DEF Fits
  <2>5. requests[p].op = "vote" => recipients'[requests[p].recipient].status = "accepted"
    BY <2>1, <2>2, RecipientKept DEF Fits, ForRecipients
  <2>6. requests[p].op = "arm" /\ requests[p].pc = "commit" =>
          s \in Existing' \cap payloads' /\ Reached(s)'
    <3> SUFFICES ASSUME requests[p].op = "arm", requests[p].pc = "commit"
                 PROVE  s \in Existing' \cap payloads' /\ Reached(s)'
      OBVIOUS
    <3>1. Exclusive(s) /\ s \in Existing \cap payloads /\ Reached(s)
      <4>1. At(p, "arm", "commit") /\ On(p) = s
        BY <2>0, <2>1 DEF At, On
      <4>2. Exclusive(s)
        BY <4>1 DEF Exclusive
      <4> QED BY <2>0, <2>1, <4>2 DEF Fits, Reached
    <3>2. s \in Existing' /\ Reached(s)'
      BY <2>1, <3>1, ExistingStep, VotesKept
    <3>3. \A q \in Slots : Delete(q) => On(q) # s
      BY <3>1 DEF Delete, Updatable
    <3>4. s \in payloads'
      BY <3>1, <3>3, PayloadStep
    <3> QED BY <3>2, <3>4
  <2>7. requests[p].op = "duplicate" /\ requests[p].pc = "insert" =>
          /\ s \in Existing'
          /\ requests[p].seen = [policy |-> switches'[s].policy, quorum |-> switches'[s].quorum]
    <3> SUFFICES ASSUME requests[p].op = "duplicate", requests[p].pc = "insert"
                 PROVE  /\ s \in Existing'
                        /\ requests[p].seen = [policy |-> switches'[s].policy,
                                               quorum |-> switches'[s].quorum]
      OBVIOUS
    <3>1. /\ Shared(s) /\ s \in Existing
          /\ requests[p].seen = [policy |-> switches[s].policy, quorum |-> switches[s].quorum]
      BY <2>0, <2>1 DEF Fits, Shared, At, On
    <3> QED BY <2>1, <3>1, ExistingStep
  <2>8. requests[p].op = "vote" /\ requests[p].pc = "decide" =>
          requests[p].counted <= Cardinality(Voted(s)' \cup Gives(requests[p]))
    <3> SUFFICES ASSUME requests[p].op = "vote", requests[p].pc = "decide"
                 PROVE  requests[p].counted <= Cardinality(Voted(s)' \cup Gives(requests[p]))
      OBVIOUS
    <3>1. /\ requests[p].counted \in Nat /\ Gives(requests[p]) \subseteq Recipients
          /\ requests[p].counted <= Cardinality(Voted(s) \cup Gives(requests[p]))
      <4>1. requests[p].counted \in Nat /\ requests[p].recipient \in Recipients
        BY <2>1 DEF Request, Plain
      <4>2. requests[p].counted <= Cardinality(Voted(s) \cup Gives(requests[p]))
        BY <2>0, <2>1 DEF Fits, Voted
      <4> QED BY <4>1, <4>2 DEF Gives
    <3>2. /\ Voted(s) \cup Gives(requests[p]) \subseteq Voted(s)' \cup Gives(requests[p])
          /\ Voted(s)' \cup Gives(requests[p]) \subseteq Recipients
      BY <3>1, VotesKept DEF Voted
    <3>3. IsFiniteSet(Voted(s)' \cup Gives(requests[p]))
      BY <3>2, SetupConstants, FS_Subset
    <3>4. /\ Cardinality(Voted(s) \cup Gives(requests[p]))
                 <= Cardinality(Voted(s)' \cup Gives(requests[p]))
          /\ Cardinality(Voted(s) \cup Gives(requests[p])) \in Nat
          /\ Cardinality(Voted(s)' \cup Gives(requests[p])) \in Nat
      BY <3>2, <3>3, FS_Subset, FS_CardinalityType
    <3> QED BY <3>1, <3>4
  <2> QED BY <1>2, <2>0, <2>3, <2>4, <2>5, <2>6, <2>7, <2>8 DEF Fits, Gives
<1>3. ASSUME NEW q \in Slots, Ends(q) PROVE requests'[p] = requests[p]
  BY <1>0, <1>3 DEF Ends, Set
<1> QED BY <1>1, <1>2, <1>3, RequestStep

\* Only a new threshold or a second open vote disturbs, and nothing calms again.
LEMMA DisturbedStep ==
  ASSUME TypeOK, Next
  PROVE  disturbed \subseteq disturbed' /\ disturbed' \subseteq Switches
<1>0. disturbed \subseteq Switches
  BY DEF TypeOK
<1>1. ASSUME NEW q \in Slots, SetTrigger(q) \/ VoteUpdate(q)
      PROVE  /\ disturbed' \in {disturbed, disturbed \cup {On(q)}}
             /\ On(q) \in Switches
  BY <1>1, RequestOn DEF SetTrigger, VoteUpdate, At
<1>2. ASSUME NEW q \in Slots, Handle(q), ~SetTrigger(q), ~VoteUpdate(q)
      PROVE  UNCHANGED disturbed
  BY <1>2 DEF Handle, Arrives, DuplicateArrives, RecipientArrives, VoteArrives, DuplicateRead,
     DuplicateInsert, Patch, Delete, StorePayload, Invite, AcceptRecipient, RemoveRecipient,
     ArmCheck, ArmCommit, Disarm, VoteCount, VoteDecide, Fails, RolledBack
<1>3. ASSUME NEW s \in Switches, Release(s) PROVE UNCHANGED disturbed
  BY <1>3 DEF Release
<1>4. Create => UNCHANGED disturbed
  BY DEF Create
<1> QED BY <1>0, <1>1, <1>2, <1>3, <1>4 DEF Next
-----------------------------------------------------------------------------
(* Types.                                                                  *)

\* A recipient present after a step was present before it, or was just invited; whoever
\* has a vote then had it before, or just gave it.
LEMMA PresentBefore ==
  ASSUME TypeOK, AllFit, Next, NEW s \in Switches, NEW r \in Present(s)'
  PROVE  \/ r \in Present(s)
         \/ s \in Existing /\ UNCHANGED switches /\ r \notin VotesFor(s)'
<1>1. /\ r \in Recipients /\ recipients'[r] # None /\ recipients'[r].switch = s
      /\ recipients'[r].present
  BY DEF Present
<1>2. RecipientBecomes(r) /\ (recipients[r] # None => recipients[r] \in Recipient)
  BY <1>1, RecipientStep DEF TypeOK
<1>3. CASE recipients[r] # None /\ recipients'[r] = [recipients[r] EXCEPT !.vote = TRUE]
  <2>1. /\ recipients'[r].switch = recipients[r].switch
        /\ recipients'[r].present = recipients[r].present
    BY <1>2, <1>3 DEF Recipient
  <2> QED BY <1>1, <1>3, <2>1 DEF Present
<1> QED BY <1>1, <1>2, <1>3 DEF RecipientBecomes, Present, VotesFor

LEMMA VotesAccepted ==
  ASSUME TypeOK, AllFit, Next, NEW s \in Switches
  PROVE  (VotesFor(s) \subseteq AcceptedBy(s))'
<1> SUFFICES ASSUME NEW r \in VotesFor(s)' PROVE r \in AcceptedBy(s)'
  OBVIOUS
<1>1. r \in Present(s)' /\ r \in Recipients /\ recipients'[r].vote
  BY DEF VotesFor, Present
<1>2. r \in Present(s)
  BY <1>1, PresentBefore
<1>3. recipients[r] # None /\ recipients[r] \in Recipient /\ RecipientBecomes(r)
  BY <1>1, <1>2, RecipientStep DEF Present, TypeOK
<1>4. recipients[r].status = "accepted"
  <2>1. CASE recipients[r].vote
    BY <1>2, <2>1 DEF TypeOK, VotesFor, AcceptedBy
  <2> QED BY <1>1, <1>3, <2>1 DEF RecipientBecomes
<1>5. recipients'[r].status = "accepted"
  BY <1>1, <1>3, <1>4, RecipientKept
<1> QED BY <1>1, <1>5 DEF AcceptedBy

LEMMA NothingLeftBehind ==
  ASSUME TypeOK, AllFit, Next, NEW s \in Switches,
         s \in payloads' \/ quorumJobs'[s] # None \/ Present(s)' # {}
  PROVE  s \in Existing'
<1>0. /\ recipients \in [Recipients -> Recipient \cup {None}]
      /\ quorumJobs \in [Switches -> Thresholds \cup {None}]
      /\ s \notin Existing => s \notin payloads /\ quorumJobs[s] = None /\ Present(s) = {}
  BY DEF TypeOK
<1>1. s \in Existing
  <2> SUFFICES ASSUME s \notin Existing PROVE FALSE
    OBVIOUS
  <2>1. s \notin payloads'
    BY <1>0, PayloadStep
  <2>2. quorumJobs'[s] = None
    BY <1>0, JobStep
  <2>3. Present(s)' = {}
    BY <1>0, PresentBefore
  <2> QED BY <2>1, <2>2, <2>3
<1>2. ASSUME NEW q \in Slots, Delete(q), On(q) = s PROVE FALSE
  <2>1. s \notin payloads' /\ quorumJobs'[s] = None
    BY <1>0, <1>2 DEF Delete
  <2>2. ASSUME NEW r \in Present(s)' PROVE FALSE
    <3>1. /\ r \in Recipients /\ recipients'[r] # None /\ recipients'[r].present
          /\ recipients'[r].switch = s
      BY <2>2 DEF Present
    <3>2. r \notin Present(s) => recipients'[r] = recipients[r]
      BY <1>2, <3>1 DEF Delete
    <3>3. r \in Present(s)
      BY <3>1, <3>2 DEF Present
    <3>4. recipients'[r] = [recipients[r] EXCEPT !.present = FALSE] /\ recipients[r] \in Recipient
      BY <1>0, <1>2, <3>1, <3>3 DEF Delete, Present
    <3> QED BY <3>1, <3>4 DEF Recipient
  <2> QED BY <2>1, <2>2
<1> QED BY <1>1, <1>2, ExistingStep

LEMMA TypesStep ==
  ASSUME TypeOK, AllFit, Next
  PROVE  TypeOK'
<1>0. requests \in [Slots -> Request \cup {None}]
  BY DEF TypeOK
<1>1. requests' \in [Slots -> Request \cup {None}]
  BY <1>0, RequestStep DEF Advances, Ends, Set
<1>2. quorumJobs' \in [Switches -> Thresholds \cup {None}]
  <2>1. quorumJobs \in [Switches -> Thresholds \cup {None}]
    BY DEF TypeOK
  <2>2. ASSUME NEW q \in Slots, At(q, "vote", "decide") PROVE requests[q].need \in Thresholds
    BY <1>0, <2>2 DEF At, Request, Plain
  <2> QED BY <2>1, <2>2, JobStep
<1>3. payloads' \subseteq Switches
  BY PayloadStep DEF TypeOK, Existing
<1>4. \A s \in Switches : /\ (VotesFor(s) \subseteq AcceptedBy(s))'
                          /\ s \in payloads' \/ quorumJobs'[s] # None \/ Present(s)' # {}
                               => s \in Existing'
  BY VotesAccepted, NothingLeftBehind
<1> QED BY <1>1, <1>2, <1>3, <1>4, SwitchStep, RecipientStep, DisturbedStep DEF TypeOK
-----------------------------------------------------------------------------
(* Deliverable and QuorumBacked.                                           *)

LEMMA DeliverableStep ==
  ASSUME TypeOK, AllFit, Deliverable, Next
  PROVE  Deliverable'
<1> SUFFICES ASSUME NEW s \in Existing', switches'[s].started
             PROVE  s \in payloads' /\ Reached(s)'
  BY DEF Deliverable, Reached
<1>0. s \in Switches /\ SwitchBecomes(s) /\ switches'[s] \notin {None, Gone}
  BY SwitchStep DEF Existing
<1>1. s \in Existing /\ s \in payloads /\ Reached(s)
  <2>1. CASE s \in Existing /\ switches[s].started
    BY <2>1 DEF Deliverable, Reached
  <2>2. ASSUME NEW q \in Slots, At(q, "arm", "commit"), On(q) = s
        PROVE  s \in Existing /\ s \in payloads /\ Reached(s)
    BY <2>2 DEF AllFit, Fits, At, On
  <2> QED BY <1>0, <2>1, <2>2 DEF SwitchBecomes, Existing
<1>2. ASSUME NEW q \in Slots, Delete(q) PROVE On(q) # s
  BY <1>0, <1>1, <1>2 DEF Delete, TypeOK
<1> QED BY <1>1, <1>2, PayloadStep, VotesKept

LEMMA BackedStep ==
  ASSUME TypeOK, AllFit, QuorumBacked, Next
  PROVE  QuorumBacked'
<1> SUFFICES ASSUME NEW s \in Existing', quorumJobs'[s] # None
             PROVE  Cardinality(Voted(s)') >= quorumJobs'[s]
  BY DEF QuorumBacked, Voted
<1>0. /\ s \in Switches /\ quorumJobs \in [Switches -> Thresholds \cup {None}]
      /\ Thresholds \subseteq Nat
  BY SetupConstants DEF TypeOK, Existing
<1>1. IsFiniteSet(Voted(s)') /\ Voted(s) \subseteq Voted(s)'
  <2>1. Voted(s)' \subseteq Recipients
    BY DEF Voted
  <2> QED BY <2>1, VotesKept, SetupConstants, FS_Subset
<1>2. /\ Cardinality(Voted(s)) \in Nat /\ Cardinality(Voted(s)') \in Nat
      /\ Cardinality(Voted(s)) <= Cardinality(Voted(s)')
  BY <1>1, FS_Subset, FS_CardinalityType
<1>3. CASE quorumJobs'[s] = quorumJobs[s]
  <2>1. s \in Existing
    BY <1>0, <1>3 DEF TypeOK
  <2>2. Cardinality(Voted(s)) >= quorumJobs[s]
    BY <1>3, <2>1 DEF QuorumBacked, Voted
  <2>3. quorumJobs[s] \in Nat
    BY <1>0, <1>3
  <2> QED BY <1>2, <1>3, <2>2, <2>3
<1>4. CASE quorumJobs'[s] # quorumJobs[s]
  <2>1. PICK q \in Slots : /\ At(q, "vote", "decide") /\ VoteDecide(q) /\ Enough(q) /\ On(q) = s
                           /\ quorumJobs'[s] = requests[q].need
    BY <1>0, <1>4, JobStep
  <2>2. /\ requests[q].need \in Nat /\ requests[q].counted \in Nat
        /\ requests[q].recipient \in Recipients /\ Fits(requests[q])
        /\ requests[q].op = "vote" /\ requests[q].pc = "decide" /\ requests[q].switch = s
    BY <1>0, <2>1 DEF At, AllFit, TypeOK, Request, Plain, On
  <2>3. /\ requests[q].need <= requests[q].counted
        /\ requests[q].counted <= Cardinality(Voted(s) \cup Gives(requests[q]))
    BY <2>1, <2>2 DEF Enough, Fits, Voted
  <2>4. Gives(requests[q]) \subseteq Voted(s)'
    <3>1. PICK r : r = requests[q].recipient
      OBVIOUS
    <3>2. CASE requests[q].held
      <4>1. /\ r \in Recipients /\ recipients \in [Recipients -> Recipient \cup {None}]
            /\ recipients' = [recipients EXCEPT ![r].vote = TRUE]
            /\ recipients[r] # None /\ recipients[r].switch = s
        BY <2>1, <2>2, <3>1, <3>2 DEF VoteDecide, TypeOK, Fits, ForRecipients
      <4>2. recipients'[r] = [recipients[r] EXCEPT !.vote = TRUE] /\ recipients[r] \in Recipient
        BY <4>1
      <4>3. recipients'[r] \in Recipient /\ recipients'[r].vote /\ recipients'[r].switch = s
        BY <4>1, <4>2 DEF Recipient
      <4> QED BY <3>1, <4>1, <4>3, SetupRows DEF Gives, Voted
    <3> QED BY <3>2 DEF Gives
  <2>5. /\ Voted(s) \cup Gives(requests[q]) \subseteq Voted(s)'
    BY <1>1, <2>4
  <2>6. /\ Cardinality(Voted(s) \cup Gives(requests[q])) <= Cardinality(Voted(s)')
        /\ Cardinality(Voted(s) \cup Gives(requests[q])) \in Nat
    BY <1>1, <2>5, FS_Subset, FS_CardinalityType
  <2> QED BY <1>2, <2>1, <2>2, <2>3, <2>6
<1> QED BY <1>3, <1>4
-----------------------------------------------------------------------------
(* Votes in turn, and QuorumNoticed.                                       *)

\* The votes in flight for a switch nobody disturbs.
LEMMA VoteStep ==
  ASSUME TypeOK, AllFit, Next, NEW s \in Switches, s \notin disturbed',
         NEW p \in Slots, requests'[p] # None, requests'[p].op = "vote", requests'[p].switch = s
  PROVE  \/ requests'[p] = requests[p]
         \/ /\ UNCHANGED <<switches, recipients>>
            /\ \A q \in Slots \ {p} : requests'[q] = requests[q]
            /\ \/ /\ requests[p] = None /\ requests'[p].pc = "update"
                  /\ requests'[p].need = switches[s].quorum
               \/ /\ At(p, "vote", "update") /\ On(p) = s /\ requests'[p].pc = "count"
                  /\ requests'[p].need = requests[p].need /\ OpenVotes(s) = {}
               \/ /\ At(p, "vote", "count") /\ On(p) = s /\ requests'[p].pc = "decide"
                  /\ requests'[p].need = requests[p].need
                  /\ requests'[p].held = requests[p].held
                  /\ requests'[p].recipient = requests[p].recipient
                  /\ requests'[p].counted = Cardinality(VotesSeen(p))
<1>0. requests \in [Slots -> Request \cup {None}]
  BY DEF TypeOK
<1>1. ASSUME NEW q \in Slots, Ends(q) PROVE requests'[p] = requests[p]
  BY <1>0, <1>1 DEF Ends, Set
<1>2. ASSUME NEW q \in Slots, NEW request \in Request, Advances(q, request), q # p
      PROVE  requests'[p] = requests[p]
  BY <1>0, <1>2 DEF Advances, Set
<1>3. ASSUME NEW request \in Request, Advances(p, request)
      PROVE  /\ UNCHANGED <<switches, recipients>> /\ requests'[p] = request
             /\ \A q \in Slots \ {p} : requests'[q] = requests[q]
             /\ Votes(p, request)
  BY <1>0, <1>3 DEF Advances, Set
<1> QED BY <1>1, <1>2, <1>3, RequestStep DEF Votes

\* Votes are given one by one, each by the request that held it.
LEMMA VoteGiven ==
  ASSUME TypeOK, AllFit, Next, NEW s \in Switches
  PROVE  \/ VotesFor(s)' \subseteq VotesFor(s)
         \/ \E q \in OpenVotes(s) : /\ At(q, "vote", "decide") /\ VoteDecide(q)
                                    /\ VotesFor(s)' \subseteq VotesSeen(q)
<1> SUFFICES ASSUME NEW r \in VotesFor(s)', r \notin VotesFor(s)
             PROVE  \E q \in OpenVotes(s) : /\ At(q, "vote", "decide") /\ VoteDecide(q)
                                           /\ VotesFor(s)' \subseteq VotesSeen(q)
  OBVIOUS
<1>0. requests \in [Slots -> Request \cup {None}]
  BY DEF TypeOK
<1>1. ASSUME NEW t \in VotesFor(s)', t \notin VotesFor(s)
      PROVE  \E q \in Slots : /\ VoteDecide(q) /\ At(q, "vote", "decide") /\ On(q) = s
                               /\ requests[q].held /\ requests[q].recipient = t
  <2>1. /\ t \in Present(s)' /\ t \in Recipients /\ recipients'[t].vote
    BY <1>1 DEF VotesFor, Present
  <2>2. t \in Present(s)
    BY <2>1, <1>1, PresentBefore
  <2>3. RecipientBecomes(t) /\ recipients[t] # None /\ recipients[t].switch = s
    BY <2>1, <2>2, RecipientStep DEF Present
  <2> QED BY <1>1, <2>1, <2>2, <2>3 DEF RecipientBecomes, VotesFor
<1>2. PICK q \in Slots : /\ VoteDecide(q) /\ At(q, "vote", "decide") /\ On(q) = s
                         /\ requests[q].held /\ requests[q].recipient = r
  BY <1>1
<1>3. ASSUME NEW t \in VotesFor(s)' PROVE t \in VotesSeen(q)
  <2>1. CASE t \in VotesFor(s)
    BY <1>2, <2>1 DEF VotesSeen
  <2>2. CASE t \notin VotesFor(s)
    <3>1. PICK p \in Slots : /\ VoteDecide(p) /\ At(p, "vote", "decide") /\ On(p) = s
                             /\ requests[p].held /\ requests[p].recipient = t
      BY <1>1, <1>3, <2>2
    <3>2. p = q
      <4>1. requests'[p] = None /\ requests' = [requests EXCEPT ![q] = None]
        BY <1>0, <1>2, <3>1 DEF VoteDecide, Ends, Set
      <4> QED BY <1>0, <3>1, <4>1 DEF At
    <3> QED BY <1>2, <3>1, <3>2 DEF VotesSeen
  <2> QED BY <2>1, <2>2
<1> QED BY <1>2, <1>3 DEF OpenVotes, Voting

\* The threshold of an undisturbed switch changes only while there is nothing to count.
LEMMA ThresholdStep ==
  ASSUME TypeOK, AllFit, Next, NEW s \in Existing, s \in Existing', s \notin disturbed'
  PROVE  \/ switches'[s].quorum = switches[s].quorum
         \/ /\ VotesFor(s)' = {}
            /\ \A p \in Slots : requests'[p] # None /\ requests'[p].op = "vote"
                                 => requests'[p].switch # s
<1>0. s \in Switches /\ requests \in [Slots -> Request \cup {None}]
  BY DEF Existing, TypeOK
<1>1. ASSUME NEW q \in Slots, SetTrigger(q), On(q) = s
      PROVE  /\ VotesFor(s)' = {}
             /\ \A p \in Slots : requests'[p] # None /\ requests'[p].op = "vote"
                                  => requests'[p].switch # s
  <2>1. /\ VotesFor(s) = {} /\ UNCHANGED recipients
        /\ \A p \in Slots \ {q} : ~(requests[p] # None /\ requests[p].op = "vote" /\ On(p) = s)
    BY <1>1 DEF SetTrigger
  <2>2. requests'[q] = None /\ \A p \in Slots \ {q} : requests'[p] = requests[p]
    BY <1>0, <1>1 DEF SetTrigger, Ends, Set
  <2>3. VotesFor(s)' = {}
    BY <2>1 DEF VotesFor, Present
  <2> QED BY <2>1, <2>2, <2>3 DEF On
<1>2. SwitchBecomes(s) /\ switches[s] \notin {None, Gone} /\ switches'[s] \notin {None, Gone}
  BY <1>0, SwitchStep DEF Existing
<1> QED BY <1>1, <1>2 DEF SwitchBecomes

\* Nobody is about to vote for a switch that is only being made.
LEMMA MadeWithoutVotes ==
  ASSUME TypeOK, AllFit, Next, NEW s \in Existing', s \notin Existing
  PROVE  /\ \A p \in Slots : requests'[p] # None => requests'[p].switch # s
         /\ VotesFor(s)' = {}
<1>0. s \in Switches /\ requests \in [Slots -> Request \cup {None}]
  BY DEF Existing, TypeOK
<1>1. switches[s] = None /\ switches'[s] # None
  BY <1>0, SwitchStep DEF SwitchBecomes, Existing
<1>2. ASSUME NEW p \in Slots, requests'[p] # None PROVE requests'[p].switch # s
  <2>1. requests'[p] = requests[p]
    <3>1. ASSUME NEW q \in Slots, Ends(q) PROVE requests'[p] = requests[p]
      BY <1>0, <1>2, <3>1 DEF Ends, Set
    <3> QED BY <1>1, <3>1, RequestStep DEF Advances
  <2> QED BY <1>1, <1>2, <2>1 DEF AllFit, Fits
<1>3. Present(s) = {}
  BY <1>0 DEF TypeOK
<1> QED BY <1>0, <1>2, <1>3, PresentBefore DEF VotesFor

LEMMA InTurnStep ==
  ASSUME TypeOK, AllFit, Undisturbed, Next, NEW s \in Existing', s \notin disturbed'
  PROVE  InTurn(s)'
<1>0. /\ s \in Switches /\ s \notin disturbed
      /\ requests \in [Slots -> Request \cup {None}]
  BY DisturbedStep DEF Existing, TypeOK
<1>1. CASE s \notin Existing
  BY <1>1, MadeWithoutVotes DEF InTurn, OpenVotes, Voting, At, On
<1>2. CASE s \in Existing
  <2>0. InTurn(s)
    BY <1>0, <1>2 DEF Undisturbed
  <2>1. ASSUME NEW p \in Slots, requests'[p] # None, requests'[p].op = "vote",
               requests'[p].switch = s
        PROVE  requests'[p].need = switches'[s].quorum
    <3>1. switches'[s].quorum = switches[s].quorum
      BY <1>2, <2>1, ThresholdStep
    <3>2. CASE requests[p] = None
      BY <1>0, <2>1, <3>1, <3>2, VoteStep DEF At
    <3>3. CASE requests[p] # None
      <4>1. /\ requests[p].op = "vote" /\ On(p) = s
            /\ requests'[p].need = requests[p].need
        BY <1>0, <2>1, <3>3, VoteStep DEF At, On
      <4> QED BY <2>0, <3>1, <3>3, <4>1 DEF InTurn
    <3> QED BY <3>2, <3>3
  <2>2. ASSUME NEW p \in Slots, requests'[p] # None, requests'[p].op = "vote",
               requests'[p].switch = s, requests'[p].pc \in {"count", "decide"}
        PROVE  \/ p \in OpenVotes(s)
               \/ /\ OpenVotes(s) = {}
                  /\ \A q \in Slots \ {p} : requests'[q] = requests[q]
    BY <1>0, <2>2, VoteStep DEF OpenVotes, Voting, At, On
  <2>3. ASSUME NEW p \in OpenVotes(s)', NEW q \in OpenVotes(s)' PROVE p = q
    <3>1. ASSUME NEW x \in OpenVotes(s)'
          PROVE  /\ x \in Slots /\ requests'[x] # None /\ requests'[x].op = "vote"
                 /\ requests'[x].switch = s /\ requests'[x].pc \in {"count", "decide"}
      BY <3>1 DEF OpenVotes, Voting, At, On
    <3>2. CASE p \in OpenVotes(s) /\ q \in OpenVotes(s)
      BY <2>0, <3>2 DEF InTurn
    <3>3. CASE OpenVotes(s) = {}
      <4> SUFFICES ASSUME p # q PROVE FALSE
        OBVIOUS
      <4>1. requests'[q] = requests[q]
        BY <2>2, <3>1, <3>3
      <4>2. q \in OpenVotes(s)
        BY <3>1, <4>1 DEF OpenVotes, Voting, At, On
      <4> QED BY <3>3, <4>2
    <3> QED BY <2>2, <3>1, <3>2, <3>3
  <2>4. ASSUME NEW q \in OpenVotes(s)', requests'[q].pc = "decide"
        PROVE  Cardinality(VotesSeen(q))' <= requests'[q].counted
    <3>1. /\ q \in Slots /\ requests'[q] # None /\ requests'[q].op = "vote"
          /\ requests'[q].switch = s
      BY <2>4 DEF OpenVotes, Voting, At, On
    <3>2. requests'[q] \in Request
      BY <3>1, TypesStep DEF TypeOK
    <3>3. requests'[q].counted \in Nat /\ requests'[q].recipient \in Recipients
      BY <3>1, <3>2 DEF Request, Plain
    <3>4. CASE requests'[q] = requests[q]
      <4>1. q \in OpenVotes(s) /\ At(q, "vote", "decide") /\ On(q) = s
        BY <2>4, <3>1, <3>4 DEF OpenVotes, Voting, At, On
      <4>2. Cardinality(VotesSeen(q)) <= requests[q].counted
        BY <2>0, <4>1 DEF InTurn
      <4>3. ~VoteDecide(q)
        BY <1>0, <3>1 DEF VoteDecide, Ends, Set
      <4>4. VotesFor(s)' \subseteq VotesFor(s)
        BY <1>0, <2>0, <4>1, <4>3, VoteGiven DEF InTurn
      <4>5. VotesSeen(q)' \subseteq VotesSeen(q) /\ VotesSeen(q) \subseteq Recipients
        BY <3>1, <3>3, <3>4, <4>1, <4>4 DEF VotesSeen, On, VotesFor, Present
      <4>6. /\ Cardinality(VotesSeen(q)') <= Cardinality(VotesSeen(q))
            /\ Cardinality(VotesSeen(q)') \in Nat /\ Cardinality(VotesSeen(q)) \in Nat
        <5>1. IsFiniteSet(VotesSeen(q))
          BY <4>5, SetupConstants, FS_Subset
        <5> QED BY <4>5, <5>1, FS_Subset, FS_CardinalityType
      <4> QED BY <3>3, <3>4, <4>2, <4>6
    <3>5. CASE requests'[q] # requests[q]
      <4>1. /\ At(q, "vote", "count") /\ On(q) = s /\ UNCHANGED recipients
            /\ requests'[q].held = requests[q].held
            /\ requests'[q].recipient = requests[q].recipient
            /\ requests'[q].counted = Cardinality(VotesSeen(q))
        BY <1>0, <2>4, <3>1, <3>5, VoteStep
      <4>2. VotesSeen(q)' = VotesSeen(q)
        BY <3>1, <4>1 DEF VotesSeen, On, VotesFor, Present
      <4> QED BY <3>3, <4>1, <4>2
    <3> QED BY <3>4, <3>5
  <2> QED BY <2>1, <2>3, <2>4 DEF InTurn, At, On
<1> QED BY <1>1, <1>2

LEMMA NoticedStep ==
  ASSUME TypeOK, AllFit, Undisturbed, QuorumNoticed, Next
  PROVE  QuorumNoticed'
<1> SUFFICES ASSUME NEW s \in Existing', s \notin disturbed', switches'[s].quorum # None,
                    Cardinality(VotesFor(s)') >= switches'[s].quorum
             PROVE  quorumJobs'[s] # None
  BY DEF QuorumNoticed
<1>0. /\ s \in Switches /\ s \notin disturbed /\ switches'[s] \in Switch
      /\ quorumJobs \in [Switches -> Thresholds \cup {None}]
  BY DisturbedStep, SwitchStep DEF Existing, TypeOK
<1>1. switches'[s].quorum \in Nat /\ switches'[s].quorum >= 2
  <2>1. switches'[s].quorum \in Thresholds \cup {None}
    BY <1>0 DEF Switch
  <2>2. switches'[s].quorum \in 2..255
    BY <2>1, SetupConstants
  <2> QED BY <2>2
<1>2. VotesFor(s)' # {}
  BY <1>1, FS_EmptySet
<1>3. s \in Existing /\ switches'[s].quorum = switches[s].quorum
  BY <1>2, MadeWithoutVotes, ThresholdStep
<1>4. CASE quorumJobs[s] # None
  <2>1. ASSUME NEW q \in Slots, Delete(q) PROVE On(q) # s
    BY <1>0, <2>1 DEF Delete, TypeOK, Existing
  <2>2. \A q \in Slots : At(q, "vote", "decide") => On(q) # s \/ quorumJobs[s] # None
    BY <1>4
  <2> QED BY <1>0, <1>4, <2>1, JobStep
<1>5. CASE VotesFor(s)' \subseteq VotesFor(s)
  <2>1. IsFiniteSet(VotesFor(s))
    BY SetupConstants, FS_Subset DEF VotesFor, Present
  <2>2. /\ Cardinality(VotesFor(s)') <= Cardinality(VotesFor(s))
        /\ Cardinality(VotesFor(s)') \in Nat /\ Cardinality(VotesFor(s)) \in Nat
    BY <1>5, <2>1, FS_Subset, FS_CardinalityType
  <2>3. Cardinality(VotesFor(s)) >= switches[s].quorum
    BY <1>1, <1>3, <2>2
  <2> QED BY <1>0, <1>3, <1>4, <2>3 DEF QuorumNoticed
<1>6. ASSUME NEW q \in OpenVotes(s), At(q, "vote", "decide"), VoteDecide(q),
             VotesFor(s)' \subseteq VotesSeen(q)
      PROVE  quorumJobs'[s] # None
  <2>1. q \in Slots /\ On(q) = s /\ requests[q] # None /\ requests[q].op = "vote"
    BY <1>6 DEF OpenVotes, At
  <2>2. /\ requests[q].need \in Thresholds /\ requests[q].counted \in Nat
        /\ requests[q].recipient \in Recipients
    BY <2>1 DEF TypeOK, Request, Plain
  <2>3. InTurn(s)
    BY <1>0, <1>3 DEF Undisturbed
  <2>4. /\ requests[q].need = switches[s].quorum
        /\ Cardinality(VotesSeen(q)) <= requests[q].counted
    BY <1>6, <2>1, <2>3 DEF InTurn
  <2>5. /\ Cardinality(VotesFor(s)') <= Cardinality(VotesSeen(q))
        /\ Cardinality(VotesFor(s)') \in Nat /\ Cardinality(VotesSeen(q)) \in Nat
    <3>1. VotesSeen(q) \subseteq Recipients
      BY <2>2 DEF VotesSeen, VotesFor, Present
    <3>2. IsFiniteSet(VotesSeen(q))
      BY <3>1, SetupConstants, FS_Subset
    <3> QED BY <1>6, <3>2, FS_Subset, FS_CardinalityType
  <2>6. Enough(q)
    <3>1. requests[q].counted >= requests[q].need
      BY <1>1, <1>3, <2>2, <2>4, <2>5
    <3> QED BY <3>1 DEF Enough
  <2>7. CASE quorumJobs[s] = None
    <3>1. quorumJobs'[s] = requests[q].need
      BY <1>0, <1>6, <2>1, <2>6, <2>7 DEF VoteDecide
    <3> QED BY <2>2, <3>1, SetupConstants
  <2> QED BY <1>4, <2>7
<1> QED BY <1>0, <1>5, <1>6, VoteGiven
-----------------------------------------------------------------------------
(* Theorems.                                                               *)

LEMMA StepInv == IInv /\ [Next]_vars => IInv'
<1> SUFFICES ASSUME IInv, [Next]_vars PROVE IInv'
  OBVIOUS
<1>1. CASE Next
  <2>1. TypeOK /\ AllFit /\ Deliverable /\ QuorumBacked /\ QuorumNoticed /\ Undisturbed
    BY DEF IInv, QuorumExact
  <2>2. TypeOK' /\ AllFit' /\ Deliverable' /\ QuorumBacked'
    BY <1>1, <2>1, TypesStep, FitsStep, DeliverableStep, BackedStep
  <2>3. QuorumNoticed' /\ Undisturbed'
    <3>1. \A s \in (Existing \ disturbed)' : InTurn(s)'
      BY <1>1, <2>1, InTurnStep
    <3> QED BY <1>1, <2>1, <3>1, NoticedStep DEF Undisturbed
  <2> QED BY <2>2, <2>3 DEF IInv, QuorumExact
<1>2. CASE UNCHANGED vars
  <2> USE <1>2 DEF vars, IInv, Existing
  <2>1. /\ \A s \in Switches : (VotesFor(s) \subseteq AcceptedBy(s))'
        /\ \A s \in Switches : Present(s)' = Present(s)
    BY DEF TypeOK, Present, VotesFor, AcceptedBy
  <2>2. TypeOK'
    BY <2>1 DEF TypeOK
  <2>3. AllFit'
    BY DEF AllFit, Fits, Reached, Voted, Gives
  <2>4. Deliverable'
    BY DEF Deliverable
  <2>5. QuorumExact'
    BY DEF QuorumExact, QuorumBacked, QuorumNoticed, VotesFor, Present
  <2>6. Undisturbed'
    BY DEF Undisturbed, InTurn, OpenVotes, Voting, At, On, VotesSeen, VotesFor, Present
  <2> QED BY <2>2, <2>3, <2>4, <2>5, <2>6
<1> QED BY <1>1, <1>2

LEMMA Inductive == Spec => []IInv
BY InitInv, StepInv, PTL DEF Spec

\* Whatever order the handlers of routes/switches.ts and the votes of
\* routes/triggers.ts take, and wherever they fail, every row refers to a
\* switch that exists, and only who accepted has a vote.
THEOREM SetupTyped == Spec => []TypeOK
<1>1. IInv => TypeOK
  BY DEF IInv
<1> QED BY <1>1, Inductive, PTL

\* The arm handler of routes/switches.ts never arms a switch without a
\* payload and somebody who accepted to receive it, though neither removal
\* nor acceptance takes the lock under which it looks at them.
THEOREM AlwaysDeliverable == Spec => []Deliverable
<1>1. IInv => Deliverable
  BY DEF IInv
<1> QED BY <1>1, Inductive, PTL

\* The vote handler of routes/triggers.ts makes the quorum job when the
\* threshold is reached, and only then, for any number of recipients: a vote
\* of somebody removed since stays counted, and votes that do not overlap
\* miss none.
THEOREM QuorumAlwaysExact == Spec => []QuorumExact
<1>1. IInv => QuorumExact
  BY DEF IInv
<1> QED BY <1>1, Inductive, PTL

\* The FOR SHARE of the duplicate handler in routes/switches.ts keeps what it
\* read of the source until the copy is in.
THEOREM CopiesAreSnapshots == Spec => []CopyIsSnapshot
<1>1. IInv => CopyIsSnapshot
  BY DEF IInv, AllFit, Fits, CopyIsSnapshot, At, On
<1> QED BY <1>1, Inductive, PTL
=============================================================================
