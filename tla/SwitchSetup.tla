---------------------------- MODULE SwitchSetup ----------------------------
(***************************************************************************)
(* The life of a switch up to its release: created or copied, described,   *)
(* given recipients and a payload, armed, paused, deleted                  *)
(* (routes/switches.ts), and the vote of its recipients that releases a    *)
(* quorum switch (routes/triggers.ts).                                     *)
(*                                                                         *)
(* A handler looks at the switch and may refuse before it opens its        *)
(* transaction.  Votes, copies and arming are modelled statement by        *)
(* statement with the row locks they hold; the other transactions make one *)
(* step.  Deadlines and jobs of missed heartbeats are in ReleasePath: here *)
(* a switch that was armed may be released at any time.                    *)
(***************************************************************************)
EXTENDS Naturals, FiniteSets

CONSTANTS
  Slots,          \* requests that may be in flight
  Switches, Recipients,
  Owners,         \* who may own a switch: its maker, or the admin who copied it
  Titles,
  Policies,       \* intervals, dry run and release policy together
  Thresholds,
  None,
  Gone            \* a deleted switch; ids are not used again

ASSUME SetupConstants ==
  /\ Thresholds \subseteq 2..255
  /\ None \notin Switches \cup Recipients \cup Thresholds \cup Policies
  /\ Gone # None
  /\ IsFiniteSet(Recipients)

VARIABLES
  switches,       \* switches: id -> row, None before it is made, Gone after
  recipients,     \* recipients: id -> row, None before; present = FALSE when deleted
  payloads,       \* sealed_payloads: the switches that have one
  quorumJobs,     \* trigger_jobs with key 'switch:<id>:quorum': threshold it was made for
  requests,       \* slot -> request, or None
  disturbed       \* history: switches whose votes overlapped or met a new threshold

vars == <<switches, recipients, payloads, quorumJobs, requests, disturbed>>

Statuses == {"active", "paused", "released"}
Switch == [owner : Owners, title : Titles, status : Statuses, policy : Policies,
           quorum : Thresholds \cup {None},   \* None: any other trigger_type
           started : BOOLEAN]                 \* heartbeat_started_at IS NOT NULL
Recipient == [switch : Switches, status : {"invited", "accepted"},
              vote : BOOLEAN, present : BOOLEAN]

\* A request of one transaction, a vote, or a copy.
Plain == {"patch", "quorum", "delete", "arm", "disarm", "payload", "invite"}
Request ==
  [op : Plain, switch : Switches, pc : {"write", "commit"}]
  \cup [op : {"remove", "accept"}, recipient : Recipients, switch : Switches, pc : {"write"}]
  \cup [op : {"vote"}, recipient : Recipients, switch : Switches, need : Thresholds,
        pc : {"update", "count", "decide"}, held : BOOLEAN, counted : Nat]
  \cup [op : {"duplicate"}, switch : Switches, pc : {"read", "insert"},
        seen : [policy : Policies, quorum : Thresholds \cup {None}] \cup {None}]

\* What says that there is no row is not a row.
ASSUME SetupRows ==
  /\ None \notin Switch /\ Gone \notin Switch
  /\ None \notin Recipient /\ None \notin Request

Existing == {s \in Switches : switches[s] \notin {None, Gone}}
Present(s) == {r \in Recipients : recipients[r] # None
                 /\ recipients[r].switch = s /\ recipients[r].present}
AcceptedBy(s) == {r \in Present(s) : recipients[r].status = "accepted"}
VotesFor(s) == {r \in Present(s) : recipients[r].vote}

Init ==
  /\ switches = [s \in Switches |-> None]
  /\ recipients = [r \in Recipients |-> None]
  /\ payloads = {}
  /\ quorumJobs = [s \in Switches |-> None]
  /\ requests = [q \in Slots |-> None]
  /\ disturbed = {}
-----------------------------------------------------------------------------
(* Requests and the row locks of their open transactions.                  *)

At(q, op, pc) == requests[q] # None /\ requests[q].op = op /\ requests[q].pc = pc
On(q) == requests[q].switch
Set(q, request) == requests' = [requests EXCEPT ![q] = request]
Ends(q) == Set(q, None)

\* FOR UPDATE, until the switch is armed.
Exclusive(s) == \E q \in Slots : At(q, "arm", "commit") /\ On(q) = s
\* FOR SHARE, until the copy is in.
Shared(s) == \E q \in Slots : At(q, "duplicate", "insert") /\ On(q) = s

\* Fault: the copy reads its source without a lock.
UpdatableUnshared(s) == ~Exclusive(s)

\* UPDATE, DELETE and FOR UPDATE wait for both, FOR SHARE and the foreign key
\* of an inserted row only for the first.
Updatable(s) == ~Exclusive(s) /\ ~Shared(s)

Referable(s) == ~Exclusive(s)

\* The votes whose transaction is open, and the rows they hold.
Voting(q) == At(q, "vote", "count") \/ At(q, "vote", "decide")
OpenVotes(s) == {q \in Slots : Voting(q) /\ On(q) = s}
RowFree(r) == \A q \in Slots : Voting(q) => ~(requests[q].held /\ requests[q].recipient = r)

\* Each handler's early returns.
Accepts(op, s) ==
  /\ s \in Existing
  /\ op = "arm" => switches[s].status # "active"
  /\ op \in {"delete", "payload", "quorum"} => switches[s].status # "released"

Arrives(q) ==
  /\ requests[q] = None
  /\ \E op \in Plain, s \in Switches :
       Accepts(op, s) /\ Set(q, [op |-> op, switch |-> s, pc |-> "write"])
  /\ UNCHANGED <<switches, recipients, payloads, quorumJobs, disturbed>>

\* Nothing was changed: the 4xx answers inside a transaction, and every error.
RolledBack(q) ==
  /\ Ends(q)
  /\ UNCHANGED <<switches, recipients, payloads, quorumJobs, disturbed>>

Fails(q) == requests[q] # None /\ RolledBack(q)

Update(s, row) == switches' = [switches EXCEPT ![s] = row]
-----------------------------------------------------------------------------
(* The switch.                                                             *)

\* switches_owner_id_title_unique, for a row other than s.
TitleFree(s, owner, title) ==
  \A t \in Existing \ {s} : switches[t].owner # owner \/ switches[t].title # title

NewSwitch(owner, title, policy, quorum) ==
  [owner |-> owner, title |-> title, status |-> "paused", policy |-> policy,
   quorum |-> quorum, started |-> FALSE]

Unused == {s \in Switches : switches[s] = None}

Create ==
  /\ \E s \in Unused, owner \in Owners, title \in Titles, policy \in Policies :
       /\ TitleFree(s, owner, title)
       /\ Update(s, NewSwitch(owner, title, policy, None))
  /\ UNCHANGED <<recipients, payloads, quorumJobs, requests, disturbed>>

DuplicateArrives(q) ==
  /\ requests[q] = None
  /\ \E s \in Switches \ Unused :
       Set(q, [op |-> "duplicate", switch |-> s, pc |-> "read", seen |-> None])
  /\ UNCHANGED <<switches, recipients, payloads, quorumJobs, disturbed>>

\* SELECT ... FOR SHARE.
DuplicateRead(q) ==
  /\ At(q, "duplicate", "read") /\ Referable(On(q))
  /\ IF On(q) \in Existing
     THEN LET source == switches[On(q)]
          IN  Set(q, [requests[q] EXCEPT !.pc = "insert",
                        !.seen = [policy |-> source.policy, quorum |-> source.quorum]])
     ELSE Ends(q)
  /\ UNCHANGED <<switches, recipients, payloads, quorumJobs, disturbed>>

\* Neither recipients nor payload are copied, and the copy is not armed.
DuplicateInsert(q) ==
  /\ At(q, "duplicate", "insert")
  /\ \E s \in Unused, owner \in Owners, title \in Titles :
       /\ TitleFree(s, owner, title)
       /\ LET seen == requests[q].seen
          IN  Update(s, NewSwitch(owner, title, seen.policy, seen.quorum))
  /\ Ends(q)
  /\ UNCHANGED <<recipients, payloads, quorumJobs, disturbed>>

\* Columns without a value keep theirs.  A title in use answers 409.
Patch(q) ==
  /\ At(q, "patch", "write") /\ Updatable(On(q))
  /\ IF On(q) \in Existing
     THEN \E title \in Titles, policy \in Policies :
            /\ TitleFree(On(q), switches[On(q)].owner, title)
            /\ Update(On(q), [switches[On(q)] EXCEPT !.title = title, !.policy = policy])
     ELSE UNCHANGED switches
  /\ Ends(q)
  /\ UNCHANGED <<recipients, payloads, quorumJobs, disturbed>>

\* The cascade waits for the votes that hold a recipient.
Delete(q) ==
  /\ At(q, "delete", "write") /\ Updatable(On(q))
  /\ LET s == On(q)
     IN  /\ \A r \in Present(s) : RowFree(r)
         /\ switches' = [switches EXCEPT ![s] = Gone]
         /\ recipients' = [r \in Recipients |->
              IF r \in Present(s) THEN [recipients[r] EXCEPT !.present = FALSE] ELSE recipients[r]]
         /\ payloads' = payloads \ {s}
         /\ quorumJobs' = [quorumJobs EXCEPT ![s] = None]
  /\ Ends(q)
  /\ UNCHANGED disturbed
-----------------------------------------------------------------------------
(* What arming asks for.                                                   *)

\* An upsert; the foreign key fails when the switch is gone.
StorePayload(q) ==
  /\ At(q, "payload", "write") /\ Referable(On(q)) /\ On(q) \in Existing
  /\ payloads' = payloads \cup {On(q)}
  /\ Ends(q)
  /\ UNCHANGED <<switches, recipients, quorumJobs, disturbed>>

Invite(q) ==
  /\ At(q, "invite", "write") /\ Referable(On(q)) /\ On(q) \in Existing
  /\ \E r \in Recipients :
       /\ recipients[r] = None
       /\ recipients' = [recipients EXCEPT ![r] =
            [switch |-> On(q), status |-> "invited", vote |-> FALSE, present |-> TRUE]]
  /\ Ends(q)
  /\ UNCHANGED <<switches, payloads, quorumJobs, disturbed>>

\* Acceptance by the invitation's token, removal by the owner.
RecipientArrives(q) ==
  /\ requests[q] = None
  /\ \E s \in Switches : \E r \in Present(s), op \in {"remove", "accept"} :
       /\ op = "accept" => recipients[r].status # "accepted"
       /\ Set(q, [op |-> op, recipient |-> r, switch |-> s, pc |-> "write"])
  /\ UNCHANGED <<switches, recipients, payloads, quorumJobs, disturbed>>

\* Neither takes a lock on the switch.
AcceptRecipient(q) ==
  /\ At(q, "accept", "write")
  /\ LET r == requests[q].recipient
     IN  /\ RowFree(r)
         /\ recipients' = IF recipients[r].present /\ recipients[r].status = "invited"
                          THEN [recipients EXCEPT ![r].status = "accepted"] ELSE recipients
  /\ Ends(q)
  /\ UNCHANGED <<switches, payloads, quorumJobs, disturbed>>

RemoveRecipient(q) ==
  /\ At(q, "remove", "write")
  /\ RowFree(requests[q].recipient)
  /\ recipients' = [recipients EXCEPT ![requests[q].recipient].present = FALSE]
  /\ Ends(q)
  /\ UNCHANGED <<switches, payloads, quorumJobs, disturbed>>

\* Fault: whoever was invited counts.
ReadyToArmInvited(s) == Present(s) # {} /\ s \in payloads

ReadyToArm(s) == AcceptedBy(s) # {} /\ s \in payloads

\* FOR UPDATE, then the guards.
ArmCheck(q) ==
  /\ At(q, "arm", "write") /\ Updatable(On(q))
  /\ IF ReadyToArm(On(q))
     THEN Set(q, [requests[q] EXCEPT !.pc = "commit"])
     ELSE Ends(q)
  /\ UNCHANGED <<switches, recipients, payloads, quorumJobs, disturbed>>

ArmCommit(q) ==
  /\ At(q, "arm", "commit")
  /\ Update(On(q), [switches[On(q)] EXCEPT !.status = "active", !.started = TRUE])
  /\ Ends(q)
  /\ UNCHANGED <<recipients, payloads, quorumJobs, disturbed>>

\* The cancel handler does the same to an active switch.
Disarm(q) ==
  /\ At(q, "disarm", "write") /\ Updatable(On(q))
  /\ IF On(q) \in Existing /\ switches[On(q)].status \in {"active", "paused"}
     THEN Update(On(q), [switches[On(q)] EXCEPT !.status = "paused"])
     ELSE UNCHANGED switches
  /\ Ends(q)
  /\ UNCHANGED <<recipients, payloads, quorumJobs, disturbed>>

\* processJob: some job of a switch that was armed.
Release(s) ==
  /\ s \in Existing /\ switches[s].started /\ switches[s].status # "released" /\ Updatable(s)
  /\ Update(s, [switches[s] EXCEPT !.status = "released"])
  /\ UNCHANGED <<recipients, payloads, quorumJobs, requests, disturbed>>
-----------------------------------------------------------------------------
(* The quorum.                                                             *)

\* Any trigger: a threshold, or one of the others, which have none.
SetTrigger(q) ==
  /\ At(q, "quorum", "write") /\ Updatable(On(q))
  /\ LET s == On(q)
     IN  /\ IF s \in Existing
            THEN \E quorum \in Thresholds \cup {None} :
                   Update(s, [switches[s] EXCEPT !.quorum = quorum])
            ELSE UNCHANGED switches
         /\ disturbed' = IF VotesFor(s) # {} \/ \E p \in Slots \ {q} :
                              requests[p] # None /\ requests[p].op = "vote" /\ On(p) = s
                         THEN disturbed \cup {s} ELSE disturbed
  /\ Ends(q)
  /\ UNCHANGED <<recipients, payloads, quorumJobs>>

\* Fault: an invitation is enough to vote.
MayVoteInvited(s) == Present(s)

MayVote(s) == AcceptedBy(s)

\* The recipient and the switch are read without a lock, and the threshold
\* with them.
VoteArrives(q) ==
  /\ requests[q] = None
  /\ \E s \in Existing : \E r \in MayVote(s) :
       /\ switches[s].status = "active" /\ switches[s].quorum # None
       /\ Set(q, [op |-> "vote", recipient |-> r, switch |-> s, need |-> switches[s].quorum,
                  pc |-> "update", held |-> FALSE, counted |-> 0])
  /\ UNCHANGED <<switches, recipients, payloads, quorumJobs, disturbed>>

\* UPDATE recipients SET vote; no row if the recipient was removed.
VoteUpdate(q) ==
  /\ At(q, "vote", "update")
  /\ LET r == requests[q].recipient
     IN  /\ RowFree(r)
         /\ Set(q, [requests[q] EXCEPT !.pc = "count", !.held = recipients[r].present])
  /\ disturbed' = IF OpenVotes(On(q)) # {} THEN disturbed \cup {On(q)} ELSE disturbed
  /\ UNCHANGED <<switches, recipients, payloads, quorumJobs>>

\* Its own vote and those committed before the statement.
VotesSeen(q) == VotesFor(On(q))
                \cup (IF requests[q].held THEN {requests[q].recipient} ELSE {})

VoteCount(q) ==
  /\ At(q, "vote", "count")
  /\ Set(q, [requests[q] EXCEPT !.pc = "decide", !.counted = Cardinality(VotesSeen(q))])
  /\ UNCHANGED <<switches, recipients, payloads, quorumJobs, disturbed>>

\* Fault: one vote more than the threshold.
EnoughAbove(q) == requests[q].counted > requests[q].need

Enough(q) == requests[q].counted >= requests[q].need

\* INSERT ... ON CONFLICT DO NOTHING on the key of the switch; COMMIT.
VoteDecide(q) ==
  /\ At(q, "vote", "decide")
  /\ LET s == On(q)
     IN  /\ Enough(q) => Referable(s) /\ s \in Existing
         /\ quorumJobs' = IF Enough(q) /\ quorumJobs[s] = None
                          THEN [quorumJobs EXCEPT ![s] = requests[q].need] ELSE quorumJobs
         /\ recipients' = IF requests[q].held
                          THEN [recipients EXCEPT ![requests[q].recipient].vote = TRUE]
                          ELSE recipients
  /\ Ends(q)
  /\ UNCHANGED <<switches, payloads, disturbed>>
-----------------------------------------------------------------------------
Handle(q) ==
  \/ Arrives(q) \/ DuplicateArrives(q) \/ RecipientArrives(q) \/ VoteArrives(q)
  \/ DuplicateRead(q) \/ DuplicateInsert(q) \/ Patch(q) \/ Delete(q)
  \/ StorePayload(q) \/ Invite(q) \/ AcceptRecipient(q) \/ RemoveRecipient(q)
  \/ ArmCheck(q) \/ ArmCommit(q) \/ Disarm(q)
  \/ SetTrigger(q) \/ VoteUpdate(q) \/ VoteCount(q) \/ VoteDecide(q)
  \/ Fails(q)

Next == Create \/ (\E q \in Slots : Handle(q)) \/ (\E s \in Switches : Release(s))

Spec == Init /\ [][Next]_vars
-----------------------------------------------------------------------------
(* Properties.                                                             *)

\* Every row keeps its type and refers to a switch that exists: a handler
\* that outlives the switch it looked at leaves nothing behind.  Only who
\* accepted has a vote.
TypeOK ==
  /\ switches \in [Switches -> Switch \cup {None, Gone}]
  /\ recipients \in [Recipients -> Recipient \cup {None}]
  /\ quorumJobs \in [Switches -> Thresholds \cup {None}]
  /\ requests \in [Slots -> Request \cup {None}]
  /\ disturbed \subseteq Switches
  /\ payloads \cup {s \in Switches : quorumJobs[s] # None \/ Present(s) # {}} \subseteq Existing
  /\ \A s \in Switches : VotesFor(s) \subseteq AcceptedBy(s)

\* A switch that was ever armed has a payload to release, and somebody who
\* accepted to receive it, unless that recipient was removed since: neither
\* what happens between the guards of the arm handler and its UPDATE, nor
\* pausing, cancelling and arming again, arms a switch with nothing in it.
Deliverable ==
  \A s \in Existing : switches[s].started =>
    /\ s \in payloads
    /\ \E r \in Recipients : /\ recipients[r] # None /\ recipients[r].switch = s
                              /\ recipients[r].status = "accepted"

\* A quorum job was voted for by as many recipients as the threshold its
\* last voter read, each counted once, though votes are counted while others
\* are open and recipients are removed.
QuorumBacked ==
  \A s \in Existing : quorumJobs[s] # None =>
    Cardinality({r \in Recipients : /\ recipients[r] # None /\ recipients[r].switch = s
                                    /\ recipients[r].vote}) >= quorumJobs[s]

\* And the vote that reaches the threshold makes the job.  Votes are counted
\* before they are committed, so this needs that no two of them overlapped,
\* and that the threshold was set before the first.
QuorumNoticed ==
  \A s \in Existing \ disturbed :
    /\ switches[s].quorum # None
    /\ Cardinality(VotesFor(s)) >= switches[s].quorum
    => quorumJobs[s] # None

\* The vote of triggers.ts: the quorum job is made when the threshold is
\* reached and only then.
QuorumExact == QuorumBacked /\ QuorumNoticed

\* What a copy has read of its source holds until the copy is inserted: the
\* copy is never a mixture of what the switch was and what it became.
CopyIsSnapshot ==
  \A q \in Slots : At(q, "duplicate", "insert") =>
    LET source == switches[On(q)]
    IN  /\ On(q) \in Existing
        /\ requests[q].seen = [policy |-> source.policy, quorum |-> source.quorum]
=============================================================================
