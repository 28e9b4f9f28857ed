------------------------- MODULE CheckInLocksProofs -------------------------
(***************************************************************************)
(* What the row locks are for, with any number of connections, switches,   *)
(* delegates and audit rows.  Three things carry the proofs:               *)
(*   - locks exclude (LocksExclude), and what a transaction writes or has  *)
(*     looked at stays as it was, because it holds the lock (WorkCovered); *)
(*   - a transaction makes the statements of its program in their order    *)
(*     (Ordered), so that what it holds tells what it may still need, and *)
(*     who waits for it is less far than it, or waits in one of the known  *)
(*     pairs (RankGrows);                                                  *)
(*   - the newest row a holder of the audit lock can see is the newest     *)
(*     there is (Chained).                                                 *)
(***************************************************************************)
EXTENDS CheckInLocks, FiniteSetTheorems, SequenceTheorems, TLAPS

(* Without: the statements that are left, in the order they were in.       *)

\* The positions before i, among some.
Before(positions, i) == {j \in positions : j < i}

LEMMA BeforeFinite ==
  ASSUME NEW positions \in SUBSET Nat, IsFiniteSet(positions), NEW i \in positions
  PROVE  /\ IsFiniteSet(Before(positions, i)) /\ Cardinality(Before(positions, i)) \in Nat
         /\ Cardinality(Before(positions, i)) < Cardinality(positions)
<1>1. /\ Before(positions, i) \cup {i} \subseteq positions /\ i \notin Before(positions, i)
      /\ Before(positions, i) \subseteq positions
  BY DEF Before
<1>2. IsFiniteSet(Before(positions, i)) /\ IsFiniteSet(Before(positions, i) \cup {i})
  BY <1>1, FS_Subset
<1>3. Cardinality(Before(positions, i) \cup {i}) = Cardinality(Before(positions, i)) + 1
  BY <1>1, <1>2, FS_AddElement
<1>4. Cardinality(Before(positions, i) \cup {i}) <= Cardinality(positions)
  BY <1>1, FS_Subset
<1>5. Cardinality(Before(positions, i)) \in Nat /\ Cardinality(positions) \in Nat
  BY <1>2, FS_CardinalityType
<1> QED BY <1>2, <1>3, <1>4, <1>5

LEMMA BeforeOrdered ==
  ASSUME NEW positions \in SUBSET Nat, IsFiniteSet(positions),
         NEW i \in positions, NEW j \in positions, i < j
  PROVE  Cardinality(Before(positions, i)) < Cardinality(Before(positions, j))
<1>0. i \in Nat /\ j \in Nat /\ \A l \in positions : l \in Nat
  OBVIOUS
<1>1. Before(positions, i) \cup {i} \subseteq Before(positions, j) /\ i \notin Before(positions, i)
  <2>1. ASSUME NEW l \in Before(positions, i) PROVE l \in positions /\ l < j
    <3>1. l \in positions /\ l \in Nat /\ l < i
      BY <1>0 DEF Before
    <3> QED BY <1>0, <3>1
  <2>2. ~(i < i)
    BY <1>0
  <2> QED BY <2>1, <2>2 DEF Before
<1>2. /\ IsFiniteSet(Before(positions, i)) /\ Cardinality(Before(positions, i)) \in Nat
      /\ IsFiniteSet(Before(positions, j)) /\ Cardinality(Before(positions, j)) \in Nat
  BY BeforeFinite
<1>3. Cardinality(Before(positions, i) \cup {i}) = Cardinality(Before(positions, i)) + 1
  BY <1>1, <1>2, FS_AddElement
<1>4. Cardinality(Before(positions, i) \cup {i}) <= Cardinality(Before(positions, j))
  BY <1>1, <1>2, FS_Subset
<1> QED BY <1>2, <1>3, <1>4

LEMMA EveryPositionTaken ==
  ASSUME NEW positions \in SUBSET Nat, IsFiniteSet(positions),
         NEW k \in 1..Cardinality(positions)
  PROVE  \E i \in positions : Cardinality(Before(positions, i)) = k - 1
<1> DEFINE place == [i \in positions |-> Cardinality(Before(positions, i)) + 1]
<1>1. \A i \in positions : /\ Cardinality(Before(positions, i)) \in Nat
                           /\ Cardinality(Before(positions, i)) < Cardinality(positions)
  BY BeforeFinite
<1>2. Cardinality(positions) \in Nat
  BY FS_CardinalityType
<1>3. place \in [positions -> 1..Cardinality(positions)]
  BY <1>1, <1>2
<1>4. ASSUME NEW i \in positions, NEW j \in positions, place[i] = place[j] PROVE i = j
  <2>1. Cardinality(Before(positions, i)) = Cardinality(Before(positions, j))
    BY <1>1, <1>4
  <2>2. i < j \/ j < i \/ i = j
    OBVIOUS
  <2> QED BY <1>1, <2>1, <2>2, BeforeOrdered
<1>5. place \in Injection(positions, 1..Cardinality(positions))
  BY <1>3, <1>4 DEF Injection, IsInjective
<1>6. /\ IsFiniteSet(1..Cardinality(positions))
      /\ Cardinality(1..Cardinality(positions)) = Cardinality(positions)
  BY <1>2, FS_Interval
<1>7. place \in Surjection(positions, 1..Cardinality(positions))
  BY <1>5, <1>6, FS_Injection
<1>8. PICK i \in positions : place[i] = k
  BY <1>7 DEF Surjection
<1> QED BY <1>1, <1>8

\* Where each statement that is left comes from.
Picks(from, old, new, s) ==
  /\ from \in [DOMAIN new -> DOMAIN old]
  /\ \A k \in DOMAIN new : new[k] = old[from[k]] /\ old[from[k]][2] # s
  /\ \A k, l \in DOMAIN new : k < l => from[k] < from[l]
  /\ \A i \in DOMAIN old : old[i][2] # s => \E k \in DOMAIN new : from[k] = i

LEMMA WithoutPicks ==
  ASSUME NEW S, NEW program \in Seq(S), NEW s
  PROVE  /\ Without(program, s) \in Seq(S)
         /\ \E from : Picks(from, program, Without(program, s), s)
<1> DEFINE kept == {i \in DOMAIN program : program[i][2] # s}
           n == Cardinality(kept)
           from == [k \in 1..n |-> CHOOSE i \in kept : Cardinality(Before(kept, i)) = k - 1]
           new == [k \in 1..n |-> program[from[k]]]
<1>1. /\ Len(program) \in Nat /\ DOMAIN program = 1..Len(program)
      /\ \A i \in 1..Len(program) : program[i] \in S
  OBVIOUS
<1>2. kept \in SUBSET Nat /\ kept \subseteq DOMAIN program /\ IsFiniteSet(kept) /\ n \in Nat
  <2>1. IsFiniteSet(1..Len(program))
    BY <1>1, FS_Interval
  <2>2. kept \subseteq 1..Len(program)
    BY <1>1
  <2> QED BY <1>1, <2>1, <2>2, FS_Subset, FS_CardinalityType
<1>3. Without(program, s) = new
  BY DEF Without, Before
<1>4. \A i \in kept : Cardinality(Before(kept, i)) \in Nat /\ Cardinality(Before(kept, i)) < n
  BY <1>2, BeforeFinite
<1>5. \A i, j \in kept : i < j => Cardinality(Before(kept, i)) < Cardinality(Before(kept, j))
  BY <1>2, BeforeOrdered
<1>6. \A k \in 1..n : \E i \in kept : Cardinality(Before(kept, i)) = k - 1
  BY <1>2, EveryPositionTaken
<1>7. \A k \in 1..n : from[k] \in kept /\ Cardinality(Before(kept, from[k])) = k - 1
  BY <1>6
<1>8. \A i, j \in kept : i < j \/ j < i \/ i = j
  BY <1>2
<1>9. \A i \in kept : program[i][2] # s
  OBVIOUS
<1>10. \A i \in DOMAIN program : program[i][2] # s => i \in kept
  OBVIOUS
<1>11. new \in [1..n -> S]
  BY <1>1, <1>2, <1>7
<1>12. DOMAIN new = 1..n /\ DOMAIN from = 1..n /\ \A k \in 1..n : new[k] = program[from[k]]
  OBVIOUS
<1> HIDE DEF kept, n, from, new
<1>13. \A k, l \in 1..n : k < l => from[k] < from[l]
  <2> SUFFICES ASSUME NEW k \in 1..n, NEW l \in 1..n, k < l PROVE from[k] < from[l]
    OBVIOUS
  <2>1. PICK i \in kept, j \in kept : i = from[k] /\ j = from[l]
    BY <1>7
  <2>2. Cardinality(Before(kept, i)) = k - 1 /\ Cardinality(Before(kept, j)) = l - 1
    BY <1>7, <2>1
  <2>3. k \in Nat /\ l \in Nat
    BY <1>2
  <2>4. ~(j < i) /\ i # j
    BY <1>5, <2>2, <2>3
  <2> QED BY <1>8, <2>1, <2>4
<1>14. \A i \in kept : \E k \in 1..n : from[k] = i
  <2> SUFFICES ASSUME NEW i \in kept PROVE \E k \in 1..n : from[k] = i
    OBVIOUS
  <2> DEFINE k == Cardinality(Before(kept, i)) + 1
  <2>1. k \in 1..n
    BY <1>2, <1>4
  <2>2. PICK j \in kept : j = from[k]
    BY <1>7, <2>1
  <2>3. Cardinality(Before(kept, j)) = Cardinality(Before(kept, i))
    BY <1>4, <1>7, <2>1, <2>2
  <2>4. i = j
    BY <1>4, <1>5, <1>8, <2>3
  <2> QED BY <2>1, <2>2, <2>4
<1>15. Picks(from, program, new, s)
  <2>1. from \in [DOMAIN new -> DOMAIN program]
    <3>1. \A k \in 1..n : from[k] \in DOMAIN program
      BY <1>2, <1>7
    <3>2. from = [k \in 1..n |-> from[k]]
      BY DEF from
    <3> QED BY <1>12, <3>1, <3>2
  <2>2. \A k \in DOMAIN new : new[k] = program[from[k]] /\ program[from[k]][2] # s
    BY <1>7, <1>9, <1>12
  <2> QED BY <1>10, <1>12, <1>13, <1>14, <2>1, <2>2 DEF Picks
<1> QED BY <1>2, <1>3, <1>11, <1>15
-----------------------------------------------------------------------------
(* What holds of every transaction.                                        *)

OnUsers == {"stepUp", "lockUser", "referUser", "copyFor", "commitStepUp"}
OnRows == {"lock", "lockActive", "heartbeat", "refer", "read", "setToken", "reset", "pause",
           "disarm", "arm", "release", "delete", "unwait", "takeWait", "upsertWait",
           "claimLink", "castVote", "lockReminder", "takeReminder", "audit"} \cup Drops
Statement == OnRows \X Switches \cup OnUsers \X Users

\* The statements that may come some time after one of a transaction on one switch.
Later(what) ==
  CASE what = "stepUp" -> {"heartbeat", "reset", "unwait", "pause", "commitStepUp", "audit"}
    [] what = "claimLink" -> {"heartbeat", "reset", "unwait", "audit"}
    [] what = "heartbeat" -> {"reset", "unwait", "audit"}
    [] what = "refer" -> {"referUser", "audit"}
    [] what = "reset" -> {"unwait", "audit"}
    [] what = "lock" -> {"arm", "release", "audit"}
    [] what = "read" -> {"copyFor", "audit"}
    [] what = "castVote" -> {"refer", "audit"}
    [] what \in {"delete"} \cup Drops -> Drops \cup {"audit"}
    [] what = "audit" -> {}
    [] OTHER -> {"audit"}

Ordered(program) ==
  \A i, j \in DOMAIN program : i < j =>
    /\ program[j][1] \in Later(program[i][1])
    /\ program[i][1] \in OnRows /\ program[j][1] \in OnRows => program[i][2] = program[j][2]

\* Which transactions make a statement.
MadeBy(what) ==
  CASE what = "claimLink" -> {"link"}
    [] what = "castVote" -> {"vote"}
    [] what = "copyFor" -> {"duplicate"}
    [] what \in Drops -> {"delete"}
    [] what = "pause" -> {"cancel"}
    [] what \in {"heartbeat", "reset", "unwait"} -> {"manual", "token", "link", "bulk"}
    [] what = "stepUp" -> {"manual", "cancel", "test", "bulk"}
    [] what \in {"lockUser", "lockReminder"} -> {"remind"}
    [] what = "lockActive" -> {"bulk"}
    [] what \in {"upsertWait", "takeWait"} -> {"recover", "promote"}
    [] OTHER -> KnownKinds

Fitting(kind, user, statement) ==
  /\ kind \in MadeBy(statement[1])
  /\ statement[1] = "stepUp" => statement[2] = user
  /\ statement[1] = "copyFor" => statement[2] = Owner

\* Statement i comes after one of this kind on the same row, or its lock is held.
Preceded(program, locks, i, what, mode) ==
  \/ <<Row(program[i][2]), mode>> \in locks
  \/ \E j \in DOMAIN program : j < i /\ program[j] = <<what, program[i][2]>>

\* A deadline is reset and a wait deleted under the lock of the heartbeat, and the
\* rows that belong to a switch are deleted under the lock of the switch.
Based(program, locks) ==
  \A i \in DOMAIN program :
    /\ program[i][1] \in {"reset", "unwait"} => Preceded(program, locks, i, "heartbeat", "share")
    /\ program[i][1] \in Drops => Preceded(program, locks, i, "delete", "own")

\* A bulk check-in resets every switch it locks.
Recording(program) ==
  \A i \in DOMAIN program :
    /\ program[i][1] \in {"lockActive", "stepUp", "heartbeat", "reset", "unwait", "audit"}
    /\ program[i][1] = "lockActive" =>
         \E j \in DOMAIN program : i < j /\ program[j] = <<"reset", program[i][2]>>

Sound(kind, user, program) ==
  /\ program \in Seq(Statement)
  /\ \A i \in DOMAIN program : Fitting(kind, user, program[i])
  /\ kind \notin ManyRows => Ordered(program)
  /\ kind = "bulk" => Recording(program)

Columns == {"code", "link", "reset", "becomes", "unwaited", "waited", "entries"}

Shaped ==
  /\ DOMAIN txn = Clients /\ DOMAIN todo = Clients /\ DOMAIN held = Clients
  /\ DOMAIN work = Clients /\ DOMAIN status = Switches /\ waits \subseteq Switches
  /\ DOMAIN counter = Users /\ nextId \in Nat
  /\ \A c \in Clients :
       /\ DOMAIN work[c] = Columns /\ work[c].waited \subseteq Switches
       /\ txn[c] = None => held[c] = {} /\ work[c] = Nothing
       /\ txn[c] # None => Sound(txn[c].kind, txn[c].user, todo[c])

LocksExclude ==
  \A c, d \in Clients : c # d =>
    \A l \in held[c], n \in held[d] : l[1] = n[1] => ~Conflicts(l[2], n[2])

\* A reminder is locked in one way only, so that SKIP LOCKED sees every lock on it.
RemindersOwned ==
  \A c \in Clients, s \in Switches :
    \A l \in held[c] : l[1] = Reminder(s) => l = <<Reminder(s), "own">>

\* What a transaction is going to commit is covered by its locks.
WorkCovered ==
  \A c \in Clients :
    /\ work[c].code # None =>
         /\ txn[c].user \in Users /\ work[c].code > counter[txn[c].user]
         /\ <<User(txn[c].user), "own">> \in held[c]
    /\ \A s \in work[c].link : s \notin used /\ <<Link(s), "change">> \in held[c]
    /\ \A s \in work[c].reset :
         /\ s \in Switches /\ status[s] = "active"
         /\ <<Row(s), "change">> \in held[c]
    /\ \A s \in DOMAIN work[c].becomes : \E mode \in {"change", "own"} : <<Row(s), mode>> \in held[c]

\* What a bulk check-in has locked is active, and reset by now or later.
BulkCovers ==
  \A c \in Clients : txn[c] # None /\ txn[c].kind = "bulk" =>
    \A s \in Switches : <<Row(s), "own">> \in held[c] =>
      /\ status[s] = "active"
      /\ s \in work[c].reset \/ \E i \in DOMAIN todo[c] : todo[c][i] = <<"reset", s>>

\* The rows before one with this number.
Below(entries, id) == {f \in entries : f.id < id}

\* The rows of the audit log, not committed and committed, and who may add to them.
EntriesChained(c) ==
  /\ work[c].entries # {} => <<AuditChain, "own">> \in held[c]
  /\ \A e \in work[c].entries :
       /\ e.id < nextId /\ e.id \in Nat /\ \A f \in log : f.id < e.id
       /\ e.prev = Newest(Below(log \cup work[c].entries, e.id))

Chained ==
  /\ AuditLinear
  /\ \A e \in log : e.id < nextId /\ e.id \in Nat
  /\ \A c \in Clients : EntriesChained(c)

\* The statements that may come after a lock was taken, on the row of a switch and
\* on anything.
LaterThanRow(mode) ==
  CASE mode = "own" -> {"arm", "release", "audit"} \cup Drops
    [] mode = "change" -> {"unwait", "audit"}
    [] mode = "read" -> Later("read")
    [] OTHER -> {"reset", "unwait", "referUser", "audit"}

LaterThan(lock) ==
  CASE lock[1][1] = "user" ->
         IF lock[2] = "own" THEN Later("stepUp") ELSE {"audit"}
    [] lock[1][1] = "switch" -> LaterThanRow(lock[2])
    [] lock[1][1] = "link" /\ lock[2] = "change" -> Later("claimLink")
    [] lock[1][1] = "recipient" /\ lock[2] = "change" -> Later("castVote")
    [] lock[1][1] = "audit" -> {}
    [] OTHER -> {"audit"} \cup Drops

\* The transactions that hold such a lock.
HeldBy(lock) ==
  CASE lock[1][1] = "user" /\ lock[2] = "own" -> MadeBy("stepUp") \cup MadeBy("lockUser")
    [] lock[1][1] = "link" /\ lock[2] = "change" -> {"link"}
    [] lock[1][1] = "recipient" /\ lock[2] = "change" -> {"vote"}
    [] OTHER -> KnownKinds

\* A statement of p that follows the lock.
InOrder(lock, p) ==
  /\ p[1] \in LaterThan(lock)
  /\ lock[1][1] # "user" /\ p[1] \in OnRows => p[2] = lock[1][2]

\* Who goes over one switch locks in the order of the objects.
OneSwitch(c) == txn[c] # None /\ txn[c].kind \notin ManyRows
HeldInOrder ==
  \A c \in Clients : OneSwitch(c) =>
    \A lock \in held[c] :
      /\ txn[c].kind \in HeldBy(lock)
      /\ \A i \in DOMAIN todo[c] : InOrder(lock, todo[c][i])

Rooted == \A c \in Clients : OneSwitch(c) => Based(todo[c], held[c])

LocksInv ==
  /\ Shaped /\ LocksExclude /\ RemindersOwned /\ WorkCovered /\ BulkCovers
  /\ Chained /\ HeldInOrder /\ Rooted
-----------------------------------------------------------------------------
(* Programs.                                                               *)

LEMMA Led ==
  ASSUME NEW S, NEW a \in S, NEW n \in Nat, NEW p \in Seq(S), DOMAIN p = 1..n
  PROVE  LET q == <<a>> \o p
         IN  /\ q \in Seq(S) /\ DOMAIN q = 1..n + 1 /\ q[1] = a
             /\ \A i \in 2..n + 1 : q[i] = p[i - 1]
<1>1. <<a>> \in Seq(S) /\ Len(<<a>>) = 1 /\ <<a>>[1] = a /\ Len(p) = n
  OBVIOUS
<1>2. PICK t : t = <<a>>
  OBVIOUS
<1> QED BY <1>1, <1>2, ConcatProperties

LEMMA LedSound ==
  ASSUME NEW kind, NEW user, NEW p, NEW a \in Statement,
         kind \notin ManyRows, Sound(kind, user, p), Fitting(kind, user, a),
         \A i \in DOMAIN p :
           /\ p[i][1] \in Later(a[1])
           /\ a[1] \in OnRows /\ p[i][1] \in OnRows => p[i][2] = a[2]
  PROVE  Sound(kind, user, <<a>> \o p)
<1>1. p \in Seq(Statement) /\ Ordered(p) /\ Len(p) \in Nat /\ DOMAIN p = 1..Len(p)
      /\ \A i \in DOMAIN p : Fitting(kind, user, p[i])
  BY DEF Sound
<1>2. PICK q : q = <<a>> \o p
  OBVIOUS
<1>3. /\ q \in Seq(Statement) /\ DOMAIN q = 1..Len(p) + 1 /\ q[1] = a
      /\ \A i \in 2..Len(p) + 1 : q[i] = p[i - 1]
  BY <1>1, <1>2, Led
<1>4. \A i \in DOMAIN q : i # 1 => i - 1 \in DOMAIN p /\ q[i] = p[i - 1]
  <2> SUFFICES ASSUME NEW i \in 1..Len(p) + 1, i # 1
               PROVE  i - 1 \in 1..Len(p) /\ q[i] = p[i - 1]
    BY <1>1, <1>3
  <2>1. i \in 2..Len(p) + 1 /\ i - 1 \in 1..Len(p)
    BY <1>1
  <2> QED BY <1>3, <2>1
<1>5. \A i \in DOMAIN q : Fitting(kind, user, q[i])
  BY <1>1, <1>3, <1>4
<1>6. ASSUME NEW i \in DOMAIN q, NEW j \in DOMAIN q, i < j
      PROVE  /\ q[j][1] \in Later(q[i][1])
             /\ q[i][1] \in OnRows /\ q[j][1] \in OnRows => q[i][2] = q[j][2]
  <2>1. j - 1 \in DOMAIN p /\ q[j] = p[j - 1] /\ j # 1
    BY <1>1, <1>3, <1>4, <1>6
  <2>2. CASE i = 1
    BY <1>3, <2>1, <2>2
  <2>3. CASE i # 1
    <3>1. i - 1 \in DOMAIN p /\ q[i] = p[i - 1] /\ i - 1 < j - 1
      BY <1>1, <1>3, <1>4, <1>6, <2>3
    <3> QED BY <1>1, <2>1, <3>1 DEF Ordered
  <2> QED BY <2>2, <2>3
<1>7. kind # "bulk"
  BY DEF ManyRows
<1> QED BY <1>2, <1>3, <1>5, <1>6, <1>7 DEF Sound, Ordered

\* A program to begin with.
Begun(kind, user, program) ==
  Sound(kind, user, program) /\ (kind \notin ManyRows => Based(program, {}))

LEMMA RecordSound ==
  ASSUME NEW s \in Switches, NEW user
  PROVE  /\ Begun("token", user, RecordHeartbeat(s))
         /\ Begun("link", user, <<Do("claimLink", s)>> \o RecordHeartbeat(s))
         /\ user \in Users => Begun("manual", user, <<Do("stepUp", user)>> \o RecordHeartbeat(s))
<1>1. PICK p : p = RecordHeartbeat(s)
  OBVIOUS
<1>2. /\ p \in Seq(OnRows \X Switches) /\ DOMAIN p = 1..4
      /\ p[1] = <<"heartbeat", s>> /\ p[2] = <<"reset", s>>
      /\ p[3] = <<"unwait", s>> /\ p[4] = <<"audit", s>>
  BY <1>1 DEF RecordHeartbeat, Do, OnRows
<1>3. ASSUME NEW kind \in {"token", "link", "manual"} PROVE Sound(kind, user, p)
  <2>1. \A what \in {"heartbeat", "reset", "unwait", "audit"} : kind \in MadeBy(what)
    BY DEF MadeBy, Drops, KnownKinds
  <2>2. \A i \in DOMAIN p : Fitting(kind, user, p[i])
    BY <1>2, <2>1 DEF Fitting
  <2>3. Ordered(p)
    BY <1>2 DEF Ordered, Later, Drops
  <2>4. p \in Seq(Statement) /\ kind # "bulk"
    BY <1>2 DEF Statement
  <2> QED BY <2>2, <2>3, <2>4 DEF Sound
<1>4. \A i \in DOMAIN p : p[i][1] \in {"heartbeat", "reset", "unwait", "audit"} /\ p[i][2] = s
  BY <1>2
<1>5. {"heartbeat", "reset", "unwait", "audit"} \cap Drops = {}
  BY DEF Drops
<1>6. Based(p, {})
  BY <1>2, <1>5 DEF Based, Preceded
<1>7. ASSUME NEW a, a[1] \notin {"reset", "unwait"} \cup Drops PROVE Based(<<a>> \o p, {})
  <2>1. PICK q : q = <<a>> \o p
    OBVIOUS
  <2>2. /\ DOMAIN q = 1..5 /\ q[1] = a /\ q[2] = <<"heartbeat", s>> /\ q[3] = <<"reset", s>>
        /\ q[4] = <<"unwait", s>> /\ q[5] = <<"audit", s>>
    <3>1. PICK S : S = {a} \cup (OnRows \X Switches)
      OBVIOUS
    <3>2. a \in S /\ p \in Seq(S)
      BY <1>2, <3>1
    <3>0. PICK n \in Nat : n = 4
      OBVIOUS
    <3>3. DOMAIN q = 1..n + 1 /\ q[1] = a /\ \A i \in 2..n + 1 : q[i] = p[i - 1]
      <4>1. DOMAIN p = 1..n
        BY <1>2, <3>0
      <4> QED BY <2>1, <3>2, <4>1, Led
    <3>4. 1..n + 1 = 1..5 /\ \A k \in 1..4 : k + 1 \in 2..n + 1 /\ k + 1 - 1 = k
      BY <3>0
    <3>5. \A k \in 1..4 : q[k + 1] = p[k]
      BY <3>3, <3>4
    <3>6. q[2] = p[1] /\ q[3] = p[2] /\ q[4] = p[3] /\ q[5] = p[4]
      BY <3>5
    <3> QED BY <1>2, <3>3, <3>4, <3>6
  <2>3. Based(q, {})
    BY <1>5, <1>7, <2>2 DEF Based, Preceded
  <2> QED BY <2>1, <2>3
<1>8. {"token", "link", "manual"} \cap ManyRows = {}
  BY DEF ManyRows
<1>9. Begun("link", user, <<Do("claimLink", s)>> \o p)
  <2>1. <<"claimLink", s>> \in Statement
    BY DEF Statement, OnRows
  <2>2. \A i \in DOMAIN p :
          /\ p[i][1] \in Later(<<"claimLink", s>>[1])
          /\ <<"claimLink", s>>[1] \in OnRows /\ p[i][1] \in OnRows => p[i][2] = <<"claimLink", s>>[2]
    BY <1>4 DEF Later, Drops
  <2>3. Fitting("link", user, <<"claimLink", s>>)
    BY DEF Fitting, MadeBy, Drops
  <2>4. Sound("link", user, <<<<"claimLink", s>>>> \o p)
    BY <1>3, <1>8, <2>1, <2>2, <2>3, LedSound
  <2>5. Based(<<<<"claimLink", s>>>> \o p, {})
    BY <1>7 DEF Drops
  <2> QED BY <2>4, <2>5 DEF Do, Begun
<1>10. ASSUME user \in Users PROVE Begun("manual", user, <<Do("stepUp", user)>> \o p)
  <2>1. <<"stepUp", user>> \in Statement
    BY <1>10 DEF Statement, OnUsers
  <2>2. \A i \in DOMAIN p :
          /\ p[i][1] \in Later(<<"stepUp", user>>[1])
          /\ <<"stepUp", user>>[1] \in OnRows /\ p[i][1] \in OnRows => p[i][2] = <<"stepUp", user>>[2]
    BY <1>4 DEF Later, OnRows, Drops
  <2>3. Fitting("manual", user, <<"stepUp", user>>)
    BY DEF Fitting, MadeBy, Drops
  <2>4. Sound("manual", user, <<<<"stepUp", user>>>> \o p)
    BY <1>3, <1>8, <2>1, <2>2, <2>3, LedSound
  <2>5. Based(<<<<"stepUp", user>>>> \o p, {})
    BY <1>7 DEF Drops
  <2> QED BY <2>4, <2>5 DEF Do, Begun
<1>11. Begun("token", user, p)
  BY <1>3, <1>6 DEF Begun
<1> QED BY <1>1, <1>9, <1>10, <1>11

LEMMA ShortSound ==
  ASSUME NEW s \in Switches, NEW user
  PROVE  /\ user \in Users =>
              Begun("cancel", user, <<Do("stepUp", user), Do("pause", s), Do("audit", s)>>)
         /\ Begun("arm", user, <<Do("lock", s), Do("arm", s), Do("audit", s)>>)
         /\ Begun("disarm", user, <<Do("disarm", s), Do("audit", s)>>)
         /\ \A first \in {"setToken", "refer"} :
              Begun("issue", user, <<Do(first, s), Do("audit", s)>>)
         /\ Begun("release", user, <<Do("lock", s), Do("release", s)>>)
         /\ Begun("deliver", user, <<Do("takeReminder", s), Do("audit", s)>>)
<1> USE DEF Begun, Based, Sound, Fitting, MadeBy, KnownKinds, Drops, Do, Statement, ManyRows, Ordered
<1>1. user \in Users =>
        Begun("cancel", user, <<Do("stepUp", user), Do("pause", s), Do("audit", s)>>)
  BY DEF OnRows, OnUsers, Later
<1>2. Begun("arm", user, <<Do("lock", s), Do("arm", s), Do("audit", s)>>)
  BY DEF OnRows, Later
<1>3. Begun("disarm", user, <<Do("disarm", s), Do("audit", s)>>)
  BY DEF OnRows, Later
<1>4. \A first \in {"setToken", "refer"} : Begun("issue", user, <<Do(first, s), Do("audit", s)>>)
  BY DEF OnRows, Later
<1>5. Begun("release", user, <<Do("lock", s), Do("release", s)>>)
  BY DEF OnRows, Later
<1>6. Begun("deliver", user, <<Do("takeReminder", s), Do("audit", s)>>)
  BY DEF OnRows, Later
<1> QED BY <1>1, <1>2, <1>3, <1>4, <1>5, <1>6

LEMMA DeleteSound ==
  ASSUME NEW s \in Switches, NEW user
  PROVE  Begun("delete", user, DeleteSwitch(s))
<1>1. PICK p : p = DeleteSwitch(s)
  OBVIOUS
<1>2. /\ p \in Seq(Statement) /\ DOMAIN p = 1..6
      /\ p[1] = <<"delete", s>> /\ p[2] = <<"dropRecipients", s>> /\ p[3] = <<"dropWait", s>>
      /\ p[4] = <<"dropLinks", s>> /\ p[5] = <<"dropReminders", s>> /\ p[6] = <<"audit", s>>
  BY <1>1 DEF DeleteSwitch, Do, Statement, OnRows, Drops
<1>3. \A i \in DOMAIN p : Fitting("delete", user, p[i])
  <2>1. \A what \in {"delete", "audit"} \cup Drops : "delete" \in MadeBy(what)
    BY DEF MadeBy, KnownKinds, Drops
  <2> QED BY <1>2, <2>1 DEF Fitting, Drops
<1>4. Ordered(p)
  <2>1. \A what \in {"delete"} \cup Drops : Later(what) = Drops \cup {"audit"}
    BY DEF Later, Drops
  <2>2. \A i \in DOMAIN p : i # 6 => p[i][1] \in {"delete"} \cup Drops
    BY <1>2 DEF Drops
  <2>3. \A i \in DOMAIN p : i # 1 => p[i][1] \in Drops \cup {"audit"}
    BY <1>2 DEF Drops
  <2>4. \A i \in DOMAIN p : p[i][2] = s
    BY <1>2
  <2> QED BY <1>2, <2>1, <2>2, <2>3, <2>4 DEF Ordered
<1>5. Based(p, {})
  BY <1>2 DEF Based, Preceded, Drops
<1> QED BY <1>1, <1>2, <1>3, <1>4, <1>5 DEF Begun, Sound, ManyRows

LEMMA VoteSound ==
  ASSUME NEW s \in Switches, NEW user,
         NEW last \in {<<Do("audit", s)>>, <<Do("refer", s), Do("audit", s)>>}
  PROVE  Begun("vote", user, <<Do("castVote", s)>> \o last)
<1>1. PICK p : p = <<Do("castVote", s)>> \o last
  OBVIOUS
<1>2. /\ p \in Seq(OnRows \X Switches) /\ p[1] = <<"castVote", s>>
      /\ \/ DOMAIN p = 1..2 /\ p[2] = <<"audit", s>>
         \/ DOMAIN p = 1..3 /\ p[2] = <<"refer", s>> /\ p[3] = <<"audit", s>>
  <2>1. CASE last = <<Do("audit", s)>>
    BY <1>1, <2>1 DEF Do, OnRows
  <2>2. CASE last = <<Do("refer", s), Do("audit", s)>>
    BY <1>1, <2>2 DEF Do, OnRows
  <2> QED BY <2>1, <2>2
<1>3. \A i \in DOMAIN p : p[i][1] \in {"castVote", "refer", "audit"} /\ p[i][2] = s
  BY <1>2
<1>4. \A i \in DOMAIN p : Fitting("vote", user, p[i])
  BY <1>3 DEF Fitting, MadeBy, KnownKinds, Drops
<1>5. Ordered(p)
  BY <1>2, <1>3 DEF Ordered, Later, Drops
<1>6. Based(p, {})
  BY <1>3 DEF Based, Drops
<1>7. p \in Seq(Statement)
  BY <1>2 DEF Statement
<1> QED BY <1>1, <1>4, <1>5, <1>6, <1>7 DEF Begun, Sound, ManyRows

LEMMA OwnersSound ==
  ASSUME NEW s \in Switches, NEW user
  PROVE  /\ Begun("grant", Owner, <<Do("refer", s), Do("referUser", Owner), Do("audit", s)>>)
         /\ Begun("test", Owner,
                  <<Do("stepUp", Owner), Do("commitStepUp", Owner), Do("audit", s)>>)
         /\ Begun("duplicate", user, <<Do("read", s), Do("copyFor", Owner), Do("audit", s)>>)
         /\ \A last \in {<<Do("audit", s)>>, <<Do("refer", s), Do("audit", s)>>} :
              Begun("vote", user, <<Do("castVote", s)>> \o last)
         /\ \A last \in {Do("audit", s), Do("lockReminder", s)} :
              Begun("remind", user, <<Do("lock", s), Do("lockUser", Owner), last>>)
<1>0. \A last \in {<<Do("audit", s)>>, <<Do("refer", s), Do("audit", s)>>} :
        Begun("vote", user, <<Do("castVote", s)>> \o last)
  BY VoteSound
<1> USE DEF Begun, Based, Sound, Fitting, MadeBy, KnownKinds, Drops, Do, Statement, ManyRows, Ordered,
            OnRows, OnUsers, Users
<1>1. Begun("grant", Owner, <<Do("refer", s), Do("referUser", Owner), Do("audit", s)>>)
  BY DEF Later
<1>2. Begun("test", Owner, <<Do("stepUp", Owner), Do("commitStepUp", Owner), Do("audit", s)>>)
  BY DEF Later
<1>3. Begun("duplicate", user, <<Do("read", s), Do("copyFor", Owner), Do("audit", s)>>)
  BY DEF Later
<1>4. \A last \in {Do("audit", s), Do("lockReminder", s)} :
        Begun("remind", user, <<Do("lock", s), Do("lockUser", Owner), last>>)
  OBVIOUS
<1> QED BY <1>0, <1>1, <1>2, <1>3, <1>4

LEMMA Listed ==
  ASSUME NEW T \in SUBSET Switches, NEW f \in SetToSeqs(T)
  PROVE  f \in Seq(T) /\ Len(f) \in Nat /\ \A s \in T : \E k \in 1..Len(f) : f[k] = s
<1>1. IsFiniteSet(T) /\ Cardinality(T) \in Nat
  BY LocksAssumption, FS_Subset, FS_CardinalityType
<1>2. f \in [1..Cardinality(T) -> T] /\ \A i, j \in 1..Cardinality(T) : i # j => f[i] # f[j]
  BY DEF SetToSeqs
<1>3. f \in Injection(1..Cardinality(T), T)
  BY <1>2 DEF Injection, IsInjective
<1>4. IsFiniteSet(1..Cardinality(T)) /\ Cardinality(1..Cardinality(T)) = Cardinality(T)
  BY <1>1, FS_Interval
<1>5. f \in Surjection(1..Cardinality(T), T)
  BY <1>1, <1>3, <1>4, FS_Injection
<1>6. f \in Seq(T) /\ Len(f) = Cardinality(T)
  BY <1>1, <1>2
<1> QED BY <1>1, <1>5, <1>6 DEF Surjection

LEMMA EachSound ==
  ASSUME NEW f \in Seq(Switches), NEW what \in OnRows
  PROVE  /\ Each(f, what) \in Seq(OnRows \X Switches) /\ Len(Each(f, what)) = Len(f)
         /\ \A i \in 1..Len(f) : Each(f, what)[i] = <<what, f[i]>>
<1>1. DOMAIN f = 1..Len(f) /\ Len(f) \in Nat /\ \A i \in 1..Len(f) : f[i] \in Switches
  OBVIOUS
<1>2. Each(f, what) = [i \in 1..Len(f) |-> <<what, f[i]>>]
  BY <1>1 DEF Each, Do
<1>3. [i \in 1..Len(f) |-> <<what, f[i]>>] \in [1..Len(f) -> OnRows \X Switches]
  BY <1>1
<1> QED BY <1>1, <1>2, <1>3

LEMMA RecordEachSound ==
  ASSUME NEW f \in Seq(Switches)
  PROVE  /\ RecordEach(f) \in Seq(OnRows \X Switches) /\ Len(RecordEach(f)) = 4 * Len(f)
         /\ \A i \in 1..4 * Len(f) : RecordEach(f)[i][1] \in {"heartbeat", "reset", "unwait", "audit"}
         /\ \A k \in 1..Len(f) : \E i \in 1..4 * Len(f) : RecordEach(f)[i] = <<"reset", f[k]>>
<1> DEFINE n == Len(f)
           row(i) == (i - 1) \div 4 + 1
           col(i) == ((i - 1) % 4) + 1
           all == [i \in 1..4 * n |-> RecordHeartbeat(f[row(i)])[col(i)]]
<1>1. DOMAIN f = 1..n /\ n \in Nat /\ \A k \in 1..n : f[k] \in Switches
  OBVIOUS
<1>2. RecordEach(f) = all
  BY DEF RecordEach
<1>3. \A i \in 1..4 * n : row(i) \in 1..n /\ col(i) \in 1..4
  BY <1>1
<1>4. \A s \in Switches, j \in 1..4 :
        /\ RecordHeartbeat(s)[j] \in OnRows \X Switches
        /\ RecordHeartbeat(s)[j][1] \in {"heartbeat", "reset", "unwait", "audit"}
        /\ RecordHeartbeat(s)[2] = <<"reset", s>>
  BY DEF RecordHeartbeat, Do, OnRows
<1>5. \A k \in 1..n : 4 * (k - 1) + 2 \in 1..4 * n /\ row(4 * (k - 1) + 2) = k /\ col(4 * (k - 1) + 2) = 2
  BY <1>1
<1>6. 4 * n \in Nat
  BY <1>1
<1> HIDE DEF row, col, n
<1>7. all \in [1..4 * n -> OnRows \X Switches]
  BY <1>1, <1>3, <1>4
<1>8. all \in Seq(OnRows \X Switches) /\ Len(all) = 4 * n
  BY <1>6, <1>7
<1>9. \A i \in 1..4 * n : all[i][1] \in {"heartbeat", "reset", "unwait", "audit"}
  BY <1>1, <1>3, <1>4
<1>10. \A k \in 1..n : \E i \in 1..4 * n : all[i] = <<"reset", f[k]>>
  <2> SUFFICES ASSUME NEW k \in 1..n PROVE \E i \in 1..4 * n : all[i] = <<"reset", f[k]>>
    OBVIOUS
  <2>1. PICK i \in 1..4 * n : row(i) = k /\ col(i) = 2
    BY <1>5
  <2>2. all[i] = RecordHeartbeat(f[k])[2]
    BY <2>1
  <2>3. f[k] \in Switches
    BY <1>1
  <2> QED BY <1>4, <2>2, <2>3
<1> QED BY <1>2, <1>8, <1>9, <1>10 DEF n

\* One program after another.
Joins(all, a, b, n, m) ==
  /\ all \in Seq(Statement) /\ Len(all) = n + m
  /\ \A i \in 1..n : all[i] = a[i]
  /\ \A i \in 1..m : all[n + i] = b[i]
  /\ \A i \in 1..n + m : i \in 1..n \/ \E j \in 1..m : i = n + j

LEMMA Joined ==
  ASSUME NEW a \in Seq(Statement), NEW b \in Seq(Statement), NEW n \in Nat, NEW m \in Nat,
         Len(a) = n, Len(b) = m
  PROVE  Joins(a \o b, a, b, n, m)
<1>1. /\ a \o b \in Seq(Statement) /\ Len(a \o b) = n + m
      /\ \A i \in 1..n + m : (a \o b)[i] = IF i <= n THEN a[i] ELSE b[i - n]
  BY ConcatProperties
<1>2. \A i \in 1..n : (a \o b)[i] = a[i]
  BY <1>1
<1>3. ASSUME NEW i \in 1..m PROVE (a \o b)[n + i] = b[i]
  <2>1. n + i \in 1..n + m /\ ~(n + i <= n) /\ n + i - n = i
    OBVIOUS
  <2> QED BY <1>1, <2>1
<1>4. ASSUME NEW i \in 1..n + m, i \notin 1..n PROVE \E j \in 1..m : i = n + j
  <2>1. i - n \in 1..m /\ i = n + (i - n)
    BY <1>4
  <2> QED BY <2>1
<1> QED BY <1>1, <1>2, <1>3, <1>4 DEF Joins

LEMMA BulkSound ==
  ASSUME NEW locked \in SetToSeqs(Switches), NEW listed \in SetToSeqs(Switches)
  PROVE  Sound("bulk", Owner, BulkProgram(locked, listed))
<1>0. PICK n \in Nat, m \in Nat :
        /\ locked \in Seq(Switches) /\ n = Len(locked) /\ \A k \in 1..n : locked[k] \in Switches
        /\ listed \in Seq(Switches) /\ m = Len(listed)
        /\ \A s \in Switches : \E k \in 1..m : listed[k] = s
  <2>1. /\ locked \in Seq(Switches) /\ Len(locked) \in Nat
        /\ listed \in Seq(Switches) /\ Len(listed) \in Nat
        /\ \A s \in Switches : \E k \in 1..Len(listed) : listed[k] = s
    BY Listed
  <2>2. \A k \in 1..Len(locked) : locked[k] \in Switches
    BY <2>1
  <2> QED BY <2>1, <2>2
<1>1. PICK head : head = Each(locked, "lockActive")
  OBVIOUS
<1>2. PICK last : last = RecordEach(listed)
  OBVIOUS
<1>3. PICK mid : mid = <<<<"stepUp", Owner>>>>
  OBVIOUS
<1>4. /\ head \in Seq(Statement) /\ Len(head) = n
      /\ \A i \in 1..n : head[i] = <<"lockActive", locked[i]>>
  <2>1. "lockActive" \in OnRows
    BY DEF OnRows
  <2>2. /\ head \in Seq(OnRows \X Switches) /\ Len(head) = n
        /\ \A i \in 1..n : head[i] = <<"lockActive", locked[i]>>
    BY <1>0, <1>1, <2>1, EachSound
  <2> QED BY <2>2 DEF Statement
<1>5. mid \in Seq(Statement) /\ Len(mid) = 1 /\ mid[1] = <<"stepUp", Owner>>
  BY <1>3 DEF Statement, OnUsers, Users
<1>6. /\ last \in Seq(Statement) /\ Len(last) = 4 * m /\ 4 * m \in Nat
      /\ \A i \in 1..4 * m : last[i][1] \in {"heartbeat", "reset", "unwait", "audit"}
      /\ \A k \in 1..m : \E i \in 1..4 * m : last[i] = <<"reset", listed[k]>>
  <2>1. /\ last \in Seq(OnRows \X Switches) /\ Len(last) = 4 * m
        /\ \A i \in 1..4 * m : last[i][1] \in {"heartbeat", "reset", "unwait", "audit"}
        /\ \A k \in 1..m : \E i \in 1..4 * m : last[i] = <<"reset", listed[k]>>
    BY <1>0, <1>2, RecordEachSound
  <2>2. last \in Seq(Statement) /\ 4 * m \in Nat
    BY <2>1 DEF Statement
  <2> QED BY <2>1, <2>2
<1>7. PICK first : first = head \o mid
  OBVIOUS
<1>8. /\ first \in Seq(Statement) /\ Len(first) = n + 1 /\ n + 1 \in Nat
      /\ \A i \in 1..n : first[i] = head[i]
      /\ first[n + 1] = mid[1]
      /\ \A i \in 1..n + 1 : i \in 1..n \/ i = n + 1
  <2>1. Joins(first, head, mid, n, 1)
    BY <1>4, <1>5, <1>7, Joined
  <2> QED BY <2>1 DEF Joins
<1>9. PICK p : p = first \o last
  OBVIOUS
<1>10. /\ p \in Seq(Statement) /\ Len(p) = n + 1 + 4 * m
       /\ \A i \in 1..n + 1 : p[i] = first[i]
       /\ \A i \in 1..4 * m : p[n + 1 + i] = last[i]
       /\ \A i \in 1..n + 1 + 4 * m : i \in 1..n + 1 \/ \E j \in 1..4 * m : i = n + 1 + j
  <2>1. Joins(p, first, last, n + 1, 4 * m)
    BY <1>6, <1>8, <1>9, Joined
  <2> QED BY <2>1 DEF Joins
<1>11. BulkProgram(locked, listed) = p
  BY <1>1, <1>2, <1>3, <1>7, <1>9 DEF BulkProgram, Do
<1>12. \A i \in DOMAIN p :
        \/ i \in 1..n /\ p[i] = <<"lockActive", locked[i]>>
        \/ p[i] = <<"stepUp", Owner>>
        \/ p[i][1] \in {"heartbeat", "reset", "unwait", "audit"}
  <2>1. DOMAIN p = 1..n + 1 + 4 * m
    BY <1>10
  <2>2. ASSUME NEW i \in 1..n PROVE p[i] = <<"lockActive", locked[i]>>
    <3>1. i \in 1..n + 1
      BY SMT
    <3>2. p[i] = first[i]
      BY <1>10, <3>1
    <3>3. first[i] = head[i]
      BY <1>8
    <3>4. head[i] = <<"lockActive", locked[i]>>
      BY <1>4
    <3> QED BY <3>2, <3>3, <3>4
  <2>3. p[n + 1] = <<"stepUp", Owner>>
    BY <1>5, <1>8, <1>10
  <2>4. \A j \in 1..4 * m : p[n + 1 + j][1] \in {"heartbeat", "reset", "unwait", "audit"}
    BY <1>6, <1>10
  <2>5. ASSUME NEW i \in 1..n + 1 + 4 * m
        PROVE  i \in 1..n \/ i = n + 1 \/ \E j \in 1..4 * m : i = n + 1 + j
    BY <1>8, <1>10
  <2> SUFFICES ASSUME NEW i \in 1..n + 1 + 4 * m
               PROVE  \/ i \in 1..n /\ p[i] = <<"lockActive", locked[i]>>
                      \/ p[i] = <<"stepUp", Owner>>
                      \/ p[i][1] \in {"heartbeat", "reset", "unwait", "audit"}
    BY <2>1
  <2>6. CASE i \in 1..n
    BY <2>2, <2>6
  <2>7. CASE i = n + 1
    BY <2>3, <2>7
  <2>8. ASSUME NEW j \in 1..4 * m, i = n + 1 + j
        PROVE  p[i][1] \in {"heartbeat", "reset", "unwait", "audit"}
    BY <2>4, <2>8
  <2> QED BY <2>5, <2>6, <2>7, <2>8
<1>13. \A i \in 1..n : \E j \in DOMAIN p : i < j /\ p[j] = <<"reset", locked[i]>>
  <2> SUFFICES ASSUME NEW i \in 1..n
               PROVE  \E j \in DOMAIN p : i < j /\ p[j] = <<"reset", locked[i]>>
    OBVIOUS
  <2>1. PICK k \in 1..m : listed[k] = locked[i]
    BY <1>0
  <2>2. PICK j \in 1..4 * m : last[j] = <<"reset", locked[i]>>
    BY <1>6, <2>1
  <2>3. n + 1 + j \in DOMAIN p /\ i < n + 1 + j
    BY <1>0, <1>10
  <2> QED BY <1>10, <2>2, <2>3
<1>14. \A i \in DOMAIN p : Fitting("bulk", Owner, p[i])
  <2>1. "bulk" \in MadeBy("lockActive") /\ "bulk" \in MadeBy("stepUp") /\ "bulk" \in MadeBy("audit")
    BY DEF MadeBy, KnownKinds, Drops
  <2>2. \A what \in {"heartbeat", "reset", "unwait", "audit"} : "bulk" \in MadeBy(what)
    BY <2>1 DEF MadeBy, Drops
  <2> QED BY <1>12, <2>1, <2>2 DEF Fitting
<1>15. Recording(p)
  <2> SUFFICES ASSUME NEW i \in DOMAIN p
               PROVE  /\ p[i][1] \in {"lockActive", "stepUp", "heartbeat", "reset", "unwait", "audit"}
                      /\ p[i][1] = "lockActive" =>
                           \E j \in DOMAIN p : i < j /\ p[j] = <<"reset", p[i][2]>>
    BY DEF Recording
  <2> QED BY <1>12, <1>13
<1> QED BY <1>10, <1>11, <1>14, <1>15 DEF Sound, ManyRows

Swept(statement) ==
  Fitting("recover", None, statement) /\ Fitting("promote", None, statement)

LEMMA SweepSound ==
  ASSUME NEW T \in SUBSET Switches, NEW found \in Orders(T)
  PROVE  /\ Sound("recover", None, Each(found, "upsertWait") \o Each(found, "audit"))
         /\ Sound("promote", None, Each(found, "takeWait"))
<1>1. PICK U \in SUBSET T : found \in SetToSeqs(U)
  BY DEF Orders, SetToAllKPermutations
<1>2. U \in SUBSET Switches
  BY <1>1
<1>3. found \in Seq(U)
  BY <1>1, <1>2, Listed
<1>4. found \in Seq(Switches) /\ Len(found) \in Nat
  BY <1>2, <1>3
<1>5. ASSUME NEW what \in {"upsertWait", "audit", "takeWait"}
      PROVE  /\ Each(found, what) \in Seq(Statement) /\ Len(Each(found, what)) = Len(found)
             /\ \A i \in 1..Len(found) : Swept(Each(found, what)[i])
  <2>1. /\ Each(found, what) \in Seq(OnRows \X Switches) /\ Len(Each(found, what)) = Len(found)
        /\ \A i \in 1..Len(found) : Each(found, what)[i] = <<what, found[i]>>
    BY <1>4, EachSound DEF OnRows
  <2>2. {"recover", "promote"} \subseteq MadeBy(what)
    BY DEF MadeBy, Drops, KnownKinds
  <2>3. \A on : Swept(<<what, on>>)
    BY <2>2 DEF Swept, Fitting
  <2> QED BY <2>1, <2>3 DEF Statement
<1>7. PICK a, b, d :
        /\ a = Each(found, "upsertWait") /\ b = Each(found, "audit") /\ d = Each(found, "takeWait")
  OBVIOUS
<1> DEFINE n == Len(found)
<1>8. /\ a \in Seq(Statement) /\ b \in Seq(Statement) /\ d \in Seq(Statement)
      /\ Len(a) = n /\ Len(b) = n /\ Len(d) = n
      /\ \A i \in 1..n : Swept(a[i]) /\ Swept(b[i]) /\ Swept(d[i])
  BY <1>5, <1>7
<1> HIDE DEF n
<1>9. /\ a \o b \in Seq(Statement) /\ Len(a \o b) = n + n
      /\ \A i \in 1..n : (a \o b)[i] = a[i]
      /\ \A i \in 1..n : (a \o b)[n + i] = b[i]
      /\ \A i \in 1..n + n : i \in 1..n \/ \E j \in 1..n : i = n + j
  <2>1. Joins(a \o b, a, b, n, n)
    BY <1>4, <1>8, Joined DEF n
  <2> QED BY <2>1 DEF Joins
<1>10. \A i \in 1..n + n : Swept((a \o b)[i])
  BY <1>8, <1>9
<1>11. DOMAIN (a \o b) = 1..n + n /\ DOMAIN d = 1..n
  BY <1>8, <1>9
<1> QED BY <1>7, <1>8, <1>9, <1>10, <1>11 DEF Sound, ManyRows, Swept

\* A transaction begins, with a program as the handlers write them.
Starts(c) ==
  \E kind, user, code, program :
    Start(c, kind, user, code, program) /\ Begun(kind, user, program)

LEMMA BeginStarts ==
  ASSUME waits \subseteq Switches, NEW c \in Clients, Begin(c)
  PROVE  Starts(c)
<1>0. Owner \in Users
  BY DEF Users
<1>1. ASSUME NEW s \in Switches, BeginCheckIn(c, s) PROVE Starts(c)
  <2>1. CASE \E code \in Codes :
               Start(c, "manual", Owner, code, <<Do("stepUp", Owner)>> \o RecordHeartbeat(s))
    <3>1. Begun("manual", Owner, <<Do("stepUp", Owner)>> \o RecordHeartbeat(s))
      BY <1>0, RecordSound
    <3> QED BY <2>1, <3>1 DEF Starts
  <2>2. CASE Start(c, "token", None, None, RecordHeartbeat(s))
    <3>1. Begun("token", None, RecordHeartbeat(s))
      BY RecordSound
    <3> QED BY <2>2, <3>1 DEF Starts
  <2>3. CASE Start(c, "link", None, None, <<Do("claimLink", s)>> \o RecordHeartbeat(s))
    <3>1. Begun("link", None, <<Do("claimLink", s)>> \o RecordHeartbeat(s))
      BY RecordSound
    <3> QED BY <2>3, <3>1 DEF Starts
  <2> QED BY <1>1, <2>1, <2>2, <2>3 DEF BeginCheckIn
<1>2. ASSUME NEW s \in Switches, BeginCancel(c, s) PROVE Starts(c)
  <2>1. PICK u \in Users, code \in Codes :
          Start(c, "cancel", u, code, <<Do("stepUp", u), Do("pause", s), Do("audit", s)>>)
    BY <1>2 DEF BeginCancel
  <2>2. Begun("cancel", u, <<Do("stepUp", u), Do("pause", s), Do("audit", s)>>)
    BY ShortSound
  <2> QED BY <2>1, <2>2 DEF Starts
<1>3. ASSUME NEW s \in Switches, BeginSetStatus(c, s) PROVE Starts(c)
  <2>1. /\ Begun("arm", Owner, <<Do("lock", s), Do("arm", s), Do("audit", s)>>)
        /\ Begun("disarm", Owner, <<Do("disarm", s), Do("audit", s)>>)
        /\ Begun("delete", Owner, DeleteSwitch(s))
    BY ShortSound, DeleteSound
  <2> QED BY <1>3, <2>1 DEF BeginSetStatus, Starts
<1>4. ASSUME NEW s \in Switches, BeginOwners(c, s) PROVE Starts(c)
  <2>1. ASSUME BeginIssue(c, s) PROVE Starts(c)
    <3>1. \A first \in {"setToken", "refer"} :
            Begun("issue", None, <<Do(first, s), Do("audit", s)>>)
      BY ShortSound
    <3> QED BY <2>1, <3>1 DEF BeginIssue, Starts
  <2>2. ASSUME BeginGrant(c, s) \/ BeginTestRelease(c, s) PROVE Starts(c)
    <3>1. /\ Begun("grant", Owner, <<Do("refer", s), Do("referUser", Owner), Do("audit", s)>>)
          /\ Begun("test", Owner,
                   <<Do("stepUp", Owner), Do("commitStepUp", Owner), Do("audit", s)>>)
      BY OwnersSound
    <3> QED BY <2>2, <3>1 DEF BeginGrant, BeginTestRelease, Starts
  <2> QED BY <1>4, <2>1, <2>2 DEF BeginOwners
<1>5. ASSUME NEW s \in Switches, BeginJob(c, s) PROVE Starts(c)
  <2>1. /\ Begun("release", None, <<Do("lock", s), Do("release", s)>>)
        /\ Begun("deliver", None, <<Do("takeReminder", s), Do("audit", s)>>)
    BY ShortSound
  <2>2. \A last \in {Do("audit", s), Do("lockReminder", s)} :
          Begun("remind", None, <<Do("lock", s), Do("lockUser", Owner), last>>)
    BY OwnersSound
  <2> QED BY <1>5, <2>1, <2>2 DEF BeginJob, Starts
<1>6. ASSUME BeginBulk(c) PROVE Starts(c)
  <2>1. PICK locked \in SetToSeqs(Switches), listed \in SetToSeqs(Switches), code \in Codes :
          Start(c, "bulk", Owner, code, BulkProgram(locked, listed))
    BY <1>6 DEF BeginBulk
  <2>2. Begun("bulk", Owner, BulkProgram(locked, listed))
    BY BulkSound DEF Begun, ManyRows
  <2> QED BY <2>1, <2>2 DEF Starts
<1>7. ASSUME BeginSweep(c) PROVE Starts(c)
  <2>1. PICK active \in SUBSET Switches : active = {s \in Switches : status[s] = "active"}
    OBVIOUS
  <2>2. PICK waiting \in SUBSET Switches : waiting = waits
    OBVIOUS
  <2>3. CASE \E found \in Orders(active) :
               Start(c, "recover", None, None, Each(found, "upsertWait") \o Each(found, "audit"))
    BY <2>3, SweepSound DEF Starts, Begun, ManyRows
  <2>4. CASE \E found \in Orders(waiting) :
               Start(c, "promote", None, None, Each(found, "takeWait"))
    BY <2>4, SweepSound DEF Starts, Begun, ManyRows
  <2> QED BY <1>7, <2>1, <2>2, <2>3, <2>4 DEF BeginSweep
<1>8. ASSUME NEW s \in Switches, BeginDuplicate(c, s) \/ BeginVote(c, s) PROVE Starts(c)
  <2>1. /\ Begun("duplicate", Owner, <<Do("read", s), Do("copyFor", Owner), Do("audit", s)>>)
        /\ \A last \in {<<Do("audit", s)>>, <<Do("refer", s), Do("audit", s)>>} :
             Begun("vote", None, <<Do("castVote", s)>> \o last)
    BY OwnersSound
  <2> QED BY <1>8, <2>1 DEF BeginDuplicate, BeginVote, Starts
<1> QED BY <1>1, <1>2, <1>3, <1>4, <1>5, <1>6, <1>7, <1>8 DEF Begin
-----------------------------------------------------------------------------
(* Steps.                                                                  *)

\* What a statement writes.
Writes(c, w) ==
  /\ DOMAIN w = Columns /\ w.waited \subseteq Switches
  /\ \/ w.code = work[c].code
     \/ Doing(c) = "stepUp" /\ (w.code # None => w.code > counter[On(c)])
  /\ \/ w.link = work[c].link
     \/ Doing(c) = "claimLink" /\ Finds(c) /\ w.link = {On(c)} /\ On(c) \notin used
  /\ Doing(c) \in {"heartbeat", "delete"} => Finds(c)
  /\ w.reset = work[c].reset \cup {s \in {On(c)} : Doing(c) = "reset" /\ Finds(c)}
  /\ \A s \in DOMAIN w.becomes :
       \/ s \in DOMAIN work[c].becomes
       \/ /\ s = On(c) /\ Finds(c)
          /\ Doing(c) \in {"pause", "disarm", "arm", "release", "delete"}
  /\ IF Doing(c) = "audit"
     THEN /\ w.entries = work[c].entries \cup
                           {[id |-> nextId, prev |-> Newest(log \cup work[c].entries)]}
          /\ nextId' = nextId + 1
     ELSE w.entries = work[c].entries /\ nextId' = nextId

\* The statement that is due is made.
Makes(c) ==
  /\ Running(c) /\ WaitingFor(c) = {}
  /\ \E w : Made(c, w) /\ Writes(c, w)

\* A row that is not found is left out, or has nothing to cascade to.
Skipped(c) ==
  CASE Doing(c) = "lockActive" -> Without(todo[c], On(c))
    [] Doing(c) = "delete" -> <<<<"audit", On(c)>>>>

Skips(c) ==
  /\ Running(c) /\ Doing(c) \in {"lockActive", "delete"} /\ ~Finds(c)
  /\ todo' = [todo EXCEPT ![c] = Skipped(c)]
  /\ UNCHANGED <<rows, nextId, step, txn, held, work>>

Takes(c) ==
  /\ Running(c) /\ Doing(c) = "takeReminder"
  /\ LET lock == <<Reminder(On(c)), "own">>
     IN  /\ \A d \in Clients : lock \notin held[d]
         /\ held' = [held EXCEPT ![c] = @ \cup {lock}]
  /\ todo' = [todo EXCEPT ![c] = Tail(@)]
  /\ UNCHANGED <<rows, nextId, step, txn, work>>

Moves(c) ==
  Starts(c) \/ Makes(c) \/ Skips(c) \/ Takes(c) \/ CommitStepUp(c) \/ Commit(c) \/ Rollback(c)

LEMMA StatementTyped ==
  ASSUME Shaped, NEW c \in Clients, Running(c)
  PROVE  /\ todo[c] \in Seq(Statement) /\ todo[c] # <<>>
         /\ Head(todo[c]) = <<Doing(c), On(c)>> /\ Head(todo[c]) \in Statement
         /\ Doing(c) \in OnRows \cup OnUsers
         /\ Doing(c) \in OnRows => On(c) \in Switches
         /\ Doing(c) \in OnUsers => On(c) \in Users
         /\ Doing(c) = "stepUp" => On(c) = txn[c].user
         /\ Doing(c) = "copyFor" => On(c) = Owner
         /\ txn[c].kind \in MadeBy(Doing(c))
<1>1. todo[c] \in Seq(Statement) /\ todo[c] # <<>>
      /\ \A i \in DOMAIN todo[c] : Fitting(txn[c].kind, txn[c].user, todo[c][i])
  BY DEF Shaped, Running, Sound
<1>2. Head(todo[c]) = todo[c][1] /\ 1 \in DOMAIN todo[c] /\ Head(todo[c]) \in Statement
  BY <1>1
<1>3. OnRows \cap OnUsers = {}
  BY DEF OnRows, OnUsers, Drops
<1> QED BY <1>1, <1>2, <1>3 DEF Doing, On, Statement, Fitting

LEMMA ProceedMoves ==
  ASSUME Shaped, NEW c \in Clients, Proceed(c)
  PROVE  Moves(c)
<1>0. DOMAIN work[c] = Columns /\ work[c].waited \subseteq Switches
  BY DEF Shaped
<1>1. ASSUME NEW w, Running(c), WaitingFor(c) = {}, Made(c, w), Writes(c, w) PROVE Moves(c)
  BY <1>1 DEF Moves, Makes
<1>2. ASSUME StepUp(c) PROVE Moves(c)
  <2>1. Running(c) /\ WaitingFor(c) = {} /\ Doing(c) = "stepUp"
    BY <1>2 DEF StepUp, Granted
  <2>2. PICK u, w : u = On(c) /\ w = [work[c] EXCEPT !.code = IF u \in TotpUsers THEN txn[c].code ELSE None]
    OBVIOUS
  <2>3. CASE Rollback(c)
    BY <2>3 DEF Moves
  <2>4. CASE (u \in TotpUsers => CodeFits(txn[c].code, counter[u])) /\ Made(c, w) /\ UNCHANGED nextId
    <3>1. /\ DOMAIN w = Columns /\ w.code = IF u \in TotpUsers THEN txn[c].code ELSE None
          /\ w.link = work[c].link /\ w.reset = work[c].reset /\ w.becomes = work[c].becomes
          /\ w.waited = work[c].waited /\ w.entries = work[c].entries
      BY <1>0, <2>2 DEF Columns
    <3>2. w.code # None => w.code > counter[u]
      BY <2>4, <3>1 DEF CodeFits
    <3>3. Writes(c, w)
      BY <1>0, <2>1, <2>2, <2>4, <3>1, <3>2 DEF Writes
    <3> QED BY <1>1, <2>1, <2>4, <3>3
  <2> QED BY <1>2, <2>2, <2>3, <2>4 DEF StepUp, Made
<1>3. ASSUME Running(c), WaitingFor(c) = {}, Made(c, work[c]), UNCHANGED nextId,
             Doing(c) # "audit", Doing(c) # "reset", Doing(c) \in {"heartbeat", "delete"} => Finds(c)
      PROVE  Moves(c)
  <2>1. PICK w : w = work[c]
    OBVIOUS
  <2>2. Made(c, w)
    BY <1>3, <2>1 DEF Made
  <2>3. Writes(c, w)
    BY <1>0, <1>3, <2>1 DEF Writes
  <2> QED BY <1>1, <1>3, <2>2, <2>3
<1>4. ASSUME Lock(c) PROVE Moves(c)
  <2>1. /\ Running(c) /\ WaitingFor(c) = {}
        /\ Doing(c) \notin {"audit", "reset", "delete"}
    BY <1>4 DEF Lock, Granted
  <2>2. \/ /\ Doing(c) = "heartbeat" => Finds(c)
           /\ Made(c, work[c]) /\ UNCHANGED nextId
        \/ Rollback(c)
    BY <1>4 DEF Lock
  <2> QED BY <1>3, <2>1, <2>2 DEF Moves
<1>5. ASSUME TakeReminder(c) PROVE Moves(c)
  BY <1>5 DEF TakeReminder, Granted, Moves, Takes
<1>6. ASSUME LockActive(c) PROVE Moves(c)
  <2>1. Running(c) /\ WaitingFor(c) = {} /\ Doing(c) = "lockActive" /\ nextId' = nextId
    BY <1>6 DEF LockActive, Granted
  <2>2. CASE Made(c, work[c])
    BY <1>3, <2>1, <2>2
  <2>3. CASE /\ ~Finds(c) /\ todo' = [todo EXCEPT ![c] = Without(@, On(c))]
             /\ UNCHANGED <<rows, step, txn, held, work>>
    <3>1. Skipped(c) = Without(todo[c], On(c))
      BY <2>1 DEF Skipped
    <3> QED BY <2>1, <2>3, <3>1 DEF Moves, Skips
  <2> QED BY <1>6, <2>2, <2>3 DEF LockActive
<1>7. ASSUME ResetDeadline(c) PROVE Moves(c)
  <2>1. Running(c) /\ WaitingFor(c) = {} /\ Doing(c) = "reset" /\ nextId' = nextId
    BY <1>7 DEF ResetDeadline, Granted
  <2>2. PICK w : w = [work[c] EXCEPT !.reset = IF Finds(c) THEN @ \cup {On(c)} ELSE @]
    OBVIOUS
  <2>3. Made(c, w)
    BY <1>7, <2>2 DEF ResetDeadline, Made
  <2>4. /\ DOMAIN w = Columns /\ w.code = work[c].code
        /\ w.link = work[c].link /\ w.becomes = work[c].becomes
        /\ w.waited = work[c].waited /\ w.entries = work[c].entries
        /\ w.reset = IF Finds(c) THEN work[c].reset \cup {On(c)} ELSE work[c].reset
    BY <1>0, <2>2 DEF Columns
  <2>5. w.reset = work[c].reset \cup {s \in {On(c)} : Doing(c) = "reset" /\ Finds(c)}
    BY <2>1, <2>4
  <2> QED BY <1>0, <1>1, <2>1, <2>3, <2>4, <2>5 DEF Writes
<1>8. ASSUME SetStatus(c) PROVE Moves(c)
  <2>1. /\ Running(c) /\ WaitingFor(c) = {}
        /\ Doing(c) \in {"pause", "disarm", "arm", "release", "delete"}
    BY <1>8 DEF SetStatus, Granted
  <2>2. PICK becomes : becomes = [t \in {On(c)} \cup DOMAIN work[c].becomes |->
                                    IF t = On(c) THEN NewStatus(Doing(c)) ELSE work[c].becomes[t]]
    OBVIOUS
  <2>3. PICK w : w = [work[c] EXCEPT !.becomes = becomes]
    OBVIOUS
  <2>4. CASE Finds(c) /\ Made(c, w) /\ UNCHANGED nextId
    <3>1. /\ DOMAIN w = Columns /\ w.code = work[c].code
          /\ w.link = work[c].link /\ w.reset = work[c].reset
          /\ w.waited = work[c].waited /\ w.entries = work[c].entries /\ w.becomes = becomes
      BY <1>0, <2>3 DEF Columns
    <3>2. DOMAIN becomes = {On(c)} \cup DOMAIN work[c].becomes
      BY <2>2
    <3> QED BY <1>0, <1>1, <2>1, <2>4, <3>1, <3>2 DEF Writes
  <2>5. CASE Doing(c) # "delete" /\ Made(c, work[c]) /\ UNCHANGED nextId
    BY <1>3, <2>1, <2>5
  <2>6. CASE /\ ~Finds(c) /\ Doing(c) = "delete"
             /\ todo' = [todo EXCEPT ![c] = <<Do("audit", On(c))>>]
             /\ UNCHANGED <<rows, nextId, step, txn, held, work>>
    <3>1. Skipped(c) = <<Do("audit", On(c))>>
      BY <2>6 DEF Skipped, Do
    <3> QED BY <2>1, <2>6, <3>1 DEF Moves, Skips
  <2>7. CASE Rollback(c)
    BY <2>7 DEF Moves
  <2> QED BY <1>8, <2>2, <2>3, <2>4, <2>5, <2>6, <2>7 DEF SetStatus, Made
<1>9. ASSUME DeleteWait(c) PROVE Moves(c)
  <2>1. Running(c) /\ WaitingFor(c) = {} /\ Doing(c) \in {"unwait", "takeWait", "dropWait"} /\ nextId' = nextId
    BY <1>9 DEF DeleteWait, Granted
  <2>2. PICK w : w = [work[c] EXCEPT !.unwaited = IF On(c) \in waits THEN @ \cup {On(c)} ELSE @]
    OBVIOUS
  <2>3. Made(c, w)
    BY <1>9, <2>2 DEF DeleteWait, Made
  <2>4. /\ DOMAIN w = Columns /\ w.code = work[c].code
        /\ w.link = work[c].link /\ w.reset = work[c].reset /\ w.becomes = work[c].becomes
        /\ w.waited = work[c].waited /\ w.entries = work[c].entries
    BY <1>0, <2>2 DEF Columns
  <2> QED BY <1>0, <1>1, <2>1, <2>3, <2>4 DEF Writes
<1>10. ASSUME UpsertWait(c) PROVE Moves(c)
  <2>1. Running(c) /\ WaitingFor(c) = {} /\ Doing(c) = "upsertWait" /\ nextId' = nextId
    BY <1>10 DEF UpsertWait, Granted
  <2>2. PICK w : w = [work[c] EXCEPT !.waited = IF Finds(c) THEN @ \cup {On(c)} ELSE @]
    OBVIOUS
  <2>3. Made(c, w)
    BY <1>10, <2>2 DEF UpsertWait, Made
  <2>4. /\ DOMAIN w = Columns /\ w.code = work[c].code
        /\ w.link = work[c].link /\ w.reset = work[c].reset /\ w.becomes = work[c].becomes
        /\ w.waited \subseteq work[c].waited \cup {On(c)} /\ w.entries = work[c].entries
    BY <1>0, <2>2 DEF Columns
  <2>5. On(c) \in Switches
    BY <2>1, StatementTyped DEF OnRows
  <2> QED BY <1>0, <1>1, <2>1, <2>3, <2>4, <2>5 DEF Writes
<1>11. ASSUME ClaimLink(c) PROVE Moves(c)
  <2>1. Running(c) /\ WaitingFor(c) = {} /\ Doing(c) = "claimLink"
    BY <1>11 DEF ClaimLink, Granted
  <2>2. PICK w : w = [work[c] EXCEPT !.link = {On(c)}]
    OBVIOUS
  <2>3. CASE Finds(c) /\ On(c) \notin used /\ Made(c, w) /\ UNCHANGED nextId
    <3>1. /\ DOMAIN w = Columns /\ w.code = work[c].code /\ w.link = {On(c)}
          /\ w.reset = work[c].reset /\ w.becomes = work[c].becomes
          /\ w.waited = work[c].waited /\ w.entries = work[c].entries
      BY <1>0, <2>2 DEF Columns
    <3> QED BY <1>0, <1>1, <2>1, <2>3, <3>1 DEF Writes
  <2>4. CASE Rollback(c)
    BY <2>4 DEF Moves
  <2> QED BY <1>11, <2>2, <2>3, <2>4 DEF ClaimLink, Made
<1>12. ASSUME WriteAudit(c) PROVE Moves(c)
  <2>1. Running(c) /\ WaitingFor(c) = {} /\ Doing(c) = "audit" /\ nextId' = nextId + 1
    BY <1>12 DEF WriteAudit, Granted
  <2>2. PICK e : e = [id |-> nextId, prev |-> Newest(log \cup work[c].entries)]
    OBVIOUS
  <2>3. PICK w : w = [work[c] EXCEPT !.entries = @ \cup {e}]
    OBVIOUS
  <2>4. Made(c, w)
    BY <1>12, <2>2, <2>3 DEF WriteAudit, Made
  <2>5. /\ DOMAIN w = Columns /\ w.code = work[c].code
        /\ w.link = work[c].link /\ w.reset = work[c].reset /\ w.becomes = work[c].becomes
        /\ w.waited = work[c].waited /\ w.entries = work[c].entries \cup {e}
    BY <1>0, <2>3 DEF Columns
  <2> QED BY <1>0, <1>1, <2>1, <2>2, <2>4, <2>5 DEF Writes
<1>13. CommitStepUp(c) \/ Commit(c) => Moves(c)
  BY DEF Moves
<1> QED BY <1>2, <1>4, <1>5, <1>6, <1>7, <1>8, <1>9, <1>10, <1>11, <1>12, <1>13 DEF Proceed

LEMMA AllMove ==
  ASSUME Shaped, [Next]_vars
  PROVE  (\E c \in Clients : Moves(c)) \/ UNCHANGED <<rows, nextId, txn, todo, held, work>>
<1>1. ASSUME NEW c \in Clients, Begin(c) PROVE Moves(c)
  BY <1>1, BeginStarts DEF Moves, Shaped
<1>2. ASSUME NEW c \in Clients, Victim(c) PROVE Moves(c)
  BY <1>2 DEF Victim, Moves
<1>3. NextStep \/ Rest \/ UNCHANGED vars => UNCHANGED <<rows, nextId, txn, todo, held, work>>
  BY DEF NextStep, Rest, vars
<1> QED BY <1>1, <1>2, <1>3, ProceedMoves DEF Next
-----------------------------------------------------------------------------
(* Programs stay sound.                                                    *)

LEMMA Tails ==
  ASSUME NEW S, NEW p \in Seq(S), p # <<>>
  PROVE  /\ Tail(p) \in Seq(S) /\ 1 \in DOMAIN p /\ Head(p) = p[1]
         /\ \A i \in DOMAIN Tail(p) : i \in Nat /\ i + 1 \in DOMAIN p /\ Tail(p)[i] = p[i + 1]
         /\ \A i \in DOMAIN p : i \in Nat /\ (i # 1 => i - 1 \in DOMAIN Tail(p) /\ Tail(p)[i - 1] = p[i])
<1>1. /\ Tail(p) \in Seq(S) /\ Len(p) \in Nat /\ Len(p) > 0 /\ Len(Tail(p)) = Len(p) - 1
      /\ DOMAIN p = 1..Len(p) /\ DOMAIN Tail(p) = 1..Len(p) - 1 /\ Head(p) = p[1]
      /\ \A i \in 1..Len(p) - 1 : Tail(p)[i] = p[i + 1]
  BY HeadTailProperties
<1>2. ASSUME NEW i \in 1..Len(p), i # 1 PROVE i - 1 \in 1..Len(p) - 1 /\ i - 1 + 1 = i
  BY <1>1, <1>2
<1>3. ASSUME NEW i \in 1..Len(p) - 1 PROVE i \in Nat /\ i + 1 \in 1..Len(p)
  BY <1>1, <1>3
<1>4. ASSUME NEW i \in 1..Len(p), i # 1 PROVE Tail(p)[i - 1] = p[i]
  BY <1>1, <1>2, <1>4
<1> QED BY <1>1, <1>2, <1>3, <1>4

LEMMA SoundTail ==
  ASSUME NEW kind, NEW user, NEW p, Sound(kind, user, p), p # <<>>
  PROVE  Sound(kind, user, Tail(p))
<1>0. p \in Seq(Statement) /\ \A i \in DOMAIN p : Fitting(kind, user, p[i])
  BY DEF Sound
<1>1. PICK t : t = Tail(p)
  OBVIOUS
<1>2. /\ t \in Seq(Statement)
      /\ \A i \in DOMAIN t : i \in Nat /\ i + 1 \in DOMAIN p /\ t[i] = p[i + 1]
      /\ \A i \in DOMAIN p : i \in Nat /\ (i # 1 => i - 1 \in DOMAIN t /\ t[i - 1] = p[i])
  BY <1>0, <1>1, Tails
<1>3. \A i \in DOMAIN t : Fitting(kind, user, t[i])
  BY <1>0, <1>2
<1>4. ASSUME Ordered(p) PROVE Ordered(t)
  <2> SUFFICES ASSUME NEW i \in DOMAIN t, NEW j \in DOMAIN t, i < j
               PROVE  /\ t[j][1] \in Later(t[i][1])
                      /\ t[i][1] \in OnRows /\ t[j][1] \in OnRows => t[i][2] = t[j][2]
    BY DEF Ordered
  <2>1. /\ i + 1 \in DOMAIN p /\ j + 1 \in DOMAIN p /\ i + 1 < j + 1
        /\ t[i] = p[i + 1] /\ t[j] = p[j + 1]
    BY <1>2
  <2> QED BY <1>4, <2>1 DEF Ordered
<1>5. ASSUME Recording(p) PROVE Recording(t)
  <2> SUFFICES ASSUME NEW i \in DOMAIN t
               PROVE  /\ t[i][1] \in {"lockActive", "stepUp", "heartbeat", "reset", "unwait", "audit"}
                      /\ t[i][1] = "lockActive" =>
                           \E j \in DOMAIN t : i < j /\ t[j] = <<"reset", t[i][2]>>
    BY DEF Recording
  <2>1. i \in Nat /\ i + 1 \in DOMAIN p /\ t[i] = p[i + 1]
    BY <1>2
  <2>2. ASSUME t[i][1] = "lockActive"
        PROVE  \E j \in DOMAIN t : i < j /\ t[j] = <<"reset", t[i][2]>>
    <3>1. PICK j \in DOMAIN p : i + 1 < j /\ p[j] = <<"reset", t[i][2]>>
      BY <1>5, <2>1, <2>2 DEF Recording
    <3>2. j \in Nat /\ j # 1
      BY <1>2, <2>1, <3>1
    <3>3. j - 1 \in DOMAIN t /\ t[j - 1] = p[j] /\ i < j - 1
      BY <1>2, <2>1, <3>1, <3>2
    <3> QED BY <3>1, <3>3
  <2> QED BY <1>5, <2>1, <2>2 DEF Recording
<1> QED BY <1>1, <1>2, <1>3, <1>4, <1>5 DEF Sound

LEMMA SoundWithout ==
  ASSUME NEW kind, NEW user, NEW p, Sound(kind, user, p), NEW s
  PROVE  Sound(kind, user, Without(p, s))
<1>0. p \in Seq(Statement) /\ \A i \in DOMAIN p : Fitting(kind, user, p[i])
  BY DEF Sound
<1>1. PICK t : t = Without(p, s)
  OBVIOUS
<1>2. t \in Seq(Statement) /\ \E from : Picks(from, p, t, s)
  BY <1>0, <1>1, WithoutPicks
<1>3. PICK from : Picks(from, p, t, s)
  BY <1>2
<1>4. /\ \A i \in DOMAIN t : /\ i \in Nat /\ from[i] \in Nat /\ from[i] \in DOMAIN p
                             /\ t[i] = p[from[i]] /\ t[i][2] # s
      /\ \A i, j \in DOMAIN t : i < j => from[i] < from[j]
      /\ \A i \in DOMAIN p : p[i][2] # s => \E k \in DOMAIN t : from[k] = i
  <2>1. DOMAIN p \subseteq Nat /\ DOMAIN t \subseteq Nat
    BY <1>0, <1>2
  <2> QED BY <1>3, <2>1 DEF Picks
<1>5. \A i \in DOMAIN t : Fitting(kind, user, t[i])
  BY <1>0, <1>4
<1>6. ASSUME Ordered(p) PROVE Ordered(t)
  BY <1>4, <1>6 DEF Ordered
<1>7. ASSUME Recording(p) PROVE Recording(t)
  <2> SUFFICES ASSUME NEW i \in DOMAIN t
               PROVE  /\ t[i][1] \in {"lockActive", "stepUp", "heartbeat", "reset", "unwait", "audit"}
                      /\ t[i][1] = "lockActive" =>
                           \E j \in DOMAIN t : i < j /\ t[j] = <<"reset", t[i][2]>>
    BY DEF Recording
  <2>1. from[i] \in DOMAIN p /\ t[i] = p[from[i]] /\ t[i][2] # s /\ i \in Nat
    BY <1>4
  <2>2. ASSUME t[i][1] = "lockActive"
        PROVE  \E j \in DOMAIN t : i < j /\ t[j] = <<"reset", t[i][2]>>
    <3>1. PICK j \in DOMAIN p : from[i] < j /\ p[j] = <<"reset", t[i][2]>>
      BY <1>7, <2>1, <2>2 DEF Recording
    <3>2. PICK k \in DOMAIN t : from[k] = j
      BY <1>4, <2>1, <3>1
    <3>3. t[k] = p[j] /\ k \in Nat /\ from[i] \in Nat /\ from[k] \in Nat
      BY <1>4, <3>2
    <3>4. ~(k < i) /\ k # i
      BY <1>4, <3>1, <3>2, <3>3
    <3> QED BY <2>1, <3>1, <3>3, <3>4
  <2> QED BY <1>7, <2>1, <2>2 DEF Recording
<1> QED BY <1>1, <1>2, <1>5, <1>6, <1>7 DEF Sound
LEMMA SkippedSound ==
  ASSUME Shaped, NEW c \in Clients, Running(c), Doing(c) \in {"lockActive", "delete"}
  PROVE  Sound(txn[c].kind, txn[c].user, Skipped(c))
<1>1. Sound(txn[c].kind, txn[c].user, todo[c])
  BY DEF Shaped, Running
<1>2. CASE Doing(c) = "lockActive"
  BY <1>1, <1>2, SoundWithout DEF Skipped
<1>3. CASE Doing(c) = "delete"
  <2>1. PICK p : p = <<<<"audit", On(c)>>>>
    OBVIOUS
  <2>2. Skipped(c) = p
    BY <1>3, <2>1 DEF Skipped
  <2>3. On(c) \in Switches /\ txn[c].kind \in KnownKinds
    BY <1>3, StatementTyped DEF OnRows, MadeBy, Drops
  <2>4. p \in Seq(Statement) /\ DOMAIN p = {1} /\ p[1] = <<"audit", On(c)>>
    BY <2>1, <2>3 DEF Statement, OnRows
  <2>5. Fitting(txn[c].kind, txn[c].user, p[1])
    BY <2>3, <2>4 DEF Fitting, MadeBy, Drops
  <2>6. Ordered(p) /\ Recording(p)
    BY <2>4 DEF Ordered, Recording
  <2> QED BY <2>2, <2>4, <2>5, <2>6 DEF Sound
<1> QED BY <1>2, <1>3
-----------------------------------------------------------------------------
(* Each step, for whom it moves and for the others.                        *)

LEMMA OthersStay ==
  ASSUME Shaped, NEW c \in Clients, Moves(c), NEW d \in Clients, d # c
  PROVE  txn'[d] = txn[d] /\ todo'[d] = todo[d] /\ held'[d] = held[d] /\ work'[d] = work[d]
<1>0. DOMAIN txn = Clients /\ DOMAIN todo = Clients /\ DOMAIN held = Clients /\ DOMAIN work = Clients
  BY DEF Shaped
<1>1. CASE Starts(c)
  BY <1>0, <1>1 DEF Starts, Start, Free
<1>2. CASE Makes(c)
  BY <1>0, <1>2 DEF Makes, Made
<1>3. CASE Skips(c) \/ Takes(c)
  BY <1>0, <1>3 DEF Skips, Takes
<1>4. CASE CommitStepUp(c)
  BY <1>0, <1>4 DEF CommitStepUp
<1>5. CASE Commit(c) \/ Rollback(c)
  BY <1>0, <1>5 DEF Commit, Rollback, End
<1> QED BY <1>1, <1>2, <1>3, <1>4, <1>5 DEF Moves

LEMMA EndsIdle ==
  ASSUME Shaped, NEW c \in Clients, Commit(c) \/ Rollback(c)
  PROVE  /\ txn'[c] = None /\ todo'[c] = <<>> /\ held'[c] = {} /\ work'[c] = Nothing
         /\ nextId' = nextId
<1>0. DOMAIN txn = Clients /\ DOMAIN todo = Clients /\ DOMAIN held = Clients /\ DOMAIN work = Clients
  BY DEF Shaped
<1> QED BY <1>0 DEF Commit, Rollback, End

LEMMA ShapedStep ==
  ASSUME Shaped, NEW c \in Clients, Moves(c)
  PROVE  Shaped'
<1>0. /\ DOMAIN txn = Clients /\ DOMAIN todo = Clients /\ DOMAIN held = Clients
      /\ DOMAIN work = Clients /\ DOMAIN status = Switches /\ waits \subseteq Switches
      /\ DOMAIN counter = Users /\ nextId \in Nat
      /\ DOMAIN work[c] = Columns /\ work[c].waited \subseteq Switches
      /\ txn[c] = None => held[c] = {} /\ work[c] = Nothing
      /\ txn[c] # None => Sound(txn[c].kind, txn[c].user, todo[c])
  BY DEF Shaped
<1>1. DOMAIN Nothing = Columns /\ Nothing.waited \subseteq Switches
  BY DEF Nothing, Columns
<1>2. /\ DOMAIN txn' = Clients /\ DOMAIN todo' = Clients /\ DOMAIN held' = Clients
      /\ DOMAIN work' = Clients
  <2>1. CASE Starts(c)
    BY <1>0, <2>1 DEF Starts, Start, Free
  <2>2. CASE Makes(c)
    BY <1>0, <2>2 DEF Makes, Made
  <2>3. CASE Skips(c) \/ Takes(c)
    BY <1>0, <2>3 DEF Skips, Takes
  <2>4. CASE CommitStepUp(c)
    BY <1>0, <2>4 DEF CommitStepUp
  <2>5. CASE Commit(c) \/ Rollback(c)
    BY <1>0, <2>5 DEF Commit, Rollback, End
  <2> QED BY <2>1, <2>2, <2>3, <2>4, <2>5 DEF Moves
<1>3. /\ DOMAIN status' = Switches /\ waits' \subseteq Switches /\ nextId' \in Nat
      /\ DOMAIN counter' = Users
  <2>1. CASE Starts(c)
    BY <1>0, <2>1 DEF Starts, Start, Free, rows
  <2>2. CASE Makes(c)
    BY <1>0, <2>2 DEF Makes, Made, Writes, rows
  <2>3. CASE Skips(c) \/ Takes(c) \/ CommitStepUp(c)
    BY <1>0, <2>3 DEF Skips, Takes, CommitStepUp, rows
  <2>4. CASE Rollback(c)
    BY <1>0, <2>4 DEF Rollback, End, rows
  <2>5. CASE Commit(c)
    BY <1>0, <2>5 DEF Commit, End
  <2> QED BY <2>1, <2>2, <2>3, <2>4, <2>5 DEF Moves
<1>4. /\ DOMAIN work'[c] = Columns /\ work'[c].waited \subseteq Switches
      /\ txn'[c] = None => held'[c] = {} /\ work'[c] = Nothing
      /\ txn'[c] # None => Sound(txn'[c].kind, txn'[c].user, todo'[c])
  <2>1. CASE Starts(c)
    <3>1. PICK kind, user, code, program :
            Start(c, kind, user, code, program) /\ Sound(kind, user, program)
      BY <2>1 DEF Starts, Begun
    <3>2. /\ txn[c] = None /\ txn'[c].kind = kind /\ txn'[c].user = user /\ todo'[c] = program
          /\ held'[c] = held[c] /\ work'[c] = work[c]
      BY <1>0, <3>1 DEF Start, Free
    <3> QED BY <1>0, <3>1, <3>2
  <2>2. CASE Makes(c)
    <3>1. PICK w : Made(c, w) /\ Writes(c, w)
      BY <2>2 DEF Makes
    <3>2. txn[c] # None /\ todo[c] # <<>> /\ txn' = txn /\ work'[c] = w /\ todo'[c] = Tail(todo[c])
      BY <1>0, <2>2, <3>1 DEF Makes, Made, Running
    <3> QED BY <1>0, <3>1, <3>2, SoundTail DEF Writes
  <2>3. CASE Skips(c)
    <3>1. txn[c] # None /\ txn' = txn /\ work' = work /\ todo'[c] = Skipped(c)
      BY <1>0, <2>3 DEF Skips, Running
    <3>2. Sound(txn[c].kind, txn[c].user, Skipped(c))
      BY <2>3, SkippedSound DEF Skips
    <3> QED BY <1>0, <3>1, <3>2
  <2>4. CASE Takes(c)
    <3>1. txn[c] # None /\ todo[c] # <<>> /\ txn' = txn /\ work' = work /\ todo'[c] = Tail(todo[c])
      BY <1>0, <2>4 DEF Takes, Running
    <3> QED BY <1>0, <3>1, SoundTail
  <2>5. CASE CommitStepUp(c)
    <3>1. txn[c] # None /\ todo[c] # <<>> /\ txn' = txn /\ work'[c] = Nothing /\ todo'[c] = Tail(todo[c])
      BY <1>0, <2>5 DEF CommitStepUp, Granted, Running
    <3> QED BY <1>0, <1>1, <3>1, SoundTail
  <2>6. CASE Commit(c) \/ Rollback(c)
    BY <1>1, <2>6, EndsIdle
  <2> QED BY <2>1, <2>2, <2>3, <2>4, <2>5, <2>6 DEF Moves
<1>5. ASSUME NEW d \in Clients, d # c
      PROVE  /\ DOMAIN work'[d] = Columns /\ work'[d].waited \subseteq Switches
             /\ txn'[d] = None => held'[d] = {} /\ work'[d] = Nothing
             /\ txn'[d] # None => Sound(txn'[d].kind, txn'[d].user, todo'[d])
  BY <1>5, OthersStay DEF Shaped
<1> QED BY <1>2, <1>3, <1>4, <1>5 DEF Shaped
-----------------------------------------------------------------------------
(* Locks.                                                                  *)

LEMMA InitLocks == Init => LocksInv
<1> SUFFICES ASSUME Init PROVE LocksInv
  OBVIOUS
<1>1. \A c \in Clients : txn[c] = None /\ held[c] = {} /\ work[c] = Nothing
  BY DEF Init
<1>2. /\ DOMAIN Nothing = Columns /\ Nothing.code = None /\ Nothing.link = {}
      /\ Nothing.reset = {} /\ DOMAIN Nothing.becomes = {} /\ Nothing.waited = {}
      /\ Nothing.entries = {}
  BY DEF Nothing, Columns
<1>3. Shaped
  BY <1>1, <1>2 DEF Init, Shaped
<1>4. LocksExclude /\ RemindersOwned
  BY <1>1 DEF LocksExclude, RemindersOwned
<1>5. WorkCovered
  BY <1>1, <1>2 DEF WorkCovered
<1>6. BulkCovers /\ HeldInOrder /\ Rooted
  BY <1>1 DEF BulkCovers, HeldInOrder, Rooted, OneSwitch
<1>7. Chained
  BY <1>1, <1>2 DEF Init, Chained, EntriesChained, AuditLinear
<1> QED BY <1>3, <1>4, <1>5, <1>6, <1>7 DEF LocksInv

\* The locks of a statement, lock by lock.
Locks(c, n) ==
  LET x == On(c)
  IN  \/ Doing(c) \in {"stepUp", "lockUser"} /\ n = <<User(x), "own">>
      \/ Doing(c) \in {"referUser", "copyFor"} /\ n = <<User(x), "share">>
      \/ Doing(c) \in {"lock", "lockActive", "delete"} /\ Finds(c) /\ n = <<Row(x), "own">>
      \/ Doing(c) \in {"heartbeat", "refer", "upsertWait"} /\ Finds(c) /\ n = <<Row(x), "share">>
      \/ /\ Doing(c) \in {"setToken", "reset", "pause", "disarm", "arm", "release"}
         /\ Finds(c) /\ n = <<Row(x), "change">>
      \/ Doing(c) = "read" /\ Finds(c) /\ n = <<Row(x), "read">>
      \/ /\ Doing(c) \in {"dropWait", "unwait", "takeWait", "upsertWait"}
         /\ n = <<Wait(x), "own">>
      \/ Doing(c) = "claimLink" /\ n = <<Link(x), "change">>
      \/ Doing(c) = "dropLinks" /\ n = <<Link(x), "own">>
      \/ Doing(c) = "castVote" /\ n = <<Recipient(x), "change">>
      \/ Doing(c) = "dropRecipients" /\ n = <<Recipient(x), "own">>
      \/ Doing(c) \in {"lockReminder", "dropReminders"} /\ n = <<Reminder(x), "own">>
      \/ Doing(c) = "audit" /\ n = <<AuditChain, "own">>

LEMMA NeedsLocks ==
  ASSUME Shaped, NEW c \in Clients, Running(c)
  PROVE  /\ \A n \in Needs(c) : Locks(c, n)
         /\ Doing(c) = "stepUp" => <<User(On(c)), "own">> \in Needs(c)
         /\ Doing(c) = "audit" => <<AuditChain, "own">> \in Needs(c)
         /\ Doing(c) = "claimLink" /\ Finds(c) /\ On(c) \notin used =>
              <<Link(On(c)), "change">> \in Needs(c)
         /\ Doing(c) \in {"heartbeat", "refer"} /\ Finds(c) => <<Row(On(c)), "share">> \in Needs(c)
         /\ Doing(c) = "copyFor" => <<User(On(c)), "share">> \in Needs(c)
         /\ Doing(c) = "delete" /\ Finds(c) => <<Row(On(c)), "own">> \in Needs(c)
         /\ Doing(c) \in {"reset", "pause", "disarm", "arm", "release"} /\ Finds(c) =>
              <<Row(On(c)), "change">> \in Needs(c)
<1>1. Doing(c) \in OnRows \cup OnUsers
  BY StatementTyped
<1> DEFINE what == Doing(c)
<1>2. CASE what \in {"stepUp", "lockUser"}
  <2>1. Needs(c) = {<<User(On(c)), "own">>}
    BY <1>2 DEF Needs, UserLock
  <2> QED BY <1>2, <2>1 DEF Locks
<1>3. CASE what \in {"lock", "lockActive", "delete"}
  <2>1. Needs(c) = OnSwitch(c, "own")
    BY <1>3 DEF Needs
  <2> QED BY <1>3, <2>1 DEF Locks, OnSwitch
<1>4. CASE what \in {"heartbeat", "refer"}
  <2>1. Needs(c) = OnSwitch(c, "share")
    BY <1>4 DEF Needs
  <2> QED BY <1>4, <2>1 DEF Locks, OnSwitch
<1>5. CASE what \in {"referUser", "copyFor"}
  <2>1. Needs(c) = {<<User(On(c)), "share">>}
    BY <1>5 DEF Needs
  <2> QED BY <1>5, <2>1 DEF Locks
<1>6. CASE what \in {"setToken", "reset", "pause", "disarm", "arm", "release"}
  <2>1. Needs(c) = OnSwitch(c, "change")
    BY <1>6 DEF Needs
  <2> QED BY <1>6, <2>1 DEF Locks, OnSwitch
<1>7. CASE what \in {"read", "dropRecipients", "dropLinks"}
  <2>1. /\ what = "read" => Needs(c) = OnSwitch(c, "read")
        /\ what = "dropRecipients" => Needs(c) = {<<Recipient(On(c)), "own">>}
        /\ what = "dropLinks" => Needs(c) \subseteq {<<Link(On(c)), "own">>}
    BY <1>7 DEF Needs
  <2> QED BY <1>7, <2>1 DEF Locks, OnSwitch
<1>8. CASE what \in {"unwait", "takeWait", "dropWait"}
  <2>1. Needs(c) \subseteq {<<Wait(On(c)), "own">>}
    BY <1>8 DEF Needs
  <2> QED BY <1>8, <2>1 DEF Locks
<1>9. CASE what = "upsertWait"
  <2>1. Needs(c) \subseteq {<<Wait(On(c)), "own">>} \cup OnSwitch(c, "share")
    BY <1>9 DEF Needs
  <2> QED BY <1>9, <2>1 DEF Locks, OnSwitch
<1>10. CASE what \in {"claimLink", "castVote"}
  <2>1. /\ what = "claimLink" => Needs(c) = IF Finds(c) /\ On(c) \notin used
                                             THEN {<<Link(On(c)), "change">>} ELSE {}
        /\ what = "castVote" => Needs(c) \subseteq {<<Recipient(On(c)), "change">>}
    BY <1>10 DEF Needs
  <2> QED BY <1>10, <2>1 DEF Locks
<1>11. CASE what \in {"lockReminder", "dropReminders"}
  <2>1. Needs(c) = {<<Reminder(On(c)), "own">>}
    BY <1>11 DEF Needs
  <2> QED BY <1>11, <2>1 DEF Locks
<1>12. CASE what = "audit"
  <2>1. Needs(c) = {<<AuditChain, "own">>}
    BY <1>12 DEF Needs, AuditLock
  <2> QED BY <1>12, <2>1 DEF Locks
<1>13. CASE what \in {"takeReminder", "commitStepUp"}
  <2>1. Needs(c) = {}
    BY <1>13 DEF Needs
  <2> QED BY <1>13, <2>1
<1> QED BY <1>1, <1>2, <1>3, <1>4, <1>5, <1>6, <1>7, <1>8, <1>9, <1>10, <1>11, <1>12, <1>13
        DEF OnRows, OnUsers, Drops

LEMMA HeldChanges ==
  ASSUME Shaped, NEW c \in Clients, Moves(c)
  PROVE  \/ held'[c] \subseteq held[c]
         \/ Running(c) /\ Makes(c) /\ held'[c] = held[c] \cup Needs(c)
         \/ /\ Running(c) /\ Takes(c) /\ held'[c] = held[c] \cup {<<Reminder(On(c)), "own">>}
            /\ \A d \in Clients : <<Reminder(On(c)), "own">> \notin held[d]
<1>0. DOMAIN held = Clients
  BY DEF Shaped
<1>1. CASE Starts(c) \/ Skips(c)
  BY <1>1 DEF Starts, Start, Free, Skips
<1>2. CASE Makes(c)
  BY <1>0, <1>2 DEF Makes, Made
<1>3. CASE Takes(c)
  BY <1>0, <1>3 DEF Takes
<1>4. CASE CommitStepUp(c)
  BY <1>0, <1>4 DEF CommitStepUp
<1>5. CASE Commit(c) \/ Rollback(c)
  BY <1>5, EndsIdle
<1> QED BY <1>1, <1>2, <1>3, <1>4, <1>5 DEF Moves

LEMMA LocksExcludeStep ==
  ASSUME Shaped, LocksExclude, RemindersOwned, NEW c \in Clients, Moves(c)
  PROVE  LocksExclude' /\ RemindersOwned'
<1>1. \A d \in Clients : d # c => held'[d] = held[d]
  BY OthersStay
<1>2. ASSUME NEW d \in Clients, d # c, NEW l \in held'[c], NEW n \in held[d], l[1] = n[1]
      PROVE  ~Conflicts(l[2], n[2]) /\ ~Conflicts(n[2], l[2])
  <2>1. CASE l \in held[c]
    BY <1>2, <2>1 DEF LocksExclude, Conflicts
  <2>2. CASE Running(c) /\ Makes(c) /\ l \in Needs(c)
    <3>1. Running(c) /\ WaitingFor(c) = {}
      BY <2>2 DEF Makes
    <3>2. ~Conflicts(n[2], l[2])
      BY <1>2, <2>2, <3>1 DEF WaitingFor
    <3> QED BY <3>2 DEF Conflicts
  <2>3. CASE /\ Running(c) /\ Takes(c) /\ l = <<Reminder(On(c)), "own">>
             /\ \A e \in Clients : <<Reminder(On(c)), "own">> \notin held[e]
    <3>1. On(c) \in Switches
      BY <2>3, StatementTyped DEF Takes, OnRows
    <3>2. n = <<Reminder(On(c)), "own">>
      BY <1>2, <2>3, <3>1 DEF RemindersOwned
    <3> QED BY <2>3, <3>2
  <2> QED BY <2>1, <2>2, <2>3, HeldChanges
<1>3. LocksExclude'
  <2> SUFFICES ASSUME NEW a \in Clients, NEW b \in Clients, a # b,
                      NEW l \in held'[a], NEW n \in held'[b], l[1] = n[1]
               PROVE  ~Conflicts(l[2], n[2])
    BY DEF LocksExclude
  <2>1. CASE a = c
    BY <1>1, <1>2, <2>1
  <2>2. CASE b = c
    BY <1>1, <1>2, <2>2
  <2>3. CASE a # c /\ b # c
    BY <1>1, <2>3 DEF LocksExclude
  <2> QED BY <2>1, <2>2, <2>3
<1>4. RemindersOwned'
  <2> SUFFICES ASSUME NEW d \in Clients, NEW s \in Switches, NEW l \in held'[d],
                      l[1] = Reminder(s)
               PROVE  l = <<Reminder(s), "own">>
    BY DEF RemindersOwned, Reminder
  <2>1. CASE l \in held[d]
    BY <2>1 DEF RemindersOwned
  <2>2. CASE d = c /\ Running(c) /\ l \in Needs(c)
    <3>1. Locks(c, l)
      BY <2>2, NeedsLocks
    <3>2. PICK x : x = On(c)
      OBVIOUS
    <3>3. /\ User(x)[1] = "user" /\ Row(x)[1] = "switch" /\ Wait(x)[1] = "wait"
          /\ Link(x)[1] = "link" /\ Recipient(x)[1] = "recipient"
          /\ AuditChain[1] = "audit" /\ l[1][1] = "reminder"
      BY DEF User, Row, Wait, Link, Recipient, Reminder, AuditChain
    <3>4. l = <<Reminder(x), "own">>
      BY <3>1, <3>2, <3>3 DEF Locks
    <3> QED BY <3>4 DEF Reminder
  <2>3. CASE l = <<Reminder(On(c)), "own">>
    BY <2>3 DEF Reminder
  <2>4. d # c => l \in held[d]
    BY <1>1
  <2>5. d = c => \/ l \in held[d]
                 \/ Running(c) /\ l \in Needs(c)
                 \/ l = <<Reminder(On(c)), "own">>
    BY HeldChanges
  <2> QED BY <2>1, <2>2, <2>3, <2>4, <2>5
<1> QED BY <1>3, <1>4
-----------------------------------------------------------------------------
(* What is written or was looked at under a lock stays.                    *)

\* Row s is locked by d in a way that keeps the others from changing it.
Keeps(d, s) == \E mode \in {"change", "own"} : <<Row(s), mode>> \in held[d]

LEMMA RowsStay ==
  ASSUME Shaped, LocksExclude, WorkCovered, NEW c \in Clients, Moves(c),
         NEW d \in Clients, d # c
  PROVE  /\ work[d].code # None => counter'[txn[d].user] = counter[txn[d].user]
         /\ \A s \in work[d].link : s \notin used'
         /\ \A s \in Switches : Keeps(d, s) => status'[s] = status[s]
<1>0. DOMAIN counter = Users /\ DOMAIN status = Switches
  BY DEF Shaped
<1>1. ASSUME work[c].code # None, work[d].code # None
      PROVE  txn[c].user # txn[d].user /\ txn[d].user \in Users
  <2>1. /\ <<User(txn[c].user), "own">> \in held[c] /\ <<User(txn[d].user), "own">> \in held[d]
        /\ txn[d].user \in Users
    BY <1>1 DEF WorkCovered
  <2>2. PICK l \in held[c], n \in held[d] :
          l = <<User(txn[c].user), "own">> /\ n = <<User(txn[d].user), "own">>
    BY <2>1
  <2>3. ~Conflicts(l[2], n[2]) \/ l[1] # n[1]
    BY DEF LocksExclude
  <2>4. Conflicts(l[2], n[2])
    BY <2>2 DEF Conflicts
  <2> QED BY <2>1, <2>2, <2>3, <2>4
<1>2. ASSUME NEW s \in work[c].link PROVE s \notin work[d].link
  <2> SUFFICES ASSUME s \in work[d].link PROVE FALSE
    OBVIOUS
  <2>1. PICK l \in held[c], n \in held[d] : l = <<Link(s), "change">> /\ n = <<Link(s), "change">>
    BY <1>2 DEF WorkCovered
  <2>2. Conflicts(l[2], n[2]) /\ l[1] = n[1]
    BY <2>1 DEF Conflicts
  <2> QED BY <2>2 DEF LocksExclude
<1>3. ASSUME NEW s \in Switches, Keeps(d, s) PROVE s \notin DOMAIN work[c].becomes
  <2> SUFFICES ASSUME s \in DOMAIN work[c].becomes PROVE FALSE
    OBVIOUS
  <2>1. PICK l \in held[c], m \in {"change", "own"} : l = <<Row(s), m>>
    BY DEF WorkCovered
  <2>2. PICK n \in held[d], k \in {"change", "own"} : n = <<Row(s), k>>
    BY <1>3 DEF Keeps
  <2>3. Conflicts(l[2], n[2]) /\ l[1] = n[1]
    BY <2>1, <2>2 DEF Conflicts
  <2> QED BY <2>3 DEF LocksExclude
<1>4. \A s \in work[d].link : s \notin used
  BY DEF WorkCovered
<1>5. CASE UNCHANGED rows
  BY <1>4, <1>5 DEF rows
<1>6. CASE CommitStepUp(c)
  <2>1. /\ UNCHANGED <<status, used>>
        /\ \/ counter' = counter
           \/ work[c].code # None /\ counter' = [counter EXCEPT ![txn[c].user] = work[c].code]
    BY <1>6 DEF CommitStepUp
  <2> QED BY <1>0, <1>1, <1>4, <2>1
<1>7. CASE Commit(c)
  <2>1. /\ status' = [s \in Switches |-> IF s \in DOMAIN work[c].becomes
                                         THEN work[c].becomes[s] ELSE status[s]]
        /\ used' = used \cup work[c].link
        /\ \/ counter' = counter
           \/ work[c].code # None /\ counter' = [counter EXCEPT ![txn[c].user] = work[c].code]
    BY <1>7 DEF Commit
  <2>2. work[d].code # None => counter'[txn[d].user] = counter[txn[d].user]
    BY <1>0, <1>1, <2>1
  <2>3. \A s \in work[d].link : s \notin used'
    BY <1>2, <1>4, <2>1
  <2>4. \A s \in Switches : Keeps(d, s) => status'[s] = status[s]
    BY <1>3, <2>1
  <2> QED BY <2>2, <2>3, <2>4
<1>8. Starts(c) \/ Makes(c) \/ Skips(c) \/ Takes(c) \/ Rollback(c) => UNCHANGED rows
  BY DEF Starts, Start, Free, Makes, Made, Skips, Takes, Rollback
<1> QED BY <1>5, <1>6, <1>7, <1>8 DEF Moves

\* The rows change in a commit only.
LEMMA RowsSame ==
  ASSUME NEW c, Starts(c) \/ Makes(c) \/ Skips(c) \/ Takes(c) \/ Rollback(c)
  PROVE  UNCHANGED rows /\ UNCHANGED <<status, waits, used, counter, log>>
BY DEF Starts, Start, Free, Makes, Made, Skips, Takes, Rollback, rows

LEMMA WorkCoveredStep ==
  ASSUME Shaped, LocksExclude, WorkCovered, NEW c \in Clients, Moves(c)
  PROVE  WorkCovered'
<1> DEFINE Covered(d) ==
      /\ work[d].code # None =>
           /\ txn[d].user \in Users /\ work[d].code > counter[txn[d].user]
           /\ <<User(txn[d].user), "own">> \in held[d]
      /\ \A s \in work[d].link : s \notin used /\ <<Link(s), "change">> \in held[d]
      /\ \A s \in work[d].reset :
           /\ s \in Switches /\ status[s] = "active"
           /\ <<Row(s), "change">> \in held[d]
      /\ \A s \in DOMAIN work[d].becomes : \E mode \in {"change", "own"} : <<Row(s), mode>> \in held[d]
<1>1. \A d \in Clients : Covered(d)
  BY DEF WorkCovered
<1>2. ASSUME NEW d \in Clients, d # c PROVE Covered(d)'
  <2>1. txn'[d] = txn[d] /\ held'[d] = held[d] /\ work'[d] = work[d]
    BY <1>2, OthersStay
  <2>2. /\ work[d].code # None => counter'[txn[d].user] = counter[txn[d].user]
        /\ \A s \in work[d].link : s \notin used'
        /\ \A s \in Switches : Keeps(d, s) => status'[s] = status[s]
    BY <1>2, RowsStay
  <2>3. \A s \in work[d].reset : Keeps(d, s)
    BY <1>1 DEF Keeps
  <2> QED BY <1>1, <2>1, <2>2, <2>3 DEF User, Link, Row
<1>3. Covered(c)'
  <2>0. DOMAIN txn = Clients /\ DOMAIN held = Clients /\ DOMAIN work = Clients
    BY DEF Shaped
  <2>1. ASSUME work'[c] = Nothing PROVE Covered(c)'
    BY <2>1 DEF Nothing
  <2>2. CASE Starts(c)
    <3>1. work' = work /\ txn[c] = None
      BY <2>2 DEF Starts, Start, Free
    <3>2. work'[c] = Nothing
      BY <3>1 DEF Shaped
    <3> QED BY <2>1, <3>2
  <2>3. CASE Makes(c)
    <3>1. PICK w : Made(c, w) /\ Writes(c, w)
      BY <2>3 DEF Makes
    <3>2. /\ work'[c] = w /\ txn' = txn /\ held'[c] = held[c] \cup Needs(c)
          /\ UNCHANGED <<status, waits, used, counter, log>> /\ Running(c)
      BY <2>0, <2>3, <3>1, RowsSame DEF Made, Makes
    <3>3. /\ Doing(c) = "stepUp" => <<User(On(c)), "own">> \in Needs(c)
          /\ Doing(c) = "claimLink" /\ Finds(c) /\ On(c) \notin used =>
               <<Link(On(c)), "change">> \in Needs(c)
          /\ Doing(c) = "delete" /\ Finds(c) => <<Row(On(c)), "own">> \in Needs(c)
          /\ Doing(c) \in {"reset", "pause", "disarm", "arm", "release"} /\ Finds(c) =>
               <<Row(On(c)), "change">> \in Needs(c)
      BY <3>2, NeedsLocks
    <3>4. /\ Doing(c) = "stepUp" => On(c) = txn[c].user /\ On(c) \in Users
          /\ Doing(c) = "reset" => On(c) \in Switches
      BY <3>2, StatementTyped DEF OnUsers, OnRows
    <3>5. w.code # None =>
            /\ txn[c].user \in Users /\ w.code > counter[txn[c].user]
            /\ <<User(txn[c].user), "own">> \in held'[c]
      <4>1. CASE w.code = work[c].code
        BY <1>1, <3>2, <4>1
      <4>2. CASE Doing(c) = "stepUp" /\ (w.code # None => w.code > counter[On(c)])
        BY <3>2, <3>3, <3>4, <4>2
      <4> QED BY <3>1, <4>1, <4>2 DEF Writes
    <3>6. \A s \in w.link : s \notin used /\ <<Link(s), "change">> \in held'[c]
      <4>1. CASE w.link = work[c].link
        BY <1>1, <3>2, <4>1
      <4>2. CASE Doing(c) = "claimLink" /\ Finds(c) /\ w.link = {On(c)} /\ On(c) \notin used
        BY <3>2, <3>3, <4>2
      <4> QED BY <3>1, <4>1, <4>2 DEF Writes
    <3>7. \A s \in w.reset : s \in Switches /\ status[s] = "active" /\ <<Row(s), "change">> \in held'[c]
      <4> SUFFICES ASSUME NEW s \in w.reset
                   PROVE  s \in Switches /\ status[s] = "active" /\ <<Row(s), "change">> \in held'[c]
        OBVIOUS
      <4>1. CASE s \in work[c].reset
        BY <1>1, <3>2, <4>1
      <4>2. CASE s = On(c) /\ Doing(c) = "reset" /\ Finds(c)
        <5>1. status[On(c)] = "active"
          BY <4>2 DEF Finds, Matching
        <5> QED BY <3>2, <3>3, <3>4, <4>2, <5>1
      <4> QED BY <3>1, <4>1, <4>2 DEF Writes
    <3>8. \A s \in DOMAIN w.becomes : \E mode \in {"change", "own"} : <<Row(s), mode>> \in held'[c]
      <4> SUFFICES ASSUME NEW s \in DOMAIN w.becomes
                   PROVE  \E mode \in {"change", "own"} : <<Row(s), mode>> \in held'[c]
        OBVIOUS
      <4>1. CASE s \in DOMAIN work[c].becomes
        BY <1>1, <3>2, <4>1
      <4>2. CASE /\ s = On(c) /\ Finds(c)
                 /\ Doing(c) \in {"pause", "disarm", "arm", "release", "delete"}
        BY <3>2, <3>3, <4>2
      <4> QED BY <3>1, <4>1, <4>2 DEF Writes
    <3> QED BY <3>2, <3>5, <3>6, <3>7, <3>8 DEF User, Link, Row
  <2>4. CASE Skips(c) \/ Takes(c)
    <3>1. /\ txn' = txn /\ work' = work /\ held[c] \subseteq held'[c]
          /\ UNCHANGED <<status, waits, used, counter, log>>
      BY <2>0, <2>4, RowsSame DEF Skips, Takes
    <3> QED BY <1>1, <3>1 DEF User, Link, Row
  <2>5. CASE CommitStepUp(c)
    BY <2>0, <2>1, <2>5 DEF CommitStepUp
  <2>6. CASE Commit(c) \/ Rollback(c)
    BY <2>1, <2>6, EndsIdle
  <2> QED BY <2>2, <2>3, <2>4, <2>5, <2>6 DEF Moves
<1>4. \A d \in Clients : Covered(d)'
  BY <1>2, <1>3
<1> QED BY <1>4 DEF WorkCovered

LEMMA BulkCoversStep ==
  ASSUME Shaped, LocksExclude, WorkCovered, BulkCovers, NEW c \in Clients, Moves(c)
  PROVE  BulkCovers'
<1> DEFINE Bulk(d) == txn[d] # None /\ txn[d].kind = "bulk"
           Covered(d, s) == /\ status[s] = "active"
                            /\ \/ s \in work[d].reset
                               \/ \E i \in DOMAIN todo[d] : todo[d][i] = <<"reset", s>>
<1>1. \A d \in Clients : Bulk(d) => \A s \in Switches : <<Row(s), "own">> \in held[d] => Covered(d, s)
  BY DEF BulkCovers
<1>2. ASSUME NEW d \in Clients, d # c, Bulk(d)', NEW s \in Switches, <<Row(s), "own">> \in held'[d]
      PROVE  Covered(d, s)'
  <2>1. txn'[d] = txn[d] /\ todo'[d] = todo[d] /\ held'[d] = held[d] /\ work'[d] = work[d]
    BY <1>2, OthersStay
  <2>2. Bulk(d) /\ <<Row(s), "own">> \in held[d]
    BY <1>2, <2>1
  <2>3. status'[s] = status[s]
    BY <1>2, <2>2, RowsStay DEF Keeps
  <2> QED BY <1>1, <2>1, <2>2, <2>3, ZenonT(30)
<1>3. ASSUME Bulk(c)', NEW s \in Switches, <<Row(s), "own">> \in held'[c]
      PROVE  Covered(c, s)'
  <2>0. DOMAIN txn = Clients /\ DOMAIN todo = Clients /\ DOMAIN held = Clients /\ DOMAIN work = Clients
    BY DEF Shaped
  <2>1. CASE Starts(c)
    <3>1. held' = held /\ txn[c] = None
      BY <2>1 DEF Starts, Start, Free
    <3> QED BY <1>3, <3>1 DEF Shaped
  <2>2. ASSUME Running(c), txn' = txn
        PROVE  /\ Bulk(c) /\ todo[c] \in Seq(Statement) /\ todo[c] # <<>> /\ Recording(todo[c])
               /\ Doing(c) \in {"lockActive", "stepUp", "heartbeat", "reset", "unwait", "audit"}
    <3>1. Bulk(c)
      BY <1>3, <2>2
    <3>2. Recording(todo[c])
      BY <3>1 DEF Shaped, Sound
    <3>3. todo[c] \in Seq(Statement) /\ todo[c] # <<>> /\ Head(todo[c])[1] = Doing(c)
      BY <2>2, StatementTyped DEF Doing
    <3>4. 1 \in DOMAIN todo[c] /\ Head(todo[c]) = todo[c][1]
      BY <3>3, Tails
    <3> QED BY <3>1, <3>2, <3>3, <3>4 DEF Recording
  <2>3. CASE Makes(c)
    <3>1. PICK w : Made(c, w) /\ Writes(c, w)
      BY <2>3 DEF Makes
    <3>2. /\ work'[c] = w /\ txn' = txn /\ held'[c] = held[c] \cup Needs(c)
          /\ status' = status /\ todo'[c] = Tail(todo[c]) /\ Running(c)
      BY <2>0, <2>3, <3>1, RowsSame DEF Made, Makes
    <3>3. w.reset = work[c].reset \cup {x \in {On(c)} : Doing(c) = "reset" /\ Finds(c)}
      BY <3>1 DEF Writes
    <3>4. \A i \in DOMAIN todo[c] : i \in Nat /\ (i # 1 => i - 1 \in DOMAIN todo'[c] /\ todo'[c][i - 1] = todo[c][i])
      BY <2>2, <3>2, Tails
    <3>5. Head(todo[c]) = <<Doing(c), On(c)>> /\ Head(todo[c]) = todo[c][1] /\ 1 \in DOMAIN todo[c]
      BY <2>2, <3>2, Tails, StatementTyped
    <3>6. CASE <<Row(s), "own">> \in held[c]
      <4>1. Covered(c, s)
        BY <1>1, <2>2, <3>2, <3>6
      <4>2. CASE s \in work[c].reset
        BY <3>2, <3>3, <4>1, <4>2
      <4>3. CASE \E i \in DOMAIN todo[c] : todo[c][i] = <<"reset", s>>
        <5>1. PICK i \in DOMAIN todo[c] : todo[c][i] = <<"reset", s>>
          BY <4>3
        <5>2. CASE i = 1
          <6>1. Doing(c) = "reset" /\ On(c) = s
            BY <3>5, <5>1, <5>2
          <6>2. Finds(c)
            BY <4>1, <6>1 DEF Finds, Matching
          <6> QED BY <3>2, <3>3, <4>1, <6>1, <6>2
        <5>3. CASE i # 1
          BY <3>2, <3>4, <4>1, <5>1, <5>3
        <5> QED BY <5>2, <5>3
      <4> QED BY <4>1, <4>2, <4>3
    <3>7. CASE <<Row(s), "own">> \in Needs(c)
      <4>1. Locks(c, <<Row(s), "own">>)
        BY <3>2, <3>7, NeedsLocks
      <4>2. Doing(c) = "lockActive" /\ Finds(c) /\ On(c) = s
        <5>1. Doing(c) \in {"lockActive", "stepUp", "heartbeat", "reset", "unwait", "audit"}
          BY <2>2, <3>2
        <5> QED BY <4>1, <5>1 DEF Locks, User, Row, Wait, Link, Recipient, Reminder, AuditChain
      <4>3. status[s] = "active"
        BY <4>2 DEF Finds, Matching
      <4>4. PICK j \in DOMAIN todo[c] : 1 < j /\ todo[c][j] = <<"reset", s>>
        <5>1. todo[c][1] = <<"lockActive", s>> /\ 1 \in DOMAIN todo[c]
          BY <3>5, <4>2
        <5>2. Recording(todo[c])
          BY <2>2, <3>2
        <5> QED BY <5>1, <5>2 DEF Recording
      <4>5. j # 1
        BY <3>4, <4>4
      <4> QED BY <3>2, <3>4, <4>3, <4>4, <4>5
    <3> QED BY <1>3, <3>2, <3>6, <3>7
  <2>4. CASE Skips(c)
    <3>1. PICK x : x = On(c)
      OBVIOUS
    <3>2. /\ Running(c) /\ txn' = txn /\ held' = held /\ work' = work /\ status' = status
          /\ todo'[c] = Without(todo[c], x) /\ status[x] \notin {"active"}
      <4>1. /\ Running(c) /\ txn' = txn /\ held' = held /\ work' = work /\ status' = status
            /\ todo'[c] = Skipped(c) /\ ~Finds(c) /\ Doing(c) \in {"lockActive", "delete"}
        BY <2>0, <2>4, RowsSame DEF Skips
      <4>2. Doing(c) = "lockActive"
        BY <2>2, <4>1
      <4> QED BY <3>1, <4>1, <4>2 DEF Skipped, Finds, Matching
    <3>3. Covered(c, s)
      BY <1>1, <1>3, <2>2, <3>2
    <3>4. PICK from : Picks(from, todo[c], todo'[c], x)
      BY <2>2, <3>2, WithoutPicks
    <3>5. s # x
      BY <3>2, <3>3
    <3>6. ASSUME NEW i \in DOMAIN todo[c], todo[c][i] = <<"reset", s>>
          PROVE  \E k \in DOMAIN todo'[c] : todo'[c][k] = <<"reset", s>>
      <4>1. todo[c][i][2] # x
        BY <3>5, <3>6
      <4>2. PICK k \in DOMAIN todo'[c] : from[k] = i
        BY <3>4, <4>1 DEF Picks
      <4> QED BY <3>4, <3>6, <4>2 DEF Picks
    <3> QED BY <3>2, <3>3, <3>6
  <2>5. CASE Takes(c)
    BY <2>2, <2>5 DEF Takes
  <2>6. CASE CommitStepUp(c)
    BY <2>2, <2>6 DEF CommitStepUp, Granted
  <2>7. CASE Commit(c) \/ Rollback(c)
    BY <1>3, <2>7, EndsIdle
  <2> QED BY <2>1, <2>3, <2>4, <2>5, <2>6, <2>7 DEF Moves
<1>4. \A d \in Clients : Bulk(d)' =>
        \A s \in Switches : <<Row(s), "own">> \in held'[d] => Covered(d, s)'
  BY <1>2, <1>3
<1> QED BY <1>4 DEF BulkCovers, Row

LEMMA ChainedStep ==
  ASSUME Shaped, LocksExclude, Chained, NEW c \in Clients, Moves(c)
  PROVE  Chained'
<1> DEFINE Linear == \A e \in log : e.prev = Newest(Below(log, e.id))
           Logged == \A e \in log : e.id < nextId /\ e.id \in Nat
           Locked(d) == work[d].entries # {} => <<AuditChain, "own">> \in held[d]
           Follows(d, e) == /\ e.id < nextId /\ e.id \in Nat /\ \A f \in log : f.id < e.id
                         /\ e.prev = Newest(Below(log \cup work[d].entries, e.id))
<1>0. DOMAIN work = Clients /\ DOMAIN held = Clients /\ nextId \in Nat
  BY DEF Shaped
<1>1. /\ Linear /\ Logged
      /\ \A d \in Clients : Locked(d) /\ \A e \in work[d].entries : Follows(d, e)
  BY DEF Chained, EntriesChained, AuditLinear, Below
<1>2. ASSUME Linear', Logged', \A d \in Clients : EntriesChained(d)' PROVE Chained'
  BY <1>2 DEF Chained, AuditLinear, Below
<1>3. ASSUME NEW d \in Clients, d # c PROVE held'[d] = held[d] /\ work'[d] = work[d]
  BY <1>3, OthersStay
<1>4. ASSUME UNCHANGED log, nextId' \in Nat, nextId <= nextId', EntriesChained(c)' PROVE Chained'
  <2>1. ASSUME NEW d \in Clients, d # c PROVE EntriesChained(d)'
    <3>1. Locked(d)'
      BY <1>1, <1>3, <2>1 DEF AuditChain
    <3>2. ASSUME NEW e \in work'[d].entries PROVE Follows(d, e)'
      <4>1. Follows(d, e)
        BY <1>1, <1>3, <2>1, <3>2
      <4>2. e.id < nextId'
        BY <1>0, <1>4, <4>1
      <4> QED BY <1>3, <1>4, <2>1, <4>1, <4>2
    <3> QED BY <3>1, <3>2 DEF EntriesChained, AuditChain
  <2>2. Logged'
    BY <1>0, <1>1, <1>4
  <2>3. Linear'
    BY <1>1, <1>4
  <2> QED BY <1>2, <1>4, <2>1, <2>2, <2>3
<1>5. CASE Starts(c) \/ Skips(c) \/ Takes(c)
  <2>1. /\ work' = work /\ held[c] \subseteq held'[c] /\ nextId' = nextId /\ log' = log
    BY <1>0, <1>5, RowsSame DEF Starts, Start, Free, Skips, Takes
  <2>2. EntriesChained(c)'
    BY <1>1, <2>1 DEF EntriesChained, AuditChain
  <2> QED BY <1>0, <1>4, <2>1, <2>2
<1>6. CASE Rollback(c) \/ CommitStepUp(c)
  <2>1. work'[c] = Nothing /\ nextId' = nextId /\ log' = log
    BY <1>0, <1>6, EndsIdle, RowsSame DEF CommitStepUp
  <2>2. EntriesChained(c)'
    BY <2>1 DEF EntriesChained, Nothing
  <2> QED BY <1>0, <1>4, <2>1, <2>2
<1>7. CASE Makes(c)
  <2>1. PICK w : Made(c, w) /\ Writes(c, w)
    BY <1>7 DEF Makes
  <2>2. work'[c] = w /\ held'[c] = held[c] \cup Needs(c) /\ log' = log /\ Running(c)
    BY <1>0, <1>7, <2>1, RowsSame DEF Made, Makes
  <2>3. CASE Doing(c) # "audit"
    <3>1. w.entries = work[c].entries /\ nextId' = nextId
      BY <2>1, <2>3 DEF Writes
    <3>2. EntriesChained(c)'
      BY <1>1, <2>2, <3>1 DEF EntriesChained, AuditChain
    <3> QED BY <1>0, <1>4, <2>2, <3>1, <3>2
  <2>4. CASE Doing(c) = "audit"
    <3>1. PICK new : new = [id |-> nextId, prev |-> Newest(log \cup work[c].entries)]
      OBVIOUS
    <3>2. w.entries = work[c].entries \cup {new} /\ nextId' = nextId + 1
      BY <2>1, <2>4, <3>1 DEF Writes
    <3>3. new.id = nextId /\ new.prev = Newest(log \cup work[c].entries)
      BY <3>1
    <3>4. <<AuditChain, "own">> \in Needs(c)
      BY <2>2, <2>4, NeedsLocks
    <3>5. \A e \in log \cup work[c].entries : e.id \in Nat /\ e.id < nextId
      BY <1>1
    <3>6. ASSUME NEW e \in w.entries PROVE Follows(c, e)'
      <4>1. CASE e \in work[c].entries
        <5>1. Follows(c, e)
          BY <1>1, <4>1
        <5>2. ~(new.id < e.id) /\ e.id < nextId'
          BY <1>0, <3>2, <3>3, <5>1
        <5>3. Below(log \cup w.entries, e.id) = Below(log \cup work[c].entries, e.id)
          BY <3>2, <5>2 DEF Below
        <5> QED BY <2>2, <5>1, <5>2, <5>3
      <4>2. CASE e = new
        <5>1. ~(new.id < new.id) /\ e.id < nextId' /\ e.id \in Nat
          BY <1>0, <3>2, <3>3, <4>2
        <5>2. Below(log \cup w.entries, e.id) = log \cup work[c].entries
          BY <3>2, <3>3, <3>5, <4>2, <5>1 DEF Below
        <5>3. \A f \in log : f.id < e.id
          BY <3>3, <3>5, <4>2
        <5> QED BY <2>2, <3>3, <4>2, <5>1, <5>2, <5>3
      <4> QED BY <3>2, <4>1, <4>2
    <3>7. Locked(c)'
      BY <2>2, <3>4 DEF AuditChain
    <3>8. EntriesChained(c)'
      BY <2>2, <3>6, <3>7 DEF EntriesChained, AuditChain
    <3> QED BY <1>0, <1>4, <2>2, <3>2, <3>8
  <2> QED BY <2>3, <2>4
<1>8. CASE Commit(c)
  <2>1. work'[c] = Nothing /\ nextId' = nextId /\ log' = log \cup work[c].entries
    BY <1>8, EndsIdle DEF Commit
  <2>2. EntriesChained(c)'
    BY <2>1 DEF EntriesChained, Nothing
  <2>3. CASE work[c].entries = {}
    BY <1>0, <1>4, <2>1, <2>2, <2>3
  <2>4. CASE work[c].entries # {}
    <3>1. ASSUME NEW d \in Clients, d # c PROVE work[d].entries = {}
      <4> SUFFICES ASSUME work[d].entries # {} PROVE FALSE
        OBVIOUS
      <4>1. PICK l \in held[c], n \in held[d] : l = <<AuditChain, "own">> /\ n = <<AuditChain, "own">>
        BY <1>1, <2>4
      <4>2. l[1] = n[1] /\ Conflicts(l[2], n[2])
        BY <4>1 DEF Conflicts
      <4> QED BY <3>1, <4>2 DEF LocksExclude
    <3>2. ASSUME NEW d \in Clients PROVE EntriesChained(d)'
      BY <1>3, <2>2, <3>1 DEF EntriesChained
    <3>3. /\ \A e \in log : e.id \in Nat /\ e.id < nextId
          /\ \A e \in work[c].entries : e.id \in Nat /\ e.id < nextId /\ \A f \in log : f.id < e.id
      BY <1>1
    <3>4. Logged'
      BY <2>1, <3>3
    <3>5. ASSUME NEW e \in log' PROVE e.prev = Newest(Below(log', e.id))
      <4>1. CASE e \in log
        <5>1. \A f \in work[c].entries : ~(f.id < e.id)
          BY <3>3, <4>1
        <5>2. Below(log', e.id) = Below(log, e.id)
          BY <2>1, <5>1 DEF Below
        <5> QED BY <1>1, <4>1, <5>2
      <4>2. CASE e \in work[c].entries
        BY <1>1, <2>1, <4>2
      <4> QED BY <2>1, <4>1, <4>2
    <3>6. Linear'
      BY <3>5
    <3> QED BY <1>2, <3>2, <3>4, <3>6
  <2> QED BY <2>3, <2>4
<1> QED BY <1>5, <1>6, <1>7, <1>8 DEF Moves

LEMMA KindsKnown == \A what : MadeBy(what) \subseteq KnownKinds
BY DEF MadeBy, KnownKinds, Drops

\* What may come after a statement may come after its locks.
LEMMA LaterLocks ==
  ASSUME Shaped, NEW c \in Clients, Running(c), NEW n, Locks(c, n)
  PROVE  /\ Later(Doing(c)) \subseteq LaterThan(n)
         /\ MadeBy(Doing(c)) \subseteq HeldBy(n)
         /\ n[1][1] # "user" /\ LaterThan(n) # {} => n[1][2] = On(c) /\ Doing(c) \in OnRows
<1>1. PICK x, what : x = On(c) /\ what = Doing(c)
  OBVIOUS
<1> USE KindsKnown
<1>2. CASE what \in {"stepUp", "lockUser"} /\ n = <<User(x), "own">>
  <2>1. n[1][1] = "user" /\ n[1][2] = x /\ n[2] = "own"
    BY <1>2 DEF User
  <2>2. Later(what) \subseteq LaterThan(n)
    BY <1>2, <2>1 DEF LaterThan, Later, Drops
  <2>3. MadeBy(what) \subseteq HeldBy(n)
    BY <1>2, <2>1 DEF HeldBy, MadeBy, Drops
  <2> QED BY <1>1, <1>2, <2>1, <2>2, <2>3 DEF OnRows, Drops
<1>3. CASE what \in {"referUser", "copyFor"} /\ n = <<User(x), "share">>
  <2>1. n[1][1] = "user" /\ n[1][2] = x /\ n[2] = "share"
    BY <1>3 DEF User
  <2>2. Later(what) \subseteq LaterThan(n)
    BY <1>3, <2>1 DEF LaterThan, Later, Drops
  <2>3. MadeBy(what) \subseteq HeldBy(n)
    BY <1>3, <2>1 DEF HeldBy
  <2> QED BY <1>1, <1>3, <2>1, <2>2, <2>3 DEF OnRows, Drops
<1>4. CASE what \in {"lock", "lockActive", "delete"} /\ n = <<Row(x), "own">>
  <2>1. n[1][1] = "switch" /\ n[1][2] = x /\ n[2] = "own"
    BY <1>4 DEF Row
  <2>2. Later(what) \subseteq LaterThan(n)
    BY <1>4, <2>1 DEF LaterThan, LaterThanRow, Later, Drops
  <2>3. MadeBy(what) \subseteq HeldBy(n)
    BY <1>4, <2>1 DEF HeldBy
  <2> QED BY <1>1, <1>4, <2>1, <2>2, <2>3 DEF OnRows, Drops
<1>5. CASE what \in {"heartbeat", "refer", "upsertWait"} /\ n = <<Row(x), "share">>
  <2>1. n[1][1] = "switch" /\ n[1][2] = x /\ n[2] = "share"
    BY <1>5 DEF Row
  <2>2. Later(what) \subseteq LaterThan(n)
    BY <1>5, <2>1 DEF LaterThan, LaterThanRow, Later, Drops
  <2>3. MadeBy(what) \subseteq HeldBy(n)
    BY <1>5, <2>1 DEF HeldBy
  <2> QED BY <1>1, <1>5, <2>1, <2>2, <2>3 DEF OnRows, Drops
<1>6. CASE what \in {"setToken", "reset", "pause", "disarm", "arm", "release"} /\ n = <<Row(x), "change">>
  <2>1. n[1][1] = "switch" /\ n[1][2] = x /\ n[2] = "change"
    BY <1>6 DEF Row
  <2>2. Later(what) \subseteq LaterThan(n)
    <3>1. LaterThan(n) = {"unwait", "audit"}
      BY <2>1 DEF LaterThan, LaterThanRow
    <3>2. Later(what) \subseteq {"unwait", "audit"}
      BY <1>6 DEF Later, Drops
    <3> QED BY <3>1, <3>2
  <2>3. MadeBy(what) \subseteq HeldBy(n)
    BY <1>6, <2>1 DEF HeldBy
  <2> QED BY <1>1, <1>6, <2>1, <2>2, <2>3 DEF OnRows, Drops
<1>7. CASE what = "read" /\ n = <<Row(x), "read">>
  <2>1. n[1][1] = "switch" /\ n[1][2] = x /\ n[2] = "read"
    BY <1>7 DEF Row
  <2>2. Later(what) \subseteq LaterThan(n)
    BY <1>7, <2>1 DEF LaterThan, LaterThanRow, Later, Drops
  <2>3. MadeBy(what) \subseteq HeldBy(n)
    BY <1>7, <2>1 DEF HeldBy
  <2> QED BY <1>1, <1>7, <2>1, <2>2, <2>3 DEF OnRows, Drops
<1>8. CASE what \in {"dropWait", "unwait", "takeWait", "upsertWait"} /\ n = <<Wait(x), "own">>
  <2>1. n[1][1] = "wait" /\ n[1][2] = x /\ n[2] = "own"
    BY <1>8 DEF Wait
  <2>2. Later(what) \subseteq LaterThan(n)
    BY <1>8, <2>1 DEF LaterThan, Later, Drops
  <2>3. MadeBy(what) \subseteq HeldBy(n)
    BY <1>8, <2>1 DEF HeldBy
  <2> QED BY <1>1, <1>8, <2>1, <2>2, <2>3 DEF OnRows, Drops
<1>9. CASE what = "claimLink" /\ n = <<Link(x), "change">>
  <2>1. n[1][1] = "link" /\ n[1][2] = x /\ n[2] = "change"
    BY <1>9 DEF Link
  <2>2. Later(what) \subseteq LaterThan(n)
    BY <1>9, <2>1 DEF LaterThan, Later, Drops
  <2>3. MadeBy(what) \subseteq HeldBy(n)
    BY <1>9, <2>1 DEF HeldBy, MadeBy, Drops
  <2> QED BY <1>1, <1>9, <2>1, <2>2, <2>3 DEF OnRows, Drops
<1>10. CASE what = "dropLinks" /\ n = <<Link(x), "own">>
  <2>1. n[1][1] = "link" /\ n[1][2] = x /\ n[2] = "own"
    BY <1>10 DEF Link
  <2>2. Later(what) \subseteq LaterThan(n)
    BY <1>10, <2>1 DEF LaterThan, Later, Drops
  <2>3. MadeBy(what) \subseteq HeldBy(n)
    BY <1>10, <2>1 DEF HeldBy
  <2> QED BY <1>1, <1>10, <2>1, <2>2, <2>3 DEF OnRows, Drops
<1>11. CASE what = "castVote" /\ n = <<Recipient(x), "change">>
  <2>1. n[1][1] = "recipient" /\ n[1][2] = x /\ n[2] = "change"
    BY <1>11 DEF Recipient
  <2>2. Later(what) \subseteq LaterThan(n)
    BY <1>11, <2>1 DEF LaterThan, Later, Drops
  <2>3. MadeBy(what) \subseteq HeldBy(n)
    BY <1>11, <2>1 DEF HeldBy, MadeBy, Drops
  <2> QED BY <1>1, <1>11, <2>1, <2>2, <2>3 DEF OnRows, Drops
<1>12. CASE what = "dropRecipients" /\ n = <<Recipient(x), "own">>
  <2>1. n[1][1] = "recipient" /\ n[1][2] = x /\ n[2] = "own"
    BY <1>12 DEF Recipient
  <2>2. Later(what) \subseteq LaterThan(n)
    BY <1>12, <2>1 DEF LaterThan, Later, Drops
  <2>3. MadeBy(what) \subseteq HeldBy(n)
    BY <1>12, <2>1 DEF HeldBy
  <2> QED BY <1>1, <1>12, <2>1, <2>2, <2>3 DEF OnRows, Drops
<1>13. CASE what \in {"lockReminder", "dropReminders"} /\ n = <<Reminder(x), "own">>
  <2>1. n[1][1] = "reminder" /\ n[1][2] = x /\ n[2] = "own"
    BY <1>13 DEF Reminder
  <2>2. Later(what) \subseteq LaterThan(n)
    BY <1>13, <2>1 DEF LaterThan, Later, Drops
  <2>3. MadeBy(what) \subseteq HeldBy(n)
    BY <1>13, <2>1 DEF HeldBy
  <2> QED BY <1>1, <1>13, <2>1, <2>2, <2>3 DEF OnRows, Drops
<1>14. CASE what = "audit" /\ n = <<AuditChain, "own">>
  <2>1. n[1][1] = "audit" /\ n[2] = "own"
    BY <1>14 DEF AuditChain
  <2>2. LaterThan(n) = {} /\ Later(what) = {}
    BY <1>14, <2>1 DEF LaterThan, Later, Drops
  <2>3. MadeBy(what) \subseteq HeldBy(n)
    BY <1>14, <2>1 DEF HeldBy
  <2> QED BY <1>1, <1>14, <2>1, <2>2, <2>3
<1> QED BY <1>1, <1>2, <1>3, <1>4, <1>5, <1>6, <1>7, <1>8, <1>9, <1>10, <1>11, <1>12, <1>13, <1>14 DEF Locks

\* The statement of a transaction is the first it has to do.
LEMMA FirstFirst ==
  ASSUME Shaped, NEW c \in Clients, Running(c)
  PROVE  /\ todo[c] \in Seq(Statement) /\ todo[c] # <<>>
         /\ 1 \in DOMAIN todo[c] /\ todo[c][1] = <<Doing(c), On(c)>>
         /\ \A i \in DOMAIN Tail(todo[c]) :
              i \in Nat /\ 1 < i + 1 /\ i + 1 \in DOMAIN todo[c] /\ Tail(todo[c])[i] = todo[c][i + 1]
         /\ \A i \in DOMAIN todo[c] :
              i \in Nat /\ (i # 1 => i - 1 \in DOMAIN Tail(todo[c]) /\ Tail(todo[c])[i - 1] = todo[c][i])
<1>1. todo[c] \in Seq(Statement) /\ todo[c] # <<>> /\ Head(todo[c]) = <<Doing(c), On(c)>>
  BY StatementTyped
<1>2. DOMAIN Tail(todo[c]) \subseteq Nat \ {0}
  BY <1>1
<1> QED BY <1>1, <1>2, Tails

LEMMA HeldInOrderStep ==
  ASSUME Shaped, HeldInOrder, NEW c \in Clients, Moves(c)
  PROVE  HeldInOrder'
<1> DEFINE Placed(d, lock) ==
             /\ txn[d].kind \in HeldBy(lock)
             /\ \A i \in DOMAIN todo[d] : InOrder(lock, todo[d][i])
<1>0. DOMAIN txn = Clients /\ DOMAIN todo = Clients /\ DOMAIN held = Clients
  BY DEF Shaped
<1>1. ASSUME NEW d \in Clients, OneSwitch(d), NEW lock \in held[d] PROVE Placed(d, lock)
  BY <1>1 DEF HeldInOrder
<1>2. ASSUME NEW d \in Clients, d # c, OneSwitch(d)', NEW lock \in held'[d] PROVE Placed(d, lock)'
  <2>1. txn'[d] = txn[d] /\ held'[d] = held[d] /\ todo'[d] = todo[d]
    BY <1>2, OthersStay
  <2>2. Placed(d, lock)
    BY <1>1, <1>2, <2>1 DEF OneSwitch
  <2> QED BY <2>1, <2>2
<1>3. ASSUME OneSwitch(c)', NEW lock \in held'[c] PROVE Placed(c, lock)'
  <2>1. CASE Starts(c)
    <3>1. held' = held /\ txn[c] = None
      BY <2>1 DEF Starts, Start, Free
    <3> QED BY <1>3, <3>1 DEF Shaped
  <2>2. ASSUME Running(c), txn' = txn
        PROVE  /\ OneSwitch(c) /\ Ordered(todo[c]) /\ txn[c].kind \in MadeBy(Doing(c))
               /\ \A l \in held[c] : InOrder(l, <<Doing(c), On(c)>>)
    <3>1. OneSwitch(c)
      BY <1>3, <2>2 DEF OneSwitch
    <3>2. Ordered(todo[c])
      BY <3>1 DEF OneSwitch, Shaped, Sound
    <3> QED BY <1>1, <2>2, <3>1, <3>2, FirstFirst, StatementTyped
  <2>3. CASE Makes(c) \/ Takes(c)
    <3>1. /\ Running(c) /\ txn' = txn /\ todo'[c] = Tail(todo[c])
          /\ \/ Makes(c) /\ held'[c] = held[c] \cup Needs(c)
             \/ Takes(c) /\ held'[c] = held[c] \cup {<<Reminder(On(c)), "own">>}
      BY <1>0, <2>3 DEF Makes, Made, Takes
    <3>2. \A i \in DOMAIN todo'[c] :
            /\ i \in Nat /\ 1 < i + 1 /\ i + 1 \in DOMAIN todo[c] /\ todo'[c][i] = todo[c][i + 1]
            /\ 1 \in DOMAIN todo[c] /\ todo[c][1] = <<Doing(c), On(c)>>
      BY <3>1, FirstFirst
    <3>3. CASE lock \in held[c]
      <4>1. Placed(c, lock)
        BY <1>1, <2>2, <3>1, <3>3
      <4> QED BY <3>1, <3>2, <4>1
    <3>4. \A i \in DOMAIN todo'[c] :
            /\ todo'[c][i][1] \in Later(Doing(c))
            /\ Doing(c) \in OnRows /\ todo'[c][i][1] \in OnRows => todo'[c][i][2] = On(c)
      BY <2>2, <3>1, <3>2 DEF Ordered
    <3>5. CASE Makes(c) /\ lock \in Needs(c)
      <4>1. Locks(c, lock)
        BY <3>1, <3>5, NeedsLocks
      <4>2. /\ Later(Doing(c)) \subseteq LaterThan(lock) /\ MadeBy(Doing(c)) \subseteq HeldBy(lock)
            /\ lock[1][1] # "user" /\ LaterThan(lock) # {} =>
                 lock[1][2] = On(c) /\ Doing(c) \in OnRows
        BY <3>1, <4>1, LaterLocks
      <4>3. \A i \in DOMAIN todo'[c] : InOrder(lock, todo'[c][i])
        BY <3>4, <4>2 DEF InOrder
      <4> QED BY <2>2, <3>1, <4>2, <4>3
    <3>6. CASE Takes(c) /\ lock = <<Reminder(On(c)), "own">>
      <4>1. lock[1][1] = "reminder" /\ lock[1][2] = On(c)
        BY <3>6 DEF Reminder
      <4>2. Doing(c) = "takeReminder"
        BY <3>6 DEF Takes
      <4>3. Later("takeReminder") = {"audit"}
        BY DEF Later, Drops
      <4>4. "audit" \in LaterThan(lock) /\ HeldBy(lock) = KnownKinds
        BY <4>1 DEF LaterThan, HeldBy
      <4>5. \A i \in DOMAIN todo'[c] : InOrder(lock, todo'[c][i])
        BY <3>4, <4>1, <4>2, <4>3, <4>4 DEF InOrder, OnRows
      <4> QED BY <2>2, <3>1, <4>4, <4>5, KindsKnown
    <3> QED BY <1>3, <3>1, <3>3, <3>5, <3>6
  <2>4. CASE Skips(c)
    <3>1. PICK x : x = On(c)
      OBVIOUS
    <3>2. /\ Running(c) /\ txn' = txn /\ held' = held /\ todo'[c] = Skipped(c)
          /\ Doing(c) \in {"lockActive", "delete"}
      BY <1>0, <2>4 DEF Skips
    <3>3. Doing(c) \in LaterThan(lock) /\ Placed(c, lock)
      BY <1>1, <1>3, <2>2, <3>2 DEF InOrder
    <3>4. \A l : LaterThan(l) \cap {"lockActive", "delete"} = {}
      BY DEF LaterThan, LaterThanRow, Later, Drops
    <3> QED BY <3>2, <3>3, <3>4
  <2>5. CASE CommitStepUp(c)
    <3>1. held'[c] = {}
      BY <1>0, <2>5 DEF CommitStepUp
    <3> QED BY <1>3, <3>1
  <2>6. CASE Commit(c) \/ Rollback(c)
    BY <1>3, <2>6, EndsIdle
  <2> QED BY <2>1, <2>3, <2>4, <2>5, <2>6 DEF Moves
<1>4. \A d \in Clients : OneSwitch(d)' => \A lock \in held'[d] : Placed(d, lock)'
  BY <1>2, <1>3
<1> QED BY <1>4 DEF HeldInOrder

LEMMA RootedStep ==
  ASSUME Shaped, Rooted, NEW c \in Clients, Moves(c)
  PROVE  Rooted'
<1>0. DOMAIN txn = Clients /\ DOMAIN todo = Clients /\ DOMAIN held = Clients
  BY DEF Shaped
<1>1. ASSUME NEW d \in Clients, d # c, OneSwitch(d)' PROVE Based(todo[d], held[d])'
  <2>1. txn'[d] = txn[d] /\ held'[d] = held[d] /\ todo'[d] = todo[d]
    BY <1>1, OthersStay
  <2>2. Based(todo[d], held[d])
    BY <1>1, <2>1 DEF Rooted, OneSwitch
  <2> QED BY <2>1, <2>2 DEF Based, Preceded, Row
<1>2. ASSUME OneSwitch(c)' PROVE Based(todo'[c], held'[c])
  <2>1. CASE Starts(c)
    <3>1. PICK kind, user, code, program :
            Start(c, kind, user, code, program) /\ Begun(kind, user, program)
      BY <2>1 DEF Starts
    <3>2. txn[c] = None /\ txn'[c].kind = kind /\ todo'[c] = program /\ held'[c] = held[c]
      BY <1>0, <3>1 DEF Start, Free
    <3>3. held[c] = {} /\ kind \notin ManyRows
      BY <1>2, <3>2 DEF Shaped, OneSwitch
    <3> QED BY <3>1, <3>2, <3>3 DEF Begun
  <2>2. ASSUME Running(c), txn' = txn
        PROVE  /\ OneSwitch(c) /\ Based(todo[c], held[c]) /\ Ordered(todo[c])
               /\ txn[c].kind \in MadeBy(Doing(c))
    <3>1. OneSwitch(c)
      BY <1>2, <2>2 DEF OneSwitch
    <3>2. Ordered(todo[c])
      BY <3>1 DEF OneSwitch, Shaped, Sound
    <3> QED BY <2>2, <3>1, <3>2, StatementTyped DEF Rooted
  <2>3. CASE Makes(c) \/ Takes(c)
    <3>1. /\ Running(c) /\ txn' = txn /\ todo'[c] = Tail(todo[c]) /\ held[c] \subseteq held'[c]
          /\ \/ Makes(c) /\ held'[c] = held[c] \cup Needs(c)
             \/ Takes(c) /\ Doing(c) = "takeReminder"
      BY <1>0, <2>3 DEF Makes, Made, Takes
    <3>2. ASSUME NEW what, NEW mode, NEW i \in DOMAIN todo'[c],
                 \/ what = "heartbeat" /\ mode = "share"
                 \/ what = "delete" /\ mode = "own",
                 Preceded(todo[c], held[c], i + 1, what, mode)
          PROVE  Preceded(todo'[c], held'[c], i, what, mode)
      <4>1. i \in Nat /\ i + 1 \in DOMAIN todo[c] /\ todo'[c][i] = todo[c][i + 1]
        BY <3>1, FirstFirst
      <4>2. PICK s : s = todo'[c][i][2]
        OBVIOUS
      <4>3. CASE <<Row(s), mode>> \in held[c]
        BY <3>1, <4>2, <4>3 DEF Preceded
      <4>4. ASSUME NEW j \in DOMAIN todo[c], j < i + 1, todo[c][j] = <<what, s>>
            PROVE  Preceded(todo'[c], held'[c], i, what, mode)
        <5>1. CASE j = 1
          <6>1. Doing(c) = what /\ On(c) = s
            BY <3>1, <4>4, <5>1, FirstFirst
          <6>2. PICK w : Writes(c, w)
            BY <3>1, <3>2, <6>1 DEF Makes
          <6>3. Finds(c)
            BY <3>2, <6>1, <6>2 DEF Writes
          <6>4. <<Row(s), mode>> \in Needs(c)
            BY <3>1, <3>2, <6>1, <6>3, NeedsLocks
          <6>5. held'[c] = held[c] \cup Needs(c)
            BY <3>1, <3>2, <6>1
          <6> QED BY <4>2, <6>4, <6>5 DEF Preceded
        <5>2. CASE j # 1
          <6>1. j \in Nat /\ j - 1 \in DOMAIN todo'[c] /\ todo'[c][j - 1] = todo[c][j]
            BY <3>1, <5>2, FirstFirst
          <6>2. j - 1 < i
            BY <4>1, <4>4, <6>1
          <6> QED BY <4>2, <4>4, <6>1, <6>2 DEF Preceded
        <5> QED BY <5>1, <5>2
      <4> QED BY <3>2, <4>1, <4>2, <4>3, <4>4 DEF Preceded
    <3>3. \A i \in DOMAIN todo'[c] : i + 1 \in DOMAIN todo[c] /\ todo'[c][i] = todo[c][i + 1]
      BY <3>1, FirstFirst
    <3>4. Based(todo[c], held[c])
      BY <2>2, <3>1
    <3> QED BY <3>2, <3>3, <3>4 DEF Based
  <2>4. CASE Skips(c)
    <3>1. PICK x : x = On(c)
      OBVIOUS
    <3>2. /\ Running(c) /\ txn' = txn /\ todo'[c] = Skipped(c)
          /\ Doing(c) \in {"lockActive", "delete"}
      BY <1>0, <2>4 DEF Skips
    <3>3. Doing(c) = "delete"
      <4>1. MadeBy("lockActive") \subseteq ManyRows
        BY DEF MadeBy, ManyRows, Drops
      <4> QED BY <2>2, <3>2, <4>1 DEF OneSwitch
    <3>4. todo'[c] = <<<<"audit", x>>>>
      BY <3>1, <3>2, <3>3 DEF Skipped
    <3>5. \A i \in DOMAIN todo'[c] : todo'[c][i][1] = "audit"
      BY <3>4
    <3> QED BY <3>5 DEF Based, Drops
  <2>5. CASE CommitStepUp(c)
    <3>1. Running(c) /\ txn' = txn /\ todo'[c] = Tail(todo[c]) /\ Doing(c) = "commitStepUp"
      BY <1>0, <2>5 DEF CommitStepUp, Granted
    <3>2. \A i \in DOMAIN todo'[c] : todo'[c][i][1] \in Later("commitStepUp")
      BY <2>2, <3>1, FirstFirst DEF Ordered
    <3>3. Later("commitStepUp") = {"audit"}
      BY DEF Later, Drops
    <3> QED BY <3>2, <3>3 DEF Based, Drops
  <2>6. CASE Commit(c) \/ Rollback(c)
    BY <1>2, <2>6, EndsIdle DEF OneSwitch
  <2> QED BY <2>1, <2>3, <2>4, <2>5, <2>6 DEF Moves
<1>3. ASSUME NEW d \in Clients, OneSwitch(d)' PROVE Based(todo[d], held[d])'
  <2>1. CASE d = c
    BY <1>2, <1>3, <2>1 DEF Based, Preceded, Row
  <2> QED BY <1>1, <1>3, <2>1
<1> QED BY <1>3 DEF Rooted

LEMMA LocksStay ==
  ASSUME LocksInv, [Next]_vars
  PROVE  LocksInv'
<1>1. CASE \E c \in Clients : Moves(c)
  BY <1>1, ShapedStep, LocksExcludeStep, WorkCoveredStep, BulkCoversStep, ChainedStep,
     HeldInOrderStep, RootedStep DEF LocksInv
<1>2. CASE UNCHANGED <<rows, nextId, txn, todo, held, work>>
  <2>1. UNCHANGED <<status, waits, used, counter, log, nextId, txn, todo, held, work>>
    BY <1>2 DEF rows
  <2>2. Shaped'
    BY <2>1 DEF LocksInv, Shaped, Sound
  <2>3. LocksExclude' /\ RemindersOwned'
    BY <2>1 DEF LocksInv, LocksExclude, RemindersOwned
  <2>4. WorkCovered' /\ BulkCovers'
    BY <2>1 DEF LocksInv, WorkCovered, BulkCovers
  <2>5. Chained' /\ HeldInOrder' /\ Rooted'
    <3>1. Chained'
      BY <2>1 DEF LocksInv, Chained, AuditLinear, EntriesChained
    <3>2. HeldInOrder'
      BY <2>1 DEF LocksInv, HeldInOrder, OneSwitch
    <3>3. Rooted'
      BY <2>1 DEF LocksInv, Rooted, OneSwitch, Based, Preceded, Row
    <3> QED BY <3>1, <3>2, <3>3
  <2> QED BY <2>2, <2>3, <2>4, <2>5 DEF LocksInv
<1> QED BY <1>1, <1>2, AllMove DEF LocksInv

\* The inductive invariant: locks exclude, and cover what their holders write.
THEOREM LocksAlways == Spec => []LocksInv
<1> QED BY InitLocks, LocksStay, PTL DEF Spec

\* writeAudit (lib/audit.ts) chains every committed row to the newest one before
\* it, never two rows to the same: no one reads the newest row without the
\* advisory lock, and none releases it before its own row is committed.
THEOREM AuditAlwaysLinear == Spec => []AuditLinear
<1>1. LocksInv => AuditLinear
  BY DEF LocksInv, Chained
<1> QED BY <1>1, LocksAlways, PTL

\* No TOTP step and no check-in link is spent by two transactions, however many
\* check-ins, cancels and test releases bring the same one at the same time.
THEOREM AlwaysSpentOnce == Spec => SpentOnce
<1>1. ASSUME LocksInv, NEW c \in Clients
      PROVE  /\ work[c].code # None => work[c].code > counter[txn[c].user]
             /\ work[c].link \cap used = {}
  BY <1>1 DEF LocksInv, WorkCovered
<1>2. LocksInv /\ [Next]_vars =>
        [\A c \in Clients : Commit(c) \/ CommitStepUp(c) =>
             /\ work[c].code # None => work[c].code > counter[txn[c].user]
             /\ work[c].link \cap used = {}]_vars
  BY <1>1
<1> QED BY <1>2, LocksAlways, PTL DEF Spec, SpentOnce

\* recordHeartbeat only ever resets the deadline of a switch that is active when
\* it commits, and a bulk check-in (routes/bulk-check-in.ts) resets every switch
\* whose row it locked, that is, every one it answers ok for.
THEOREM ResetsAlwaysLive == Spec => ResetsLive
<1>1. ASSUME LocksInv, NEW c \in Clients, Commit(c)
      PROVE  /\ \A s \in work[c].reset : status[s] = "active"
             /\ txn[c].kind = "bulk" =>
                  \A s \in Switches : <<Row(s), "own">> \in held[c] => s \in work[c].reset
  <2>1. txn[c] # None /\ DOMAIN todo[c] = {}
    BY <1>1 DEF Commit
  <2> QED BY <1>1, <2>1 DEF LocksInv, WorkCovered, BulkCovers
<1>2. LocksInv /\ [Next]_vars =>
        [\A c \in Clients : Commit(c) =>
             /\ \A s \in work[c].reset : status[s] = "active"
             /\ txn[c].kind = "bulk" =>
                  \A s \in Switches : <<Row(s), "own">> \in held[c] => s \in work[c].reset]_vars
  BY <1>1
<1> QED BY <1>2, LocksAlways, PTL DEF Spec, ResetsLive
-----------------------------------------------------------------------------
(* Who waits for whom, of those that act on one switch.  The waiting goes  *)
(* up, to a transaction that has come further; or the two wait for each    *)
(* other, and are one of the pairs of Opposed.                             *)

Rank(c) ==
  CASE Doing(c) \in {"lock", "delete", "claimLink", "castVote", "read"} -> 0
    [] Doing(c) \in {"stepUp", "referUser"} -> 1
    [] Doing(c) = "copyFor" -> 3
    [] Doing(c) \in {"unwait"} \cup Drops -> 5
    [] Doing(c) = "audit" -> 6
    [] OTHER -> IF \E l \in held[c] : l[1] = User(Owner) /\ l[2] = "own" THEN 4 ELSE 2

\* They wait for each other.
Meet(c, d) == c \in WaitingFor(d) /\ {txn[c].kind, txn[d].kind} \in Opposed

\* What a transaction on one switch is doing while it holds a lock.
LEMMA WhileHeld ==
  ASSUME LocksInv, NEW d \in Clients, Running(d), OneSwitch(d)
  PROVE  /\ txn[d].kind \in MadeBy(Doing(d)) /\ txn[d].kind \notin ManyRows
         /\ \A l \in held[d] : txn[d].kind \in HeldBy(l) /\ InOrder(l, <<Doing(d), On(d)>>)
         /\ Doing(d) \in {"reset", "unwait"} => <<Row(On(d)), "share">> \in held[d]
         /\ Doing(d) \in Drops => <<Row(On(d)), "own">> \in held[d]
<1>1. /\ 1 \in DOMAIN todo[d] /\ todo[d][1] = <<Doing(d), On(d)>>
      /\ \A i \in DOMAIN todo[d] : i \in Nat
      /\ txn[d].kind \in MadeBy(Doing(d))
  BY FirstFirst, StatementTyped DEF LocksInv
<1>2. \A l \in held[d] : txn[d].kind \in HeldBy(l) /\ InOrder(l, <<Doing(d), On(d)>>)
  BY <1>1 DEF LocksInv, HeldInOrder
<1>3. \A j \in DOMAIN todo[d] : ~(j < 1)
  <2>1. todo[d] \in Seq(Statement)
    BY FirstFirst DEF LocksInv
  <2> QED BY <2>1
<1>4. Based(todo[d], held[d])
  BY DEF LocksInv, Rooted
<1>5. ASSUME Doing(d) \in {"reset", "unwait"} PROVE <<Row(On(d)), "share">> \in held[d]
  <2>1. Preceded(todo[d], held[d], 1, "heartbeat", "share")
    BY <1>1, <1>4, <1>5 DEF Based
  <2> QED BY <1>1, <1>3, <2>1 DEF Preceded
<1>6. ASSUME Doing(d) \in Drops PROVE <<Row(On(d)), "own">> \in held[d]
  <2>1. Preceded(todo[d], held[d], 1, "delete", "own")
    BY <1>1, <1>4, <1>6 DEF Based
  <2> QED BY <1>1, <1>3, <2>1 DEF Preceded
<1> QED BY <1>1, <1>2, <1>5, <1>6 DEF OneSwitch

\* A row is not owned by two.
LEMMA OneOwner ==
  ASSUME LocksInv, NEW c \in Clients, NEW d \in Clients, c # d, NEW x, NEW mode,
         <<Row(x), "own">> \in held[c]
  PROVE  <<Row(x), mode>> \notin held[d]
<1> SUFFICES ASSUME <<Row(x), mode>> \in held[d] PROVE FALSE
  OBVIOUS
<1>1. PICK l \in held[c], n \in held[d] : l = <<Row(x), "own">> /\ n = <<Row(x), mode>>
  OBVIOUS
<1>2. l[1] = n[1] /\ Conflicts(l[2], n[2])
  BY <1>1 DEF Conflicts
<1> QED BY <1>2 DEF LocksInv, LocksExclude

\* Who waits for a lock of d, and what d is doing.
WaitsAt(c, d, n, l) ==
  /\ Running(c) /\ Running(d) /\ d # c
  /\ l \in held[d] /\ n \in Needs(c) /\ l[1] = n[1] /\ Conflicts(l[2], n[2])
  /\ Locks(c, n)
  /\ Doing(d) \in LaterThan(l) \ {"commitStepUp"}
  /\ l[1][1] # "user" /\ Doing(d) \in OnRows => On(d) = l[1][2]

LEMMA Waits ==
  ASSUME LocksInv, NEW c \in Clients, NEW d \in WaitingFor(c), OneSwitch(d), WaitingFor(d) # {}
  PROVE  /\ d \in Clients /\ d # c /\ Running(c) /\ Running(d)
         /\ \E l \in held[d], n \in Needs(c) : WaitsAt(c, d, n, l)
         /\ \E e \in Clients \ {d} : \E k \in held[e], m \in Needs(d) :
              k[1] = m[1] /\ Conflicts(k[2], m[2]) /\ Locks(d, m)
<1>1. /\ Running(c) /\ Running(d) /\ d \in Clients /\ d # c /\ Shaped
      /\ \E l \in held[d], n \in Needs(c) : l[1] = n[1] /\ Conflicts(l[2], n[2])
      /\ \E e \in Clients \ {d} : \E k \in held[e], m \in Needs(d) :
           k[1] = m[1] /\ Conflicts(k[2], m[2])
  BY DEF WaitingFor, LocksInv
<1>2. PICK l \in held[d], n \in Needs(c) : l[1] = n[1] /\ Conflicts(l[2], n[2])
  BY <1>1
<1>3. \A m \in Needs(d) : Locks(d, m)
  BY <1>1, NeedsLocks
<1>4. Locks(c, n)
  BY <1>1, NeedsLocks
<1>5. Doing(d) # "commitStepUp"
  <2>1. PICK m \in Needs(d) : TRUE
    BY <1>1
  <2> QED BY <1>3, <2>1 DEF Locks, Drops
<1>6. InOrder(l, <<Doing(d), On(d)>>)
  BY <1>1, WhileHeld
<1> QED BY <1>1, <1>2, <1>3, <1>4, <1>5, <1>6 DEF WaitsAt, InOrder

LEMMA WaitsForUser ==
  ASSUME LocksInv, NEW c \in Clients, NEW d \in Clients, OneSwitch(c), OneSwitch(d),
         NEW n, NEW l, WaitsAt(c, d, n, l), n[1] = User(On(c)),
         Doing(c) \in {"stepUp", "lockUser", "referUser", "copyFor"}
  PROVE  Rank(c) < Rank(d)
<1>1. PICK x : x = On(c)
  OBVIOUS
<1>2. /\ l[1] = User(x) /\ l[1][1] = "user" /\ l[1][2] = x /\ n[1] = User(x) /\ l \in held[d]
      /\ Conflicts(l[2], n[2]) /\ Locks(c, n) /\ Doing(d) \in LaterThan(l)
      /\ Doing(d) # "commitStepUp" /\ Running(c) /\ Running(d)
  BY <1>1 DEF WaitsAt, User
<1>3. LaterThan(l) = IF l[2] = "own" THEN Later("stepUp") ELSE {"audit"}
  BY <1>2 DEF LaterThan
<1>4. Later("stepUp") = {"heartbeat", "reset", "unwait", "pause", "commitStepUp", "audit"}
  BY DEF Later, Drops
<1>5. Doing(d) \in {"heartbeat", "reset", "unwait", "pause", "audit"}
  BY <1>2, <1>3, <1>4
<1>6. Doing(c) # "lockUser"
  <2>1. MadeBy("lockUser") \subseteq ManyRows
    BY DEF MadeBy, ManyRows, Drops
  <2> QED BY <1>2, <2>1, WhileHeld
<1>7. CASE Doing(c) \in {"stepUp", "referUser"}
  BY <1>5, <1>7 DEF Rank, Drops
<1>8. CASE Doing(c) = "copyFor"
  <2>1. x = Owner /\ Rank(c) = 3
    BY <1>1, <1>2, <1>8, StatementTyped DEF Rank, LocksInv, Drops
  <2>2. n[2] = "share"
    BY <1>2, <1>8 DEF Locks, Row, Wait, Link, Recipient, Reminder, AuditChain, User
  <2>3. CASE Doing(d) = "audit"
    BY <2>1, <2>3 DEF Rank, Drops
  <2>4. CASE Doing(d) # "audit"
    <3>1. l[2] = "own"
      BY <1>2, <1>3, <2>4
    <3>2. Rank(d) \in {4, 5}
      BY <1>2, <1>5, <2>1, <2>4, <3>1 DEF Rank, Drops
    <3> QED BY <2>1, <3>2
  <2> QED BY <2>3, <2>4
<1> QED BY <1>6, <1>7, <1>8

\* Who holds the row of the switch, and waits, is past the lock.
LEMMA HoldsRow ==
  ASSUME LocksInv, NEW c \in Clients, NEW d \in WaitingFor(c), OneSwitch(d), WaitingFor(d) # {},
         NEW n, NEW l, WaitsAt(c, d, n, l), NEW x, l[1] = Row(x)
  PROVE  /\ l[2] = "own" => Doing(d) \in {"audit"} \cup Drops
         /\ l[2] = "change" => Doing(d) \in {"unwait", "audit"}
         /\ l[2] = "read" => Doing(d) \in {"copyFor", "audit"}
         /\ l[2] \notin {"own", "change", "read"} => Doing(d) \in {"reset", "unwait", "referUser", "audit"}
<1>1. /\ d \in Clients /\ l \in held[d] /\ Running(d) /\ Doing(d) \in LaterThan(l)
      /\ Doing(d) \in OnRows => On(d) = x
      /\ l[1][1] = "switch" /\ l[1] = <<"switch", x>>
  BY Waits DEF WaitsAt, Row
<1>2. LaterThan(l) = LaterThanRow(l[2])
  BY <1>1 DEF LaterThan
<1>3. ASSUME l[2] = "own", Doing(d) \in {"arm", "release"} PROVE FALSE
  <2>1. PICK e \in Clients \ {d} : \E k \in held[e], m \in Needs(d) :
          k[1] = m[1] /\ Conflicts(k[2], m[2]) /\ Locks(d, m)
    BY Waits
  <2>2. PICK k \in held[e], m \in Needs(d) : k[1] = m[1] /\ Conflicts(k[2], m[2]) /\ Locks(d, m)
    BY <2>1
  <2>3. On(d) = x
    BY <1>1, <1>3 DEF OnRows
  <2>4. m[1] = Row(x)
    BY <1>3, <2>2, <2>3 DEF Locks, Drops
  <2>5. k[1] = l[1] /\ Conflicts(l[2], k[2])
    BY <1>3, <2>2, <2>4 DEF Conflicts
  <2> QED BY <1>1, <2>5 DEF LocksInv, LocksExclude
<1>4. l[2] = "own" => Doing(d) \in {"audit"} \cup Drops
  BY <1>1, <1>2, <1>3 DEF LaterThanRow
<1>5. l[2] # "own" =>
        Doing(d) \in CASE l[2] = "change" -> {"unwait", "audit"}
                       [] l[2] = "read" -> {"copyFor", "audit"}
                       [] OTHER -> {"reset", "unwait", "referUser", "audit"}
  BY <1>1, <1>2 DEF LaterThanRow, Later, Drops
<1> QED BY <1>4, <1>5

\* A check-in or a cancel, which owns the user, waits for a copy that has read the
\* switch: and the copy, to refer to the user, waits for it.
LEMMA CopyMet ==
  ASSUME LocksInv, NEW c \in Clients, NEW d \in Clients, c # d, OneSwitch(c), OneSwitch(d),
         Running(c), Running(d), Doing(d) = "copyFor",
         Doing(c) \in {"setToken", "reset", "pause", "disarm", "arm", "release"},
         NEW k \in held[c], k[1] = User(Owner), k[2] = "own"
  PROVE  Meet(c, d)
<1>1. On(d) = Owner /\ <<User(Owner), "share">> \in Needs(d)
  BY StatementTyped, NeedsLocks DEF LocksInv
<1>2. c \in WaitingFor(d)
  BY <1>1 DEF WaitingFor, Conflicts
<1>3. txn[d].kind = "duplicate"
  BY WhileHeld DEF MadeBy, Drops
<1>4. k[1][1] = "user"
  BY DEF User
<1>5. Doing(c) \in {"reset", "pause"}
  <2>1. Doing(c) \in LaterThan(k)
    BY WhileHeld DEF InOrder
  <2>2. LaterThan(k) = Later("stepUp")
    BY <1>4 DEF LaterThan
  <2> QED BY <2>1, <2>2 DEF Later, Drops
<1>6. txn[c].kind \in (HeldBy(k) \cap MadeBy(Doing(c))) \ ManyRows
  BY WhileHeld
<1>7. txn[c].kind \in {"manual", "cancel"}
  <2>1. HeldBy(k) = {"manual", "cancel", "test", "bulk", "remind"}
    BY <1>4 DEF HeldBy, MadeBy, Drops
  <2>2. MadeBy("reset") = {"manual", "token", "link", "bulk"} /\ MadeBy("pause") = {"cancel"}
    BY DEF MadeBy, Drops
  <2> QED BY <1>5, <1>6, <2>1, <2>2 DEF ManyRows
<1> QED BY <1>2, <1>3, <1>7 DEF Meet, Opposed

LEMMA WaitsForRow ==
  ASSUME LocksInv, NEW c \in Clients, NEW d \in WaitingFor(c), OneSwitch(c), OneSwitch(d),
         WaitingFor(d) # {}, NEW n, NEW l, WaitsAt(c, d, n, l), n[1] = Row(On(c))
  PROVE  Rank(c) < Rank(d) \/ Meet(c, d)
<1>1. PICK x : x = On(c)
  OBVIOUS
<1>2. /\ d \in Clients /\ d # c /\ Running(c) /\ Running(d) /\ Locks(c, n)
      /\ n[1] = Row(x) /\ l[1] = Row(x) /\ Conflicts(l[2], n[2])
  BY <1>1, Waits DEF WaitsAt
<1>3. /\ l[2] = "own" => Doing(d) \in {"audit"} \cup Drops
      /\ l[2] = "change" => Doing(d) \in {"unwait", "audit"}
      /\ l[2] = "read" => Doing(d) \in {"copyFor", "audit"}
      /\ l[2] \notin {"own", "change", "read"} => Doing(d) \in {"reset", "unwait", "referUser", "audit"}
  BY <1>2, HoldsRow
<1>4. \/ Doing(c) \in {"lock", "lockActive", "delete"} /\ n[2] = "own"
      \/ Doing(c) \in {"heartbeat", "refer", "upsertWait"} /\ n[2] = "share"
      \/ /\ Doing(c) \in {"setToken", "reset", "pause", "disarm", "arm", "release"}
         /\ n[2] = "change"
      \/ Doing(c) = "read" /\ n[2] = "read"
  BY <1>2 DEF Locks, User, Row, Wait, Link, Recipient, Reminder, AuditChain
<1>5. Doing(c) \notin {"lockActive", "upsertWait"}
  <2>1. MadeBy("lockActive") \subseteq ManyRows /\ MadeBy("upsertWait") \subseteq ManyRows
    BY DEF MadeBy, ManyRows, Drops
  <2> QED BY <1>2, <2>1, WhileHeld
<1>6. CASE Doing(c) \in {"lock", "delete", "read"}
  <2>1. Rank(c) = 0
    BY <1>6 DEF Rank, Drops
  <2>2. Doing(d) \in {"reset", "unwait", "referUser", "copyFor", "audit"} \cup Drops
    BY <1>3
  <2>3. Rank(d) \in 1..6
    BY <2>2 DEF Rank, Drops
  <2> QED BY <2>1, <2>3
<1>7. CASE Doing(d) \in {"unwait", "audit"} \cup Drops /\ Doing(c) \notin {"lock", "delete", "read"}
  <2>1. Rank(d) \in {5, 6}
    BY <1>7 DEF Rank, Drops
  <2>2. Rank(c) \in {2, 4}
    BY <1>4, <1>5, <1>7 DEF Rank, Drops
  <2> QED BY <2>1, <2>2
<1>8. CASE Doing(d) \notin {"unwait", "audit"} \cup Drops /\ Doing(c) \notin {"lock", "delete", "read"}
  <2>1. l[2] # "own" /\ l[2] # "change"
    BY <1>3, <1>8
  <2>2. l[2] = "read" /\ Doing(c) \in {"setToken", "reset", "pause", "disarm", "arm", "release"}
    BY <1>2, <1>4, <1>5, <1>8, <2>1 DEF Conflicts
  <2>3. Doing(d) = "copyFor" /\ Rank(d) = 3
    BY <1>3, <1>8, <2>2 DEF Rank, Drops
  <2>4. CASE \E k \in held[c] : k[1] = User(Owner) /\ k[2] = "own"
    BY <1>2, <2>2, <2>3, <2>4, CopyMet
  <2>5. CASE ~ \E k \in held[c] : k[1] = User(Owner) /\ k[2] = "own"
    <3>1. Rank(c) = 2
      BY <2>2, <2>5 DEF Rank, Drops
    <3> QED BY <2>3, <3>1
  <2> QED BY <2>4, <2>5
<1> QED BY <1>6, <1>7, <1>8

\* A delete, which owns the switch, waits for the link or the vote that was claimed
\* before: and that, to go on to the switch, waits for it.
LEMMA DropMet ==
  ASSUME LocksInv, NEW c \in Clients, NEW d \in WaitingFor(c), OneSwitch(c), OneSwitch(d),
         WaitingFor(d) # {}, NEW n, NEW l, WaitsAt(c, d, n, l),
         Doing(c) \in Drops, n[1] \in {Wait(On(c)), Link(On(c)), Recipient(On(c)), Reminder(On(c))}
  PROVE  Rank(c) < Rank(d) \/ Meet(c, d)
<1>1. PICK x : x = On(c)
  OBVIOUS
<1>2. /\ d \in Clients /\ d # c /\ Running(c) /\ Running(d)
      /\ l \in held[d] /\ l[1] = n[1] /\ Doing(d) \in LaterThan(l)
      /\ l[1][1] \in {"wait", "link", "recipient", "reminder"} /\ l[1][2] = x
      /\ Doing(d) \in OnRows => On(d) = x
  BY <1>1, Waits DEF WaitsAt, Wait, Link, Recipient, Reminder
<1>3. <<Row(x), "own">> \in held[c] /\ txn[c].kind = "delete" /\ Rank(c) = 5
  BY <1>1, <1>2, WhileHeld DEF Rank, Drops, MadeBy
<1>4. /\ Doing(d) \notin {"unwait"} \cup Drops
      /\ txn[d].kind \in MadeBy(Doing(d)) /\ txn[d].kind \in HeldBy(l)
  <2>1. \A mode : <<Row(x), mode>> \notin held[d]
    BY <1>2, <1>3, OneOwner
  <2> QED BY <1>2, <2>1, WhileHeld DEF OnRows
<1>5. CASE Doing(d) = "audit"
  BY <1>3, <1>5 DEF Rank, Drops
<1>6. CASE Doing(d) # "audit"
  <2>1. l[2] = "change" /\ l[1][1] \in {"link", "recipient"}
    BY <1>2, <1>4, <1>6 DEF LaterThan
  <2>2. /\ l[1][1] = "link" => Doing(d) \in {"heartbeat", "reset"} /\ txn[d].kind = "link"
        /\ l[1][1] = "recipient" => Doing(d) = "refer" /\ txn[d].kind = "vote"
    BY <1>2, <1>4, <1>6, <2>1 DEF LaterThan, Later, HeldBy
  <2>3. {txn[c].kind, txn[d].kind} \in Opposed
    BY <1>3, <2>1, <2>2 DEF Opposed
  <2>4. On(d) = x
    BY <1>2, <2>1, <2>2 DEF OnRows
  <2>5. PICK e \in Clients \ {d} : \E k \in held[e], m \in Needs(d) :
          k[1] = m[1] /\ Conflicts(k[2], m[2]) /\ Locks(d, m)
    BY Waits
  <2>6. PICK m \in Needs(d) : Locks(d, m)
    BY <2>5
  <2>7. m[1] = Row(x)
    BY <2>1, <2>2, <2>4, <2>6 DEF Locks, Drops
  <2>8. c \in WaitingFor(d)
    BY <1>2, <1>3, <2>6, <2>7 DEF WaitingFor, Conflicts
  <2> QED BY <2>3, <2>8 DEF Meet
<1> QED BY <1>5, <1>6

LEMMA WaitsForChild ==
  ASSUME LocksInv, NEW c \in Clients, NEW d \in WaitingFor(c), OneSwitch(c), OneSwitch(d),
         WaitingFor(d) # {}, NEW n, NEW l, WaitsAt(c, d, n, l),
         n[1] \in {Wait(On(c)), Link(On(c)), Recipient(On(c)), Reminder(On(c))}
  PROVE  Rank(c) < Rank(d) \/ Meet(c, d)
<1>1. PICK x : x = On(c)
  OBVIOUS
<1>2. /\ d \in Clients /\ d # c /\ Running(c) /\ Running(d) /\ Locks(c, n)
      /\ l \in held[d] /\ l[1] = n[1] /\ Doing(d) \in LaterThan(l)
      /\ l[1][2] = x /\ (Doing(d) \in OnRows => On(d) = x)
  BY <1>1, Waits DEF WaitsAt, Wait, Link, Recipient, Reminder
<1>3. \/ Doing(c) \in Drops
      \/ Doing(c) \in {"unwait", "takeWait", "upsertWait"} /\ n[1] = Wait(x)
      \/ Doing(c) = "claimLink" /\ n[1] = Link(x)
      \/ Doing(c) = "castVote" /\ n[1] = Recipient(x)
      \/ Doing(c) = "lockReminder"
  BY <1>1, <1>2 DEF Locks, Drops, User, Row, Wait, Link, Recipient, Reminder, AuditChain
<1>4. Doing(c) \notin {"takeWait", "upsertWait", "lockReminder"}
  <2>1. \A what \in {"takeWait", "upsertWait", "lockReminder"} : MadeBy(what) \subseteq ManyRows
    BY DEF MadeBy, ManyRows, Drops
  <2> QED BY <1>2, <2>1, WhileHeld
<1>5. CASE Doing(c) \in Drops
  BY <1>5, DropMet
<1>6. CASE Doing(c) = "unwait" /\ n[1] = Wait(x)
  <2>1. Rank(c) = 5 /\ <<Row(x), "share">> \in held[c]
    BY <1>1, <1>2, <1>6, WhileHeld DEF Rank
  <2>2. LaterThan(l) = {"audit"} \cup Drops
    BY <1>2, <1>6 DEF LaterThan, Wait
  <2>3. ASSUME Doing(d) \in Drops PROVE FALSE
    <3>1. On(d) = x
      BY <1>2, <2>3 DEF OnRows
    <3>2. <<Row(x), "own">> \in held[d]
      BY <1>2, <2>3, <3>1, WhileHeld
    <3> QED BY <1>2, <2>1, <3>2, OneOwner
  <2>4. Rank(d) = 6
    BY <1>2, <2>2, <2>3 DEF Rank, Drops
  <2> QED BY <2>1, <2>4
<1>7. CASE Doing(c) = "claimLink" /\ n[1] = Link(x)
  <2>1. Rank(c) = 0
    BY <1>7 DEF Rank, Drops
  <2>2. LaterThan(l) \subseteq {"heartbeat", "reset", "unwait", "audit"} \cup Drops
    BY <1>2, <1>7 DEF LaterThan, Later, Link
  <2>3. Rank(d) \in 1..6
    BY <1>2, <2>2 DEF Rank, Drops
  <2> QED BY <2>1, <2>3
<1>8. CASE Doing(c) = "castVote" /\ n[1] = Recipient(x)
  <2>1. Rank(c) = 0
    BY <1>8 DEF Rank, Drops
  <2>2. LaterThan(l) \subseteq {"refer", "audit"} \cup Drops
    BY <1>2, <1>8 DEF LaterThan, Later, Recipient
  <2>3. Rank(d) \in 1..6
    BY <1>2, <2>2 DEF Rank, Drops
  <2> QED BY <2>1, <2>3
<1> QED BY <1>3, <1>4, <1>5, <1>6, <1>7, <1>8

LEMMA RankGrows ==
  ASSUME LocksInv, NEW c \in Clients, NEW d \in WaitingFor(c), OneSwitch(c), OneSwitch(d),
         WaitingFor(d) # {}
  PROVE  Rank(c) < Rank(d) \/ Meet(c, d)
<1>1. /\ d \in Clients /\ d # c /\ Running(c) /\ Running(d) /\ Shaped
      /\ \E l \in held[d], n \in Needs(c) : WaitsAt(c, d, n, l)
  BY Waits DEF LocksInv
<1>2. PICK l \in held[d], n \in Needs(c) : WaitsAt(c, d, n, l)
  BY <1>1
<1>3. PICK x : x = On(c)
  OBVIOUS
<1>4. /\ l[1] = n[1] /\ Conflicts(l[2], n[2]) /\ Locks(c, n)
      /\ Doing(d) \in LaterThan(l) /\ Doing(d) # "commitStepUp"
      /\ l[1][1] # "user" /\ Doing(d) \in OnRows => On(d) = l[1][2]
  BY <1>2 DEF WaitsAt
<1>5. CASE n[1] = User(x) /\ Doing(c) \in {"stepUp", "lockUser", "referUser", "copyFor"}
  BY <1>1, <1>2, <1>3, <1>5, WaitsForUser
<1>6. CASE n[1] = Row(x) /\ Doing(c) \in OnRows
  BY <1>1, <1>2, <1>3, <1>6, WaitsForRow
<1>7. CASE n[1] \in {Wait(x), Link(x), Recipient(x), Reminder(x)} /\ Doing(c) \in OnRows
  BY <1>1, <1>2, <1>3, <1>7, WaitsForChild
<1>8. CASE n[1] = AuditChain
  <2>1. l[1][1] = "audit"
    BY <1>4, <1>8 DEF AuditChain
  <2>2. LaterThan(l) = {}
    BY <2>1 DEF LaterThan
  <2> QED BY <1>4, <2>2
<1> QED BY <1>3, <1>4, <1>5, <1>6, <1>7, <1>8 DEF Locks, OnRows, Drops

\* Transactions that each wait for one of them, and go over one switch each: two
\* of them wait for each other.
LEMMA NoOtherCircle ==
  ASSUME LocksInv, NEW S \in SUBSET Clients, InCircle(S),
         \A c \in S : txn[c].kind \notin ManyRows
  PROVE  \E c, d \in S : d \in WaitingFor(c) /\ Meet(c, d)
<1> SUFFICES ASSUME ~ \E c, d \in S : d \in WaitingFor(c) /\ Meet(c, d) PROVE FALSE
  OBVIOUS
<1>1. ASSUME NEW c \in S PROVE \E d \in S : Rank(c) < Rank(d)
  <2>1. PICK d \in S : d \in WaitingFor(c)
    BY DEF InCircle
  <2>2. WaitingFor(c) # {} /\ WaitingFor(d) # {}
    BY <2>1 DEF InCircle
  <2>3. OneSwitch(c) /\ OneSwitch(d)
    BY <2>2 DEF OneSwitch, WaitingFor, Running
  <2> QED BY <2>1, <2>2, <2>3, RankGrows
<1>2. \A c \in S : Rank(c) \in 0..6
  BY DEF Rank
<1>3. PICK c0 \in S : TRUE
  BY DEF InCircle
<1>4. PICK c1 \in S : Rank(c0) < Rank(c1)
  BY <1>1, <1>3
<1>5. PICK c2 \in S : Rank(c1) < Rank(c2)
  BY <1>1
<1>6. PICK c3 \in S : Rank(c2) < Rank(c3)
  BY <1>1
<1>7. PICK c4 \in S : Rank(c3) < Rank(c4)
  BY <1>1
<1>8. PICK c5 \in S : Rank(c4) < Rank(c5)
  BY <1>1
<1>9. PICK c6 \in S : Rank(c5) < Rank(c6)
  BY <1>1
<1>10. PICK c7 \in S : Rank(c6) < Rank(c7)
  BY <1>1
<1>11. PICK r0, r1, r2, r3, r4, r5, r6, r7 \in 0..6 :
        r0 < r1 /\ r1 < r2 /\ r2 < r3 /\ r3 < r4 /\ r4 < r5 /\ r5 < r6 /\ r6 < r7
  BY <1>2, <1>3, <1>4, <1>5, <1>6, <1>7, <1>8, <1>9, <1>10
<1> QED BY <1>11

\* The handlers and jobs that act on one switch lock user, switch, wait and audit
\* in this order.  A deadlock takes a bulk check-in, a sweep of the scheduler or a
\* reminder, or it is of two transactions only: a link or a vote claimed before the
\* DELETE of its switch cascades to it (heartbeat.ts, triggers.ts, switches.ts), or a
\* copy that has read a switch the owner checks in or cancels.
THEOREM CirclesAlwaysKnown == Spec => []CirclesKnown
<1>1. ASSUME LocksInv, NEW S \in Circles, ~ \E c \in S : txn[c].kind \in ManyRows
      PROVE  \E c, d \in S : S = {c, d} /\ {txn[c].kind, txn[d].kind} \in Opposed
  <2>1. S \in SUBSET Clients /\ InCircle(S) /\ \A T \in (SUBSET S) \ {S} : ~InCircle(T)
    BY DEF Circles
  <2>2. PICK c, d \in S : d \in WaitingFor(c) /\ Meet(c, d)
    BY <1>1, <2>1, NoOtherCircle
  <2>3. InCircle({c, d})
    BY <2>2 DEF InCircle, Meet
  <2>4. c \in S /\ d \in S /\ {c, d} \in SUBSET S
    BY <2>2
  <2>5. S = {c, d}
    BY <2>1, <2>3, <2>4
  <2> QED BY <2>2, <2>5 DEF Meet
<1>2. LocksInv => CirclesKnown
  BY <1>1 DEF CirclesKnown
<1> QED BY <1>2, LocksAlways, PTL
=============================================================================
