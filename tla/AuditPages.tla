----------------------------- MODULE AuditPages -----------------------------
(***************************************************************************)
(* Reading the audit log and exporting it: keyset pages (audit-log.ts,     *)
(* audit-pagination.ts), exports and the ledger of exports (reports.ts).   *)
(*                                                                         *)
(* Readers page through a log that grows under them.  Rows of the log get  *)
(* their id under the lock of writeAudit, hence in the order of their      *)
(* commits (CheckInLocks), and are appended here in one step.  Rows of the *)
(* ledger take no lock: their number is drawn first, and they are visible  *)
(* in any order.                                                           *)
(***************************************************************************)
EXTENDS Integers, FiniteSets, SequencesExt

CONSTANTS
  Readers, Exporters,
  Limit,          \* the "limit" of a request for a page
  ExportRowLimit,
  MaxExports,     \* bound: an export starts while fewer were recorded or are in flight
  None

ASSUME PageLimits ==
  {Limit, ExportRowLimit} \subseteq Nat \ {0} /\ MaxExports \in Nat /\ None \notin Nat

VARIABLES
  log,            \* audit_log: action by id
  ledger,         \* export_jobs: seq -> row, the visible ones
  drawn,          \* export_jobs.seq: the last number drawn
  readers,        \* reader -> the pages received so far, or None
  exporters,      \* exporter -> export in flight, or None
  delivered       \* history: ledger row and row count of the exports that were sent

pageVars == <<log, ledger, drawn, readers, exporters, delivered>>

\* auditCategoryExpression.
Category(action) ==
  CASE action = "admin_settings_updated" -> "admin"
    [] action \in {"invite_created", "invite_consumed"} -> "invite"
    [] OTHER -> "system"

Actions == {"setup_completed", "invite_created", "invite_consumed", "user_registered",
            "admin_settings_updated"}
Categories == {Category(a) : a \in Actions}

\* buildAuditPredicate: the ids that a filter, if there is one, lets through.
Matching(filter) ==
  {i \in DOMAIN log : filter = None \/ Category(log[i]) = filter}

Row == [status : {"success", "failed"}, count : Nat \cup {None}]
Reader == [of : {"log", "ledger"}, filter : Categories \cup {None}, before : Nat \cup {None},
           got : Seq(Nat \ {0}), first : SUBSET (Nat \ {0}), done : BOOLEAN]
Export == [pc : {"draw", "insert"}, seq : Nat, row : Row, retry : BOOLEAN]

PagesTypeOK ==
  /\ log \in Seq(Actions)
  /\ drawn \in Nat
  /\ DOMAIN ledger \subseteq 1..drawn /\ \A n \in DOMAIN ledger : ledger[n] \in Row
  /\ readers \in [Readers -> Reader \cup {None}]
  /\ exporters \in [Exporters -> Export \cup {None}]
  /\ delivered \in SUBSET [seq : Nat, count : Nat]

PagesInit ==
  /\ log = <<>>
  /\ ledger = [n \in {} |-> None] /\ drawn = 0
  /\ readers = [r \in Readers |-> None]
  /\ exporters = [x \in Exporters |-> None]
  /\ delivered = {}

\* writeAudit, in the transaction of whoever calls it.
Logged(action) == log' = Append(log, action)
-----------------------------------------------------------------------------
(* Pages.                                                                  *)

Visible(of, filter) == IF of = "log" THEN Matching(filter) ELSE DOMAIN ledger

\* ORDER BY id DESC LIMIT n: the k-th row has k - 1 rows above it.
Above(ids, i) == {j \in ids : j > i}
Newest(ids, n) ==
  [k \in 1..(IF Cardinality(ids) < n THEN Cardinality(ids) ELSE n) |->
     CHOOSE i \in ids : Cardinality(Above(ids, i)) = k - 1]

Below(ids, before) == {i \in ids : before = None \/ i < before}

\* Fault: the next page begins below the row that was asked for in excess.
PageSkipping(ids, before) ==
  LET rows == Newest(Below(ids, before), Limit + 1)
      items == SubSeq(rows, 1, IF Len(rows) < Limit THEN Len(rows) ELSE Limit)
  IN  [items |-> items,
       nextBeforeId |-> IF Len(rows) > Limit THEN Last(rows) ELSE None]

\* One row more than the limit is asked for, to see whether there is another page.
Page(ids, before) ==
  LET rows == Newest(Below(ids, before), Limit + 1)
      items == SubSeq(rows, 1, IF Len(rows) < Limit THEN Len(rows) ELSE Limit)
  IN  [items |-> items,
       nextBeforeId |-> IF Len(rows) > Limit THEN Last(items) ELSE None]

Turned(reader) ==
  LET page == Page(Visible(reader.of, reader.filter), reader.before)
  IN  [reader EXCEPT !.got = @ \o page.items,
                     !.before = page.nextBeforeId,
                     !.done = page.nextBeforeId = None]

\* GET /api/audit-log, /api/switches/:id/audit and /api/reports/exports.
FirstPage(r) ==
  /\ readers[r] = None
  /\ \E of \in {"log", "ledger"}, filter \in Categories \cup {None} :
       /\ of = "ledger" => filter = None
       /\ readers' = [readers EXCEPT ![r] =
            Turned([of |-> of, filter |-> filter, before |-> None, got |-> <<>>,
                    first |-> Visible(of, filter), done |-> FALSE])]
  /\ UNCHANGED <<log, ledger, drawn, exporters, delivered>>

NextPage(r) ==
  /\ readers[r] # None /\ ~readers[r].done
  /\ readers' = [readers EXCEPT ![r] = Turned(@)]
  /\ UNCHANGED <<log, ledger, drawn, exporters, delivered>>

LeavesPages(r) ==
  /\ readers[r] # None
  /\ readers' = [readers EXCEPT ![r] = None]
  /\ UNCHANGED <<log, ledger, drawn, exporters, delivered>>
-----------------------------------------------------------------------------
(* Exports.                                                                *)

\* The rows are read in one statement, and the ledger's row is decided on.
ExportSelect(x) ==
  /\ exporters[x] = None
  /\ drawn + Cardinality({y \in Exporters : exporters[y] # None}) < MaxExports
  /\ \E filter \in Categories \cup {None} :
       LET count == Len(Newest(Matching(filter), ExportRowLimit + 1)) IN
         exporters' = [exporters EXCEPT ![x] =
           [pc |-> "draw", seq |-> 0, retry |-> FALSE,
            row |-> IF count > ExportRowLimit THEN [status |-> "failed", count |-> None]
                    ELSE [status |-> "success", count |-> count]]]
  /\ UNCHANGED <<log, ledger, drawn, readers, delivered>>

\* recordExportJob: seq is an identity column, drawn before the row is visible.
RecordDraw(x) ==
  /\ exporters[x] # None /\ exporters[x].pc = "draw"
  /\ drawn' = drawn + 1
  /\ exporters' = [exporters EXCEPT ![x].pc = "insert", ![x].seq = drawn + 1]
  /\ UNCHANGED <<log, ledger, readers, delivered>>

Recorded(x) == [n \in DOMAIN ledger \cup {exporters[x].seq} |->
                 IF n = exporters[x].seq THEN exporters[x].row ELSE ledger[n]]

\* What reports.ts sends once recordExportJob has returned.
Sends(x) == IF exporters[x].row.status = "success"
            THEN delivered \cup {[seq |-> exporters[x].seq, count |-> exporters[x].row.count]}
            ELSE delivered

RecordInsert(x) ==
  /\ exporters[x] # None /\ exporters[x].pc = "insert"
  /\ ledger' = Recorded(x)
  /\ delivered' = Sends(x)
  /\ exporters' = [exporters EXCEPT ![x] = None]
  /\ UNCHANGED <<log, drawn, readers>>

\* Fault: what was selected is sent although the ledger does not tell of it.
RecordIgnored(x) ==
  /\ exporters[x] # None /\ exporters[x].pc = "insert"
  /\ ledger' \in {ledger, Recorded(x)}
  /\ delivered' = Sends(x)
  /\ exporters' = [exporters EXCEPT ![x] = None]
  /\ UNCHANGED <<log, drawn, readers>>

\* recordExportJob throws, before its row is written or after: the error is recorded
\* instead, once, and the reply is 500 either way.
RecordThrows(x) ==
  /\ exporters[x] # None /\ exporters[x].pc = "insert"
  /\ ledger' \in {ledger, Recorded(x)}
  /\ exporters' = [exporters EXCEPT ![x] =
       IF exporters[x].retry THEN None
       ELSE [pc |-> "draw", seq |-> 0, retry |-> TRUE,
             row |-> [status |-> "failed", count |-> None]]]
  /\ UNCHANGED <<log, drawn, readers, delivered>>

PagesNext ==
  \/ \E r \in Readers : FirstPage(r) \/ NextPage(r) \/ LeavesPages(r)
  \/ \E x \in Exporters :
       ExportSelect(x) \/ RecordDraw(x) \/ RecordInsert(x) \/ RecordThrows(x)
-----------------------------------------------------------------------------
(* What must hold.                                                         *)

\* audit-pagination.ts: however the table grows between two pages, a reader gets every
\* row that was there at its first page, newest first, none twice and none left out,
\* down to the row the last page ended with; and of the audit log not one row more.
PagesExact ==
  \A r \in Readers :
    readers[r] # None =>
      LET got == readers[r].got
          reached == {i \in readers[r].first :
                        readers[r].done \/ i >= readers[r].before}
      IN  /\ \A i, j \in DOMAIN got : i < j => got[i] > got[j]
          /\ reached \subseteq ToSet(got)
          /\ readers[r].of = "log" => ToSet(got) = reached

\* reports.ts: an export is sent only when the ledger tells of it with the number of
\* rows sent, and neither is ever beyond the limit.
ExportsRecorded ==
  /\ \A sent \in delivered :
       /\ sent.seq \in DOMAIN ledger
       /\ ledger[sent.seq] = [status |-> "success", count |-> sent.count]
  /\ \A n \in DOMAIN ledger : ledger[n].count # None => ledger[n].count <= ExportRowLimit
=============================================================================
