------------------------------ MODULE SqliteOpen ------------------------------
(***************************************************************************)
(* SqliteStore::open on a database file that outlives the process.  Every  *)
(* open runs both migration scripts and the retention-stamp step.  None of *)
(* them is in a transaction, so each SQL statement commits by itself and a *)
(* crash may fall between any two.  Between opens the store deletes,       *)
(* restores and purges records; the file holds one vault, as a desktop     *)
(* vault does.                                                             *)
(***************************************************************************)
EXTENDS Naturals

CONSTANTS
  Ids,          \* record ids of the vault
  NoTable,      \* a table the file does not have
  NoStamp,      \* SQL NULL in tombstoned_at
  MaxRevision,  \* bound: writes to one record
  MaxClock      \* bound: ticks of the epoch clock

Row == [revision : Nat, dead : BOOLEAN, stamp : Nat \cup {NoStamp}]

ASSUME SqliteOpenAssumption ==
  /\ NoTable \notin [Ids -> Row]
  /\ NoStamp \notin Nat
  /\ MaxRevision \in Nat
  /\ MaxClock \in Nat

VARIABLES
  records,    \* the table records: a row for every id, revision 0 where SQL has none
  scoped,     \* the table records_scoped, or NoTable
  hasStamp,   \* records has the column tombstoned_at
  step,       \* "closed", the statement open runs next, "open" or "failed"
  committed,  \* what every acknowledged operation left: revision, dead, deletedAt
  now         \* the epoch clock

vars == <<records, scoped, hasStamp, step, committed, now>>

NoRow == [revision |-> 0, dead |-> FALSE, stamp |-> NoStamp]

Empty == [id \in Ids |-> NoRow]

Present(row) == row.revision > 0

Statements == {"create records", "create scoped", "copy", "drop", "rename",
               "add column", "backfill"}

-----------------------------------------------------------------------------
(* The statements of open, in order.                                       *)

OpenStart ==
  /\ step = "closed"
  /\ step' = "create records"
  /\ UNCHANGED <<records, scoped, hasStamp, committed, now>>

\* Mutant: the table is created whether or not it exists.
CreateRecordsAnew ==
  /\ step = "create records"
  /\ step' = "create scoped"
  /\ records' = Empty
  /\ UNCHANGED <<scoped, hasStamp, committed, now>>

\* 0001: CREATE TABLE IF NOT EXISTS records, which has no tombstoned_at.
CreateRecords ==
  /\ step = "create records"
  /\ step' = "create scoped"
  /\ records' = IF records = NoTable THEN Empty ELSE records
  /\ UNCHANGED <<scoped, hasStamp, committed, now>>

\* 0002: CREATE TABLE IF NOT EXISTS records_scoped.
CreateScoped ==
  /\ step = "create scoped"
  /\ step' = "copy"
  /\ scoped' = IF scoped = NoTable THEN Empty ELSE scoped
  /\ UNCHANGED <<records, hasStamp, committed, now>>

\* Mutant: the copy takes the live rows only.
CopiedLive(row) == IF row.dead THEN NoRow
                   ELSE [revision |-> row.revision, dead |-> row.dead, stamp |-> NoStamp]

\* The column list of the copy does not name tombstoned_at.
Copied(row) == [revision |-> row.revision, dead |-> row.dead, stamp |-> NoStamp]

\* 0002: INSERT INTO records_scoped SELECT ... FROM records.  A row both
\* tables hold breaks the primary key: the statement copies nothing and open
\* answers StoreUnavailable.
CopyRows ==
  /\ step = "copy"
  /\ IF \E id \in Ids : Present(records[id]) /\ Present(scoped[id])
     THEN /\ step' = "failed"
          /\ UNCHANGED scoped
     ELSE /\ step' = "drop"
          /\ scoped' = [id \in Ids |-> IF Present(records[id]) THEN Copied(records[id])
                                       ELSE scoped[id]]
  /\ UNCHANGED <<records, hasStamp, committed, now>>

\* 0002: DROP TABLE records.
DropRecords ==
  /\ step = "drop"
  /\ step' = "rename"
  /\ records' = NoTable
  /\ hasStamp' = FALSE
  /\ UNCHANGED <<scoped, committed, now>>

\* Mutant: the rows are copied once more and the second table stays.
RenameLeavesCopy ==
  /\ step = "rename"
  /\ step' = "add column"
  /\ records' = scoped
  /\ UNCHANGED <<scoped, hasStamp, committed, now>>

\* 0002: ALTER TABLE records_scoped RENAME TO records.
RenameScoped ==
  /\ step = "rename"
  /\ step' = IF hasStamp THEN "open" ELSE "add column"
  /\ records' = scoped
  /\ scoped' = NoTable
  /\ UNCHANGED <<hasStamp, committed, now>>

\* The ensure step: the column is missing, every row gets a NULL.
AddColumn ==
  /\ step = "add column"
  /\ step' = "backfill"
  /\ hasStamp' = TRUE
  /\ UNCHANGED <<records, scoped, committed, now>>

\* Mutant: the backfill starts the retention window at the epoch's origin.
BackfilledZero(row, epoch) ==
  IF row.dead /\ row.stamp = NoStamp THEN [revision |-> row.revision, dead |-> TRUE, stamp |-> 0]
  ELSE row

Backfilled(row, epoch) ==
  IF row.dead /\ row.stamp = NoStamp THEN [revision |-> row.revision, dead |-> TRUE, stamp |-> epoch]
  ELSE row

Backfill ==
  /\ step = "backfill"
  /\ step' = "open"
  /\ records' = [id \in Ids |-> Backfilled(records[id], now)]
  /\ UNCHANGED <<scoped, hasStamp, committed, now>>

-----------------------------------------------------------------------------
(* The store in use.  Each operation is one transaction, and synchronous = *)
(* FULL makes it durable before it is acknowledged.                        *)

\* put of a live record: a create, an edit or a restore.
PutLive(id) ==
  /\ step = "open"
  /\ records[id].revision < MaxRevision
  /\ records' = [records EXCEPT ![id] =
                   [revision |-> records[id].revision + 1, dead |-> FALSE, stamp |-> NoStamp]]
  /\ committed' = [committed EXCEPT ![id] =
                     [revision |-> records[id].revision + 1, dead |-> FALSE, stamp |-> NoStamp]]
  /\ UNCHANGED <<scoped, hasStamp, step, now>>

Tombstone(id) ==
  /\ step = "open"
  /\ Present(records[id])
  /\ records[id].revision < MaxRevision
  /\ records' = [records EXCEPT ![id] =
                   [revision |-> records[id].revision + 1, dead |-> TRUE, stamp |-> now]]
  /\ committed' = [committed EXCEPT ![id] =
                     [revision |-> records[id].revision + 1, dead |-> TRUE, stamp |-> now]]
  /\ UNCHANGED <<scoped, hasStamp, step, now>>

Expired(row, cutoff) == row.dead /\ row.stamp # NoStamp /\ row.stamp <= cutoff

PurgeTombstonedBefore(cutoff) ==
  /\ step = "open"
  /\ cutoff <= now
  /\ records' = [id \in Ids |-> IF Expired(records[id], cutoff) THEN NoRow ELSE records[id]]
  /\ committed' = [id \in Ids |-> IF Expired(records[id], cutoff) THEN NoRow ELSE committed[id]]
  /\ UNCHANGED <<scoped, hasStamp, step, now>>

\* The process exits or dies: between two operations, between two statements
\* of open, or after open has reported its error.
Stop ==
  /\ step # "closed"
  /\ step' = "closed"
  /\ UNCHANGED <<records, scoped, hasStamp, committed, now>>

Tick ==
  /\ now < MaxClock
  /\ now' = now + 1
  /\ UNCHANGED <<records, scoped, hasStamp, step, committed>>

-----------------------------------------------------------------------------

\* A path no database exists at yet.
Init ==
  /\ records = NoTable
  /\ scoped = NoTable
  /\ hasStamp = FALSE
  /\ step = "closed"
  /\ committed = Empty
  /\ now = 0

Next ==
  \/ OpenStart
  \/ CreateRecords
  \/ CreateScoped
  \/ CopyRows
  \/ DropRecords
  \/ RenameScoped
  \/ AddColumn
  \/ Backfill
  \/ \E id \in Ids : PutLive(id)
  \/ \E id \in Ids : Tombstone(id)
  \/ \E cutoff \in 0 .. MaxClock : PurgeTombstonedBefore(cutoff)
  \/ Stop
  \/ Tick

Spec == Init /\ [][Next]_vars

-----------------------------------------------------------------------------

\* Which tables the file has while open is at a statement.
TablesFit ==
  /\ step \in {"create scoped", "copy", "drop", "add column", "backfill", "open"} =>
       records # NoTable
  /\ step \in {"copy", "drop", "rename"} => scoped # NoTable
  /\ step \in {"add column", "backfill", "open"} => scoped = NoTable
  /\ step \in {"rename", "add column"} => ~hasStamp
  /\ step \in {"backfill", "open"} => hasStamp

\* Type invariant: the tables are absent or hold one row per id, and every
\* statement of open, after any crash, finds the tables it names.
TypeOK ==
  /\ TablesFit
  /\ records \in [Ids -> Row] \cup {NoTable}
  /\ scoped \in [Ids -> Row] \cup {NoTable}
  /\ hasStamp \in BOOLEAN
  /\ step \in Statements \cup {"closed", "open", "failed"}
  /\ committed \in [Ids -> Row]
  /\ now \in Nat

\* row carries what was acknowledged for id, its stamp apart.
Holds(row, id) == row.revision = committed[id].revision /\ row.dead = committed[id].dead

\* Every acknowledged record is in one of the two tables, in its acknowledged
\* state, wherever a crash cuts the migrations.
NothingLost ==
  \A id \in Ids : Present(committed[id]) =>
    \/ records # NoTable /\ Holds(records[id], id)
    \/ scoped # NoTable /\ Holds(scoped[id], id)

\* An open store shows exactly the acknowledged records: no crash history
\* brings a purged row back from a leftover table or hides a row in it.
OpenShowsCommitted ==
  step = "open" => records # NoTable /\ \A id \in Ids : Holds(records[id], id)

\* "Which never purges earlier than the operator expects": the stamp a
\* tombstone shows is never before its deletion, whatever openings and crashes
\* lie between, so the purge never takes a row younger than the window.
NeverPurgedEarly ==
  step = "open" =>
    \A id \in Ids : records[id].dead =>
      /\ records[id].stamp # NoStamp
      /\ records[id].stamp >= committed[id].stamp

-----------------------------------------------------------------------------
(* The inductive invariant behind these.                                   *)

\* A row of a table is what was acknowledged; a row SQL does not have is
\* nothing at all.
TableAgrees(table) ==
  table # NoTable =>
    \A id \in Ids : IF Present(table[id]) THEN Holds(table[id], id) ELSE table[id] = NoRow

\* From the copy on, one table holds every acknowledged row by itself.
CopyComplete ==
  /\ step \in {"drop", "rename"} => \A id \in Ids : Holds(scoped[id], id)
  /\ step \in {"add column", "backfill", "open"} => \A id \in Ids : Holds(records[id], id)

\* Stamps come from deletions and from the backfill, and neither is earlier
\* than the deletion; the copy never carries one.
StampsFit ==
  /\ scoped # NoTable => \A id \in Ids : scoped[id].stamp = NoStamp
  /\ step \in {"add column", "backfill"} => \A id \in Ids : records[id].stamp = NoStamp
  /\ \A id \in Ids : committed[id].dead =>
       committed[id].stamp \in Nat /\ committed[id].stamp <= now

CommittedClean == \A id \in Ids : ~Present(committed[id]) => committed[id] = NoRow

OpenInv ==
  /\ TypeOK
  /\ NothingLost
  /\ NeverPurgedEarly
  /\ TableAgrees(records)
  /\ TableAgrees(scoped)
  /\ CopyComplete
  /\ StampsFit
  /\ CommittedClean

\* What "the deletion stamp of one record" and "idempotent: safe to call on
\* every startup" promise: opening the store does not change the stamp of a
\* deletion.  Every open drops the column with the table and stamps again.
OpenKeepsStamps ==
  step = "open" => \A id \in Ids : records[id].dead => records[id].stamp = committed[id].stamp

\* What "idempotent: safe to call on every startup" promises of a start after
\* a crash: open succeeds.  After a crash between the copy and the drop both
\* tables hold the rows, and every later open fails on the copy.
OpenNeverFails == step # "failed"

=============================================================================
