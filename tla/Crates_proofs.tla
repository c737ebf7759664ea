----------------------------- MODULE Crates_proofs -----------------------------
(* What the library crates guarantee, for any records, crashes, settings and environments:   *)
(* SqliteStore::open, and what the configuration crate answers.                              *)
EXTENDS SqliteOpen, Kernel_proofs

-----------------------------------------------------------------------------
(* Opening a database file.                                                *)

\* What the proofs use of the constants.
LEMMA Constants == NoStamp \notin Nat /\ MaxRevision \in Nat /\ MaxClock \in Nat
  BY SqliteOpenAssumption

\* A table the file has is not NoTable.
LEMMA TableIsSome == ASSUME NEW table \in [Ids -> Row] PROVE table # NoTable
  BY SqliteOpenAssumption

\* An empty table is a table without rows.
LEMMA EmptyIsTable ==
  /\ Empty \in [Ids -> Row] /\ Empty # NoTable
  /\ \A id \in Ids : Empty[id] = NoRow /\ ~Present(Empty[id]) /\ Empty[id].stamp = NoStamp
<1>1. Empty \in [Ids -> Row]
  BY DEF Empty, NoRow, Row
<1>2. Empty # NoTable
  BY <1>1, TableIsSome
<1>3. \A id \in Ids : Empty[id] = NoRow
  BY DEF Empty
<1>4. ~Present(NoRow) /\ NoRow.stamp = NoStamp
  BY DEF NoRow, Present
<1> QED BY <1>1, <1>2, <1>3, <1>4

\* The backfill changes nothing of a row but a missing stamp.
LEMMA BackfilledIsRow ==
  ASSUME NEW row \in Row, NEW epoch \in Nat
  PROVE  /\ Backfilled(row, epoch) \in Row
         /\ Backfilled(row, epoch).revision = row.revision
         /\ Backfilled(row, epoch).dead = row.dead
         /\ row.dead /\ row.stamp = NoStamp => Backfilled(row, epoch).stamp = epoch
         /\ ~row.dead => Backfilled(row, epoch) = row
  BY DEF Backfilled, Row

\* A new path satisfies the invariant.
LEMMA OpenInitInv == Init => OpenInv
<1> SUFFICES ASSUME Init PROVE OpenInv
  OBVIOUS
<1>1. TypeOK
  BY EmptyIsTable DEF Init, TypeOK, TablesFit
<1>2. NothingLost /\ CommittedClean
  BY EmptyIsTable DEF Init, NothingLost, CommittedClean
<1>3. StampsFit
  BY EmptyIsTable DEF Init, StampsFit, NoRow
<1> QED BY <1>1, <1>2, <1>3 DEF Init, OpenInv, NeverPurgedEarly, TableAgrees, CopyComplete

\* What the invariant says of one acknowledged record that no table shows: it
\* is nothing at all.
LEMMA UnseenIsClean ==
  ASSUME OpenInv, NEW id \in Ids,
         records # NoTable => ~Present(records[id]),
         scoped # NoTable => ~Present(scoped[id])
  PROVE  committed[id] = NoRow
<1>1. ~Present(committed[id])
  BY DEF OpenInv, NothingLost, Holds, Present, TypeOK, Row
<1> QED BY <1>1 DEF OpenInv, CommittedClean

-----------------------------------------------------------------------------
(* One lemma for every statement of open.                                  *)

\* Starting open touches no table.
LEMMA OpenStartInv ==
  ASSUME OpenInv, OpenStart PROVE OpenInv'
<1>1. TypeOK'
  BY DEF OpenStart, OpenInv, TypeOK, TablesFit, Statements
<1>2. NothingLost'
  BY DEF OpenStart, OpenInv, NothingLost, Holds
<1>3. NeverPurgedEarly'
  BY DEF OpenStart, OpenInv, NeverPurgedEarly
<1>4. TableAgrees(records)'
  BY DEF OpenStart, OpenInv, TableAgrees, Holds
<1>5. TableAgrees(scoped)'
  BY DEF OpenStart, OpenInv, TableAgrees, Holds
<1>6. CopyComplete'
  BY DEF OpenStart, OpenInv, CopyComplete
<1>7. StampsFit'
  BY DEF OpenStart, OpenInv, StampsFit
<1>8. CommittedClean'
  BY DEF OpenStart, OpenInv, CommittedClean
<1> QED BY <1>1, <1>2, <1>3, <1>4, <1>5, <1>6, <1>7, <1>8 DEF OpenInv

\* A stop or a crash leaves the tables as they are.
LEMMA StopInv ==
  ASSUME OpenInv, Stop PROVE OpenInv'
<1>1. TypeOK'
  BY DEF Stop, OpenInv, TypeOK, TablesFit
<1>2. NothingLost'
  BY DEF Stop, OpenInv, NothingLost, Holds
<1>3. NeverPurgedEarly'
  BY DEF Stop, OpenInv, NeverPurgedEarly
<1>4. TableAgrees(records)'
  BY DEF Stop, OpenInv, TableAgrees, Holds
<1>5. TableAgrees(scoped)'
  BY DEF Stop, OpenInv, TableAgrees, Holds
<1>6. CopyComplete'
  BY DEF Stop, OpenInv, CopyComplete
<1>7. StampsFit'
  BY DEF Stop, OpenInv, StampsFit
<1>8. CommittedClean'
  BY DEF Stop, OpenInv, CommittedClean
<1> QED BY <1>1, <1>2, <1>3, <1>4, <1>5, <1>6, <1>7, <1>8 DEF OpenInv

\* So does the clock, and no stamp is later than it.
LEMMA TickInv ==
  ASSUME OpenInv, Tick PROVE OpenInv'
<1>0. /\ UNCHANGED <<records, scoped, hasStamp, step, committed>>
      /\ now \in Nat /\ now' \in Nat /\ now <= now'
  BY Constants DEF Tick, OpenInv, TypeOK
<1>1. TypeOK'
  BY <1>0 DEF OpenInv, TypeOK, TablesFit
<1>2. NothingLost'
  BY DEF Tick, OpenInv, NothingLost, Holds
<1>3. NeverPurgedEarly'
  BY DEF Tick, OpenInv, NeverPurgedEarly
<1>4. TableAgrees(records)'
  BY DEF Tick, OpenInv, TableAgrees, Holds
<1>5. TableAgrees(scoped)'
  BY DEF Tick, OpenInv, TableAgrees, Holds
<1>6. CopyComplete'
  BY DEF Tick, OpenInv, CopyComplete, Holds
<1>7. StampsFit'
  <2> SUFFICES ASSUME NEW id \in Ids, committed[id].dead
               PROVE  committed[id].stamp \in Nat /\ committed[id].stamp <= now'
    BY <1>0 DEF OpenInv, StampsFit
  <2>1. committed[id].stamp \in Nat /\ committed[id].stamp <= now
    BY DEF OpenInv, StampsFit
  <2> QED BY <1>0, <2>1
<1>8. CommittedClean'
  BY DEF Tick, OpenInv, CommittedClean
<1> QED BY <1>1, <1>2, <1>3, <1>4, <1>5, <1>6, <1>7, <1>8 DEF OpenInv

\* Migration 0001 makes an empty table only where there is none.
LEMMA CreateRecordsInv ==
  ASSUME OpenInv, CreateRecords PROVE OpenInv'
<1>1. TypeOK'
  BY EmptyIsTable DEF CreateRecords, OpenInv, TypeOK, TablesFit, Statements
<1>2. NothingLost'
  BY DEF CreateRecords, OpenInv, NothingLost, Holds
<1>3. NeverPurgedEarly'
  BY DEF CreateRecords, OpenInv, NeverPurgedEarly
<1>4. TableAgrees(records)'
  BY EmptyIsTable DEF CreateRecords, OpenInv, TableAgrees, Holds
<1>5. TableAgrees(scoped)'
  BY DEF CreateRecords, OpenInv, TableAgrees, Holds
<1>6. CopyComplete'
  BY DEF CreateRecords, OpenInv, CopyComplete
<1>7. StampsFit'
  BY DEF CreateRecords, OpenInv, StampsFit
<1>8. CommittedClean'
  BY DEF CreateRecords, OpenInv, CommittedClean
<1> QED BY <1>1, <1>2, <1>3, <1>4, <1>5, <1>6, <1>7, <1>8 DEF OpenInv

\* So does migration 0002 for the table it fills.
LEMMA CreateScopedInv ==
  ASSUME OpenInv, CreateScoped PROVE OpenInv'
<1>1. TypeOK'
  BY EmptyIsTable DEF CreateScoped, OpenInv, TypeOK, TablesFit, Statements
<1>2. NothingLost'
  BY DEF CreateScoped, OpenInv, NothingLost, Holds
<1>3. NeverPurgedEarly'
  BY DEF CreateScoped, OpenInv, NeverPurgedEarly
<1>4. TableAgrees(records)'
  BY DEF CreateScoped, OpenInv, TableAgrees, Holds
<1>5. TableAgrees(scoped)'
  BY EmptyIsTable DEF CreateScoped, OpenInv, TableAgrees, Holds
<1>6. CopyComplete'
  BY DEF CreateScoped, OpenInv, CopyComplete
<1>7. StampsFit'
  BY DEF CreateScoped, OpenInv, StampsFit, Empty, NoRow
<1>8. CommittedClean'
  BY DEF CreateScoped, OpenInv, CommittedClean
<1> QED BY <1>1, <1>2, <1>3, <1>4, <1>5, <1>6, <1>7, <1>8 DEF OpenInv

\* The copy leaves one table with every acknowledged row, or fails and leaves
\* both as they were.
LEMMA CopyRowsInv == ASSUME OpenInv, CopyRows PROVE OpenInv'
<1> DEFINE clash == \E id \in Ids : Present(records[id]) /\ Present(scoped[id])
<1>1. /\ records # NoTable /\ scoped # NoTable /\ step = "copy"
      /\ records \in [Ids -> Row] /\ scoped \in [Ids -> Row]
      /\ UNCHANGED <<records, hasStamp, committed, now>>
  BY DEF CopyRows, OpenInv, TypeOK, TablesFit
<1>2. CASE clash
  <2>1. step' = "failed" /\ UNCHANGED scoped
    BY <1>2 DEF CopyRows
  <2>2. TypeOK' /\ NeverPurgedEarly' /\ CopyComplete'
    BY <1>1, <2>1
       DEF OpenInv, TypeOK, TablesFit, NeverPurgedEarly, CopyComplete, Statements
  <2>3. NothingLost' /\ CommittedClean'
    BY <1>1, <2>1 DEF OpenInv, NothingLost, CommittedClean, Holds, Present
  <2>4. TableAgrees(records)' /\ TableAgrees(scoped)' /\ StampsFit'
    BY <1>1, <2>1 DEF OpenInv, TableAgrees, StampsFit, Holds, Present
  <2> QED BY <2>2, <2>3, <2>4 DEF OpenInv
<1>3. CASE ~clash
  <2>1. /\ step' = "drop"
        /\ scoped' = [id \in Ids |-> IF Present(records[id]) THEN Copied(records[id])
                                     ELSE scoped[id]]
    BY <1>3 DEF CopyRows
  <2>2. scoped' \in [Ids -> Row] /\ scoped' # NoTable
    BY <1>1, <2>1, SqliteOpenAssumption DEF Copied, Row
  <2>3. \A id \in Ids : Holds(scoped[id], id)' /\ scoped'[id].stamp = NoStamp
    <3> SUFFICES ASSUME NEW id \in Ids
                 PROVE  Holds(scoped[id], id)' /\ scoped'[id].stamp = NoStamp
      OBVIOUS
    <3>1. CASE Present(records[id])
      BY <1>1, <2>1, <3>1 DEF Copied, Holds, OpenInv, TableAgrees
    <3>2. CASE ~Present(records[id]) /\ Present(scoped[id])
      BY <1>1, <2>1, <3>2 DEF Holds, OpenInv, TableAgrees, StampsFit
    <3>3. CASE ~Present(records[id]) /\ ~Present(scoped[id])
      <4>1. committed[id] = NoRow /\ scoped[id] = NoRow
        BY <1>1, <3>3, UnseenIsClean DEF OpenInv, TableAgrees
      <4>2. scoped'[id] = NoRow /\ committed'[id] = NoRow
        BY <1>1, <2>1, <3>3, <4>1
      <4> QED BY <4>2 DEF Holds, NoRow
    <3> QED BY <3>1, <3>2, <3>3
  <2>4. TypeOK' /\ NeverPurgedEarly' /\ CommittedClean'
    BY <1>1, <2>1, <2>2 DEF OpenInv, TypeOK, TablesFit, NeverPurgedEarly, CommittedClean,
                            Statements, Present
  <2>5. NothingLost'
    BY <2>2, <2>3 DEF NothingLost
  <2>6. TableAgrees(records)' /\ CopyComplete' /\ StampsFit'
    BY <1>1, <2>1, <2>2, <2>3
       DEF OpenInv, TableAgrees, CopyComplete, StampsFit, Holds, Present
  <2>7. TableAgrees(scoped)'
    <3> SUFFICES ASSUME NEW id \in Ids, ~Present(scoped'[id])
                 PROVE  scoped'[id] = NoRow
      BY <2>3 DEF TableAgrees, Present, Holds
    <3>1. ~Present(records[id]) /\ scoped'[id] = scoped[id]
      BY <1>1, <2>1 DEF Copied, Present
    <3> QED BY <1>1, <3>1 DEF OpenInv, TableAgrees
  <2> QED BY <2>4, <2>5, <2>6, <2>7 DEF OpenInv
<1> QED BY <1>2, <1>3

\* Dropping the old table loses nothing: the copy is complete.
LEMMA DropRecordsInv ==
  ASSUME OpenInv, DropRecords PROVE OpenInv'
<1>1. TypeOK'
  BY DEF DropRecords, OpenInv, TypeOK, TablesFit, Statements
<1>2. NothingLost'
  BY DEF DropRecords, OpenInv, TypeOK, TablesFit, NothingLost, CopyComplete, Holds
<1>3. NeverPurgedEarly'
  BY DEF DropRecords, OpenInv, NeverPurgedEarly
<1>4. TableAgrees(records)'
  BY DEF DropRecords, OpenInv, TableAgrees
<1>5. TableAgrees(scoped)'
  BY DEF DropRecords, OpenInv, TableAgrees, Holds
<1>6. CopyComplete'
  BY DEF DropRecords, OpenInv, CopyComplete, Holds
<1>7. StampsFit'
  BY DEF DropRecords, OpenInv, StampsFit
<1>8. CommittedClean'
  BY DEF DropRecords, OpenInv, CommittedClean
<1> QED BY <1>1, <1>2, <1>3, <1>4, <1>5, <1>6, <1>7, <1>8 DEF OpenInv

\* The renamed table is the complete copy, and no second table stays.
LEMMA RenameScopedInv ==
  ASSUME OpenInv, RenameScoped PROVE OpenInv'
<1>1. TypeOK'
  BY DEF RenameScoped, OpenInv, TypeOK, TablesFit, Statements
<1>2. NothingLost'
  BY DEF RenameScoped, OpenInv, TypeOK, TablesFit, NothingLost, CopyComplete, Holds
<1>3. NeverPurgedEarly'
  BY DEF RenameScoped, OpenInv, TypeOK, TablesFit, NeverPurgedEarly
<1>4. TableAgrees(records)'
  BY DEF RenameScoped, OpenInv, TableAgrees, Holds
<1>5. TableAgrees(scoped)'
  BY DEF RenameScoped, OpenInv, TableAgrees
<1>6. CopyComplete'
  BY DEF RenameScoped, OpenInv, CopyComplete, Holds
<1>7. StampsFit'
  BY DEF RenameScoped, OpenInv, TypeOK, TablesFit, StampsFit
<1>8. CommittedClean'
  BY DEF RenameScoped, OpenInv, CommittedClean
<1> QED BY <1>1, <1>2, <1>3, <1>4, <1>5, <1>6, <1>7, <1>8 DEF OpenInv

\* The new column changes no row.
LEMMA AddColumnInv ==
  ASSUME OpenInv, AddColumn PROVE OpenInv'
<1>1. TypeOK'
  BY DEF AddColumn, OpenInv, TypeOK, TablesFit, Statements
<1>2. NothingLost'
  BY DEF AddColumn, OpenInv, NothingLost, Holds
<1>3. NeverPurgedEarly'
  BY DEF AddColumn, OpenInv, NeverPurgedEarly
<1>4. TableAgrees(records)'
  BY DEF AddColumn, OpenInv, TableAgrees, Holds
<1>5. TableAgrees(scoped)'
  BY DEF AddColumn, OpenInv, TypeOK, TablesFit, TableAgrees
<1>6. CopyComplete'
  BY DEF AddColumn, OpenInv, CopyComplete, Holds
<1>7. StampsFit'
  BY DEF AddColumn, OpenInv, StampsFit
<1>8. CommittedClean'
  BY DEF AddColumn, OpenInv, CommittedClean
<1> QED BY <1>1, <1>2, <1>3, <1>4, <1>5, <1>6, <1>7, <1>8 DEF OpenInv

\* The backfill stamps with the present, which no deletion is later than.
LEMMA BackfillInv ==
  ASSUME OpenInv, Backfill PROVE OpenInv'
<1>0. /\ records \in [Ids -> Row] /\ now \in Nat
      /\ records' \in [Ids -> Row] /\ records' # NoTable
      /\ \A id \in Ids : /\ records[id] \in Row
                         /\ records'[id] = Backfilled(records[id], now)
  BY BackfilledIsRow, TableIsSome DEF Backfill, OpenInv, TypeOK, TablesFit
<1>1. TypeOK'
  <2>1. step' = "open" /\ scoped' = NoTable /\ hasStamp' \in BOOLEAN /\ hasStamp'
        /\ UNCHANGED <<committed, now>>
    BY DEF Backfill, OpenInv, TypeOK, TablesFit
  <2> QED BY <1>0, <2>1 DEF OpenInv, TypeOK, TablesFit
<1>2. NothingLost'
  BY <1>0, BackfilledIsRow
     DEF Backfill, OpenInv, TablesFit, TypeOK, NothingLost, CopyComplete, Holds, Present
<1>3. NeverPurgedEarly'
  BY SqliteOpenAssumption
     DEF Backfill, Backfilled, OpenInv, TypeOK, NeverPurgedEarly, StampsFit, CopyComplete, Holds
<1>4. TableAgrees(records)'
  <2> SUFFICES ASSUME NEW id \in Ids
               PROVE  IF Present(records'[id]) THEN Holds(records[id], id)' ELSE records'[id] = NoRow
    BY DEF TableAgrees
  <2>1. records # NoTable /\ committed' = committed
    BY DEF Backfill, OpenInv, TypeOK, TablesFit
  <2>2. CASE Present(records[id])
    BY <1>0, <2>1, <2>2, BackfilledIsRow DEF OpenInv, TableAgrees, Holds, Present
  <2>3. CASE ~Present(records[id])
    BY <1>0, <2>1, <2>3, BackfilledIsRow DEF OpenInv, TableAgrees, Present, NoRow
  <2> QED BY <2>2, <2>3
<1>5. TableAgrees(scoped)'
  BY DEF Backfill, OpenInv, TypeOK, TablesFit, TableAgrees
<1>6. CopyComplete'
  BY DEF Backfill, Backfilled, OpenInv, CopyComplete, Holds
<1>7. StampsFit'
  BY DEF Backfill, OpenInv, StampsFit
<1>8. CommittedClean'
  BY DEF Backfill, OpenInv, CommittedClean
<1> QED BY <1>1, <1>2, <1>3, <1>4, <1>5, <1>6, <1>7, <1>8 DEF OpenInv

-----------------------------------------------------------------------------
(* And one for every operation of the open store.                          *)

\* Writing the same row into the open store and the acknowledged state keeps
\* the invariant, when its stamp fits.
LEMMA WriteInv ==
  ASSUME OpenInv, NEW id \in Ids, NEW row \in Row, step = "open", Present(row),
         row.dead => row.stamp \in Nat /\ row.stamp <= now,
         records' = [records EXCEPT ![id] = row],
         committed' = [committed EXCEPT ![id] = row],
         UNCHANGED <<scoped, hasStamp, step, now>>
  PROVE  OpenInv'
<1>1. /\ records \in [Ids -> Row] /\ committed \in [Ids -> Row] /\ now \in Nat
      /\ scoped = NoTable /\ hasStamp
  BY DEF OpenInv, TypeOK, TablesFit
<1>2. /\ records' \in [Ids -> Row] /\ committed' \in [Ids -> Row] /\ records' # NoTable
      /\ records'[id] = row /\ committed'[id] = row
      /\ \A other \in Ids \ {id} : /\ records'[other] = records[other]
                                   /\ committed'[other] = committed[other]
  BY <1>1, TableIsSome
<1>3. TypeOK'
  BY <1>1, <1>2 DEF OpenInv, TypeOK, TablesFit
<1>4. \A other \in Ids : Holds(records[other], other)'
  <2>1. \A other \in Ids : Holds(records[other], other)
    BY DEF OpenInv, CopyComplete
  <2> QED BY <1>2, <2>1 DEF Holds
<1>5. NothingLost' /\ CopyComplete'
  BY <1>2, <1>4 DEF NothingLost, CopyComplete
<1>6. NeverPurgedEarly'
  <2>1. row.dead => row.stamp # NoStamp /\ row.stamp >= row.stamp
    BY Constants
  <2> QED BY <1>2, <2>1 DEF OpenInv, NeverPurgedEarly
<1>7. CommittedClean'
  BY <1>2 DEF OpenInv, CommittedClean, Present
<1>8. TableAgrees(records)' /\ TableAgrees(scoped)'
  <2>1. TableAgrees(scoped)'
    BY <1>1 DEF TableAgrees
  <2>2. \A other \in Ids : ~Present(records'[other]) => records'[other] = NoRow
    BY <1>1, <1>2, TableIsSome DEF OpenInv, TableAgrees
  <2> QED BY <1>4, <2>1, <2>2 DEF TableAgrees
<1>9. StampsFit'
  BY <1>1, <1>2 DEF OpenInv, StampsFit
<1> QED BY <1>3, <1>5, <1>6, <1>7, <1>8, <1>9 DEF OpenInv

\* A live write is such a write, without a stamp.
LEMMA PutLiveInv == ASSUME OpenInv, NEW id \in Ids, PutLive(id) PROVE OpenInv'
<1> DEFINE row == [revision |-> records[id].revision + 1, dead |-> FALSE, stamp |-> NoStamp]
<1>1. records[id] \in Row
  BY DEF PutLive, OpenInv, TypeOK, TablesFit
<1>2. row \in Row /\ Present(row) /\ ~row.dead
  BY <1>1 DEF Row, Present
<1> HIDE DEF row
<1>3. /\ step = "open" /\ UNCHANGED <<scoped, hasStamp, step, now>>
      /\ records' = [records EXCEPT ![id] = row]
      /\ committed' = [committed EXCEPT ![id] = row]
  BY DEF PutLive, row
<1> QED BY <1>2, <1>3, WriteInv

\* A deletion is one, with the present as its stamp.
LEMMA TombstoneInv == ASSUME OpenInv, NEW id \in Ids, Tombstone(id) PROVE OpenInv'
<1> DEFINE row == [revision |-> records[id].revision + 1, dead |-> TRUE, stamp |-> now]
<1>1. records[id] \in Row /\ now \in Nat
  BY DEF Tombstone, OpenInv, TypeOK, TablesFit
<1>2. row \in Row /\ Present(row) /\ row.stamp \in Nat /\ row.stamp <= now
  BY <1>1 DEF Row, Present
<1> HIDE DEF row
<1>3. /\ step = "open" /\ UNCHANGED <<scoped, hasStamp, step, now>>
      /\ records' = [records EXCEPT ![id] = row]
      /\ committed' = [committed EXCEPT ![id] = row]
  BY DEF Tombstone, row
<1> QED BY <1>2, <1>3, WriteInv

\* The purge takes the same rows from the store and from what was acknowledged.
LEMMA PurgeInv ==
  ASSUME OpenInv, NEW cutoff \in 0 .. MaxClock, PurgeTombstonedBefore(cutoff)
  PROVE  OpenInv'
<1>1. /\ records \in [Ids -> Row] /\ committed \in [Ids -> Row] /\ now \in Nat
      /\ scoped = NoTable /\ hasStamp /\ step = "open"
      /\ UNCHANGED <<scoped, hasStamp, step, now>>
  BY DEF PurgeTombstonedBefore, OpenInv, TypeOK, TablesFit
<1>2. NoRow \in Row /\ ~Present(NoRow) /\ ~NoRow.dead
  BY DEF NoRow, Row, Present
<1>3. /\ records' \in [Ids -> Row] /\ committed' \in [Ids -> Row] /\ records' # NoTable
      /\ \A id \in Ids : \/ records'[id] = NoRow /\ committed'[id] = NoRow
                         \/ records'[id] = records[id] /\ committed'[id] = committed[id]
  BY <1>1, <1>2, TableIsSome DEF PurgeTombstonedBefore
<1>4. TypeOK'
  BY <1>1, <1>3 DEF OpenInv, TypeOK, TablesFit
<1>5. \A id \in Ids : Holds(records[id], id)'
  BY <1>1, <1>3 DEF OpenInv, CopyComplete, Holds
<1>6. NothingLost' /\ CopyComplete'
  BY <1>1, <1>3, <1>5 DEF NothingLost, CopyComplete
<1>7. NeverPurgedEarly' /\ CommittedClean'
  BY <1>1, <1>2, <1>3 DEF OpenInv, NeverPurgedEarly, CommittedClean
<1>8. TableAgrees(records)' /\ TableAgrees(scoped)'
  <2>1. TableAgrees(scoped)'
    BY <1>1 DEF TableAgrees
  <2>2. \A id \in Ids : ~Present(records'[id]) => records'[id] = NoRow
    BY <1>1, <1>3, TableIsSome DEF OpenInv, TableAgrees
  <2> QED BY <1>5, <2>1, <2>2 DEF TableAgrees
<1>9. StampsFit'
  BY <1>1, <1>2, <1>3 DEF OpenInv, StampsFit
<1> QED BY <1>4, <1>6, <1>7, <1>8, <1>9 DEF OpenInv

\* Every step keeps the invariant.
LEMMA OpenNextInv == OpenInv /\ [Next]_vars => OpenInv'
<1> SUFFICES ASSUME OpenInv, [Next]_vars PROVE OpenInv'
  OBVIOUS
<1>1. CASE UNCHANGED vars
  BY <1>1
     DEF vars, OpenInv, TypeOK, TablesFit, NothingLost, NeverPurgedEarly, TableAgrees,
              CopyComplete, StampsFit, CommittedClean, Present, Holds
<1>2. CASE OpenStart BY <1>2, OpenStartInv
<1>3. CASE CreateRecords BY <1>3, CreateRecordsInv
<1>4. CASE CreateScoped BY <1>4, CreateScopedInv
<1>5. CASE CopyRows BY <1>5, CopyRowsInv
<1>6. CASE DropRecords BY <1>6, DropRecordsInv
<1>7. CASE RenameScoped BY <1>7, RenameScopedInv
<1>8. CASE AddColumn BY <1>8, AddColumnInv
<1>9. CASE Backfill BY <1>9, BackfillInv
<1>10. CASE \E id \in Ids : PutLive(id) BY <1>10, PutLiveInv
<1>11. CASE \E id \in Ids : Tombstone(id) BY <1>11, TombstoneInv
<1>12. CASE \E cutoff \in 0 .. MaxClock : PurgeTombstonedBefore(cutoff) BY <1>12, PurgeInv
<1>13. CASE Stop BY <1>13, StopInv
<1>14. CASE Tick BY <1>14, TickInv
<1> QED BY <1>1, <1>2, <1>3, <1>4, <1>5, <1>6, <1>7, <1>8, <1>9, <1>10, <1>11, <1>12,
           <1>13, <1>14 DEF Next

-----------------------------------------------------------------------------
(* The theorems.                                                           *)

\* The invariant holds in every state, wherever crashes cut the migrations.
THEOREM OpenInvariant == Spec => []OpenInv
<1>1. Init => OpenInv
  BY OpenInitInv
<1>2. OpenInv /\ [Next]_vars => OpenInv'
  BY OpenNextInv
<1> QED BY <1>1, <1>2, PTL DEF Spec

\* Every acknowledged record is in one of the two tables at every moment.
THEOREM NothingIsLost == Spec => []NothingLost
<1>1. OpenInv => NothingLost
  BY DEF OpenInv
<1> QED BY <1>1, OpenInvariant, PTL

\* An open store shows exactly the acknowledged records.
THEOREM OpenStoreShowsCommitted == Spec => []OpenShowsCommitted
<1>1. OpenInv => OpenShowsCommitted
  BY DEF OpenInv, TypeOK, TablesFit, CopyComplete, OpenShowsCommitted
<1> QED BY <1>1, OpenInvariant, PTL

\* No stamp of an open store is earlier than the deletion it stands for, so
\* the retention window is never cut short.
THEOREM StampsNeverEarly == Spec => []NeverPurgedEarly
<1>1. OpenInv => NeverPurgedEarly
  BY DEF OpenInv
<1> QED BY <1>1, OpenInvariant, PTL

\* Every statement of open finds the tables it names, after any crash.
THEOREM OpenTypeCorrect == Spec => []TypeOK
<1>1. OpenInv => TypeOK
  BY DEF OpenInv
<1> QED BY <1>1, OpenInvariant, PTL

-----------------------------------------------------------------------------
(* Settings: what loads is what was written.                               *)

NumberKinds == {"Integer", "DurationSeconds", "Bytes"}

IsSetting(s) ==
  /\ s.mode \in {"Required", "Default"}
  /\ s.mode = "Default" => \E v : s.default = Some(v) /\ (v.kind \in NumberKinds => v.n \in Int)
  /\ s.kind \in NumberKinds => s.range[1] \in Int /\ s.range[2] \in Int
  /\ s.kind = "Path" => s.longest = Some(256) /\ s.pattern = "path"

\* A number with its bounds and its default is a setting.
LEMMA NumberIsSetting ==
  ASSUME NEW id, NEW kind \in NumberKinds, NEW least \in Int, NEW most \in Int, NEW default \in Int
  PROVE  IsSetting(Number(id, kind, least, most, default))
<1>1. PICK s, v : s = Number(id, kind, least, most, default) /\ v = [kind |-> kind, n |-> default]
  OBVIOUS
<1>2. s.mode = "Default" /\ s.default = Some(v) /\ v.n \in Int /\ s.kind = kind /\ s.range = <<least, most>>
  BY <1>1 DEF Number
<1>3. kind # "Path" /\ s.range[1] \in Int /\ s.range[2] \in Int
  BY <1>2 DEF NumberKinds
<1>4. IsSetting(s)
  BY <1>2, <1>3 DEF IsSetting
<1> QED BY <1>1, <1>4

\* A secret, a name, a path and a list are settings, which have no default.
LEMMA RequiredIsSetting ==
  ASSUME NEW id
  PROVE  /\ IsSetting(Secret(id)) /\ IsSetting(DatabaseName(id)) /\ IsSetting(ConfigPath(id))
         /\ \A least, most : IsSetting(StringList(id, least, most))
<1>1. IsSetting(Secret(id)) /\ IsSetting(DatabaseName(id)) /\ IsSetting(ConfigPath(id))
  BY DEF IsSetting, Secret, DatabaseName, ConfigPath, Required, Some, None, NumberKinds
<1>2. \A least, most : IsSetting(StringList(id, least, most))
  BY DEF IsSetting, StringList, Required, Some, None, NumberKinds
<1> QED BY <1>1, <1>2

\* A choice is one, with its default.
LEMMA ChoiceIsSetting ==
  ASSUME NEW id, NEW allowed, NEW default, NEW length
  PROVE  IsSetting(Choice(id, allowed, default, length))
<1>1. PICK s, v : s = Choice(id, allowed, default, length) /\ v = [kind |-> "String", text |-> Named(default, length)]
  OBVIOUS
<1>2. s.mode = "Default" /\ s.default = Some(v) /\ v.kind = "String" /\ s.kind = "String"
  BY <1>1 DEF Choice
<1>3. IsSetting(s)
  BY <1>2 DEF IsSetting, NumberKinds
<1> QED BY <1>1, <1>3

\* A name with a default is one.
LEMMA NamedIsSetting ==
  ASSUME NEW id, NEW v, v.kind = "String"
  PROVE  IsSetting(Defaulted(DatabaseName(id), v))
<1>1. PICK d : d = DatabaseName(id)
  OBVIOUS
<1>2. d = [id |-> id, kind |-> "String", range |-> <<>>, longest |-> Some(63), pattern |-> "name", allowed |-> {},
           mode |-> "Required", default |-> None]
  BY <1>1 DEF DatabaseName, Required
<1>3. PICK e : e = [d EXCEPT !.mode = "Default"]
  OBVIOUS
<1>4. PICK f : f = [e EXCEPT !.default = Some(v)]
  OBVIOUS
<1>5. f.kind = "String" /\ f.mode = "Default" /\ f.default = Some(v)
  BY <1>2, <1>3, <1>4
<1>6. IsSetting(f)
  BY <1>5 DEF IsSetting, NumberKinds
<1>7. f = Defaulted(d, v)
  BY <1>3, <1>4 DEF Defaulted
<1> QED BY <1>1, <1>6, <1>7

\* All of the generated ones are.
LEMMA SettingsAreSettings == \A s \in GeneratedSettings : IsSetting(s)
<1>1. \A s \in SettingsToMigrator : IsSetting(s)
  BY NumberIsSetting, RequiredIsSetting DEF SettingsToMigrator, NumberKinds
<1>2. \A s \in SettingsToTls : IsSetting(s)
  <2>1. PICK a, b : /\ a = Choice("backend.database.tls-mode", {"verify-full"}, "verify-full", 11)
                    /\ b = Defaulted(DatabaseName("backend.database.schema"),
                                     [kind |-> "String", text |-> Named("veyora_v1", 9)])
    OBVIOUS
  <2>2. IsSetting(a)
    BY <2>1, ChoiceIsSetting
  <2>3. IsSetting(b)
    BY <2>1, NamedIsSetting
  <2> DEFINE listed == {
        DatabaseName("backend.database.name"),
        Number("backend.database.pool-api", "Integer", 1, 50, 10),
        Number("backend.database.pool-worker", "Integer", 1, 25, 5),
        Number("backend.database.port", "Integer", 1, 65535, 5432),
        Number("backend.database.query-timeout-seconds", "DurationSeconds", 1, 120, 30),
        Secret("backend.database.restore-password"), b, a}
  <2>4. SettingsToTls = listed
    BY <2>1 DEF SettingsToTls
  <2>5. "Integer" \in NumberKinds /\ "DurationSeconds" \in NumberKinds
    BY DEF NumberKinds
  <2>6. \A s \in listed : IsSetting(s)
    BY <2>2, <2>3, <2>5, NumberIsSetting, RequiredIsSetting
  <2> QED BY <2>4, <2>6
<1>3. \A s \in SettingsToLease : IsSetting(s)
  BY NumberIsSetting, RequiredIsSetting, ChoiceIsSetting DEF SettingsToLease, NumberKinds
<1>4. \A s \in SettingsToSync : IsSetting(s)
  BY NumberIsSetting DEF SettingsToSync, NumberKinds
<1>5. \A s \in SettingsToTombstone : IsSetting(s)
  BY NumberIsSetting DEF SettingsToTombstone, NumberKinds
<1> QED BY <1>1, <1>2, <1>3, <1>4, <1>5 DEF GeneratedSettings

\* What a valid value is.
LEMMA ValidIsAccepted ==
  ASSUME NEW s \in GeneratedSettings, NEW v, Validate(s, v).ok,
         v.kind \in NumberKinds => v.n \in Int
  PROVE  Accepts(s, v)
<1>1. IsSetting(s)
  BY SettingsAreSettings
<1>2. ~Err("TypeMismatch").ok /\ ~Err("OutOfBounds").ok /\ ~Err("InvalidSecretReference").ok
  BY DEF Err
<1>3. v.kind = s.kind
  BY <1>2 DEF Validate
<1>4. v.kind \in NumberKinds => v.n \in s.range[1]..s.range[2]
  <2> SUFFICES ASSUME v.kind \in NumberKinds PROVE v.n \in s.range[1]..s.range[2]
    OBVIOUS
  <2>1. Within(s.range, v.n)
    BY <1>2, <1>3 DEF Validate, NumberKinds
  <2> QED BY <1>1, <1>3, <2>1 DEF IsSetting, Within, NumberKinds
<1>5. v.kind = "SecretReference" => ValidSecretReference(v.text)
  BY <1>2, <1>3 DEF Validate
<1>6. v.kind \in {"String", "Path"} => ValidateText(s, v.text)
  BY <1>2, <1>3 DEF Validate
<1>7. v.kind = "SecretReference" => /\ v.text.prefix = "/run/secrets/" /\ "?" \notin ToSet(v.text.parts)
                                   /\ ".." \notin ToSet(v.text.parts)
  BY <1>5 DEF ValidSecretReference, ValidMountedPath
<1>8. v.kind = "Path" => v.text.prefix = "/run/config/" /\ v.text.len <= 256
  <2> SUFFICES ASSUME v.kind = "Path" PROVE v.text.prefix = "/run/config/" /\ v.text.len <= 256
    OBVIOUS
  <2>1. ValidateText(s, v.text)
    BY <1>6
  <2>2. s.longest = Some(256) /\ s.pattern = "path"
    BY <1>1, <1>3 DEF IsSetting
  <2> QED BY <2>1, <2>2 DEF ValidateText, MatchesPattern, ValidMountedPath, Some
<1>9. v.kind = "String" => s.allowed = {} \/ v.text.is \in s.allowed
  BY <1>6 DEF ValidateText
<1> QED BY <1>3, <1>4, <1>7, <1>8, <1>9 DEF Accepts, NumberKinds

\* The entries of a layer that is applied are those of settings, valid, one for each setting, and
\* of no secret when secrets are not taken.
IsRight(e, secrets) ==
  /\ e.id \in SettingIds /\ Validate(SpecOf(e.id), e.value).ok
  /\ e.value.kind = "SecretReference" => secrets
AreApplied(entries, secrets) ==
  /\ \A i \in DOMAIN entries : IsRight(entries[i], secrets)
  /\ \A i, j \in DOMAIN entries : entries[j].id = entries[i].id => j = i

\* An entry with nothing wrong.
LEMMA NothingWrong ==
  ASSUME NEW entries, NEW i, NEW secrets \in BOOLEAN, EntryError(entries, i, secrets) = None
  PROVE  IsRight(entries[i], secrets) /\ \A j \in 1..i - 1 : entries[j].id # entries[i].id
<1>1. \A x : Some(x) # None
  BY DEF Some, None
<1> QED BY <1>1 DEF EntryError, IsRight

\* What a layer over some values sets, and leaves.
IsOver(out, layer, values) ==
  LET ids == {layer.entries[i].id : i \in DOMAIN layer.entries}
  IN /\ DOMAIN out = ids \cup DOMAIN values
     /\ \A i \in DOMAIN layer.entries : out[layer.entries[i].id] = layer.entries[i].value
     /\ \A id \in DOMAIN values \ ids : out[id] = values[id]

\* A layer that is applied sets what it has an entry for, and leaves the rest.
LEMMA LayerFacts ==
  ASSUME NEW layer, NEW values, NEW secrets \in BOOLEAN, IsList(layer.entries), ApplyLayer(layer, values, secrets).ok
  PROVE  AreApplied(layer.entries, secrets) /\ IsOver(ApplyLayer(layer, values, secrets).val, layer, values)
<1> DEFINE entries == layer.entries
           wrong == {i \in DOMAIN entries : EntryError(entries, i, secrets) # None}
           valueOf(id) == LET i == CHOOSE i \in DOMAIN entries : entries[i].id = id IN entries[i].value
           ids == {entries[i].id : i \in DOMAIN entries}
           out == [id \in ids \cup DOMAIN values |-> IF id \in ids THEN valueOf(id) ELSE values[id]]
<1>1. wrong = {} /\ ApplyLayer(layer, values, secrets) = Ok(out)
  BY DEF ApplyLayer, Err
<1>2. ApplyLayer(layer, values, secrets).val = out
  BY <1>1 DEF Ok
<1>3. DOMAIN entries \subseteq Int
  BY ListFacts
<1>4. \A i \in DOMAIN entries : EntryError(entries, i, secrets) = None
  BY <1>1
<1>5. \A i \in DOMAIN entries : IsRight(entries[i], secrets)
  <2> HIDE DEF entries
  <2> QED BY <1>4, NothingWrong
<1>6. \A i \in DOMAIN entries : \A j \in 1..i - 1 : entries[j].id # entries[i].id
  <2> HIDE DEF entries
  <2> QED BY <1>4, NothingWrong
<1>7. \A i, j \in DOMAIN entries : entries[j].id = entries[i].id => j = i
  <2> SUFFICES ASSUME NEW i \in DOMAIN entries, NEW j \in DOMAIN entries, entries[j].id = entries[i].id, j # i
               PROVE  FALSE
    OBVIOUS
  <2>1. DOMAIN entries = 1..Len(entries) /\ Len(entries) \in Nat
    BY ListFacts
  <2> HIDE DEF entries
  <2>2. CASE j < i
    <3>1. j \in 1..i - 1
      BY <2>1, <2>2
    <3> QED BY <1>6, <3>1
  <2>3. CASE i < j
    <3>1. i \in 1..j - 1
      BY <2>1, <2>3
    <3> QED BY <1>6, <3>1
  <2> QED BY <2>1, <2>2, <2>3
<1>8. AreApplied(entries, secrets)
  <2> HIDE DEF entries
  <2> QED BY <1>5, <1>7 DEF AreApplied
<1>9. ASSUME NEW i \in DOMAIN entries PROVE valueOf(entries[i].id) = entries[i].value
  <2>1. \E k \in DOMAIN entries : entries[k].id = entries[i].id
    OBVIOUS
  <2>2. PICK k : k = CHOOSE l \in DOMAIN entries : entries[l].id = entries[i].id
    OBVIOUS
  <2>3. k \in DOMAIN entries /\ entries[k].id = entries[i].id
    BY <2>1, <2>2
  <2>4. k = i
    BY <1>7, <2>3
  <2> QED BY <2>2, <2>4
<1>10. DOMAIN out = ids \cup DOMAIN values
  OBVIOUS
<1>11. \A i \in DOMAIN entries : out[entries[i].id] = entries[i].value
  <2> SUFFICES ASSUME NEW i \in DOMAIN entries PROVE out[entries[i].id] = entries[i].value
    OBVIOUS
  <2>1. entries[i].id \in ids
    OBVIOUS
  <2>2. valueOf(entries[i].id) = entries[i].value
    BY <1>9
  <2> HIDE DEF valueOf, ids, entries
  <2> QED BY <2>1, <2>2
<1>12. \A id \in DOMAIN values \ ids : out[id] = values[id]
  <2> HIDE DEF valueOf, ids
  <2> QED OBVIOUS
<1> HIDE DEF out
<1>13. IsOver(out, layer, values)
  BY <1>10, <1>11, <1>12 DEF IsOver
<1> QED BY <1>2, <1>8, <1>13

\* When no two settings share an id, the defaults are those of the settings that have one.
LEMMA DefaultsFacts ==
  ASSUME ValidateGeneratedProjection
  PROVE  /\ \A s \in GeneratedSettings : SpecOf(s.id) = s
         /\ DOMAIN Defaults \subseteq SettingIds
         /\ \A s \in GeneratedSettings : s.mode = "Required" \/ s.id \in DOMAIN Defaults
         /\ \A id \in DOMAIN Defaults : SpecOf(id).default = Some(Defaults[id])
<1>1. \A s, t \in GeneratedSettings : s.id = t.id => s = t
  BY DEF ValidateGeneratedProjection
<1>2. \A s \in GeneratedSettings : s.mode = "Default" <=> s.default # None
  BY DEF ValidateGeneratedProjection
<1>3. ASSUME NEW s \in GeneratedSettings PROVE SpecOf(s.id) = s
  <2>1. PICK t : t = CHOOSE u \in GeneratedSettings : u.id = s.id
    OBVIOUS
  <2>2. t \in GeneratedSettings /\ t.id = s.id
    BY <2>1
  <2> QED BY <1>1, <2>1, <2>2 DEF SpecOf
<1> DEFINE withDefault == {s.id : s \in {t \in GeneratedSettings : t.default # None}}
<1>4. DOMAIN Defaults = withDefault /\ \A id \in withDefault : Defaults[id] = CHOOSE v \in SpecOf(id).default : TRUE
  BY DEF Defaults
<1>5. \A s \in GeneratedSettings : s.mode = "Required" \/ s.id \in withDefault
  BY <1>2, SettingsAreSettings DEF IsSetting
<1>6. withDefault \subseteq SettingIds
  BY DEF SettingIds
<1>7. ASSUME NEW id \in withDefault PROVE SpecOf(id).default = Some(Defaults[id])
  <2>1. PICK s \in GeneratedSettings : s.id = id /\ s.default # None
    OBVIOUS
  <2>2. s.mode = "Default"
    BY <1>2, <2>1
  <2>3. PICK v : s.default = Some(v)
    BY <2>2, SettingsAreSettings DEF IsSetting
  <2>4. SpecOf(id) = s
    BY <1>3, <2>1
  <2>5. Defaults[id] = CHOOSE x \in s.default : TRUE
    BY <1>4, <2>4
  <2>6. s.default = {v}
    BY <2>3 DEF Some
  <2>7. (CHOOSE x \in s.default : TRUE) \in s.default
    BY <2>6
  <2>8. Defaults[id] = v
    BY <2>5, <2>6, <2>7
  <2> QED BY <2>3, <2>4, <2>8
<1> HIDE DEF withDefault
<1> QED BY <1>3, <1>4, <1>5, <1>6, <1>7

\* A layer that is applied gives each setting at most one value.
LEMMA GivenFacts ==
  ASSUME NEW entries, NEW secrets \in BOOLEAN, AreApplied(entries, secrets), NEW id
  PROVE  /\ \A i \in DOMAIN entries : entries[i].id = id => Given(entries, id) = {entries[i].value}
         /\ id \notin {entries[i].id : i \in DOMAIN entries} => Given(entries, id) = {}
<1>1. ASSUME NEW i \in DOMAIN entries, entries[i].id = id PROVE Given(entries, id) = {entries[i].value}
  <2>1. \A j \in DOMAIN entries : entries[j].id = id <=> j = i
    BY <1>1 DEF AreApplied
  <2> QED BY <2>1 DEF Given
<1> QED BY <1>1 DEF Given

\* The entries that are applied are accepted.
LEMMA AppliedAreAccepted ==
  ASSUME ValidateGeneratedProjection, NEW entries, NEW secrets \in BOOLEAN, AreApplied(entries, secrets),
         NEW i \in DOMAIN entries,
         entries[i].value.kind \in NumberKinds => entries[i].value.n \in Int
  PROVE  entries[i].id \in SettingIds /\ Accepts(SpecOf(entries[i].id), entries[i].value)
<1>1. entries[i].id \in SettingIds /\ Validate(SpecOf(entries[i].id), entries[i].value).ok
  BY DEF AreApplied, IsRight
<1>2. PICK s \in GeneratedSettings : s.id = entries[i].id
  BY <1>1 DEF SettingIds
<1>3. SpecOf(entries[i].id) = s
  BY <1>2, DefaultsFacts
<1>4. Validate(s, entries[i].value).ok
  BY <1>1, <1>3
<1>5. Accepts(s, entries[i].value)
  BY <1>4, ValidIsAccepted
<1> QED BY <1>1, <1>3, <1>5

\* A default that is a number is one.
LEMMA DefaultIsNumber ==
  ASSUME ValidateGeneratedProjection, NEW s \in GeneratedSettings, NEW v \in s.default, v.kind \in NumberKinds
  PROVE  v.n \in Int
<1>1. s.mode = "Default"
  BY DEF ValidateGeneratedProjection, None
<1>2. PICK w : s.default = Some(w) /\ (w.kind \in NumberKinds => w.n \in Int)
  BY <1>1, SettingsAreSettings DEF IsSetting
<1>3. v = w
  BY <1>2 DEF Some
<1> QED BY <1>2, <1>3

\* A configuration that loads is the command line over the owner file over the defaults.
LEMMA LoadFacts ==
  ASSUME NEW owner \in OwnerFiles, NEW command \in CommandLines, Load(owner, command).ok
  PROVE  LET out == Load(owner, command).val
         IN /\ DOMAIN out = SettingIds
            /\ \A id \in SettingIds : Source(owner, command, id) = {out[id]} /\ Accepts(SpecOf(id), out[id])
            /\ \A i \in DOMAIN command.entries : command.entries[i].value.kind # "SecretReference"
<1> DEFINE file == ApplyLayer(owner, Defaults, TRUE)
           both == ApplyLayer(command, file.val, FALSE)
           ownerIds == {owner.entries[i].id : i \in DOMAIN owner.entries}
           commandIds == {command.entries[i].id : i \in DOMAIN command.entries}
<1>1. /\ ValidateGeneratedProjection
      /\ \A s \in GeneratedSettings : \A v \in s.default : Validate(s, v).ok
      /\ file.ok /\ both.ok
      /\ \A s \in GeneratedSettings : s.mode = "Required" => s.id \in DOMAIN both.val
      /\ Load(owner, command) = both
  <2>1. ~Err("InvalidProjection").ok /\ ~Err("OwnerMismatch").ok /\ ~Err("VersionMismatch").ok
        /\ ~Err("OutOfBounds").ok /\ ~Err("MissingRequired").ok
    BY DEF Err
  <2> HIDE DEF file
  <2> QED BY <2>1 DEF Load, file
<1>2. /\ IsList(owner.entries) /\ IsList(command.entries)
      /\ \A i \in DOMAIN owner.entries : owner.entries[i].value.kind \in NumberKinds => owner.entries[i].value.n \in Int
      /\ \A i \in DOMAIN command.entries : command.entries[i].value.kind \in NumberKinds => command.entries[i].value.n \in Int
  BY ConfigInputsAssumption DEF NumberKinds
<1>3. /\ AreApplied(owner.entries, TRUE)
      /\ DOMAIN file.val = ownerIds \cup DOMAIN Defaults
      /\ \A i \in DOMAIN owner.entries : file.val[owner.entries[i].id] = owner.entries[i].value
      /\ \A id \in DOMAIN Defaults \ ownerIds : file.val[id] = Defaults[id]
  <2>1. AreApplied(owner.entries, TRUE) /\ IsOver(file.val, owner, Defaults)
    BY <1>1, <1>2, LayerFacts
  <2> HIDE DEF file
  <2> QED BY <2>1 DEF IsOver
<1>4. /\ AreApplied(command.entries, FALSE)
      /\ DOMAIN both.val = commandIds \cup DOMAIN file.val
      /\ \A i \in DOMAIN command.entries : both.val[command.entries[i].id] = command.entries[i].value
      /\ \A id \in DOMAIN file.val \ commandIds : both.val[id] = file.val[id]
  <2> HIDE DEF file
  <2>1. AreApplied(command.entries, FALSE) /\ IsOver(both.val, command, file.val)
    BY <1>1, <1>2, LayerFacts
  <2> HIDE DEF both
  <2> QED BY <2>1 DEF IsOver
<1> HIDE DEF file, both
<1>5. ownerIds \subseteq SettingIds /\ commandIds \subseteq SettingIds
  BY <1>3, <1>4 DEF AreApplied, IsRight
<1>6. DOMAIN both.val = SettingIds
  <2>1. DOMAIN both.val \subseteq SettingIds
    BY <1>1, <1>3, <1>4, <1>5, DefaultsFacts
  <2>2. ASSUME NEW s \in GeneratedSettings PROVE s.id \in DOMAIN both.val
    <3>1. s.mode = "Required" \/ s.id \in DOMAIN Defaults
      BY <1>1, DefaultsFacts
    <3> QED BY <1>1, <1>3, <1>4, <3>1
  <2> QED BY <2>1, <2>2 DEF SettingIds
<1>7. ASSUME NEW id \in SettingIds PROVE Source(owner, command, id) = {both.val[id]} /\ Accepts(SpecOf(id), both.val[id])
  <2>1. CASE id \in commandIds
    <3>1. PICK i \in DOMAIN command.entries : command.entries[i].id = id
      BY <2>1
    <3>2. Given(command.entries, id) = {command.entries[i].value}
      BY <1>4, <3>1, GivenFacts
    <3>3. both.val[id] = command.entries[i].value
      BY <1>4, <3>1
    <3>4. Accepts(SpecOf(id), command.entries[i].value)
      BY <1>1, <1>2, <1>4, <3>1, AppliedAreAccepted
    <3> QED BY <3>2, <3>3, <3>4 DEF Source
  <2>2. CASE id \notin commandIds /\ id \in ownerIds
    <3>1. PICK i \in DOMAIN owner.entries : owner.entries[i].id = id
      BY <2>2
    <3>2. Given(owner.entries, id) = {owner.entries[i].value}
      BY <1>3, <3>1, GivenFacts
    <3>3. Given(command.entries, id) = {}
      BY <1>4, <2>2, GivenFacts
    <3>4. both.val[id] = owner.entries[i].value
      BY <1>3, <1>4, <2>2, <3>1
    <3>5. Accepts(SpecOf(id), owner.entries[i].value)
      BY <1>1, <1>2, <1>3, <3>1, AppliedAreAccepted
    <3> QED BY <3>2, <3>3, <3>4, <3>5 DEF Source
  <2>3. CASE id \notin commandIds /\ id \notin ownerIds
    <3>1. Given(owner.entries, id) = {} /\ Given(command.entries, id) = {}
      BY <1>3, <1>4, <2>3, GivenFacts
    <3>2. id \in DOMAIN Defaults /\ both.val[id] = Defaults[id]
      BY <1>3, <1>4, <1>6, <2>3
    <3>3. SpecOf(id).default = {Defaults[id]}
      BY <1>1, <3>2, DefaultsFacts DEF Some
    <3>4. PICK s \in GeneratedSettings : s.id = id
      BY DEF SettingIds
    <3>5. SpecOf(id) = s
      BY <1>1, <3>4, DefaultsFacts
    <3>6. Defaults[id] \in s.default
      BY <3>3, <3>5
    <3>7. Validate(s, Defaults[id]).ok /\ (Defaults[id].kind \in NumberKinds => Defaults[id].n \in Int)
      BY <1>1, <3>6, DefaultIsNumber
    <3>8. Accepts(s, Defaults[id])
      BY <3>7, ValidIsAccepted
    <3> QED BY <3>1, <3>2, <3>3, <3>5, <3>8 DEF Source
  <2> QED BY <2>1, <2>2, <2>3
<1>8. \A i \in DOMAIN command.entries : command.entries[i].value.kind # "SecretReference"
  BY <1>4 DEF AreApplied, IsRight
<1> QED BY <1>1, <1>6, <1>7, <1>8

-----------------------------------------------------------------------------
(* Roles, the bootstrap and the environment.                               *)

\* A catalogue that compiles gives a role to the services that touch the database.
LEMMA CompileFacts ==
  ASSUME NEW candidate, Compile(candidate).ok
  PROVE  \A s \in DOMAIN candidate.services :
           ForService(Compile(candidate).val, s) =
             IF candidate.services[s].operations = <<>> THEN None ELSE Some(s)
<1>1. candidate = CanonicalServiceCapabilities /\ Compile(candidate) = Ok(Roles)
  BY DEF Compile, Err
<1>2. Compile(candidate).val = Roles
  BY <1>1 DEF Ok
<1>3. ToSet(Roles) = {"api", "worker", "migrator", "backup", "restore"}
  BY NamesListed
<1>4. PICK services : services = CanonicalServiceCapabilities.services
  OBVIOUS
<1>5. /\ DOMAIN services = {"gateway", "api", "worker", "web", "validator", "migrator", "backup", "restore"}
      /\ services["gateway"].operations = <<>> /\ services["web"].operations = <<>>
      /\ services["validator"].operations = <<>>
      /\ services["api"].operations # <<>> /\ services["worker"].operations # <<>>
      /\ services["migrator"].operations # <<>> /\ services["backup"].operations # <<>>
      /\ services["restore"].operations # <<>>
  BY <1>4 DEF CanonicalServiceCapabilities, Capability
<1>6. ASSUME NEW s \in DOMAIN services
      PROVE  ForService(Roles, s) = IF services[s].operations = <<>> THEN None ELSE Some(s)
  BY <1>3, <1>5 DEF ForService, None, Some
<1> QED BY <1>1, <1>2, <1>4, <1>6

\* The first name of a sequence is one of them, and none is found only when none is there.
LEMMA FirstOfNone ==
  ASSUME NEW names, NEW S, FirstOf(names, S) = None
  PROVE  ToSet(names) \cap S = {}
<1>1. {i \in DOMAIN names : names[i] \in S} = {}
  BY DEF FirstOf, Some, None
<1> QED BY <1>1 DEF ToSet

\* What is observed of a destination that is planned for is what was expected of it.
LEMMA AssessFacts ==
  ASSUME NEW identity \in Identities, NEW observed \in Observations, AssessUntrusted(identity, observed).ok
  PROVE  /\ observed.identity = identity /\ observed.unavailable = {} /\ observed.drift = {}
         /\ \/ observed.destination = "Absent" /\ AssessUntrusted(identity, observed) = Ok(ApplyActions)
            \/ AssessUntrusted(identity, observed) = Ok(VerifyOnlyActions)
<1> DEFINE field == IdentityMismatch(identity, observed.identity)
           feature == FirstUnavailable(observed.unavailable)
           drift == FirstReportedDrift(observed.drift)
<1>1. \A code, detail : ~Fails(code, detail).ok
  BY DEF Fails
<1>2. field = None /\ feature = None /\ drift = None
  BY <1>1 DEF AssessUntrusted
<1>3. \/ observed.destination = "Absent" /\ AssessUntrusted(identity, observed) = Ok(ApplyActions)
      \/ AssessUntrusted(identity, observed) = Ok(VerifyOnlyActions)
  BY <1>1, <1>2 DEF AssessUntrusted
<1>4. observed.unavailable \subseteq ToSet(Features) /\ observed.drift \subseteq ToSet(DriftFields)
  BY ConfigInputsAssumption
<1>5. observed.unavailable = {} /\ observed.drift = {}
  <2>1. ToSet(Features) \cap observed.unavailable = {} /\ ToSet(DriftFields) \cap observed.drift = {}
    BY <1>2, FirstOfNone DEF FirstUnavailable, FirstReportedDrift
  <2> QED BY <1>4, <2>1
<1> DEFINE fields == ToSet(IdentityFields) \cup {"epoch"}
<1>6. HasFields(identity, fields) /\ HasFields(observed.identity, fields)
  BY ConfigInputsAssumption
<1>7. ToSet(Append(IdentityFields, "epoch")) = fields
  <2>1. IsSequence(IdentityFields)
    <3>1. \A v : v = <<"plan", "destination", "configuration", "capabilities", "contract">> =>
                IsSequence(v) /\ ToSet(v) = {"plan", "destination", "configuration", "capabilities", "contract"}
      BY FiveListed
    <3> QED BY <3>1 DEF IdentityFields
  <2> QED BY <2>1, Appended
<1> HIDE DEF fields
<1>8. \A f \in fields : identity[f] = observed.identity[f]
  <2>1. fields \cap {f \in DOMAIN identity : identity[f] # observed.identity[f]} = {}
    BY <1>2, <1>7, FirstOfNone DEF IdentityMismatch
  <2>2. DOMAIN identity = fields
    BY <1>6 DEF HasFields
  <2> QED BY <2>1, <2>2
<1>9. observed.identity = identity
  BY <1>6, <1>8 DEF HasFields
<1> QED BY <1>3, <1>5, <1>9

\* What is verified whatever is created, and what is created.
LEMMA ActionSets ==
  /\ ToSet(VerifyOnlyActions) = ToSet(InspectActions) \cup ToSet(VerifyActions)
  /\ ToSet(ApplyActions) = ToSet(InspectActions) \cup {"CreateDatabase", "CreateApplicationSchema"}
                             \cup ToSet(Roles) \cup {"EnforceDenyByDefault"} \cup ToSet(VerifyActions)
  /\ ToSet(InspectActions) \cap (ToSet(Roles) \cup {"CreateDatabase", "CreateApplicationSchema"}) = {}
  /\ ToSet(VerifyActions) \cap (ToSet(Roles) \cup {"CreateDatabase", "CreateApplicationSchema"}) = {}
  /\ "EnforceDenyByDefault" \notin ToSet(Roles)
<1> DEFINE creation == <<"CreateDatabase", "CreateApplicationSchema">>
           last == <<"EnforceDenyByDefault">>
<1>1. /\ IsSequence(InspectActions) /\ ToSet(InspectActions) = {"RequireExclusiveGuard", "InspectDestination"}
      /\ IsSequence(VerifyActions)
      /\ ToSet(VerifyActions) = {"VerifyOwner", "VerifyRoleAttributes", "VerifyGrants", "VerifySearchPath", "VerifyDefaultPrivileges"}
      /\ IsSequence(Roles) /\ ToSet(Roles) = {"api", "worker", "migrator", "backup", "restore"}
  BY NamesListed
<1>2. /\ IsSequence(creation) /\ ToSet(creation) = {"CreateDatabase", "CreateApplicationSchema"}
      /\ IsSequence(last) /\ ToSet(last) = {"EnforceDenyByDefault"}
  BY OneListed, TwoListed, Zenon
<1> HIDE DEF creation, last
<1>3. ToSet(VerifyOnlyActions) = ToSet(InspectActions) \cup ToSet(VerifyActions)
  BY <1>1, ToSetConcatenated DEF VerifyOnlyActions
<1>4. ToSet(ApplyActions) = ToSet(InspectActions) \cup ToSet(creation) \cup ToSet(Roles) \cup ToSet(last) \cup ToSet(VerifyActions)
  <2>1. PICK v1 : v1 = InspectActions \o creation
    OBVIOUS
  <2>2. PICK v2 : v2 = v1 \o Roles
    OBVIOUS
  <2>3. PICK v3 : v3 = v2 \o last
    OBVIOUS
  <2>4. ApplyActions = v3 \o VerifyActions
    BY <2>1, <2>2, <2>3 DEF ApplyActions, creation, last
  <2>5. IsSequence(v1) /\ ToSet(v1) = ToSet(InspectActions) \cup ToSet(creation)
    BY <1>1, <1>2, <2>1, ToSetConcatenated
  <2>6. IsSequence(v2) /\ ToSet(v2) = ToSet(v1) \cup ToSet(Roles)
    BY <1>1, <2>2, <2>5, ToSetConcatenated
  <2>7. IsSequence(v3) /\ ToSet(v3) = ToSet(v2) \cup ToSet(last)
    BY <1>2, <2>3, <2>6, ToSetConcatenated
  <2>8. ToSet(v3 \o VerifyActions) = ToSet(v3) \cup ToSet(VerifyActions)
    BY <1>1, <2>7, ToSetConcatenated
  <2> QED BY <2>4, <2>5, <2>6, <2>7, <2>8
<1> QED BY <1>1, <1>2, <1>3, <1>4

\* What a bootstrap that is planned creates and verifies.
LEMMA BootstrapFacts ==
  ASSUME NEW identity \in Identities, NEW observed \in Observations,
         NEW ret, ret = IF Draft(identity).ok THEN AssessUntrusted(identity, observed) ELSE Draft(identity), ret.ok
  PROVE  LET creates == ToSet(ret.val) \cap (ToSet(Roles) \cup {"CreateDatabase", "CreateApplicationSchema"})
         IN /\ creates # {} => observed.destination = "Absent"
            /\ creates \in {{}, ToSet(Roles) \cup {"CreateDatabase", "CreateApplicationSchema"}}
            /\ observed.identity = identity /\ IsComplete(identity)
            /\ observed.unavailable = {} /\ observed.drift = {}
            /\ ToSet(VerifyActions) \subseteq ToSet(ret.val)
<1> DEFINE made == ToSet(Roles) \cup {"CreateDatabase", "CreateApplicationSchema"}
<1>1. IsComplete(identity) /\ ret = AssessUntrusted(identity, observed)
  BY DEF Draft, Err
<1>2. /\ observed.identity = identity /\ observed.unavailable = {} /\ observed.drift = {}
      /\ \/ observed.destination = "Absent" /\ ret = Ok(ApplyActions)
         \/ ret = Ok(VerifyOnlyActions)
  BY <1>1, AssessFacts
<1>3. CASE observed.destination = "Absent" /\ ret = Ok(ApplyActions)
  <2>1. ret.val = ApplyActions
    BY <1>3 DEF Ok
  <2>2. ToSet(ApplyActions) \cap made = made /\ ToSet(VerifyActions) \subseteq ToSet(ApplyActions)
    BY ActionSets
  <2> HIDE DEF made
  <2> QED BY <1>1, <1>2, <1>3, <2>1, <2>2 DEF made
<1>4. CASE ret = Ok(VerifyOnlyActions)
  <2>1. ret.val = VerifyOnlyActions
    BY <1>4 DEF Ok
  <2>2. ToSet(VerifyOnlyActions) \cap made = {} /\ ToSet(VerifyActions) \subseteq ToSet(VerifyOnlyActions)
    BY ActionSets
  <2> QED BY <1>1, <1>2, <2>1, <2>2
<1> QED BY <1>2, <1>3, <1>4

\* A number that may be missing, taken out.
LEMMA Taken ==
  ASSUME NEW x, NEW n, x = {n}
  PROVE  (CHOOSE m \in x : TRUE) = n
<1>1. (CHOOSE m \in x : TRUE) \in x
  OBVIOUS
<1> QED BY <1>1

\* A cutoff is never within the window.
LEMMA SweepFacts ==
  ASSUME NEW raw \in Retentions, NEW clock \in Clocks, RetentionFromEnv(raw).ok,
         NEW cutoffs, cutoffs = RetentionCutoff(RetentionFromEnv(raw).val, clock),
         NEW days, days = IF raw \in {None, Some(-2)} THEN 30 ELSE CHOOSE n \in raw : TRUE
  PROVE  /\ \A cutoff \in cutoffs : cutoff = 0 \/ (cutoff <= clock /\ (clock - cutoff) \div 86400 >= days)
         /\ raw = Some(0) => cutoffs = None
<1> DEFINE Kept(c, d) == c = 0 \/ (c <= clock /\ (clock - c) \div 86400 >= d)
<1>1. QuadMax \in Nat /\ clock \in 0..QuadMax
  BY ConfigInputsAssumption
<1>2. raw = None \/ \E n \in raw : n \in Int /\ n >= -2 /\ raw = Some(n)
  BY ConfigInputsAssumption DEF OptionalNumber
<1>3. ASSUME NEW d \in Nat, NEW cutoff \in RetentionCutoff(Some(d), clock)
      PROVE  Kept(cutoff, d)
  <2>1. cutoff = LET window == IF d > QuadMax \div 86400 THEN QuadMax ELSE d * 86400
                 IN IF window > clock THEN 0 ELSE clock - window
    BY <1>3 DEF RetentionCutoff, Some
  <2>2. CASE d > QuadMax \div 86400
    BY <1>1, <2>1, <2>2
  <2>3. CASE ~(d > QuadMax \div 86400)
    <3>1. cutoff = 0 \/ (cutoff = clock - d * 86400 /\ d * 86400 <= clock)
      BY <1>1, <2>1, <2>3
    <3> QED BY <1>1, <3>1
  <2> QED BY <2>2, <2>3
<1> HIDE DEF Kept
<1> SUFFICES (\A cutoff \in cutoffs : Kept(cutoff, days)) /\ (raw = Some(0) => cutoffs = None)
  BY DEF Kept
<1>4. CASE raw = None \/ raw = Some(-2)
  <2>1. RetentionFromEnv(raw) = Ok(Some(30)) /\ raw # Some(0)
    BY <1>4 DEF RetentionFromEnv, None, Some
  <2>2. RetentionFromEnv(raw).val = Some(30)
    BY <2>1 DEF Ok
  <2>3. days = 30
    BY <1>4
  <2> QED BY <1>3, <2>1, <2>2, <2>3
<1>5. CASE ~(raw = None \/ raw = Some(-2))
  <2>1. PICK n \in raw : n \in Int /\ n >= -2 /\ raw = Some(n)
    BY <1>2, <1>5
  <2>2. n # -2
    BY <1>5, <2>1
  <2>3. n # -1
    <3> SUFFICES ASSUME n = -1 PROVE FALSE
      OBVIOUS
    <3>1. RetentionFromEnv(raw) = Err("malformed")
      BY <2>1 DEF RetentionFromEnv, None, Some
    <3> QED BY <3>1 DEF Err
  <2>4. n \in Nat
    BY <2>1, <2>2, <2>3
  <2>5. days = n
    <3>1. (CHOOSE m \in raw : TRUE) = n
      BY <2>1, Taken DEF Some
    <3> QED BY <1>5, <3>1
  <2>6. CASE n = 0
    <3>1. RetentionFromEnv(raw) = Ok(None)
      BY <2>1, <2>6 DEF RetentionFromEnv, None, Some
    <3>2. RetentionFromEnv(raw).val = None
      BY <3>1 DEF Ok
    <3>3. RetentionCutoff(None, clock) = None
      BY DEF RetentionCutoff, None
    <3> QED BY <3>2, <3>3 DEF None
  <2>7. CASE n # 0
    <3>1. RetentionFromEnv(raw) = Ok(raw) /\ raw # Some(0)
      BY <2>1, <2>2, <2>3, <2>7 DEF RetentionFromEnv, None, Some
    <3>2. RetentionFromEnv(raw).val = Some(n)
      BY <2>1, <3>1 DEF Ok
    <3>3. cutoffs = RetentionCutoff(Some(n), clock)
      BY <3>2
    <3> QED BY <1>3, <2>4, <2>5, <3>1, <3>3
  <2> QED BY <2>6, <2>7
<1> QED BY <1>4, <1>5

\* A service that starts has a policy, a token where it asks for one, and a ceiling for bodies.
LEMMA ApiFacts ==
  ASSUME NEW env \in ApiEnvironments, ApiConfig(env).ok
  PROVE  /\ ApiConfig(env).val.body > 0 /\ env.auth # None
         /\ env.auth = Some("token") => ApiConfig(env).val.token = env.token /\ ApiConfig(env).val.token = Some("t")
<1>1. ApiProblems(env) = {}
  BY DEF ApiConfig, Err
<1>2. env.auth = Some("disabled") \/ (env.auth = Some("token") /\ env.token \in {Some("t")})
  <2> SUFFICES ASSUME ~(env.auth = Some("disabled") \/ (env.auth = Some("token") /\ env.token \in {Some("t")}))
               PROVE  FALSE
    OBVIOUS
  <2>1. "auth" \in ApiProblems(env)
    BY DEF ApiProblems
  <2> QED BY <1>1, <2>1
<1>3. \E n \in env.body : n > 0
  <2> SUFFICES ASSUME ~\E n \in env.body : n > 0 PROVE FALSE
    OBVIOUS
  <2>1. "body" \in ApiProblems(env)
    BY DEF ApiProblems
  <2> QED BY <1>1, <2>1
<1>4. PICK n : env.body = {n} /\ n > 0
  BY <1>3, ConfigInputsAssumption DEF OptionalNumber, Some, None
<1>5. (CHOOSE m \in env.body : TRUE) = n
  BY <1>4, Taken
<1>6. PICK ret : ret = ApiConfig(env).val
  OBVIOUS
<1>7. ret.body = (CHOOSE m \in env.body : TRUE) /\ ret.token = IF env.auth = Some("token") THEN env.token ELSE None
  BY <1>1, <1>6 DEF ApiConfig, Ok
<1> QED BY <1>2, <1>4, <1>5, <1>6, <1>7 DEF Some, None

\* No limit of a pool is zero.
LEMMA PoolFacts ==
  ASSUME NEW env \in PoolEnvironments, NEW f \in DOMAIN PoolFromOverrides(env)
  PROVE  PoolFromOverrides(env)[f] > 0
<1>1. f \in DOMAIN PoolDefault /\ f \in {"size", "acquire", "statement", "idle"} /\ PoolDefault[f] > 0
  BY DEF PoolFromOverrides, PoolDefault
<1>2. OptionalNumber(env[f])
  BY <1>1, ConfigInputsAssumption
<1>3. PICK chosen : chosen = CHOOSE n \in env[f] : TRUE
  OBVIOUS
<1>4. PoolFromOverrides(env)[f] =
        IF \E n \in env[f] : n >= 0 THEN (IF chosen > 1 THEN chosen ELSE 1) ELSE PoolDefault[f]
  BY <1>1, <1>3 DEF PoolFromOverrides
<1>5. CASE \E n \in env[f] : n >= 0
  <2>1. PICK n : n \in Int /\ env[f] = {n}
    BY <1>2, <1>5 DEF OptionalNumber, None, Some
  <2>2. chosen = n
    BY <1>3, <2>1, Taken
  <2> QED BY <1>4, <1>5, <2>1, <2>2
<1>6. CASE ~\E n \in env[f] : n >= 0
  BY <1>1, <1>4, <1>6
<1> QED BY <1>5, <1>6

\* A remote host is reached in the clear only by the override that says so.
LEMMA TlsFacts ==
  ASSUME NEW hosts, NEW override, TlsModeWithOverride(hosts, override).ok,
         "remote" \in ToSet(hosts), override # "disabled-insecure"
  PROVE  TlsModeWithOverride(hosts, override).val = "Required"
  BY DEF TlsModeWithOverride, Ok, Err

-----------------------------------------------------------------------------
(* The configuration is honoured after every call.                         *)

\* The calls that are about what an operator wrote.
ConfigCalls == {"load", "compile", "bootstrap", "sweep", "api", "connect"}

\* Any other call says nothing of it.
LEMMA OtherCall ==
  ASSUME NEW call, Latest' = call, call.fn \notin ConfigCalls
  PROVE  ConfigHonoured'
<1>1. \A fn \in ConfigCalls : ~Returned(fn)'
  BY DEF Returned
<1>2. LoadedAsWritten' /\ RolesAsPlanned' /\ EnvironmentHonoured'
  BY <1>1 DEF ConfigCalls, LoadedAsWritten, RolesAsPlanned, EnvironmentHonoured
<1> QED BY <1>2 DEF ConfigHonoured

\* A configuration that is loaded.
LEMMA LoadHonoured ==
  ASSUME NEW owner \in OwnerFiles, NEW command \in CommandLines, NEW call,
         call = [fn |-> "load", arg |-> [owner |-> owner, command |-> command], ret |-> Load(owner, command)],
         Latest' = call
  PROVE  ConfigHonoured'
<1>1. call.fn = "load" /\ call.arg.owner = owner /\ call.arg.command = command /\ call.ret = Load(owner, command)
  OBVIOUS
<1>2. \A fn : Returned(fn)' => fn = "load" /\ call.ret.ok
  BY <1>1 DEF Returned
<1>3. RolesAsPlanned' /\ EnvironmentHonoured'
  BY <1>2 DEF RolesAsPlanned, EnvironmentHonoured
<1>4. LoadedAsWritten'
  <2>1. CASE ~Returned("load")'
    BY <2>1 DEF LoadedAsWritten
  <2>2. CASE Returned("load")'
    <3>1. Load(owner, command).ok
      BY <1>1, <1>2, <2>2
    <3> QED BY <1>1, <3>1, LoadFacts DEF LoadedAsWritten
  <2> QED BY <2>1, <2>2
<1> QED BY <1>3, <1>4 DEF ConfigHonoured

\* A catalogue that is compiled.
LEMMA CompileHonoured ==
  ASSUME NEW candidate, NEW call,
         call = [fn |-> "compile", arg |-> candidate, ret |-> Compile(candidate)], Latest' = call
  PROVE  ConfigHonoured'
<1>1. call.fn = "compile" /\ call.arg = candidate /\ call.ret = Compile(candidate)
  OBVIOUS
<1>2. \A fn : Returned(fn)' => fn = "compile" /\ call.ret.ok
  BY <1>1 DEF Returned
<1>3. LoadedAsWritten' /\ EnvironmentHonoured'
  BY <1>2 DEF LoadedAsWritten, EnvironmentHonoured
<1>4. RolesAsPlanned'
  BY <1>1, <1>2, CompileFacts DEF RolesAsPlanned
<1> QED BY <1>3, <1>4 DEF ConfigHonoured

\* A bootstrap that is planned.
LEMMA BootstrapHonoured ==
  ASSUME NEW identity \in Identities, NEW observed \in Observations, NEW call,
         call = [fn |-> "bootstrap", arg |-> [identity |-> identity, observed |-> observed],
                 ret |-> IF Draft(identity).ok THEN AssessUntrusted(identity, observed) ELSE Draft(identity)],
         Latest' = call
  PROVE  ConfigHonoured'
<1>1. PICK ret : ret = IF Draft(identity).ok THEN AssessUntrusted(identity, observed) ELSE Draft(identity)
  OBVIOUS
<1>2. call.fn = "bootstrap" /\ call.arg.identity = identity /\ call.arg.observed = observed /\ call.ret = ret
  BY <1>1
<1>3. \A fn : Returned(fn)' => fn = "bootstrap" /\ ret.ok
  BY <1>2 DEF Returned
<1>4. LoadedAsWritten' /\ EnvironmentHonoured'
  BY <1>3 DEF LoadedAsWritten, EnvironmentHonoured
<1>5. RolesAsPlanned'
  BY <1>1, <1>2, <1>3, BootstrapFacts DEF RolesAsPlanned
<1> QED BY <1>4, <1>5 DEF ConfigHonoured

\* A retention that is read.
LEMMA SweepHonoured ==
  ASSUME NEW raw \in Retentions, NEW clock \in Clocks, NEW call,
         call = [fn |-> "sweep", arg |-> [raw |-> raw, now |-> clock],
                 ret |-> IF RetentionFromEnv(raw).ok THEN Ok(RetentionCutoff(RetentionFromEnv(raw).val, clock))
                         ELSE RetentionFromEnv(raw)],
         Latest' = call
  PROVE  ConfigHonoured'
<1>1. call.fn = "sweep" /\ call.arg.raw = raw /\ call.arg.now = clock
  OBVIOUS
<1>2. \A fn : Returned(fn)' => fn = "sweep"
  BY <1>1 DEF Returned
<1>3. LoadedAsWritten' /\ RolesAsPlanned'
  BY <1>2 DEF LoadedAsWritten, RolesAsPlanned
<1>4. EnvironmentHonoured'
  <2>1. CASE ~RetentionFromEnv(raw).ok
    <3>1. ~Returned("sweep")'
      BY <2>1 DEF Returned
    <3> QED BY <1>2, <3>1 DEF EnvironmentHonoured
  <2>2. CASE RetentionFromEnv(raw).ok
    <3>1. PICK cutoffs : cutoffs = RetentionCutoff(RetentionFromEnv(raw).val, clock)
      OBVIOUS
    <3>2. PICK days : days = IF raw \in {None, Some(-2)} THEN 30 ELSE CHOOSE n \in raw : TRUE
      OBVIOUS
    <3>3. call.ret.val = cutoffs
      BY <2>2, <3>1 DEF Ok
    <3>4. /\ \A cutoff \in cutoffs : cutoff = 0 \/ (cutoff <= clock /\ (clock - cutoff) \div 86400 >= days)
          /\ raw = Some(0) => cutoffs = None
      <4>1. /\ \A cutoff \in RetentionCutoff(RetentionFromEnv(raw).val, clock) :
                 cutoff = 0 \/ (cutoff <= clock /\ (clock - cutoff) \div 86400 >=
                                  (IF raw \in {None, Some(-2)} THEN 30 ELSE CHOOSE n \in raw : TRUE))
            /\ raw = Some(0) => RetentionCutoff(RetentionFromEnv(raw).val, clock) = None
        BY <2>2, SweepFacts
      <4> QED BY <3>1, <3>2, <4>1
    <3> QED BY <1>1, <1>2, <3>2, <3>3, <3>4 DEF EnvironmentHonoured
  <2> QED BY <2>1, <2>2
<1> QED BY <1>3, <1>4 DEF ConfigHonoured

\* A service that is started.
LEMMA ApiHonoured ==
  ASSUME NEW env \in ApiEnvironments, NEW call,
         call = [fn |-> "api", arg |-> env, ret |-> ApiConfig(env)], Latest' = call
  PROVE  ConfigHonoured'
<1>1. call.fn = "api" /\ call.arg = env /\ call.ret = ApiConfig(env)
  OBVIOUS
<1>2. \A fn : Returned(fn)' => fn = "api" /\ call.ret.ok
  BY <1>1 DEF Returned
<1>3. LoadedAsWritten' /\ RolesAsPlanned'
  BY <1>2 DEF LoadedAsWritten, RolesAsPlanned
<1>4. EnvironmentHonoured'
  BY <1>1, <1>2, ApiFacts DEF EnvironmentHonoured
<1> QED BY <1>3, <1>4 DEF ConfigHonoured

\* A pool that connects.
LEMMA ConnectHonoured ==
  ASSUME NEW env \in PoolEnvironments, NEW hosts, NEW override, NEW call,
         call = [fn |-> "connect", arg |-> [env |-> env, hosts |-> hosts, override |-> override],
                 ret |-> IF TlsModeWithOverride(hosts, override).ok
                         THEN Ok([tls |-> TlsModeWithOverride(hosts, override).val, pool |-> PoolFromOverrides(env)])
                         ELSE TlsModeWithOverride(hosts, override)],
         Latest' = call
  PROVE  ConfigHonoured'
<1>1. call.fn = "connect" /\ call.arg.env = env /\ call.arg.hosts = hosts /\ call.arg.override = override
  OBVIOUS
<1>2. \A fn : Returned(fn)' => fn = "connect"
  BY <1>1 DEF Returned
<1>3. LoadedAsWritten' /\ RolesAsPlanned'
  BY <1>2 DEF LoadedAsWritten, RolesAsPlanned
<1>4. EnvironmentHonoured'
  <2>1. CASE ~TlsModeWithOverride(hosts, override).ok
    <3>1. ~Returned("connect")'
      BY <2>1 DEF Returned
    <3> QED BY <1>2, <3>1 DEF EnvironmentHonoured
  <2>2. CASE TlsModeWithOverride(hosts, override).ok
    <3>1. call.ret.val.tls = TlsModeWithOverride(hosts, override).val /\ call.ret.val.pool = PoolFromOverrides(env)
      BY <2>2 DEF Ok
    <3>2. "remote" \in ToSet(hosts) /\ override # "disabled-insecure" => call.ret.val.tls = "Required"
      BY <2>2, <3>1, TlsFacts
    <3>3. \A f \in DOMAIN call.ret.val.pool : call.ret.val.pool[f] > 0
      BY <3>1, PoolFacts
    <3> QED BY <1>1, <1>2, <3>2, <3>3 DEF EnvironmentHonoured
  <2> QED BY <2>1, <2>2
<1> QED BY <1>3, <1>4 DEF ConfigHonoured

\* A step that makes no call of the configuration.
LEMMA KernelCall ==
  ASSUME IsSequence(log), NEW fn, NEW arg, NEW ret, fn \notin ConfigCalls, Called(fn, arg, ret)
  PROVE  IsSequence(log') /\ ConfigHonoured'
<1>1. PICK call : call = [fn |-> fn, arg |-> arg, ret |-> ret]
  OBVIOUS
<1>2. IsSequence(log') /\ Latest' = call
  BY <1>1, LatestCall
<1>3. call.fn \notin ConfigCalls
  BY <1>1
<1> QED BY <1>2, <1>3, OtherCall

\* A step that makes one.
LEMMA ConfigCall ==
  ASSUME IsSequence(log), LoadSettings \/ CompileRoles \/ Bootstrap \/ Sweep \/ StartApi \/ Connect
  PROVE  IsSequence(log') /\ ConfigHonoured'
<1>1. CASE LoadSettings
  <2>1. PICK owner \in OwnerFiles, command \in CommandLines :
          Called("load", [owner |-> owner, command |-> command], Load(owner, command))
    BY <1>1 DEF LoadSettings
  <2> QED BY <2>1, LatestCall, LoadHonoured
<1>2. CASE CompileRoles
  <2>1. PICK candidate \in Catalogues : Called("compile", candidate, Compile(candidate))
    BY <1>2 DEF CompileRoles
  <2> QED BY <2>1, LatestCall, CompileHonoured
<1>3. CASE Bootstrap
  <2>1. PICK identity \in Identities, observed \in Observations :
          Called("bootstrap", [identity |-> identity, observed |-> observed],
                 IF Draft(identity).ok THEN AssessUntrusted(identity, observed) ELSE Draft(identity))
    BY <1>3 DEF Bootstrap
  <2> QED BY <2>1, LatestCall, BootstrapHonoured
<1>4. CASE Sweep
  <2>1. PICK raw \in Retentions, clock \in Clocks :
          Called("sweep", [raw |-> raw, now |-> clock],
                 IF RetentionFromEnv(raw).ok THEN Ok(RetentionCutoff(RetentionFromEnv(raw).val, clock))
                 ELSE RetentionFromEnv(raw))
    BY <1>4 DEF Sweep
  <2> QED BY <2>1, LatestCall, SweepHonoured
<1>5. CASE StartApi
  <2>1. PICK env \in ApiEnvironments : Called("api", env, ApiConfig(env))
    BY <1>5 DEF StartApi
  <2> QED BY <2>1, LatestCall, ApiHonoured
<1>6. CASE Connect
  <2>1. PICK env \in PoolEnvironments, hosts \in HostLists, override \in TlsOverrides :
          Called("connect", [env |-> env, hosts |-> hosts, override |-> override],
                 IF TlsModeWithOverride(hosts, override).ok
                 THEN Ok([tls |-> TlsModeWithOverride(hosts, override).val, pool |-> PoolFromOverrides(env)])
                 ELSE TlsModeWithOverride(hosts, override))
    BY <1>6 DEF Connect
  <2> QED BY <2>1, LatestCall, ConnectHonoured
<1> QED BY <1>1, <1>2, <1>3, <1>4, <1>5, <1>6

\* Every other step.
OtherNext ==
  \/ DecodeDocument \/ AskStatus \/ DecodeCredential \/ EncodeKit \/ DecodeKit \/ DrawPasswords \/ StoreRecord
  \/ Seal \/ Open \/ Sign \/ Verify \/ Commit \/ ValidateInput

\* It is a call of the kernel, or of the validator.
LEMMA OtherNextCalls ==
  ASSUME OtherNext
  PROVE  \E fn, arg, ret : fn \notin ConfigCalls /\ Called(fn, arg, ret)
<1>1. \A fn \in {"document", "status", "credential", "kit", "typed", "password", "record", "seal", "open", "sign",
                 "mac", "verify", "commit", "validate"} : fn \notin ConfigCalls
  BY DEF ConfigCalls
<1>2. CASE DecodeDocument
  BY <1>1, <1>2 DEF DecodeDocument
<1>3. CASE AskStatus
  BY <1>1, <1>3 DEF AskStatus
<1>4. CASE DecodeCredential
  BY <1>1, <1>4 DEF DecodeCredential
<1>5. CASE EncodeKit
  BY <1>1, <1>5 DEF EncodeKit
<1>6. CASE DecodeKit
  BY <1>1, <1>6 DEF DecodeKit
<1>7. CASE DrawPasswords
  BY <1>1, <1>7 DEF DrawPasswords
<1>8. CASE StoreRecord
  BY <1>1, <1>8 DEF StoreRecord
<1>9. CASE Seal
  BY <1>1, <1>9 DEF Seal
<1>10. CASE Open
  BY <1>1, <1>10 DEF Open
<1>11. CASE Sign
  BY <1>1, <1>11 DEF Sign
<1>12. CASE Verify
  BY <1>1, <1>12 DEF Verify
<1>13. CASE Commit
  BY <1>1, <1>13 DEF Commit
<1>14. CASE ValidateInput
  BY <1>1, <1>14 DEF ValidateInput
<1> QED BY <1>2, <1>3, <1>4, <1>5, <1>6, <1>7, <1>8, <1>9, <1>10, <1>11, <1>12, <1>13, <1>14 DEF OtherNext

\* The configuration is what the operator wrote, and nothing weaker, whatever the layers, the
\* catalogues, the observations and the environments: settings that load, the planned roles, the
\* bootstrap, the retention window, the policy of the API and the limits of the pool.
THEOREM CallsHonourConfig == CallsSpec => []ConfigHonoured
<1> DEFINE Honoured == IsSequence(log) /\ ConfigHonoured
<1>1. CallsInit => Honoured
  <2> SUFFICES ASSUME log = <<>> PROVE Honoured
    BY DEF CallsInit
  <2>1. IsSequence(log)
    BY DEF IsSequence
  <2>2. \A fn : ~Returned(fn)
    BY DEF Returned
  <2>3. LoadedAsWritten /\ RolesAsPlanned /\ EnvironmentHonoured
    BY <2>2 DEF LoadedAsWritten, RolesAsPlanned, EnvironmentHonoured
  <2> QED BY <2>1, <2>3 DEF ConfigHonoured
<1>2. Honoured /\ [CallsNext]_log => Honoured'
  <2> SUFFICES ASSUME Honoured, [CallsNext]_log PROVE Honoured'
    OBVIOUS
  <2>1. CASE LoadSettings \/ CompileRoles \/ Bootstrap \/ Sweep \/ StartApi \/ Connect
    BY <2>1, ConfigCall
  <2>2. CASE OtherNext
    BY <2>2, OtherNextCalls, KernelCall
  <2>3. CASE UNCHANGED log
    BY <2>3 DEF ConfigHonoured, LoadedAsWritten, RolesAsPlanned, EnvironmentHonoured, Returned, Latest
  <2> QED BY <2>1, <2>2, <2>3 DEF CallsNext, OtherNext
<1>3. Honoured => ConfigHonoured
  OBVIOUS
<1> QED BY <1>1, <1>2, <1>3, PTL DEF CallsSpec
================================================================================
