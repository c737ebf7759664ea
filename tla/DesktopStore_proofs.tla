------------------------- MODULE DesktopStore_proofs -------------------------
(* The desktop shell with any folders, records, threads and snapshots, and *)
(* the SQLite store it serves with any vaults, ids and bodies.             *)
EXTENDS Desktop, RecordStore, FiniteSetTheorems, WellFoundedInduction, TLAPS

-----------------------------------------------------------------------------
(* The SQLite store: what the operations build.                            *)

\* A written row is a row, its revision is one above the row it replaces and
\* a live row carries no stamp (INSERT_RECORD and UPDATE_RECORD).
LEMMA WrittenIsRow ==
  ASSUME NEW row \in Row, NEW body \in Bodies, NEW dead \in BOOLEAN
  PROVE  /\ Written(row, body, dead) \in Row
         /\ Written(row, body, dead).revision = row.revision + 1
         /\ Written(row, body, dead).stamp \in {row.stamp, NoStamp}
         /\ ~Written(row, body, dead).dead => Written(row, body, dead).stamp = NoStamp
  BY DEF Written, Row

\* Every nonempty set of batch positions has a last one.
LEMMA LastOfIsLast ==
  ASSUME NEW n \in Nat, NEW S \in SUBSET (1 .. n), S # {}
  PROVE  LastOf(S) \in S /\ \A j \in S : j <= LastOf(S)
<1>1. \E i \in S : \A j \in S : j <= i
  <2> DEFINE gaps == {n - i : i \in S}
  <2>1. gaps \subseteq Nat
    OBVIOUS
  <2>2. gaps # {}
    <3>1. PICK i \in S : TRUE
      OBVIOUS
    <3>2. n - i \in gaps
      BY <3>1
    <3> QED BY <3>2
  <2>3. PICK g \in gaps : \A h \in gaps : <<h, g>> \notin OpToRel(<, Nat)
    <3> HIDE DEF gaps
    <3> QED BY <2>1, <2>2, NatLessThanWellFounded, WFMin
  <2>4. \A h \in gaps : ~(h < g)
    BY <2>1, <2>3 DEF OpToRel
  <2>5. PICK i \in S : g = n - i
    BY <2>3
  <2>6. \A j \in S : j <= i
    BY <2>4, <2>5
  <2> QED BY <2>6
<1> QED BY <1>1 DEF LastOf

\* The row a batch leaves in a slot it writes is a row; it is live only
\* without a stamp, and its stamp is one the slot already had.
LEMMA AfterBatchIsRow ==
  ASSUME rows \in [Slots -> Row], NEW batch \in Batches, NEW slot \in Slots,
         BatchRowsOf(batch, slot) # {}
  PROVE  /\ AfterBatch(batch, slot) \in Row
         /\ Present(AfterBatch(batch, slot))
         /\ AfterBatch(batch, slot).stamp \in {rows[slot].stamp, NoStamp}
         /\ ~AfterBatch(batch, slot).dead => AfterBatch(batch, slot).stamp = NoStamp
<1> DEFINE mine == BatchRowsOf(batch, slot)
           last == batch[LastOf(mine)]
<1>1. PICK n \in 1 .. MaxBatch : batch \in [1 .. n -> Writes]
  BY DEF Batches
<1>2. mine \in SUBSET (1 .. n) /\ n \in Nat
  BY <1>1 DEF BatchRowsOf
<1>3. LastOf(mine) \in mine
  BY <1>2, LastOfIsLast
<1>4. last \in Writes /\ last.expected \in Nat
  BY <1>1, <1>2, <1>3 DEF Writes
<1>5. ~last.dead => ~(\A i \in mine : batch[i].dead)
  BY <1>3
<1>6. rows[slot] \in Row
  OBVIOUS
<1> QED BY <1>3, <1>4, <1>5, <1>6 DEF AfterBatch, Row, Writes, Present

-----------------------------------------------------------------------------
(* The inductive invariant.                                                *)

\* The empty database satisfies the invariant.
LEMMA StoreInitInv == StoreInit => StoreInv
  BY StoreAssumption
     DEF StoreInit, StoreInv, StoreTypeOK, MissingIsClean, LiveRowsUnstamped,
         StampsPast, Missing, Row, Present

\* A put keeps the invariant: the only row it touches is a written row.
LEMMA PutInv ==
  ASSUME StoreInv, NEW slot \in Slots, NEW expected \in 0 .. MaxRevision,
         NEW body \in Bodies, NEW dead \in BOOLEAN, Put(slot, expected, body, dead)
  PROVE  StoreInv'
<1> DEFINE row == Written(rows[slot], body, dead)
<1>1. rows \in [Slots -> Row] /\ now \in Nat /\ rows[slot] \in Row
  BY DEF StoreInv, StoreTypeOK
<1>2. /\ row \in Row
      /\ row.revision = rows[slot].revision + 1
      /\ row.stamp \in {rows[slot].stamp, NoStamp}
      /\ ~row.dead => row.stamp = NoStamp
  BY <1>1, WrittenIsRow
<1>3. /\ rows' = [rows EXCEPT ![slot] = row]
      /\ now' = now
  BY DEF Put
<1> HIDE DEF row
<1>4. StoreTypeOK'
  BY <1>1, <1>2, <1>3 DEF StoreTypeOK
<1>5. MissingIsClean'
  BY <1>1, <1>2, <1>3 DEF StoreInv, MissingIsClean, Present, Row
<1>6. LiveRowsUnstamped'
  BY <1>1, <1>2, <1>3 DEF StoreInv, LiveRowsUnstamped
<1>7. StampsPast'
  BY <1>1, <1>2, <1>3 DEF StoreInv, StampsPast
<1> QED BY <1>4, <1>5, <1>6, <1>7 DEF StoreInv

\* A deletion keeps the invariant: the stamp it sets is the current epoch.
LEMMA TombstoneInv ==
  ASSUME StoreInv, NEW slot \in Slots, NEW expected \in 0 .. MaxRevision,
         Tombstone(slot, expected)
  PROVE  StoreInv'
<1> DEFINE row == Tombstoned(rows[slot], now)
<1>1. rows \in [Slots -> Row] /\ now \in Nat /\ rows[slot] \in Row
  BY DEF StoreInv, StoreTypeOK
<1>2. row \in Row /\ row.revision > 0 /\ row.stamp = now /\ row.dead
  BY <1>1 DEF Tombstoned, Row
<1>3. /\ rows' = [rows EXCEPT ![slot] = row]
      /\ now' = now
  BY DEF Tombstone
<1> HIDE DEF row
<1>4. StoreTypeOK'
  BY <1>1, <1>2, <1>3 DEF StoreTypeOK
<1>5. MissingIsClean'
  BY <1>1, <1>2, <1>3 DEF StoreInv, MissingIsClean, Present
<1>6. LiveRowsUnstamped'
  BY <1>1, <1>2, <1>3 DEF StoreInv, LiveRowsUnstamped
<1>7. StampsPast'
  BY <1>1, <1>2, <1>3 DEF StoreInv, StampsPast
<1> QED BY <1>4, <1>5, <1>6, <1>7 DEF StoreInv

\* A batch keeps the invariant slot by slot, however often it names a slot.
LEMMA PutBatchInv ==
  ASSUME StoreInv, NEW batch \in Batches, PutBatch(batch)
  PROVE  StoreInv'
<1>1. rows \in [Slots -> Row] /\ now \in Nat
  BY DEF StoreInv, StoreTypeOK
<1>2. /\ rows' = [slot \in Slots |-> IF BatchRowsOf(batch, slot) = {} THEN rows[slot]
                                     ELSE AfterBatch(batch, slot)]
      /\ now' = now
  BY DEF PutBatch
<1>3. ASSUME NEW slot \in Slots
      PROVE  \/ rows'[slot] = rows[slot]
             \/ /\ rows'[slot] \in Row
                /\ Present(rows'[slot])
                /\ rows'[slot].stamp \in {rows[slot].stamp, NoStamp}
                /\ ~rows'[slot].dead => rows'[slot].stamp = NoStamp
  <2>1. CASE BatchRowsOf(batch, slot) = {}
    BY <1>2, <2>1
  <2>2. CASE BatchRowsOf(batch, slot) # {}
    <3>1. rows'[slot] = AfterBatch(batch, slot)
      BY <1>2, <2>2
    <3> QED BY <1>1, <2>2, <3>1, AfterBatchIsRow
  <2> QED BY <2>1, <2>2
<1>4. DOMAIN rows' = Slots /\ rows' = [slot \in Slots |-> rows'[slot]]
  BY <1>2
<1>5. StoreTypeOK'
  <2>1. \A slot \in Slots : rows'[slot] \in Row
    BY <1>1, <1>3
  <2> QED BY <1>1, <1>2, <1>4, <2>1 DEF StoreTypeOK
<1>6. MissingIsClean'
  BY <1>3 DEF StoreInv, MissingIsClean
<1>7. LiveRowsUnstamped'
  BY <1>3 DEF StoreInv, LiveRowsUnstamped
<1>8. StampsPast'
  BY <1>2, <1>3 DEF StoreInv, StampsPast
<1> QED BY <1>5, <1>6, <1>7, <1>8 DEF StoreInv

\* A rekey keeps the invariant: it empties one scope and fills the other
\* with first revisions, stamped now when they arrive tombstoned.
LEMMA RekeyVaultInv ==
  ASSUME StoreInv, NEW from \in Vaults, NEW to \in Vaults, NEW records \in RekeyRequests,
         RekeyVault(from, to, records)
  PROVE  StoreInv'
<1>1. rows \in [Slots -> Row] /\ now \in Nat
  BY DEF StoreInv, StoreTypeOK
<1>2. PICK ids \in SUBSET Ids : records \in [ids -> [body : Bodies, dead : BOOLEAN]]
  BY DEF RekeyRequests
<1> DEFINE arrived(id) == Arrived(records[id], now)
<1>3. \A id \in ids : /\ arrived(id) \in Row
                      /\ arrived(id).revision = 1
                      /\ ~arrived(id).dead => arrived(id).stamp = NoStamp
                      /\ arrived(id).stamp # NoStamp => arrived(id).stamp = now
  BY <1>1, <1>2 DEF Row, Arrived
<1>4. Missing \in Row
  BY DEF Missing, Row
<1>5. /\ rows' = [slot \in Slots |->
                    IF slot[1] = from THEN Missing
                    ELSE IF slot[1] = to /\ slot[2] \in ids THEN arrived(slot[2])
                    ELSE rows[slot]]
      /\ now' = now
  BY <1>2 DEF RekeyVault
<1> HIDE DEF arrived
<1>6. StoreTypeOK'
  BY <1>1, <1>3, <1>4, <1>5 DEF StoreTypeOK
<1>7. MissingIsClean'
  BY <1>3, <1>5 DEF StoreInv, MissingIsClean, Present
<1>8. LiveRowsUnstamped'
  BY <1>3, <1>5 DEF StoreInv, LiveRowsUnstamped, Missing
<1>9. StampsPast'
  BY <1>1, <1>3, <1>5 DEF StoreInv, StampsPast, Missing
<1> QED BY <1>6, <1>7, <1>8, <1>9 DEF StoreInv

\* A purge keeps the invariant: it only puts Missing in place of rows.
LEMMA PurgeInv ==
  ASSUME StoreInv, NEW vault \in Vaults, NEW cutoff \in 0 .. MaxClock,
         PurgeTombstonedBefore(vault, cutoff)
  PROVE  StoreInv'
<1>1. rows \in [Slots -> Row] /\ now \in Nat /\ now' = now
  BY DEF StoreInv, StoreTypeOK, PurgeTombstonedBefore
<1>2. \A slot \in Slots : rows'[slot] = rows[slot] \/ rows'[slot] = Missing
  BY DEF PurgeTombstonedBefore
<1>3. Missing \in Row /\ Missing.stamp = NoStamp
  BY DEF Missing, Row
<1>4. StoreTypeOK'
  BY <1>1, <1>3 DEF StoreTypeOK, PurgeTombstonedBefore
<1>5. MissingIsClean'
  BY <1>2 DEF StoreInv, MissingIsClean
<1>6. LiveRowsUnstamped'
  BY <1>2, <1>3 DEF StoreInv, LiveRowsUnstamped
<1>7. StampsPast'
  BY <1>1, <1>2, <1>3 DEF StoreInv, StampsPast
<1> QED BY <1>4, <1>5, <1>6, <1>7 DEF StoreInv

\* Every step of the store keeps the invariant.
LEMMA StoreStepInv == StoreInv /\ [StoreNext]_storeVars => StoreInv'
<1> SUFFICES ASSUME StoreInv, [StoreNext]_storeVars
             PROVE  StoreInv'
  OBVIOUS
<1>1. CASE \E slot \in Slots, expected \in 0 .. MaxRevision, body \in Bodies, dead \in BOOLEAN :
              Put(slot, expected, body, dead)
  BY <1>1, PutInv
<1>2. CASE \E slot \in Slots, expected \in 0 .. MaxRevision : Tombstone(slot, expected)
  BY <1>2, TombstoneInv
<1>3. CASE \E batch \in Batches : PutBatch(batch)
  BY <1>3, PutBatchInv
<1>4. CASE \E from, to \in Vaults, records \in RekeyRequests : RekeyVault(from, to, records)
  BY <1>4, RekeyVaultInv
<1>5. CASE \E vault \in Vaults, cutoff \in 0 .. MaxClock : PurgeTombstonedBefore(vault, cutoff)
  BY <1>5, PurgeInv
<1>6. CASE Tick
  BY <1>6 DEF Tick, StoreInv, StoreTypeOK, MissingIsClean, LiveRowsUnstamped, StampsPast, Row
<1>7. CASE UNCHANGED storeVars
  BY <1>7 DEF storeVars, StoreInv, StoreTypeOK, MissingIsClean, LiveRowsUnstamped, StampsPast
<1> QED BY <1>1, <1>2, <1>3, <1>4, <1>5, <1>6, <1>7 DEF StoreNext

\* The store's invariant holds for any vaults, ids, bodies and bounds: rows
\* are well formed, purged slots are clean, live rows carry no stamp and no
\* stamp lies in the future.
THEOREM StoreInvariant == StoreSpec => []StoreInv
  BY StoreInitInv, StoreStepInv, PTL DEF StoreSpec

\* In particular no history leaves a deletion stamp on a live record.
THEOREM LiveRowsStayUnstamped == StoreSpec => []LiveRowsUnstamped
<1>1. StoreInv => LiveRowsUnstamped
  BY DEF StoreInv
<1> QED BY <1>1, StoreInvariant, PTL


\* A row disappears only as a stamped tombstone or with its whole vault, which
\* then moves to another scope: no write, batch, deletion or clock step ever
\* takes a live row away (purge_tombstoned_before, rekey_vault).
THEOREM RowsLeaveOnlyByPurgeOrRekey == StoreSpec => RowsLeaveByPurgeOrRekey
<1> DEFINE Leaves(slot) ==
             Present(rows[slot]) /\ ~Present(rows'[slot]) =>
               \/ rows[slot].dead /\ rows[slot].stamp # NoStamp /\ rows[slot].stamp <= now
               \/ Rekeyed(slot[1])
<1>1. ASSUME StoreInv, [StoreNext]_storeVars, NEW slot \in Slots
      PROVE  Leaves(slot)
  <2> SUFFICES ASSUME Present(rows[slot]), ~Present(rows'[slot])
               PROVE  \/ rows[slot].dead /\ rows[slot].stamp # NoStamp /\ rows[slot].stamp <= now
                      \/ Rekeyed(slot[1])
    OBVIOUS
  <2>0. rows \in [Slots -> Row] /\ now \in Nat
    BY <1>1 DEF StoreInv, StoreTypeOK
  <2>1. ASSUME NEW s \in Slots, NEW expected \in 0 .. MaxRevision, NEW body \in Bodies,
               NEW dead \in BOOLEAN, Put(s, expected, body, dead)
        PROVE  FALSE
    <3>1. Written(rows[s], body, dead).revision = rows[s].revision + 1
      BY DEF Written
    <3>2. rows[s].revision \in Nat
      BY <2>0 DEF Row
    <3> QED BY <2>0, <2>1, <3>1, <3>2 DEF Put, Present
  <2>2. ASSUME NEW s \in Slots, NEW expected \in 0 .. MaxRevision, Tombstone(s, expected)
        PROVE  FALSE
    <3>1. Tombstoned(rows[s], now).revision = rows[s].revision + 1
      BY DEF Tombstoned
    <3>2. rows[s].revision \in Nat
      BY <2>0 DEF Row
    <3> QED BY <2>0, <2>2, <3>1, <3>2 DEF Tombstone, Present
  <2>3. ASSUME NEW batch \in Batches, PutBatch(batch)
        PROVE  FALSE
    <3>1. rows'[slot] = IF BatchRowsOf(batch, slot) = {} THEN rows[slot]
                        ELSE AfterBatch(batch, slot)
      BY <2>3 DEF PutBatch
    <3> QED BY <2>0, <3>1, AfterBatchIsRow
  <2>4. ASSUME NEW from \in Vaults, NEW to \in Vaults, NEW records \in RekeyRequests,
               RekeyVault(from, to, records)
        PROVE  Rekeyed(slot[1])
    <3>1. PICK ids \in SUBSET Ids : records \in [ids -> [body : Bodies, dead : BOOLEAN]]
      BY DEF RekeyRequests
    <3>2. PICK id \in ids : TRUE
      BY <2>4, <3>1 DEF RekeyVault
    <3>3. slot[1] = from
      BY <2>4, <3>1 DEF RekeyVault, Present, Arrived
    <3>4. \A i \in Ids : rows'[<<from, i>>] = Missing
      BY <2>4 DEF RekeyVault, Slots
    <3>5. /\ <<to, id>> \in Slots
          /\ ~Present(rows[<<to, id>>])
          /\ rows'[<<to, id>>].revision = 1
          /\ to # from
      BY <2>4, <3>1, <3>2 DEF RekeyVault, Slots, Arrived
    <3> QED BY <3>3, <3>4, <3>5 DEF Rekeyed, Present, Missing
  <2>5. ASSUME NEW vault \in Vaults, NEW cutoff \in 0 .. MaxClock,
               PurgeTombstonedBefore(vault, cutoff)
        PROVE  rows[slot].dead /\ rows[slot].stamp # NoStamp /\ rows[slot].stamp <= now
    <3>1. Expired(rows[slot], cutoff) /\ cutoff <= now
      BY <2>5 DEF PurgeTombstonedBefore
    <3>2. rows[slot].stamp \in Nat \cup {NoStamp} /\ cutoff \in Nat
      BY <2>0 DEF Row
    <3> QED BY <2>0, <3>1, <3>2 DEF Expired
  <2>6. ASSUME Tick \/ UNCHANGED storeVars
        PROVE  FALSE
    BY <2>6 DEF Tick, storeVars
  <2> QED BY <1>1, <2>1, <2>2, <2>3, <2>4, <2>5, <2>6 DEF StoreNext
<1>2. StoreInv /\ [StoreNext]_storeVars => \A slot \in Slots : Leaves(slot)
  BY <1>1
<1>3. StoreInv /\ [StoreNext]_storeVars => [\A slot \in Slots : Leaves(slot)]_storeVars
  BY <1>2
<1> QED BY <1>3, StoreInvariant, PTL DEF StoreSpec, RowsLeaveByPurgeOrRekey

\* Every accepted write of a batch expects at least the revision its slot had
\* before the batch: the earliest write that did not would have been refused.
LEMMA BatchExpectsAtLeast ==
  ASSUME rows \in [Slots -> Row], NEW batch \in Batches, BatchAccepted(batch),
         NEW slot \in Slots
  PROVE  \A i \in BatchRowsOf(batch, slot) : batch[i].expected >= rows[slot].revision
<1> DEFINE low == {i \in BatchRowsOf(batch, slot) : batch[i].expected < rows[slot].revision}
<1>1. PICK n \in 1 .. MaxBatch : batch \in [1 .. n -> Writes]
  BY DEF Batches
<1>2. /\ BatchRowsOf(batch, slot) \in SUBSET (1 .. n)
      /\ n \in Nat
      /\ \A i \in 1 .. n : batch[i].expected \in Nat
      /\ rows[slot].revision \in Nat
  BY <1>1, StoreAssumption DEF BatchRowsOf, Writes, Row
<1>3. low \subseteq Nat
  BY <1>2
<1>4. SUFFICES ASSUME low # {}
               PROVE  FALSE
  BY <1>2
<1>5. PICK first \in low : \A i \in low : <<i, first>> \notin OpToRel(<, Nat)
  <2> HIDE DEF low
  <2> QED BY <1>3, <1>4, NatLessThanWellFounded, WFMin
<1>6. \A i \in low : ~(i < first)
  BY <1>3, <1>5 DEF OpToRel
<1> DEFINE earlier == {j \in BatchRowsOf(batch, batch[first].slot) : j < first}
<1>7. first \in 1 .. n /\ batch[first].slot = slot /\ batch[first].expected < rows[slot].revision
  BY <1>2, <1>5 DEF BatchRowsOf
<1>8. batch[first].expected = IF earlier = {} THEN rows[slot].revision
                              ELSE batch[LastOf(earlier)].expected + 1
  BY <1>1, <1>7 DEF BatchAccepted, FoundBy
<1>9. CASE earlier = {}
  BY <1>2, <1>7, <1>8, <1>9
<1>10. CASE earlier # {}
  <2>1. earlier \in SUBSET (1 .. n)
    BY <1>2, <1>7
  <2>2. LastOf(earlier) \in earlier
    <3> HIDE DEF earlier
    <3> QED BY <1>2, <1>10, <2>1, LastOfIsLast
  <2>3. LastOf(earlier) \notin low
    BY <1>2, <1>6, <2>2
  <2>4. batch[LastOf(earlier)].expected >= rows[slot].revision
    BY <1>2, <1>7, <2>2, <2>3
  <2> QED BY <1>2, <1>7, <1>8, <1>10, <2>1, <2>2, <2>4
<1> QED BY <1>9, <1>10

\* A put changes no slot without raising its revision.
LEMMA PutRaises ==
  ASSUME rows \in [Slots -> Row], NEW s \in Slots, NEW expected \in 0 .. MaxRevision,
         NEW body \in Bodies, NEW dead \in BOOLEAN, Put(s, expected, body, dead),
         NEW slot \in Slots
  PROVE  rows'[slot] = rows[slot] \/ rows'[slot].revision > rows[slot].revision
<1>1. Written(rows[s], body, dead).revision = rows[s].revision + 1
  BY DEF Written
<1>2. rows[s].revision \in Nat
  BY DEF Row
<1> QED BY <1>1, <1>2 DEF Put

\* Neither does a deletion.
LEMMA TombstoneRaises ==
  ASSUME rows \in [Slots -> Row], NEW s \in Slots, NEW expected \in 0 .. MaxRevision,
         Tombstone(s, expected), NEW slot \in Slots
  PROVE  rows'[slot] = rows[slot] \/ rows'[slot].revision > rows[slot].revision
<1>1. Tombstoned(rows[s], now).revision = rows[s].revision + 1
  BY DEF Tombstoned
<1>2. rows[s].revision \in Nat
  BY DEF Row
<1> QED BY <1>1, <1>2 DEF Tombstone

\* Neither does a batch, however often it names the slot.
LEMMA PutBatchRaises ==
  ASSUME rows \in [Slots -> Row], NEW batch \in Batches, PutBatch(batch), NEW slot \in Slots
  PROVE  rows'[slot] = rows[slot] \/ rows'[slot].revision > rows[slot].revision
<1> DEFINE mine == BatchRowsOf(batch, slot)
<1>0. rows[slot].revision \in Nat
  BY DEF Row
<1>1. SUFFICES ASSUME mine # {}
               PROVE  rows'[slot].revision > rows[slot].revision
  BY DEF PutBatch
<1>2. PICK n \in 1 .. MaxBatch : batch \in [1 .. n -> Writes]
  BY DEF Batches
<1>3. mine \in SUBSET (1 .. n) /\ n \in Nat
  BY <1>2 DEF BatchRowsOf
<1>4. LastOf(mine) \in mine
  <2> HIDE DEF mine
  <2> QED BY <1>1, <1>3, LastOfIsLast
<1>5. batch[LastOf(mine)].expected \in Nat
  BY <1>2, <1>3, <1>4, StoreAssumption DEF Writes
<1>6. batch[LastOf(mine)].expected >= rows[slot].revision
  BY <1>4, BatchExpectsAtLeast DEF PutBatch
<1>7. rows'[slot].revision = batch[LastOf(mine)].expected + 1
  BY <1>1 DEF PutBatch, AfterBatch
<1> QED BY <1>0, <1>5, <1>6, <1>7

\* While a slot keeps its row, every change of it raises the revision, a
\* batch that writes the slot several times included: a reader that compares
\* revisions never misses a change.
THEOREM EveryChangeRaisesRevision == StoreSpec => ChangesRaiseRevision
<1> DEFINE Raises(slot) ==
             Present(rows[slot]) /\ Present(rows'[slot]) /\ rows'[slot] # rows[slot] =>
               rows'[slot].revision > rows[slot].revision
<1>1. ASSUME StoreInv, [StoreNext]_storeVars, NEW slot \in Slots
      PROVE  Raises(slot)
  <2> SUFFICES ASSUME Present(rows[slot]), Present(rows'[slot]), rows'[slot] # rows[slot]
               PROVE  rows'[slot].revision > rows[slot].revision
    OBVIOUS
  <2>0. rows \in [Slots -> Row] /\ rows[slot].revision \in Nat
    BY <1>1 DEF StoreInv, StoreTypeOK, Row
  <2>1. ASSUME NEW s \in Slots, NEW expected \in 0 .. MaxRevision, NEW body \in Bodies,
               NEW dead \in BOOLEAN, Put(s, expected, body, dead)
        PROVE  rows'[slot].revision > rows[slot].revision
    BY <2>0, <2>1, PutRaises
  <2>2. ASSUME NEW s \in Slots, NEW expected \in 0 .. MaxRevision, Tombstone(s, expected)
        PROVE  rows'[slot].revision > rows[slot].revision
    BY <2>0, <2>2, TombstoneRaises
  <2>3. ASSUME NEW batch \in Batches, PutBatch(batch)
        PROVE  rows'[slot].revision > rows[slot].revision
    BY <2>0, <2>3, PutBatchRaises
  <2>4. ASSUME NEW from \in Vaults, NEW to \in Vaults, NEW records \in RekeyRequests,
               RekeyVault(from, to, records)
        PROVE  FALSE
    <3>1. PICK ids \in SUBSET Ids : records \in [ids -> [body : Bodies, dead : BOOLEAN]]
      BY DEF RekeyRequests
    <3>2. slot[1] # from /\ slot[1] = to /\ slot[2] \in ids
      BY <2>4, <3>1 DEF RekeyVault, Present, Missing
    <3>3. slot = <<to, slot[2]>>
      BY <3>2 DEF Slots
    <3> QED BY <2>4, <3>1, <3>2, <3>3 DEF RekeyVault, Present
  <2>5. ASSUME NEW vault \in Vaults, NEW cutoff \in 0 .. MaxClock,
               PurgeTombstonedBefore(vault, cutoff)
        PROVE  FALSE
    BY <2>5 DEF PurgeTombstonedBefore, Present, Missing
  <2>6. ASSUME Tick \/ UNCHANGED storeVars
        PROVE  FALSE
    BY <2>6 DEF Tick, storeVars
  <2> QED BY <1>1, <2>1, <2>2, <2>3, <2>4, <2>5, <2>6 DEF StoreNext
<1>2. StoreInv /\ [StoreNext]_storeVars => [\A slot \in Slots : Raises(slot)]_storeVars
  BY <1>1
<1> QED BY <1>2, StoreInvariant, PTL DEF StoreSpec, ChangesRaiseRevision

-----------------------------------------------------------------------------
(* The store implements the trait's contract.                              *)

\* What callers see of well-formed rows are well-formed records.
LEMMA VisibleTyped ==
  /\ Contract!Slots = Slots
  /\ StoreTypeOK => Visible \in [Contract!Slots -> Contract!Record]
  /\ StoreTypeOK' => Visible' \in [Contract!Slots -> Contract!Record]
  BY DEF Visible, StoreTypeOK, Row, Contract!Slots, Contract!Record, Slots

\* A step that raises the revision of what it changes is a write.
LEMMA RaisingIsWrite ==
  ASSUME StoreTypeOK, StoreTypeOK',
         \A slot \in Slots : rows'[slot] = rows[slot]
                             \/ rows'[slot].revision > rows[slot].revision
  PROVE  Contract!Write
<1>1. \A slot \in Slots : /\ Visible[slot].revision = rows[slot].revision
                          /\ Visible'[slot].revision = rows'[slot].revision
                          /\ rows'[slot] = rows[slot] => Visible'[slot] = Visible[slot]
  BY DEF Visible
<1> QED BY <1>1, VisibleTyped DEF Contract!Write

\* A rekey is a rekey of the abstract store.
LEMMA RekeyIsRekey ==
  ASSUME StoreTypeOK, StoreTypeOK', NEW from \in Vaults, NEW to \in Vaults,
         NEW records \in RekeyRequests, RekeyVault(from, to, records)
  PROVE  Contract!Rekey(from, to)
<1>1. PICK ids \in SUBSET Ids : records \in [ids -> [body : Bodies, dead : BOOLEAN]]
  BY DEF RekeyRequests
<1>2. PICK id \in ids : TRUE
  BY <1>1 DEF RekeyVault
<1>3. from # to /\ <<to, id>> \in Slots
  BY <1>1, <1>2 DEF RekeyVault, Slots
<1>4. \A i \in Ids : Visible'[<<from, i>>] = Contract!NoRecord
  BY DEF RekeyVault, Visible, Missing, Contract!NoRecord, Slots
<1>5. rows'[<<to, id>>].revision = 1 /\ rows[<<to, id>>].revision \in Nat
      /\ ~(rows[<<to, id>>].revision > 0)
  BY <1>1, <1>2, <1>3 DEF RekeyVault, Arrived, Present, StoreTypeOK, Row
<1>6. Visible'[<<to, id>>] # Visible[<<to, id>>]
  BY <1>3, <1>5 DEF Visible
<1>7. ASSUME NEW slot \in Slots, slot[1] # from
      PROVE  \/ Visible'[slot] = Visible[slot]
             \/ slot[1] = to /\ ~Contract!Present(Visible[slot]) /\ Visible'[slot].revision = 1
  <2>1. CASE slot[1] = to /\ slot[2] \in ids
    <3>1. slot = <<to, slot[2]>>
      BY <2>1 DEF Slots
    <3>2. rows'[slot].revision = 1 /\ ~Present(rows[slot])
      BY <1>1, <1>7, <2>1, <3>1 DEF RekeyVault, Arrived
    <3> QED BY <2>1, <3>2 DEF Visible, Present, Contract!Present
  <2>2. CASE ~(slot[1] = to /\ slot[2] \in ids)
    <3>1. rows'[slot] = rows[slot]
      BY <1>1, <1>7, <2>2 DEF RekeyVault
    <3> QED BY <3>1 DEF Visible
  <2> QED BY <2>1, <2>2
<1> QED BY <1>2, <1>3, <1>4, <1>6, <1>7, VisibleTyped DEF Contract!Rekey

\* A purge is a purge of the abstract store.
LEMMA PurgeIsPurge ==
  ASSUME StoreTypeOK, StoreTypeOK', NEW vault \in Vaults, NEW cutoff \in 0 .. MaxClock,
         PurgeTombstonedBefore(vault, cutoff)
  PROVE  Contract!Purge(vault)
<1>1. ASSUME NEW slot \in Slots
      PROVE  \/ Visible'[slot] = Visible[slot]
             \/ slot[1] = vault /\ Visible[slot].dead /\ Visible'[slot] = Contract!NoRecord
  BY DEF PurgeTombstonedBefore, Expired, Visible, Missing, Contract!NoRecord
<1> QED BY <1>1, VisibleTyped DEF Contract!Purge

\* Whatever the vaults, ids, bodies and bounds, the SQLite adapter implements
\* the abstract store: every transaction is one of its steps or changes
\* nothing a caller can see.
THEOREM StoreImplementsContract == StoreSpec => KeepsContract
<1>1. StoreInit => Contract!Init
  BY DEF StoreInit, Contract!Init, Visible, Missing, Contract!NoRecord, Contract!Slots, Slots
<1>2. ASSUME StoreInv, StoreInv', [StoreNext]_storeVars
      PROVE  [Contract!Next]_Visible
  <2>0. StoreTypeOK /\ StoreTypeOK' /\ rows \in [Slots -> Row]
    BY <1>2 DEF StoreInv, StoreTypeOK
  <2>1. ASSUME NEW s \in Slots, NEW expected \in 0 .. MaxRevision, NEW body \in Bodies,
               NEW dead \in BOOLEAN, Put(s, expected, body, dead)
        PROVE  Contract!Write
    BY <2>0, <2>1, PutRaises, RaisingIsWrite
  <2>2. ASSUME NEW s \in Slots, NEW expected \in 0 .. MaxRevision, Tombstone(s, expected)
        PROVE  Contract!Write
    BY <2>0, <2>2, TombstoneRaises, RaisingIsWrite
  <2>3. ASSUME NEW batch \in Batches, PutBatch(batch)
        PROVE  Contract!Write
    BY <2>0, <2>3, PutBatchRaises, RaisingIsWrite
  <2>4. ASSUME NEW from \in Vaults, NEW to \in Vaults, NEW records \in RekeyRequests,
               RekeyVault(from, to, records)
        PROVE  Contract!Rekey(from, to)
    BY <2>0, <2>4, RekeyIsRekey
  <2>5. ASSUME NEW vault \in Vaults, NEW cutoff \in 0 .. MaxClock,
               PurgeTombstonedBefore(vault, cutoff)
        PROVE  Contract!Purge(vault)
    BY <2>0, <2>5, PurgeIsPurge
  <2>6. ASSUME Tick \/ UNCHANGED storeVars
        PROVE  UNCHANGED Visible
    BY <2>6 DEF Tick, storeVars, Visible
  <2> QED BY <1>2, <2>1, <2>2, <2>3, <2>4, <2>5, <2>6 DEF StoreNext, Contract!Next
<1>3. StoreInv /\ StoreInv' /\ [StoreNext]_storeVars => [Contract!Next]_Visible
  BY <1>2
<1> QED BY <1>1, <1>3, StoreInvariant, PTL DEF StoreSpec, KeepsContract, Contract!Spec

-----------------------------------------------------------------------------
(* The desktop shell: the inductive invariant.                             *)

Opening == {"fold", "snapshot", "snapping", "serve", "save", "saving", "publish", "answer"}
ShellPlaces == {"idle", "open"} \cup Opening
MenuPlaces == {"idle", "import", "name", "written", "synced", "choose", "copying",
               "save", "saving", "moved"}

State == [at : ShellPlaces \cup MenuPlaces, dir : Dirs \cup {None},
          set : Settings \cup {None}, name : Nat, has : SUBSET Records, seen : SUBSET Records,
          folded : BOOLEAN]

Snapshot == [at : Nat, has : {Torn} \cup SUBSET Records]

Held(x) == x.main \cup x.wal

Whole(dir, d) == dir \in Dirs /\ d[dir].is = "whole"

Typed ==
  /\ up \in BOOLEAN
  /\ file \in Settings \cup {None, Torn} /\ settings \in Settings \cup {None}
  /\ db \in [Dirs -> Db] /\ backups \in [Dirs -> SUBSET Snapshot] /\ clock \in Nat
  /\ target \in {None, "whole"} /\ promised \in [Dirs -> SUBSET Records]
  /\ launched \in [dir : Dirs, seen : SUBSET Records, folded : BOOLEAN] \cup {None}

\* A folder holds what it promised, has snapshots and a log only if it has a
\* database, and names its snapshots once.
FolderFit(x, b, p, c) ==
  /\ p \subseteq Held(x)
  /\ x.is = "none" => x = NoDb /\ b = {}
  /\ x.is # "whole" => x.wal = {}
  /\ \A s, o \in b : s.at < c /\ (s.at = o.at => s = o)

\* A server has a whole vault.
Serves == /\ (server = None) = (client = None)
          /\ \A dir \in {server, client} : dir = None \/ Whole(dir, db)

\* What the step a thread is at needs.
ThreadFit(t, s, d, b, c) ==
  /\ t \in Menus => s.at \in MenuPlaces
  /\ t \notin Menus => s.at \in ShellPlaces /\ (s.at \in Opening => Whole(s.dir, d))
  /\ s.at \in Opening \cup {"moved"} => s.set \in Settings /\ s.set.dir = s.dir
  /\ s.at = "open" => s.dir \in Dirs
  /\ s.at \in {"import", "name"} => Whole(s.dir, d)
  /\ s.at = "fold" => s.seen \subseteq Held(d[s.dir])
  /\ s.at = "snapshot" /\ s.folded => s.seen \subseteq d[s.dir].main
  /\ s.at = "snapping" => (s.folded => s.seen \subseteq s.has) /\ s.name < c
  /\ s.at \in {"choose", "copying"} => s.set \in Settings
  /\ s.at = "choose" => s.seen \subseteq d[s.set.dir].main
  /\ s.at = "copying" => /\ s.seen \subseteq s.has
                         /\ s.dir \in Dirs /\ b[s.dir] = {}
                         /\ d[s.dir].is = "torn" /\ d[s.dir].main = {}

\* The process runs, and no two moves copy to one folder.
Running ==
  /\ thread \in [Threads -> State]
  /\ \A t \in Threads : thread[t].at # "idle" => up
  /\ \A t \in Threads : ThreadFit(t, thread[t], db, backups, clock)
  /\ \A t, u \in Threads :
       t # u /\ thread[t].at = "copying" /\ thread[u].at = "copying" =>
         thread[t].dir # thread[u].dir

Folders == \A dir \in Dirs : FolderFit(db[dir], backups[dir], promised[dir], clock)

\* A move copies the whole vault, and saves settings that name the copy.
MoveFit(s, d) ==
  /\ s.at \in {"choose", "copying", "save", "saving"} => Whole(s.set.dir, d)
  /\ s.at = "copying" => s.has = d[s.set.dir].main

\* While no log is folded into a file that is copied.
Named ==
  /\ file \in Settings => Whole(file.dir, db)
  /\ settings # None => Whole(settings.dir, db)
  /\ \A t \in Menus : MoveFit(thread[t], db)

OnePicker == \A p, q \in Pickers : p = q

\* One opening at a time: its snapshot is the newest of the folder, and until
\* it is complete nobody counts on it.
Alone ==
  /\ \A t, u \in Threads \ Menus : thread[t].at # "idle" /\ thread[u].at # "idle" => t = u
  /\ \A t \in Threads \ Menus : thread[t].at = "snapping" =>
       \A s \in backups[thread[t].dir] :
         s.at <= thread[t].name /\ (s.at = thread[t].name => s.has = Torn)
  /\ LaunchSnapshotKept

DesktopIInv ==
  /\ Typed /\ Folders /\ Serves /\ Running
  /\ FoldsDuringCopy \/ Named
  /\ ~OnePicker \/ Alone
-----------------------------------------------------------------------------
(* What a thread counts on stays while the folders and the clock move on.  *)

\* Databases stay whole and only grow.
Grown(d, d2) ==
  \A dir \in Dirs :
    /\ Whole(dir, d) => Whole(dir, d2)
    /\ d[dir].main \subseteq d2[dir].main
    /\ Held(d[dir]) \subseteq Held(d2[dir])

\* A thread fits as well in later folders.
LEMMA ThreadOnward ==
  ASSUME NEW t, NEW s \in State, NEW d, NEW d2, NEW b, NEW b2, NEW c \in Nat, NEW c2 \in Nat,
         c <= c2, Grown(d, d2), ThreadFit(t, s, d, b, c),
         s.at = "copying" => d2[s.dir] = d[s.dir] /\ b2[s.dir] = b[s.dir]
  PROVE  ThreadFit(t, s, d2, b2, c2)
<1>1. s.name < c => s.name < c2
  BY DEF State
<1>2. s.set \in Settings => s.set.dir \in Dirs
  BY DEF Settings
<1>3. s.at \in Opening \cup {"moved"} => s.set \in Settings /\ s.set.dir = s.dir
  BY DEF ThreadFit
<1>4. (t \notin Menus /\ s.at \in Opening) \/ s.at \in {"import", "name"} => Whole(s.dir, d2)
  <2>1. (t \notin Menus /\ s.at \in Opening) \/ s.at \in {"import", "name"} => Whole(s.dir, d)
    BY DEF ThreadFit
  <2> QED
    BY <2>1 DEF Grown, Whole
<1>5. s.at = "fold" => s.seen \subseteq Held(d2[s.dir])
  <2>1. s.at = "fold" => s.seen \subseteq Held(d[s.dir]) /\ s.dir \in Dirs
    BY <1>2, <1>3 DEF ThreadFit, Opening
  <2> QED
    BY <2>1 DEF Grown
<1>6. s.at = "snapshot" /\ s.folded => s.seen \subseteq d2[s.dir].main
  <2>1. s.at = "snapshot" /\ s.folded => s.seen \subseteq d[s.dir].main /\ s.dir \in Dirs
    BY <1>2, <1>3 DEF ThreadFit, Opening
  <2> QED
    BY <2>1 DEF Grown
<1>7. s.at = "choose" => s.seen \subseteq d2[s.set.dir].main
  <2>1. s.at = "choose" => s.seen \subseteq d[s.set.dir].main /\ s.set.dir \in Dirs
    BY <1>2 DEF ThreadFit
  <2> QED
    BY <2>1 DEF Grown
<1>8. s.at = "copying" => /\ s.seen \subseteq s.has
                          /\ s.dir \in Dirs /\ b2[s.dir] = {}
                          /\ d2[s.dir].is = "torn" /\ d2[s.dir].main = {}
  BY DEF ThreadFit
<1>9. s.at = "snapping" => (s.folded => s.seen \subseteq s.has) /\ s.name < c2
  BY <1>1 DEF ThreadFit
<1> QED
  BY <1>4, <1>5, <1>6, <1>7, <1>8, <1>9 DEF ThreadFit

\* What the invariant says of one thread.
LEMMA AtThread ==
  ASSUME DesktopIInv, NEW t \in Threads
  PROVE  /\ thread[t] \in State /\ ThreadFit(t, thread[t], db, backups, clock)
         /\ thread[t].at # "idle" => up
         /\ FoldsDuringCopy \/ (t \in Menus => MoveFit(thread[t], db))
BY DEF DesktopIInv, Running, Named

\* A step of one thread.
LEMMA TurnKept ==
  ASSUME DesktopIInv, NEW t \in Threads, NEW s \in State, up',
         thread' = [thread EXCEPT ![t] = s],
         Typed', Folders', Serves', Grown(db, db'), clock <= clock',
         \A dir \in Dirs : db[dir].is = "torn" =>
           \/ thread[t].at = "copying" /\ thread[t].dir = dir
           \/ db'[dir] = db[dir] /\ backups'[dir] = backups[dir],
         ThreadFit(t, s, db', backups', clock'),
         s.at = "copying" =>
           (thread[t].at = "copying" /\ thread[t].dir = s.dir) \/ db[s.dir].is = "none",
         \/ FoldsDuringCopy
         \/ /\ file' \in Settings => Whole(file'.dir, db')
            /\ settings' # None => Whole(settings'.dir, db')
            /\ t \in Menus => MoveFit(s, db'),
         \/ FoldsDuringCopy
         \/ \A m \in Menus \ {t} : thread[m].at # "copying"
         \/ \A dir \in Dirs : Whole(dir, db) => db'[dir].main = db[dir].main,
         ~OnePicker \/ Alone'
  PROVE  DesktopIInv'
<1>1. /\ thread \in [Threads -> State] /\ clock \in Nat /\ clock' \in Nat
      /\ \A u \in Threads : ThreadFit(u, thread[u], db, backups, clock)
      /\ \A u, v \in Threads :
           u # v /\ thread[u].at = "copying" /\ thread[v].at = "copying" =>
             thread[u].dir # thread[v].dir
  BY DEF DesktopIInv, Running, Typed
<1>2. /\ thread' \in [Threads -> State] /\ thread'[t] = s
      /\ \A u \in Threads \ {t} : thread'[u] = thread[u]
  BY <1>1
<1>3. \A u \in Threads \ {t} : thread[u].at = "copying" =>
        /\ thread[u].dir \in Dirs /\ db[thread[u].dir].is = "torn"
        /\ db'[thread[u].dir] = db[thread[u].dir]
        /\ backups'[thread[u].dir] = backups[thread[u].dir]
  <2> SUFFICES ASSUME NEW u \in Threads \ {t}, thread[u].at = "copying"
               PROVE  /\ thread[u].dir \in Dirs /\ db[thread[u].dir].is = "torn"
                      /\ db'[thread[u].dir] = db[thread[u].dir]
                      /\ backups'[thread[u].dir] = backups[thread[u].dir]
    OBVIOUS
  <2>1. thread[u].dir \in Dirs /\ db[thread[u].dir].is = "torn"
    BY <1>1 DEF ThreadFit
  <2>2. ~(thread[t].at = "copying" /\ thread[t].dir = thread[u].dir)
    BY <1>1
  <2> QED
    BY <2>1, <2>2
<1>4. \A u \in Threads : ThreadFit(u, thread'[u], db', backups', clock')
  <2> SUFFICES ASSUME NEW u \in Threads
               PROVE  ThreadFit(u, thread'[u], db', backups', clock')
    OBVIOUS
  <2>1. CASE u = t
    BY <1>2, <2>1
  <2>2. CASE u # t
    <3>1. thread[u] \in State /\ ThreadFit(u, thread[u], db, backups, clock)
      BY <1>1
    <3>2. thread[u].at = "copying" => /\ db'[thread[u].dir] = db[thread[u].dir]
                                      /\ backups'[thread[u].dir] = backups[thread[u].dir]
      BY <1>3, <2>2
    <3>3. ThreadFit(u, thread[u], db', backups', clock')
      BY <1>1, <3>1, <3>2, ThreadOnward
    <3> QED
      BY <1>2, <2>2, <3>3
  <2> QED
    BY <2>1, <2>2
<1>5. \A u, v \in Threads :
        u # v /\ thread'[u].at = "copying" /\ thread'[v].at = "copying" =>
          thread'[u].dir # thread'[v].dir
  <2>1. ASSUME NEW u \in Threads \ {t}, s.at = "copying", thread[u].at = "copying"
        PROVE  s.dir # thread[u].dir
    <3>1. CASE thread[t].at = "copying" /\ thread[t].dir = s.dir
      BY <1>1, <2>1, <3>1
    <3>2. CASE db[s.dir].is = "none"
      BY <1>3, <2>1, <3>2
    <3> QED
      BY <2>1, <3>1, <3>2
  <2> QED
    BY <1>1, <1>2, <2>1
<1>6. Running'
  BY <1>2, <1>4, <1>5 DEF Running, ThreadFit, Whole, Held, State, ShellPlaces, MenuPlaces, Opening,
                         Settings
<1>7. FoldsDuringCopy \/ Named'
  <2> SUFFICES ASSUME ~FoldsDuringCopy
               PROVE  Named'
    OBVIOUS
  <2>1. Named
    BY DEF DesktopIInv
  <2>2. ASSUME NEW m \in Menus
        PROVE  MoveFit(thread'[m], db')
    <3>1. CASE m = t
      BY <1>2, <2>2, <3>1 DEF Threads
    <3>2. CASE m # t
      <4>1. m \in Threads /\ thread'[m] = thread[m]
        BY <1>2, <2>2, <3>2 DEF Threads
      <4>2. MoveFit(thread[m], db)
        BY <2>1, <2>2 DEF Named
      <4>3. thread[m].at \in {"choose", "copying", "save", "saving"} =>
              Whole(thread[m].set.dir, db')
        BY <4>2 DEF MoveFit, Grown, Whole
      <4>4. thread[m].at = "copying" => thread[m].has = db'[thread[m].set.dir].main
        <5>1. thread[m].at = "copying" =>
                Whole(thread[m].set.dir, db) /\ thread[m].has = db[thread[m].set.dir].main
          BY <4>2 DEF MoveFit
        <5> QED
          BY <2>2, <3>2, <5>1 DEF Whole
      <4> QED
        BY <4>1, <4>3, <4>4 DEF MoveFit
    <3> QED
      BY <3>1, <3>2
  <2> QED
    BY <2>2 DEF Named, MoveFit, Whole, Settings
<1> QED
  BY <1>6, <1>7 DEF DesktopIInv, OnePicker
\* A step that is not part of taking a snapshot leaves the snapshots of whole vaults alone.
LEMMA AloneKept ==
  ASSUME DesktopIInv, OnePicker, NEW t \in Threads, NEW s \in State,
         s.at = "snapping" => s = thread[t],
         thread' = [thread EXCEPT ![t] = s], launched' = launched,
         \A dir \in Dirs : /\ backups[dir] \subseteq backups'[dir]
                           /\ Whole(dir, db) => backups'[dir] = backups[dir],
         \/ s.at = "idle" \/ t \in Menus \/ thread[t].at # "idle"
         \/ \A u \in Threads \ Menus : thread[u].at = "idle"
  PROVE  Alone'
<1>1. Alone /\ thread \in [Threads -> State]
  BY DEF DesktopIInv, Running
<1>2. thread'[t] = s /\ \A u \in Threads \ {t} : thread'[u] = thread[u]
  BY <1>1
<1>3. \A u, v \in Threads \ Menus : thread'[u].at # "idle" /\ thread'[v].at # "idle" => u = v
  BY <1>1, <1>2 DEF Alone
<1>4. ASSUME NEW u \in Threads \ Menus, thread'[u].at = "snapping", NEW o \in backups'[thread'[u].dir]
      PROVE  o.at <= thread'[u].name /\ (o.at = thread'[u].name => o.has = Torn)
  <2>1. thread'[u] = thread[u]
    BY <1>2, <1>4
  <2>2. Whole(thread[u].dir, db)
    BY <1>4, <2>1, AtThread DEF ThreadFit, Opening
  <2>3. backups'[thread[u].dir] = backups[thread[u].dir]
    BY <2>2 DEF Whole
  <2> QED
    BY <1>1, <1>4, <2>1, <2>3 DEF Alone
<1>5. LaunchSnapshotKept'
  <2> SUFFICES ASSUME launched # None
               PROVE  \E o \in backups'[launched.dir] : o.has # Torn /\ (launched.folded => launched.seen \subseteq o.has)
    BY DEF LaunchSnapshotKept
  <2>1. PICK o \in backups[launched.dir] : o.has # Torn /\ (launched.folded => launched.seen \subseteq o.has)
    BY <1>1 DEF Alone, LaunchSnapshotKept
  <2>2. launched.dir \in Dirs
    BY DEF DesktopIInv, Typed
  <2> QED
    BY <2>1, <2>2
<1> QED
  BY <1>3, <1>4, <1>5 DEF Alone

\* A step that only moves one thread on, and may take the name of an export.
LEMMA MoveOn ==
  ASSUME DesktopIInv, NEW t \in Threads, NEW s \in State, up, UNCHANGED <<disk, memory>>,
         UNCHANGED <<promised, launched>>, target' \in {None, "whole"},
         thread' = [thread EXCEPT ![t] = s], ThreadFit(t, s, db, backups, clock),
         s.at \notin {"snapping", "copying"},
         \/ s.at = "idle" \/ t \in Menus \/ thread[t].at # "idle"
         \/ OnePicker => \A u \in Threads \ Menus : thread[u].at = "idle",
         FoldsDuringCopy \/ t \notin Menus \/ MoveFit(s, db)
  PROVE  DesktopIInv'
<1>1. /\ file' = file /\ db' = db /\ backups' = backups /\ clock' = clock
      /\ up' = up /\ settings' = settings /\ server' = server /\ client' = client
      /\ promised' = promised /\ launched' = launched
  BY DEF disk, memory
<1>2. Typed /\ Folders /\ Serves /\ (FoldsDuringCopy \/ Named)
  BY DEF DesktopIInv
<1>3. Typed'
  BY <1>1, <1>2 DEF Typed, Settings, Db, Snapshot
<1>4. Folders' /\ Serves'
  BY <1>1, <1>2 DEF Folders, FolderFit, Held, NoDb, Serves, Whole
<1>5. clock <= clock' /\ Grown(db, db')
  BY <1>1, <1>2 DEF Grown, Typed
<1>6. ~OnePicker \/ Alone'
  BY <1>1, AloneKept
<1>7. FoldsDuringCopy \/ (/\ file' \in Settings => Whole(file'.dir, db')
                          /\ settings' # None => Whole(settings'.dir, db')
                          /\ t \in Menus => MoveFit(s, db'))
  BY <1>1, <1>2 DEF Named
<1>8. /\ ThreadFit(t, s, db', backups', clock') /\ up'
      /\ \A dir \in Dirs : db[dir].is = "torn" =>
           db'[dir] = db[dir] /\ backups'[dir] = backups[dir]
      /\ \A dir \in Dirs : Whole(dir, db) => db'[dir].main = db[dir].main
  BY <1>1
<1> QED
  BY <1>3, <1>4, <1>5, <1>6, <1>7, <1>8, TurnKept

\* Nothing is needed of an idle thread.
LEMMA IdleFits ==
  ASSUME NEW t, NEW d, NEW b, NEW c
  PROVE  Idle \in State /\ Idle.at = "idle" /\ ThreadFit(t, Idle, d, b, c) /\ MoveFit(Idle, d)
BY DEF Idle, State, ShellPlaces, MenuPlaces, Opening, ThreadFit, MoveFit

\* A thread gives up or is done.
LEMMA ReturnKept ==
  ASSUME DesktopIInv, NEW t \in Threads, up, Return(t), UNCHANGED <<disk, memory>>,
         UNCHANGED <<promised, launched>>, target' \in {None, "whole"}
  PROVE  DesktopIInv'
<1>1. /\ Idle \in State /\ Idle.at = "idle" /\ ThreadFit(t, Idle, db, backups, clock)
      /\ MoveFit(Idle, db) /\ Idle.at \notin {"snapping", "copying"}
  BY IdleFits
<1>2. thread' = [thread EXCEPT ![t] = Idle]
  BY DEF Return, Go
<1> QED
  BY <1>1, <1>2, MoveOn

\* The fields of a thread that goes on to another place.
LEMMA Elsewhere ==
  ASSUME NEW s \in State, NEW place \in ShellPlaces \cup MenuPlaces
  PROVE  /\ [s EXCEPT !.at = place] \in State
         /\ [s EXCEPT !.at = place].at = place /\ [s EXCEPT !.at = place].dir = s.dir
         /\ [s EXCEPT !.at = place].set = s.set /\ [s EXCEPT !.at = place].name = s.name
         /\ [s EXCEPT !.at = place].has = s.has /\ [s EXCEPT !.at = place].seen = s.seen
BY DEF State

-----------------------------------------------------------------------------
(* Steps that move one thread on.                                          *)

\* Nobody else opens a vault when the startup is idle and there is one picker.
LEMMA NobodyOpens ==
  ASSUME DesktopIInv, NEW t \in Pickers, MenuShown(t), OnePicker
  PROVE  \A u \in Threads \ Menus : thread[u].at = "idle"
BY DEF OnePicker, MenuShown, At, Threads

\* A picker takes a folder.
LEMMA PickKept ==
  ASSUME DesktopIInv, NEW t \in Pickers, NEW route, NEW dir \in Dirs,
         PickVaultDir(t, route, dir)
  PROVE  DesktopIInv'
<1>1. PICK s : s = [Idle EXCEPT !.at = "open", !.dir = dir]
  OBVIOUS
<1>2. /\ MenuShown(t) /\ up /\ thread' = [thread EXCEPT ![t] = s]
      /\ UNCHANGED <<disk, memory, target, promised, launched>>
  BY <1>1 DEF PickVaultDir, Go, MenuShown, At
<1>3. s \in State /\ s.at = "open" /\ s.dir = dir
  BY <1>1 DEF Idle, State, ShellPlaces
<1>4. t \in Threads /\ t \notin Menus
  BY DesktopAssumption DEF Threads
<1>5. ThreadFit(t, s, db, backups, clock)
  BY <1>3, <1>4 DEF ThreadFit, ShellPlaces, Opening
<1>6. OnePicker => \A u \in Threads \ Menus : thread[u].at = "idle"
  BY <1>2, NobodyOpens
<1>7. target' \in {None, "whole"} /\ s.at \notin {"snapping", "copying"}
  BY <1>2, <1>3 DEF DesktopIInv, Typed
<1> QED
  BY <1>2, <1>3, <1>4, <1>5, <1>6, <1>7, MoveOn
\* What the folders hold are records.
LEMMA HeldRecords ==
  ASSUME DesktopIInv, NEW dir \in Dirs
  PROVE  /\ db[dir] \in Db /\ db[dir].main \subseteq Records /\ Content(dir) \subseteq Records
         /\ Content(dir) = Held(db[dir]) /\ FolderFit(db[dir], backups[dir], promised[dir], clock)
BY DEF DesktopIInv, Typed, Db, Content, Held, Folders

\* The target of an export, while no export takes its name.
LEMMA TargetStays ==
  ASSUME DesktopIInv, UNCHANGED target
  PROVE  target' \in {None, "whole"}
BY DEF DesktopIInv, Typed

\* The server starts, or the opening ends.
LEMMA StartServerKept ==
  ASSUME DesktopIInv, NEW t \in Threads \ Menus, StartServer(t)
  PROVE  DesktopIInv'
<1>1. /\ up /\ thread[t].at = "serve"
      /\ UNCHANGED <<disk, memory, target, promised, launched>> /\ target' \in {None, "whole"}
  BY TargetStays DEF StartServer, At
<1>2. CASE Return(t)
  BY <1>1, <1>2, ReturnKept
<1>3. CASE To(t, "save")
  <2>1. PICK s : s = [thread[t] EXCEPT !.at = "save"]
    OBVIOUS
  <2>2. thread[t] \in State /\ ThreadFit(t, thread[t], db, backups, clock)
    BY AtThread
  <2>3. "save" \in ShellPlaces \cup MenuPlaces
    BY DEF MenuPlaces
  <2>4. /\ s \in State /\ s.at = "save" /\ s.dir = thread[t].dir /\ s.set = thread[t].set
    BY <2>1, <2>2, <2>3, Elsewhere
  <2>5. ThreadFit(t, s, db, backups, clock)
    BY <1>1, <2>2, <2>4 DEF ThreadFit, ShellPlaces, Opening
  <2>6. thread' = [thread EXCEPT ![t] = s]
    BY <1>3, <2>1 DEF To, Go
  <2> QED
    BY <1>1, <2>4, <2>5, <2>6, MoveOn
<1> QED
  BY <1>2, <1>3 DEF StartServer

\* An import or an export begins with the server of that moment.
LEMMA BeginKept ==
  ASSUME DesktopIInv, NEW t \in Menus, BeginImport(t) \/ BeginExport(t)
  PROVE  DesktopIInv'
<1>1. /\ up /\ server # None /\ UNCHANGED <<disk, memory, target, promised, launched>>
      /\ target' \in {None, "whole"} /\ t \in Threads
  BY TargetStays DEF BeginImport, BeginExport, MenuShown, At, Threads
<1>2. Whole(server, db)
  BY <1>1 DEF DesktopIInv, Serves
<1>3. PICK s : /\ s \in {[Idle EXCEPT !.at = "import", !.dir = server, !.has = Records],
                         [Idle EXCEPT !.at = "name", !.dir = server]}
               /\ thread' = [thread EXCEPT ![t] = s]
  BY DEF BeginImport, BeginExport, Go
<1>4. s \in State /\ s.at \in {"import", "name"} /\ s.dir = server
  <2>1. server \in Dirs
    BY <1>2 DEF Whole
  <2>2. CASE s = [Idle EXCEPT !.at = "import", !.dir = server, !.has = Records]
    BY <2>1, <2>2 DEF Idle, State, MenuPlaces
  <2>3. CASE s = [Idle EXCEPT !.at = "name", !.dir = server]
    BY <2>1, <2>3 DEF Idle, State, MenuPlaces
  <2> QED
    BY <1>3, <2>2, <2>3
<1>5. ThreadFit(t, s, db, backups, clock) /\ MoveFit(s, db)
  BY <1>2, <1>4 DEF ThreadFit, MoveFit, MenuPlaces, Opening
<1> QED
  BY <1>1, <1>3, <1>4, <1>5, MoveOn

\* The temporary file of an export.
LEMMA WriteTempKept ==
  ASSUME DesktopIInv, NEW t \in Menus, WriteTemp(t)
  PROVE  DesktopIInv'
<1>1. /\ up /\ thread[t].at = "name" /\ UNCHANGED <<disk, memory, target, promised, launched>>
      /\ target' \in {None, "whole"} /\ t \in Threads
  BY TargetStays DEF WriteTemp, At, Threads
<1>2. CASE Return(t)
  BY <1>1, <1>2, ReturnKept
<1>3. PICK r : r = Content(thread[t].dir)
  OBVIOUS
<1>4. thread[t] \in State /\ r \subseteq Records
  <2>1. thread[t] \in State /\ Whole(thread[t].dir, db)
    BY <1>1, AtThread DEF ThreadFit
  <2> QED
    BY <1>3, <2>1, HeldRecords DEF Whole
<1>5. Exported(r) \subseteq Records
  BY <1>4 DEF Exported
<1>6. ASSUME NEW has \in {Exported(r), {}},
             Go(t, [thread[t] EXCEPT !.at = "written", !.has = has, !.seen = r])
      PROVE  DesktopIInv'
  <2>1. PICK s : s = [thread[t] EXCEPT !.at = "written", !.has = has, !.seen = r]
    OBVIOUS
  <2>2. s \in State /\ s.at = "written"
    BY <1>4, <1>5, <2>1 DEF State, MenuPlaces
  <2>3. ThreadFit(t, s, db, backups, clock) /\ MoveFit(s, db)
    BY <2>2 DEF ThreadFit, MoveFit, MenuPlaces, Opening
  <2>4. thread' = [thread EXCEPT ![t] = s]
    BY <1>6, <2>1 DEF Go
  <2> QED
    BY <1>1, <2>2, <2>3, <2>4, MoveOn
<1> QED
  BY <1>2, <1>3, <1>6 DEF WriteTemp

\* It is written through to the disk.
LEMMA SyncTempKept ==
  ASSUME DesktopIInv, NEW t \in Menus, SyncTemp(t)
  PROVE  DesktopIInv'
<1>1. /\ up /\ thread[t].at = "written" /\ UNCHANGED <<disk, memory, target, promised, launched>>
      /\ target' \in {None, "whole"} /\ t \in Threads /\ thread[t] \in State
  BY TargetStays, AtThread DEF SyncTemp, At, Threads
<1>2. CASE Return(t)
  BY <1>1, <1>2, ReturnKept
<1>3. CASE To(t, "synced")
  <2>1. PICK s : s = [thread[t] EXCEPT !.at = "synced"]
    OBVIOUS
  <2>2. "synced" \in ShellPlaces \cup MenuPlaces
    BY DEF MenuPlaces
  <2>3. s \in State /\ s.at = "synced"
    BY <1>1, <2>1, <2>2, Elsewhere
  <2>4. ThreadFit(t, s, db, backups, clock) /\ MoveFit(s, db)
    BY <2>3 DEF ThreadFit, MoveFit, MenuPlaces, Opening
  <2>5. thread' = [thread EXCEPT ![t] = s]
    BY <1>3, <2>1 DEF To, Go
  <2> QED
    BY <1>1, <2>3, <2>4, <2>5, MoveOn
<1> QED
  BY <1>2, <1>3 DEF SyncTemp

\* Only what was written through takes the name.
LEMMA RenameTempKept ==
  ASSUME DesktopIInv, NEW t \in Menus, RenameTemp(t)
  PROVE  DesktopIInv'
<1>1. /\ up /\ Return(t) /\ UNCHANGED <<disk, memory, promised, launched>> /\ t \in Threads
  BY DEF RenameTemp, Threads
<1>2. target' \in {None, "whole"}
  BY DEF RenameTemp, Renames, DesktopIInv, Typed
<1> QED
  BY <1>1, <1>2, ReturnKept

\* The steps that only end.
LEMMA EndKept ==
  ASSUME DesktopIInv, NEW t \in Menus, EndImport(t) \/ RefuseMove(t)
  PROVE  DesktopIInv'
<1>1. /\ up /\ Return(t) /\ UNCHANGED <<disk, memory, target, promised, launched>>
      /\ target' \in {None, "whole"} /\ t \in Threads
  BY TargetStays DEF EndImport, RefuseMove, At, Threads
<1> QED
  BY <1>1, ReturnKept
-----------------------------------------------------------------------------
(* Steps that change the folders.                                          *)

\* What a step of one thread does to the databases: one folder gets a database
\* that is as whole and holds no less, and what it promised is still there.
LEMMA OneFolder ==
  ASSUME DesktopIInv, NEW dir \in Dirs, NEW x \in Db, db' = [db EXCEPT ![dir] = x],
         Whole(dir, db) => x.is = "whole",
         db[dir].main \subseteq x.main, Held(db[dir]) \subseteq Held(x),
         NEW p \in SUBSET Records, promised' = [promised EXCEPT ![dir] = p],
         UNCHANGED <<backups, clock>>, FolderFit(x, backups[dir], p, clock)
  PROVE  /\ db' \in [Dirs -> Db] /\ promised' \in [Dirs -> SUBSET Records]
         /\ db'[dir] = x /\ \A o \in Dirs \ {dir} : db'[o] = db[o]
         /\ Folders' /\ Grown(db, db') /\ clock <= clock' /\ clock \in Nat
<1>1. Typed /\ Folders
  BY DEF DesktopIInv
<1>2. db' \in [Dirs -> Db] /\ promised' \in [Dirs -> SUBSET Records]
  BY <1>1 DEF Typed
<1>3. db'[dir] = x /\ \A o \in Dirs \ {dir} : db'[o] = db[o]
  BY <1>1 DEF Typed
<1>4. promised'[dir] = p /\ \A o \in Dirs \ {dir} : promised'[o] = promised[o]
  BY <1>1 DEF Typed
<1>5. ASSUME NEW o \in Dirs
      PROVE  FolderFit(db'[o], backups[o], promised'[o], clock)
  BY <1>1, <1>3, <1>4 DEF Folders
<1>6. Folders'
  BY <1>5 DEF Folders, FolderFit, Held, NoDb
<1>7. Grown(db, db')
  BY <1>3 DEF Grown, Whole
<1> QED
  BY <1>1, <1>2, <1>3, <1>6, <1>7 DEF Typed

\* Where the promise stays as well.
LEMMA SamePromise ==
  ASSUME DesktopIInv, NEW dir \in Dirs, UNCHANGED promised
  PROVE  /\ promised' = [promised EXCEPT ![dir] = promised[dir]]
         /\ promised[dir] \in SUBSET Records
BY DEF DesktopIInv, Typed

\* A fold moves the log into the main file.
LEMMA FoldedFolder ==
  ASSUME DesktopIInv, NEW dir \in Dirs, Whole(dir, db)
  PROVE  \E x \in Db :
           /\ Folded(dir) = [db EXCEPT ![dir] = x] /\ x.is = "whole" /\ x.main = Content(dir)
           /\ Held(x) = Content(dir) /\ db[dir].main \subseteq x.main
           /\ FolderFit(x, backups[dir], promised[dir], clock)
<1>1. PICK x : x = [db[dir] EXCEPT !.main = Content(dir), !.wal = {}]
  OBVIOUS
<1>2. /\ db \in [Dirs -> Db] /\ db[dir] \in Db /\ Content(dir) \subseteq Records
      /\ Content(dir) = Held(db[dir]) /\ FolderFit(db[dir], backups[dir], promised[dir], clock)
  BY HeldRecords DEF DesktopIInv, Typed
<1>3. x \in Db /\ x.is = db[dir].is /\ x.main = Content(dir) /\ x.wal = {}
  BY <1>1, <1>2 DEF Db
<1>4. Folded(dir) = [db EXCEPT ![dir] = x]
  BY <1>1, <1>2 DEF Folded
<1>5. x.is = "whole" /\ Held(x) = Content(dir) /\ db[dir].main \subseteq x.main
  BY <1>3 DEF Whole, Held, Content
<1>6. FolderFit(x, backups[dir], promised[dir], clock)
  BY <1>2, <1>5 DEF FolderFit
<1> QED
  BY <1>3, <1>4, <1>5, <1>6

\* While whole folders stay whole, servers do.
LEMMA ServersStay ==
  ASSUME DesktopIInv, UNCHANGED <<server, client>>, Grown(db, db')
  PROVE  Serves'
BY DEF DesktopIInv, Serves, Grown, Whole

\* And settings name whole vaults.
LEMMA NamesStay ==
  ASSUME DesktopIInv, UNCHANGED <<file, settings>>, Grown(db, db'), ~FoldsDuringCopy
  PROVE  /\ file' \in Settings => Whole(file'.dir, db')
         /\ settings' # None => Whole(settings'.dir, db')
BY DEF DesktopIInv, Named, Grown, Whole

\* Nobody copies where a fold may happen; and an opening never does.
LEMMA NoCopies ==
  ASSUME DesktopIInv, MayFold
  PROVE  FoldsDuringCopy \/ \A m \in Menus : thread[m].at # "copying"
BY DEF MayFold

\* A step that changes the database of one folder, and may move one thread on.
LEMMA DbTurn ==
  ASSUME DesktopIInv, NEW t \in Threads, NEW s \in State, up,
         UNCHANGED <<file, backups, clock, memory, target, launched>>,
         thread' = [thread EXCEPT ![t] = s], s.at = "snapping" => s = thread[t],
         NEW dir \in Dirs, NEW x \in Db, db' = [db EXCEPT ![dir] = x],
         NEW p \in SUBSET Records, promised' = [promised EXCEPT ![dir] = p],
         Whole(dir, db) => x.is = "whole", db[dir].is = "torn" => x = db[dir],
         db[dir].main \subseteq x.main, Held(db[dir]) \subseteq Held(x),
         FolderFit(x, backups[dir], p, clock),
         Grown(db, db') => ThreadFit(t, s, db', backups, clock),
         s.at = "copying" =>
           (thread[t].at = "copying" /\ thread[t].dir = s.dir) \/ db[s.dir].is = "none",
         s.at = "idle" \/ t \in Menus \/ thread[t].at # "idle",
         FoldsDuringCopy \/ t \notin Menus \/ (Grown(db, db') => MoveFit(s, db')),
         \/ FoldsDuringCopy
         \/ \A m \in Menus \ {t} : thread[m].at # "copying"
         \/ Whole(dir, db) => x.main = db[dir].main
  PROVE  DesktopIInv'
<1>1. /\ file' = file /\ backups' = backups /\ clock' = clock /\ up' = up
      /\ settings' = settings /\ server' = server /\ client' = client
      /\ target' = target /\ launched' = launched
  BY DEF memory
<1>2. /\ db' \in [Dirs -> Db] /\ promised' \in [Dirs -> SUBSET Records]
      /\ db'[dir] = x /\ \A o \in Dirs \ {dir} : db'[o] = db[o]
      /\ Folders' /\ Grown(db, db') /\ clock <= clock' /\ clock \in Nat
  BY <1>1, OneFolder
<1>3. Typed'
  BY <1>1, <1>2 DEF DesktopIInv, Typed, Settings, Snapshot, Db
<1>4. Serves'
  BY <1>1, <1>2, ServersStay
<1>5. ~OnePicker \/ Alone'
  BY <1>1, AloneKept
<1>6. FoldsDuringCopy \/ (/\ file' \in Settings => Whole(file'.dir, db')
                          /\ settings' # None => Whole(settings'.dir, db')
                          /\ t \in Menus => MoveFit(s, db'))
  BY <1>1, <1>2, NamesStay
<1>7. \A o \in Dirs : db[o].is = "torn" => db'[o] = db[o] /\ backups'[o] = backups[o]
  BY <1>1, <1>2
<1>8. \/ FoldsDuringCopy
      \/ \A m \in Menus \ {t} : thread[m].at # "copying"
      \/ \A o \in Dirs : Whole(o, db) => db'[o].main = db[o].main
  BY <1>2
<1>9. up' /\ ThreadFit(t, s, db', backups', clock')
  BY <1>1, <1>2
<1> QED
  BY <1>2, <1>3, <1>4, <1>5, <1>6, <1>7, <1>8, <1>9, TurnKept

\* Opening makes a database where there is none.
LEMMA OpenedFolder ==
  ASSUME DesktopIInv, NEW dir \in Dirs, db[dir].is # "torn"
  PROVE  \E x \in Db :
           /\ Opened(dir) = [db EXCEPT ![dir] = x] /\ x.is = "whole"
           /\ x.main = db[dir].main /\ Held(x) = Content(dir)
           /\ FolderFit(x, backups[dir], promised[dir], clock)
<1>1. PICK x : x = [db[dir] EXCEPT !.is = "whole"]
  OBVIOUS
<1>2. /\ db \in [Dirs -> Db] /\ db[dir] \in Db
      /\ Content(dir) = Held(db[dir]) /\ FolderFit(db[dir], backups[dir], promised[dir], clock)
  BY HeldRecords DEF DesktopIInv, Typed
<1>3. x \in Db /\ x.is = "whole" /\ x.main = db[dir].main /\ x.wal = db[dir].wal
  BY <1>1, <1>2 DEF Db
<1>4. Opened(dir) = [db EXCEPT ![dir] = x]
  <2>1. CASE db[dir].is = "none"
    BY <1>1, <2>1 DEF Opened
  <2>2. CASE db[dir].is # "none"
    <3>1. db[dir].is = "whole"
      BY <1>2, <2>2 DEF Db
    <3>2. x = db[dir]
      BY <1>1, <1>2, <3>1 DEF Db
    <3> QED
      BY <2>2, <3>2 DEF Opened
  <2> QED
    BY <2>1, <2>2
<1>5. Held(x) = Content(dir)
  BY <1>3 DEF Held, Content
<1>6. FolderFit(x, backups[dir], promised[dir], clock)
  BY <1>2, <1>3, <1>5 DEF FolderFit
<1> QED
  BY <1>3, <1>4, <1>5, <1>6

\* Where the settings cannot be read there are defaults.
LEMMA PreferencesTyped ==
  ASSUME DesktopIInv, NEW dir \in Dirs
  PROVE  Preferences(dir) \in Settings /\ Preferences(dir).dir = dir
<1>1. Loaded \in Settings \cup {None}
  BY DEF DesktopIInv, Typed, Loaded
<1>2. DefaultKeep \in 1..DefaultKeep
  BY DesktopAssumption
<1>3. CASE Loaded = None
  <2>1. [dir |-> dir, auto |-> TRUE, keep |-> DefaultKeep] \in Settings
    BY <1>2 DEF Settings
  <2> QED
    BY <1>3, <2>1 DEF Preferences
<1>4. CASE Loaded # None
  <2>1. PICK l \in Settings : l = Loaded
    BY <1>1, <1>4
  <2>2. Preferences(dir) = [l EXCEPT !.dir = dir]
    BY <1>4, <2>1 DEF Preferences
  <2> QED
    BY <2>2 DEF Settings
<1> QED
  BY <1>3, <1>4

\* A thread that starts the server of a folder.
LEMMA ServingFits ==
  ASSUME NEW t, t \notin Menus, NEW set \in Settings, NEW d, NEW b, NEW c,
         NEW s, s = [Idle EXCEPT !.at = "serve", !.dir = set.dir, !.set = set]
  PROVE  /\ s \in State /\ s.at = "serve"
         /\ Whole(set.dir, d) => ThreadFit(t, s, d, b, c)
<1>1. set.dir \in Dirs
  BY DEF Settings
<1>2. s \in State /\ s.at = "serve" /\ s.dir = set.dir /\ s.set = set
  BY <1>1 DEF Idle, State, ShellPlaces, Opening
<1>3. Whole(set.dir, d) => ThreadFit(t, s, d, b, c)
  BY <1>2 DEF ThreadFit, ShellPlaces, Opening
<1> QED
  BY <1>2, <1>3

\* The vault opens, or the opening ends.
LEMMA OpenDatabaseKept ==
  ASSUME DesktopIInv, NEW t \in Threads \ Menus, OpenDatabase(t)
  PROVE  DesktopIInv'
<1>1. /\ up /\ thread[t].at = "open" /\ thread[t] \in State /\ thread[t].dir \in Dirs
      /\ UNCHANGED <<file, backups, clock, memory, target, promised, launched>>
  BY AtThread DEF OpenDatabase, At, ThreadFit
<1>2. PICK dir \in Dirs : dir = thread[t].dir
  BY <1>1
<1>3. CASE Return(t) /\ UNCHANGED db
  <2>1. UNCHANGED <<disk, memory>> /\ target' \in {None, "whole"}
    BY <1>1, <1>3, TargetStays DEF disk
  <2> QED
    BY <1>1, <1>3, <2>1, ReturnKept
<1>4. ASSUME db[dir].is # "torn", db' = Opened(dir), NEW s \in State, thread' = [thread EXCEPT ![t] = s],
             s.at \in {"fold", "serve"},
             Whole(dir, db') => ThreadFit(t, s, db', backups, clock) \/ Content(dir) # Held(db'[dir])
      PROVE  DesktopIInv'
  <2>1. PICK x \in Db :
           /\ Opened(dir) = [db EXCEPT ![dir] = x] /\ x.is = "whole"
           /\ x.main = db[dir].main /\ Held(x) = Content(dir)
           /\ FolderFit(x, backups[dir], promised[dir], clock)
    BY <1>4, OpenedFolder
  <2>2. promised' = [promised EXCEPT ![dir] = promised[dir]] /\ promised[dir] \in SUBSET Records
    BY <1>1, SamePromise
  <2>3. db' = [db EXCEPT ![dir] = x] /\ db'[dir] = x
    BY <1>4, <2>1 DEF DesktopIInv, Typed
  <2>4. ThreadFit(t, s, db', backups, clock)
    BY <1>4, <2>1, <2>3 DEF Whole
  <2>5. Content(dir) = Held(db[dir])
    BY HeldRecords
  <2> QED
    BY <1>1, <1>4, <2>1, <2>2, <2>3, <2>4, <2>5, DbTurn
<1>5. ASSUME db[dir].is # "torn", db' = Opened(dir), Serving(t, Preferences(dir))
      PROVE  DesktopIInv'
  <2>1. PICK s : s = [Idle EXCEPT !.at = "serve", !.dir = Preferences(dir).dir,
                                  !.set = Preferences(dir)]
    OBVIOUS
  <2>2. s \in State /\ s.at = "serve" /\ (Whole(dir, db') => ThreadFit(t, s, db', backups, clock))
    BY <2>1, PreferencesTyped, ServingFits
  <2>3. thread' = [thread EXCEPT ![t] = s]
    BY <1>5, <2>1 DEF Serving, Go
  <2> QED
    BY <1>4, <1>5, <2>2, <2>3
<1>6. ASSUME db[dir].is # "torn", db' = Opened(dir),
             Go(t, [thread[t] EXCEPT !.at = "fold", !.set = Preferences(dir), !.seen = Content(dir)])
      PROVE  DesktopIInv'
  <2>1. PICK s : s = [thread[t] EXCEPT !.at = "fold", !.set = Preferences(dir),
                                       !.seen = Content(dir)]
    OBVIOUS
  <2>2. /\ Preferences(dir) \in Settings /\ Preferences(dir).dir = dir
        /\ Content(dir) \subseteq Records
    BY PreferencesTyped, HeldRecords
  <2>3. /\ s \in State /\ s.at = "fold" /\ s.dir = dir /\ s.set \in Settings /\ s.set.dir = dir
        /\ s.seen = Content(dir)
    BY <1>1, <1>2, <2>1, <2>2 DEF State, ShellPlaces, Opening
  <2>4. Whole(dir, db') => ThreadFit(t, s, db', backups, clock) \/ Content(dir) # Held(db'[dir])
    BY <2>3 DEF ThreadFit, ShellPlaces, Opening
  <2>5. thread' = [thread EXCEPT ![t] = s]
    BY <1>6, <2>1 DEF Go
  <2> QED
    BY <1>4, <1>6, <2>3, <2>4, <2>5
<1> QED
  BY <1>2, <1>3, <1>5, <1>6 DEF OpenDatabase

\* The log is folded before the snapshot, or the snapshot takes the main file as it is.
LEMMA FoldAtOpenKept ==
  ASSUME DesktopIInv, NEW t \in Threads \ Menus, FoldAtOpen(t)
  PROVE  DesktopIInv'
<1>1. /\ up /\ thread[t].at = "fold" /\ MayFold
      /\ UNCHANGED <<file, backups, clock, memory, target, promised, launched>>
  BY DEF FoldAtOpen, At
<1>2. /\ thread[t] \in State /\ Whole(thread[t].dir, db) /\ thread[t].set \in Settings
      /\ thread[t].set.dir = thread[t].dir /\ thread[t].seen \subseteq Held(db[thread[t].dir])
  BY <1>1, AtThread DEF ThreadFit, Opening
<1>3. PICK dir \in Dirs : dir = thread[t].dir
  BY <1>2 DEF Whole
<1>4. Content(dir) = Held(db[dir]) /\ db[dir].main \subseteq Records
  BY HeldRecords
<1>5. CASE /\ db' = Folded(dir)
           /\ Go(t, [thread[t] EXCEPT !.at = "snapshot", !.folded = TRUE])
  <2>1. PICK x \in Db :
           /\ Folded(dir) = [db EXCEPT ![dir] = x] /\ x.is = "whole" /\ x.main = Content(dir)
           /\ Held(x) = Content(dir) /\ db[dir].main \subseteq x.main
           /\ FolderFit(x, backups[dir], promised[dir], clock)
    BY <1>2, <1>3, FoldedFolder
  <2>2. promised' = [promised EXCEPT ![dir] = promised[dir]] /\ promised[dir] \in SUBSET Records
    BY <1>1, SamePromise
  <2>3. db' = [db EXCEPT ![dir] = x] /\ db'[dir] = x
    BY <1>5, <2>1 DEF DesktopIInv, Typed
  <2>4. PICK s : s = [thread[t] EXCEPT !.at = "snapshot", !.folded = TRUE]
    OBVIOUS
  <2>5. "snapshot" \in ShellPlaces \cup MenuPlaces
    BY DEF ShellPlaces, Opening
  <2>6. /\ s \in State /\ s.at = "snapshot" /\ s.dir = dir /\ s.set = thread[t].set
        /\ s.seen = thread[t].seen
    BY <1>2, <1>3, <2>4, <2>5 DEF State
  <2>7. ThreadFit(t, s, db', backups, clock)
    BY <1>2, <1>3, <1>4, <2>1, <2>3, <2>6 DEF ThreadFit, ShellPlaces, Opening, Whole
  <2>8. thread' = [thread EXCEPT ![t] = s]
    BY <1>5, <2>4 DEF Go
  <2>9. FoldsDuringCopy \/ \A m \in Menus : thread[m].at # "copying"
    BY <1>1, NoCopies
  <2>10. db[dir].is = "whole"
    BY <1>2, <1>3 DEF Whole
  <2>11. Held(db[dir]) \subseteq Held(x) /\ thread[t].at # "idle" /\ t \notin Menus
    BY <1>1, <1>4, <2>1
  <2>12. up /\ UNCHANGED <<file, backups, clock, memory, target, launched>>
    BY <1>1
  <2>13. /\ x.is = "whole" /\ db[dir].main \subseteq x.main
         /\ FolderFit(x, backups[dir], promised[dir], clock)
    BY <2>1
  <2>14. s \in State /\ s.at = "snapshot"
    BY <2>6
  <2> QED
    BY <2>2, <2>3, <2>7, <2>8, <2>9, <2>10, <2>11, <2>12, <2>13, <2>14, DbTurn
<1>6. CASE /\ UNCHANGED db
           /\ Go(t, [thread[t] EXCEPT !.at = "snapshot", !.folded = FALSE])
  <2>1. PICK s : s = [thread[t] EXCEPT !.at = "snapshot", !.folded = FALSE]
    OBVIOUS
  <2>2. /\ s \in State /\ s.at = "snapshot" /\ s.dir = dir /\ s.set = thread[t].set
        /\ ~s.folded
    BY <1>2, <1>3, <2>1 DEF State, ShellPlaces, Opening
  <2>3. ThreadFit(t, s, db, backups, clock)
    BY <1>2, <1>3, <2>2 DEF ThreadFit, ShellPlaces, Opening
  <2>4. thread' = [thread EXCEPT ![t] = s]
    BY <1>6, <2>1 DEF Go
  <2>5. UNCHANGED <<disk, memory>> /\ target' \in {None, "whole"}
    BY <1>1, <1>6, TargetStays DEF disk
  <2> QED
    BY <1>1, <2>2, <2>3, <2>4, <2>5, MoveOn
<1> QED
  BY <1>3, <1>5, <1>6 DEF FoldAtOpen

\* The startup, when no thread moves.
LEMMA StartupStays ==
  ASSUME DesktopIInv, UNCHANGED thread, UNCHANGED <<backups, clock>>
  PROVE  /\ "startup" \in Threads \ Menus /\ thread["startup"] \in State
         /\ thread["startup"].at # "copying"
         /\ thread' = [thread EXCEPT !["startup"] = thread["startup"]]
         /\ Grown(db, db') => ThreadFit("startup", thread["startup"], db', backups, clock)
<1>1. "startup" \in Threads \ Menus
  BY DesktopAssumption DEF Threads
<1>2. /\ thread["startup"] \in State
      /\ ThreadFit("startup", thread["startup"], db, backups, clock)
  BY <1>1, AtThread
<1>3. thread["startup"].at # "copying"
  BY <1>1, <1>2 DEF ThreadFit, ShellPlaces, Opening
<1>4. thread' = [thread EXCEPT !["startup"] = thread["startup"]]
  BY <1>1 DEF DesktopIInv, Running
<1>5. clock \in Nat /\ clock <= clock
  BY DEF DesktopIInv, Typed
<1>6. Grown(db, db') => ThreadFit("startup", thread["startup"], db', backups, clock)
  BY <1>2, <1>3, <1>5, ThreadOnward
<1> QED
  BY <1>1, <1>2, <1>3, <1>4, <1>6

\* A record goes to the log, and the vault promises it.
LEMMA StoredFolder ==
  ASSUME DesktopIInv, NEW dir \in Dirs, Whole(dir, db), NEW record \in Records, Stored(dir, record)
  PROVE  \E x \in Db, p \in SUBSET Records :
           /\ db' = [db EXCEPT ![dir] = x] /\ promised' = [promised EXCEPT ![dir] = p]
           /\ x.is = "whole" /\ db[dir].is = "whole" /\ x.main = db[dir].main
           /\ Held(db[dir]) \subseteq Held(x) /\ FolderFit(x, backups[dir], p, clock)
<1>1. PICK x : x = [db[dir] EXCEPT !.wal = @ \cup {record}]
  OBVIOUS
<1>2. PICK p : p = promised[dir] \cup {record}
  OBVIOUS
<1>3. /\ db \in [Dirs -> Db] /\ db[dir] \in Db /\ promised \in [Dirs -> SUBSET Records]
      /\ FolderFit(db[dir], backups[dir], promised[dir], clock)
  BY HeldRecords DEF DesktopIInv, Typed
<1>4. x \in Db /\ x.is = "whole" /\ x.main = db[dir].main /\ x.wal = db[dir].wal \cup {record}
  BY <1>1, <1>3 DEF Db, Whole
<1>5. p \in SUBSET Records
  BY <1>2, <1>3
<1>6. db' = [db EXCEPT ![dir] = x] /\ promised' = [promised EXCEPT ![dir] = p]
  BY <1>1, <1>2, <1>3 DEF Stored
<1>7. FolderFit(x, backups[dir], p, clock) /\ Held(db[dir]) \subseteq Held(x)
  BY <1>2, <1>3, <1>4 DEF FolderFit, Held
<1> QED
  BY <1>4, <1>5, <1>6, <1>7 DEF Whole

\* The web client writes a record.
LEMMA ClientPutKept ==
  ASSUME DesktopIInv, NEW record \in Records, ClientPut(record)
  PROVE  DesktopIInv'
<1>1. up /\ client # None /\ Stored(client, record) /\ UNCHANGED thread
  BY DEF ClientPut
<1>2. UNCHANGED <<file, backups, clock, memory, target, launched>>
  BY <1>1 DEF Stored
<1>3. PICK dir \in Dirs : dir = client /\ Whole(dir, db)
  BY <1>1 DEF DesktopIInv, Serves, Whole
<1>4. PICK x \in Db, p \in SUBSET Records :
        /\ db' = [db EXCEPT ![dir] = x] /\ promised' = [promised EXCEPT ![dir] = p]
        /\ x.is = "whole" /\ db[dir].is = "whole" /\ x.main = db[dir].main
        /\ Held(db[dir]) \subseteq Held(x) /\ FolderFit(x, backups[dir], p, clock)
  BY <1>1, <1>3, StoredFolder
<1>5. /\ "startup" \in Threads \ Menus /\ thread["startup"] \in State
      /\ thread["startup"].at # "copying"
      /\ thread' = [thread EXCEPT !["startup"] = thread["startup"]]
      /\ Grown(db, db') => ThreadFit("startup", thread["startup"], db', backups, clock)
  BY <1>1, <1>2, StartupStays
<1> QED
  BY <1>1, <1>2, <1>4, <1>5, DbTurn

\* The server folds its log.
LEMMA FoldLogKept ==
  ASSUME DesktopIInv, NEW dir \in Dirs, FoldLog(dir)
  PROVE  DesktopIInv'
<1>1. /\ up /\ client = dir /\ MayFold /\ db' = Folded(dir)
      /\ UNCHANGED <<file, backups, clock, memory, thread, target, promised, launched>>
  BY DEF FoldLog
<1>2. Whole(dir, db)
  BY <1>1, DesktopAssumption DEF DesktopIInv, Serves
<1>3. PICK x \in Db :
        /\ Folded(dir) = [db EXCEPT ![dir] = x] /\ x.is = "whole" /\ x.main = Content(dir)
        /\ Held(x) = Content(dir) /\ db[dir].main \subseteq x.main
        /\ FolderFit(x, backups[dir], promised[dir], clock)
  BY <1>2, FoldedFolder
<1>4. promised' = [promised EXCEPT ![dir] = promised[dir]] /\ promised[dir] \in SUBSET Records
  BY <1>1, SamePromise
<1>5. /\ "startup" \in Threads \ Menus /\ thread["startup"] \in State
      /\ thread["startup"].at # "copying"
      /\ thread' = [thread EXCEPT !["startup"] = thread["startup"]]
      /\ Grown(db, db') => ThreadFit("startup", thread["startup"], db', backups, clock)
  BY <1>1, StartupStays
<1>6. FoldsDuringCopy \/ \A m \in Menus : thread[m].at # "copying"
  BY <1>1, NoCopies
<1>7. Held(db[dir]) \subseteq Held(x) /\ db[dir].is = "whole" /\ db' = [db EXCEPT ![dir] = x]
  BY <1>1, <1>2, <1>3, HeldRecords DEF Whole
<1>8. up /\ UNCHANGED <<file, backups, clock, memory, target, launched>>
  BY <1>1
<1>9. /\ x.is = "whole" /\ db[dir].main \subseteq x.main
      /\ FolderFit(x, backups[dir], promised[dir], clock)
  BY <1>3
<1> QED
  BY <1>4, <1>5, <1>6, <1>7, <1>8, <1>9, DbTurn

\* An import puts one record, or finds it there.
LEMMA ImportPutKept ==
  ASSUME DesktopIInv, NEW t \in Menus, NEW record \in Records, ImportPut(t, record)
  PROVE  DesktopIInv'
<1>1. up /\ thread[t].at = "import" /\ t \in Threads
  BY DEF ImportPut, At, Threads
<1>2. thread[t] \in State /\ Whole(thread[t].dir, db)
  BY <1>1, AtThread DEF ThreadFit
<1>3. PICK s : s = [thread[t] EXCEPT !.has = @ \ {record}]
  OBVIOUS
<1>4. s \in State /\ s.at = "import" /\ s.dir = thread[t].dir
  BY <1>1, <1>2, <1>3 DEF State
<1>5. thread' = [thread EXCEPT ![t] = s]
  BY <1>3 DEF ImportPut, Go
<1>6. \A d : MoveFit(s, d) /\ (Whole(s.dir, d) => ThreadFit(t, s, d, backups, clock))
  BY <1>4 DEF MoveFit, ThreadFit, MenuPlaces, Opening
<1>7. CASE UNCHANGED <<disk, memory, target, promised, launched>>
  BY <1>1, <1>2, <1>4, <1>5, <1>6, <1>7, TargetStays, MoveOn
<1>8. CASE Stored(thread[t].dir, record)
  <2>1. PICK dir \in Dirs : dir = thread[t].dir
    BY <1>2 DEF Whole
  <2>2. PICK x \in Db, p \in SUBSET Records :
          /\ db' = [db EXCEPT ![dir] = x] /\ promised' = [promised EXCEPT ![dir] = p]
          /\ x.is = "whole" /\ db[dir].is = "whole" /\ x.main = db[dir].main
          /\ Held(db[dir]) \subseteq Held(x) /\ FolderFit(x, backups[dir], p, clock)
    BY <1>2, <1>8, <2>1, StoredFolder
  <2>3. UNCHANGED <<file, backups, clock, memory, target, launched>>
    BY <1>8 DEF Stored
  <2>4. Grown(db, db') => ThreadFit(t, s, db', backups, clock)
    BY <1>2, <1>4, <1>6 DEF Grown, Whole
  <2> QED
    BY <1>1, <1>4, <1>5, <1>6, <2>2, <2>3, <2>4, DbTurn
<1> QED
  BY <1>7, <1>8 DEF ImportPut

\* A move begins: its thread knows what of the folder is in the main file.
LEMMA FoldBeforeMoveKept ==
  ASSUME DesktopIInv, NEW t \in Menus, FoldBeforeMove(t)
  PROVE  DesktopIInv'
<1>1. /\ up /\ settings \in Settings /\ t \in Threads
      /\ UNCHANGED <<file, backups, clock, memory, target, promised, launched>>
  BY DEF FoldBeforeMove, MenuShown, At, Threads, DesktopIInv, Typed
<1>2. PICK old \in Dirs : old = settings.dir
  BY <1>1 DEF Settings
<1>3. Content(old) \subseteq Records /\ db[old].main \subseteq Content(old)
  BY HeldRecords DEF Content
<1>4. \A seen \in SUBSET Records :
        LET s == [Idle EXCEPT !.at = "choose", !.set = settings, !.seen = seen] IN
        /\ s \in State /\ s.at = "choose" /\ s.set = settings /\ s.seen = seen
  BY <1>1 DEF Idle, State, MenuPlaces
<1>5. PICK covers \in BOOLEAN :
        LET seen == IF covers THEN Content(old) ELSE db[old].main
            s == [Idle EXCEPT !.at = "choose", !.set = settings, !.seen = seen]
        IN /\ thread' = [thread EXCEPT ![t] = s]
           /\ \/ /\ server # None /\ MayFold /\ db' = Folded(server)
                 /\ covers = (server = old)
              \/ UNCHANGED db /\ covers = FALSE
  <2>1. CASE server # None /\ MayFold /\ db' = Folded(server)
    BY <1>2, <2>1 DEF FoldBeforeMove, Go
  <2>2. CASE UNCHANGED db
    BY <1>2, <2>2 DEF FoldBeforeMove, Go
  <2> QED
    BY <2>1, <2>2 DEF FoldBeforeMove
<1>6. PICK seen \in SUBSET Records : seen = IF covers THEN Content(old) ELSE db[old].main
  BY <1>3
<1>7. PICK s \in State : /\ s = [Idle EXCEPT !.at = "choose", !.set = settings, !.seen = seen]
                         /\ s.at = "choose" /\ s.set = settings /\ s.seen = seen
  BY <1>4
<1>8. thread' = [thread EXCEPT ![t] = s]
  BY <1>5, <1>6, <1>7
<1>9. FoldsDuringCopy \/ Whole(old, db)
  BY <1>1, <1>2, DesktopAssumption DEF DesktopIInv, Named
<1>10. \A d : /\ seen \subseteq d[old].main => ThreadFit(t, s, d, backups, clock)
              /\ Whole(old, d) => MoveFit(s, d)
  BY <1>1, <1>2, <1>7 DEF ThreadFit, MoveFit, MenuPlaces, Opening
<1>11. CASE UNCHANGED db /\ covers = FALSE
  <2>1. seen \subseteq db[old].main
    BY <1>6, <1>11
  <2>2. UNCHANGED <<disk, memory>> /\ target' \in {None, "whole"}
    BY <1>1, <1>11, TargetStays DEF disk
  <2> QED
    BY <1>1, <1>7, <1>8, <1>9, <1>10, <2>1, <2>2, MoveOn
<1>12. CASE server # None /\ MayFold /\ db' = Folded(server) /\ covers = (server = old)
  <2>1. PICK dir \in Dirs : dir = server /\ Whole(dir, db)
    BY <1>12 DEF DesktopIInv, Serves, Whole
  <2>2. PICK x \in Db :
          /\ Folded(dir) = [db EXCEPT ![dir] = x] /\ x.is = "whole" /\ x.main = Content(dir)
          /\ Held(x) = Content(dir) /\ db[dir].main \subseteq x.main
          /\ FolderFit(x, backups[dir], promised[dir], clock)
    BY <2>1, FoldedFolder
  <2>3. promised' = [promised EXCEPT ![dir] = promised[dir]] /\ promised[dir] \in SUBSET Records
    BY <1>1, SamePromise
  <2>4. db' = [db EXCEPT ![dir] = x] /\ db'[dir] = x /\ Held(db[dir]) \subseteq Held(x)
    BY <1>12, <2>1, <2>2, HeldRecords DEF DesktopIInv, Typed
  <2>5. Grown(db, db') => seen \subseteq db'[old].main
    <3>1. CASE covers
      BY <1>6, <1>12, <2>1, <2>2, <2>4, <3>1
    <3>2. CASE ~covers
      BY <1>6, <3>2 DEF Grown
    <3> QED
      BY <3>1, <3>2
  <2>6. Grown(db, db') => ThreadFit(t, s, db', backups, clock)
    BY <1>10, <2>5
  <2>7. FoldsDuringCopy \/ (Grown(db, db') => MoveFit(s, db'))
    BY <1>9, <1>10 DEF Grown
  <2>8. FoldsDuringCopy \/ \A m \in Menus : thread[m].at # "copying"
    BY <1>12, NoCopies
  <2>9. /\ x.is = "whole" /\ db[dir].is = "whole" /\ db[dir].main \subseteq x.main
        /\ FolderFit(x, backups[dir], promised[dir], clock)
    BY <2>1, <2>2 DEF Whole
  <2>10. up /\ UNCHANGED <<file, backups, clock, memory, target, launched>>
    BY <1>1
  <2> QED
    BY <1>1, <1>7, <1>8, <2>3, <2>4, <2>6, <2>7, <2>8, <2>9, <2>10, DbTurn
<1> QED
  BY <1>5, <1>11, <1>12

\* The copy begins in a folder that has no database.
LEMMA BeginCopyKept ==
  ASSUME DesktopIInv, NEW t \in Menus, NEW dir \in Dirs, BeginCopy(t, dir)
  PROVE  DesktopIInv'
<1>1. /\ up /\ thread[t].at = "choose" /\ t \in Threads
      /\ UNCHANGED <<file, backups, clock, memory, target, promised, launched>>
      /\ db[dir].is = "none" /\ dir # thread[t].set.dir
  BY DEF BeginCopy, At, Threads
<1>2. /\ thread[t] \in State /\ ThreadFit(t, thread[t], db, backups, clock)
      /\ FoldsDuringCopy \/ MoveFit(thread[t], db)
  BY <1>1, AtThread
<1>3. PICK old \in Dirs : old = thread[t].set.dir
  BY <1>1, <1>2 DEF ThreadFit, Settings
<1>4. thread[t].set \in Settings /\ thread[t].seen \subseteq db[old].main
  BY <1>1, <1>2, <1>3 DEF ThreadFit
<1>5. PICK x : x = [NoDb EXCEPT !.is = "torn"]
  OBVIOUS
<1>6. x \in Db /\ x.is = "torn" /\ x.main = {} /\ x.wal = {}
  BY <1>5 DEF NoDb, Db
<1>7. /\ db[dir].main = {} /\ db[dir].wal = {} /\ backups[dir] = {} /\ promised[dir] = {}
  BY <1>1, HeldRecords DEF FolderFit, NoDb, Held
<1>8. FolderFit(x, backups[dir], promised[dir], clock)
  BY <1>6, <1>7 DEF FolderFit
<1>9. db' = [db EXCEPT ![dir] = x]
  BY <1>5 DEF BeginCopy
<1>10. db'[dir] = x /\ db'[old] = db[old] /\ db[old].main \subseteq Records
  BY <1>1, <1>3, <1>9, HeldRecords DEF DesktopIInv, Typed
<1>11. PICK s : s = [thread[t] EXCEPT !.at = "copying", !.dir = dir, !.has = db[old].main]
  OBVIOUS
<1>12. thread' = [thread EXCEPT ![t] = s]
  BY <1>3, <1>11 DEF BeginCopy, Go
<1>13. /\ s \in State /\ s.at = "copying" /\ s.dir = dir /\ s.has = db[old].main
       /\ s.set = thread[t].set /\ s.seen = thread[t].seen
  BY <1>2, <1>10, <1>11 DEF State, MenuPlaces
<1>14. ThreadFit(t, s, db', backups, clock)
  BY <1>4, <1>6, <1>7, <1>10, <1>13 DEF ThreadFit, MenuPlaces, Opening
<1>15. FoldsDuringCopy \/ MoveFit(s, db')
  BY <1>1, <1>2, <1>3, <1>10, <1>13 DEF MoveFit, Whole
<1>16. promised' = [promised EXCEPT ![dir] = promised[dir]] /\ promised[dir] \in SUBSET Records
  BY <1>1, SamePromise
<1>17. /\ db[dir].main \subseteq x.main /\ Held(db[dir]) \subseteq Held(x) /\ ~Whole(dir, db)
       /\ UNCHANGED <<file, backups, clock, memory, target, launched>>
  BY <1>1, <1>7 DEF Held, Whole
<1> QED
  BY <1>1, <1>6, <1>8, <1>9, <1>12, <1>13, <1>14, <1>15, <1>16, <1>17, DbTurn

\* A step that leaves the folders alone, and may name another vault.
LEMMA NameTurn ==
  ASSUME DesktopIInv, NEW t \in Threads, NEW s \in State, up,
         UNCHANGED <<up, db, backups, clock, target, promised, launched>>,
         thread' = [thread EXCEPT ![t] = s], s.at \notin {"snapping", "copying"},
         s.at = "idle" \/ t \in Menus \/ thread[t].at # "idle",
         ThreadFit(t, s, db, backups, clock), FoldsDuringCopy \/ t \notin Menus \/ MoveFit(s, db),
         file' \in Settings \cup {None, Torn}, settings' \in Settings \cup {None},
         FoldsDuringCopy \/ (file' \in Settings => Whole(file'.dir, db)),
         FoldsDuringCopy \/ (settings' # None => Whole(settings'.dir, db)),
         Serves'
  PROVE  DesktopIInv'
<1>1. Typed /\ Folders
  BY DEF DesktopIInv
<1>2. Typed'
  BY <1>1 DEF Typed, Settings, Db, Snapshot
<1>3. Folders'
  BY <1>1 DEF Folders, FolderFit, Held, NoDb
<1>4. clock <= clock' /\ Grown(db, db')
  BY <1>1 DEF Grown, Typed
<1>5. ~OnePicker \/ Alone'
  BY AloneKept
<1>6. FoldsDuringCopy \/ (/\ file' \in Settings => Whole(file'.dir, db')
                          /\ settings' # None => Whole(settings'.dir, db')
                          /\ t \in Menus => MoveFit(s, db'))
  OBVIOUS
<1>7. /\ ThreadFit(t, s, db', backups', clock') /\ up'
      /\ \A dir \in Dirs : db[dir].is = "torn" =>
           db'[dir] = db[dir] /\ backups'[dir] = backups[dir]
      /\ \A dir \in Dirs : Whole(dir, db) => db'[dir].main = db[dir].main
  OBVIOUS
<1> QED
  BY <1>2, <1>3, <1>4, <1>5, <1>6, <1>7, TurnKept

\* The settings file is truncated.
LEMMA BeginSaveKept ==
  ASSUME DesktopIInv, NEW t \in Threads, BeginSave(t)
  PROVE  DesktopIInv'
<1>1. /\ up /\ thread[t].at = "save"
      /\ UNCHANGED <<db, backups, clock, memory, target, promised, launched>>
  BY DEF BeginSave, At
<1>2. CASE Return(t) /\ UNCHANGED file
  <2>1. UNCHANGED <<disk, memory>> /\ target' \in {None, "whole"}
    BY <1>1, <1>2, TargetStays DEF disk
  <2> QED
    BY <1>1, <1>2, <2>1, ReturnKept
<1>3. CASE file' = Torn /\ To(t, "saving")
  <2>1. PICK s : s = [thread[t] EXCEPT !.at = "saving"]
    OBVIOUS
  <2>2. /\ thread[t] \in State /\ ThreadFit(t, thread[t], db, backups, clock)
        /\ FoldsDuringCopy \/ (t \in Menus => MoveFit(thread[t], db))
    BY AtThread
  <2>3. "saving" \in ShellPlaces \cup MenuPlaces
    BY DEF MenuPlaces
  <2>4. /\ s \in State /\ s.at = "saving" /\ s.dir = thread[t].dir /\ s.set = thread[t].set
    BY <2>1, <2>2, <2>3, Elsewhere
  <2>5. ThreadFit(t, s, db, backups, clock)
    BY <1>1, <2>2, <2>4 DEF ThreadFit, ShellPlaces, MenuPlaces, Opening
  <2>6. FoldsDuringCopy \/ t \notin Menus \/ MoveFit(s, db)
    BY <1>1, <2>2, <2>4 DEF MoveFit
  <2>7. thread' = [thread EXCEPT ![t] = s]
    BY <1>3, <2>1 DEF To, Go
  <2>8. /\ file' \in Settings \cup {None, Torn} /\ file' \notin Settings
        /\ settings' \in Settings \cup {None} /\ settings' = settings
    BY <1>1, <1>3, DesktopAssumption DEF memory, DesktopIInv, Typed
  <2>9. FoldsDuringCopy \/ (settings' # None => Whole(settings'.dir, db))
    BY <2>8 DEF DesktopIInv, Named
  <2>10. Serves'
    BY <1>1 DEF memory, DesktopIInv, Serves, Whole
  <2>11. UNCHANGED <<up, db, backups, clock, target, promised, launched>>
    BY <1>1 DEF memory
  <2> QED
    BY <1>1, <2>4, <2>5, <2>6, <2>7, <2>8, <2>9, <2>10, <2>11, NameTurn
<1> QED
  BY <1>2, <1>3 DEF BeginSave

\* It is filled with settings that name a whole vault.
LEMMA EndSaveKept ==
  ASSUME DesktopIInv, NEW t \in Threads, EndSave(t)
  PROVE  DesktopIInv'
<1>1. /\ up /\ thread[t].at = "saving"
      /\ UNCHANGED <<db, backups, clock, memory, target, promised, launched>>
  BY DEF EndSave, At
<1>2. CASE Return(t) /\ UNCHANGED file
  <2>1. UNCHANGED <<disk, memory>> /\ target' \in {None, "whole"}
    BY <1>1, <1>2, TargetStays DEF disk
  <2> QED
    BY <1>1, <1>2, <2>1, ReturnKept
<1>3. CASE file' = thread[t].set /\ To(t, IF t \in Menus THEN "moved" ELSE "publish")
  <2>1. PICK place \in ShellPlaces \cup MenuPlaces :
          place = IF t \in Menus THEN "moved" ELSE "publish"
    BY DEF ShellPlaces, MenuPlaces, Opening
  <2>2. PICK s : s = [thread[t] EXCEPT !.at = place]
    OBVIOUS
  <2>3. /\ thread[t] \in State /\ ThreadFit(t, thread[t], db, backups, clock)
        /\ FoldsDuringCopy \/ (t \in Menus => MoveFit(thread[t], db))
    BY AtThread
  <2>4. s \in State /\ s.at = place /\ s.dir = thread[t].dir /\ s.set = thread[t].set
    BY <2>2, <2>3, Elsewhere
  <2>5. ThreadFit(t, s, db, backups, clock)
    BY <1>1, <2>1, <2>3, <2>4 DEF ThreadFit, ShellPlaces, MenuPlaces, Opening
  <2>6. t \notin Menus \/ MoveFit(s, db)
    BY <2>1, <2>4 DEF MoveFit
  <2>7. thread' = [thread EXCEPT ![t] = s]
    BY <1>3, <2>1, <2>2 DEF To, Go
  <2>8. thread[t].set \in Settings /\ (FoldsDuringCopy \/ Whole(thread[t].set.dir, db))
    BY <1>1, <2>3 DEF ThreadFit, MoveFit, Opening
  <2>9. settings' = settings /\ settings \in Settings \cup {None}
    BY <1>1 DEF memory, DesktopIInv, Typed
  <2>10. FoldsDuringCopy \/ (settings' # None => Whole(settings'.dir, db))
    BY <2>9 DEF DesktopIInv, Named
  <2>11. Serves'
    BY <1>1 DEF memory, DesktopIInv, Serves, Whole
  <2>12. UNCHANGED <<up, db, backups, clock, target, promised, launched>>
    BY <1>1 DEF memory
  <2> QED
    BY <1>1, <1>3, <2>1, <2>4, <2>5, <2>6, <2>7, <2>8, <2>9, <2>10, <2>11, <2>12, NameTurn
<1> QED
  BY <1>2, <1>3 DEF EndSave

\* The shell takes the settings over, and the page the server.
LEMMA PublishKept ==
  ASSUME DesktopIInv, NEW t \in Threads \ Menus, PublishSettings(t) \/ PublishServer(t)
  PROVE  DesktopIInv'
<1>1. /\ up /\ UNCHANGED <<disk, up, target, promised, launched>>
      /\ thread[t].at \in {"publish", "answer"}
  BY DEF PublishSettings, PublishServer, At
<1>2. /\ thread[t] \in State /\ thread[t].set \in Settings /\ thread[t].set.dir = thread[t].dir
      /\ Whole(thread[t].dir, db) /\ thread[t].dir \in Dirs
  BY <1>1, AtThread DEF ThreadFit, Opening, Whole
<1>3. /\ file' = file /\ file \in Settings \cup {None, Torn} /\ settings \in Settings \cup {None}
      /\ FoldsDuringCopy \/ (file' \in Settings => Whole(file'.dir, db))
      /\ UNCHANGED <<up, db, backups, clock, target, promised, launched>>
  BY <1>1 DEF disk, DesktopIInv, Typed, Named
<1>4. CASE PublishSettings(t)
  <2>1. PICK s : s = [thread[t] EXCEPT !.at = "answer"]
    OBVIOUS
  <2>2. "answer" \in ShellPlaces \cup MenuPlaces
    BY DEF ShellPlaces, Opening
  <2>3. /\ s \in State /\ s.at = "answer" /\ s.dir = thread[t].dir /\ s.set = thread[t].set
    BY <1>2, <2>1, <2>2, Elsewhere
  <2>4. ThreadFit(t, s, db, backups, clock)
    BY <1>2, <2>3 DEF ThreadFit, ShellPlaces, MenuPlaces, Opening
  <2>5. thread' = [thread EXCEPT ![t] = s] /\ settings' = thread[t].set
    BY <1>4, <2>1 DEF PublishSettings, To, Go
  <2>6. Serves'
    BY <1>3, <1>4 DEF PublishSettings, DesktopIInv, Serves, Whole
  <2> QED
    BY <1>1, <1>2, <1>3, <2>3, <2>4, <2>5, <2>6, NameTurn
<1>5. CASE PublishServer(t)
  <2>1. /\ Idle \in State /\ Idle.at = "idle" /\ ThreadFit(t, Idle, db, backups, clock)
    BY IdleFits
  <2>2. thread' = [thread EXCEPT ![t] = Idle] /\ settings' = settings
    BY <1>5 DEF PublishServer, Return, Go
  <2>3. server' = thread[t].dir /\ client' = thread[t].dir
    BY <1>5 DEF PublishServer
  <2>4. Serves'
    BY <1>2, <1>3, <2>3, DesktopAssumption DEF Serves, Whole
  <2>5. FoldsDuringCopy \/ (settings' # None => Whole(settings'.dir, db))
    BY <2>2 DEF DesktopIInv, Named
  <2> QED
    BY <1>1, <1>3, <2>1, <2>2, <2>4, <2>5, NameTurn
<1> QED
  BY <1>4, <1>5

\* The copy is complete, and whole if nothing changed what it copied.
LEMMA CopiedFolder ==
  ASSUME DesktopIInv, NEW dir \in Dirs, db[dir].is = "torn", db[dir].main = {}, backups[dir] = {},
         NEW x \in Db, x.is \in {"torn", "whole"}, x.wal = {},
         NEW seen \in SUBSET Records, seen \subseteq x.main,
         NEW old \in Dirs, NEW copied, copied \subseteq backups[old],
         db' = [db EXCEPT ![dir] = x], promised' = [promised EXCEPT ![dir] = seen],
         backups' = [backups EXCEPT ![dir] = copied],
         UNCHANGED <<file, clock, memory, target, launched>>
  PROVE  /\ Typed' /\ Folders' /\ Grown(db, db') /\ clock <= clock'
         /\ db'[dir] = x /\ \A o \in Dirs \ {dir} : db'[o] = db[o] /\ backups'[o] = backups[o]
<1>1. /\ file' = file /\ clock' = clock /\ up' = up /\ settings' = settings
      /\ target' = target /\ launched' = launched
  BY DEF memory
<1>2. Typed /\ Folders
  BY DEF DesktopIInv
<1>3. /\ db' \in [Dirs -> Db] /\ promised' \in [Dirs -> SUBSET Records]
      /\ backups' \in [Dirs -> SUBSET Snapshot]
  BY <1>2 DEF Typed
<1>4. /\ db'[dir] = x /\ promised'[dir] = seen /\ backups'[dir] = copied
      /\ \A o \in Dirs \ {dir} :
           db'[o] = db[o] /\ backups'[o] = backups[o] /\ promised'[o] = promised[o]
  BY <1>2 DEF Typed
<1>5. Typed'
  BY <1>1, <1>2, <1>3 DEF Typed, Settings, Snapshot, Db
<1>6. FolderFit(x, copied, seen, clock)
  BY <1>2 DEF Folders, FolderFit, Held
<1>7. \A o \in Dirs : FolderFit(db'[o], backups'[o], promised'[o], clock')
  BY <1>1, <1>2, <1>4, <1>6 DEF Folders
<1>8. Folders'
  BY <1>7 DEF Folders, FolderFit, Held, NoDb
<1>9. db[dir].wal = {}
  BY <1>2 DEF Folders, FolderFit
<1>10. Grown(db, db')
  BY <1>4, <1>9 DEF Grown, Whole, Held
<1> QED
  BY <1>1, <1>2, <1>4, <1>5, <1>8, <1>10 DEF Typed

\* A move ends its copy.
LEMMA EndCopyKept ==
  ASSUME DesktopIInv, NEW t \in Menus, EndCopy(t)
  PROVE  DesktopIInv'
<1>1. /\ up /\ thread[t].at = "copying" /\ t \in Threads
      /\ UNCHANGED <<file, clock, memory, target, launched>>
  BY DEF EndCopy, At, Threads
<1>2. CASE Return(t) /\ UNCHANGED <<db, backups, promised>>
  <2>1. UNCHANGED <<disk, memory, promised, launched>> /\ target' \in {None, "whole"}
    BY <1>1, <1>2, TargetStays DEF disk
  <2> QED
    BY <1>1, <1>2, <2>1, ReturnKept
<1>3. /\ thread[t] \in State /\ ThreadFit(t, thread[t], db, backups, clock)
      /\ FoldsDuringCopy \/ MoveFit(thread[t], db)
  BY <1>1, AtThread
<1>4. PICK old \in Dirs, dir \in Dirs : old = thread[t].set.dir /\ dir = thread[t].dir
  BY <1>1, <1>3 DEF ThreadFit, Settings
<1>5. /\ db[dir].is = "torn" /\ db[dir].main = {} /\ backups[dir] = {}
      /\ thread[t].seen \subseteq thread[t].has /\ thread[t].set \in Settings
      /\ thread[t].seen \in SUBSET Records /\ thread[t].has \in SUBSET Records
  BY <1>1, <1>3, <1>4 DEF ThreadFit, State
<1>6. PICK same \in BOOLEAN : same = (db[old].is = "whole" /\ db[old].main = thread[t].has)
  OBVIOUS
<1>7. PICK x : x = [is |-> IF same THEN "whole" ELSE "torn", main |-> thread[t].has, wal |-> {}]
  OBVIOUS
<1>8. /\ x \in Db /\ x.is \in {"torn", "whole"} /\ x.main = thread[t].has /\ x.wal = {}
      /\ same => x.is = "whole"
  BY <1>5, <1>7 DEF Db
<1>9. FoldsDuringCopy \/ x.is = "whole"
  BY <1>1, <1>3, <1>4, <1>6, <1>8 DEF MoveFit, Whole
<1>10. PICK s : s = [Idle EXCEPT !.at = "save", !.dir = dir, !.set = Relocated(thread[t].set, dir)]
  OBVIOUS
<1>11. Relocated(thread[t].set, dir) \in Settings /\ Relocated(thread[t].set, dir).dir = dir
  BY <1>5 DEF Settings, Relocated
<1>12. s \in State /\ s.at = "save" /\ s.dir = dir /\ s.set \in Settings /\ s.set.dir = dir
  BY <1>10, <1>11 DEF Idle, State, MenuPlaces
<1>13. \A d, b, c : ThreadFit(t, s, d, b, c) /\ (Whole(dir, d) => MoveFit(s, d))
  BY <1>12 DEF ThreadFit, MoveFit, MenuPlaces, Opening
<1>14. ASSUME NEW after \in State, after \in {s, Idle}, thread' = [thread EXCEPT ![t] = after],
              NEW copied, copied \subseteq backups[old],
              backups' = [backups EXCEPT ![dir] = copied],
              db' = [db EXCEPT ![dir] = x],
              promised' = [promised EXCEPT ![dir] = thread[t].seen]
       PROVE  DesktopIInv'
  <2>1. /\ Typed' /\ Folders' /\ Grown(db, db') /\ clock <= clock'
        /\ db'[dir] = x /\ \A o \in Dirs \ {dir} : db'[o] = db[o] /\ backups'[o] = backups[o]
    BY <1>1, <1>5, <1>8, <1>14, CopiedFolder
  <2>2. after.at \in {"save", "idle"} /\ ThreadFit(t, after, db', backups', clock')
    BY <1>12, <1>13, <1>14, IdleFits
  <2>3. FoldsDuringCopy \/ MoveFit(after, db')
    BY <1>9, <1>13, <1>14, <2>1, IdleFits DEF Whole
  <2>4. /\ up' /\ file' = file /\ settings' = settings /\ server' = server /\ client' = client
        /\ launched' = launched
    BY <1>1 DEF memory
  <2>5. Serves'
    BY <2>1, <2>4, ServersStay
  <2>6. FoldsDuringCopy \/ (/\ file' \in Settings => Whole(file'.dir, db')
                            /\ settings' # None => Whole(settings'.dir, db')
                            /\ t \in Menus => MoveFit(after, db'))
    BY <2>1, <2>3, <2>4, NamesStay
  <2>7. \A o \in Dirs : Whole(o, db) => o # dir
    BY <1>5 DEF Whole
  <2>8. \A o \in Dirs : /\ backups[o] \subseteq backups'[o]
                        /\ Whole(o, db) => backups'[o] = backups[o]
    BY <1>5, <2>1, <2>7
  <2>9. ~OnePicker \/ Alone'
    BY <1>1, <1>14, <2>2, <2>4, <2>8, AloneKept
  <2>10. \A o \in Dirs : db[o].is = "torn" =>
           \/ thread[t].at = "copying" /\ thread[t].dir = o
           \/ db'[o] = db[o] /\ backups'[o] = backups[o]
    BY <1>1, <1>4, <2>1
  <2>11. \A o \in Dirs : Whole(o, db) => db'[o].main = db[o].main
    BY <2>1, <2>7
  <2> QED
    BY <1>1, <1>14, <2>1, <2>2, <2>4, <2>5, <2>6, <2>9, <2>10, <2>11, TurnKept
<1>15. ASSUME db' = [db EXCEPT ![dir] = x], promised' = [promised EXCEPT ![dir] = thread[t].seen],
              Return(t), UNCHANGED backups
       PROVE  DesktopIInv'
  <2>1. backups' = [backups EXCEPT ![dir] = {}] /\ {} \subseteq backups[old]
    BY <1>5, <1>15 DEF DesktopIInv, Typed
  <2>2. thread' = [thread EXCEPT ![t] = Idle] /\ Idle \in State
    BY <1>15, IdleFits DEF Return, Go
  <2> QED
    BY <1>14, <1>15, <2>1, <2>2
<1>16. ASSUME db' = [db EXCEPT ![dir] = x], promised' = [promised EXCEPT ![dir] = thread[t].seen],
              NEW copied \in SUBSET backups[old],
              backups' = [backups EXCEPT ![dir] = @ \cup copied], Go(t, s)
       PROVE  DesktopIInv'
  <2>1. backups' = [backups EXCEPT ![dir] = copied]
    BY <1>5, <1>16 DEF DesktopIInv, Typed
  <2>2. thread' = [thread EXCEPT ![t] = s]
    BY <1>16 DEF Go
  <2> QED
    BY <1>12, <1>14, <1>16, <2>1, <2>2
<1> QED
  <2>1. \/ Return(t) /\ UNCHANGED <<db, backups, promised>>
        \/ /\ db' = [db EXCEPT ![dir] = x]
           /\ promised' = [promised EXCEPT ![dir] = thread[t].seen]
           /\ \/ Return(t) /\ UNCHANGED backups
              \/ /\ \E copied \in SUBSET backups[old] :
                      backups' = [backups EXCEPT ![dir] = @ \cup copied]
                 /\ Go(t, s)
    BY <1>4, <1>6, <1>7, <1>10 DEF EndCopy
  <2> QED
    BY <1>2, <1>15, <1>16, <2>1

-----------------------------------------------------------------------------
(* Snapshots.                                                              *)

\* Names of snapshots in their order.
LEMMA NextInstant ==
  ASSUME NEW c \in Nat
  PROVE  /\ c + 1 \in Nat /\ c < c + 1 /\ c <= c + 1 /\ c <= c
         /\ \A a \in Nat : a < c => a < c + 1 /\ a # c /\ a <= c
OBVIOUS

\* A folder that fits still does when the clock has moved on.
LEMMA LaterFits ==
  ASSUME NEW x, NEW b \in SUBSET Snapshot, NEW p, NEW c \in Nat, FolderFit(x, b, p, c)
  PROVE  FolderFit(x, b, p, c + 1)
<1>1. \A s \in b : s.at \in Nat
  BY DEF Snapshot
<1>2. \A s \in b : s.at < c
  BY DEF FolderFit
<1>3. \A s \in b : s.at < c + 1
  BY <1>1, <1>2, NextInstant
<1> QED
  BY <1>3 DEF FolderFit

\* A new snapshot has a name of its own.
LEMMA NewSnapshotFits ==
  ASSUME NEW x, x.is = "whole", NEW b \in SUBSET Snapshot, NEW p, NEW c \in Nat,
         FolderFit(x, b, p, c), NEW new, new.at = c
  PROVE  /\ FolderFit(x, b \cup {new}, p, c + 1)
         /\ \A s \in b \cup {new} : s.at <= c /\ (s.at = c => s = new)
<1>1. \A s \in b : s.at \in Nat /\ s.at < c
  BY DEF FolderFit, Snapshot
<1>2. \A s \in b : s.at < c + 1 /\ s.at # c /\ s.at <= c
  BY <1>1, NextInstant
<1>3. new.at < c + 1 /\ new.at <= c
  BY NextInstant
<1>4. \A s, o \in b \cup {new} : s.at = o.at => s = o
  BY <1>2 DEF FolderFit
<1>5. \A s \in b \cup {new} : s.at < c + 1
  BY <1>2, <1>3
<1> QED
  BY <1>2, <1>3, <1>4, <1>5 DEF FolderFit

\* Fewer snapshots fit as well.
LEMMA FewerFit ==
  ASSUME NEW x, x.is = "whole", NEW b, NEW p, NEW c, FolderFit(x, b, p, c), NEW less \in SUBSET b
  PROVE  FolderFit(x, less, p, c)
BY DEF FolderFit

\* A step that changes the snapshots of a whole vault.
LEMMA SnapshotTurn ==
  ASSUME DesktopIInv, NEW t \in Threads \ Menus, NEW s \in State, up,
         UNCHANGED <<file, db, memory, target, promised>>,
         thread' = [thread EXCEPT ![t] = s], s.at # "copying",
         NEW dir \in Dirs, Whole(dir, db), NEW b \in SUBSET Snapshot,
         backups' = [backups EXCEPT ![dir] = b],
         clock' \in Nat, clock <= clock', clock' = clock \/ clock' = clock + 1,
         FolderFit(db[dir], b, promised[dir], clock'),
         launched' \in [dir : Dirs, seen : SUBSET Records, folded : BOOLEAN] \cup {None},
         ThreadFit(t, s, db, backups', clock'), ~OnePicker \/ Alone'
  PROVE  DesktopIInv'
<1>1. /\ file' = file /\ db' = db /\ promised' = promised /\ up' = up
      /\ settings' = settings /\ server' = server /\ client' = client /\ target' = target
  BY DEF memory
<1>2. Typed /\ Folders
  BY DEF DesktopIInv
<1>3. backups' \in [Dirs -> SUBSET Snapshot]
  BY <1>2 DEF Typed
<1>4. backups'[dir] = b /\ \A o \in Dirs \ {dir} : backups'[o] = backups[o]
  BY <1>2 DEF Typed
<1>5. Typed'
  BY <1>1, <1>2, <1>3 DEF Typed, Settings, Db, Snapshot
<1>6. ASSUME NEW o \in Dirs
      PROVE  FolderFit(db[o], backups'[o], promised[o], clock')
  <2>1. CASE o = dir
    BY <1>4, <2>1
  <2>2. CASE o # dir
    <3>1. /\ backups'[o] = backups[o] /\ backups[o] \in SUBSET Snapshot /\ clock \in Nat
          /\ FolderFit(db[o], backups[o], promised[o], clock)
      BY <1>2, <1>4, <2>2 DEF Folders, Typed
    <3>2. FolderFit(db[o], backups[o], promised[o], clock + 1)
      BY <3>1, LaterFits
    <3> QED
      BY <3>1, <3>2
  <2> QED
    BY <2>1, <2>2
<1>7. Folders'
  BY <1>1, <1>6 DEF Folders, FolderFit, Held, NoDb
<1>8. Serves'
  BY <1>1 DEF DesktopIInv, Serves, Whole
<1>9. Grown(db, db')
  BY <1>1 DEF Grown
<1>10. FoldsDuringCopy \/ (/\ file' \in Settings => Whole(file'.dir, db')
                           /\ settings' # None => Whole(settings'.dir, db')
                           /\ t \in Menus => MoveFit(s, db'))
  BY <1>1 DEF DesktopIInv, Named
<1>11. \A o \in Dirs : db[o].is = "torn" => db'[o] = db[o] /\ backups'[o] = backups[o]
  BY <1>1, <1>4 DEF Whole
<1>12. /\ up' /\ ThreadFit(t, s, db', backups', clock')
       /\ \A o \in Dirs : Whole(o, db) => db'[o].main = db[o].main
  BY <1>1
<1> QED
  BY <1>5, <1>7, <1>8, <1>9, <1>10, <1>11, <1>12, TurnKept

\* A snapshot begins, or is left out.
LEMMA BeginSnapshotKept ==
  ASSUME DesktopIInv, NEW t \in Threads \ Menus, BeginSnapshot(t)
  PROVE  DesktopIInv'
<1>1. /\ up /\ thread[t].at = "snapshot"
      /\ UNCHANGED <<file, db, memory, target, promised, launched>>
  BY DEF BeginSnapshot, At
<1>2. /\ thread[t] \in State /\ Whole(thread[t].dir, db) /\ thread[t].set \in Settings
      /\ thread[t].set.dir = thread[t].dir /\ (thread[t].folded => thread[t].seen \subseteq db[thread[t].dir].main)
  BY <1>1, AtThread DEF ThreadFit, Opening
<1>3. PICK dir \in Dirs : dir = thread[t].dir /\ Whole(dir, db)
  BY <1>2 DEF Whole
<1>4. CASE Serving(t, thread[t].set) /\ UNCHANGED <<backups, clock>>
  <2>1. PICK s : s = [Idle EXCEPT !.at = "serve", !.dir = thread[t].set.dir, !.set = thread[t].set]
    OBVIOUS
  <2>2. s \in State /\ s.at = "serve" /\ ThreadFit(t, s, db, backups, clock)
    BY <1>2, <2>1, ServingFits
  <2>3. thread' = [thread EXCEPT ![t] = s]
    BY <1>4, <2>1 DEF Serving, Go
  <2>4. UNCHANGED <<disk, memory>> /\ target' \in {None, "whole"}
    BY <1>1, <1>4, TargetStays DEF disk
  <2> QED
    BY <1>1, <2>2, <2>3, <2>4, MoveOn
<1>5. CASE /\ clock' = clock + 1
           /\ backups' = [backups EXCEPT ![dir] = @ \cup {[at |-> clock, has |-> Torn]}]
           /\ Go(t, [thread[t] EXCEPT !.at = "snapping", !.name = clock, !.has = db[dir].main])
  <2>1. /\ clock \in Nat /\ backups \in [Dirs -> SUBSET Snapshot] /\ (Alone \/ ~OnePicker)
        /\ launched \in [dir : Dirs, seen : SUBSET Records, folded : BOOLEAN] \cup {None}
    BY DEF DesktopIInv, Typed
  <2>2. clock' \in Nat /\ clock <= clock' /\ clock < clock'
    BY <1>5, <2>1, NextInstant
  <2>3. db[dir].main \subseteq Records /\ FolderFit(db[dir], backups[dir], promised[dir], clock)
    BY HeldRecords
  <2>4. PICK new : new = [at |-> clock, has |-> Torn]
    OBVIOUS
  <2>5. new \in Snapshot /\ new.at = clock /\ new.has = Torn
    BY <2>1, <2>4 DEF Snapshot
  <2>6. PICK b : b = backups[dir] \cup {new}
    OBVIOUS
  <2>7. /\ b \in SUBSET Snapshot /\ backups[dir] \in SUBSET Snapshot
        /\ backups' = [backups EXCEPT ![dir] = b] /\ backups'[dir] = b
        /\ \A o \in Dirs \ {dir} : backups'[o] = backups[o]
    BY <1>5, <2>1, <2>4, <2>5, <2>6
  <2>8. /\ FolderFit(db[dir], b, promised[dir], clock')
        /\ \A o \in b : o.at <= clock /\ (o.at = clock => o = new)
    <3>1. PICK x, old, p, c : x = db[dir] /\ old = backups[dir] /\ p = promised[dir] /\ c = clock
      OBVIOUS
    <3>2. x.is = "whole" /\ old \in SUBSET Snapshot /\ c \in Nat /\ FolderFit(x, old, p, c)
      BY <1>3, <2>1, <2>3, <2>7, <3>1 DEF Whole
    <3>3. new.at = c
      BY <2>5, <3>1
    <3>4. /\ FolderFit(x, old \cup {new}, p, c + 1)
          /\ \A o \in old \cup {new} : o.at <= c /\ (o.at = c => o = new)
      BY ONLY <3>2, <3>3, NewSnapshotFits
    <3> QED
      BY <1>5, <2>6, <3>1, <3>4
  <2>9. PICK s : s = [thread[t] EXCEPT !.at = "snapping", !.name = clock, !.has = db[dir].main]
    OBVIOUS
  <2>10. /\ s \in State /\ s.at = "snapping" /\ s.dir = dir /\ s.set = thread[t].set
         /\ s.seen = thread[t].seen /\ s.folded = thread[t].folded
         /\ s.has = db[dir].main /\ s.name = clock
    BY <1>2, <1>3, <2>1, <2>3, <2>9 DEF State, ShellPlaces, Opening
  <2>11. ThreadFit(t, s, db, backups', clock')
    BY <1>2, <1>3, <2>2, <2>10 DEF ThreadFit, ShellPlaces, Opening
  <2>12. thread' = [thread EXCEPT ![t] = s]
    BY <1>5, <2>9 DEF Go
  <2>13. thread \in [Threads -> State]
    BY DEF DesktopIInv, Running
  <2>14. ASSUME OnePicker
         PROVE  Alone'
    <3>1. Alone
      BY <2>1, <2>14
    <3>2. thread'[t] = s /\ \A u \in Threads \ {t} : thread'[u] = thread[u]
      BY <2>12, <2>13
    <3>3. \A u \in Threads \ Menus : thread'[u].at # "idle" => u = t
      BY <1>1, <3>1, <3>2 DEF Alone
    <3>4. \A u \in Threads \ Menus : thread'[u].at = "snapping" =>
            \A o \in backups'[thread'[u].dir] :
              o.at <= thread'[u].name /\ (o.at = thread'[u].name => o.has = Torn)
      BY <2>5, <2>7, <2>8, <2>10, <3>2, <3>3
    <3>5. LaunchSnapshotKept'
      <4> SUFFICES ASSUME launched # None
                   PROVE  \E o \in backups'[launched.dir] :
                            o.has # Torn /\ (launched.folded => launched.seen \subseteq o.has)
        BY <1>1 DEF LaunchSnapshotKept
      <4>1. PICK o \in backups[launched.dir] : o.has # Torn /\ (launched.folded => launched.seen \subseteq o.has)
        BY <3>1 DEF Alone, LaunchSnapshotKept
      <4>2. launched.dir \in Dirs
        BY <2>1
      <4>3. backups[launched.dir] \subseteq backups'[launched.dir]
        BY <2>6, <2>7, <4>2
      <4> QED
        BY <4>1, <4>3
    <3> QED
      BY <3>3, <3>4, <3>5 DEF Alone
  <2>15. UNCHANGED <<file, db, memory, target, promised>> /\ launched' = launched /\ up
    BY <1>1
  <2>16. clock' = clock \/ clock' = clock + 1
    BY <1>5
  <2> QED
    BY <1>3, <2>1, <2>2, <2>7, <2>8, <2>10, <2>11, <2>12, <2>14, <2>15, <2>16, SnapshotTurn
<1> QED
  BY <1>3, <1>4, <1>5 DEF BeginSnapshot

\* The newest snapshot of a folder is never trimmed.
LEMMA NewestKept ==
  ASSUME NEW snapshots, NEW keep, keep \in Nat \ {0}, NEW s \in snapshots,
         \A o \in snapshots : ~(o.at > s.at)
  PROVE  s \in Trimmed(snapshots, keep)
<1>1. {later \in snapshots : later.at > s.at} = {}
  OBVIOUS
<1>2. Cardinality({later \in snapshots : later.at > s.at}) = 0
  BY <1>1, FS_EmptySet
<1>3. 0 < keep
  OBVIOUS
<1> QED
  BY <1>2, <1>3 DEF Trimmed

\* What is not later is not later.
LEMMA NotLater ==
  ASSUME NEW a \in Nat, NEW c \in Nat, a <= c
  PROVE  ~(a > c)
OBVIOUS

\* A retention keeps at least one.
LEMMA KeepsOne ==
  ASSUME NEW set \in Settings
  PROVE  set.keep \in Nat \ {0}
BY DesktopAssumption DEF Settings

\* A snapshot is complete and the older ones are trimmed, or it is removed.
LEMMA EndSnapshotKept ==
  ASSUME DesktopIInv, NEW t \in Threads \ Menus, EndSnapshot(t)
  PROVE  DesktopIInv'
<1>1. /\ up /\ thread[t].at = "snapping" /\ Serving(t, thread[t].set)
      /\ UNCHANGED <<file, db, clock, memory, target, promised>>
  BY DEF EndSnapshot, At
<1>2. /\ thread[t] \in State /\ Whole(thread[t].dir, db) /\ thread[t].set \in Settings
      /\ thread[t].set.dir = thread[t].dir /\ (thread[t].folded => thread[t].seen \subseteq thread[t].has)
      /\ thread[t].name < clock
  BY <1>1, AtThread DEF ThreadFit, Opening
<1>3. PICK dir \in Dirs : dir = thread[t].dir /\ Whole(dir, db)
  BY <1>2 DEF Whole
<1>4. PICK s : s = [Idle EXCEPT !.at = "serve", !.dir = thread[t].set.dir, !.set = thread[t].set]
  OBVIOUS
<1>5. s \in State /\ s.at = "serve" /\ ThreadFit(t, s, db, backups', clock')
  BY <1>2, <1>4, ServingFits
<1>6. thread' = [thread EXCEPT ![t] = s]
  BY <1>1, <1>4 DEF Serving, Go
<1>7. /\ clock \in Nat /\ clock' = clock /\ backups \in [Dirs -> SUBSET Snapshot]
      /\ launched \in [dir : Dirs, seen : SUBSET Records, folded : BOOLEAN] \cup {None}
      /\ thread \in [Threads -> State] /\ backups[dir] \in SUBSET Snapshot
  BY <1>1, <1>3 DEF DesktopIInv, Typed, Running
<1>8. db[dir].is = "whole" /\ FolderFit(db[dir], backups[dir], promised[dir], clock)
  BY <1>3, HeldRecords DEF Whole
<1>9. PICK snapshot : snapshot = [at |-> thread[t].name, has |-> thread[t].has]
  OBVIOUS
<1>10. /\ snapshot \in Snapshot /\ snapshot.at = thread[t].name /\ snapshot.has = thread[t].has
       /\ snapshot.has \in SUBSET Records /\ snapshot.at < clock
  BY <1>2, <1>9 DEF Snapshot, State
<1>11. PICK others : others = {o \in backups[dir] : o.at # snapshot.at}
  OBVIOUS
<1>12. others \in SUBSET Snapshot /\ others \subseteq backups[dir]
  BY <1>7, <1>11
<1>13. FolderFit(db[dir], others \cup {snapshot}, promised[dir], clock)
  <2>1. \A o \in others \cup {snapshot} : o.at < clock
    BY <1>8, <1>10, <1>12 DEF FolderFit
  <2>2. \A o, r \in others \cup {snapshot} : o.at = r.at => o = r
    BY <1>8, <1>11 DEF FolderFit
  <2> QED
    BY <1>8, <2>1, <2>2 DEF FolderFit
<1>14. ASSUME OnePicker
       PROVE  /\ Alone
              /\ \A u \in Threads \ Menus : thread'[u].at # "idle" => u = t
              /\ \A u \in Threads \ Menus : thread'[u].at # "snapping"
              /\ \A o \in others \cup {snapshot} : o.at <= snapshot.at
  <2>1. Alone
    BY <1>14 DEF DesktopIInv
  <2>2. thread'[t] = s /\ \A u \in Threads \ {t} : thread'[u] = thread[u]
    BY <1>6, <1>7
  <2>3. \A u \in Threads \ Menus : thread'[u].at # "idle" => u = t
    BY <1>1, <2>1, <2>2 DEF Alone
  <2>4. \A u \in Threads \ Menus : thread'[u].at # "snapping"
    BY <1>5, <2>2, <2>3
  <2>5. \A o \in others : o.at <= snapshot.at
    BY <1>1, <1>3, <1>10, <1>12, <2>1 DEF Alone
  <2>6. snapshot.at <= snapshot.at
    BY <1>10, NextInstant DEF Snapshot
  <2> QED
    BY <2>1, <2>3, <2>4, <2>5, <2>6
<1>15. ASSUME NEW b, b \subseteq others \cup {snapshot}, backups' = [backups EXCEPT ![dir] = b],
              launched' \in [dir : Dirs, seen : SUBSET Records, folded : BOOLEAN] \cup {None},
              OnePicker => LaunchSnapshotKept'
       PROVE  DesktopIInv'
  <2>1. b \in SUBSET Snapshot
    BY <1>10, <1>12, <1>15
  <2>2. FolderFit(db[dir], b, promised[dir], clock')
    BY <1>7, <1>8, <1>13, <1>15, FewerFit
  <2>3. ~OnePicker \/ Alone'
    BY <1>14, <1>15 DEF Alone
  <2>4. clock' \in Nat /\ clock <= clock'
    BY <1>7, NextInstant
  <2>5. up /\ UNCHANGED <<file, db, memory, target, promised>>
    BY <1>1
  <2> QED
    BY <1>3, <1>5, <1>6, <1>7, <1>15, <2>1, <2>2, <2>3, <2>4, <2>5, SnapshotTurn
<1>16. ASSUME backups' = [backups EXCEPT ![dir] = Trimmed(others \cup {snapshot}, thread[t].set.keep)],
              launched' = [dir |-> dir, seen |-> thread[t].seen, folded |-> thread[t].folded]
       PROVE  DesktopIInv'
  <2>1. PICK b : b = Trimmed(others \cup {snapshot}, thread[t].set.keep)
    OBVIOUS
  <2>2. b \subseteq others \cup {snapshot} /\ backups' = [backups EXCEPT ![dir] = b]
    BY <1>16, <2>1 DEF Trimmed
  <2>3. launched' \in [dir : Dirs, seen : SUBSET Records, folded : BOOLEAN] /\ launched'.dir = dir
        /\ launched'.seen = thread[t].seen /\ launched'.folded = thread[t].folded
    BY <1>2, <1>16 DEF State
  <2>4. ASSUME OnePicker
        PROVE  LaunchSnapshotKept'
    <3>1. \A o \in others \cup {snapshot} : ~(o.at > snapshot.at)
      <4>1. \A o \in others \cup {snapshot} : o.at <= snapshot.at /\ o.at \in Nat
        BY <1>10, <1>12, <1>14, <2>4 DEF Snapshot
      <4>2. snapshot.at \in Nat
        BY <1>10 DEF Snapshot
      <4> QED
        BY <4>1, <4>2, NotLater
    <3>2. thread[t].set.keep \in Nat \ {0}
      BY <1>2, KeepsOne
    <3>3. snapshot \in b
      BY <2>1, <3>1, <3>2, NewestKept
    <3>4. backups'[dir] = b
      BY <1>7, <2>2
    <3>5. snapshot.has # Torn /\ (thread[t].folded => thread[t].seen \subseteq snapshot.has)
      BY <1>2, <1>10, DesktopAssumption
    <3> QED
      BY <2>3, <3>3, <3>4, <3>5 DEF LaunchSnapshotKept
  <2> QED
    BY <1>15, <2>2, <2>3, <2>4
<1>17. ASSUME backups' = [backups EXCEPT ![dir] = others], UNCHANGED launched
       PROVE  DesktopIInv'
  <2>1. ASSUME OnePicker
        PROVE  LaunchSnapshotKept'
    <3> SUFFICES ASSUME launched # None
                 PROVE  \E o \in backups'[launched.dir] : o.has # Torn /\ (launched.folded => launched.seen \subseteq o.has)
      BY <1>17 DEF LaunchSnapshotKept
    <3>1. PICK o \in backups[launched.dir] : o.has # Torn /\ (launched.folded => launched.seen \subseteq o.has)
      BY <1>14, <2>1 DEF Alone, LaunchSnapshotKept
    <3>2. launched.dir \in Dirs
      BY <1>7
    <3>3. CASE launched.dir # dir
      BY <1>7, <1>17, <3>1, <3>2, <3>3
    <3>4. CASE launched.dir = dir
      <4>1. o.at # snapshot.at
        BY <1>1, <1>3, <1>10, <1>14, <2>1, <3>1, <3>4 DEF Alone
      <4>2. o \in others /\ backups'[dir] = others
        BY <1>7, <1>11, <1>17, <3>1, <3>4, <4>1
      <4> QED
        BY <3>1, <3>4, <4>2
    <3> QED
      BY <3>3, <3>4
  <2> QED
    BY <1>7, <1>15, <1>17, <2>1
<1> QED
  <2>1. \/ /\ backups' = [backups EXCEPT ![dir] = Trimmed(others \cup {snapshot}, thread[t].set.keep)]
           /\ launched' = [dir |-> dir, seen |-> thread[t].seen, folded |-> thread[t].folded]
        \/ backups' = [backups EXCEPT ![dir] = others] /\ UNCHANGED launched
    BY <1>3, <1>9, <1>11 DEF EndSnapshot
  <2> QED
    BY <1>16, <1>17, <2>1

-----------------------------------------------------------------------------
(* The process starts and ends.                                            *)

\* Without a process no thread is at work.
LEMMA NobodyRuns ==
  ASSUME DesktopIInv, ~up, NEW t \in Threads
  PROVE  thread[t].at = "idle"
BY DEF DesktopIInv, Running

\* The startup opens the vault that the settings name.
LEMMA BootKept ==
  ASSUME DesktopIInv, Boot
  PROVE  DesktopIInv'
<1>1. /\ ~up /\ up' /\ settings' = Loaded
      /\ UNCHANGED <<disk, server, client, target, promised, launched>>
  BY DEF Boot
<1>2. /\ file' = file /\ db' = db /\ backups' = backups /\ clock' = clock
      /\ server' = server /\ client' = client /\ target' = target
      /\ promised' = promised /\ launched' = launched
  BY <1>1 DEF disk
<1>3. Typed /\ Folders /\ Serves /\ Running /\ (FoldsDuringCopy \/ Named)
  BY DEF DesktopIInv
<1>4. Loaded \in Settings \cup {None} /\ (Loaded # None => Loaded = file /\ file \in Settings)
  BY <1>3 DEF Typed, Loaded
<1>5. Typed'
  <2>1. up' \in BOOLEAN
    BY DEF Boot
  <2> QED
    BY <1>1, <1>2, <1>3, <1>4, <2>1 DEF Typed, Settings, Db, Snapshot
<1>6. Folders' /\ Serves'
  BY <1>2, <1>3 DEF Folders, FolderFit, Held, NoDb, Serves, Whole
<1>7. clock <= clock' /\ Grown(db, db')
  BY <1>2, <1>3 DEF Grown, Typed
<1>8. /\ "startup" \in Threads \ Menus
      /\ \A u \in Threads : thread[u].at = "idle"
  BY <1>1, DesktopAssumption, NobodyRuns DEF Threads
<1>9. PICK s : s = IF Loaded = None THEN thread["startup"]
                   ELSE [Idle EXCEPT !.at = "open", !.dir = Loaded.dir]
  OBVIOUS
<1>10. thread' = [thread EXCEPT !["startup"] = s]
  <2>1. CASE Loaded = None
    BY <1>3, <1>8, <1>9, <2>1 DEF Boot, Running
  <2>2. CASE Loaded # None
    BY <1>9, <2>2 DEF Boot, Go
  <2> QED
    BY <2>1, <2>2
<1>11. s \in State /\ s.at \in {"idle", "open"} /\ (s.at = "open" => s.dir \in Dirs)
  <2>1. CASE Loaded = None
    BY <1>3, <1>8, <1>9, <2>1 DEF Running
  <2>2. CASE Loaded # None
    <3>1. Loaded.dir \in Dirs
      BY <1>4, <2>2 DEF Settings
    <3> QED
      BY <1>9, <2>2, <3>1 DEF Idle, State, ShellPlaces
  <2> QED
    BY <2>1, <2>2
<1>12. ThreadFit("startup", s, db', backups', clock')
  BY <1>8, <1>11 DEF ThreadFit, ShellPlaces, Opening
<1>13. FoldsDuringCopy \/ (/\ file' \in Settings => Whole(file'.dir, db')
                           /\ settings' # None => Whole(settings'.dir, db'))
  BY <1>1, <1>2, <1>3, <1>4 DEF Named
<1>14. ~OnePicker \/ Alone'
  BY <1>2, <1>8, <1>10, <1>11, AloneKept
<1>15. /\ \A dir \in Dirs : db[dir].is = "torn" => db'[dir] = db[dir] /\ backups'[dir] = backups[dir]
       /\ \A dir \in Dirs : Whole(dir, db) => db'[dir].main = db[dir].main
  BY <1>2
<1> QED
  BY <1>1, <1>5, <1>6, <1>7, <1>8, <1>10, <1>11, <1>12, <1>13, <1>14, <1>15, TurnKept

\* What is on the disk survives the process.
LEMMA StopKept ==
  ASSUME DesktopIInv, Stop
  PROVE  DesktopIInv'
<1>1. /\ up' = FALSE /\ settings' = None /\ server' = None /\ client' = None
      /\ thread' = [t \in Threads |-> Idle]
      /\ file' = file /\ db' = db /\ backups' = backups /\ clock' = clock
      /\ promised' = promised /\ launched' = launched
      /\ target' = IF target = "unsynced" THEN Torn ELSE target
  BY DEF Stop, disk
<1>2. Typed /\ Folders /\ (FoldsDuringCopy \/ Named) /\ (~OnePicker \/ Alone)
  BY DEF DesktopIInv
<1>3. target' \in {None, "whole"}
  BY <1>1, <1>2, DesktopAssumption DEF Typed
<1>4. Typed'
  BY <1>1, <1>2, <1>3 DEF Typed, Settings, Db, Snapshot
<1>5. Folders'
  BY <1>1, <1>2 DEF Folders, FolderFit, Held, NoDb
<1>6. Serves'
  BY <1>1 DEF Serves
<1>7. \A t \in Threads : /\ thread'[t] = Idle /\ thread'[t] \in State /\ thread'[t].at = "idle"
                         /\ ThreadFit(t, thread'[t], db', backups', clock')
                         /\ MoveFit(thread'[t], db')
  BY <1>1, IdleFits
<1>8. Running'
  <2>1. thread' \in [Threads -> State]
    BY <1>1, IdleFits
  <2> QED
    BY <1>7, <2>1 DEF Running, ThreadFit, Whole, Held, State, ShellPlaces, MenuPlaces, Opening,
                      Settings
<1>9. FoldsDuringCopy \/ Named'
  <2>1. \A t \in Menus : MoveFit(thread'[t], db')
    BY <1>7 DEF Threads
  <2> QED
    BY <1>1, <1>2, <2>1 DEF Named, MoveFit, Whole, Settings
<1>10. ~OnePicker \/ Alone'
  BY <1>1, <1>2, <1>7 DEF Alone, LaunchSnapshotKept
<1> QED
  BY <1>4, <1>5, <1>6, <1>8, <1>9, <1>10 DEF DesktopIInv, OnePicker

\* A behaviour begins with what the disk holds.
LEMMA InitFits ==
  ASSUME Init
  PROVE  DesktopIInv
<1>1. PICK start \in Starts : file = start.file /\ db = start.db
  BY DEF Init
<1>2. /\ up = FALSE /\ settings = None /\ server = None /\ client = None
      /\ thread = [t \in Threads |-> Idle]
      /\ backups = [dir \in Dirs |-> {}] /\ clock = 0 /\ target = None
      /\ promised = [dir \in Dirs |-> Content(dir)] /\ launched = None
  BY DEF Init
<1>3. /\ file \in Settings \cup {None, Torn} /\ db \in [Dirs -> Db]
      /\ \A dir \in Dirs : db[dir].is = "whole" \/ db[dir] = NoDb
      /\ file \in Settings => db[file.dir].is = "whole"
  BY <1>1, DesktopAssumption
<1>4. \A dir \in Dirs : Content(dir) = Held(db[dir]) /\ Content(dir) \subseteq Records
  BY <1>3 DEF Content, Held, Db
<1>5. Typed
  BY <1>2, <1>3, <1>4 DEF Typed
<1>6. Folders
  BY <1>2, <1>3, <1>4 DEF Folders, FolderFit, NoDb
<1>7. Serves
  BY <1>2 DEF Serves
<1>8. \A t \in Threads : /\ thread[t] \in State /\ thread[t].at = "idle"
                         /\ ThreadFit(t, thread[t], db, backups, clock) /\ MoveFit(thread[t], db)
  BY <1>2, IdleFits
<1>9. Running
  <2>1. thread \in [Threads -> State]
    BY <1>2, IdleFits
  <2> QED
    BY <1>8, <2>1 DEF Running
<1>10. Named
  <2>1. file \in Settings => file.dir \in Dirs
    BY DEF Settings
  <2> QED
    BY <1>2, <1>3, <1>8, <2>1 DEF Named, Whole, Threads
<1>11. Alone
  BY <1>2, <1>8 DEF Alone, LaunchSnapshotKept
<1> QED
  BY <1>5, <1>6, <1>7, <1>9, <1>10, <1>11 DEF DesktopIInv

\* Every step of the shell keeps the invariant.
LEMMA StepFits ==
  ASSUME DesktopIInv, Next
  PROVE  DesktopIInv'
<1>1. CASE Boot
  BY <1>1, BootKept
<1>2. CASE Stop
  BY <1>2, StopKept
<1>3. ASSUME NEW t \in Pickers, NEW route, NEW dir \in Dirs, PickVaultDir(t, route, dir)
      PROVE  DesktopIInv'
  BY <1>3, PickKept
<1>4. ASSUME NEW t \in Pickers \cup {"startup"}, Configure(t)
      PROVE  DesktopIInv'
  <2>1. t \in Threads \ Menus
    BY DesktopAssumption DEF Threads
  <2>2. CASE OpenDatabase(t)
    BY <2>1, <2>2, OpenDatabaseKept
  <2>3. CASE FoldAtOpen(t)
    BY <2>1, <2>3, FoldAtOpenKept
  <2>4. CASE BeginSnapshot(t)
    BY <2>1, <2>4, BeginSnapshotKept
  <2>5. CASE EndSnapshot(t)
    BY <2>1, <2>5, EndSnapshotKept
  <2>6. CASE StartServer(t)
    BY <2>1, <2>6, StartServerKept
  <2>7. CASE PublishSettings(t) \/ PublishServer(t)
    BY <2>1, <2>7, PublishKept
  <2> QED
    BY <1>4, <2>2, <2>3, <2>4, <2>5, <2>6, <2>7 DEF Configure
<1>5. ASSUME NEW t \in Threads, BeginSave(t) \/ EndSave(t)
      PROVE  DesktopIInv'
  BY <1>5, BeginSaveKept, EndSaveKept
<1>6. ASSUME NEW t \in Menus, Menu(t)
      PROVE  DesktopIInv'
  <2>1. CASE BeginImport(t) \/ BeginExport(t)
    BY <2>1, BeginKept
  <2>2. CASE \E record \in Records : ImportPut(t, record)
    BY <2>2, ImportPutKept
  <2>3. CASE EndImport(t) \/ RefuseMove(t)
    BY <2>3, EndKept
  <2>4. CASE WriteTemp(t)
    BY <2>4, WriteTempKept
  <2>5. CASE SyncTemp(t)
    BY <2>5, SyncTempKept
  <2>6. CASE RenameTemp(t)
    BY <2>6, RenameTempKept
  <2>7. CASE FoldBeforeMove(t)
    BY <2>7, FoldBeforeMoveKept
  <2>8. CASE EndCopy(t)
    BY <2>8, EndCopyKept
  <2>9. CASE \E dir \in Dirs : BeginCopy(t, dir)
    BY <2>9, BeginCopyKept
  <2> QED
    BY <1>6, <2>1, <2>2, <2>3, <2>4, <2>5, <2>6, <2>7, <2>8, <2>9 DEF Menu
<1>7. ASSUME NEW record \in Records, ClientPut(record)
      PROVE  DesktopIInv'
  BY <1>7, ClientPutKept
<1>8. ASSUME NEW dir \in Dirs, FoldLog(dir)
      PROVE  DesktopIInv'
  BY <1>8, FoldLogKept
<1> QED
  BY <1>1, <1>2, <1>3, <1>4, <1>5, <1>6, <1>7, <1>8 DEF Next

\* A step that changes nothing keeps it too.
LEMMA StutterFits ==
  ASSUME DesktopIInv, UNCHANGED vars
  PROVE  DesktopIInv'
<1>1. /\ file' = file /\ db' = db /\ backups' = backups /\ clock' = clock
      /\ up' = up /\ settings' = settings /\ server' = server /\ client' = client
      /\ thread' = thread /\ target' = target /\ promised' = promised /\ launched' = launched
  BY DEF vars, disk, memory
<1>2. Typed' /\ Folders' /\ Serves'
  BY <1>1 DEF DesktopIInv, Typed, Settings, Db, Snapshot, Folders, FolderFit, Held, NoDb,
              Serves, Whole
<1>3. Running'
  BY <1>1 DEF DesktopIInv, Running, ThreadFit, Whole, Held, State, ShellPlaces, MenuPlaces,
              Opening, Settings
<1>4. FoldsDuringCopy \/ Named'
  BY <1>1 DEF DesktopIInv, Named, MoveFit, Whole, Settings
<1>5. ~OnePicker \/ Alone'
  BY <1>1 DEF DesktopIInv, Alone, LaunchSnapshotKept
<1> QED
  BY <1>2, <1>3, <1>4, <1>5 DEF DesktopIInv, OnePicker

-----------------------------------------------------------------------------
(* What holds of the desktop shell.                                        *)

\* DesktopIInv holds of every desktop shell: whatever fails and whenever the process ends,
\* every folder keeps what it promised, no two moves copy to one folder, a server has a
\* whole vault, and no thread counts on more than its folder holds.
THEOREM DesktopInvariant == Spec => []DesktopIInv
<1>1. Init => DesktopIInv
  BY InitFits
<1>2. DesktopIInv /\ [Next]_vars => DesktopIInv'
  BY StepFits, StutterFits
<1> QED
  BY <1>1, <1>2, PTL DEF Spec

\* Every thread is at one of its steps with what the step needs, whatever the other threads do.
THEOREM ShellTyped == Spec => []TypeOK
<1>1. DesktopIInv => TypeOK
  <2> SUFFICES ASSUME DesktopIInv
               PROVE  TypeOK
    OBVIOUS
  <2>1. Typed /\ Folders /\ Serves /\ Running
    BY DEF DesktopIInv
  <2>2. /\ file \in Settings \cup {None, Torn} /\ settings \in Settings \cup {None}
        /\ {server, client} \subseteq Dirs \cup {None} /\ (server = None) = (client = None)
    BY <2>1 DEF Typed, Serves, Whole
  <2>3. ASSUME NEW dir \in Dirs
        PROVE  /\ db[dir].is \in {"none", "torn", "whole"}
               /\ db[dir].main \subseteq Records /\ db[dir].wal \subseteq Records
               /\ db[dir].is # "whole" => db[dir].wal = {}
               /\ \A s, o \in backups[dir] : s.at < clock /\ (s.at = o.at => s = o)
    <3>1. db[dir] \in Db /\ FolderFit(db[dir], backups[dir], promised[dir], clock)
      BY <2>1 DEF Typed, Folders
    <3> QED
      BY <3>1 DEF Db, FolderFit
  <2>4. ASSUME NEW t \in Threads
        PROVE  /\ thread[t].at # "idle" => up
               /\ thread[t].at \in {"fold", "snapshot", "snapping", "serve", "save", "saving", "moved"} =>
                    thread[t].set \in Settings /\ thread[t].set.dir = thread[t].dir
    BY <2>1 DEF Running, ThreadFit, Opening
  <2> QED
    BY <2>2, <2>3, <2>4 DEF TypeOK
<1> QED
  BY <1>1, DesktopInvariant, PTL

\* As long as no log is folded into a file that is being copied, settings that can be read
\* name a whole vault with every record it has to hold, wherever a crash or a failure strikes.
THEOREM SettingsNeverMislead ==
  ASSUME ~FoldsDuringCopy
  PROVE  Spec => []SettingsNameWholeVault
<1>1. DesktopIInv => SettingsNameWholeVault
  <2> SUFFICES ASSUME DesktopIInv, file \notin {None, Torn}
               PROVE  db[file.dir].is = "whole" /\ promised[file.dir] \subseteq Content(file.dir)
    BY DEF SettingsNameWholeVault
  <2>1. file \in Settings
    BY DEF DesktopIInv, Typed
  <2>2. Whole(file.dir, db)
    BY <2>1 DEF DesktopIInv, Named
  <2>3. FolderFit(db[file.dir], backups[file.dir], promised[file.dir], clock)
    BY <2>2 DEF DesktopIInv, Folders, Whole
  <2> QED
    BY <2>2, <2>3 DEF Whole, FolderFit, Held, Content
<1> QED
  BY <1>1, DesktopInvariant, PTL

\* With one call of pick_vault_dir at a time, the snapshot of an opening is complete,
\* holds what the opening found if its checkpoint went through (its result is not looked at),
\* and survives every later trim until another opening has its own.
THEOREM SnapshotSurvives ==
  ASSUME OnePicker
  PROVE  Spec => []LaunchSnapshotKept
<1>1. DesktopIInv => LaunchSnapshotKept
  BY DEF DesktopIInv, Alone
<1> QED
  BY <1>1, DesktopInvariant, PTL

\* The file of an export is never cut off, wherever the process ends (atomic_file.rs).
THEOREM ExportsNeverCutOff == Spec => []ExportWhole
<1>1. DesktopIInv => ExportWhole
  BY DesktopAssumption DEF DesktopIInv, Typed, ExportWhole
<1> QED
  BY <1>1, DesktopInvariant, PTL

=============================================================================
