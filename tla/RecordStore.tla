----------------------------- MODULE RecordStore -----------------------------
(***************************************************************************)
(* The opaque record store as its SQLite adapter implements it: one mutex  *)
(* and one transaction around every operation, so each operation is one    *)
(* step.  The trait OpaqueStore promises this behaviour of every adapter;  *)
(* InMemoryStore models the adapter whose calls interleave.                *)
(*                                                                         *)
(* A slot <<vault, id>> is the storage identity of a record.  Ciphertext,  *)
(* hashes and protocol fields travel together and are one body.  A call    *)
(* that is refused (Conflict, NotFound, InvalidRecord) rolls its           *)
(* transaction back and changes nothing: it is a stuttering step.          *)
(***************************************************************************)
EXTENDS Naturals, Sequences, FiniteSets

CONSTANTS
  Vaults,       \* vault scopes
  Ids,          \* record ids, unique within a vault
  Bodies,       \* what a write may store
  NoBody,       \* the body of a slot without a row
  NoStamp,      \* SQL NULL in tombstoned_at
  MaxRevision,  \* bound: writes to one slot
  MaxClock,     \* bound: ticks of the epoch clock
  MaxBatch      \* bound: rows in one batch

ASSUME StoreAssumption ==
  /\ NoBody \notin Bodies
  /\ NoStamp \notin Nat
  /\ MaxRevision \in Nat
  /\ MaxClock \in Nat
  /\ MaxBatch \in Nat

VARIABLES
  rows,   \* the records table, a row for every slot (Missing where SQL has none)
  now     \* utc_now_epoch()

storeVars == <<rows, now>>

Slots == Vaults \X Ids

\* Revision 0 stands for "no row"; as an expected revision it is Option::None.
Row == [revision : Nat, body : Bodies \cup {NoBody},
        dead : BOOLEAN, stamp : Nat \cup {NoStamp}]

Missing == [revision |-> 0, body |-> NoBody, dead |-> FALSE, stamp |-> NoStamp]

Present(row) == row.revision > 0

-----------------------------------------------------------------------------

\* INSERT never names tombstoned_at; UPDATE clears it for a live row and
\* leaves it alone for a tombstone.
Written(row, body, dead) ==
  [revision |-> row.revision + 1,
   body     |-> body,
   dead     |-> dead,
   stamp    |-> IF dead THEN row.stamp ELSE NoStamp]

Put(slot, expected, body, dead) ==
  /\ expected = rows[slot].revision
  /\ expected < MaxRevision
  /\ rows' = [rows EXCEPT ![slot] = Written(@, body, dead)]
  /\ UNCHANGED now

\* Mutant: the deletion does not count as a write.
TombstonedInPlace(row, stamp) ==
  [revision |-> row.revision, body |-> row.body, dead |-> TRUE, stamp |-> stamp]

Tombstoned(row, stamp) ==
  [revision |-> row.revision + 1, body |-> row.body, dead |-> TRUE, stamp |-> stamp]

Tombstone(slot, expected) ==
  /\ Present(rows[slot])
  /\ expected = rows[slot].revision
  /\ expected < MaxRevision
  /\ rows' = [rows EXCEPT ![slot] = Tombstoned(@, now)]
  /\ UNCHANGED now

-----------------------------------------------------------------------------
(* put_batch writes its rows in order in one transaction, so a row sees    *)
(* what an earlier row of the batch did to the same slot.  An accepted     *)
(* write of expected revision e leaves revision e + 1, hence no recursion. *)

Writes == [slot : Slots, expected : 0 .. MaxRevision, body : Bodies, dead : BOOLEAN]

BatchRowsOf(batch, slot) == {i \in DOMAIN batch : batch[i].slot = slot}

LastOf(S) == CHOOSE i \in S : \A j \in S : j <= i

\* The revision the i-th row of the batch finds in its slot.
FoundBy(batch, i) ==
  LET earlier == {j \in BatchRowsOf(batch, batch[i].slot) : j < i}
  IN  IF earlier = {} THEN rows[batch[i].slot].revision
      ELSE batch[LastOf(earlier)].expected + 1

BatchAccepted(batch) ==
  \A i \in DOMAIN batch : /\ batch[i].expected = FoundBy(batch, i)
                          /\ batch[i].expected < MaxRevision

\* The row the batch leaves: its last write, with the old stamp only when
\* every write of the batch to that slot was a tombstone.
AfterBatch(batch, slot) ==
  LET mine == BatchRowsOf(batch, slot)
      last == batch[LastOf(mine)]
  IN  [revision |-> last.expected + 1,
       body     |-> last.body,
       dead     |-> last.dead,
       stamp    |-> IF \A i \in mine : batch[i].dead THEN rows[slot].stamp
                    ELSE NoStamp]

PutBatch(batch) ==
  /\ batch # <<>>
  /\ BatchAccepted(batch)
  /\ rows' = [slot \in Slots |-> IF BatchRowsOf(batch, slot) = {} THEN rows[slot]
                                 ELSE AfterBatch(batch, slot)]
  /\ UNCHANGED now

-----------------------------------------------------------------------------

\* Mutant: the stamp is set without looking at the tombstone flag.
ArrivedStamped(record, epoch) ==
  [revision |-> 1, body |-> record.body, dead |-> record.dead, stamp |-> epoch]

\* A rekeyed row starts a new history; one that arrives tombstoned is stamped.
Arrived(record, epoch) ==
  [revision |-> 1,
   body     |-> record.body,
   dead     |-> record.dead,
   stamp    |-> IF record.dead THEN epoch ELSE NoStamp]

\* records maps the ids of the request to what it stores; a repeated id
\* collides with its own first insert and the call is refused.
RekeyVault(from, to, records) ==
  /\ to # from
  /\ DOMAIN records # {}
  /\ \A id \in DOMAIN records : ~Present(rows[<<to, id>>])
  /\ rows' = [slot \in Slots |->
                IF slot[1] = from THEN Missing
                ELSE IF slot[1] = to /\ slot[2] \in DOMAIN records
                THEN Arrived(records[slot[2]], now)
                ELSE rows[slot]]
  /\ UNCHANGED now

\* Mutant: a tombstone without a stamp counts as expired.
ExpiredUnstamped(row, cutoff) ==
  row.dead /\ (row.stamp # NoStamp => row.stamp <= cutoff)

Expired(row, cutoff) ==
  row.dead /\ row.stamp # NoStamp /\ row.stamp <= cutoff

\* Mutant: the DELETE forgets its vault scope.
PurgeEverywhere(vault, cutoff) ==
  /\ cutoff <= now
  /\ rows' = [slot \in Slots |-> IF Expired(rows[slot], cutoff) THEN Missing ELSE rows[slot]]
  /\ UNCHANGED now

\* The API purges up to the current epoch, the worker up to an earlier one.
PurgeTombstonedBefore(vault, cutoff) ==
  /\ cutoff <= now
  /\ rows' = [slot \in Slots |-> IF slot[1] = vault /\ Expired(rows[slot], cutoff)
                                 THEN Missing ELSE rows[slot]]
  /\ UNCHANGED now

Tick ==
  /\ now < MaxClock
  /\ now' = now + 1
  /\ UNCHANGED rows

-----------------------------------------------------------------------------

Batches == UNION {[1 .. n -> Writes] : n \in 1 .. MaxBatch}

RekeyRequests == UNION {[ids -> [body : Bodies, dead : BOOLEAN]] : ids \in SUBSET Ids}

StoreInit ==
  /\ rows = [slot \in Slots |-> Missing]
  /\ now = 0

StoreNext ==
  \/ \E slot \in Slots, expected \in 0 .. MaxRevision, body \in Bodies, dead \in BOOLEAN :
       Put(slot, expected, body, dead)
  \/ \E slot \in Slots, expected \in 0 .. MaxRevision : Tombstone(slot, expected)
  \/ \E batch \in Batches : PutBatch(batch)
  \/ \E from, to \in Vaults, records \in RekeyRequests : RekeyVault(from, to, records)
  \/ \E vault \in Vaults, cutoff \in 0 .. MaxClock : PurgeTombstonedBefore(vault, cutoff)
  \/ Tick

StoreSpec == StoreInit /\ [][StoreNext]_storeVars

-----------------------------------------------------------------------------

\* Type invariant: every slot holds a row or Missing, the clock is a number.
StoreTypeOK ==
  /\ rows \in [Slots -> Row]
  /\ now \in Nat

\* A slot without a row carries nothing of the row it once held, so a record
\* created again after a purge or a rekey starts clean (INSERT leaves
\* tombstoned_at NULL).
MissingIsClean == \A slot \in Slots : ~Present(rows[slot]) => rows[slot] = Missing

\* tombstoned_at answers Ok(None) for every live record: no history of
\* deletes, restores, batches and rekeys leaves a stamp on a live row, which
\* would count the next deletion's retention from the wrong moment.
LiveRowsUnstamped == \A slot \in Slots : ~rows[slot].dead => rows[slot].stamp = NoStamp

\* No stamp lies in the future: a deletion never waits longer than the
\* retention window.
StampsPast == \A slot \in Slots : rows[slot].stamp # NoStamp => rows[slot].stamp <= now

StoreInv == StoreTypeOK /\ MissingIsClean /\ LiveRowsUnstamped /\ StampsPast

\* The vault is emptied by a step that also fills another one.
Rekeyed(vault) ==
  /\ \A id \in Ids : ~Present(rows'[<<vault, id>>])
  /\ \E slot \in Slots : slot[1] # vault /\ ~Present(rows[slot]) /\ Present(rows'[slot])

\* A row disappears only because it was a stamped tombstone, or because its
\* whole vault moves to another scope in the same transaction: no write,
\* batch, deletion or clock step ever takes a live row away.
RowsLeaveByPurgeOrRekey ==
  [][\A slot \in Slots :
       Present(rows[slot]) /\ ~Present(rows'[slot]) =>
         \/ rows[slot].dead /\ rows[slot].stamp # NoStamp /\ rows[slot].stamp <= now
         \/ Rekeyed(slot[1])]_storeVars

\* "Revisions are monotonic per record": as long as a slot keeps its row, a
\* step that changes anything in it takes a larger revision with it, so a
\* reader that compares revisions notices every change.
ChangesRaiseRevision ==
  [][\A slot \in Slots :
       Present(rows[slot]) /\ Present(rows'[slot]) /\ rows'[slot] # rows[slot] =>
         rows'[slot].revision > rows[slot].revision]_storeVars

-----------------------------------------------------------------------------

\* What a caller sees of the rows.
Visible == [slot \in Slots |-> [revision |-> rows[slot].revision, dead |-> rows[slot].dead]]

Contract == INSTANCE OpaqueStore WITH records <- Visible

\* The adapter keeps the trait's promises: every operation, a batch that writes
\* one slot several times included, is one step of the abstract store.
KeepsContract == Contract!Spec

\* What the trait says of the purge, "the current epoch purges every tombstone
\* now".  A put or a batch row that sets the tombstone flag gets no stamp, and
\* no purge ever takes it.
PurgeNowEmptiesTrash ==
  [][\A vault \in Vaults :
       PurgeTombstonedBefore(vault, now) => \A id \in Ids : ~rows'[<<vault, id>>].dead]_storeVars

=============================================================================
