----------------------------- MODULE OpaqueStore -----------------------------
(***************************************************************************)
(* What the trait OpaqueStore promises of every adapter, as its callers    *)
(* see the records: compare-and-set writes that commit whole, tombstones   *)
(* that only a purge removes, and a rekey that moves a vault between       *)
(* scopes in one step.  Deletion stamps are each adapter's own business.   *)
(***************************************************************************)
EXTENDS Naturals

CONSTANTS
  Vaults,  \* vault scopes
  Ids      \* record ids, unique within a vault

VARIABLE records  \* a record for every slot, revision 0 where there is none

Slots == Vaults \X Ids

Record == [revision : Nat, dead : BOOLEAN]

NoRecord == [revision |-> 0, dead |-> FALSE]

Present(record) == record.revision > 0

-----------------------------------------------------------------------------

Init == records = [slot \in Slots |-> NoRecord]

\* put, tombstone and put_batch: some records gain a revision at once, and
\* no record loses one.
Write ==
  /\ records' \in [Slots -> Record]
  /\ \A slot \in Slots : \/ records'[slot] = records[slot]
                         \/ records'[slot].revision > records[slot].revision

\* rekey_vault: the old scope is emptied, free slots of the new one start at
\* revision 1, and no other record changes.
Rekey(from, to) ==
  /\ from # to
  /\ records' \in [Slots -> Record]
  /\ \A id \in Ids : records'[<<from, id>>] = NoRecord
  /\ \E id \in Ids : records'[<<to, id>>] # records[<<to, id>>]
  /\ \A slot \in Slots : slot[1] # from =>
       \/ records'[slot] = records[slot]
       \/ slot[1] = to /\ ~Present(records[slot]) /\ records'[slot].revision = 1

\* purge_tombstoned_before: tombstones of one vault leave.
Purge(vault) ==
  /\ records' \in [Slots -> Record]
  /\ \A slot \in Slots :
       \/ records'[slot] = records[slot]
       \/ slot[1] = vault /\ records[slot].dead /\ records'[slot] = NoRecord

Next ==
  \/ Write
  \/ \E from, to \in Vaults : Rekey(from, to)
  \/ \E vault \in Vaults : Purge(vault)

Spec == Init /\ [][Next]_records

=============================================================================
