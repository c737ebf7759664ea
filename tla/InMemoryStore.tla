---------------------------- MODULE InMemoryStore ----------------------------
(***************************************************************************)
(* InMemoryStore: the adapter with two mutexes, one for the rows and one   *)
(* for the deletion stamps, called by the API's blocking threads.  A call  *)
(* runs from one lock to the next; a step is what it does under the lock   *)
(* it has just taken.  Some calls let go of the first mutex before they    *)
(* take the second (put, tombstone), some keep it (put_batch, rekey_vault, *)
(* tombstoned_at), and the purge lets go of the rows and takes them again. *)
(* get and the listings only read under the rows mutex and have no step.   *)
(***************************************************************************)
EXTENDS Naturals

CONSTANTS
  Threads,      \* threads that call the store
  Vaults,       \* vault scopes
  Ids,          \* record ids
  NoStamp,      \* a key that is not in the map tombstoned_at
  MaxCalls,     \* bound: calls that change something or wait for a mutex
  MaxClock,     \* bound: ticks of the epoch clock
  MaxBatch      \* bound: rows in one batch

ASSUME InMemoryAssumption ==
  /\ NoStamp \notin Nat
  /\ MaxCalls \in Nat
  /\ MaxClock \in Nat
  /\ MaxBatch \in Nat

VARIABLES
  rows,    \* the map behind the rows mutex, revision 0 where a key is absent
  stamps,  \* the map behind the tombstoned_at mutex
  call,    \* what each thread still has to do of its call
  calls,   \* how many calls the threads have begun
  now      \* utc_now_epoch()

vars == <<rows, stamps, call, calls, now>>

Slots == Vaults \X Ids

Row == [revision : Nat, dead : BOOLEAN]

NoRow == [revision |-> 0, dead |-> FALSE]

Present(row) == row.revision > 0

Writes == [slot : Slots, expected : 0 .. MaxCalls, dead : BOOLEAN]

Batches == UNION {[1 .. n -> Writes] : n \in 1 .. MaxBatch}

RekeyRequests == UNION {[ids -> BOOLEAN] : ids \in SUBSET Ids}

-----------------------------------------------------------------------------
(* The mutexes, from what the threads are doing.                           *)

Idle == [at |-> "idle"]

HoldsRows(t) == call[t].at \in {"apply batch", "apply rekey", "read stamp", "collect"}

HoldsStamps(t) == call[t].at = "remove"

RowsFree == \A t \in Threads : ~HoldsRows(t)

StampsFree == \A t \in Threads : ~HoldsStamps(t)

\* Mutant: a call goes on without the rows mutex.
BeginUnlocked(t) == call[t] = Idle /\ calls < MaxCalls /\ calls' = calls + 1

\* A call takes the rows mutex first.
Begin(t) == call[t] = Idle /\ RowsFree /\ calls < MaxCalls /\ calls' = calls + 1

Goto(t, next) == call' = [call EXCEPT ![t] = next]

-----------------------------------------------------------------------------

\* put under the rows mutex; a live write still has to clear the stamp.
Put(t, slot, expected, dead) ==
  /\ Begin(t)
  /\ expected = rows[slot].revision
  /\ rows' = [rows EXCEPT ![slot] = [revision |-> expected + 1, dead |-> dead]]
  /\ Goto(t, IF dead THEN Idle ELSE [at |-> "unstamp", slot |-> slot])
  /\ UNCHANGED <<stamps, now>>

Unstamp(t) ==
  /\ call[t].at = "unstamp"
  /\ StampsFree
  /\ stamps' = [stamps EXCEPT ![call[t].slot] = NoStamp]
  /\ Goto(t, Idle)
  /\ UNCHANGED <<rows, calls, now>>

\* tombstone under the rows mutex; the stamp comes after.
Tombstone(t, slot, expected) ==
  /\ Begin(t)
  /\ Present(rows[slot])
  /\ expected = rows[slot].revision
  /\ rows' = [rows EXCEPT ![slot] = [revision |-> expected + 1, dead |-> TRUE]]
  /\ Goto(t, [at |-> "stamp", slot |-> slot])
  /\ UNCHANGED <<stamps, now>>

\* Mutant: the deletion waits until its record is dead again.
StampDead(t) ==
  /\ call[t].at = "stamp"
  /\ StampsFree
  /\ rows[call[t].slot].dead
  /\ stamps' = [stamps EXCEPT ![call[t].slot] = now]
  /\ Goto(t, Idle)
  /\ UNCHANGED <<rows, calls, now>>

Stamp(t) ==
  /\ call[t].at = "stamp"
  /\ StampsFree
  /\ stamps' = [stamps EXCEPT ![call[t].slot] = now]
  /\ Goto(t, Idle)
  /\ UNCHANGED <<rows, calls, now>>

-----------------------------------------------------------------------------

\* Mutant: the plan forgets the compare of compare-and-set.
PlannedAnyway(write) == TRUE

\* A row of the plan is compared with the rows before the batch, whatever
\* the batch already writes to the same slot.
Planned(write) == write.expected = rows[write.slot].revision

PlanBatch(t, batch) ==
  /\ Begin(t)
  /\ \A i \in DOMAIN batch : Planned(batch[i])
  /\ Goto(t, [at |-> "apply batch", batch |-> batch])
  /\ UNCHANGED <<rows, stamps, now>>

\* The rows of the batch that write the slot; the last one stays in the map.
BatchRowsOf(batch, slot) == {i \in DOMAIN batch : batch[i].slot = slot}

LastOf(S) == CHOOSE i \in S : \A j \in S : j <= i

ApplyBatch(t) ==
  /\ call[t].at = "apply batch"
  /\ StampsFree
  /\ LET batch == call[t].batch
         mine(slot) == BatchRowsOf(batch, slot)
         last(slot) == batch[LastOf(mine(slot))]
     IN  /\ rows' = [slot \in Slots |->
                       IF mine(slot) = {} THEN rows[slot]
                       ELSE [revision |-> last(slot).expected + 1, dead |-> last(slot).dead]]
         /\ stamps' = [slot \in Slots |->
                         IF \E i \in mine(slot) : ~batch[i].dead
                         THEN NoStamp ELSE stamps[slot]]
  /\ Goto(t, Idle)
  /\ UNCHANGED <<calls, now>>

-----------------------------------------------------------------------------

\* records maps each id of the request to its tombstone flag.
PlanRekey(t, from, to, records) ==
  /\ Begin(t)
  /\ to # from
  /\ DOMAIN records # {}
  /\ \A id \in DOMAIN records : ~Present(rows[<<to, id>>])
  /\ Goto(t, [at |-> "apply rekey", from |-> from, to |-> to, records |-> records])
  /\ UNCHANGED <<rows, stamps, now>>

\* The old scope loses its rows and stamps; a tombstone arrives stamped, a
\* live row leaves whatever stamp its new key has.
ApplyRekey(t) ==
  /\ call[t].at = "apply rekey"
  /\ StampsFree
  /\ LET from == call[t].from
         to == call[t].to
         records == call[t].records
         arrives(slot) == slot[1] = to /\ slot[2] \in DOMAIN records
     IN  /\ rows' = [slot \in Slots |->
                       IF slot[1] = from THEN NoRow
                       ELSE IF arrives(slot) THEN [revision |-> 1, dead |-> records[slot[2]]]
                       ELSE rows[slot]]
         /\ stamps' = [slot \in Slots |->
                         IF slot[1] = from THEN NoStamp
                         ELSE IF arrives(slot) /\ records[slot[2]] THEN now
                         ELSE stamps[slot]]
  /\ Goto(t, Idle)
  /\ UNCHANGED <<calls, now>>

\* tombstoned_at keeps the rows mutex while it asks for the other one.
BeginReadStamp(t, slot) ==
  /\ Begin(t)
  /\ Present(rows[slot])
  /\ Goto(t, [at |-> "read stamp", slot |-> slot])
  /\ UNCHANGED <<rows, stamps, now>>

ReadStamp(t) ==
  /\ call[t].at = "read stamp"
  /\ StampsFree
  /\ Goto(t, Idle)
  /\ UNCHANGED <<rows, stamps, calls, now>>

-----------------------------------------------------------------------------
(* purge_tombstoned_before: lock rows, lock stamps, collect, unlock rows,  *)
(* lock rows, remove, unlock both.                                         *)

BeginPurge(t, vault, cutoff) ==
  /\ Begin(t)
  /\ cutoff <= now
  /\ Goto(t, [at |-> "collect", vault |-> vault, cutoff |-> cutoff])
  /\ UNCHANGED <<rows, stamps, now>>

Expired(slot, cutoff) ==
  rows[slot].dead /\ stamps[slot] # NoStamp /\ stamps[slot] <= cutoff

Collect(t) ==
  /\ call[t].at = "collect"
  /\ StampsFree
  /\ Goto(t, [at |-> "remove",
              expired |-> {slot \in Slots : slot[1] = call[t].vault
                                            /\ Expired(slot, call[t].cutoff)}])
  /\ UNCHANGED <<rows, stamps, calls, now>>

Remove(t) ==
  /\ call[t].at = "remove"
  /\ RowsFree
  /\ rows' = [slot \in Slots |-> IF slot \in call[t].expired THEN NoRow ELSE rows[slot]]
  /\ stamps' = [slot \in Slots |-> IF slot \in call[t].expired THEN NoStamp ELSE stamps[slot]]
  /\ Goto(t, Idle)
  /\ UNCHANGED <<calls, now>>

Tick ==
  /\ now < MaxClock
  /\ now' = now + 1
  /\ UNCHANGED <<rows, stamps, call, calls>>

-----------------------------------------------------------------------------

Init ==
  /\ rows = [slot \in Slots |-> NoRow]
  /\ stamps = [slot \in Slots |-> NoStamp]
  /\ call = [t \in Threads |-> Idle]
  /\ calls = 0
  /\ now = 0

\* What a thread does of its own accord.
Start(t) ==
  \/ \E slot \in Slots, expected \in 0 .. MaxCalls, dead \in BOOLEAN :
       Put(t, slot, expected, dead)
  \/ \E slot \in Slots, expected \in 0 .. MaxCalls : Tombstone(t, slot, expected)
  \/ \E batch \in Batches : PlanBatch(t, batch)
  \/ \E from, to \in Vaults, records \in RekeyRequests : PlanRekey(t, from, to, records)
  \/ \E slot \in Slots : BeginReadStamp(t, slot)
  \/ \E vault \in Vaults, cutoff \in 0 .. MaxClock : BeginPurge(t, vault, cutoff)

\* What a thread must do to finish the call it is in.
Continue(t) ==
  \/ Unstamp(t)
  \/ Stamp(t)
  \/ ApplyBatch(t)
  \/ ApplyRekey(t)
  \/ ReadStamp(t)
  \/ Collect(t)
  \/ Remove(t)

Next == Tick \/ \E t \in Threads : Start(t) \/ Continue(t)

Spec == Init /\ [][Next]_vars

\* A thread that can take the mutex it waits for takes it.
FairSpec == Spec /\ \A t \in Threads : WF_vars(Continue(t))

-----------------------------------------------------------------------------

Calls ==
  [at : {"idle"}]
    \cup [at : {"unstamp", "stamp", "read stamp"}, slot : Slots]
    \cup [at : {"apply batch"}, batch : Batches]
    \cup [at : {"apply rekey"}, from : Vaults, to : Vaults, records : RekeyRequests]
    \cup [at : {"collect"}, vault : Vaults, cutoff : Nat]
    \cup [at : {"remove"}, expired : SUBSET Slots]

\* Type invariant, with the exclusion the mutexes give: at most one thread is
\* inside the rows mutex and at most one inside the stamps mutex.
TypeOK ==
  /\ rows \in [Slots -> Row]
  /\ stamps \in [Slots -> Nat \cup {NoStamp}]
  /\ call \in [Threads -> Calls]
  /\ calls \in 0 .. MaxCalls
  /\ now \in Nat
  /\ \A t, u \in Threads : HoldsRows(t) /\ HoldsRows(u) => t = u
  /\ \A t, u \in Threads : HoldsStamps(t) /\ HoldsStamps(u) => t = u

Contract == INSTANCE OpaqueStore WITH records <- rows

\* The store keeps the trait's promises under every interleaving of its
\* callers: whatever else runs between its locks, each step of a write, a
\* batch, a deletion or a rekey is a step of the abstract store, and each row
\* a purge takes is one it has found expired.  The purge itself may take a row
\* that was restored since.  So no revision is skipped or written backwards.
StepsKeepContract ==
  /\ Contract!Init
  /\ [][\/ Contract!Next
        \/ \E t \in Threads : /\ call[t].at = "remove"
                              /\ \A slot \in Slots :
                                   rows'[slot] \in {rows[slot]} \cup
                                     {row \in {NoRow} : slot \in call[t].expired}]_rows

\* All of the contract: "parallel CAS writers on one record must never lose an
\* acknowledged write".  A purge that lets go of the rows between collecting
\* and removing takes the row of a restore in between.
KeepsContract == Contract!Spec

\* "Writers on distinct records must never interfere": no two threads hold
\* one mutex each and wait for the other's.  A purge of one vault and a batch
\* of another do.
NoLockCycle ==
  ~\E t, u \in Threads : HoldsRows(t) /\ HoldsStamps(u)

\* Every call returns, unless a purge and a caller of the other lock order
\* block each other: nothing else ever keeps a thread waiting for a mutex.
EveryCallReturns ==
  \A t \in Threads : (call[t] # Idle) ~> (call[t] = Idle \/ ~NoLockCycle)

\* "Deletion stamps for retention: absent = live record": once every call has
\* returned, live rows have no stamp.  A restore that overtakes a deletion
\* between its two mutexes leaves one.
QuietLiveUnstamped ==
  (\A t \in Threads : call[t] = Idle) =>
    \A slot \in Slots : Present(rows[slot]) /\ ~rows[slot].dead => stamps[slot] = NoStamp

=============================================================================
