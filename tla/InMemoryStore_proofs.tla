-------------------------- MODULE InMemoryStore_proofs --------------------------
(* What the in-memory store guarantees for any threads, vaults and ids.    *)
EXTENDS InMemoryStore, WellFoundedInduction, TLAPS

-----------------------------------------------------------------------------
(* Batches and calls.                                                      *)

\* Every nonempty set of batch positions has a last one.
LEMMA LastOfIsLast ==
  ASSUME NEW n \in Nat, NEW S \in SUBSET (1 .. n), S # {}
  PROVE  LastOf(S) \in S /\ \A j \in S : j <= LastOf(S)
<1>1. \E i \in S : \A j \in S : j <= i
  <2> DEFINE gaps == {n - i : i \in S}
  <2>1. gaps \subseteq Nat
    OBVIOUS
  <2>2. gaps # {}
    <3>1. PICK i \in S : TRUE
      OBVIOUS
    <3>2. n - i \in gaps
      BY <3>1
    <3> QED BY <3>2
  <2>3. PICK g \in gaps : \A h \in gaps : <<h, g>> \notin OpToRel(<, Nat)
    <3> HIDE DEF gaps
    <3> QED BY <2>1, <2>2, NatLessThanWellFounded, WFMin
  <2>4. \A h \in gaps : ~(h < g)
    BY <2>1, <2>3 DEF OpToRel
  <2>5. PICK i \in S : g = n - i
    BY <2>3
  <2>6. \A j \in S : j <= i
    BY <2>4, <2>5
  <2> QED BY <2>6
<1> QED BY <1>1 DEF LastOf

\* The row that stays in the map when a batch has written a slot is one of the
\* batch's rows to that slot.
LEMMA LastRowOfBatch ==
  ASSUME NEW batch \in Batches, NEW slot \in Slots, BatchRowsOf(batch, slot) # {}
  PROVE  /\ LastOf(BatchRowsOf(batch, slot)) \in DOMAIN batch
         /\ batch[LastOf(BatchRowsOf(batch, slot))] \in Writes
         /\ batch[LastOf(BatchRowsOf(batch, slot))].slot = slot
<1>1. PICK n \in 1 .. MaxBatch : batch \in [1 .. n -> Writes]
  BY DEF Batches
<1>2. BatchRowsOf(batch, slot) \in SUBSET (1 .. n) /\ n \in Nat
  BY <1>1 DEF BatchRowsOf
<1>3. LastOf(BatchRowsOf(batch, slot)) \in BatchRowsOf(batch, slot)
  BY <1>2, LastOfIsLast
<1> QED BY <1>1, <1>2, <1>3 DEF BatchRowsOf

\* What a thread still has to do says which data it carries.
LEMMA CallCarries ==
  ASSUME NEW c \in Calls
  PROVE  /\ c.at \in {"unstamp", "stamp", "read stamp"} => c.slot \in Slots
         /\ c.at = "apply batch" => c.batch \in Batches
         /\ c.at = "apply rekey" => /\ c.from \in Vaults
                                    /\ c.to \in Vaults
                                    /\ c.records \in RekeyRequests
         /\ c.at = "collect" => c.vault \in Vaults /\ c.cutoff \in Nat
         /\ c.at = "remove" => c.expired \in SUBSET Slots
  BY DEF Calls

\* A rekey request says of each of its ids whether it arrives dead.
LEMMA RekeyRequestIds ==
  ASSUME NEW records \in RekeyRequests
  PROVE  /\ DOMAIN records \in SUBSET Ids
         /\ \A id \in DOMAIN records : records[id] \in BOOLEAN
  BY DEF RekeyRequests

-----------------------------------------------------------------------------
(* The inductive invariant.  A thread that has compared its batch or its   *)
(* request with the rows keeps the rows mutex until it has written, so     *)
(* what it compared with is still there.                                   *)

BatchStillPlanned(c) == \A i \in DOMAIN c.batch : Planned(c.batch[i])

RekeyStillFree(c) ==
  /\ c.to # c.from
  /\ DOMAIN c.records # {}
  /\ \A id \in DOMAIN c.records : ~Present(rows[<<c.to, id>>])

\* The plan of a thread inside the rows mutex still fits the rows.
HeldPlans ==
  \A t \in Threads :
    /\ call[t].at = "apply batch" => BatchStillPlanned(call[t])
    /\ call[t].at = "apply rekey" => RekeyStillFree(call[t])

StoreIInv == TypeOK /\ HeldPlans

\* The empty store satisfies the invariant.
LEMMA StoreInitInv == Init => StoreIInv
<1> SUFFICES ASSUME Init PROVE StoreIInv
  OBVIOUS
<1>1. Idle \in Calls /\ Idle.at = "idle" /\ NoRow \in Row
  BY DEF Idle, Calls, NoRow, Row
<1>2. rows \in [Slots -> Row] /\ stamps \in [Slots -> Nat \cup {NoStamp}] /\ now \in Nat
  BY <1>1 DEF Init
<1>3. calls \in 0 .. MaxCalls
  BY InMemoryAssumption DEF Init
<1>4. call \in [Threads -> Calls] /\ \A t \in Threads : call[t].at = "idle"
  BY <1>1 DEF Init
<1> QED BY <1>2, <1>3, <1>4 DEF StoreIInv, TypeOK, HeldPlans, HoldsRows, HoldsStamps

\* One more call stays within the bound on calls.
LEMMA CountStays ==
  ASSUME NEW n \in 0 .. MaxCalls, n < MaxCalls, NEW m, m = n + 1
  PROVE  m \in 0 .. MaxCalls
  BY InMemoryAssumption

\* A call that begins takes the free rows mutex, so it shares it with no other
\* call and no other plan has to be kept.
LEMMA BeginKeeps ==
  ASSUME StoreIInv, NEW t \in Threads, NEW c \in Calls, Begin(t), Goto(t, c),
         c.at # "remove",
         c.at = "apply batch" => BatchStillPlanned(c)',
         c.at = "apply rekey" => RekeyStillFree(c)',
         rows' \in [Slots -> Row], stamps' \in [Slots -> Nat \cup {NoStamp}], now' \in Nat
  PROVE  StoreIInv'
<1>1. call \in [Threads -> Calls] /\ call' = [call EXCEPT ![t] = c]
  BY DEF StoreIInv, TypeOK, Goto
<1>2. call' \in [Threads -> Calls] /\ call'[t] = c
  BY <1>1
<1>3. \A u \in Threads : u # t => call'[u] = call[u] /\ ~HoldsRows(u)
  BY <1>1 DEF Begin, RowsFree
<1>4. calls' \in 0 .. MaxCalls
  <2>1. calls \in 0 .. MaxCalls /\ calls < MaxCalls /\ calls' = calls + 1
    BY DEF Begin, StoreIInv, TypeOK
  <2> QED BY <2>1, CountStays
<1>5. \A u, w \in Threads : HoldsRows(u)' /\ HoldsRows(w)' => u = w
  BY <1>3 DEF HoldsRows
<1>6. \A u \in Threads : HoldsStamps(u)' => HoldsStamps(u)
  BY <1>2, <1>3 DEF HoldsStamps
<1>7. \A u, w \in Threads : HoldsStamps(u)' /\ HoldsStamps(w)' => u = w
  BY <1>6 DEF StoreIInv, TypeOK
<1>8. HeldPlans'
  BY <1>2, <1>3 DEF HeldPlans, HoldsRows
<1> QED BY <1>2, <1>4, <1>5, <1>7, <1>8 DEF StoreIInv, TypeOK

\* A call that goes on leaves the rows mutex.  If it changes rows, it held the
\* mutex or the mutex was free, so no other call holds a plan for them.
LEMMA ContinueKeeps ==
  ASSUME StoreIInv, NEW t \in Threads, NEW c \in Calls, Goto(t, c), UNCHANGED calls,
         c.at \notin {"apply batch", "apply rekey", "read stamp", "collect"},
         c.at = "remove" => StampsFree,
         HoldsRows(t) \/ RowsFree \/ UNCHANGED rows,
         rows' \in [Slots -> Row], stamps' \in [Slots -> Nat \cup {NoStamp}], now' \in Nat
  PROVE  StoreIInv'
<1>1. call \in [Threads -> Calls] /\ call' = [call EXCEPT ![t] = c] /\ calls' \in 0 .. MaxCalls
  BY DEF StoreIInv, TypeOK, Goto
<1>2. call' \in [Threads -> Calls] /\ call'[t] = c /\ ~HoldsRows(t)'
  BY <1>1 DEF HoldsRows
<1>3. \A u \in Threads : u # t => call'[u] = call[u]
  BY <1>1
<1>4. \A u \in Threads : HoldsRows(u)' => HoldsRows(u) /\ u # t
  BY <1>2, <1>3 DEF HoldsRows
<1>5. \A u, w \in Threads : HoldsRows(u)' /\ HoldsRows(w)' => u = w
  BY <1>4 DEF StoreIInv, TypeOK
<1>6. \A u, w \in Threads : HoldsStamps(u)' /\ HoldsStamps(w)' => u = w
  <2>1. \A u \in Threads : HoldsStamps(u)' /\ u # t => HoldsStamps(u)
    BY <1>3 DEF HoldsStamps
  <2>2. CASE c.at = "remove"
    BY <2>1, <2>2 DEF StampsFree
  <2>3. CASE c.at # "remove"
    <3>1. ~HoldsStamps(t)'
      BY <1>2, <2>3 DEF HoldsStamps
    <3> QED BY <2>1, <3>1 DEF StoreIInv, TypeOK
  <2> QED BY <2>2, <2>3
<1>7. HeldPlans'
  <2>1. CASE HoldsRows(t) \/ RowsFree
    <3>1. \A u \in Threads : u # t => ~HoldsRows(u)
      BY <2>1 DEF RowsFree, StoreIInv, TypeOK
    <3>2. \A u \in Threads : ~HoldsRows(u)'
      BY <1>4, <3>1
    <3> QED BY <3>2 DEF HeldPlans, HoldsRows
  <2>2. CASE UNCHANGED rows
    <3>1. \A u \in Threads : HoldsRows(u)' =>
            /\ call[u].at = "apply batch" => BatchStillPlanned(call[u])
            /\ call[u].at = "apply rekey" => RekeyStillFree(call[u])
      BY DEF StoreIInv, HeldPlans
    <3>2. ASSUME NEW u \in Threads, HoldsRows(u)'
          PROVE  /\ call'[u].at = "apply batch" => BatchStillPlanned(call[u])'
                 /\ call'[u].at = "apply rekey" => RekeyStillFree(call[u])'
      <4>1. call'[u] = call[u]
        BY <1>3, <1>4, <3>2
      <4> QED BY <2>2, <3>1, <3>2, <4>1 DEF BatchStillPlanned, RekeyStillFree, Planned
    <3> QED BY <3>2 DEF HeldPlans, HoldsRows
  <2> QED BY <2>1, <2>2
<1> QED BY <1>1, <1>2, <1>5, <1>6, <1>7 DEF StoreIInv, TypeOK

-----------------------------------------------------------------------------
(* The steps.  Every step keeps the invariant; a step that writes is a     *)
(* step of the abstract store.                                             *)

\* The slots and records of the trait are those of the adapter.
LEMMA ContractNames ==
  /\ Contract!Slots = Slots
  /\ Contract!Record = Row
  /\ Contract!NoRecord = NoRow
  /\ \A row : Contract!Present(row) <=> Present(row)
  BY DEF Contract!Slots, Slots, Contract!Record, Row, Contract!NoRecord, NoRow,
         Contract!Present, Present

\* The first half of put: its write is a write of the contract.
LEMMA PutStep ==
  ASSUME StoreIInv, NEW t \in Threads, NEW slot \in Slots, NEW expected \in 0 .. MaxCalls,
         NEW dead \in BOOLEAN, Put(t, slot, expected, dead)
  PROVE  StoreIInv' /\ Contract!Write
<1> DEFINE row == [revision |-> expected + 1, dead |-> dead]
           c == IF dead THEN Idle ELSE [at |-> "unstamp", slot |-> slot]
<1>1. rows \in [Slots -> Row] /\ stamps \in [Slots -> Nat \cup {NoStamp}] /\ now \in Nat
  BY DEF StoreIInv, TypeOK
<1>2. row \in Row /\ row.revision > expected
  BY DEF Row
<1>3. c \in Calls /\ c.at \in {"idle", "unstamp"}
  BY DEF Calls, Idle
<1>4. /\ Begin(t) /\ Goto(t, c) /\ rows' = [rows EXCEPT ![slot] = row]
      /\ stamps' = stamps /\ now' = now /\ rows[slot].revision = expected
  BY DEF Put
<1> HIDE DEF row, c
<1>5. rows' \in [Slots -> Row]
  BY <1>1, <1>2, <1>4
<1>6. StoreIInv'
  BY <1>1, <1>3, <1>4, <1>5, BeginKeeps
<1>7. \A s \in Slots : rows'[s] = rows[s] \/ rows'[s].revision > rows[s].revision
  BY <1>1, <1>2, <1>4
<1> QED BY <1>5, <1>6, <1>7, ContractNames DEF Contract!Write

\* The first half of tombstone.
LEMMA TombstoneStep ==
  ASSUME StoreIInv, NEW t \in Threads, NEW slot \in Slots, NEW expected \in 0 .. MaxCalls,
         Tombstone(t, slot, expected)
  PROVE  StoreIInv' /\ Contract!Write
<1> DEFINE row == [revision |-> expected + 1, dead |-> TRUE]
           c == [at |-> "stamp", slot |-> slot]
<1>1. rows \in [Slots -> Row] /\ stamps \in [Slots -> Nat \cup {NoStamp}] /\ now \in Nat
  BY DEF StoreIInv, TypeOK
<1>2. row \in Row /\ row.revision > expected
  BY DEF Row
<1>3. c \in Calls /\ c.at = "stamp"
  BY DEF Calls
<1>4. /\ Begin(t) /\ Goto(t, c) /\ rows' = [rows EXCEPT ![slot] = row]
      /\ stamps' = stamps /\ now' = now /\ rows[slot].revision = expected
  BY DEF Tombstone
<1> HIDE DEF row, c
<1>5. rows' \in [Slots -> Row]
  BY <1>1, <1>2, <1>4
<1>6. StoreIInv'
  BY <1>1, <1>3, <1>4, <1>5, BeginKeeps
<1>7. \A s \in Slots : rows'[s] = rows[s] \/ rows'[s].revision > rows[s].revision
  BY <1>1, <1>2, <1>4
<1> QED BY <1>5, <1>6, <1>7, ContractNames DEF Contract!Write

\* The second halves of put and tombstone, and the read of a stamp, leave the
\* rows alone.
LEMMA SecondHalfStep ==
  ASSUME StoreIInv, NEW t \in Threads, Unstamp(t) \/ Stamp(t) \/ ReadStamp(t)
  PROVE  StoreIInv' /\ UNCHANGED rows
<1>1. /\ rows \in [Slots -> Row] /\ stamps \in [Slots -> Nat \cup {NoStamp}] /\ now \in Nat
      /\ call[t] \in Calls
  BY DEF StoreIInv, TypeOK
<1>2. Idle \in Calls /\ Idle.at = "idle"
  BY DEF Idle, Calls
<1>3. Goto(t, Idle) /\ rows' = rows /\ calls' = calls /\ now' = now
  BY DEF Unstamp, Stamp, ReadStamp
<1>4. call[t].at = "unstamp" \/ call[t].at = "stamp" => call[t].slot \in Slots
  BY <1>1, CallCarries
<1>5. stamps' \in [Slots -> Nat \cup {NoStamp}]
  <2>1. CASE Unstamp(t)
    BY <1>1, <1>4, <2>1 DEF Unstamp
  <2>2. CASE Stamp(t)
    BY <1>1, <1>4, <2>2 DEF Stamp
  <2>3. CASE ReadStamp(t)
    BY <1>1, <2>3 DEF ReadStamp
  <2> QED BY <2>1, <2>2, <2>3
<1>6. StoreIInv'
  BY <1>1, <1>2, <1>3, <1>5, ContinueKeeps
<1> QED BY <1>3, <1>6

\* A call that only plans, asks or starts a purge takes the rows mutex and
\* leaves the rows alone.
LEMMA PlanStep ==
  ASSUME StoreIInv, NEW t \in Threads,
         \/ \E batch \in Batches : PlanBatch(t, batch)
         \/ \E from, to \in Vaults, records \in RekeyRequests : PlanRekey(t, from, to, records)
         \/ \E slot \in Slots : BeginReadStamp(t, slot)
         \/ \E vault \in Vaults, cutoff \in 0 .. MaxClock : BeginPurge(t, vault, cutoff)
  PROVE  StoreIInv' /\ UNCHANGED rows
<1>1. rows \in [Slots -> Row] /\ stamps \in [Slots -> Nat \cup {NoStamp}] /\ now \in Nat
  BY DEF StoreIInv, TypeOK
<1>2. ASSUME NEW batch \in Batches, PlanBatch(t, batch)
      PROVE  StoreIInv' /\ UNCHANGED rows
  <2> DEFINE c == [at |-> "apply batch", batch |-> batch]
  <2>1. c \in Calls /\ c.at = "apply batch" /\ c.batch = batch
    BY DEF Calls
  <2>2. /\ Begin(t) /\ Goto(t, c) /\ rows' = rows /\ stamps' = stamps /\ now' = now
        /\ \A i \in DOMAIN batch : Planned(batch[i])
    BY <1>2 DEF PlanBatch
  <2> HIDE DEF c
  <2>3. BatchStillPlanned(c)'
    BY <2>1, <2>2 DEF BatchStillPlanned, Planned
  <2> QED BY <1>1, <2>1, <2>2, <2>3, BeginKeeps
<1>3. ASSUME NEW from \in Vaults, NEW to \in Vaults, NEW records \in RekeyRequests,
             PlanRekey(t, from, to, records)
      PROVE  StoreIInv' /\ UNCHANGED rows
  <2> DEFINE c == [at |-> "apply rekey", from |-> from, to |-> to, records |-> records]
  <2>1. /\ c \in Calls /\ c.at = "apply rekey"
        /\ c.from = from /\ c.to = to /\ c.records = records
    BY DEF Calls
  <2>2. /\ Begin(t) /\ Goto(t, c) /\ rows' = rows /\ stamps' = stamps /\ now' = now
        /\ to # from /\ DOMAIN records # {}
        /\ \A id \in DOMAIN records : ~Present(rows[<<to, id>>])
    BY <1>3 DEF PlanRekey
  <2> HIDE DEF c
  <2>3. RekeyStillFree(c)'
    BY <2>1, <2>2 DEF RekeyStillFree
  <2> QED BY <1>1, <2>1, <2>2, <2>3, BeginKeeps
<1>4. ASSUME NEW slot \in Slots, BeginReadStamp(t, slot)
      PROVE  StoreIInv' /\ UNCHANGED rows
  <2> DEFINE c == [at |-> "read stamp", slot |-> slot]
  <2>1. c \in Calls /\ c.at = "read stamp"
    BY DEF Calls
  <2>2. Begin(t) /\ Goto(t, c) /\ rows' = rows /\ stamps' = stamps /\ now' = now
    BY <1>4 DEF BeginReadStamp
  <2> HIDE DEF c
  <2> QED BY <1>1, <2>1, <2>2, BeginKeeps
<1>5. ASSUME NEW vault \in Vaults, NEW cutoff \in 0 .. MaxClock, BeginPurge(t, vault, cutoff)
      PROVE  StoreIInv' /\ UNCHANGED rows
  <2> DEFINE c == [at |-> "collect", vault |-> vault, cutoff |-> cutoff]
  <2>0. cutoff \in Nat
    BY InMemoryAssumption
  <2>1. c \in Calls /\ c.at = "collect"
    BY <2>0 DEF Calls
  <2>2. Begin(t) /\ Goto(t, c) /\ rows' = rows /\ stamps' = stamps /\ now' = now
    BY <1>5 DEF BeginPurge
  <2> HIDE DEF c
  <2> QED BY <1>1, <2>1, <2>2, BeginKeeps
<1> QED BY <1>2, <1>3, <1>4, <1>5

\* The second half of put_batch is a write of the contract: each row it leaves
\* is one above the row it was planned against.
LEMMA ApplyBatchStep ==
  ASSUME StoreIInv, NEW t \in Threads, ApplyBatch(t)
  PROVE  StoreIInv' /\ Contract!Write
<1> DEFINE batch == call[t].batch
           mine(slot) == BatchRowsOf(batch, slot)
           last(slot) == batch[LastOf(mine(slot))]
           left(slot) == [revision |-> last(slot).expected + 1, dead |-> last(slot).dead]
<1>1. /\ rows \in [Slots -> Row] /\ stamps \in [Slots -> Nat \cup {NoStamp}] /\ now \in Nat
      /\ call[t] \in Calls
  BY DEF StoreIInv, TypeOK
<1>2. HoldsRows(t) /\ call[t].at = "apply batch"
  BY DEF ApplyBatch, HoldsRows
<1>3. batch \in Batches /\ \A i \in DOMAIN batch : Planned(batch[i])
  BY <1>1, <1>2, CallCarries DEF StoreIInv, HeldPlans, BatchStillPlanned
<1>4. /\ rows' = [slot \in Slots |-> IF mine(slot) = {} THEN rows[slot] ELSE left(slot)]
      /\ stamps' = [slot \in Slots |-> IF \E i \in mine(slot) : ~batch[i].dead
                                       THEN NoStamp ELSE stamps[slot]]
      /\ Goto(t, Idle) /\ calls' = calls /\ now' = now
  BY DEF ApplyBatch
<1>5. Idle \in Calls /\ Idle.at = "idle"
  BY DEF Idle, Calls
<1>6. ASSUME NEW slot \in Slots, mine(slot) # {}
      PROVE  left(slot) \in Row /\ left(slot).revision > rows[slot].revision
  <2>1. /\ LastOf(mine(slot)) \in DOMAIN batch
        /\ last(slot) \in Writes
        /\ last(slot).slot = slot
    BY <1>3, <1>6, LastRowOfBatch
  <2>2. last(slot).expected = rows[slot].revision
    BY <1>3, <2>1 DEF Planned
  <2>3. rows[slot].revision \in Nat
    BY <1>1 DEF Row
  <2>4. last(slot).dead \in BOOLEAN
    BY <2>1 DEF Writes
  <2> QED BY <2>2, <2>3, <2>4 DEF Row
<1> HIDE DEF batch, mine, last, left
<1>7. rows' \in [Slots -> Row] /\ stamps' \in [Slots -> Nat \cup {NoStamp}]
  <2>1. \A slot \in Slots : (IF mine(slot) = {} THEN rows[slot] ELSE left(slot)) \in Row
    BY <1>1, <1>6
  <2>2. \A slot \in Slots : (IF \E i \in mine(slot) : ~batch[i].dead
                            THEN NoStamp ELSE stamps[slot]) \in Nat \cup {NoStamp}
    BY <1>1
  <2> QED BY <1>4, <2>1, <2>2
<1>8. StoreIInv'
  BY <1>1, <1>2, <1>4, <1>5, <1>7, ContinueKeeps
<1>9. \A slot \in Slots : rows'[slot] = rows[slot] \/ rows'[slot].revision > rows[slot].revision
  BY <1>4, <1>6
<1> QED BY <1>7, <1>8, <1>9, ContractNames DEF Contract!Write

\* The second half of rekey_vault is a rekey of the contract: the ids it was
\* planned for are still free in the new scope.
LEMMA ApplyRekeyStep ==
  ASSUME StoreIInv, NEW t \in Threads, ApplyRekey(t)
  PROVE  StoreIInv' /\ \E from, to \in Vaults : Contract!Rekey(from, to)
<1> DEFINE from == call[t].from
           to == call[t].to
           records == call[t].records
           arrives(slot) == slot[1] = to /\ slot[2] \in DOMAIN records
<1>1. /\ rows \in [Slots -> Row] /\ stamps \in [Slots -> Nat \cup {NoStamp}] /\ now \in Nat
      /\ call[t] \in Calls
  BY DEF StoreIInv, TypeOK
<1>2. HoldsRows(t) /\ call[t].at = "apply rekey"
  BY DEF ApplyRekey, HoldsRows
<1>3. from \in Vaults /\ to \in Vaults /\ records \in RekeyRequests
  BY <1>1, <1>2, CallCarries
<1>4. /\ to # from /\ DOMAIN records # {}
      /\ \A id \in DOMAIN records : ~Present(rows[<<to, id>>])
  BY <1>2 DEF StoreIInv, HeldPlans, RekeyStillFree
<1>5. /\ rows' = [slot \in Slots |->
                   IF slot[1] = from THEN NoRow
                   ELSE IF arrives(slot) THEN [revision |-> 1, dead |-> records[slot[2]]]
                   ELSE rows[slot]]
      /\ stamps' = [slot \in Slots |->
                     IF slot[1] = from THEN NoStamp
                     ELSE IF arrives(slot) /\ records[slot[2]] THEN now
                     ELSE stamps[slot]]
      /\ Goto(t, Idle) /\ calls' = calls /\ now' = now
  BY DEF ApplyRekey
<1>6. Idle \in Calls /\ Idle.at = "idle"
  BY DEF Idle, Calls
<1>7. DOMAIN records \in SUBSET Ids /\ \A id \in DOMAIN records : records[id] \in BOOLEAN
  BY <1>3, RekeyRequestIds
<1> HIDE DEF from, to, records
<1>8. rows' \in [Slots -> Row] /\ stamps' \in [Slots -> Nat \cup {NoStamp}]
  BY <1>1, <1>5, <1>7 DEF Row, NoRow
<1>9. StoreIInv'
  BY <1>1, <1>2, <1>5, <1>6, <1>8, ContinueKeeps
<1>10. \A id \in Ids : rows'[<<from, id>>] = NoRow
  BY <1>3, <1>5 DEF Slots
<1>11. \E id \in Ids : rows'[<<to, id>>] # rows[<<to, id>>]
  <2>1. PICK id \in DOMAIN records : id \in Ids
    BY <1>4, <1>7
  <2>2. <<to, id>> \in Slots /\ <<to, id>>[1] = to /\ <<to, id>>[2] = id
    BY <1>3, <2>1 DEF Slots
  <2>3. rows'[<<to, id>>].revision = 1
    BY <1>4, <1>5, <2>1, <2>2
  <2>4. ~(rows[<<to, id>>].revision > 0)
    BY <1>4, <2>1 DEF Present
  <2> QED BY <2>1, <2>3, <2>4
<1>12. ASSUME NEW slot \in Slots, slot[1] # from
       PROVE  \/ rows'[slot] = rows[slot]
              \/ slot[1] = to /\ ~Present(rows[slot]) /\ rows'[slot].revision = 1
  <2>1. CASE arrives(slot)
    <3>1. slot = <<to, slot[2]>>
      BY <2>1 DEF Slots
    <3>2. ~Present(rows[slot])
      BY <1>4, <2>1, <3>1
    <3> QED BY <1>5, <1>12, <2>1, <3>2
  <2>2. CASE ~arrives(slot)
    BY <1>5, <1>12, <2>2
  <2> QED BY <2>1, <2>2
<1>13. Contract!Rekey(from, to)
  BY <1>4, <1>8, <1>10, <1>11, <1>12, ContractNames DEF Contract!Rekey
<1> QED BY <1>3, <1>9, <1>13

\* The purge lets go of the rows once it knows what has expired.
LEMMA CollectStep ==
  ASSUME StoreIInv, NEW t \in Threads, Collect(t)
  PROVE  StoreIInv' /\ UNCHANGED rows
<1> DEFINE found == {slot \in Slots : slot[1] = call[t].vault /\ Expired(slot, call[t].cutoff)}
           c == [at |-> "remove", expired |-> found]
<1>1. rows \in [Slots -> Row] /\ stamps \in [Slots -> Nat \cup {NoStamp}] /\ now \in Nat
  BY DEF StoreIInv, TypeOK
<1>2. HoldsRows(t) /\ StampsFree /\ Goto(t, c)
  BY DEF Collect, HoldsRows
<1>3. rows' = rows /\ stamps' = stamps /\ calls' = calls /\ now' = now
  BY DEF Collect
<1>4. found \in SUBSET Slots
  OBVIOUS
<1> HIDE DEF found
<1>5. c \in Calls /\ c.at = "remove"
  BY <1>4 DEF Calls
<1> HIDE DEF c
<1>6. StoreIInv'
  BY <1>1, <1>2, <1>3, <1>5, ContinueKeeps
<1> QED BY <1>3, <1>6

\* The second half of a purge takes rows it has found expired and no others.
LEMMA RemoveStep ==
  ASSUME StoreIInv, NEW t \in Threads, Remove(t)
  PROVE  /\ StoreIInv'
         /\ call[t].at = "remove"
         /\ \A slot \in Slots : rows'[slot] \in {rows[slot]} \cup
                                   {row \in {NoRow} : slot \in call[t].expired}
<1>1. rows \in [Slots -> Row] /\ stamps \in [Slots -> Nat \cup {NoStamp}] /\ now \in Nat
  BY DEF StoreIInv, TypeOK
<1>2. RowsFree /\ Goto(t, Idle) /\ calls' = calls /\ now' = now /\ call[t].at = "remove"
  BY DEF Remove
<1>3. /\ rows' = [slot \in Slots |-> IF slot \in call[t].expired THEN NoRow ELSE rows[slot]]
      /\ stamps' = [slot \in Slots |-> IF slot \in call[t].expired THEN NoStamp ELSE stamps[slot]]
  BY DEF Remove
<1>4. Idle \in Calls /\ Idle.at = "idle" /\ NoRow \in Row
  BY DEF Idle, Calls, NoRow, Row
<1>5. rows' \in [Slots -> Row] /\ stamps' \in [Slots -> Nat \cup {NoStamp}]
  BY <1>1, <1>3, <1>4
<1>6. StoreIInv'
  BY <1>1, <1>2, <1>4, <1>5, ContinueKeeps
<1> QED BY <1>2, <1>3, <1>6

-----------------------------------------------------------------------------

\* What a step may do to the rows, by StepsKeepContract.
KeepsPromise ==
  \/ Contract!Next
  \/ \E t \in Threads : /\ call[t].at = "remove"
                        /\ \A slot \in Slots :
                             rows'[slot] \in {rows[slot]} \cup
                               {row \in {NoRow} : slot \in call[t].expired}

\* Every step keeps the invariant and the promise of the trait.
LEMMA StoreStep ==
  ASSUME StoreIInv, [Next]_vars
  PROVE  StoreIInv' /\ [KeepsPromise]_rows
<1>1. CASE UNCHANGED vars
  BY <1>1 DEF vars, StoreIInv, TypeOK, HeldPlans, HoldsRows, HoldsStamps, BatchStillPlanned,
              RekeyStillFree, Planned
<1>2. CASE Tick
  <2>1. rows' = rows /\ stamps' = stamps /\ call' = call /\ calls' = calls /\ now' = now + 1
    BY <1>2 DEF Tick
  <2>2. now' \in Nat
    BY <2>1 DEF StoreIInv, TypeOK
  <2>3. TypeOK'
    BY <2>1, <2>2 DEF StoreIInv, TypeOK, HoldsRows, HoldsStamps
  <2>4. HeldPlans'
    BY <2>1 DEF StoreIInv, HeldPlans, BatchStillPlanned, RekeyStillFree, Planned
  <2> QED BY <2>1, <2>3, <2>4 DEF StoreIInv
<1>3. ASSUME NEW t \in Threads, Start(t)
      PROVE  StoreIInv' /\ [KeepsPromise]_rows
  BY <1>3, PutStep, TombstoneStep, PlanStep DEF Start, KeepsPromise, Contract!Next
<1>4. ASSUME NEW t \in Threads, Continue(t)
      PROVE  StoreIInv' /\ [KeepsPromise]_rows
  <2>1. CASE Unstamp(t) \/ Stamp(t) \/ ReadStamp(t)
    BY <2>1, SecondHalfStep
  <2>2. CASE ApplyBatch(t)
    BY <2>2, ApplyBatchStep DEF KeepsPromise, Contract!Next
  <2>3. CASE ApplyRekey(t)
    BY <2>3, ApplyRekeyStep DEF KeepsPromise, Contract!Next
  <2>4. CASE Collect(t)
    BY <2>4, CollectStep
  <2>5. CASE Remove(t)
    BY <2>5, RemoveStep DEF KeepsPromise
  <2> QED BY <1>4, <2>1, <2>2, <2>3, <2>4, <2>5 DEF Continue
<1> QED BY <1>1, <1>2, <1>3, <1>4 DEF Next

\* Whatever the threads do, each mutex is held by one of them at most, and a
\* plan made under the rows mutex fits the rows until it is carried out.
THEOREM StoreInvariant == Spec => []StoreIInv
<1>1. StoreIInv /\ [Next]_vars => StoreIInv'
  BY StoreStep
<1> QED BY <1>1, StoreInitInv, PTL DEF Spec

\* At most one thread is inside each of the two mutexes, for any threads.
THEOREM MutexesExclude == Spec => []TypeOK
<1>1. StoreIInv => TypeOK
  BY DEF StoreIInv
<1> QED BY <1>1, StoreInvariant, PTL

\* Under every interleaving of any callers each write, batch, deletion and
\* rekey is one step of the abstract store, and a purge takes only rows it
\* has found expired.
THEOREM InterleavedStepsKeepContract == Spec => StepsKeepContract
<1>1. Init => Contract!Init
  BY ContractNames DEF Init, Contract!Init
<1>2. StoreIInv /\ [Next]_vars => [KeepsPromise]_rows
  BY StoreStep
<1> QED BY <1>1, <1>2, StoreInvariant, PTL DEF Spec, StepsKeepContract, KeepsPromise

=============================================================================
