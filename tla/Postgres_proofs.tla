---------------------------- MODULE Postgres_proofs ----------------------------
(* The connection pool with any threads, cap and checkouts, and the        *)
(* transactions of any sessions that make any calls on any starting rows.  *)
EXTENDS PgPool, PgTransactions, FiniteSetTheorems, TLAPS

-----------------------------------------------------------------------------
(* The pool.                                                               *)

\* A thread has taken a slot of the count.
Has(place) == place \in {"probing", "opening", "using"}

\* The inductive invariant.  PoolInv does not say when the pool is closed and
\* what a drained count is: without the last three parts a late return could
\* refill the idle list, and a drained pool could still count a probe.
PoolIInv ==
  /\ PoolInv
  /\ closed <=> closer # "running"
  /\ closed => idle = 0
  /\ closer = "drained" => outstanding = 0

-----------------------------------------------------------------------------
(* Counting the threads that have a slot.                                  *)

\* The threads with a slot are finitely many.
LEMMA BusyFinite == IsFiniteSet(Busy) /\ Cardinality(Busy) \in Nat
<1>1. Busy \in SUBSET Threads
  BY DEF Busy
<1> QED BY <1>1, PgPoolAssumption, FS_Subset, FS_CardinalityType

\* When one thread moves and nobody else takes or gives back a slot, the count
\* changes by what that thread took or gave back.
LEMMA BusyMoves ==
  ASSUME NEW t \in Threads,
         \A u \in Threads \ {t} : Has(at'[u]) <=> Has(at[u])
  PROVE  /\ Has(at[t]) /\ ~Has(at'[t]) => Cardinality(Busy)' = Cardinality(Busy) - 1
         /\ ~Has(at[t]) /\ Has(at'[t]) => Cardinality(Busy)' = Cardinality(Busy) + 1
         /\ (Has(at[t]) <=> Has(at'[t])) => Cardinality(Busy)' = Cardinality(Busy)
<1>1. Has(at[t]) /\ ~Has(at'[t]) => Busy' = Busy \ {t} /\ t \in Busy
  BY DEF Busy, Has
<1>2. ~Has(at[t]) /\ Has(at'[t]) => Busy' = Busy \cup {t} /\ t \notin Busy
  BY DEF Busy, Has
<1>3. (Has(at[t]) <=> Has(at'[t])) => Busy' = Busy
  BY DEF Busy, Has
<1> QED BY <1>1, <1>2, <1>3, BusyFinite, FS_AddElement, FS_RemoveElement

\* A thread with a slot makes the count positive.
LEMMA BusyPositive ==
  ASSUME NEW t \in Threads, Has(at[t])
  PROVE  Cardinality(Busy) >= 1
<1>1. t \in Busy
  BY DEF Busy, Has
<1>2. Cardinality(Busy) # 0
  BY <1>1, BusyFinite, FS_EmptySet
<1> QED BY <1>2, BusyFinite

\* What the invariant says of the counters alone.
LEMMA PoolCounts ==
  ASSUME PoolIInv
  PROVE  /\ idle \in Nat /\ outstanding \in Nat /\ Cardinality(Busy) \in Nat
         /\ closed \in BOOLEAN
         /\ MaxSize \in Nat /\ MaxSize >= 1
         /\ idle + Cardinality(Busy) <= outstanding
         /\ outstanding <= MaxSize
         /\ ~closed => idle + Cardinality(Busy) = outstanding
<1>1. idle \in Nat /\ outstanding \in Nat /\ closed \in BOOLEAN
  BY DEF PoolIInv, PoolInv, PoolTypeOK
<1>2. MaxSize \in Nat /\ MaxSize >= 1
  BY PgPoolAssumption
<1> QED BY <1>1, <1>2, BusyFinite DEF PoolIInv, PoolInv, SlotsAccounted

-----------------------------------------------------------------------------
(* One lemma per step.                                                     *)

\* connect's pool satisfies the invariant.
LEMMA PoolInitInv == PoolInit => PoolIInv
<1> SUFFICES ASSUME PoolInit PROVE PoolIInv
  OBVIOUS
<1>1. Busy = {}
  BY DEF PoolInit, Busy
<1>2. PoolTypeOK
  <2>1. calls \in [Threads -> 0 .. MaxCalls]
    BY PgPoolAssumption DEF PoolInit
  <2> QED BY <2>1 DEF PoolInit, PoolTypeOK, Getting, Holds
<1>3. SlotsAccounted
  BY <1>1, FS_EmptySet, PgPoolAssumption DEF PoolInit, SlotsAccounted
<1> QED BY <1>2, <1>3 DEF PoolInit, PoolIInv, PoolInv

\* A checkout that begins, a deadline that passes, a thread at the cap and one
\* whose wait times out take no slot and give none back.
LEMMA SlotlessInv ==
  ASSUME PoolIInv, NEW t \in Threads,
         BeginGet(t) \/ Deadline(t) \/ AtCap(t) \/ WaitTimeout(t)
  PROVE  PoolIInv'
<1> USE DEF PoolIInv, PoolInv
<1>1. \A u \in Threads : Has(at'[u]) <=> Has(at[u])
  BY DEF BeginGet, Deadline, AtCap, WaitTimeout, Goto, Has, PoolTypeOK
<1>2. Cardinality(Busy)' = Cardinality(Busy)
  BY <1>1, BusyMoves
<1>3. SlotsAccounted' /\ UNCHANGED <<idle, closed, outstanding, closer>>
  BY <1>2 DEF SlotsAccounted, BeginGet, Deadline, AtCap, WaitTimeout
<1>4. PoolTypeOK'
  <2>1. calls' \in [Threads -> 0 .. MaxCalls]
    <3>1. CASE BeginGet(t)
      <4>1. calls[t] + 1 \in 0 .. MaxCalls
        <5>1. calls[t] \in 0 .. MaxCalls
          BY DEF PoolTypeOK
        <5>2. calls[t] < MaxCalls
          BY <3>1 DEF BeginGet
        <5> QED BY <5>1, <5>2, PgPoolAssumption
      <4> QED BY <3>1, <4>1 DEF BeginGet, PoolTypeOK
    <3> QED BY <3>1 DEF PoolTypeOK, Deadline, AtCap, WaitTimeout
  <2>2. at' \in [Threads -> Getting \cup {"out", "using"}]
    BY DEF BeginGet, Deadline, AtCap, WaitTimeout, Goto, Getting, PoolTypeOK
  <2>3. \A u \in Threads : Holds(u)' => Holds(u)
    BY DEF BeginGet, Deadline, AtCap, WaitTimeout, Goto, Holds, PoolTypeOK
  <2>4. late' \subseteq Threads
    BY DEF BeginGet, Deadline, AtCap, WaitTimeout, PoolTypeOK
  <2> QED BY <1>3, <2>1, <2>2, <2>3, <2>4 DEF PoolTypeOK
<1> QED BY <1>3, <1>4

\* One turn of the loop: the slots of expired connections go, and the thread
\* takes one, or finds the pool closed or full.
LEMMA LookInv ==
  ASSUME PoolIInv, NEW t \in Threads, Look(t)
  PROVE  PoolIInv'
<1> USE DEF PoolIInv, PoolInv
<1>1. \A u \in Threads \ {t} : Has(at'[u]) <=> Has(at[u])
  BY DEF Look, Goto, Has, PoolTypeOK
<1>2. ~Has(at[t]) /\ at'[t] \in {"out", "probing", "opening", "full"}
  BY DEF Look, Goto, Has, PoolTypeOK
<1>3. Cardinality(Busy)' = IF Has(at'[t]) THEN Cardinality(Busy) + 1 ELSE Cardinality(Busy)
  BY <1>1, <1>2, BusyMoves
<1>4. Cardinality(Busy) \in Nat
  BY BusyFinite
<1>5. SlotsAccounted' /\ idle' \in Nat /\ outstanding' \in Nat
  <2> DEFINE n == Cardinality(Busy)
  <2>1. CASE closed /\ Goto(t, "out") /\ UNCHANGED <<idle, outstanding>>
    <3>1. ~Has(at'[t]) /\ closed' = closed
      BY <2>1 DEF Look, Goto, Has, PoolTypeOK
    <3> QED BY <2>1, <3>1, <1>3, PoolCounts DEF SlotsAccounted
  <2>2. CASE ~closed /\ idle > 0 /\ idle' = idle - 1 /\ Goto(t, "probing") /\ UNCHANGED outstanding
    <3>1. Has(at'[t]) /\ closed' = closed
      BY <2>2 DEF Look, Goto, Has, PoolTypeOK
    <3> QED BY <2>2, <3>1, <1>3, PoolCounts DEF SlotsAccounted
  <2>3. CASE /\ ~closed /\ idle' = 0
             /\ outstanding - idle < MaxSize
             /\ outstanding' = outstanding - idle + 1 /\ Goto(t, "opening")
    <3>1. Has(at'[t]) /\ closed' = closed
      BY <2>3 DEF Look, Goto, Has, PoolTypeOK
    <3> QED BY <2>3, <3>1, <1>3, PoolCounts DEF SlotsAccounted
  <2>4. CASE /\ ~closed /\ idle' = 0
             /\ outstanding' = outstanding - idle /\ Goto(t, "full")
    <3>1. ~Has(at'[t]) /\ closed' = closed
      BY <2>4 DEF Look, Goto, Has, PoolTypeOK
    <3> QED BY <2>4, <3>1, <1>3, PoolCounts DEF SlotsAccounted
  <2> QED BY <2>1, <2>2, <2>3, <2>4 DEF Look
<1>6. PoolTypeOK'
  BY <1>5 DEF PoolTypeOK, Look, Goto, Getting, Holds, LockFree
<1>7. UNCHANGED <<closed, closer>> /\ (closed => UNCHANGED <<idle, outstanding>>)
  BY DEF Look
<1> QED BY <1>5, <1>6, <1>7

\* A probe ends with the connection in use or with its slot given back.
LEMMA ProbeInv ==
  ASSUME PoolIInv, NEW t \in Threads, Probe(t)
  PROVE  PoolIInv'
<1> USE DEF PoolIInv, PoolInv
<1>1. \A u \in Threads \ {t} : Has(at'[u]) <=> Has(at[u])
  BY DEF Probe, Goto, NotifyAll, Has, PoolTypeOK
<1>2. Has(at[t]) /\ at'[t] \in {"using", "lock"}
  BY DEF Probe, Goto, NotifyAll, Has, PoolTypeOK
<1>3. /\ Has(at'[t]) => Cardinality(Busy)' = Cardinality(Busy)
      /\ ~Has(at'[t]) => Cardinality(Busy)' = Cardinality(Busy) - 1
  BY <1>1, <1>2, BusyMoves
<1>4. Cardinality(Busy) \in Nat /\ Cardinality(Busy) >= 1
  BY <1>2, BusyFinite, BusyPositive
<1>5. outstanding >= 1 /\ closer # "drained"
  <2>1. outstanding >= 1
    BY <1>4, PoolCounts
  <2> QED BY <2>1
<1>6. UNCHANGED <<late, calls, idle, closed>>
  BY DEF Probe
<1>7. CASE Goto(t, "using") /\ UNCHANGED <<outstanding, closer>>
  <2>1. SlotsAccounted'
    BY <1>7, <1>3, <1>6 DEF SlotsAccounted, Goto, Has, PoolTypeOK
  <2>2. PoolTypeOK'
    BY <1>7, <1>6 DEF PoolTypeOK, Goto, Getting, Holds
  <2> QED BY <2>1, <2>2, <1>6, <1>7
<1>8. CASE NotifyAll(t, "lock") /\ outstanding' = outstanding - 1
  <2>1. at'[t] = "lock"
    BY <1>8 DEF NotifyAll
  <2>2. SlotsAccounted'
    <3>1. ~Has(at'[t])
      BY <2>1 DEF Has
    <3> QED BY <1>8, <3>1, <1>3, <1>4, <1>6, PoolCounts DEF SlotsAccounted
  <2>3. \A u \in Threads : Holds(u)' => Holds(u)
    BY <1>8 DEF NotifyAll, Holds, PoolTypeOK
  <2>4. closer' = closer \/ (closer = "draining" /\ closer' = "woken")
    BY <1>8 DEF NotifyAll
  <2>5. at' \in [Threads -> Getting \cup {"out", "using"}]
    BY <1>8 DEF NotifyAll, PoolTypeOK, Getting
  <2>6. outstanding' \in Nat
    BY <1>5, <1>8, PoolCounts
  <2>7. PoolTypeOK'
    BY <1>6, <2>3, <2>4, <2>5, <2>6 DEF PoolTypeOK
  <2> QED BY <2>2, <2>4, <2>7, <1>5, <1>6
<1> QED BY <1>7, <1>8 DEF Probe

\* An opened connection keeps its slot; a refused one gives it back.
LEMMA OpenInv ==
  ASSUME PoolIInv, NEW t \in Threads, Open(t)
  PROVE  PoolIInv'
<1> USE DEF PoolIInv, PoolInv
<1>1. \A u \in Threads \ {t} : Has(at'[u]) <=> Has(at[u])
  BY DEF Open, Goto, Has, PoolTypeOK
<1>2. Has(at[t]) /\ at'[t] \in {"using", "out"}
  BY DEF Open, Goto, Has, PoolTypeOK
<1>3. /\ Has(at'[t]) => Cardinality(Busy)' = Cardinality(Busy)
      /\ ~Has(at'[t]) => Cardinality(Busy)' = Cardinality(Busy) - 1
  BY <1>1, <1>2, BusyMoves
<1>4. Cardinality(Busy) \in Nat /\ Cardinality(Busy) >= 1
  BY <1>2, BusyFinite, BusyPositive
<1>5. outstanding >= 1 /\ closer # "drained"
  <2>1. outstanding >= 1
    BY <1>4, PoolCounts
  <2> QED BY <2>1
<1>6. UNCHANGED <<late, calls, idle, closed, closer>>
  BY DEF Open
<1>7. SlotsAccounted' /\ outstanding' \in Nat
  <2>1. CASE Goto(t, "using") /\ UNCHANGED outstanding
    BY <2>1, <1>3, <1>6 DEF SlotsAccounted, Goto, Has, PoolTypeOK
  <2>2. CASE Goto(t, "out") /\ outstanding' = outstanding - 1
    <3>1. ~Has(at'[t])
      BY <2>2 DEF Goto, Has, PoolTypeOK
    <3> QED BY <2>2, <3>1, <1>3, <1>4, <1>5, <1>6, PoolCounts DEF SlotsAccounted
  <2> QED BY <2>1, <2>2 DEF Open, PoolTypeOK
<1>8. PoolTypeOK'
  BY <1>6, <1>7 DEF PoolTypeOK, Open, Goto, Getting, Holds
<1> QED BY <1>5, <1>6, <1>7, <1>8

\* A connection that comes back is idle again, or closed with its slot.
LEMMA ReleaseInv ==
  ASSUME PoolIInv, NEW t \in Threads, Release(t)
  PROVE  PoolIInv'
<1> USE DEF PoolIInv, PoolInv
<1>1. \A u \in Threads \ {t} : Has(at'[u]) <=> Has(at[u])
  BY DEF Release, NotifyAll, Has, PoolTypeOK
<1>2. Has(at[t]) /\ ~Has(at'[t])
  BY DEF Release, NotifyAll, Has, PoolTypeOK
<1>3. Cardinality(Busy)' = Cardinality(Busy) - 1
  BY <1>1, <1>2, BusyMoves
<1>4. Cardinality(Busy) \in Nat /\ Cardinality(Busy) >= 1
  BY <1>2, BusyFinite, BusyPositive
<1>5. outstanding >= 1 /\ closer # "drained"
  <2>1. outstanding >= 1
    BY <1>4, PoolCounts
  <2> QED BY <2>1
<1>6. SlotsAccounted' /\ idle' \in Nat /\ outstanding' \in Nat /\ (closed => idle' = idle)
  BY <1>2, <1>3, <1>4, <1>5, PoolCounts DEF SlotsAccounted, Release
<1>7. \A u \in Threads : Holds(u)' => Holds(u)
  BY DEF Release, NotifyAll, Holds, PoolTypeOK
<1>8. /\ closer' = closer \/ (closer = "draining" /\ closer' = "woken")
      /\ UNCHANGED <<late, calls, closed>>
  BY DEF Release, NotifyAll
<1>9. at' \in [Threads -> Getting \cup {"out", "using"}]
  BY DEF Release, NotifyAll, PoolTypeOK, Getting
<1>10. PoolTypeOK'
  BY <1>6, <1>7, <1>8, <1>9 DEF PoolTypeOK
<1> QED BY <1>5, <1>6, <1>8, <1>10

\* Shutdown closes the pool and the idle connections, and reads the count.
LEMMA ShutdownInv ==
  ASSUME PoolIInv, BeginShutdown \/ DrainStep
  PROVE  PoolIInv'
<1> USE DEF PoolIInv, PoolInv
<1>1. UNCHANGED <<at, late, calls, outstanding>> /\ Busy' = Busy
  BY DEF BeginShutdown, DrainStep, DrainWait, DrainWake, DrainTimeout, Busy
<1>2. SlotsAccounted' /\ idle' \in Nat /\ closed' \in BOOLEAN
  <2>1. Cardinality(Busy)' = Cardinality(Busy) /\ outstanding' = outstanding
    BY <1>1
  <2>2. CASE BeginShutdown
    <3>1. idle' = 0 /\ closed' = TRUE
      BY <2>2 DEF BeginShutdown
    <3> QED BY <2>1, <3>1, PoolCounts DEF SlotsAccounted
  <2>3. CASE DrainStep
    <3>1. idle' = idle /\ closed' = closed
      BY <2>3 DEF DrainStep, DrainWait, DrainWake, DrainTimeout
    <3> QED BY <2>1, <3>1, PoolCounts DEF SlotsAccounted
  <2> QED BY <2>2, <2>3
<1>3. PoolTypeOK'
  <2>1. /\ closer' \in {"running", "checking", "draining", "woken", "drained", "timed out"}
        /\ closer' = "checking" => LockFree
    BY DEF PoolTypeOK, BeginShutdown, DrainStep, DrainWait, DrainWake, DrainTimeout
  <2> QED BY <1>1, <1>2, <2>1 DEF PoolTypeOK, LockFree, Holds
<1>4. /\ closed' <=> closer' # "running"
      /\ closed' => idle' = 0
      /\ closer' = "drained" => outstanding' = 0
  BY <1>1 DEF BeginShutdown, DrainStep, DrainWait, DrainWake, DrainTimeout
<1> QED BY <1>2, <1>3, <1>4

\* Every step keeps the invariant.
LEMMA PoolStepInv ==
  ASSUME PoolIInv, [PoolNext]_poolVars
  PROVE  PoolIInv'
<1>1. CASE UNCHANGED poolVars
  BY <1>1 DEF poolVars, PoolIInv, PoolInv, PoolTypeOK, Holds, SlotsAccounted, Busy
<1>2. CASE \E t \in Threads : BeginGet(t) \/ GetStep(t) \/ Release(t)
  BY <1>2, SlotlessInv, LookInv, ProbeInv, OpenInv, ReleaseInv DEF GetStep
<1>3. CASE BeginShutdown \/ DrainStep
  BY <1>3, ShutdownInv
<1> QED BY <1>1, <1>2, <1>3 DEF PoolNext

-----------------------------------------------------------------------------

\* The inductive invariant holds in every state of the pool.
THEOREM PoolInvariant == PoolSpec => []PoolIInv
  BY PoolInitInv, PoolStepInv, PTL DEF PoolSpec

\* No slot leaks and none is counted twice: the count covers every connection,
\* stays within max_size, and while the pool is open counts nothing else
\* (ConnectionPool::get, PooledConnection::drop, shutdown).
THEOREM SlotsStayAccounted == PoolSpec => []PoolInv
<1>1. PoolIInv => PoolInv
  BY DEF PoolIInv
<1> QED BY <1>1, PoolInvariant, PTL

\* A shutdown that reports the pool drained leaves no connection, not even one
\* that was being probed when the pool closed.
THEOREM DrainedPoolIsEmpty == PoolSpec => []DrainedMeansNone
<1>1. PoolIInv => DrainedMeansNone
  <2> SUFFICES ASSUME PoolIInv, closer = "drained" PROVE idle = 0 /\ Busy = {}
    BY DEF DrainedMeansNone
  <2>1. outstanding = 0 /\ idle \in Nat
    BY DEF PoolIInv, PoolInv, PoolTypeOK
  <2>2. idle = 0 /\ Cardinality(Busy) = 0
    BY <2>1, BusyFinite DEF PoolIInv, PoolInv, SlotsAccounted
  <2> QED BY <2>2, BusyFinite, FS_EmptySet
<1> QED BY <1>1, PoolInvariant, PTL

-----------------------------------------------------------------------------
(* The transactions: the inductive invariant.                              *)

States == {"idle", "select", "insert", "vaults", "scan", "delete", "commit", "done"}

Owns == UNION {[written -> Row] : written \in SUBSET Slots}

SessionRecords ==
  [state : States, call : Calls, at : Nat \ {0}, own : Owns, targets : SUBSET Slots,
   left : SUBSET Vaults,
   answer : {"none", "ok", "conflict", "not_found", "invalid", "unavailable"}]

Running(s) == s.state \notin {"idle", "done"}

\* Which statement a session is at fits the call it makes.
Placed(s) ==
  LET op == s.call.op
      items == s.call.items
  IN /\ ~Running(s) => s.own = Unwritten
     /\ s.state = "idle" => s.at = 1 /\ s.targets = {}
     /\ s.state = "select" => op \in {"write", "tombstone", "rekey"}
     /\ s.state = "insert" => op \in {"write", "rekey", "import"}
     /\ s.state = "vaults" => op = "sweep"
     /\ s.state \in {"scan", "delete"} => op \in {"purge", "sweep", "rekey"}
     /\ s.state = "commit" => op \in {"write", "tombstone", "import"}
     /\ s.state \in {"select", "insert"} => s.at \in 1 .. Len(items)
     /\ s.state = "commit" => s.at = Len(items) + 1
     /\ Running(s) /\ s.left # {} => op \in {"purge", "sweep"}
     /\ Running(s) /\ op = "rekey" =>
          /\ s.call.to # s.call.from
          /\ \A slot \in s.targets : slot[1] = s.call.from

\* What a batch has written is what its items so far do to the rows of a table.
BatchFits(s, table) ==
  LET n == s.at - 1
      items == s.call.items
  IN /\ Accepted(table, items, n)
     /\ DOMAIN s.own = {items[i].slot : i \in 1 .. n}
     /\ \A slot \in DOMAIN s.own : s.own[slot] = Effect(table, items, n, slot)
     /\ s.state = "insert" => items[s.at].expected = {}

\* What a deletion has written is the committed row, buried.
DeletionFits(s, table) ==
  LET item == s.call.items[1]
  IN /\ s.state = "select" => s.own = Unwritten
     /\ s.state = "commit" => /\ DOMAIN s.own = {item.slot}
                              /\ s.own[item.slot] = Buried(table[item.slot])
                              /\ Prior(table[item.slot].revision) = item.expected

\* An arrival takes a slot that has no committed row, a rekey empties its old
\* scope.
ArrivalsFit(s, table) ==
  \A slot \in DOMAIN s.own :
    \/ ~Present(table[slot]) /\ Present(s.own[slot])
    \/ s.call.op = "rekey" /\ slot[1] = s.call.from /\ s.own[slot] = NoRow

\* A purge has taken rows of one scope that are doomed as they are committed.
PurgeFits(s, table) ==
  /\ \A slot \in DOMAIN s.own : s.own[slot] = NoRow /\ Doomed(s.call, table[slot])
  /\ s.state # "delete" => s.own = Unwritten
  /\ s.state = "delete" => \E vault \in Vaults :
       \A slot \in DOMAIN s.own \cup s.targets : slot[1] = vault

Fits(s, table) ==
  Running(s) =>
    /\ s.call.op = "write" => BatchFits(s, table)
    /\ s.call.op = "tombstone" => DeletionFits(s, table)
    /\ s.call.op \in {"import", "rekey"} => ArrivalsFit(s, table)
    /\ s.call.op \in {"purge", "sweep"} => PurgeFits(s, table)

Whole(table) == \A slot \in Slots : Present(table[slot]) \/ table[slot] = NoRow

\* Every session's uncommitted rows are its own to write, and are what its
\* call does to the rows that are committed now.
TxInv ==
  /\ rows \in [Slots -> Row] /\ Whole(rows)
  /\ held \in [Slots -> Sessions \cup {Nobody}]
  /\ session \in [Sessions -> SessionRecords]
  /\ \A c \in Sessions :
       /\ Placed(session[c]) /\ Fits(session[c], rows)
       /\ \A slot \in DOMAIN session[c].own : held[slot] = c
  /\ \A slot \in Slots : held[slot] # Nobody => Running(session[held[slot]])

-----------------------------------------------------------------------------
(* Rows that are written.                                                  *)

\* The uncommitted rows of a session are rows of slots.
LEMMA OwnIs ==
  ASSUME NEW own \in Owns
  PROVE  /\ DOMAIN own \in SUBSET Slots
         /\ \A slot \in DOMAIN own : own[slot] \in Row
<1>1. PICK written \in SUBSET Slots : own \in [written -> Row]
  BY DEF Owns
<1> QED BY <1>1

\* One row more is written.
LEMMA WithIs ==
  ASSUME NEW own \in Owns, NEW slot \in Slots, NEW row \in Row
  PROVE  /\ With(own, slot, row) \in Owns
         /\ DOMAIN With(own, slot, row) = DOMAIN own \cup {slot}
         /\ With(own, slot, row)[slot] = row
         /\ \A s \in DOMAIN own : s # slot => With(own, slot, row)[s] = own[s]
<1>1. DOMAIN own \in SUBSET Slots /\ \A s \in DOMAIN own : own[s] \in Row
  BY OwnIs
<1>2. With(own, slot, row) \in [DOMAIN own \cup {slot} -> Row]
  BY <1>1 DEF With
<1>3. DOMAIN own \cup {slot} \in SUBSET Slots
  BY <1>1
<1>4. With(own, slot, row) \in Owns
  BY <1>2, <1>3 DEF Owns
<1> QED BY <1>1, <1>4 DEF With

\* No row is written.
LEMMA UnwrittenIs == Unwritten \in Owns /\ DOMAIN Unwritten = {}
<1>1. Unwritten \in [{} -> Row] /\ DOMAIN Unwritten = {}
  BY DEF Unwritten
<1>2. {} \in SUBSET Slots
  OBVIOUS
<1> QED BY <1>1, <1>2 DEF Owns

\* What a session sees is a row.
LEMMA SeenIs ==
  ASSUME TxInv, NEW c \in Sessions, NEW slot \in Slots
  PROVE  /\ Visible(c, slot) \in Row
         /\ session[c] \in SessionRecords
<1>1. session[c] \in SessionRecords /\ session[c].own \in Owns
  BY DEF TxInv, SessionRecords
<1>2. rows[slot] \in Row
  BY DEF TxInv
<1> QED BY <1>1, <1>2, OwnIs DEF Visible

\* What a call is.
LEMMA CallIs ==
  ASSUME NEW call \in Calls
  PROVE  /\ call.op \in {"write", "tombstone", "rekey", "purge", "sweep", "import"}
         /\ call.items \in Seq(Items) /\ Len(call.items) \in Nat
         /\ DOMAIN call.items = 1 .. Len(call.items)
         /\ \A i \in 1 .. Len(call.items) : call.items[i] \in Items
         /\ call.from \in Vaults /\ call.to \in Vaults /\ call.cutoff \in Nat
         /\ call.op = "tombstone" => Len(call.items) = 1
         /\ call.op = "rekey" => \A i \in 1 .. Len(call.items) : call.items[i].slot[1] = call.to
         /\ call.op = "import" => \A i \in 1 .. Len(call.items) : call.items[i].revision > 0
<1>1. CallOK(call)
  BY PgTransactionsAssumption
<1>2. call.items \in Seq(Items)
  BY <1>1 DEF CallOK
<1>3. /\ Len(call.items) \in Nat /\ DOMAIN call.items = 1 .. Len(call.items)
      /\ \A i \in 1 .. Len(call.items) : call.items[i] \in Items
  BY <1>2
<1>4. Len(call.items) = 0 => call.items = <<>>
  BY <1>2
<1> QED BY <1>1, <1>2, <1>3, <1>4 DEF CallOK

-----------------------------------------------------------------------------
(* What a batch does.                                                      *)

\* The effect on a slot depends on that slot's row alone.
LEMMA EffectFrame ==
  ASSUME NEW t, NEW u, NEW items, NEW n, NEW slot, t[slot] = u[slot]
  PROVE  Effect(t, items, n, slot) = Effect(u, items, n, slot)
  BY DEF Effect

\* Before its first item a batch leaves every row alone.
LEMMA EffectNone ==
  ASSUME NEW t, NEW items, NEW slot
  PROVE  Effect(t, items, 0, slot) = t[slot]
<1>1. {i \in 1 .. 0 : items[i].slot = slot} = {}
  OBVIOUS
<1> QED BY <1>1 DEF Effect

\* A batch raises the revision of what it writes.
LEMMA EffectRaises ==
  ASSUME NEW t, NEW items, NEW n \in Nat, NEW slot, t[slot] \in Row
  PROVE  /\ Effect(t, items, n, slot).revision \in Nat /\ t[slot].revision \in Nat
         /\ (\E i \in 1 .. n : items[i].slot = slot) =>
              Effect(t, items, n, slot).revision > t[slot].revision
<1> DEFINE mine == {i \in 1 .. n : items[i].slot = slot}
<1>1. /\ IsFiniteSet(mine) /\ Cardinality(mine) \in Nat
      /\ (Cardinality(mine) = 0 <=> mine = {})
  <2>1. IsFiniteSet(1 .. n) /\ mine \in SUBSET (1 .. n)
    BY FS_Interval
  <2> QED BY <2>1, FS_Subset, FS_CardinalityType, FS_EmptySet
<1>2. t[slot].revision \in Nat
  BY DEF Row
<1>3. Effect(t, items, n, slot).revision \in Nat
  BY <1>1, <1>2 DEF Effect
<1>4. (\E i \in 1 .. n : items[i].slot = slot) =>
        Effect(t, items, n, slot).revision > t[slot].revision
  BY <1>1, <1>2 DEF Effect
<1> QED BY <1>2, <1>3, <1>4

\* The effect of a batch is built up item by item: another item's slot is left
\* alone, the item's own row gets one revision more and keeps a stamp only if
\* it is written dead (UPDATE_RECORD, and INSERT_RECORD where there is none).
LEMMA EffectStep ==
  ASSUME NEW t, NEW items, NEW n \in Nat, NEW slot, t[slot] \in Row,
         items[n + 1].dead \in BOOLEAN
  PROVE  /\ items[n + 1].slot # slot =>
              Effect(t, items, n + 1, slot) = Effect(t, items, n, slot)
         /\ items[n + 1].slot = slot =>
              Effect(t, items, n + 1, slot) =
                [revision |-> Effect(t, items, n, slot).revision + 1,
                 dead |-> items[n + 1].dead,
                 stamp |-> IF items[n + 1].dead THEN Effect(t, items, n, slot).stamp ELSE 0]
<1> DEFINE mine(k) == {i \in 1 .. k : items[i].slot = slot}
<1>1. /\ IsFiniteSet(mine(n)) /\ Cardinality(mine(n)) \in Nat
      /\ (Cardinality(mine(n)) = 0 <=> mine(n) = {})
  <2>1. IsFiniteSet(1 .. n) /\ mine(n) \in SUBSET (1 .. n)
    BY FS_Interval
  <2> QED BY <2>1, FS_Subset, FS_CardinalityType, FS_EmptySet
<1>2. t[slot].revision \in Nat /\ t[slot].stamp \in 0 .. Now
  BY DEF Row
<1>3. ASSUME items[n + 1].slot # slot
      PROVE  Effect(t, items, n + 1, slot) = Effect(t, items, n, slot)
  <2>1. mine(n + 1) = mine(n)
    BY <1>3
  <2> QED BY <2>1 DEF Effect
<1>4. ASSUME items[n + 1].slot = slot
      PROVE  Effect(t, items, n + 1, slot) =
               [revision |-> Effect(t, items, n, slot).revision + 1,
                dead |-> items[n + 1].dead,
                stamp |-> IF items[n + 1].dead THEN Effect(t, items, n, slot).stamp ELSE 0]
  <2>1. mine(n + 1) = mine(n) \cup {n + 1} /\ n + 1 \notin mine(n)
    BY <1>4
  <2>2. Cardinality(mine(n + 1)) = Cardinality(mine(n)) + 1
    <3> HIDE DEF mine
    <3> QED BY <1>1, <2>1, FS_AddElement
  <2>3. mine(n + 1) # {} /\ \A j \in mine(n + 1) : j <= n + 1
    BY <1>4
  <2>4. (\E i \in mine(n + 1) : items[i].dead /\ \A j \in mine(n + 1) : j <= i) = items[n + 1].dead
    <3>1. ASSUME NEW i \in mine(n + 1), \A j \in mine(n + 1) : j <= i
          PROVE  i = n + 1
      BY <2>1, <2>3, <3>1
    <3>2. n + 1 \in mine(n + 1)
      BY <2>1
    <3> HIDE DEF mine
    <3> QED BY <2>3, <3>1, <3>2
  <2>5. (\A i \in mine(n + 1) : items[i].dead)
          <=> (items[n + 1].dead /\ \A i \in mine(n) : items[i].dead)
    BY <2>1
  <2>6. Effect(t, items, n + 1, slot) =
          [revision |-> t[slot].revision + Cardinality(mine(n + 1)),
           dead |-> \E i \in mine(n + 1) : items[i].dead /\ \A j \in mine(n + 1) : j <= i,
           stamp |-> IF \A i \in mine(n + 1) : items[i].dead THEN t[slot].stamp ELSE 0]
    BY <2>3 DEF Effect
  <2>7. Effect(t, items, n, slot).revision = t[slot].revision + Cardinality(mine(n))
    BY <1>1, <1>2 DEF Effect
  <2>8. items[n + 1].dead =>
          Effect(t, items, n, slot).stamp =
            IF \A i \in mine(n) : items[i].dead THEN t[slot].stamp ELSE 0
    BY DEF Effect
  <2>9. Effect(t, items, n, slot).revision + 1 = t[slot].revision + Cardinality(mine(n + 1))
    <3> HIDE DEF mine
    <3> QED BY <1>1, <1>2, <2>2, <2>7
  <2>10. (IF items[n + 1].dead THEN Effect(t, items, n, slot).stamp ELSE 0) =
           IF \A i \in mine(n + 1) : items[i].dead THEN t[slot].stamp ELSE 0
    <3> HIDE DEF mine
    <3> QED BY <2>5, <2>8
  <2> HIDE DEF mine
  <2> QED BY <2>4, <2>6, <2>9, <2>10
<1> QED BY <1>3, <1>4

\* One comparison more is what the next item asks for.
LEMMA AcceptedStep ==
  ASSUME NEW t, NEW items, NEW n \in Nat, Accepted(t, items, n),
         Prior(Effect(t, items, n, items[n + 1].slot).revision) = items[n + 1].expected
  PROVE  Accepted(t, items, n + 1)
<1> SUFFICES ASSUME NEW i \in 1 .. (n + 1)
             PROVE  Prior(Effect(t, items, i - 1, items[i].slot).revision) = items[i].expected
  BY DEF Accepted
<1>1. CASE i \in 1 .. n
  BY <1>1 DEF Accepted
<1>2. CASE i = n + 1
  <2>1. i - 1 = n
    BY <1>2
  <2> QED BY <1>2, <2>1
<1> QED BY <1>1, <1>2

-----------------------------------------------------------------------------
(* One session's step and the others.                                      *)

\* What a session has written fits any table with the same rows in its slots:
\* a commit of another session, which holds other rows, changes none of them.
LEMMA FitsFrame ==
  ASSUME NEW s \in SessionRecords, NEW t, NEW u, Placed(s), Fits(s, t),
         \A slot \in DOMAIN s.own : t[slot] = u[slot]
  PROVE  Fits(s, u)
<1> SUFFICES ASSUME Running(s) PROVE Fits(s, u)
  BY DEF Fits
<1>1. CASE s.call.op = "write"
  <2> DEFINE n == s.at - 1
             items == s.call.items
  <2>1. BatchFits(s, t) /\ n \in Nat
    BY <1>1 DEF Fits, SessionRecords
  <2>2. \A i \in 1 .. n : items[i].slot \in DOMAIN s.own
    BY <2>1 DEF BatchFits
  <2>3. Accepted(u, items, n)
    <3> SUFFICES ASSUME NEW i \in 1 .. n
                 PROVE  Prior(Effect(u, items, i - 1, items[i].slot).revision) = items[i].expected
      BY DEF Accepted
    <3>1. Prior(Effect(t, items, i - 1, items[i].slot).revision) = items[i].expected
      BY <2>1 DEF BatchFits, Accepted
    <3>2. Effect(t, items, i - 1, items[i].slot) = Effect(u, items, i - 1, items[i].slot)
      BY <2>2, EffectFrame
    <3> QED BY <3>1, <3>2
  <2>4. \A slot \in DOMAIN s.own : s.own[slot] = Effect(u, items, n, slot)
    BY <2>1, EffectFrame DEF BatchFits
  <2>5. BatchFits(s, u)
    BY <2>1, <2>3, <2>4 DEF BatchFits
  <2> QED BY <1>1, <2>5 DEF Fits
<1>2. CASE s.call.op = "tombstone"
  <2>1. DeletionFits(s, t)
    BY <1>2 DEF Fits
  <2>2. DeletionFits(s, u)
    BY <2>1 DEF DeletionFits
  <2> QED BY <1>2, <2>2 DEF Fits
<1>3. CASE s.call.op \in {"import", "rekey"}
  BY <1>3 DEF Fits, ArrivalsFit
<1>4. CASE s.call.op \in {"purge", "sweep"}
  BY <1>4 DEF Fits, PurgeFits
<1>5. s.call.op \in {"write", "tombstone", "rekey", "purge", "sweep", "import"}
  BY CallIs DEF SessionRecords
<1> QED BY <1>1, <1>2, <1>3, <1>4, <1>5

\* A step of one session that lets go of nobody's rows but its own, takes only
\* free ones and changes only committed rows it has written keeps the invariant
\* if its own state fits.
LEMMA StepKeeps ==
  ASSUME TxInv, NEW c \in Sessions, NEW s \in SessionRecords,
         session' = [session EXCEPT ![c] = s],
         rows' \in [Slots -> Row], Whole(rows'),
         \A slot \in Slots : slot \notin DOMAIN session[c].own => rows'[slot] = rows[slot],
         held' \in [Slots -> Sessions \cup {Nobody}],
         \A slot \in Slots : \/ held'[slot] = held[slot]
                             \/ held[slot] \in {c, Nobody} /\ held'[slot] \in {c, Nobody},
         \A slot \in DOMAIN s.own : held'[slot] = c,
         ~Running(s) => \A slot \in Slots : held'[slot] # c,
         Placed(s), Fits(s, rows')
  PROVE  TxInv'
<1>1. session' \in [Sessions -> SessionRecords] /\ session'[c] = s
      /\ \A d \in Sessions : d # c => session'[d] = session[d]
  BY DEF TxInv
<1>2. Nobody \notin Sessions
  BY PgTransactionsAssumption
<1>3. ASSUME NEW d \in Sessions, d # c
      PROVE  /\ Placed(session[d]) /\ Fits(session[d], rows')
             /\ \A slot \in DOMAIN session[d].own : held'[slot] = d
  <2>1. session[d] \in SessionRecords /\ session[d].own \in Owns
        /\ session[c] \in SessionRecords /\ session[c].own \in Owns
    BY DEF TxInv, SessionRecords
  <2>2. DOMAIN session[d].own \subseteq Slots
    BY <2>1, OwnIs
  <2>3. \A slot \in DOMAIN session[d].own : held[slot] = d /\ slot \notin DOMAIN session[c].own
    BY <1>3 DEF TxInv
  <2>4. \A slot \in DOMAIN session[d].own : rows[slot] = rows'[slot]
    BY <2>2, <2>3
  <2>5. Placed(session[d]) /\ Fits(session[d], rows)
    BY DEF TxInv
  <2>6. Fits(session[d], rows')
    BY <2>1, <2>4, <2>5, FitsFrame
  <2>7. \A slot \in DOMAIN session[d].own : held'[slot] = d
    BY <1>2, <1>3, <2>2, <2>3
  <2> QED BY <2>5, <2>6, <2>7
<1>4. \A d \in Sessions :
        /\ Placed(session'[d]) /\ Fits(session'[d], rows')
        /\ \A slot \in DOMAIN session'[d].own : held'[slot] = d
  BY <1>1, <1>3
<1>5. ASSUME NEW slot \in Slots, held'[slot] # Nobody
      PROVE  Running(session'[held'[slot]])
  <2>1. CASE held'[slot] = c
    BY <1>1, <2>1
  <2>2. CASE held'[slot] # c
    <3>1. held'[slot] = held[slot] /\ held[slot] \in Sessions
      BY <1>5, <2>2 DEF TxInv
    <3>2. Running(session[held[slot]])
      BY <1>5, <3>1 DEF TxInv
    <3> QED BY <1>1, <2>2, <3>1, <3>2
  <2> QED BY <2>1, <2>2
<1> QED BY <1>1, <1>4, <1>5 DEF TxInv

\* A statement that writes no row.
LEMMA QuietStepKeeps ==
  ASSUME TxInv, NEW c \in Sessions, NEW s \in SessionRecords, Go(c, s),
         UNCHANGED <<rows, held>>, s.own = session[c].own, Running(s), Placed(s), Fits(s, rows)
  PROVE  TxInv'
<1>1. \A slot \in DOMAIN s.own : held'[slot] = c
  BY DEF TxInv
<1>2. rows' \in [Slots -> Row] /\ Whole(rows') /\ held' \in [Slots -> Sessions \cup {Nobody}]
  BY DEF TxInv
<1>3. Fits(s, rows')
  BY DEF TxInv
<1> QED BY <1>1, <1>2, <1>3, StepKeeps DEF Go

\* Dropping a transaction lets go of the rows it holds.
LEMMA ReleaseIs ==
  ASSUME TxInv, NEW c \in Sessions
  PROVE  /\ Released(c) \in [Slots -> Sessions \cup {Nobody}]
         /\ \A slot \in Slots : /\ Released(c)[slot] # c
                                /\ \/ Released(c)[slot] = held[slot]
                                   \/ held[slot] = c /\ Released(c)[slot] = Nobody
  BY PgTransactionsAssumption DEF Released, TxInv

\* An early return rolls back.
LEMMA FailKeeps ==
  ASSUME TxInv, NEW c \in Sessions,
         NEW answer \in {"ok", "conflict", "not_found", "invalid", "unavailable"}, Fail(c, answer)
  PROVE  TxInv'
<1> DEFINE s == [session[c] EXCEPT !.state = "done", !.answer = answer, !.own = Unwritten,
                                   !.targets = {}, !.left = {}]
<1>1. session' = [session EXCEPT ![c] = s] /\ held' = Released(c) /\ rows' = rows
  BY DEF Fail, Go
<1>2. session[c] \in SessionRecords /\ rows \in [Slots -> Row] /\ Whole(rows)
  BY DEF TxInv
<1>3. s \in SessionRecords
  BY <1>2, UnwrittenIs DEF SessionRecords, States
<1>4. s.state = "done" /\ s.own = Unwritten /\ ~Running(s)
  BY <1>2 DEF SessionRecords, Running
<1>5. Placed(s) /\ Fits(s, rows')
  BY <1>4 DEF Placed, Fits, Running
<1> HIDE DEF s
<1>6. \A slot \in DOMAIN s.own : held'[slot] = c
  BY <1>4, UnwrittenIs
<1> QED BY <1>1, <1>2, <1>3, <1>4, <1>5, <1>6, ReleaseIs, StepKeeps

-----------------------------------------------------------------------------
(* The statements.                                                         *)

\* Where a call begins.
LEMMA FirstStepIs ==
  ASSUME NEW call \in Calls
  PROVE  /\ call.op = "purge" => FirstStep(call) = "scan"
         /\ call.op = "sweep" => FirstStep(call) = "vaults"
         /\ Len(call.items) # 0 =>
              /\ call.op = "import" => FirstStep(call) = "insert"
              /\ call.op \in {"write", "tombstone", "rekey"} => FirstStep(call) = "select"
         /\ call.op \notin {"purge", "sweep"} /\ Len(call.items) = 0 =>
              FirstStep(call) = LastStep(call)
<1>1. /\ call.items \in Seq(Items) /\ (call.items = <<>> <=> Len(call.items) = 0)
      /\ call.op \in {"write", "tombstone", "rekey", "purge", "sweep", "import"}
  BY CallIs
<1> QED BY <1>1 DEF FirstStep

\* A call begins with nothing written, or is refused.
LEMMA BeginKeeps ==
  ASSUME TxInv, NEW c \in Sessions, NEW call \in Calls, Begin(c, call)
  PROVE  TxInv'
<1>1. CASE ~Valid(call)
  <2>1. Fail(c, "invalid")
    BY <1>1 DEF Begin
  <2> QED BY <2>1, FailKeeps
<1>2. CASE Valid(call)
  <2> DEFINE s == [session[c] EXCEPT !.call = call, !.state = FirstStep(call),
                     !.left = IF call.op = "purge" THEN {call.from} ELSE {}]
  <2>1. Go(c, s) /\ UNCHANGED <<rows, held>>
    BY <1>2 DEF Begin
  <2>2. session[c] \in SessionRecords /\ session[c].state = "idle" /\ Placed(session[c])
    BY DEF TxInv, Begin
  <2>3. /\ call.from \in Vaults /\ Len(call.items) \in Nat
        /\ call.op = "tombstone" => Len(call.items) = 1
        /\ call.op \in {"write", "tombstone", "rekey", "purge", "sweep", "import"}
    BY CallIs
  <2>4. FirstStep(call) \in {"select", "insert", "scan", "vaults", "commit"}
    BY <2>3, FirstStepIs DEF LastStep
  <2>5. /\ s \in SessionRecords /\ s.call = call /\ s.state = FirstStep(call)
        /\ s.own = session[c].own /\ s.at = session[c].at /\ s.targets = session[c].targets
        /\ s.left = IF call.op = "purge" THEN {call.from} ELSE {}
    BY <2>2, <2>3, <2>4 DEF SessionRecords, States
  <2>6. session[c].own = Unwritten /\ s.at = 1 /\ s.targets = {}
    BY <2>2, <2>5 DEF Placed, Running
  <2>7. call.op = "rekey" => call.to # call.from
    BY <1>2 DEF Valid
  <2> HIDE DEF s
  <2>8. Running(s)
    BY <2>4, <2>5 DEF Running
  <2>9. Placed(s)
    BY <2>3, <2>4, <2>5, <2>6, <2>7, <2>8, FirstStepIs DEF Placed, LastStep
  <2>10. /\ s.state = "insert" => call.op # "write"
         /\ call.op = "tombstone" => s.state # "commit"
    <3>1. ASSUME call.op = "tombstone" PROVE Len(call.items) # 0
      <4>1. Len(call.items) = 1
        BY <2>3, <3>1
      <4> QED BY <4>1
    <3>2. call.op = "tombstone" => FirstStep(call) = "select"
      BY <3>1, FirstStepIs
    <3>3. call.op = "write" => FirstStep(call) \in {"select", "commit"}
      BY FirstStepIs DEF LastStep
    <3> QED BY <2>5, <3>2, <3>3
  <2>11. DOMAIN s.own = {} /\ s.at - 1 = 0
    BY <2>5, <2>6, UnwrittenIs
  <2>12. call.op = "write" => BatchFits(s, rows)
    BY <2>5, <2>10, <2>11 DEF BatchFits, Accepted
  <2>13. call.op = "tombstone" => DeletionFits(s, rows)
    BY <2>5, <2>6, <2>10 DEF DeletionFits
  <2>14. ArrivalsFit(s, rows)
    BY <2>11 DEF ArrivalsFit
  <2>15. call.op \in {"purge", "sweep"} => PurgeFits(s, rows)
    <3>1. call.op \in {"purge", "sweep"} => s.state # "delete"
      BY <2>5, FirstStepIs
    <3> QED BY <2>5, <2>6, <2>11, <3>1 DEF PurgeFits
  <2>16. Fits(s, rows)
    BY <2>5, <2>12, <2>13, <2>14, <2>15 DEF Fits
  <2> QED BY <2>1, <2>5, <2>8, <2>9, <2>16, QuietStepKeeps
<1> QED BY <1>1, <1>2

\* A session that has written its item goes on to the next one, to the DELETE
\* or to COMMIT.
Advanced(s, own) ==
  [s EXCEPT !.own = own, !.at = s.at + 1,
     !.state = IF s.at = Len(s.call.items) THEN LastStep(s.call) ELSE FirstStep(s.call)]

\* It is then a session of the same call that still runs, one item further on;
\* a tombstone has only the COMMIT left.
LEMMA AdvancedIs ==
  ASSUME NEW s \in SessionRecords, Placed(s), s.state \in {"select", "insert"}, NEW own \in Owns
  PROVE  LET next == Advanced(s, own)
         IN /\ next \in SessionRecords /\ Running(next) /\ Placed(next)
            /\ next.call = s.call /\ next.own = own /\ next.at - 1 = s.at
            /\ next.state = "insert" => s.call.op = "import"
            /\ s.call.op = "tombstone" => s.at = 1 /\ next.state = "commit"
<1> DEFINE next == Advanced(s, own)
           n == Len(s.call.items)
<1>1. /\ s.call \in Calls /\ s.at \in 1 .. n /\ n \in Nat /\ s.at \in Nat
      /\ s.call.op \in {"write", "tombstone", "rekey", "import"} /\ Running(s)
  <2>1. s.call \in Calls /\ s.at \in Nat
    BY DEF SessionRecords
  <2>2. n \in Nat
    BY <2>1, CallIs
  <2> QED BY <2>1, <2>2 DEF Placed, Running
<1>2. /\ next.call = s.call /\ next.own = own /\ next.at = s.at + 1
      /\ next.targets = s.targets /\ next.left = s.left
      /\ next.state = IF s.at = n THEN LastStep(s.call) ELSE FirstStep(s.call)
  BY DEF Advanced, SessionRecords
<1>3. /\ FirstStep(s.call) = IF s.call.op = "import" THEN "insert" ELSE "select"
      /\ LastStep(s.call) = IF s.call.op = "rekey" THEN "scan" ELSE "commit"
  <2>1. n # 0
    BY <1>1
  <2> QED BY <1>1, <2>1, FirstStepIs DEF LastStep
<1>4. next.state \in {"insert", "select", "scan", "commit"}
  BY <1>2, <1>3
<1>5. next \in SessionRecords
  <2>1. PICK state \in States : next = [s EXCEPT !.own = own, !.at = s.at + 1, !.state = state]
    BY <1>2, <1>4 DEF Advanced, States
  <2>2. s.at + 1 \in Nat \ {0}
    BY <1>1
  <2> HIDE DEF next
  <2> QED BY <2>1, <2>2 DEF SessionRecords
<1>6. s.call.op = "tombstone" => n = 1
  BY <1>1, CallIs
<1> HIDE DEF next
<1>7. Running(next)
  BY <1>4 DEF Running
<1>8. next.state \in {"select", "insert"} => s.at # n /\ next.at \in 1 .. n
  BY <1>1, <1>2, <1>3
<1>9. next.state = "commit" => next.at = n + 1 /\ s.call.op # "rekey"
  BY <1>1, <1>2, <1>3
<1>10. /\ next.state = "select" => s.call.op # "import"
       /\ next.state = "insert" => s.call.op = "import"
       /\ next.state = "scan" => s.call.op = "rekey"
  BY <1>1, <1>2, <1>3
<1>11. /\ s.left # {} => s.call.op \in {"purge", "sweep"}
       /\ s.call.op = "rekey" => /\ s.call.to # s.call.from
                                 /\ \A slot \in s.targets : slot[1] = s.call.from
  BY <1>1 DEF Placed
<1>12. Placed(next)
  BY <1>1, <1>2, <1>4, <1>7, <1>8, <1>9, <1>10, <1>11 DEF Placed
<1>13. next.at - 1 = s.at
  BY <1>1, <1>2
<1>14. ASSUME s.call.op = "tombstone" PROVE s.at = 1 /\ next.state = "commit"
  <2>1. s.at = 1 /\ s.at = n /\ s.call.op # "rekey"
    <3>1. n = 1 /\ s.at \in 1 .. n
      BY <1>1, <1>6, <1>14
    <3>2. s.at = 1 /\ s.at = n
      <4> HIDE DEF n
      <4> QED BY <3>1
    <3> QED BY <1>14, <3>2
  <2>2. next.state = IF s.call.op = "rekey" THEN "scan" ELSE "commit"
    BY <1>2, <1>3, <2>1
  <2> QED BY <2>1, <2>2
<1> QED BY <1>2, <1>5, <1>7, <1>10, <1>12, <1>13, <1>14 DEF next

\* A row that is written by its holder, or while it is free, keeps the
\* invariant if the session's rows still fit.
LEMMA WriteKeeps ==
  ASSUME TxInv, NEW c \in Sessions, session[c].state \in {"select", "insert"},
         Current(c).slot \in Slots, Free(c, Current(c).slot), NEW row \in Row, Write(c, row),
         Fits(Advanced(session[c], With(session[c].own, Current(c).slot, row)), rows)
  PROVE  TxInv'
<1> DEFINE slot == Current(c).slot
           own == With(session[c].own, slot, row)
           s == Advanced(session[c], own)
<1>1. session[c] \in SessionRecords /\ session[c].own \in Owns /\ Placed(session[c])
  BY DEF TxInv, SessionRecords
<1>2. own \in Owns /\ DOMAIN own = DOMAIN session[c].own \cup {slot}
  <2>1. PICK old \in Owns, place \in Slots : old = session[c].own /\ place = slot
    BY <1>1
  <2>2. With(old, place, row) \in Owns
        /\ DOMAIN With(old, place, row) = DOMAIN old \cup {place}
    BY WithIs
  <2> QED BY <2>1, <2>2
<1>3. s \in SessionRecords /\ Running(s) /\ Placed(s) /\ s.own = own
  BY <1>1, <1>2, AdvancedIs
<1>4. session' = [session EXCEPT ![c] = s] /\ rows' = rows /\ held' = [held EXCEPT ![slot] = c]
  BY DEF Write, Advance, Go, Advanced
<1>5. rows' \in [Slots -> Row] /\ Whole(rows') /\ held' \in [Slots -> Sessions \cup {Nobody}]
  BY <1>4 DEF TxInv
<1>6. \A t \in Slots : held'[t] = IF t = slot THEN c ELSE held[t]
  BY <1>4 DEF TxInv
<1>7. held[slot] \in {c, Nobody}
  BY DEF Free
<1>8. \A t \in DOMAIN own : t \in Slots /\ held'[t] = c
  BY <1>1, <1>2, <1>6, OwnIs DEF TxInv
<1>9. Fits(s, rows')
  BY <1>4
<1> HIDE DEF s, own, slot
<1> QED BY <1>3, <1>4, <1>5, <1>6, <1>7, <1>8, <1>9, StepKeeps

\* What the session is about to write.
LEMMA CurrentIs ==
  ASSUME TxInv, NEW c \in Sessions, session[c].state \in {"select", "insert"}
  PROVE  /\ session[c] \in SessionRecords /\ Placed(session[c]) /\ Running(session[c])
         /\ session[c].call \in Calls /\ session[c].own \in Owns
         /\ session[c].at \in Nat /\ session[c].at \in 1 .. Len(session[c].call.items)
         /\ Current(c) \in Items /\ Current(c).slot \in Slots
         /\ Current(c) = session[c].call.items[session[c].at]
         /\ Visible(c, Current(c).slot) \in Row /\ rows[Current(c).slot] \in Row
<1>1. session[c] \in SessionRecords /\ Placed(session[c]) /\ Running(session[c])
  BY DEF TxInv, Running
<1>2. session[c].call \in Calls /\ session[c].own \in Owns /\ session[c].at \in Nat
  BY <1>1 DEF SessionRecords
<1>3. session[c].at \in 1 .. Len(session[c].call.items)
  BY <1>1 DEF Placed
<1>4. Current(c) \in Items /\ Current(c) = session[c].call.items[session[c].at]
  BY <1>2, <1>3, CallIs DEF Current
<1>5. Current(c).slot \in Slots
  BY <1>4 DEF Items
<1>6. Visible(c, Current(c).slot) \in Row /\ rows[Current(c).slot] \in Row
  BY <1>5, SeenIs DEF TxInv
<1> QED BY <1>1, <1>2, <1>3, <1>4, <1>5, <1>6

\* A batch sees the effect of its earlier items.
LEMMA BatchSees ==
  ASSUME TxInv, NEW c \in Sessions, session[c].state \in {"select", "insert"},
         session[c].call.op = "write"
  PROVE  LET n == session[c].at - 1
         IN /\ n \in Nat /\ BatchFits(session[c], rows)
            /\ \A slot \in Slots : Visible(c, slot) = Effect(rows, session[c].call.items, n, slot)
<1> DEFINE n == session[c].at - 1
           items == session[c].call.items
<1>1. n \in Nat /\ BatchFits(session[c], rows)
  BY CurrentIs DEF TxInv, Fits
<1>2. ASSUME NEW slot \in Slots
      PROVE  Visible(c, slot) = Effect(rows, items, n, slot)
  <2>1. CASE slot \in DOMAIN session[c].own
    BY <1>1, <2>1 DEF BatchFits, Visible
  <2>2. CASE slot \notin DOMAIN session[c].own
    <3>1. {i \in 1 .. n : items[i].slot = slot} = {}
      BY <1>1, <2>2 DEF BatchFits
    <3>2. Effect(rows, items, n, slot) = rows[slot]
      BY <3>1 DEF Effect
    <3> QED BY <2>2, <3>2 DEF Visible
  <2> QED BY <2>1, <2>2
<1> QED BY <1>1, <1>2

\* An item whose comparison passes leaves a batch that still fits, whether it
\* updates the row the session sees or inserts one where it sees none.
LEMMA BatchAdvances ==
  ASSUME TxInv, NEW c \in Sessions, session[c].state \in {"select", "insert"},
         session[c].call.op = "write", NEW row \in Row,
         Prior(Visible(c, Current(c).slot).revision) = Current(c).expected,
         row.revision = Visible(c, Current(c).slot).revision + 1,
         row.dead = Current(c).dead,
         row.stamp = IF Current(c).dead THEN Visible(c, Current(c).slot).stamp ELSE 0
  PROVE  Fits(Advanced(session[c], With(session[c].own, Current(c).slot, row)), rows)
<1> DEFINE n == session[c].at - 1
           items == session[c].call.items
           slot == Current(c).slot
           own == session[c].own
           s == Advanced(session[c], With(own, slot, row))
<1>1. /\ session[c] \in SessionRecords /\ Placed(session[c])
      /\ own \in Owns /\ slot \in Slots /\ Current(c) = items[n + 1] /\ Current(c).dead \in BOOLEAN
      /\ n + 1 = session[c].at
  BY CurrentIs DEF Items
<1>2. /\ n \in Nat /\ Accepted(rows, items, n) /\ DOMAIN own = {items[i].slot : i \in 1 .. n}
      /\ \A t \in DOMAIN own : own[t] = Effect(rows, items, n, t)
      /\ Visible(c, slot) = Effect(rows, items, n, slot)
  BY <1>1, BatchSees DEF BatchFits
<1>3. PICK next \in Owns :
        /\ next = With(own, slot, row)
        /\ DOMAIN next = DOMAIN own \cup {slot} /\ next[slot] = row
        /\ \A t \in DOMAIN own : t # slot => next[t] = own[t]
  <2>1. PICK old \in Owns, place \in Slots : old = own /\ place = slot
    BY <1>1
  <2>2. /\ With(old, place, row) \in Owns
        /\ DOMAIN With(old, place, row) = DOMAIN old \cup {place}
        /\ With(old, place, row)[place] = row
        /\ \A t \in DOMAIN old : t # place => With(old, place, row)[t] = old[t]
    BY WithIs
  <2> QED BY <2>1, <2>2
<1>4. /\ s.call = session[c].call /\ s.own = next /\ s.at - 1 = n + 1
      /\ s.state = "insert" => session[c].call.op = "import"
  BY <1>1, <1>3, AdvancedIs
<1> HIDE DEF s
<1>5. Accepted(rows, items, n + 1)
  <2>1. Prior(Effect(rows, items, n, items[n + 1].slot).revision) = items[n + 1].expected
    BY <1>1, <1>2
  <2> QED BY <1>2, <2>1, AcceptedStep
<1>6. DOMAIN next = {items[i].slot : i \in 1 .. (n + 1)}
  <2>1. slot = items[n + 1].slot
    BY <1>1
  <2>2. 1 .. (n + 1) = (1 .. n) \cup {n + 1}
    BY <1>2
  <2> HIDE DEF n, items, slot, own
  <2> QED BY <1>2, <1>3, <2>1, <2>2
<1>7. ASSUME NEW t \in DOMAIN next
      PROVE  next[t] = Effect(rows, items, n + 1, t)
  <2>1. t \in Slots /\ rows[t] \in Row /\ items[n + 1].dead \in BOOLEAN
    BY <1>1, <1>3, <1>7, OwnIs DEF TxInv
  <2>2. /\ items[n + 1].slot # t =>
             Effect(rows, items, n + 1, t) = Effect(rows, items, n, t)
        /\ items[n + 1].slot = t =>
             Effect(rows, items, n + 1, t) =
               [revision |-> Effect(rows, items, n, t).revision + 1,
                dead |-> items[n + 1].dead,
                stamp |-> IF items[n + 1].dead THEN Effect(rows, items, n, t).stamp ELSE 0]
    <3>1. PICK m \in Nat : m = n
      BY <1>2
    <3> HIDE DEF n, items, slot, own
    <3>2. items[m + 1].dead \in BOOLEAN
      BY <2>1, <3>1
    <3> QED BY <2>1, <3>1, <3>2, EffectStep
  <2>3. CASE t # slot
    BY <1>1, <1>2, <1>3, <2>2, <2>3
  <2>4. CASE t = slot
    <3>1. row = [revision |-> row.revision, dead |-> row.dead, stamp |-> row.stamp]
      BY DEF Row
    <3>2. row = [revision |-> Effect(rows, items, n, t).revision + 1,
                 dead |-> items[n + 1].dead,
                 stamp |-> IF items[n + 1].dead THEN Effect(rows, items, n, t).stamp ELSE 0]
      BY <1>1, <1>2, <2>4, <3>1
    <3> QED BY <1>1, <1>3, <2>2, <2>4, <3>2
  <2> QED BY <2>3, <2>4
<1>8. BatchFits(s, rows)
  <2> HIDE DEF n, items, slot, own
  <2>1. s.call.items = items /\ s.state # "insert"
    BY <1>4 DEF items
  <2> QED BY <1>4, <1>5, <1>6, <1>7, <2>1 DEF BatchFits
<1>9. Fits(s, rows)
  BY <1>4, <1>8 DEF Fits
<1> QED BY <1>9 DEF s

\* put and put_batch: the SELECT and its comparison.
LEMMA SelectWriteKeeps ==
  ASSUME TxInv, NEW c \in Sessions, SelectWrite(c)
  PROVE  TxInv'
<1> DEFINE item == Current(c)
           row == Visible(c, item.slot)
<1>1. /\ session[c].state = "select" /\ session[c].call.op = "write"
      /\ Present(row) => Free(c, item.slot)
  BY DEF SelectWrite, Selecting
<1>2. /\ session[c] \in SessionRecords /\ Placed(session[c]) /\ Running(session[c])
      /\ item \in Items /\ item.slot \in Slots /\ row \in Row
      /\ item = session[c].call.items[session[c].at]
  BY <1>1, CurrentIs
<1>3. CASE Prior(row.revision) # item.expected /\ Fail(c, "conflict")
  BY <1>3, FailKeeps
<1>4. CASE Prior(row.revision) = item.expected /\ Present(row) /\ Write(c, Updated(row, item))
  <2>1. PICK new : new = Updated(row, item)
    OBVIOUS
  <2>2. /\ new \in Row /\ new.revision = row.revision + 1 /\ new.dead = item.dead
        /\ new.stamp = IF item.dead THEN row.stamp ELSE 0
    BY <1>2, <2>1, PgTransactionsAssumption DEF Updated, Row, Items
  <2>3. Fits(Advanced(session[c], With(session[c].own, item.slot, new)), rows)
    BY <1>1, <1>4, <2>2, BatchAdvances
  <2> QED BY <1>1, <1>2, <1>4, <2>1, <2>2, <2>3, WriteKeeps
<1>5. CASE Prior(row.revision) = item.expected /\ ~Present(row) /\ GoInsert(c)
  <2> DEFINE s == [session[c] EXCEPT !.state = "insert"]
  <2>1. Go(c, s) /\ UNCHANGED <<rows, held>>
    BY <1>5 DEF GoInsert
  <2>2. /\ s \in SessionRecords /\ s.state = "insert" /\ s.call = session[c].call
        /\ s.at = session[c].at /\ s.own = session[c].own /\ s.left = session[c].left
        /\ s.targets = session[c].targets
    BY <1>2 DEF SessionRecords, States
  <2> HIDE DEF s
  <2>3. Running(s) /\ Placed(s)
    BY <1>1, <1>2, <2>2 DEF Running, Placed
  <2>4. item.expected = {}
    BY <1>5 DEF Prior, Present
  <2>5. BatchFits(session[c], rows)
    BY <1>1, BatchSees
  <2>6. BatchFits(s, rows)
    BY <1>2, <2>2, <2>4, <2>5 DEF BatchFits
  <2>7. Fits(s, rows)
    BY <1>1, <2>2, <2>6 DEF Fits
  <2> QED BY <2>1, <2>2, <2>3, <2>7, QuietStepKeeps
<1> QED BY <1>3, <1>4, <1>5 DEF SelectWrite, CompareAndWrite

\* tombstone.
LEMMA SelectTombstoneKeeps ==
  ASSUME TxInv, NEW c \in Sessions, SelectTombstone(c)
  PROVE  TxInv'
<1> DEFINE item == Current(c)
           row == Visible(c, item.slot)
<1>1. /\ session[c].state = "select" /\ session[c].call.op = "tombstone"
      /\ Present(row) => Free(c, item.slot)
  BY DEF SelectTombstone, Selecting
<1>2. /\ session[c] \in SessionRecords /\ Placed(session[c]) /\ Running(session[c])
      /\ session[c].own \in Owns /\ item \in Items /\ item.slot \in Slots /\ row \in Row
      /\ item = session[c].call.items[session[c].at]
  BY <1>1, CurrentIs
<1>3. CASE Fail(c, "not_found") \/ Fail(c, "conflict")
  BY <1>3, FailKeeps
<1>4. CASE Present(row) /\ Prior(row.revision) = item.expected /\ Write(c, Buried(row))
  <2>1. session[c].own = Unwritten /\ DOMAIN session[c].own = {}
    BY <1>1, <1>2, UnwrittenIs DEF TxInv, Fits, DeletionFits
  <2>2. row = rows[item.slot]
    BY <2>1 DEF Visible
  <2>3. PICK new \in Row : new = Buried(row)
    <3>1. row.revision \in Nat
      BY <1>2 DEF Row
    <3>2. row.revision + 1 \in Nat /\ Now \in 0 .. Now
      <4> HIDE DEF row
      <4> QED BY <3>1, PgTransactionsAssumption
    <3> HIDE DEF row
    <3>3. Buried(row) \in Row
      BY <3>2 DEF Buried, Row
    <3> QED BY <3>3
  <2>4. PICK next \in Owns : /\ next = With(session[c].own, item.slot, new)
                             /\ DOMAIN next = {item.slot} /\ next[item.slot] = new
    <3>1. PICK old \in Owns, place \in Slots : old = session[c].own /\ place = item.slot
      BY <1>2
    <3>2. /\ With(old, place, new) \in Owns
          /\ DOMAIN With(old, place, new) = DOMAIN old \cup {place}
          /\ With(old, place, new)[place] = new
      BY WithIs
    <3> QED BY <2>1, <3>1, <3>2
  <2> DEFINE s == Advanced(session[c], next)
  <2>5. /\ s.call = session[c].call /\ s.own = next
        /\ session[c].at = 1 /\ s.state = "commit"
    BY <1>1, <1>2, AdvancedIs
  <2> HIDE DEF s
  <2>6. item = s.call.items[1]
    BY <1>2, <2>5
  <2>7. DeletionFits(s, rows)
    BY <1>4, <2>2, <2>3, <2>4, <2>5, <2>6 DEF DeletionFits
  <2>8. Fits(s, rows)
    BY <1>1, <2>5, <2>7 DEF Fits
  <2>9. Fits(Advanced(session[c], With(session[c].own, item.slot, new)), rows)
    BY <2>4, <2>8 DEF s
  <2> QED BY <1>1, <1>2, <1>4, <2>3, <2>9, WriteKeeps
<1> QED BY <1>3, <1>4 DEF SelectTombstone

\* rekey_vault: the existence check.
LEMMA SelectRekeyKeeps ==
  ASSUME TxInv, NEW c \in Sessions, SelectRekey(c)
  PROVE  TxInv'
<1>1. session[c].state = "select" /\ session[c].call.op = "rekey"
  BY DEF SelectRekey, Selecting
<1>2. CASE Fail(c, "conflict")
  BY <1>2, FailKeeps
<1>3. CASE GoInsert(c)
  <2> DEFINE s == [session[c] EXCEPT !.state = "insert"]
  <2>1. Go(c, s) /\ UNCHANGED <<rows, held>>
    BY <1>3 DEF GoInsert
  <2>2. session[c] \in SessionRecords /\ Placed(session[c]) /\ Running(session[c])
    BY <1>1, CurrentIs
  <2>3. /\ s \in SessionRecords /\ s.state = "insert" /\ s.call = session[c].call
        /\ s.at = session[c].at /\ s.own = session[c].own /\ s.left = session[c].left
        /\ s.targets = session[c].targets
    BY <2>2 DEF SessionRecords, States
  <2> HIDE DEF s
  <2>4. Running(s) /\ Placed(s)
    BY <1>1, <2>2, <2>3 DEF Running, Placed
  <2>5. ArrivalsFit(session[c], rows)
    BY <1>1, <2>2 DEF TxInv, Fits
  <2>6. Fits(s, rows)
    BY <1>1, <2>3, <2>5 DEF Fits, ArrivalsFit
  <2> QED BY <2>1, <2>3, <2>4, <2>6, QuietStepKeeps
<1> QED BY <1>2, <1>3 DEF SelectRekey

\* An insert: the key is free, and nothing is committed under it.
LEMMA InsertKeeps ==
  ASSUME TxInv, NEW c \in Sessions, Insert(c)
  PROVE  TxInv'
<1> DEFINE item == Current(c)
           row == Visible(c, item.slot)
           call == session[c].call
           own == session[c].own
<1>1. session[c].state = "insert" /\ Free(c, item.slot)
  BY DEF Insert
<1>2. /\ session[c] \in SessionRecords /\ Placed(session[c]) /\ Running(session[c])
      /\ own \in Owns /\ item \in Items /\ item.slot \in Slots /\ row \in Row
      /\ call \in Calls /\ session[c].at \in 1 .. Len(call.items)
      /\ item = call.items[session[c].at] /\ rows[item.slot] \in Row
  BY <1>1, CurrentIs
<1>3. call.op \in {"write", "rekey", "import"}
  BY <1>1, <1>2 DEF Placed
<1>4. CASE ~Present(row) /\ Write(c, Inserted(call, item))
  <2>1. /\ item.revision \in Nat /\ item.dead \in BOOLEAN
        /\ call.op = "import" => item.revision > 0
        /\ call.op = "rekey" => item.slot[1] = call.to
    BY <1>2, CallIs DEF Items
  <2>2. PICK new \in Row :
          /\ new = Inserted(call, item) /\ new.dead = item.dead /\ Present(new)
          /\ call.op = "write" => new.revision = 1 /\ new.stamp = 0
    <3>1. PICK revision \in Nat, stamp \in 0 .. Now :
            /\ Inserted(call, item) = [revision |-> revision, dead |-> item.dead, stamp |-> stamp]
            /\ revision > 0 /\ (call.op = "write" => revision = 1 /\ stamp = 0)
      BY <2>1, PgTransactionsAssumption DEF Inserted
    <3>2. PICK new : new = [revision |-> revision, dead |-> item.dead, stamp |-> stamp]
      OBVIOUS
    <3>3. new \in Row /\ new.revision = revision /\ new.dead = item.dead /\ new.stamp = stamp
      BY <2>1, <3>2 DEF Row
    <3> QED BY <3>1, <3>2, <3>3 DEF Present
  <2>3. Fits(Advanced(session[c], With(own, item.slot, new)), rows)
    <3>1. CASE call.op = "write"
      <4> DEFINE n == session[c].at - 1
      <4>1. /\ n \in Nat /\ BatchFits(session[c], rows)
            /\ row = Effect(rows, call.items, n, item.slot)
        BY <1>1, <1>2, <3>1, BatchSees
      <4>2. item.expected = {}
        BY <1>1, <1>2, <4>1 DEF BatchFits
      <4>3. item.slot \notin DOMAIN own
        <5>1. SUFFICES ASSUME item.slot \in DOMAIN own PROVE FALSE
          OBVIOUS
        <5>2. \E i \in 1 .. n : call.items[i].slot = item.slot
          BY <4>1, <5>1 DEF BatchFits
        <5>3. /\ Effect(rows, call.items, n, item.slot).revision > rows[item.slot].revision
              /\ rows[item.slot].revision \in Nat
              /\ Effect(rows, call.items, n, item.slot).revision \in Nat
          <6> HIDE DEF n, item, call
          <6> QED BY <1>2, <4>1, <5>2, EffectRaises
        <5>4. Effect(rows, call.items, n, item.slot).revision > 0
          BY <5>3
        <5> QED BY <1>4, <4>1, <5>4 DEF Present
      <4>4. row = NoRow
        BY <1>2, <1>4, <4>3 DEF Visible, TxInv, Whole
      <4>5. /\ row.revision = 0 /\ row.stamp = 0
        BY <4>4 DEF NoRow
      <4>6. /\ Prior(row.revision) = item.expected /\ new.revision = row.revision + 1
            /\ new.stamp = IF item.dead THEN row.stamp ELSE 0
        <5> HIDE DEF row
        <5> QED BY <2>2, <3>1, <4>2, <4>5 DEF Prior
      <4> QED BY <1>1, <2>2, <3>1, <4>6, BatchAdvances
    <3>2. CASE call.op \in {"rekey", "import"}
      <4>1. ArrivalsFit(session[c], rows)
        BY <1>2, <3>2 DEF TxInv, Fits
      <4>2. item.slot \notin DOMAIN own /\ ~Present(rows[item.slot])
        <5>1. ASSUME item.slot \in DOMAIN own PROVE FALSE
          <6>1. row = own[item.slot]
            BY <5>1 DEF Visible
          <6>2. call.op = "rekey" /\ item.slot[1] = call.from
            BY <1>4, <4>1, <5>1, <6>1 DEF ArrivalsFit
          <6> QED BY <1>2, <2>1, <6>2 DEF Placed
        <5> QED BY <1>4, <5>1 DEF Visible
      <4>3. PICK next \in Owns :
              /\ next = With(own, item.slot, new)
              /\ DOMAIN next = DOMAIN own \cup {item.slot} /\ next[item.slot] = new
              /\ \A t \in DOMAIN own : t # item.slot => next[t] = own[t]
        <5>1. PICK old \in Owns, place \in Slots : old = own /\ place = item.slot
          BY <1>2
        <5>2. /\ With(old, place, new) \in Owns
              /\ DOMAIN With(old, place, new) = DOMAIN old \cup {place}
              /\ With(old, place, new)[place] = new
              /\ \A t \in DOMAIN old : t # place => With(old, place, new)[t] = old[t]
          BY WithIs
        <5> QED BY <5>1, <5>2
      <4> DEFINE s == Advanced(session[c], next)
      <4>4. s.call = call /\ s.own = next
        BY <1>1, <1>2, AdvancedIs
      <4> HIDE DEF s
      <4>5. ArrivalsFit(s, rows)
        BY <2>2, <4>1, <4>2, <4>3, <4>4 DEF ArrivalsFit
      <4>6. Fits(s, rows)
        BY <3>2, <4>4, <4>5 DEF Fits
      <4> QED BY <4>3, <4>6 DEF s
    <3> QED BY <1>3, <3>1, <3>2
  <2> QED BY <1>1, <1>2, <1>4, <2>2, <2>3, WriteKeeps
<1>5. CASE Present(row) /\ call.op = "import" /\ Advance(c, own) /\ UNCHANGED held
  <2> DEFINE s == Advanced(session[c], own)
  <2>1. Go(c, s) /\ UNCHANGED <<rows, held>>
    BY <1>5 DEF Advance, Go, Advanced
  <2>2. s \in SessionRecords /\ Running(s) /\ Placed(s) /\ s.call = call /\ s.own = own
    BY <1>1, <1>2, AdvancedIs
  <2> HIDE DEF s
  <2>3. ArrivalsFit(session[c], rows)
    BY <1>2, <1>5 DEF TxInv, Fits
  <2>4. Fits(s, rows)
    BY <1>5, <2>2, <2>3 DEF Fits, ArrivalsFit
  <2> QED BY <2>1, <2>2, <2>4, QuietStepKeeps
<1>6. CASE Fail(c, "unavailable")
  BY <1>6, FailKeeps
<1> QED BY <1>4, <1>5, <1>6 DEF Insert

\* The worker reads which scopes there are.
LEMMA ReadVaultsKeeps ==
  ASSUME TxInv, NEW c \in Sessions, ReadVaults(c)
  PROVE  TxInv'
<1> DEFINE found == {v \in Vaults : \E id \in Ids : Present(rows[<<v, id>>])}
<1>1. CASE found = {}
  <2>1. Fail(c, "ok")
    BY <1>1 DEF ReadVaults
  <2> QED BY <2>1, FailKeeps
<1>2. CASE found # {}
  <2> DEFINE s == [session[c] EXCEPT !.left = found, !.state = "scan"]
  <2>1. Go(c, s) /\ UNCHANGED <<rows, held>>
    BY <1>2 DEF ReadVaults
  <2>2. session[c] \in SessionRecords /\ Placed(session[c]) /\ Running(session[c])
        /\ session[c].call.op = "sweep"
    BY DEF TxInv, ReadVaults, Placed, Running
  <2>3. found \in SUBSET Vaults
    OBVIOUS
  <2> HIDE DEF found
  <2>4. /\ s \in SessionRecords /\ s.state = "scan" /\ s.call = session[c].call
        /\ s.own = session[c].own /\ s.at = session[c].at /\ s.targets = session[c].targets
    BY <2>2, <2>3 DEF SessionRecords, States
  <2> HIDE DEF s
  <2>5. Running(s) /\ Placed(s)
    BY <2>2, <2>4 DEF Running, Placed
  <2>6. PurgeFits(session[c], rows)
    BY <2>2 DEF TxInv, Fits
  <2>7. Fits(s, rows)
    <3>1. session[c].state = "vaults" /\ session[c].own = Unwritten
      BY <2>6 DEF ReadVaults, PurgeFits
    <3>2. PurgeFits(s, rows)
      BY <2>4, <2>6, <3>1, UnwrittenIs DEF PurgeFits
    <3> QED BY <2>2, <2>4, <3>2 DEF Fits
  <2> QED BY <2>1, <2>4, <2>5, <2>7, QuietStepKeeps
<1> QED BY <1>1, <1>2

\* A DELETE begins: its rows are of the scope it names.
LEMMA ScanKeeps ==
  ASSUME TxInv, NEW c \in Sessions, NEW vault \in Vaults, Scan(c, vault)
  PROVE  TxInv'
<1> DEFINE found == {slot \in {vault} \X Ids : Doomed(session[c].call, Visible(c, slot))}
           s == [session[c] EXCEPT !.state = "delete", !.left = @ \ {vault}, !.targets = found]
<1>1. Go(c, s) /\ UNCHANGED <<rows, held>>
  BY DEF Scan
<1>2. /\ session[c] \in SessionRecords /\ Placed(session[c]) /\ Running(session[c])
      /\ session[c].state = "scan" /\ session[c].call.op \in {"purge", "sweep", "rekey"}
      /\ session[c].call.op = "rekey" => vault = session[c].call.from
  BY DEF TxInv, Scan, Placed, Running
<1>3. found \in SUBSET Slots /\ \A slot \in found : slot[1] = vault
  BY DEF Slots
<1> HIDE DEF found
<1>4. /\ s \in SessionRecords /\ s.state = "delete" /\ s.call = session[c].call
      /\ s.own = session[c].own /\ s.at = session[c].at /\ s.targets = found
      /\ s.left = session[c].left \ {vault}
  BY <1>2, <1>3 DEF SessionRecords, States
<1> HIDE DEF s
<1>5. Running(s) /\ Placed(s)
  BY <1>2, <1>3, <1>4 DEF Running, Placed
<1>6. /\ session[c].call.op = "rekey" => ArrivalsFit(session[c], rows)
      /\ session[c].call.op # "rekey" => PurgeFits(session[c], rows)
  BY <1>2 DEF TxInv, Fits
<1>7. Fits(s, rows)
  <2>1. CASE session[c].call.op = "rekey"
    BY <1>4, <1>6, <2>1 DEF Fits, ArrivalsFit
  <2>2. CASE session[c].call.op # "rekey"
    <3>1. DOMAIN s.own = {}
      BY <1>2, <1>4, <1>6, <2>2, UnwrittenIs DEF PurgeFits
    <3>2. PurgeFits(s, rows)
      BY <1>3, <1>4, <3>1 DEF PurgeFits
    <3> QED BY <1>2, <1>4, <2>2, <3>2 DEF Fits
  <2> QED BY <2>1, <2>2
<1> QED BY <1>1, <1>4, <1>5, <1>7, QuietStepKeeps

\* A DELETE takes a row that still qualifies, or passes it over.
LEMMA DeleteKeeps ==
  ASSUME TxInv, NEW c \in Sessions, NEW slot \in Slots, Delete(c, slot)
  PROVE  TxInv'
<1> DEFINE call == session[c].call
           own == session[c].own
           row == Visible(c, slot)
<1>1. /\ session[c] \in SessionRecords /\ Placed(session[c]) /\ Running(session[c])
      /\ session[c].state = "delete" /\ call.op \in {"purge", "sweep", "rekey"}
      /\ slot \in session[c].targets /\ held[slot] \in {c, Nobody} /\ rows' = rows
      /\ own \in Owns
  BY DEF TxInv, Delete, Placed, Running, Free, SessionRecords
<1>2. call.op = "rekey" => slot[1] = call.from
  BY <1>1 DEF Placed
<1>3. /\ call.op = "rekey" => ArrivalsFit(session[c], rows)
      /\ call.op # "rekey" => PurgeFits(session[c], rows)
  BY <1>1 DEF TxInv, Fits
<1>4. CASE ~Doomed(call, row)
  <2> DEFINE s == [session[c] EXCEPT !.targets = @ \ {slot}]
  <2>1. Go(c, s) /\ UNCHANGED <<rows, held>>
    <3>1. session' = [session EXCEPT ![c] = [session[c] EXCEPT !.targets = @ \ {slot}, !.own = @]]
          /\ UNCHANGED <<rows, held>>
      BY <1>4 DEF Delete, Go
    <3>2. [session[c] EXCEPT !.targets = @ \ {slot}, !.own = @] = s
      BY <1>1 DEF SessionRecords
    <3> QED BY <3>1, <3>2 DEF Go
  <2>2. /\ s \in SessionRecords /\ s.state = "delete" /\ s.call = call /\ s.own = own
        /\ s.at = session[c].at /\ s.left = session[c].left
        /\ s.targets = session[c].targets \ {slot}
    BY <1>1 DEF SessionRecords, States
  <2> HIDE DEF s
  <2>3. Running(s) /\ Placed(s)
    BY <1>1, <2>2 DEF Running, Placed
  <2>4. Fits(s, rows)
    <3>1. CASE call.op = "rekey"
      BY <1>3, <2>2, <3>1 DEF Fits, ArrivalsFit
    <3>2. CASE call.op \in {"purge", "sweep"}
      <4>1. PurgeFits(s, rows)
        BY <1>1, <1>3, <2>2, <3>2 DEF PurgeFits
      <4> QED BY <2>2, <3>2, <4>1 DEF Fits
    <3> QED BY <1>1, <3>1, <3>2
  <2> QED BY <2>1, <2>2, <2>3, <2>4, QuietStepKeeps
<1>5. CASE Doomed(call, row)
  <2>1. PICK next \in Owns :
          /\ next = With(own, slot, NoRow)
          /\ DOMAIN next = DOMAIN own \cup {slot} /\ next[slot] = NoRow
          /\ \A t \in DOMAIN own : t # slot => next[t] = own[t]
    <3>1. PICK old \in Owns, place \in Slots, none \in Row :
            old = own /\ place = slot /\ none = NoRow
      <4>1. 0 \in 0 .. Now
        BY PgTransactionsAssumption
      <4>2. NoRow \in Row
        BY <4>1 DEF Row, NoRow
      <4> QED BY <1>1, <4>2
    <3>2. /\ With(old, place, none) \in Owns
          /\ DOMAIN With(old, place, none) = DOMAIN old \cup {place}
          /\ With(old, place, none)[place] = none
          /\ \A t \in DOMAIN old : t # place => With(old, place, none)[t] = old[t]
      BY WithIs
    <3> QED BY <3>1, <3>2
  <2> DEFINE s == [session[c] EXCEPT !.targets = @ \ {slot}, !.own = next]
  <2>2. session' = [session EXCEPT ![c] = s] /\ held' = [held EXCEPT ![slot] = c]
    BY <1>5, <2>1 DEF Delete, Go
  <2>3. /\ s \in SessionRecords /\ s.state = "delete" /\ s.call = call /\ s.own = next
        /\ s.at = session[c].at /\ s.left = session[c].left
        /\ s.targets = session[c].targets \ {slot}
    BY <1>1 DEF SessionRecords, States
  <2> HIDE DEF s
  <2>4. Running(s) /\ Placed(s)
    BY <1>1, <2>3 DEF Running, Placed
  <2>5. ASSUME call.op = "rekey" PROVE Fits(s, rows)
    <3>1. ArrivalsFit(s, rows)
      BY <1>2, <1>3, <2>1, <2>3, <2>5 DEF ArrivalsFit
    <3> QED BY <2>3, <2>5, <3>1 DEF Fits
  <2>6. ASSUME call.op \in {"purge", "sweep"} PROVE Fits(s, rows)
    <3>1. slot \notin DOMAIN own
      BY <1>3, <1>5, <2>6 DEF PurgeFits, Visible, Doomed, NoRow
    <3>2. \E vault \in Vaults : \A t \in DOMAIN s.own \cup s.targets : t[1] = vault
      BY <1>1, <1>3, <2>1, <2>3, <2>6 DEF PurgeFits
    <3>3. PurgeFits(s, rows)
      BY <1>3, <1>5, <2>1, <2>3, <2>6, <3>1, <3>2 DEF PurgeFits, Visible
    <3> QED BY <2>3, <2>6, <3>3 DEF Fits
  <2>7. Fits(s, rows')
    BY <1>1, <2>5, <2>6
  <2>8. rows' \in [Slots -> Row] /\ Whole(rows') /\ held' \in [Slots -> Sessions \cup {Nobody}]
    BY <1>1, <2>2 DEF TxInv
  <2>9. \A t \in Slots : held'[t] = IF t = slot THEN c ELSE held[t]
    BY <2>2 DEF TxInv
  <2>10. \A t \in DOMAIN s.own : t \in Slots /\ held'[t] = c
    BY <1>1, <2>1, <2>3, <2>9, OwnIs DEF TxInv
  <2> QED BY <1>1, <2>2, <2>3, <2>4, <2>7, <2>8, <2>9, <2>10, StepKeeps
<1> QED BY <1>4, <1>5

\* What a session that may commit has written is a row, or no row at all.
LEMMA WrittenIs ==
  ASSUME TxInv, NEW c \in Sessions, Committing(c), NEW slot \in DOMAIN session[c].own
  PROVE  /\ slot \in Slots
         /\ Present(session[c].own[slot]) \/ session[c].own[slot] = NoRow
<1> DEFINE s == session[c]
           call == session[c].call
           items == session[c].call.items
<1>1. /\ s \in SessionRecords /\ Placed(s) /\ Running(s) /\ Fits(s, rows) /\ call \in Calls
      /\ slot \in Slots /\ rows[slot] \in Row /\ s.at \in Nat \ {0}
  BY OwnIs DEF TxInv, Committing, Running, SessionRecords
<1>2. call.op \in {"write", "tombstone", "rekey", "purge", "sweep", "import"}
  BY <1>1, CallIs
<1>3. CASE call.op = "write"
  <2> DEFINE n == s.at - 1
  <2>1. /\ n \in Nat /\ BatchFits(s, rows)
    BY <1>1, <1>3 DEF Fits
  <2>2. /\ \E i \in 1 .. n : items[i].slot = slot
        /\ s.own[slot] = Effect(rows, items, n, slot)
    BY <2>1 DEF BatchFits
  <2>3. Effect(rows, items, n, slot).revision > 0
    <3>1. /\ Effect(rows, items, n, slot).revision > rows[slot].revision
          /\ rows[slot].revision \in Nat /\ Effect(rows, items, n, slot).revision \in Nat
      <4> HIDE DEF n, items
      <4> QED BY <1>1, <2>1, <2>2, EffectRaises
    <3> QED BY <3>1
  <2> QED BY <1>1, <2>2, <2>3 DEF Present
<1>4. CASE call.op = "tombstone"
  <2>1. s.state = "commit" /\ DeletionFits(s, rows)
    BY <1>1, <1>4 DEF Fits, Placed, Committing
  <2>2. s.own[slot] = Buried(rows[slot])
    BY <2>1 DEF DeletionFits
  <2> QED BY <1>1, <2>2 DEF Buried, Present, Row
<1>5. CASE call.op \in {"import", "rekey"}
  BY <1>1, <1>5 DEF Fits, ArrivalsFit
<1>6. CASE call.op \in {"purge", "sweep"}
  BY <1>1, <1>6 DEF Fits, PurgeFits
<1> QED BY <1>2, <1>3, <1>4, <1>5, <1>6

\* COMMIT makes the session's rows everyone's and lets go of them.
LEMMA CommitKeeps ==
  ASSUME TxInv, NEW c \in Sessions, Commit(c)
  PROVE  TxInv'
<1>1. /\ session[c] \in SessionRecords /\ Placed(session[c]) /\ Running(session[c])
      /\ session[c].own \in Owns /\ rows \in [Slots -> Row] /\ Whole(rows) /\ Committing(c)
  BY DEF TxInv, Commit, Committing, Running, SessionRecords
<1>2. rows' = [slot \in Slots |-> Visible(c, slot)] /\ held' = Released(c)
  BY DEF Commit
<1>3. rows' \in [Slots -> Row]
  BY <1>2, SeenIs
<1>4. Whole(rows')
  BY <1>1, <1>2, WrittenIs DEF Whole, Visible
<1>5. \A slot \in Slots : slot \notin DOMAIN session[c].own => rows'[slot] = rows[slot]
  BY <1>2 DEF Visible
<1>6. PICK answer \in {"ok", "unavailable"} :
        Go(c, [session[c] EXCEPT !.own = Unwritten, !.answer = answer,
                 !.state = IF answer = "ok" /\ session[c].left # {} THEN "scan" ELSE "done",
                 !.left = IF answer = "ok" THEN @ ELSE {}])
  BY DEF Commit
<1>7. PICK state \in {"scan", "done"}, left \in SUBSET Vaults :
        /\ session' = [session EXCEPT ![c] =
             [session[c] EXCEPT !.own = Unwritten, !.answer = answer, !.state = state,
                                !.left = left]]
        /\ state = "scan" => left = session[c].left /\ left # {}
  <2>1. session[c].left \in SUBSET Vaults
    BY <1>1 DEF SessionRecords
  <2>2. CASE answer = "ok" /\ session[c].left # {}
    BY <1>6, <2>1, <2>2 DEF Go
  <2>3. CASE answer = "ok" /\ session[c].left = {}
    BY <1>6, <2>1, <2>3 DEF Go
  <2>4. CASE answer # "ok"
    BY <1>6, <2>4 DEF Go
  <2> QED BY <2>2, <2>3, <2>4
<1> DEFINE s == [session[c] EXCEPT !.own = Unwritten, !.answer = answer, !.state = state,
                                   !.left = left]
<1>8. /\ s \in SessionRecords /\ s.own = Unwritten /\ s.state = state /\ s.left = left
      /\ s.call = session[c].call /\ s.targets = session[c].targets /\ s.at = session[c].at
  BY <1>1, <1>7, UnwrittenIs DEF SessionRecords, States
<1>9. session' = [session EXCEPT ![c] = s]
  BY <1>7
<1> HIDE DEF s
<1>10. state = "scan" => Running(s) /\ session[c].call.op \in {"purge", "sweep"}
  BY <1>1, <1>7, <1>8 DEF Running, Placed
<1>11. Placed(s)
  BY <1>1, <1>7, <1>8, <1>10 DEF Placed, Running
<1>12. DOMAIN s.own = {}
  BY <1>8, UnwrittenIs
<1>13. Fits(s, rows')
  <2>1. CASE state = "done"
    BY <1>8, <2>1 DEF Fits, Running
  <2>2. CASE state = "scan"
    BY <1>8, <1>10, <1>12, <2>2 DEF Fits, PurgeFits
  <2> QED BY <1>7, <2>1, <2>2
<1>14. /\ held' \in [Slots -> Sessions \cup {Nobody}]
       /\ \A slot \in Slots : /\ held'[slot] # c
                              /\ \/ held'[slot] = held[slot]
                                 \/ held[slot] \in {c, Nobody} /\ held'[slot] \in {c, Nobody}
  BY <1>2, ReleaseIs
<1> QED BY <1>3, <1>4, <1>5, <1>8, <1>9, <1>11, <1>12, <1>13, <1>14, StepKeeps

-----------------------------------------------------------------------------
(* The theorems.                                                           *)

\* Nothing is written at first.
LEMMA InitTx == Init => TxInv
<1> SUFFICES ASSUME Init PROVE TxInv
  OBVIOUS
<1>1. rows \in Starts /\ rows \in [Slots -> Row] /\ Whole(rows)
  BY PgTransactionsAssumption DEF Init, Whole
<1>2. held \in [Slots -> Sessions \cup {Nobody}] /\ \A slot \in Slots : held[slot] = Nobody
  BY DEF Init
<1>3. PICK call \in Calls : call = CHOOSE other \in Calls : TRUE
  BY PgTransactionsAssumption
<1> DEFINE s == [state |-> "idle", call |-> call, at |-> 1, own |-> Unwritten, targets |-> {},
                 left |-> {}, answer |-> "none"]
<1>4. session = [c \in Sessions |-> s]
  BY <1>3 DEF Init
<1>5. s \in SessionRecords
  BY UnwrittenIs DEF SessionRecords, States
<1>6. Placed(s) /\ Fits(s, rows) /\ DOMAIN s.own = {}
  BY UnwrittenIs DEF Placed, Fits, Running
<1> HIDE DEF s
<1> QED BY <1>1, <1>2, <1>4, <1>5, <1>6 DEF TxInv

\* Every step of every session keeps the invariant.
LEMMA TxStep == TxInv /\ [Next]_vars => TxInv'
<1> SUFFICES ASSUME TxInv, [Next]_vars PROVE TxInv'
  OBVIOUS
<1>1. CASE UNCHANGED vars
  BY <1>1 DEF vars, TxInv
<1>2. ASSUME NEW c \in Sessions, NEW call \in Calls, Begin(c, call) PROVE TxInv'
  BY <1>2, BeginKeeps
<1>3. ASSUME NEW c \in Sessions, SelectWrite(c) PROVE TxInv'
  BY <1>3, SelectWriteKeeps
<1>4. ASSUME NEW c \in Sessions, SelectTombstone(c) PROVE TxInv'
  BY <1>4, SelectTombstoneKeeps
<1>5. ASSUME NEW c \in Sessions, SelectRekey(c) PROVE TxInv'
  BY <1>5, SelectRekeyKeeps
<1>6. ASSUME NEW c \in Sessions, Insert(c) PROVE TxInv'
  BY <1>6, InsertKeeps
<1>7. ASSUME NEW c \in Sessions, ReadVaults(c) PROVE TxInv'
  BY <1>7, ReadVaultsKeeps
<1>8. ASSUME NEW c \in Sessions, Commit(c) PROVE TxInv'
  BY <1>8, CommitKeeps
<1>9. ASSUME NEW c \in Sessions, NEW vault \in Vaults, Scan(c, vault) PROVE TxInv'
  BY <1>9, ScanKeeps
<1>10. ASSUME NEW c \in Sessions, NEW slot \in Slots, Delete(c, slot) PROVE TxInv'
  BY <1>10, DeleteKeeps
<1>11. ASSUME NEW c \in Sessions, Abort(c) PROVE TxInv'
  BY <1>11, FailKeeps DEF Abort
<1> QED BY <1>1, <1>2, <1>3, <1>4, <1>5, <1>6, <1>7, <1>8, <1>9, <1>10, <1>11 DEF Next, Statement

\* The inductive invariant holds of every behaviour: a session's uncommitted
\* rows are its own to write, and are what its call does to the rows that are
\* committed now, whatever others have committed since it read them.
THEOREM TransactionsInvariant == Spec => []TxInv
<1> QED BY InitTx, TxStep, PTL DEF Spec

\* The type invariant: rows are rows, locks belong to running sessions, and no
\* two sessions have written the same row.
THEOREM TransactionsTyped == Spec => []TypeOK
<1>1. TxInv => TypeOK
  <2> SUFFICES ASSUME TxInv PROVE TypeOK
    OBVIOUS
  <2>1. \A slot \in DOMAIN held : held[slot] # Nobody => Running(session[held[slot]])
    BY DEF TxInv
  <2>2. \A slot \in Slots : held[slot] # Nobody => session[held[slot]].state \notin {"idle", "done"}
    BY <2>1 DEF TxInv, Running
  <2>3. \A c \in Sessions : session[c].state \in {"idle", "done"} => session[c].own = Unwritten
    BY DEF TxInv, Placed, Running
  <2>4. ASSUME NEW c \in Sessions, NEW d \in Sessions, c # d
        PROVE  DOMAIN session[c].own \cap DOMAIN session[d].own = {}
    BY <2>4 DEF TxInv
  <2> QED BY <2>2, <2>3, <2>4 DEF TypeOK, TxInv
<1> QED BY <1>1, TransactionsInvariant, PTL

\* What a COMMIT does to a slot: the session's own rows, and no others.
LEMMA CommitTakesOwn ==
  ASSUME TxInv, NEW c \in Sessions, Commit(c)
  PROVE  /\ session[c] \in SessionRecords /\ Placed(session[c]) /\ Running(session[c])
         /\ Fits(session[c], rows) /\ Committing(c)
         /\ DOMAIN session[c].own \subseteq Slots
         /\ rows' \in [Slots -> Row] /\ rows \in [Slots -> Row]
         /\ \A slot \in Slots :
              rows'[slot] = IF slot \in DOMAIN session[c].own THEN session[c].own[slot]
                            ELSE rows[slot]
<1>1. /\ session[c] \in SessionRecords /\ Placed(session[c]) /\ Running(session[c])
      /\ session[c].own \in Owns /\ Fits(session[c], rows) /\ Committing(c)
      /\ rows \in [Slots -> Row]
  BY DEF TxInv, Commit, Committing, Running, SessionRecords
<1>2. rows' = [slot \in Slots |-> Visible(c, slot)]
  BY DEF Commit
<1>3. rows' \in [Slots -> Row]
  BY <1>2, SeenIs
<1> QED BY <1>1, <1>2, <1>3, OwnIs DEF Visible

\* What a transaction commits is what its call does by itself to the rows that
\* are committed when it does, with every comparison passing against them.
THEOREM AcceptedAlone == Spec => AcceptedAsIfAlone
<1>1. ASSUME TxInv, NEW c \in Sessions, Commit(c), session[c].call.op = "write"
      PROVE  AsIfAlone(c)
  <2> DEFINE items == session[c].call.items
             n == Len(items)
             own == session[c].own
  <2>1. /\ session[c].state = "commit" /\ session[c].at = n + 1 /\ n \in Nat
        /\ BatchFits(session[c], rows)
    <3>1. session[c].call \in Calls /\ n \in Nat
      BY <1>1, CommitTakesOwn, CallIs DEF SessionRecords
    <3>2. session[c].state = "commit" /\ session[c].at = n + 1
      BY <1>1, CommitTakesOwn DEF Placed, Committing
    <3> QED BY <1>1, <3>1, <3>2, CommitTakesOwn DEF Fits
  <2>2. session[c].at - 1 = n
    BY <2>1
  <2>3. /\ Accepted(rows, items, n) /\ DOMAIN own = {items[i].slot : i \in 1 .. n}
        /\ \A slot \in DOMAIN own : own[slot] = Effect(rows, items, n, slot)
    BY <2>1, <2>2 DEF BatchFits
  <2>4. ASSUME NEW slot \in Slots PROVE rows'[slot] = Effect(rows, items, n, slot)
    <3>1. CASE slot \in DOMAIN own
      BY <1>1, <2>3, <3>1, CommitTakesOwn
    <3>2. CASE slot \notin DOMAIN own
      <4>1. {i \in 1 .. n : items[i].slot = slot} = {}
        BY <2>3, <3>2
      <4>2. Effect(rows, items, n, slot) = rows[slot]
        BY <4>1 DEF Effect
      <4> QED BY <1>1, <3>2, <4>2, CommitTakesOwn
    <3> QED BY <3>1, <3>2
  <2>5. rows' \in [Slots -> Row]
    BY <1>1, CommitTakesOwn
  <2> QED BY <1>1, <2>3, <2>4, <2>5 DEF AsIfAlone
<1>2. ASSUME TxInv, NEW c \in Sessions, Commit(c), session[c].call.op = "tombstone"
      PROVE  AsIfAlone(c)
  <2> DEFINE item == session[c].call.items[1]
             own == session[c].own
  <2>1. session[c].state = "commit"
    BY <1>2, CommitTakesOwn DEF Placed, Committing
  <2>2. DeletionFits(session[c], rows)
    BY <1>2, CommitTakesOwn DEF Fits
  <2>3. /\ DOMAIN own = {item.slot} /\ own[item.slot] = Buried(rows[item.slot])
        /\ Prior(rows[item.slot].revision) = item.expected
    BY <2>1, <2>2 DEF DeletionFits
  <2>4. rows' \in [Slots -> Row] /\ rows \in [Slots -> Row] /\ item.slot \in Slots
    BY <1>2, <2>3, CommitTakesOwn
  <2>5. \A slot \in Slots :
          rows'[slot] = IF slot = item.slot THEN Buried(rows[item.slot]) ELSE rows[slot]
    BY <1>2, <2>3, CommitTakesOwn
  <2>6. PICK place \in Slots : place = item.slot
    BY <2>4
  <2>7. rows' = [rows EXCEPT ![place] = Buried(rows[place])]
    <3> HIDE DEF item
    <3> QED BY <2>4, <2>5, <2>6
  <2> QED BY <1>2, <2>3, <2>6, <2>7 DEF AsIfAlone
<1>3. ASSUME TxInv, NEW c \in Sessions, Commit(c), session[c].call.op \in {"purge", "sweep"}
      PROVE  AsIfAlone(c)
  <2> SUFFICES ASSUME NEW slot \in Slots, rows'[slot] # rows[slot]
               PROVE  /\ rows[slot].dead
                      /\ rows[slot].stamp \in 1 .. session[c].call.cutoff
                      /\ rows'[slot] = NoRow
    BY <1>3 DEF AsIfAlone
  <2>1. /\ slot \in DOMAIN session[c].own /\ rows'[slot] = session[c].own[slot]
        /\ PurgeFits(session[c], rows) /\ session[c].call \in Calls /\ rows[slot] \in Row
    BY <1>3, CommitTakesOwn DEF Fits, SessionRecords
  <2>2. rows'[slot] = NoRow /\ Doomed(session[c].call, rows[slot])
    BY <2>1 DEF PurgeFits
  <2>3. rows[slot].stamp \in 0 .. Now /\ session[c].call.cutoff \in Nat /\ Now \in Nat
    BY <2>1, CallIs, PgTransactionsAssumption DEF Row
  <2>4. rows[slot].dead /\ rows[slot].stamp # 0 /\ rows[slot].stamp <= session[c].call.cutoff
    BY <1>3, <2>2 DEF Doomed
  <2> QED BY <2>2, <2>3, <2>4
<1>4. ASSUME TxInv, NEW c \in Sessions, Commit(c), session[c].call.op \in {"import", "rekey"}
      PROVE  AsIfAlone(c)
  <2> SUFFICES ASSUME NEW i \in DOMAIN session[c].call.items,
                      rows'[session[c].call.items[i].slot] # rows[session[c].call.items[i].slot]
               PROVE  ~Present(rows[session[c].call.items[i].slot])
    BY <1>4 DEF AsIfAlone
  <2> DEFINE slot == session[c].call.items[i].slot
  <2>1. session[c].call \in Calls /\ Placed(session[c]) /\ Running(session[c])
        /\ ArrivalsFit(session[c], rows)
    BY <1>4, CommitTakesOwn DEF Fits, SessionRecords
  <2>2. i \in 1 .. Len(session[c].call.items) /\ session[c].call.items[i] \in Items
    BY <1>4, <2>1, CallIs
  <2>3. slot \in DOMAIN session[c].own
    <3>1. slot \in Slots
      BY <2>2 DEF Items
    <3> QED BY <1>4, <3>1, CommitTakesOwn
  <2>4. session[c].call.op = "rekey" => slot[1] = session[c].call.to
                                        /\ session[c].call.to # session[c].call.from
    BY <2>1, <2>2, CallIs DEF Placed
  <2> QED BY <2>1, <2>3, <2>4 DEF ArrivalsFit
<1>5. ASSUME TxInv, NEW c \in Sessions, Commit(c)
      PROVE  session[c].call.op \in {"write", "tombstone", "rekey", "purge", "sweep", "import"}
  BY <1>5, CommitTakesOwn, CallIs DEF SessionRecords
<1>6. TxInv /\ [Next]_vars => [\A c \in Sessions : Commit(c) => AsIfAlone(c)]_vars
  BY <1>1, <1>2, <1>3, <1>4, <1>5
<1> QED BY <1>6, TransactionsInvariant, PTL DEF Spec, AcceptedAsIfAlone

\* What is committed is a table of the contract's records.
LEMMA CommittedTyped ==
  ASSUME TxInv
  PROVE  /\ Committed \in [Slots -> [revision : Nat, dead : BOOLEAN]]
         /\ \A slot \in Slots : /\ rows[slot] \in Row /\ rows[slot].revision \in Nat
                                /\ Committed[slot].revision = rows[slot].revision
                                /\ Committed[slot].dead = rows[slot].dead
<1>1. \A slot \in Slots :
        rows[slot] \in Row /\ rows[slot].revision \in Nat /\ rows[slot].dead \in BOOLEAN
  BY DEF TxInv, Row
<1> QED BY <1>1 DEF Committed

\* A batch, a deletion and an import raise the revision of all they change.
LEMMA RaisesRevisions ==
  ASSUME TxInv, NEW c \in Sessions, Commit(c),
         session[c].call.op \in {"write", "tombstone", "import"},
         NEW slot \in Slots, slot \in DOMAIN session[c].own
  PROVE  session[c].own[slot].revision > rows[slot].revision
<1> DEFINE s == session[c]
           items == session[c].call.items
<1>1. /\ s \in SessionRecords /\ Placed(s) /\ Running(s) /\ Fits(s, rows) /\ Committing(c)
      /\ rows[slot] \in Row /\ s.at \in Nat \ {0} /\ s.own[slot] \in Row
  <2>1. s \in SessionRecords /\ s.own \in Owns /\ s.at \in Nat \ {0}
    BY CommitTakesOwn DEF SessionRecords
  <2> QED BY <2>1, OwnIs, CommitTakesOwn
<1>2. CASE s.call.op = "write"
  <2>1. PICK n \in Nat : n = s.at - 1
    BY <1>1
  <2>2. BatchFits(s, rows)
    BY <1>1, <1>2 DEF Fits
  <2>3. /\ \E i \in 1 .. n : items[i].slot = slot
        /\ s.own[slot] = Effect(rows, items, n, slot)
    BY <2>1, <2>2 DEF BatchFits
  <2> HIDE DEF items
  <2> QED BY <1>1, <2>3, EffectRaises
<1>3. CASE s.call.op = "tombstone"
  <2>1. s.state = "commit" /\ DeletionFits(s, rows)
    BY <1>1, <1>3 DEF Fits, Placed, Committing
  <2>2. s.own[slot] = Buried(rows[slot])
    BY <2>1 DEF DeletionFits
  <2>3. s.own[slot].revision = rows[slot].revision + 1 /\ rows[slot].revision \in Nat
    BY <1>1, <2>2 DEF Buried, Row
  <2> QED BY <2>3
<1>4. CASE s.call.op = "import"
  <2>1. ~Present(rows[slot]) /\ Present(s.own[slot])
    BY <1>1, <1>4 DEF Fits, ArrivalsFit
  <2>2. rows[slot].revision \in Nat /\ s.own[slot].revision \in Nat
    BY <1>1 DEF Row
  <2> QED BY <2>1, <2>2 DEF Present
<1> QED BY <1>2, <1>3, <1>4

\* A transaction that is not a rekey's is one step of the contract's store.
LEMMA CommitIsContractStep ==
  ASSUME TxInv, TxInv', NEW c \in Sessions, Commit(c), session[c].call.op # "rekey"
  PROVE  Contract!Next
<1> DEFINE s == session[c]
<1>1. Committed' \in [Slots -> [revision : Nat, dead : BOOLEAN]]
      /\ \A slot \in Slots : /\ Committed'[slot].revision = rows'[slot].revision
                             /\ Committed'[slot].dead = rows'[slot].dead
  <2>1. \A slot \in Slots :
          rows'[slot] \in Row /\ rows'[slot].revision \in Nat /\ rows'[slot].dead \in BOOLEAN
    BY CommitTakesOwn DEF Row
  <2> QED BY <2>1 DEF Committed
<1>2. \A slot \in Slots : rows'[slot] = rows[slot] => Committed'[slot] = Committed[slot]
  BY DEF Committed
<1>3. \A slot \in Slots :
        rows'[slot] = IF slot \in DOMAIN s.own THEN s.own[slot] ELSE rows[slot]
  BY CommitTakesOwn
<1>4. /\ s.call \in Calls /\ Placed(s) /\ Running(s) /\ Fits(s, rows) /\ Committing(c)
      /\ s.call.op \in {"write", "tombstone", "import", "purge", "sweep"}
  BY CommitTakesOwn, CallIs DEF SessionRecords
<1>5. CASE s.call.op \in {"write", "tombstone", "import"}
  <2>1. ASSUME NEW slot \in Slots
        PROVE  \/ Committed'[slot] = Committed[slot]
               \/ Committed'[slot].revision > Committed[slot].revision
    <3>1. CASE slot \in DOMAIN s.own
      <4>1. rows'[slot].revision > rows[slot].revision
        BY <1>3, <1>5, <3>1, RaisesRevisions
      <4> QED BY <1>1, <4>1, CommittedTyped
    <3>2. CASE slot \notin DOMAIN s.own
      BY <1>2, <1>3, <3>2
    <3> QED BY <3>1, <3>2
  <2>2. Contract!Write
    BY <1>1, <2>1 DEF Contract!Write, Contract!Record, Contract!Slots, Slots
  <2> QED BY <2>2 DEF Contract!Next
<1>6. CASE s.call.op \in {"purge", "sweep"}
  <2>1. s.state = "delete" /\ PurgeFits(s, rows)
    BY <1>4, <1>6 DEF Fits, Placed, Committing
  <2>2. PICK vault \in Vaults : \A slot \in DOMAIN s.own : slot[1] = vault
    BY <2>1 DEF PurgeFits
  <2>3. ASSUME NEW slot \in Slots
        PROVE  \/ Committed'[slot] = Committed[slot]
               \/ /\ slot[1] = vault /\ Committed[slot].dead
                  /\ Committed'[slot] = Contract!NoRecord
    <3>1. CASE slot \in DOMAIN s.own
      <4>1. rows'[slot] = NoRow /\ rows[slot].dead /\ slot[1] = vault
        BY <1>3, <1>6, <2>1, <2>2, <3>1 DEF PurgeFits, Doomed
      <4>2. Committed'[slot] = Contract!NoRecord
        <5>1. rows'[slot].revision = 0 /\ rows'[slot].dead = FALSE
          BY <4>1 DEF NoRow
        <5>2. Committed'[slot] = [revision |-> rows'[slot].revision, dead |-> rows'[slot].dead]
          BY DEF Committed
        <5> QED BY <5>1, <5>2 DEF Contract!NoRecord
      <4> QED BY <4>1, <4>2, CommittedTyped
    <3>2. CASE slot \notin DOMAIN s.own
      BY <1>2, <1>3, <3>2
    <3> QED BY <3>1, <3>2
  <2>4. Contract!Purge(vault)
    BY <1>1, <2>3 DEF Contract!Purge, Contract!Record, Contract!Slots, Slots
  <2> QED BY <2>4 DEF Contract!Next
<1> QED BY <1>4, <1>5, <1>6

\* Every transaction but a rekey's is one step of the store the trait
\* promises, and nothing but a COMMIT changes what is committed.
THEOREM TransactionsImplementContract == Spec => TransactionsKeepContract
<1>1. TxInv /\ TxInv' /\ [Next]_vars =>
        [Contract!Next \/ \E c \in Sessions : Commit(c) /\ session[c].call.op = "rekey"]_Committed
  <2> SUFFICES ASSUME TxInv, TxInv', [Next]_vars, rows' # rows
               PROVE  Contract!Next
                        \/ \E c \in Sessions : Commit(c) /\ session[c].call.op = "rekey"
    BY DEF Committed
  <2>1. \E c \in Sessions : Commit(c)
    <3>1. ASSUME NEW c \in Sessions,
                 \/ SelectWrite(c) \/ SelectTombstone(c) \/ SelectRekey(c) \/ Insert(c)
          PROVE  rows' = rows
      BY <3>1 DEF SelectWrite, CompareAndWrite, SelectTombstone, SelectRekey, Insert, Write,
                  Advance, GoInsert, Fail
    <3>2. ASSUME NEW c \in Sessions,
                 \/ ReadVaults(c) \/ Abort(c) \/ \E call \in Calls : Begin(c, call)
                 \/ \E vault \in Vaults : Scan(c, vault)
                 \/ \E slot \in Slots : Delete(c, slot)
          PROVE  rows' = rows
      BY <3>2 DEF ReadVaults, Abort, Begin, Scan, Delete, Fail
    <3> QED BY <3>1, <3>2 DEF Next, Statement, vars
  <2> QED BY <2>1, CommitIsContractStep
<1> QED BY <1>1, TransactionsInvariant, PTL DEF Spec, TransactionsKeepContract

=============================================================================
