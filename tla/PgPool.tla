-------------------------------- MODULE PgPool --------------------------------
(***************************************************************************)
(* ConnectionPool of the PostgreSQL adapter: a mutex around the idle list  *)
(* and the closed flag, a condition variable, and an atomic count of       *)
(* connections that some paths change without the mutex.  A thread holds   *)
(* the mutex while it opens a connection, lets go of it to probe an idle   *)
(* one, and waits on the condition variable at the cap.  Idle connections  *)
(* differ only in age; the probe finds out which are dead.                 *)
(***************************************************************************)
EXTENDS Naturals, FiniteSets

CONSTANTS
  Threads,   \* threads that check connections out
  MaxSize,   \* config.max_size
  MaxCalls   \* bound: checkouts of one thread

ASSUME PgPoolAssumption ==
  /\ IsFiniteSet(Threads)
  /\ MaxSize \in Nat \ {0}
  /\ MaxCalls \in Nat

VARIABLES
  at,           \* where each thread is in get, or "out", or "using" a connection
  late,         \* threads whose acquire deadline has passed
  calls,        \* checkouts each thread has begun
  idle,         \* how many connections the idle list holds
  closed,       \* PoolState::closed
  outstanding,  \* checked-out plus idle connections
  closer        \* where the one call of shutdown is

poolVars == <<at, late, calls, idle, closed, outstanding, closer>>

Getting == {"lock", "probing", "opening", "full", "waiting"}

\* The state mutex: get keeps it while it opens a connection and up to the
\* wait, shutdown from its check up to the wait.
Holds(t) == at[t] \in {"opening", "full"}

LockFree == closer # "checking" /\ \A t \in Threads : ~Holds(t)

Goto(t, place) == at' = [at EXCEPT ![t] = place]

\* notify_all, with t going to place: every waiter asks for the mutex again.
NotifyAll(t, place) ==
  /\ at' = [u \in Threads |-> IF u = t THEN place
                              ELSE IF at[u] = "waiting" THEN "lock" ELSE at[u]]
  /\ closer' = IF closer = "draining" THEN "woken" ELSE closer

-----------------------------------------------------------------------------
(* get                                                                     *)

BeginGet(t) ==
  /\ at[t] = "out"
  /\ calls[t] < MaxCalls
  /\ calls' = [calls EXCEPT ![t] = @ + 1]
  /\ late' = late \ {t}
  /\ Goto(t, "lock")
  /\ UNCHANGED <<idle, closed, outstanding, closer>>

\* The acquire deadline of t passes.
Deadline(t) ==
  /\ at[t] \in Getting
  /\ t \notin late
  /\ late' = late \cup {t}
  /\ UNCHANGED <<at, calls, idle, closed, outstanding, closer>>

\* One turn of the loop under the mutex.  The list is in order of age, so
\* when its youngest connection has outlived the idle timeout all have, and
\* kept connections are all of them or none.
Look(t) ==
  /\ at[t] = "lock"
  /\ LockFree
  /\ \/ /\ closed
        /\ Goto(t, "out")
        /\ UNCHANGED <<idle, outstanding>>
     \/ /\ ~closed
        /\ idle > 0
        /\ idle' = idle - 1
        /\ Goto(t, "probing")
        /\ UNCHANGED outstanding
     \/ /\ ~closed
        /\ idle' = 0
        /\ LET kept == outstanding - idle
           IN  IF kept < MaxSize
               THEN outstanding' = kept + 1 /\ Goto(t, "opening")
               ELSE outstanding' = kept /\ Goto(t, "full")
  /\ UNCHANGED <<late, calls, closed, closer>>

\* Mutant: the slot of a dead connection is not given back.
ProbeKeepsSlot(t) ==
  /\ at[t] = "probing"
  /\ \/ Goto(t, "using") /\ UNCHANGED <<outstanding, closer>>
     \/ NotifyAll(t, "lock") /\ UNCHANGED outstanding
  /\ UNCHANGED <<late, calls, idle, closed>>

\* SELECT 1 without the mutex.  A dead connection gives its slot back and
\* wakes the waiters, also without the mutex.
Probe(t) ==
  /\ at[t] = "probing"
  /\ \/ Goto(t, "using") /\ UNCHANGED <<outstanding, closer>>
     \/ NotifyAll(t, "lock") /\ outstanding' = outstanding - 1
  /\ UNCHANGED <<late, calls, idle, closed>>

\* open_connection under the mutex; a refusal gives the slot back and wakes
\* nobody.
Open(t) ==
  /\ at[t] = "opening"
  /\ \/ Goto(t, "using") /\ UNCHANGED outstanding
     \/ Goto(t, "out") /\ outstanding' = outstanding - 1
  /\ UNCHANGED <<late, calls, idle, closed, closer>>

AtCap(t) ==
  /\ at[t] = "full"
  /\ Goto(t, IF t \in late THEN "out" ELSE "waiting")
  /\ UNCHANGED <<late, calls, idle, closed, outstanding, closer>>

\* Mutant: the wait has no timeout.
WaitForever(t) == FALSE /\ UNCHANGED poolVars

WaitTimeout(t) ==
  /\ at[t] = "waiting"
  /\ t \in late
  /\ Goto(t, "lock")
  /\ UNCHANGED <<late, calls, idle, closed, outstanding, closer>>

\* PooledConnection::drop.
Release(t) ==
  /\ at[t] = "using"
  /\ LockFree
  /\ IF ~closed /\ idle < MaxSize
     THEN idle' = idle + 1 /\ UNCHANGED outstanding
     ELSE outstanding' = outstanding - 1 /\ UNCHANGED idle
  /\ NotifyAll(t, "out")
  /\ UNCHANGED <<late, calls, closed>>

-----------------------------------------------------------------------------
(* shutdown                                                                *)

\* Mutant: closing the idle connections forgets the checked-out ones.
BeginShutdownForgets ==
  /\ closer = "running"
  /\ LockFree
  /\ closed' = TRUE
  /\ idle' = 0
  /\ outstanding' = 0
  /\ closer' = "drained"
  /\ UNCHANGED <<at, late, calls>>

\* The idle connections close, their slots stay counted.
BeginShutdown ==
  /\ closer = "running"
  /\ LockFree
  /\ closed' = TRUE
  /\ idle' = 0
  /\ closer' = IF outstanding = 0 THEN "drained" ELSE "checking"
  /\ UNCHANGED <<at, late, calls, outstanding>>

\* The wait begins: the mutex is free again.
DrainWait ==
  /\ closer = "checking"
  /\ closer' = "draining"
  /\ UNCHANGED <<at, late, calls, idle, closed, outstanding>>

\* A notification: the loop condition is read again under the mutex.
DrainWake ==
  /\ closer = "woken"
  /\ LockFree
  /\ closer' = IF outstanding = 0 THEN "drained" ELSE "checking"
  /\ UNCHANGED <<at, late, calls, idle, closed, outstanding>>

\* Mutant: the drain waits without its deadline.
DrainForever == FALSE /\ UNCHANGED poolVars

\* The deadline of the drain.
DrainTimeout ==
  /\ closer \in {"draining", "woken"}
  /\ LockFree
  /\ closer' = IF outstanding = 0 THEN "drained" ELSE "timed out"
  /\ UNCHANGED <<at, late, calls, idle, closed, outstanding>>

-----------------------------------------------------------------------------

\* connect opens one connection and keeps it idle.
PoolInit ==
  /\ at = [t \in Threads |-> "out"]
  /\ late = {}
  /\ calls = [t \in Threads |-> 0]
  /\ idle = 1
  /\ closed = FALSE
  /\ outstanding = 1
  /\ closer = "running"

GetStep(t) == Deadline(t) \/ Look(t) \/ Probe(t) \/ Open(t) \/ AtCap(t) \/ WaitTimeout(t)

DrainStep == DrainWait \/ DrainWake \/ DrainTimeout

PoolNext ==
  \/ \E t \in Threads : BeginGet(t) \/ GetStep(t) \/ Release(t)
  \/ BeginShutdown
  \/ DrainStep

PoolSpec == PoolInit /\ [][PoolNext]_poolVars

\* Threads run, time passes and the drain goes on; whether a thread gives its
\* connection back is its own affair.
FairSpec ==
  /\ PoolSpec
  /\ \A t \in Threads : WF_poolVars(GetStep(t)) /\ WF_poolVars(Deadline(t))
  /\ WF_poolVars(DrainStep)
  /\ WF_poolVars(DrainTimeout)

-----------------------------------------------------------------------------

\* Type invariant, with the exclusion the mutex gives.
PoolTypeOK ==
  /\ at \in [Threads -> Getting \cup {"out", "using"}]
  /\ late \subseteq Threads
  /\ calls \in [Threads -> 0 .. MaxCalls]
  /\ idle \in Nat
  /\ closed \in BOOLEAN
  /\ outstanding \in Nat
  /\ closer \in {"running", "checking", "draining", "woken", "drained", "timed out"}
  /\ \A t, u \in Threads : Holds(t) /\ Holds(u) => t = u
  /\ closer = "checking" => \A t \in Threads : ~Holds(t)

Busy == {t \in Threads : at[t] \in {"probing", "opening", "using"}}

\* "Checked-out plus idle connections; never exceeds config.max_size": the
\* count covers every connection there is through every order of expiry,
\* failed probe, failed open and return, and as long as the pool is open it
\* counts nothing else, so no slot leaks.
SlotsAccounted ==
  /\ idle + Cardinality(Busy) <= outstanding
  /\ outstanding <= MaxSize
  /\ ~closed => idle + Cardinality(Busy) = outstanding

\* What every state of the pool keeps: its shape, one holder of the mutex, and
\* a count that covers every connection and leaks no slot.
PoolInv == PoolTypeOK /\ SlotsAccounted

\* When shutdown reports the pool drained no connection is left, not even one
\* taken from the idle list before the pool closed and still being probed.
DrainedMeansNone == closer = "drained" => idle = 0 /\ Busy = {}

\* "Waiters block until a connection returns, the acquire timeout elapses or
\* the pool shuts down": every get ends although wake-ups can be lost.
EveryGetReturns == \A t \in Threads : (at[t] \in Getting) ~> (at[t] \in {"out", "using"})

\* "The call waits (bounded by the acquire timeout)": shutdown ends whatever
\* the threads do with their connections.
ShutdownReturns == (closer = "draining") ~> (closer \in {"drained", "timed out"})

\* Nobody waits for ever, neither for a connection nor for the pool to drain.
EveryWaitEnds == EveryGetReturns /\ ShutdownReturns

\* "Waits for checked-out connections to return": shutdown gives up only when
\* a connection is still checked out.  The slots of the idle connections it
\* closes stay counted, so it waits for them too.
TimesOutOnlyForBusy == closer = "timed out" => Busy # {}

=============================================================================
