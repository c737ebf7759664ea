----------------------------- MODULE ApiService -----------------------------
(***************************************************************************)
(* The HTTP service: requests that pass the rate limiter, the other layers *)
(* and a handler, and reach the store one call at a time.  A conflict is   *)
(* answered with a revision read by a second call.  A reader pages through *)
(* a listing.  What a body or query looks like is a set of faults.         *)
(***************************************************************************)
EXTENDS PgSchema, FiniteSets

CONSTANTS
  Vaults, Ids,   \* scopes, and ids as naturals in the order of a listing
  Ips, Requests, \* client addresses, and requests in flight
  LastMinute,    \* the clock's last minute
  Scenarios      \* limit, ticks, pageSize, calls, records, reads, vault, new

VARIABLES
  scenario,
  minute,   \* the clock's minute
  windows,  \* the rate limiter: per address, a minute and a count
  passed,   \* history: requests let through, by address and clock minute
  stray,    \* history: requests of another minute that met a window
  records,
  removals, \* history: how often a record was removed
  request,
  reader

vars == <<scenario, minute, windows, passed, stray, records, removals, request,
          reader, schemaVars>>

Slots == Vaults \X Ids

NoRecord == [revision |-> 0, dead |-> FALSE]

Present(record) == record.revision > 0

Prior(revision) == IF revision > 0 THEN {revision} ELSE {}

Minutes == 0..LastMinute

Contents == [Slots -> [revision : Nat, dead : BOOLEAN]]

Items == [slot : Slots, expected : SUBSET (Nat \ {0}), dead : BOOLEAN]

\* Listings are of natural ids, a put and a delete name one record.
ASSUME ApiAssumption ==
  /\ Ids \subseteq Nat /\ IsFiniteSet(Ids)
  /\ LastMinute \in Nat
  /\ \A s \in Scenarios :
       /\ s.limit \in Nat /\ s.ticks \in Minutes /\ s.pageSize \in Nat \ {0}
       /\ s.vault \in Vaults
       /\ s.records \in Contents
       /\ \A slot \in Slots : s.records[slot].dead => Present(s.records[slot])
       /\ s.calls # {}
       /\ \A call \in s.calls :
            /\ call.ip \in Ips
            /\ call.items \in Seq(Items) \ {<<>>}
            /\ call.op \in {"put", "delete"} => Len(call.items) = 1

-----------------------------------------------------------------------------
(* What the layers and the handlers refuse, in their order.                *)

\* MIXED stands for an empty body or one that leaves its scope.
FaultsOf(op) ==
  CASE op = "put" -> <<"BAD_BODY", "ROUTE_MISMATCH", "INVALID_RECORD">>
    [] op = "batch" -> <<"BAD_BODY", "INVALID_RECORD", "MIXED">>
    [] op = "delete" -> <<"BAD_QUERY", "BAD_BODY">>
    [] op = "rekey" -> <<"BAD_QUERY", "BAD_BODY", "MIXED">>
    [] op \in {"get", "embed", "purge"} -> <<"BAD_QUERY">>
    [] OTHER -> <<>>

Open(op) == op \in {"healthz", "readyz", "options"}

\* Authorization, then the preflight, then the size, then the handler.
Refusals(op) ==
  (IF Open(op) THEN <<>> ELSE <<"UNAUTHORIZED">>)
    \o (IF op = "options" THEN <<"PREFLIGHT">> ELSE <<"TOO_LARGE">>)
    \o FaultsOf(op)

Refusal(call) ==
  LET refusals == Refusals(call.op)
      hits == {i \in DOMAIN refusals : refusals[i] \in call.faults \cup {"PREFLIGHT"}}
  IN IF hits = {} THEN "none" ELSE refusals[CHOOSE i \in hits : \A j \in hits : i <= j]

\* Mistake: a missing record is not an error.
StatusFound(code) ==
  CASE code \in {"BAD_BODY", "BAD_QUERY", "MIXED", "ROUTE_MISMATCH", "INVALID_RECORD"} -> 400
    [] code = "UNAUTHORIZED" -> 401
    [] code = "CONFLICT" -> 409
    [] code = "UNAVAILABLE" -> 503
    [] OTHER -> 200

\* status_and_code, and the statuses of the layers.
Status(code) ==
  CASE code \in {"BAD_BODY", "BAD_QUERY", "MIXED", "ROUTE_MISMATCH", "INVALID_RECORD"} -> 400
    [] code = "UNAUTHORIZED" -> 401
    [] code = "NOT_FOUND" -> 404
    [] code = "CONFLICT" -> 409
    [] code = "TOO_LARGE" -> 413
    [] code = "RATE_LIMITED" -> 429
    [] code = "UNAVAILABLE" -> 503
    [] code = "PREFLIGHT" -> 204
    [] OTHER -> 200

RetryClass(code) ==
  CASE code = "UNAVAILABLE" -> "immediate"
    [] code = "RATE_LIMITED" -> "delayed"
    [] OTHER -> "never"

-----------------------------------------------------------------------------
Init ==
  /\ scenario \in Scenarios
  /\ minute = 0
  /\ windows = [ip \in Ips |-> [minute |-> 0, count |-> 0]]
  /\ passed = [ip \in Ips |-> [m \in Minutes |-> 0]]
  /\ stray = [ip \in Ips |-> 0]
  /\ records = scenario.records
  /\ removals = [slot \in Slots |-> 0]
  /\ request = [q \in Requests |-> [state |-> "idle", call |-> CHOOSE c \in scenario.calls : TRUE,
                  minute |-> 0, removals |-> 0, found |-> 0, code |-> "none", revision |-> 0]]
  /\ reader = [state |-> IF scenario.reads THEN "reading" ELSE "off", offset |-> 0,
               seen |-> {}, there |-> Ids, removals |-> [id \in Ids |-> 0]]
  /\ SchemaInit(scenario.new)

Answer(q, code, revision) ==
  request' = [request EXCEPT ![q].state = "done", ![q].code = code, ![q].revision = revision]

\* The layers behind the limiter and the handler's checks share nothing.
Admit(q, call) ==
  CASE Refusal(call) # "none" -> Answer(q, Refusal(call), 0)
    [] Refusal(call) = "none" /\ call.op = "healthz" -> Answer(q, "OK", 0)
    [] OTHER -> request' = [request EXCEPT ![q].state = "store"]

Tick ==
  /\ minute < scenario.ticks
  /\ minute' = minute + 1
  /\ UNCHANGED <<scenario, windows, passed, stray, records, removals, request, reader, schemaVars>>

\* RateLimiter::allow reads the clock before it takes the mutex.
Arrive(q, call) ==
  /\ api.state = "serving"
  /\ request[q].state = "idle"
  /\ request' = [request EXCEPT ![q].state = "limit", ![q].call = call, ![q].minute = minute]
  /\ UNCHANGED <<scenario, minute, windows, passed, stray, records, removals, reader, schemaVars>>

\* Mistake: the request that opens a window is not counted.
EnteredFree(window, m) ==
  IF window.minute # m THEN [minute |-> m, count |-> 0]
  ELSE [window EXCEPT !.count = @ + 1]

\* A window of another minute starts again, an older minute included.
Entered(window, m) ==
  IF window.minute # m THEN [minute |-> m, count |-> 1]
  ELSE [window EXCEPT !.count = @ + 1]

Limit(q) ==
  LET ip == request[q].call.ip
      m == request[q].minute
      entered == Entered(windows[ip], m)
  IN /\ request[q].state = "limit"
     /\ windows' = IF scenario.limit = 0 THEN windows ELSE [windows EXCEPT ![ip] = entered]
     /\ stray' = IF m = minute THEN stray ELSE [stray EXCEPT ![ip] = @ + 1]
     /\ IF scenario.limit = 0 THEN Admit(q, request[q].call) /\ UNCHANGED passed
        ELSE IF entered.count <= scenario.limit
        THEN /\ Admit(q, request[q].call)
             /\ passed' = [passed EXCEPT ![ip][m] = @ + 1]
        ELSE Answer(q, "RATE_LIMITED", 0) /\ UNCHANGED passed
     /\ UNCHANGED <<scenario, minute, records, removals, reader, schemaVars>>

-----------------------------------------------------------------------------
(* The listing.                                                            *)

Listed(vault) == {id \in Ids : Present(records[<<vault, id>>])}

\* ORDER BY record_id: how many records of the listing come before an id.
Before(vault, id) == Cardinality({i \in Listed(vault) : i < id})

\* LIMIT and OFFSET.
Page(vault, limit, offset) ==
  {id \in Listed(vault) : Before(vault, id) \in offset..(offset + limit - 1)}

\* Mistake: a full page counts as the last one.
TruncatedOver(page, limit) == Cardinality(page) > limit

\* x-truncated: a full page may have another behind it.
Truncated(page, limit) == Cardinality(page) = limit

\* embed=bodies ignores the limit and refuses what does not fit one page.
Embedded(vault, max, offset) ==
  IF Cardinality(Page(vault, max + 1, offset)) > max THEN "BAD_QUERY" ELSE "OK"

-----------------------------------------------------------------------------
(* The store's answer to a call: a code and the records it leaves.         *)

\* The revision an item of a batch finds: those before it are written.
Found(items, i) ==
  records[items[i].slot].revision + Cardinality({j \in 1..(i - 1) : items[j].slot = items[i].slot})

\* One compare-and-set after the other, all of them or none.
Written(items) ==
  IF \E i \in DOMAIN items : Prior(Found(items, i)) # items[i].expected
  THEN [code |-> "CONFLICT", records |-> records]
  ELSE [code |-> "OK", records |->
         [s \in Slots |->
            LET mine == {i \in DOMAIN items : items[i].slot = s}
                last == CHOOSE i \in mine : \A j \in mine : j <= i
            IN IF mine = {} THEN records[s]
               ELSE [revision |-> Found(items, last) + 1, dead |-> items[last].dead]]]

Outcome(call) ==
  LET slot == call.items[1].slot
      same(code) == [code |-> code, records |-> records]
      moved == {call.items[i].slot : i \in DOMAIN call.items}
  IN CASE call.op \in {"put", "batch"} -> Written(call.items)
       [] call.op = "delete" /\ ~Present(records[slot]) -> same("NOT_FOUND")
       [] call.op = "delete" /\ Present(records[slot]) -> Written(call.items)
       [] call.op = "get" -> same(IF Present(records[slot]) THEN "OK" ELSE "NOT_FOUND")
       [] call.op = "embed" -> same(Embedded(call.vault, scenario.pageSize, 0))
       [] call.op = "purge" -> [code |-> "OK", records |->
            [s \in Slots |-> IF s[1] = call.vault /\ records[s].dead THEN NoRecord ELSE records[s]]]
       [] call.op = "rekey" /\ (\E s \in moved : Present(records[s])) -> same("CONFLICT")
       [] call.op = "rekey" /\ (\A s \in moved : ~Present(records[s])) ->
            [code |-> "OK", records |->
              [s \in Slots |-> IF s[1] = call.vault THEN NoRecord
                               ELSE IF s \in moved THEN [revision |-> 1, dead |-> FALSE]
                               ELSE records[s]]]
       [] OTHER -> same("OK")

\* Mistake: any failure of the store is looked up.
RereadsAlways(call, code) == call.op \in {"put", "delete"} /\ code # "OK"

\* put and tombstone look the conflicting record up; the rest answer at once.
Rereads(call, code) == call.op \in {"put", "delete"} /\ code = "CONFLICT"

\* A call whose commit is not acknowledged is unavailable too.
Store(q) ==
  /\ request[q].state = "store"
  /\ \E outcome \in {Outcome(request[q].call), [code |-> "UNAVAILABLE", records |-> records],
                     [Outcome(request[q].call) EXCEPT !.code = "UNAVAILABLE"]} :
       LET slot == request[q].call.items[1].slot
           gone == {s \in Slots : Present(records[s]) /\ ~Present(outcome.records[s])}
       IN /\ records' = outcome.records
          /\ removals' = [s \in Slots |-> removals[s] + IF s \in gone THEN 1 ELSE 0]
          /\ reader' = [reader EXCEPT !.there = {id \in @ : Present(records'[<<scenario.vault, id>>])}]
          /\ IF Rereads(request[q].call, outcome.code)
             THEN request' = [request EXCEPT ![q].state = "reread", ![q].removals = removals[slot],
                                             ![q].found = records[slot].revision]
             ELSE Answer(q, outcome.code, 0)
  /\ UNCHANGED <<scenario, minute, windows, passed, stray, schemaVars>>

\* conflict_with_authoritative_revision: a second call, in a later moment.
Reread(q) ==
  /\ request[q].state = "reread"
  /\ LET record == records[request[q].call.items[1].slot]
     IN \/ Answer(q, "CONFLICT", record.revision)
        \/ Answer(q, "CONFLICT", 0)
  /\ UNCHANGED <<scenario, minute, windows, passed, stray, records, removals, reader, schemaVars>>

VaultRemovals == [id \in Ids |-> removals[<<scenario.vault, id>>]]

\* A client's loop over the pages of one listing.
ReadPage ==
  /\ reader.state = "reading"
  /\ api.state = "serving"
  /\ LET page == Page(scenario.vault, scenario.pageSize, reader.offset)
         there == Listed(scenario.vault)
     IN reader' = [reader EXCEPT
          !.seen = @ \cup page,
          !.there = IF reader.offset = 0 THEN there ELSE @,
          !.removals = IF reader.offset = 0 THEN VaultRemovals ELSE @,
          !.offset = @ + scenario.pageSize,
          !.state = IF Truncated(page, scenario.pageSize) THEN "reading" ELSE "read"]
  /\ UNCHANGED <<scenario, minute, windows, passed, stray, records, removals, request, schemaVars>>

Next ==
  \/ Tick \/ ReadPage
  \/ \E q \in Requests : \/ \E call \in scenario.calls : Arrive(q, call)
                         \/ Limit(q) \/ Store(q) \/ Reread(q)
  \/ /\ SchemaNext
     /\ UNCHANGED <<scenario, minute, windows, passed, stray, records, removals, request, reader>>

Spec == Init /\ [][Next]_vars

-----------------------------------------------------------------------------
(* Type invariant: records have revisions or are empty, windows count for  *)
(* a minute the clock has shown, and no error is answered as a success.    *)
TypeOK ==
  /\ records \in Contents
  /\ \A slot \in Slots : records[slot].dead => Present(records[slot])
  /\ \A ip \in Ips : windows[ip].minute <= minute
  /\ \A q \in Requests : request[q].state = "done" =>
       (Status(request[q].code) = 200 <=> request[q].code = "OK")

(* At most the limit of an address's requests pass in a minute, and at most *)
(* that many more for every request whose minute was over when it entered  *)
(* the window: allow reads the clock before it locks the map.              *)
RateHeld ==
  \A ip \in Ips : \A m \in Minutes :
    scenario.limit > 0 => passed[ip][m] <= scenario.limit * (1 + stray[ip])

(* The revision a conflict names is not the one the request expected,      *)
(* unless the record was removed after the store had refused or had not    *)
(* reached that revision yet: a client that resolves against it does not   *)
(* repeat the write it already sent                                        *)
(* (conflict_with_authoritative_revision, read in a second store call).    *)
ConflictNamesOther ==
  \A q \in Requests :
    LET r == request[q]
        item == r.call.items[1]
    IN r.state = "done" /\ r.code = "CONFLICT" /\ {r.revision} = item.expected =>
         removals[item.slot] > r.removals \/ r.found < r.revision

(* A client that pages until a page is not full has seen every record that *)
(* was there throughout, unless a purge or a rekey took records of the     *)
(* vault while it was reading (list_records: ORDER BY, LIMIT, OFFSET).     *)
PagesComplete ==
  reader.state = "read" /\ VaultRemovals = reader.removals => reader.there \subseteq reader.seen

(* No minute lets more than the limit of one address through.              *)
LimitPerMinute ==
  \A ip \in Ips : \A m \in Minutes : scenario.limit > 0 => passed[ip][m] <= scenario.limit

(* A client that pages to the end has seen all that was there throughout.  *)
PagesAlwaysComplete == reader.state = "read" => reader.there \subseteq reader.seen

(* An answer that may be repeated at once has changed nothing.             *)
RetryMeansUndone ==
  [][\A q \in Requests :
       request[q].state # "done" /\ request'[q].state = "done"
         /\ RetryClass(request'[q].code) = "immediate" => records' = records]_vars

=============================================================================
