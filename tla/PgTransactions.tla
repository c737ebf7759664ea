--------------------------- MODULE PgTransactions ---------------------------
(***************************************************************************)
(* PostgresStore, the restore service and the worker's sweep as sessions   *)
(* of one PostgreSQL database at READ COMMITTED: a statement sees what is  *)
(* committed and what its own transaction wrote, a row another session has *)
(* written makes it wait, and SELECT ... FOR UPDATE locks no missing row.  *)
(* Every session makes one call.  A stamp is 0 (NULL), older or Now.       *)
(***************************************************************************)
EXTENDS Naturals, FiniteSets, Sequences

CONSTANTS
  Vaults, Ids,  \* scopes, and the ids of records within one
  Sessions,     \* each one pooled connection of some process
  Calls,        \* the calls a session may make
  Starts,       \* the committed rows a behaviour may begin with
  Now           \* the clock that stamps a deletion

VARIABLES
  rows,    \* the committed rows
  held,    \* which session has written or locked the row of a slot
  session

vars == <<rows, held, session>>

Slots == Vaults \X Ids

Row == [revision : Nat, dead : BOOLEAN, stamp : 0..Now]

NoRow == [revision |-> 0, dead |-> FALSE, stamp |-> 0]

Present(row) == row.revision > 0

Nobody == "nobody"

\* No row written yet.
Unwritten == [slot \in {} |-> NoRow]

-----------------------------------------------------------------------------
(* Calls.  An expected revision is a set, {} where the code has None.       *)

Item(slot, expected, dead, revision) ==
  [slot |-> slot, expected |-> expected, dead |-> dead, revision |-> revision]

Call(op, items, from, to, cutoff) ==
  [op |-> op, items |-> items, from |-> from, to |-> to, cutoff |-> cutoff]

\* put is put_batch with one record.
Put(slot, expected, dead, revision) ==
  Call("write", <<Item(slot, expected, dead, revision)>>, slot[1], slot[1], 0)

Tombstone(slot, expected) ==
  Call("tombstone", <<Item(slot, {expected}, TRUE, 1)>>, slot[1], slot[1], 0)

\* validate refuses revision 0; its other conditions are on opaque fields.
Valid(call) ==
  /\ call.op \in {"write", "rekey"} =>
       \A i \in DOMAIN call.items : call.items[i].revision > 0
  /\ call.op = "rekey" => call.to # call.from

Items == [slot : Slots, expected : SUBSET Nat, dead : BOOLEAN, revision : Nat]

\* rekey_vault puts its records into the new scope, a delete names one record,
\* restore and the schema's CHECK refuse a revision of 0.
CallOK(call) ==
  /\ call \in [op : {"write", "tombstone", "rekey", "purge", "sweep", "import"},
              items : Seq(Items), from : Vaults, to : Vaults, cutoff : Nat]
  /\ call.op = "tombstone" => Len(call.items) = 1
  /\ call.op = "rekey" => \A i \in DOMAIN call.items : call.items[i].slot[1] = call.to
  /\ call.op = "import" => \A i \in DOMAIN call.items : call.items[i].revision > 0

ASSUME PgTransactionsAssumption ==
  /\ Now \in Nat \ {0}
  /\ Nobody \notin Sessions
  /\ Calls # {} /\ \A call \in Calls : CallOK(call)
  /\ Starts \subseteq [Slots -> Row]
  /\ \A start \in Starts : \A slot \in Slots : Present(start[slot]) \/ start[slot] = NoRow

-----------------------------------------------------------------------------
(* What a session sees and may touch.                                      *)

Visible(c, slot) ==
  IF slot \in DOMAIN session[c].own THEN session[c].own[slot] ELSE rows[slot]

Free(c, slot) == held[slot] \in {c, Nobody}

Prior(revision) == IF revision > 0 THEN {revision} ELSE {}

\* UPDATE_RECORD keeps the stamp of a row that is written dead.
Updated(row, item) ==
  [revision |-> row.revision + 1, dead |-> item.dead,
   stamp |-> IF item.dead THEN row.stamp ELSE 0]

Buried(row) == [revision |-> row.revision + 1, dead |-> TRUE, stamp |-> Now]

\* INSERT_RECORD sets no stamp; rekey_vault stamps what arrives dead.
Inserted(call, item) ==
  [revision |-> IF call.op = "import" THEN item.revision ELSE 1,
   dead |-> item.dead,
   stamp |-> IF call.op = "rekey" /\ item.dead THEN Now ELSE 0]

\* The rows a purge's DELETE takes, and a rekey's.
Doomed(call, row) ==
  IF call.op = "rekey" THEN Present(row)
  ELSE row.dead /\ row.stamp # 0 /\ row.stamp <= call.cutoff

-----------------------------------------------------------------------------
Init ==
  /\ rows \in Starts
  /\ held = [slot \in Slots |-> Nobody]
  /\ session = [c \in Sessions |->
       [state |-> "idle", call |-> CHOOSE call \in Calls : TRUE,
        at |-> 1, own |-> Unwritten, targets |-> {}, left |-> {}, answer |-> "none"]]

Go(c, s) == session' = [session EXCEPT ![c] = s]

\* Mistake: a connection goes back to the pool inside its transaction.
ReleasedNever(c) == held

\* Dropping the transaction rolls it back.
Released(c) == [slot \in Slots |-> IF held[slot] = c THEN Nobody ELSE held[slot]]

Fail(c, answer) ==
  /\ Go(c, [session[c] EXCEPT !.state = "done", !.answer = answer, !.own = Unwritten,
                              !.targets = {}, !.left = {}])
  /\ held' = Released(c)
  /\ UNCHANGED rows

\* After its last item a rekey deletes the old scope, a batch commits.
LastStep(call) == IF call.op = "rekey" THEN "scan" ELSE "commit"

FirstStep(call) ==
  CASE call.op = "purge" -> "scan"
    [] call.op = "sweep" -> "vaults"
    [] call.op = "import" /\ call.items # <<>> -> "insert"
    [] call.op \in {"write", "tombstone", "rekey"} /\ call.items # <<>> -> "select"
    [] OTHER -> LastStep(call)

Begin(c, call) ==
  /\ session[c].state = "idle"
  /\ IF Valid(call)
     THEN /\ Go(c, [session[c] EXCEPT !.call = call, !.state = FirstStep(call),
                      !.left = IF call.op = "purge" THEN {call.from} ELSE {}])
          /\ UNCHANGED <<rows, held>>
     ELSE Fail(c, "invalid")

Current(c) == session[c].call.items[session[c].at]

\* The item is done: go on with the next, the DELETE of a rekey, or COMMIT.
Advance(c, own) ==
  LET call == session[c].call
      last == session[c].at = Len(call.items)
  IN /\ Go(c, [session[c] EXCEPT !.own = own, !.at = @ + 1,
                 !.state = IF last THEN LastStep(call) ELSE FirstStep(call)])
     /\ UNCHANGED rows

\* The uncommitted rows once one more is written.
With(own, slot, row) ==
  [s \in DOMAIN own \cup {slot} |-> IF s = slot THEN row ELSE own[s]]

Write(c, row) ==
  LET slot == Current(c).slot
  IN /\ Advance(c, With(session[c].own, slot, row))
     /\ held' = [held EXCEPT ![slot] = c]

Selecting(c, op) ==
  /\ session[c].state = "select"
  /\ session[c].call.op = op
  /\ Present(Visible(c, Current(c).slot)) => Free(c, Current(c).slot)

GoInsert(c) == Go(c, [session[c] EXCEPT !.state = "insert"]) /\ UNCHANGED <<rows, held>>

\* The comparison of put and put_batch, and the UPDATE of an existing row.
CompareAndWrite(c) ==
  LET item == Current(c)
      row == Visible(c, item.slot)
  IN \/ Prior(row.revision) # item.expected /\ Fail(c, "conflict")
     \/ Prior(row.revision) = item.expected /\ Present(row) /\ Write(c, Updated(row, item))
     \/ Prior(row.revision) = item.expected /\ ~Present(row) /\ GoInsert(c)

\* Mistake: the SELECT without FOR UPDATE.
SelectWriteUnlocked(c) ==
  session[c].state = "select" /\ session[c].call.op = "write" /\ CompareAndWrite(c)

\* put and put_batch: SELECT ... FOR UPDATE waits for the row and keeps it.
SelectWrite(c) == Selecting(c, "write") /\ CompareAndWrite(c)

SelectTombstone(c) ==
  /\ Selecting(c, "tombstone")
  /\ LET item == Current(c)
         row == Visible(c, item.slot)
     IN \/ ~Present(row) /\ Fail(c, "not_found")
        \/ Present(row) /\ Prior(row.revision) # item.expected /\ Fail(c, "conflict")
        \/ Present(row) /\ Prior(row.revision) = item.expected /\ Write(c, Buried(row))

\* rekey_vault refuses a target that exists.
SelectRekey(c) ==
  /\ Selecting(c, "rekey")
  /\ IF Present(Visible(c, Current(c).slot)) THEN Fail(c, "conflict") ELSE GoInsert(c)

\* INSERT waits for another session's row of the key; once there is one, the
\* primary key refuses it, and restore's ON CONFLICT DO NOTHING skips it.
Insert(c) ==
  /\ session[c].state = "insert"
  /\ LET item == Current(c)
         row == Visible(c, item.slot)
         call == session[c].call
     IN /\ Free(c, item.slot)
        /\ \/ ~Present(row) /\ Write(c, Inserted(call, item))
           \/ Present(row) /\ call.op = "import" /\ Advance(c, session[c].own) /\ UNCHANGED held
           \/ Present(row) /\ call.op # "import" /\ Fail(c, "unavailable")

\* vault_ids: the scopes the worker's sweep will walk.
ReadVaults(c) ==
  /\ session[c].state = "vaults"
  /\ LET found == {v \in Vaults : \E id \in Ids : Present(rows[<<v, id>>])}
     IN IF found = {} THEN Fail(c, "ok")
        ELSE /\ Go(c, [session[c] EXCEPT !.left = found, !.state = "scan"])
             /\ UNCHANGED <<rows, held>>

\* A DELETE finds its rows when it begins ...
Scan(c, vault) ==
  /\ session[c].state = "scan"
  /\ vault \in IF session[c].call.op = "rekey" THEN {session[c].call.from}
               ELSE session[c].left
  /\ Go(c, [session[c] EXCEPT !.state = "delete", !.left = @ \ {vault},
       !.targets = {slot \in {vault} \X Ids : Doomed(session[c].call, Visible(c, slot))}])
  /\ UNCHANGED <<rows, held>>

\* ... and takes each if it still qualifies once no other session holds it.
Delete(c, slot) ==
  /\ session[c].state = "delete"
  /\ slot \in session[c].targets
  /\ Free(c, slot)
  /\ LET takes == Doomed(session[c].call, Visible(c, slot))
     IN /\ Go(c, [session[c] EXCEPT !.targets = @ \ {slot},
                                    !.own = IF takes THEN With(@, slot, NoRow) ELSE @])
        /\ held' = IF takes THEN [held EXCEPT ![slot] = c] ELSE held
  /\ UNCHANGED rows

Committing(c) ==
  \/ session[c].state = "commit"
  \/ session[c].state = "delete" /\ session[c].targets = {}

\* The answer to COMMIT may be lost; a sweep goes on to its next vault.
Commit(c) ==
  /\ Committing(c)
  /\ rows' = [slot \in Slots |-> Visible(c, slot)]
  /\ held' = Released(c)
  /\ \E answer \in {"ok", "unavailable"} :
       Go(c, [session[c] EXCEPT !.own = Unwritten, !.answer = answer,
                !.state = IF answer = "ok" /\ session[c].left # {} THEN "scan" ELSE "done",
                !.left = IF answer = "ok" THEN @ ELSE {}])

Statement(c) ==
  \/ SelectWrite(c) \/ SelectTombstone(c) \/ SelectRekey(c)
  \/ Insert(c) \/ ReadVaults(c) \/ Commit(c)
  \/ \E vault \in Vaults : Scan(c, vault)
  \/ \E slot \in Slots : Delete(c, slot)

Waiting(c) == ~ENABLED Statement(c)

\* Mistake: no statement timeout, so a wait goes on.
AbortUntimed(c) ==
  /\ session[c].state \notin {"idle", "done"}
  /\ ~Waiting(c)
  /\ Fail(c, "unavailable")

\* No connection, a lost one, or the server cancels the statement.
Abort(c) ==
  /\ session[c].state \notin {"idle", "done"}
  /\ Fail(c, "unavailable")

Next ==
  \E c \in Sessions :
    \/ \E call \in Calls : Begin(c, call)
    \/ Statement(c)
    \/ Abort(c)

\* Sessions run on, and statement_timeout or the deadlock detector ends a wait.
Fairness ==
  \A c \in Sessions :
    /\ WF_vars(Statement(c))
    /\ WF_vars(Waiting(c) /\ Abort(c))

Spec == Init /\ [][Next]_vars /\ Fairness

-----------------------------------------------------------------------------
(* Type invariant: rows are rows, every lock belongs to a session that     *)
(* still runs, only a running session has uncommitted writes, and no two   *)
(* have written the same row.                                              *)
TypeOK ==
  /\ rows \in [Slots -> Row]
  /\ \A slot \in Slots : held[slot] # Nobody =>
       session[held[slot]].state \notin {"idle", "done"}
  /\ \A c \in Sessions : session[c].state \in {"idle", "done"} => session[c].own = Unwritten
  /\ \A c, d \in Sessions :
       c # d => DOMAIN session[c].own \cap DOMAIN session[d].own = {}

\* What the first n items of a batch leave in a slot of a table.
Effect(table, items, n, slot) ==
  LET mine == {i \in 1..n : items[i].slot = slot}
      row == table[slot]
  IN IF mine = {} THEN row
     ELSE [revision |-> row.revision + Cardinality(mine),
           dead     |-> \E i \in mine : items[i].dead /\ \A j \in mine : j <= i,
           stamp    |-> IF \A i \in mine : items[i].dead THEN row.stamp ELSE 0]

\* Every comparison passes against what the items before it left.
Accepted(table, items, n) ==
  \A i \in 1..n :
    Prior(Effect(table, items, i - 1, items[i].slot).revision) = items[i].expected

\* Session c's COMMIT does what its call by itself does to the committed rows.
AsIfAlone(c) ==
  LET call == session[c].call
      n == Len(call.items)
  IN CASE call.op = "write" ->
            /\ Accepted(rows, call.items, n)
            /\ rows' = [slot \in Slots |-> Effect(rows, call.items, n, slot)]
       [] call.op = "tombstone" ->
            LET item == call.items[1]
            IN /\ Prior(rows[item.slot].revision) = item.expected
               /\ rows' = [rows EXCEPT ![item.slot] = Buried(@)]
       [] call.op \in {"purge", "sweep"} ->
            \A slot \in Slots : rows'[slot] # rows[slot] =>
              /\ rows[slot].dead
              /\ rows[slot].stamp \in 1..call.cutoff
              /\ rows'[slot] = NoRow
       [] OTHER -> \* rekey and import take no existing row's place
            \A i \in DOMAIN call.items : LET slot == call.items[i].slot IN
              rows'[slot] # rows[slot] => ~Present(rows[slot])

(* What a transaction commits is what its call does to the committed rows  *)
(* by itself, with every comparison passing against them: however the      *)
(* statements of put, put_batch, tombstone, purge and the sweep interleave *)
(* with those of other sessions, no accepted write rests on a stale read   *)
(* (lib.rs: SELECT_REVISION's FOR UPDATE, DELETE's condition).             *)
AcceptedAsIfAlone == [][\A c \in Sessions : Commit(c) => AsIfAlone(c)]_vars

\* The committed rows as the contract has them.
Committed == [slot \in Slots |-> [revision |-> rows[slot].revision, dead |-> rows[slot].dead]]

Contract == INSTANCE OpaqueStore WITH records <- Committed

(* Every transaction but a rekey's is one step of the contract's store,    *)
(* and nothing else changes what is committed (lib.rs: impl OpaqueStore    *)
(* for PostgresStore; RekeyEmptiesScope below is why a rekey's is not).    *)
TransactionsKeepContract ==
  [][Contract!Next \/ \E c \in Sessions : Commit(c) /\ session[c].call.op = "rekey"]_Committed

(* Every call that has begun is answered: two batches that wait for each   *)
(* other's rows, a purge behind a put, an insert behind an insert          *)
(* (lib.rs: open_connection's statement_timeout, the drop of a Transaction *)
(* on every early return).                                                 *)
EveryCallReturns ==
  \A c \in Sessions : session[c].state # "idle" ~> session[c].state = "done"

(* rekey_vault leaves nothing under the old scope.                         *)
RekeyEmptiesScope ==
  [][\A c \in Sessions : Commit(c) /\ session[c].call.op = "rekey" =>
       \A id \in Ids : rows'[<<session[c].call.from, id>>] = NoRow]_vars

(* A put that meets another first write of its record answers Conflict.    *)
FirstWriteConflicts ==
  [][\A c \in Sessions : Insert(c) /\ session'[c].state = "done" =>
       session'[c].answer = "conflict"]_vars

(* Every tombstone carries the stamp that lets a purge take it.            *)
TombstonesExpire == \A slot \in Slots : rows[slot].dead => rows[slot].stamp # 0

=============================================================================
