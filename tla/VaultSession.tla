---------------------------- MODULE VaultSession ----------------------------
(***************************************************************************)
(* One page of the web client on one vault: unlock, lock, the change of    *)
(* the Master Password and the deletion of the vault everywhere.  A vault  *)
(* without wrappers is sealed under a key derived from the password and    *)
(* its salt, so changing the password moves every row to a new salt in one *)
(* request; the device marks that move before it asks for it, and the next *)
(* unlock finds out whether it happened.                                   *)
(*                                                                         *)
(* A ceremony keeps its place between two requests, in which the page can  *)
(* lock or be reloaded.  Reads are handled as they are served.  The vault  *)
(* has one entry.  Recovery wrappers are left to VaultKeys, where the      *)
(* compare-and-set of wrappers is a step of its own, and the queue of      *)
(* offline writes to DeviceSync.                                           *)
(***************************************************************************)
EXTENDS Naturals

CONSTANTS
  Salts,        \* vault scopes; a rekey draws one that was never used
  Passwords,    \* what the user types
  Tasks,        \* ceremonies the page can have in flight
  NoSalt,
  Starts,       \* of "bare" (no wrappers, no kit), "legacy" (no wrappers yet), "wrapped"
  Mishaps,      \* of the names below: what may strike in addition
  MaxRevision,  \* bound: writes to one row before its deletion
  MaxEdits      \* bound: contents of the entry

\* overlap  a ceremony or an edit begins while another ceremony is in flight
\* lost     the answer to a rekey is lost, or the request is served later
\* probe    the network fails while an unlock asks for the marked scope
\* typo     an unlock that rests on the typed password is given a wrong one
\* other    another device edits the entry
MishapNames == {"overlap", "lost", "probe", "typo", "other"}

ASSUME VaultSessionAssumption ==
  /\ Salts # {} /\ NoSalt \notin Salts
  /\ Passwords # {}
  /\ Starts \subseteq {"bare", "legacy", "wrapped"}
  /\ Mishaps \subseteq MishapNames
  /\ MaxRevision \in Nat \ {0}
  /\ MaxEdits \in Nat

VARIABLES
  rows,     \* the service: the verifier, the password wrapper and the entry in every scope
  meta,     \* vault.meta, in memory and in local storage
  key,      \* recordSync.rootKey
  screen,   \* "open", "locked", or "asked" once a password is typed
  task,     \* the ceremonies in flight
  late,     \* rekey requests the page gave up on and the service may still serve
  acked,    \* the entry as the user last saved, trashed or restored it
  used,     \* salts drawn so far
  wiping,   \* a deletion of the vault everywhere has tombstoned a row
  struck    \* the mishaps that have struck

vars == <<rows, meta, key, screen, task, late, acked, used, wiping, struck>>

Ids == {"entry", "verifier", "wrapper"}

VaultKey == <<"random">>
NoKey == <<"none">>
Derived(pw, salt) == <<"derived", pw, salt>>
Keys == {VaultKey} \cup {Derived(pw, s) : pw \in Passwords, s \in Salts}

\* What a row is sealed under, or for a wrapper the key it holds and the
\* password that opens it.  Revision 0 is a row the service does not have.
NoRow == [revision |-> 0, dead |-> FALSE, key |-> NoKey, pw |-> "none", edit |-> 0]
Empty == [id \in Ids |-> NoRow]
Sealed(k, edit) == [NoRow EXCEPT !.revision = 1, !.key = k, !.edit = edit]
Wrapped(row, k, pw) == [NoRow EXCEPT !.revision = row.revision + 1, !.key = k, !.pw = pw]

Present(row) == row.revision > 0
Live(row) == Present(row) /\ ~row.dead

NoMeta == [salt |-> NoSalt, pending |-> NoSalt, kit |-> FALSE]

Idle == [kind |-> "none", step |-> "none", pw |-> "none", next |-> "none",
         prev |-> NoKey, key |-> NoKey, from |-> NoSalt, to |-> NoSalt,
         seen |-> Empty, left |-> {}]

Doing(t, kind, step) == task[t].kind \in kind /\ task[t].step = step /\ meta # NoMeta

Goto(t, step) == task' = [task EXCEPT ![t].step = step]
End(t) == task' = [task EXCEPT ![t] = Idle]

Quiet == \A t \in Tasks : task[t] = Idle

Strike(names) == names \subseteq Mishaps /\ struck' = struck \cup names
Crowded == IF Quiet THEN {} ELSE {"overlap"}

history == <<wiping, struck>>
server == <<rows, late, acked, used>>

-----------------------------------------------------------------------------
(* What a key and a password are worth.                                    *)

\* verifyRootKey: the first live candidate decides, none accepts any key.
Accepts(k, scope) ==
  IF Live(scope["verifier"]) THEN scope["verifier"].key = k
  ELSE Live(scope["entry"]) => scope["entry"].key = k

\* fetchAll: the key is verified and every live entry decrypted.
Hydrates(k, scope) ==
  Accepts(k, scope) /\ (Live(scope["entry"]) => scope["entry"].key = k)

\* The key an unlock with pw would use.
Unlocks(pw, s) ==
  LET wrapper == rows[s]["wrapper"]
  IN  IF ~Live(wrapper) THEN Derived(pw, s)
      ELSE IF wrapper.pw = pw THEN wrapper.key ELSE NoKey

\* The scope holds the vault as the user left it, and pw unlocks it.
Whole(pw, s) ==
  /\ Live(rows[s]["verifier"])
  /\ rows[s]["verifier"].key = Unlocks(pw, s)
  /\ rows[s]["entry"].edit = acked.edit
  /\ rows[s]["entry"].dead = acked.dead
  /\ Present(rows[s]["entry"]) => rows[s]["entry"].key = Unlocks(pw, s)

\* resolvePendingRekey takes a scope for committed when its verifier, or else
\* its first record, opens under the key.
Committed(k, s) ==
  \/ Present(rows[s]["verifier"]) /\ rows[s]["verifier"].key = k
  \/ /\ ~Present(rows[s]["verifier"])
     /\ Present(rows[s]["entry"]) /\ rows[s]["entry"].key = k

\* An unlock rests on the typed password where no record checks it: to tell
\* whether a marked scope is the vault, and to write a first wrapper.
TypedRight(pw) ==
  /\ meta.pending # NoSalt /\ rows[meta.pending] # Empty =>
       Committed(Derived(pw, meta.pending), meta.pending)
  /\ meta.kit /\ ~Live(rows[meta.salt]["wrapper"]) /\ ~wiping =>
       rows[meta.salt]["verifier"].key = Derived(pw, meta.salt)

Found(pw) == \E s \in {meta.salt, meta.pending} \ {NoSalt} : Whole(pw, s)

-----------------------------------------------------------------------------
(* Ceremonies begin at a button.                                           *)

Begin(t, kind, step, pw, next) ==
  /\ task[t] = Idle
  /\ meta # NoMeta
  /\ task' = [task EXCEPT ![t] = [Idle EXCEPT !.kind = kind, !.step = step, !.pw = pw,
                                              !.next = next, !.prev = key,
                                              !.to = IF step = "probe" THEN meta.pending
                                                     ELSE NoSalt]]
  /\ UNCHANGED <<meta, server>>

\* The unlock button; with a marker resolvePendingRekey comes first and tries
\* the password on the marked scope.
Unlock(t, pw) ==
  /\ screen # "open"
  /\ meta # NoMeta
  /\ Strike(Crowded \cup IF TypedRight(pw) THEN {} ELSE {"typo"})
  /\ screen' = "asked"
  /\ IF meta.pending = NoSalt
     THEN Begin(t, "unlock", "open", pw, pw) /\ UNCHANGED key
     ELSE Begin(t, "unlock", "probe", pw, pw) /\ key' = Derived(pw, meta.pending)
  /\ UNCHANGED wiping

VerifyPassword(t, pw) ==
  /\ screen = "open"
  /\ Strike(Crowded)
  /\ Begin(t, "verify", "open", pw, pw)
  /\ UNCHANGED <<key, screen, wiping>>

ChangeMasterPassword(t, pw, next) ==
  /\ screen = "open"
  /\ Strike(Crowded)
  /\ Begin(t, "change", "look", pw, next)
  /\ UNCHANGED <<key, screen, wiping>>

DeleteEverywhere(t) ==
  /\ screen = "open"
  /\ Strike(Crowded)
  /\ Begin(t, "reset", "list all", "none", "none")
  /\ UNCHANGED <<key, screen, wiping>>

-----------------------------------------------------------------------------
(* Unlock, verifyPassword and the change of a wrapped vault's password.    *)

\* resolvePendingRekey: whatever the answer the marker goes.
Resolve(t) ==
  /\ Doing(t, {"unlock"}, "probe")
  /\ \E unheard \in SUBSET {"probe"} :
       /\ Strike(unheard)
       /\ meta' = [meta EXCEPT !.pending = NoSalt,
                               !.salt = IF unheard = {} /\ Committed(key, task[t].to)
                                        THEN task[t].to ELSE @]
  /\ key' = task[t].prev
  /\ task' = [task EXCEPT ![t].step = "open", ![t].to = NoSalt]
  /\ UNCHANGED <<server, screen, wiping>>

\* unlockViaWrappers: without a live wrapper the vault counts as one from
\* before wrappers, and a device with a kit writes them.  verifyPassword puts
\* the key of the session back as soon as its password has opened.
OpenPassword(t) ==
  /\ Doing(t, {"unlock", "verify", "change"}, "open")
  /\ LET wrapper == rows[meta.salt]["wrapper"]
         opened == Unlocks(task[t].pw, meta.salt)
         writes == ~Live(wrapper) /\ meta.kit
     IN  IF opened = NoKey THEN End(t) /\ UNCHANGED key
         ELSE /\ key' = IF task[t].kind = "verify" /\ ~writes THEN task[t].prev ELSE opened
              /\ IF task[t].kind = "verify" /\ ~writes THEN End(t)
                 ELSE task' = [task EXCEPT
                        ![t].key = opened,
                        ![t].step = IF writes THEN "put legacy"
                                    ELSE IF task[t].kind = "unlock" THEN "fetch"
                                    ELSE "put wrapper"]
  /\ UNCHANGED <<server, meta, screen, history>>

\* ensureWrappers writes over whatever row there is: a conflict with a row it
\* did not know of is retried with that row's revision.
PutWrapper(t, pw) ==
  /\ rows[meta.salt]["wrapper"].revision < MaxRevision
  /\ rows' = [rows EXCEPT ![meta.salt]["wrapper"] = Wrapped(@, task[t].key, pw)]
  /\ UNCHANGED <<meta, screen, late, acked, used, history>>

PutLegacyWrapper(t) ==
  /\ Doing(t, {"unlock", "verify", "change"}, "put legacy")
  /\ PutWrapper(t, task[t].pw)
  /\ IF task[t].kind = "verify" THEN key' = task[t].prev /\ End(t)
     ELSE /\ UNCHANGED key
          /\ Goto(t, IF task[t].kind = "unlock" THEN "fetch" ELSE "put wrapper")

\* The last step of a wrapped vault's change; after a rekey the entries follow.
PutNextWrapper(t) ==
  /\ Doing(t, {"change"}, "put wrapper")
  /\ PutWrapper(t, task[t].next)
  /\ IF task[t].to # NoSalt THEN Goto(t, "fetch") /\ UNCHANGED key
     ELSE End(t) /\ key' = IF task[t].prev = NoKey THEN task[t].key ELSE task[t].prev

\* fetchAll; the vault opens when it has everything.
Fetch(t) ==
  /\ Doing(t, {"unlock", "change"}, "fetch")
  /\ screen' = IF task[t].kind = "unlock" /\ Hydrates(key, rows[meta.salt]) THEN "open"
               ELSE screen
  /\ End(t)
  /\ UNCHANGED <<server, meta, key, history>>

-----------------------------------------------------------------------------
(* changeMasterPassword of a vault without wrappers.                       *)

HasPasswordWrap(t) ==
  /\ Doing(t, {"change"}, "look")
  /\ IF Live(rows[meta.salt]["wrapper"])
     THEN task' = [task EXCEPT ![t].step = "open", ![t].prev = key] /\ UNCHANGED key
     ELSE /\ key' = Derived(task[t].pw, meta.salt)
          /\ task' = [task EXCEPT ![t].step = "check", ![t].prev = key]
  /\ UNCHANGED <<server, meta, screen, history>>

\* The current password is proved with the session's key set aside.
Check(t) ==
  /\ Doing(t, {"change"}, "check")
  /\ IF Accepts(key, rows[meta.salt]) THEN Goto(t, "list") ELSE End(t)
  /\ key' = task[t].prev
  /\ UNCHANGED <<server, meta, screen, history>>

List(t) ==
  /\ Doing(t, {"change"}, "list")
  /\ task' = [task EXCEPT ![t].step = "read", ![t].seen = rows[meta.salt]]
  /\ UNCHANGED <<server, meta, key, screen, history>>

\* Every listed row is still there, and all but the verifier decrypt.
Readable(t) ==
  /\ \A id \in Ids : Present(task[t].seen[id]) => Present(rows[meta.salt][id])
  /\ ~Present(task[t].seen["wrapper"])
  /\ Present(task[t].seen["entry"]) => rows[meta.salt]["entry"].key = key

\* The rows of the new scope: bodies as they were read, flags as listed.
Resealed(t, k) ==
  [id \in Ids |->
    IF ~Present(task[t].seen[id]) THEN NoRow
    ELSE [Sealed(k, rows[meta.salt][id].edit) EXCEPT !.dead = task[t].seen[id].dead]]

\* Mutant: the request goes out before the marker is stored.
MarkedNever(to) == meta

\* The intent, stored before the request.
Marked(to) == [meta EXCEPT !.pending = to]

\* Everything is sealed for a fresh salt and the marker is stored.
Read(t, to) ==
  /\ Doing(t, {"change"}, "read")
  /\ IF Readable(t)
     THEN LET next == Derived(task[t].next, to)
          IN  /\ to \in Salts \ used
              /\ used' = used \cup {to}
              /\ key' = next
              /\ meta' = Marked(to)
              /\ task' = [task EXCEPT ![t].step = "post", ![t].from = meta.salt, ![t].to = to,
                                      ![t].key = next, ![t].seen = Resealed(t, next)]
     ELSE End(t) /\ UNCHANGED <<meta, key, used>>
  /\ UNCHANGED <<rows, late, acked, screen, history>>

\* The service inserts the new scope and deletes the old one.
Rekey(from, to, moved) == rows' = [rows EXCEPT ![from] = Empty, ![to] = moved]

ServePost(t) ==
  /\ Doing(t, {"change"}, "post")
  /\ Rekey(task[t].from, task[t].to, task[t].seen)
  /\ Goto(t, "adopt")
  /\ UNCHANGED <<meta, key, screen, late, acked, used, history>>

\* Mutant: the key of the new scope stays.
PutBackNot(t) == key

PutBack(t) == task[t].prev

\* "The server never committed": the key goes back and the marker goes.
Catch(t) ==
  /\ key' = PutBack(t)
  /\ meta' = [meta EXCEPT !.pending = NoSalt]
  /\ End(t)

\* The request does not reach the service.
FailPost(t) ==
  /\ Doing(t, {"change"}, "post")
  /\ Catch(t)
  /\ UNCHANGED <<server, screen, history>>

\* The request is on its way when the page stops waiting for it.
LeavesPost(t) ==
  /\ Doing(t, {"change"}, "post")
  /\ late = {}   \* bound: one late request
  /\ late' = {[from |-> task[t].from, to |-> task[t].to, moved |-> task[t].seen]}

\* The page hears nothing of a request that is on its way or already served.
LosePost(t) ==
  /\ Strike({"lost"})
  /\ \/ LeavesPost(t)
     \/ Doing(t, {"change"}, "adopt") /\ UNCHANGED late
  /\ Catch(t)
  /\ UNCHANGED <<rows, acked, used, screen, wiping>>

ServeLate ==
  /\ \E r \in late : Rekey(r.from, r.to, r.moved) /\ late' = late \ {r}
  /\ UNCHANGED <<meta, key, screen, task, acked, used, history>>

Adopt(t) ==
  /\ Doing(t, {"change"}, "adopt")
  /\ meta' = [meta EXCEPT !.salt = task[t].to, !.pending = NoSalt]
  /\ key' = task[t].key
  /\ Goto(t, IF meta.kit THEN "put wrapper" ELSE "fetch")
  /\ UNCHANGED <<server, screen, history>>

-----------------------------------------------------------------------------
(* deleteVaultEverywhere.                                                  *)

ListAll(t) ==
  /\ Doing(t, {"reset"}, "list all")
  /\ task' = [task EXCEPT ![t].step = "tombstone", ![t].seen = rows[meta.salt],
                          ![t].left = {id \in Ids : Live(rows[meta.salt][id])}]
  /\ UNCHANGED <<server, meta, key, screen, history>>

\* Listings are ordered by record id: an entry's may come anywhere.
Ordered(t, id) == id = "wrapper" => "verifier" \notin task[t].left

DeleteRow(t, id) ==
  /\ Doing(t, {"reset"}, "tombstone")
  /\ id \in task[t].left
  /\ Ordered(t, id)
  /\ IF rows[meta.salt][id].revision = task[t].seen[id].revision
     THEN /\ rows' = [rows EXCEPT ![meta.salt][id].revision = @ + 1,
                                  ![meta.salt][id].dead = TRUE]
          /\ task' = [task EXCEPT ![t].left = @ \ {id}]
          /\ wiping' = TRUE
     ELSE End(t) /\ UNCHANGED <<rows, wiping>>
  /\ UNCHANGED <<meta, key, screen, late, acked, used, struck>>

\* Mutant: the device forgets the vault once its rows are tombstoned.
DeletedAllForgets(t) == [task EXCEPT ![t].step = "remove"]

DeletedAll(t) == [task EXCEPT ![t].step = "purge"]

Deleted(t) ==
  /\ Doing(t, {"reset"}, "tombstone")
  /\ task[t].left = {}
  /\ task' = DeletedAll(t)
  /\ UNCHANGED <<server, meta, key, screen, history>>

Purge(t) ==
  /\ Doing(t, {"reset"}, "purge")
  /\ rows' = [rows EXCEPT ![meta.salt] =
                [id \in Ids |-> IF @[id].dead THEN NoRow ELSE @[id]]]
  /\ Goto(t, "remove")
  /\ UNCHANGED <<meta, key, screen, late, acked, used, history>>

\* removeLocalVault, and the page goes back to its first screen.
RemoveLocal(t) ==
  /\ Doing(t, {"reset"}, "remove")
  /\ meta' = NoMeta
  /\ key' = NoKey
  /\ screen' = "locked"
  /\ End(t)
  /\ UNCHANGED <<server, history>>

-----------------------------------------------------------------------------
(* The rest of the page, and the world.                                    *)

\* A save that is answered.
WriteEntry(row) ==
  /\ rows' = [rows EXCEPT ![meta.salt]["entry"] = row]
  /\ acked' = [edit |-> row.edit, dead |-> row.dead]

\* The user saves the entry, moves it to the trash or takes it out.
Edit ==
  /\ screen = "open"
  /\ Strike(Crowded)
  /\ key # NoKey /\ meta # NoMeta
  /\ LET entry == rows[meta.salt]["entry"]
     IN  /\ entry.revision < MaxRevision
         /\ \E dead \in BOOLEAN :
              /\ dead => Live(entry)
              /\ dead \/ entry.dead \/ acked.edit < MaxEdits
              /\ WriteEntry(IF dead \/ entry.dead
                            THEN [entry EXCEPT !.revision = @ + 1, !.dead = dead]
                            ELSE [entry EXCEPT !.revision = @ + 1, !.key = key,
                                               !.edit = acked.edit + 1])
  /\ UNCHANGED <<meta, key, screen, task, late, used, wiping>>

\* Another device saves the entry in the scope it shares with this one, or
\* takes it out of the trash.
OtherEdit ==
  /\ Strike({"other"})
  /\ meta # NoMeta
  /\ Present(rows[meta.salt]["verifier"])
  /\ LET entry == rows[meta.salt]["entry"]
     IN  /\ entry.revision < MaxRevision
         /\ entry.dead \/ acked.edit < MaxEdits
         /\ WriteEntry(IF entry.dead THEN [entry EXCEPT !.revision = @ + 1, !.dead = FALSE]
                       ELSE [entry EXCEPT !.revision = @ + 1, !.edit = acked.edit + 1,
                                          !.key = rows[meta.salt]["verifier"].key])
  /\ UNCHANGED <<meta, key, screen, task, late, used, wiping>>

\* The lock button or the auto-lock: ceremonies in flight go on.
Lock ==
  /\ screen = "open"
  /\ screen' = "locked"
  /\ key' = NoKey
  /\ UNCHANGED <<server, meta, task, history>>

\* A closed page; a rekey that was on its way may be served after it.
Reload ==
  /\ screen' = "locked"
  /\ key' = NoKey
  /\ task' = [t \in Tasks |-> Idle]
  /\ \/ UNCHANGED <<late, struck>>
     \/ Strike({"lost"}) /\ \E t \in Tasks : LeavesPost(t)
  /\ UNCHANGED <<rows, meta, acked, used, wiping>>

\* Any other request fails, or its answer is lost: the ceremony throws.
Fail(t) ==
  /\ task[t].step \notin {"none", "probe", "post", "adopt"}
  /\ key' = IF task[t].step = "check" THEN task[t].prev ELSE key
  /\ End(t)
  /\ UNCHANGED <<server, meta, screen, history>>

-----------------------------------------------------------------------------

FirstSalt == CHOOSE s \in Salts : TRUE
FirstPassword == CHOOSE pw \in Passwords : TRUE

Init ==
  /\ \E start \in Starts :
       LET k == IF start = "wrapped" THEN VaultKey ELSE Derived(FirstPassword, FirstSalt)
       IN  /\ rows = [[s \in Salts |-> Empty] EXCEPT ![FirstSalt] =
                [entry    |-> Sealed(k, 1),
                 verifier |-> Sealed(k, 0),
                 wrapper  |-> IF start = "wrapped" THEN Wrapped(NoRow, k, FirstPassword)
                              ELSE NoRow]]
           /\ meta = [salt |-> FirstSalt, pending |-> NoSalt, kit |-> start # "bare"]
  /\ key = NoKey
  /\ screen = "locked"
  /\ task = [t \in Tasks |-> Idle]
  /\ late = {}
  /\ acked = [edit |-> 1, dead |-> FALSE]
  /\ used = {FirstSalt}
  /\ wiping = FALSE
  /\ struck = {}

Starting(t) ==
  \/ \E pw \in Passwords : Unlock(t, pw)
  \/ \E pw \in Passwords : VerifyPassword(t, pw)
  \/ \E pw, next \in Passwords : ChangeMasterPassword(t, pw, next)
  \/ DeleteEverywhere(t)

Going(t) ==
  \/ Resolve(t)
  \/ OpenPassword(t)
  \/ PutLegacyWrapper(t)
  \/ PutNextWrapper(t)
  \/ Fetch(t)
  \/ HasPasswordWrap(t)
  \/ Check(t)
  \/ List(t)
  \/ \E to \in Salts : Read(t, to)
  \/ ServePost(t)
  \/ FailPost(t)
  \/ LosePost(t)
  \/ Adopt(t)
  \/ ListAll(t)
  \/ \E id \in Ids : DeleteRow(t, id)
  \/ Deleted(t)
  \/ Purge(t)
  \/ RemoveLocal(t)

Next ==
  \/ \E t \in Tasks : Starting(t) \/ Going(t) \/ Fail(t)
  \/ ServeLate
  \/ Edit
  \/ OtherEdit
  \/ Lock
  \/ Reload

Spec == Init /\ [][Next]_vars

-----------------------------------------------------------------------------

Row == [revision : 0 .. MaxRevision + 1, dead : BOOLEAN, key : Keys \cup {NoKey},
        pw : Passwords \cup {"none"}, edit : Nat]

\* Type invariant; a marker never names the scope the device is in.
TypeOK ==
  /\ rows \in [Salts -> [Ids -> Row]]
  /\ meta \in [salt : Salts \cup {NoSalt}, pending : Salts \cup {NoSalt}, kit : BOOLEAN]
  /\ meta # NoMeta => meta.salt \in Salts /\ meta.pending # meta.salt
  /\ key \in Keys \cup {NoKey}
  /\ screen \in {"open", "locked", "asked"}
  /\ DOMAIN task = Tasks
  /\ used \subseteq Salts
  /\ acked \in [edit : Nat, dead : BOOLEAN]
  /\ wiping \in BOOLEAN
  /\ struck \subseteq Mishaps

\* "Lets the next unlock find a committed new scope or prove it never
\* committed": a scope the device knows of, by its salt or its marker, holds
\* the whole vault as the user left it, trash included, and some password
\* unlocks it.  Every mishap breaks this.
VaultKept == ~wiping => \E pw \in Passwords : Found(pw)

\* VaultKept holds wherever the page is closed, locked or refused, for any
\* number of changes, until a mishap strikes.
VaultFound == struck = {} => VaultKept

\* "The session root key is restored either way": while the vault is open and
\* no ceremony runs, the page holds the key of the scope it writes to, so
\* nothing is saved that the next unlock cannot read.  A lost answer or an
\* overlapping ceremony breaks this.
KeyOpens == screen = "open" /\ Quiet /\ ~wiping => key = rows[meta.salt]["verifier"].key

\* KeyOpens holds whatever other devices save, until another mishap strikes.
KeyOpensVault == struck \subseteq {"other"} => KeyOpens

\* What every state of the page keeps: its shape, and the key of its vault.
SessionInv == TypeOK /\ KeyOpensVault

\* "Never silently leaves an unreachable remote vault behind": when the device
\* has forgotten the vault, no scope the vault was ever in holds a row of it.
\* A scope a mishap has orphaned, and rows other devices write after the
\* listing, stay.
TakesWholeVault == meta = NoMeta => rows = [s \in Salts |-> Empty]

\* TakesWholeVault holds for a deletion that fails and is tried again any
\* number of times, after any changes, until a mishap strikes.  The scopes are
\* those the vault was kept or rekeyed in; a recovery wrapper has its own.
ResetTakesWholeVault == struck = {} => TakesWholeVault

\* "Nothing was removed locally, so the vault stays reachable": after a reset
\* that failed, a password still leads to the key of what is left.  Once the
\* password wrapper is tombstoned an unlock takes the vault for an old one.
FailedResetKeepsVault ==
  wiping /\ Quiet /\ meta # NoMeta /\ Present(rows[meta.salt]["entry"]) =>
    \E pw \in Passwords : Unlocks(pw, meta.salt) = rows[meta.salt]["entry"].key

\* "Lock MUST invalidate the active key handle": a locked page has no key until
\* a password is typed.  A ceremony that began before the lock puts one back.
LockedHoldsNoKey == screen = "locked" => key = NoKey

=============================================================================
