----------------------------- MODULE DeviceSync -----------------------------
(***************************************************************************)
(* One entry of a vault as several devices of the web client save, delete, *)
(* restore and list it: the service's row, the copy each device holds in   *)
(* memory, its queue of writes kept while the service was unreachable, and *)
(* the requests in flight.  A request may not arrive, its answer may be    *)
(* lost after the row was written, the service may refuse it without       *)
(* looking (429, 503), and a page may be reloaded at any moment.           *)
(*                                                                         *)
(* Requests about different entries share nothing but the order of a       *)
(* flush, so one entry is enough.  Its contents are the set of user edits  *)
(* they include: an edit is lost when no copy that survives includes it.   *)
(***************************************************************************)
EXTENDS Naturals

CONSTANTS
  Pages,        \* pages with a session on the vault
  Scenarios,    \* what the users do: the devices that create the entry, those that delete
                \* and restore, whether the trash is purged, whether the service may answer
                \* 429 or 503, and how often they edit
  MaxEdits,     \* bound: user edits
  MaxWrites     \* bound: writes to the row

ASSUME DeviceSyncAssumption ==
  /\ MaxEdits \in Nat
  /\ MaxWrites \in Nat \ {0}
  /\ Scenarios \subseteq [creators : SUBSET Pages, deleters : SUBSET Pages,
                          purging : BOOLEAN, busy : BOOLEAN, edits : 0 .. MaxEdits]

VARIABLES
  scenario,   \* the one of Scenarios this behaviour is about
  row,        \* the service's record
  local,      \* each device's item of vault.entries
  offered,    \* the entry behind each device's Restore or Undo button
  queue,      \* pendingQueue of each device, in its local storage
  form,       \* the entry form of each device
  call,       \* the user's request each device waits for
  sync,       \* the flush and listing each device runs beside it
  edits,      \* edits the users have made
  toggles,    \* those of them that are no field of the form
  applied,    \* how often the service has stored each edit's sealed write
  purged      \* the row has been purged at least once

syncVars == <<scenario, row, local, offered, queue, form, call, sync, edits, toggles,
              applied, purged>>

service == <<row, applied, purged>>
user == <<edits, toggles>>

EditIds == 1 .. MaxEdits
Contents == SUBSET EditIds

\* Revision 0 is a row the service does not have.
NoRow == [revision |-> 0, content |-> {}, dead |-> FALSE]

\* Where a copy's revision comes from: with its contents from the service, the
\* literal 1 of an entry not yet stored, the answer to a restore, or a listing
\* that came after the form was filled.
Origins == {"service", "created", "restored", "form"}
NoEntry == [revision |-> 0, content |-> {}, origin |-> "none"]
Locked == [revision |-> 0, content |-> {}, origin |-> "locked"]
Open(d) == local[d] # Locked
Shown(d) == local[d].origin \in Origins

\* A sealed record DTO: expected is expected_prior_revision, 0 when absent.
NoWrite == [edit |-> 0, expected |-> 0, content |-> {}, dead |-> FALSE, origin |-> "none"]

NoCall == [kind |-> "none", write |-> NoWrite, answer |-> "none", attached |-> FALSE]
NoForm == [open |-> FALSE, content |-> {}, attached |-> FALSE]
NoSync == [step |-> "idle", write |-> NoWrite, answer |-> "none", listed |-> NoEntry]

\* A record as vault.entries holds it.
EntryOf(record) == [revision |-> record.revision, content |-> record.content,
                    origin |-> "service"]

-----------------------------------------------------------------------------
(* The service.                                                            *)

\* Mutant: the expected revision only has to be reached.
MatchesLoosely(w) == w.expected <= row.revision

\* put creates a row only without an expected revision and updates it only
\* with the current one; tombstone needs the current one.
Matches(w) == w.expected = row.revision

\* Mutant: a tombstone that drops the ciphertext with the record.
StoredWiped(w) == [revision |-> row.revision + 1, dead |-> w.dead,
                   content |-> IF w.dead THEN {} ELSE w.content]

\* What the row holds afterwards; tombstone keeps the ciphertext.
Stored(w) == [revision |-> row.revision + 1, dead |-> w.dead,
              content |-> IF w.dead THEN row.content ELSE w.content]

\* One more time; twice stands for more.
OnceMore(times) == IF times = 2 THEN 2 ELSE times + 1

Serves(w, answer) ==
  \/ /\ answer \in {"ok", "unreachable"}
     /\ Matches(w)
     /\ row.revision < MaxWrites
     /\ row' = Stored(w)
     /\ UNCHANGED purged
     /\ applied' = [n \in EditIds |-> IF n = w.edit THEN OnceMore(applied[n]) ELSE applied[n]]
  \/ /\ \/ answer = "conflict" /\ ~Matches(w)
        \/ answer = "unreachable"
        \/ answer = "busy" /\ scenario.busy
     /\ UNCHANGED service

Answers == {"ok", "conflict", "unreachable", "busy"}

\* purge_tombstones of the API or the retention worker.
Purge ==
  /\ scenario.purging
  /\ row.dead
  /\ row' = NoRow
  /\ purged' = TRUE
  /\ UNCHANGED <<applied, local, offered, queue, form, call, sync, user>>

-----------------------------------------------------------------------------
(* The user's requests, one at a time on each device.                      *)

Ask(d, kind, write) ==
  /\ call[d] = NoCall
  /\ call' = [call EXCEPT ![d] = [kind |-> kind, write |-> write, answer |-> "wait",
                                  attached |-> TRUE]]

NewEdit == edits + 1

\* The entry modal is opened: its fields show the entry of that moment.
OpenForm(d) ==
  /\ edits < scenario.edits
  /\ Shown(d)
  /\ form' = [form EXCEPT ![d] = [open |-> TRUE, content |-> local[d].content \ toggles,
                                  attached |-> TRUE]]
  /\ UNCHANGED <<service, local, offered, queue, call, sync, user>>

\* saveEntry of the form: what is no field of it, and the revision, come from
\* the entry that vault.entries has by now, which a listing may have replaced.
FormContent(d) == (form[d].content \ toggles) \cup (local[d].content \cap toggles)

\* saveEntry of the form on an entry that is shown: the edit goes to a copy, and
\* the form keeps what was typed.
Edit(d) ==
  /\ edits < scenario.edits
  /\ form[d].open
  /\ Shown(d)
  /\ Ask(d, "edit", [edit |-> NewEdit, expected |-> local[d].revision,
                     content |-> FormContent(d) \cup {NewEdit}, dead |-> FALSE,
                     origin |-> IF form[d].attached THEN local[d].origin ELSE "form"])
  /\ edits' = NewEdit
  /\ form' = [form EXCEPT ![d].content = @ \cup {NewEdit}]
  /\ UNCHANGED <<service, local, offered, queue, sync, toggles>>

\* saveEntry of the form on a new entry: the slug of its name is the record id,
\* so another device creates the same record.
CreateEntry(d) ==
  /\ d \in scenario.creators
  /\ edits < scenario.edits
  /\ local[d] = NoEntry
  /\ Ask(d, "create", [edit |-> NewEdit, expected |-> 0, content |-> {NewEdit},
                       dead |-> FALSE, origin |-> "created"])
  /\ edits' = NewEdit
  /\ form' = [form EXCEPT ![d] = NoForm]
  /\ UNCHANGED <<service, local, offered, queue, sync, toggles>>

\* syncFavorite changes the shown entry before it asks.
Favorite(d) ==
  /\ edits < scenario.edits
  /\ Shown(d)
  /\ Ask(d, "favorite", [edit |-> NewEdit, expected |-> local[d].revision,
                         content |-> local[d].content \cup {NewEdit}, dead |-> FALSE,
                         origin |-> local[d].origin])
  /\ edits' = NewEdit
  /\ toggles' = toggles \cup {NewEdit}
  /\ local' = [local EXCEPT ![d].content = @ \cup {NewEdit}]
  /\ UNCHANGED <<service, offered, queue, form, sync>>

\* deleteEntryWithUndo.
Delete(d) ==
  /\ d \in scenario.deleters
  /\ Shown(d)
  /\ Ask(d, "delete", [edit |-> 0, expected |-> local[d].revision,
                       content |-> local[d].content, dead |-> TRUE,
                       origin |-> local[d].origin])
  /\ UNCHANGED <<service, local, offered, queue, form, sync, user>>

\* restoreEntry reads the row first, whatever the button was offered for, and
\* seals what it read; a missing row or a lost answer ends it.
Restore(d) ==
  /\ d \in scenario.deleters
  /\ Open(d)
  /\ offered[d] # NoEntry
  /\ row.revision > 0
  /\ Ask(d, "restore", [edit |-> 0, expected |-> row.revision, content |-> row.content,
                        dead |-> FALSE, origin |-> "service"])
  /\ UNCHANGED <<service, local, offered, queue, form, sync, user>>

\* The service's part of the request.
Serve(d) ==
  /\ call[d].answer = "wait"
  /\ \E answer \in Answers :
       /\ Serves(call[d].write, answer)
       /\ call' = [call EXCEPT ![d].answer = answer]
  /\ UNCHANGED <<local, offered, queue, form, sync, user>>

-----------------------------------------------------------------------------
(* The answers.                                                            *)

Answered(d, kinds, answers) ==
  /\ call[d].kind \in kinds
  /\ call[d].answer \in answers
  /\ call' = [call EXCEPT ![d] = NoCall]

\* The entry object an edit changes is no longer in vault.entries once a
\* listing has replaced it; a created entry is pushed behind a listed one, and
\* find returns the first.
InList(d) == IF call[d].kind = "create" THEN local[d] = NoEntry ELSE call[d].attached

Show(d, entry) == local' = IF InList(d) THEN [local EXCEPT ![d] = entry] ELSE local

\* showSavedPanel takes the place of the form.
SavedPanel(d) == form' = [form EXCEPT ![d] = NoForm]

Saved(d) ==
  /\ Answered(d, {"edit", "create"}, {"ok"})
  /\ Show(d, [revision |-> call[d].write.expected + 1, content |-> call[d].write.content,
              origin |-> "service"])
  /\ SavedPanel(d)
  /\ UNCHANGED <<service, offered, queue, sync, user>>

\* A queued write replaces any earlier queued write for the record.
Enqueued(d) == queue' = [queue EXCEPT ![d] = call[d].write]

\* Mutant: an entry that was never stored gets no revision.
OfflineRevisionUnset(expected) == expected

\* An entry that was never stored keeps the revision 1 it was built with.
OfflineRevision(expected) == IF expected = 0 THEN 1 ELSE expected

\* The edit stays in session state and is reported as pending.
SavedOffline(d) ==
  /\ Answered(d, {"edit", "create"}, {"unreachable"})
  /\ Enqueued(d)
  /\ Show(d, [revision |-> OfflineRevision(call[d].write.expected),
              content |-> call[d].write.content, origin |-> call[d].write.origin])
  /\ SavedPanel(d)
  /\ UNCHANGED <<service, offered, sync, user>>

\* reportSaveFailure, which leaves the form and the typed input in place, and a
\* deletion or a restore that failed.
Failed(d) ==
  /\ \/ Answered(d, {"edit", "create"}, {"conflict", "busy"})
     \/ Answered(d, {"delete", "restore"}, {"conflict", "busy", "unreachable"})
  /\ UNCHANGED <<service, local, offered, queue, form, sync, user>>

Favored(d) ==
  /\ Answered(d, {"favorite"}, {"ok"})
  /\ Show(d, [local[d] EXCEPT !.revision = call[d].write.expected + 1, !.origin = "service"])
  /\ UNCHANGED <<service, offered, queue, form, sync, user>>

\* "rolled back on CAS/network failure", while saveEntry has queued the write.
RollBack(d) ==
  /\ Answered(d, {"favorite"}, {"conflict", "busy", "unreachable"})
  /\ IF call[d].answer = "unreachable" THEN Enqueued(d) ELSE UNCHANGED queue
  /\ Show(d, [local[d] EXCEPT !.revision = call[d].write.expected,
                              !.content = @ \ {call[d].write.edit}])
  /\ UNCHANGED <<service, offered, form, sync, user>>

\* The entry the form was opened on is not in vault.entries any more.
Detached(d) == form' = [form EXCEPT ![d].attached = FALSE]

Deleted(d) ==
  /\ Answered(d, {"delete"}, {"ok"})
  /\ local' = [local EXCEPT ![d] = NoEntry]
  /\ offered' = [offered EXCEPT ![d] = [revision |-> call[d].write.expected,
                                        content  |-> call[d].write.content,
                                        origin   |-> "restored"]]
  /\ Detached(d)
  /\ UNCHANGED <<service, queue, sync, user>>

\* The entry the button was offered for is shown again under the new revision.
Restored(d) ==
  /\ Answered(d, {"restore"}, {"ok"})
  /\ local' = IF local[d] = NoEntry
              THEN [local EXCEPT ![d] = [offered[d] EXCEPT
                                           !.revision = call[d].write.expected + 1]]
              ELSE local
  /\ offered' = [offered EXCEPT ![d] = NoEntry]
  /\ UNCHANGED <<service, queue, form, sync, user>>

-----------------------------------------------------------------------------
(* flushPending and the listing behind it, beside the user's requests.     *)

\* fetchAll on unlock, import or reload of a conflict, and "Sync now".
StartSync(d) ==
  /\ sync[d].step = "idle"
  /\ sync' = [sync EXCEPT ![d] =
       IF queue[d] = NoWrite THEN [NoSync EXCEPT !.step = "list"]
       ELSE [NoSync EXCEPT !.step = "flush", !.write = queue[d], !.answer = "wait"]]
  /\ UNCHANGED <<service, local, offered, queue, form, call, user>>

ServeFlush(d) ==
  /\ sync[d].answer = "wait"
  /\ \E answer \in Answers :
       /\ Serves(sync[d].write, answer)
       /\ sync' = [sync EXCEPT ![d].answer = answer]
  /\ UNCHANGED <<local, offered, queue, form, call, user>>

\* Mutant: the queue does not survive an unreachable service.
KeptNever(answer) == FALSE

\* What keeps the item in the queue: no answer at all.
Kept(answer) == answer = "unreachable"

\* The item of the record is removed, replayed or refused; it stays when the
\* service is unreachable.  fetchAll goes on to list, "Sync now" stops then.
Flushed(d) ==
  /\ sync[d].step = "flush"
  /\ sync[d].answer \in Answers
  /\ \/ /\ ~Kept(sync[d].answer)
        /\ queue' = [queue EXCEPT ![d] = NoWrite]
        /\ sync' = [sync EXCEPT ![d] = [NoSync EXCEPT !.step = "list"]]
     \/ /\ Kept(sync[d].answer)
        /\ UNCHANGED queue
        /\ sync' = [sync EXCEPT ![d] = [NoSync EXCEPT !.step = "list"]]
     \/ /\ Kept(sync[d].answer)
        /\ UNCHANGED queue
        /\ sync' = [sync EXCEPT ![d] = NoSync]
  /\ UNCHANGED <<service, local, offered, form, call, user>>

\* The listing is answered with the records; or with their summaries, after
\* which a live one is fetched by itself; or the request fails and fetchAll throws.
List(d) ==
  /\ sync[d].step = "list"
  /\ \/ sync' = [sync EXCEPT ![d] = [@ EXCEPT
          !.step = "listed",
          !.listed = IF row.revision = 0 \/ row.dead THEN NoEntry ELSE EntryOf(row)]]
     \/ /\ row.revision > 0
        /\ ~row.dead
        /\ sync' = [sync EXCEPT ![d] = [@ EXCEPT !.step = "fetch"]]
     \/ sync' = [sync EXCEPT ![d] = NoSync]
  /\ UNCHANGED <<service, local, offered, queue, form, call, user>>

\* The record of a live summary is shown whatever has become of it since; a
\* missing one, or a lost answer, makes fetchAll throw.
Fetch(d) ==
  /\ sync[d].step = "fetch"
  /\ \/ /\ row.revision > 0
        /\ sync' = [sync EXCEPT ![d] = [@ EXCEPT !.step = "listed", !.listed = EntryOf(row)]]
     \/ sync' = [sync EXCEPT ![d] = NoSync]
  /\ UNCHANGED <<service, local, offered, queue, form, call, user>>

\* vault.entries is replaced: requests in flight keep the old entry object, and
\* an open form its old values.
Listed(d) ==
  /\ sync[d].step = "listed"
  /\ local' = [local EXCEPT ![d] = sync[d].listed]
  /\ call' = [call EXCEPT ![d].attached = FALSE]
  /\ sync' = [sync EXCEPT ![d] = NoSync]
  /\ Detached(d)
  /\ UNCHANGED <<service, offered, queue, user>>

\* fetchTrash; the view keeps the entries until this device deletes something.
OpenTrash(d) ==
  /\ d \in scenario.deleters
  /\ Open(d)
  /\ call[d] = NoCall
  /\ row.dead
  /\ offered' = [offered EXCEPT ![d] = [revision |-> row.revision, content |-> row.content,
                                        origin |-> "restored"]]
  /\ UNCHANGED <<service, local, queue, form, call, sync, user>>

\* A crash, a reload or a closed tab: only the queue is in local storage.
ReloadPage(d) ==
  /\ Open(d)
  /\ local' = [local EXCEPT ![d] = Locked]
  /\ offered' = [offered EXCEPT ![d] = NoEntry]
  /\ call' = [call EXCEPT ![d] = NoCall]
  /\ sync' = [sync EXCEPT ![d] = NoSync]
  /\ form' = [form EXCEPT ![d] = NoForm]
  /\ UNCHANGED <<service, queue, user>>

-----------------------------------------------------------------------------

\* The row of an earlier session, whose content counts as no edit.
OldRow == [revision |-> 1, content |-> {}, dead |-> FALSE]

SyncInit ==
  /\ scenario \in Scenarios
  /\ row \in {NoRow, OldRow}
  /\ local = [d \in Pages |-> NoEntry]
  /\ offered = [d \in Pages |-> NoEntry]
  /\ queue = [d \in Pages |-> NoWrite]
  /\ form = [d \in Pages |-> NoForm]
  /\ call = [d \in Pages |-> NoCall]
  /\ sync = [d \in Pages |-> NoSync]
  /\ edits = 0
  /\ toggles = {}
  /\ applied = [n \in EditIds |-> 0]
  /\ purged = FALSE

Step ==
  \/ Purge
  \/ \E d \in Pages :
       \/ OpenForm(d) \/ Edit(d) \/ CreateEntry(d) \/ Favorite(d)
       \/ Delete(d) \/ Restore(d) \/ Serve(d)
       \/ Saved(d) \/ SavedOffline(d) \/ Failed(d) \/ Favored(d) \/ RollBack(d)
       \/ Deleted(d) \/ Restored(d)
       \/ StartSync(d) \/ ServeFlush(d) \/ Flushed(d) \/ List(d) \/ Fetch(d) \/ Listed(d)
       \/ OpenTrash(d) \/ ReloadPage(d)

SyncNext == Step /\ UNCHANGED scenario

SyncSpec == SyncInit /\ [][SyncNext]_syncVars

-----------------------------------------------------------------------------

Entry == [revision : 0 .. MaxWrites + 1, content : Contents,
          origin : Origins \cup {"none", "locked"}]

Write == [edit : 0 .. MaxEdits, expected : 0 .. MaxWrites + 1, content : Contents,
          dead : BOOLEAN, origin : Origins \cup {"none"}]

\* Type invariant; a shown copy always has a revision, so every save of it is a
\* compare-and-set and never a create.
SyncTypeOK ==
  /\ scenario \in Scenarios
  /\ row \in [revision : 0 .. MaxWrites, content : Contents, dead : BOOLEAN]
  /\ local \in [Pages -> Entry]
  /\ \A d \in Pages : Shown(d) => local[d].revision > 0
  /\ offered \in [Pages -> Entry]
  /\ queue \in [Pages -> Write]
  /\ \A d \in Pages : call[d].write \in Write /\ sync[d].write \in Write
  /\ form \in [Pages -> [open : BOOLEAN, content : Contents, attached : BOOLEAN]]
  /\ edits \in 0 .. MaxEdits /\ toggles \subseteq EditIds
  /\ applied \in [EditIds -> 0 .. 2]
  /\ purged \in BOOLEAN

\* No write sealed from a copy of one of these origins takes an edit out of the
\* row it replaces.
KeepsEdits(origins) ==
  \A d \in Pages :
    /\ call[d].answer = "wait" /\ call'[d].answer \in Answers
         /\ call[d].write.origin \in origins => row.content \subseteq row'.content
    /\ sync[d].answer = "wait" /\ sync'[d].answer \in Answers
         /\ sync[d].write.origin \in origins => row.content \subseteq row'.content

\* What the compare-and-set is for: a write sealed from a copy whose contents
\* and revision came together from the service, now or queued long ago, never
\* removes another device's edit, whatever was lost, queued, replayed, listed
\* late or rolled back in between.  A form is such a copy while the entry it was
\* filled from is the one in vault.entries.  Until a purge: revisions then start
\* again, and a copy from before it overwrites the new record of the same name.
ListedCopiesOverwriteNothing == [][purged \/ KeepsEdits({"service"})]_syncVars

\* "retries can never duplicate work": a sealed write is stored at most once,
\* although a flush repeats it when the answer of an earlier attempt was lost.
\* A purge forgets that the write was stored.
AppliedOnce == purged \/ \A n \in EditIds : applied[n] <= 1

\* "prevent stale writes through server-authoritative compare-and-set
\* revisions", for an entry created offline.  It carries revision 1, and so does
\* the record another device has created under the same name.
CreatedCopiesOverwriteNothing == [][KeepsEdits({"created"})]_syncVars

\* The same promise for an entry taken back from the trash: it is shown with
\* the contents the button was offered for and the revision of what is there.
RestoredCopiesOverwriteNothing == [][KeepsEdits({"restored"})]_syncVars

\* "edits reuse the same compare-and-set revision": the form is filled from one
\* copy and saved under the revision of whichever is in vault.entries by then.
\* A listing in between makes the save overwrite what the other device wrote.
FormsOverwriteNothing == [][KeepsEdits({"form"})]_syncVars

\* "keep the edit in session state and report it as pending, not lost": with one
\* device there is nobody to conflict with, and a pending edit leaves the queue
\* only when the service has it.
PendingNotLost ==
  [][\A d \in Pages :
       queue[d] # NoWrite /\ queue'[d] = NoWrite => queue[d].edit \in row.content]_syncVars

Dropped(d) == queue[d] # NoWrite /\ queue'[d] = NoWrite

\* The write the flush sent is not the one in the queue by now: the user has
\* queued a newer one for the record meanwhile.
Outdated(d) == queue[d] # sync[d].write

\* A queued write outlives an unreachable service: it leaves the queue only when
\* a flush was answered.  Unless a newer write took its place while it was in
\* flight, the answer is about that very write: the service has stored it, has
\* refused it, or has turned the request away.
DroppedOnlyWhenAnswered ==
  [][\A d \in Pages : Dropped(d) =>
       /\ sync[d].answer \in {"ok", "conflict"} \cup {a \in {"busy"} : scenario.busy}
       /\ (sync[d].answer = "ok" /\ ~Outdated(d)) => applied[queue[d].edit] > 0]_syncVars

\* "Items that reach the server are removed", the others are kept: a write that
\* leaves the queue was sent.  A newer write that was queued while the older one
\* was in flight leaves with it, as both have the same record id.
DroppedWriteWasSent == [][\A d \in Pages : Dropped(d) => ~Outdated(d)]_syncVars

\* "A definitive server rejection drops the queued write": nothing else that is
\* not a stored write does, not even a service that turns requests away.
DroppedOnlyWhenDecided ==
  [][\A d \in Pages : Dropped(d) => sync[d].answer \in {"ok", "conflict"}]_syncVars

\* "optimistic update, rolled back on CAS/network failure": a toggle that was
\* rolled back does not wait in the queue to be stored later.
RolledBackStaysBack ==
  [][\A d \in Pages : RollBack(d) => queue'[d].edit # call[d].write.edit]_syncVars

=============================================================================
