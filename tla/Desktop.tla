------------------------------ MODULE Desktop ------------------------------
(***************************************************************************)
(* The desktop shell: the settings file, the vault folders, the embedded   *)
(* server, and the threads that open a folder, move it, import into it and *)
(* export from it.  A database is what its main file and its write-ahead   *)
(* log hold; a file copy and a file write each take two steps, so that a   *)
(* crash or another thread fits in between.  Whatever returns a Result may *)
(* fail.  The dialogs return whenever the user answers.                    *)
(***************************************************************************)
EXTENDS Naturals, FiniteSets

CONSTANTS
  Dirs,            \* folders a user may choose
  Records,         \* pairs of a vault scope (a number) and an id
  Pickers,         \* calls of pick_vault_dir that may run at once
  Menus,           \* menu threads that may run at once
  FoldsDuringCopy, \* whether the log is folded while a move copies
  DefaultKeep,     \* the retention of settings that name none
  MaxSnapshots,    \* bound on the snapshots ever taken
  Starts,          \* the settings files and databases a behaviour begins with
  None, Torn

VARIABLES
  up,        \* the process runs
  file,      \* settings.json: None, Torn or settings
  settings,  \* SharedDesktopState.settings
  server,    \* the folder of SharedDesktopState.server, or None
  client,    \* the folder whose server the web client talks to, or None
  thread,    \* where each command, menu thread and the startup is
  db,        \* vault.db of each folder
  backups,   \* the snapshots of each folder
  clock,     \* the name of the next snapshot
  target,    \* the file an export replaces: None, Torn, "whole" or "unsynced"
  promised,  \* history: what the vault of each folder has to hold
  launched   \* history: the last opening that was snapshotted, what it found, and
             \* whether its checkpoint went through

disk == <<file, db, backups, clock>>
memory == <<up, settings, server, client>>
vars == <<disk, memory, thread, target, promised, launched>>

-----------------------------------------------------------------------------

Threads == Pickers \cup Menus \cup {"startup"}

Settings == [dir : Dirs, auto : BOOLEAN, keep : 1..DefaultKeep]

Db == [is : {"none", "torn", "whole"}, main : SUBSET Records, wal : SUBSET Records]

NoDb == [is |-> "none", main |-> {}, wal |-> {}]

\* A behaviour begins with whole vaults, and with settings that can be read only if they
\* name one; a retention is at least one snapshot.
ASSUME DesktopAssumption ==
  /\ DefaultKeep \in Nat \ {0} /\ MaxSnapshots \in Nat /\ FoldsDuringCopy \in BOOLEAN
  /\ None \notin Dirs /\ None \notin Settings /\ Torn \notin Settings
  /\ Torn # None /\ Torn # "whole" /\ None # "unsynced"
  /\ \A has \in SUBSET Records : has # Torn
  /\ Menus \cap (Pickers \cup {"startup"}) = {} /\ "startup" \notin Pickers
  /\ \A start \in Starts :
       /\ start.file \in Settings \cup {None, Torn} /\ start.db \in [Dirs -> Db]
       /\ \A dir \in Dirs : start.db[dir].is = "whole" \/ start.db[dir] = NoDb
       /\ start.file \in Settings => start.db[start.file.dir].is = "whole"

\* is_none_or and map_or: what load_settings finds, or the defaults.
Loaded == IF file = Torn THEN None ELSE file

Preferences(dir) ==
  IF Loaded = None THEN [dir |-> dir, auto |-> TRUE, keep |-> DefaultKeep]
  ELSE [Loaded EXCEPT !.dir = dir]

\* set: the settings to save; dir: the folder worked on; name: of a snapshot;
\* has: what was read or is being copied; seen: what the database held when
\* it was opened, folded or read; folded: the checkpoint of an opening went through.
Idle == [at |-> "idle", dir |-> None, set |-> None, name |-> 0, has |-> {}, seen |-> {},
         folded |-> FALSE]

Content(dir) == db[dir].main \cup db[dir].wal

\* wal_checkpoint(TRUNCATE), and one that folds nothing.
FoldedNot(dir) == db
Folded(dir) == [db EXCEPT ![dir].main = Content(dir), ![dir].wal = {}]

\* The bound that keeps a fold from changing a main file while it is copied.
MayFold == FoldsDuringCopy \/ \A t \in Menus : thread[t].at # "copying"

Opened(dir) == [db EXCEPT ![dir] = IF @.is = "none" THEN [@ EXCEPT !.is = "whole"] ELSE @]

\* A new vault promises nothing yet.
Init ==
  /\ \E start \in Starts : file = start.file /\ db = start.db
  /\ up = FALSE /\ settings = None /\ server = None /\ client = None
  /\ thread = [t \in Threads |-> Idle]
  /\ backups = [dir \in Dirs |-> {}] /\ clock = 0
  /\ target = None
  /\ promised = [dir \in Dirs |-> Content(dir)]
  /\ launched = None

At(t, place) == up /\ thread[t].at = place

Go(t, state) == thread' = [thread EXCEPT ![t] = state]

To(t, place) == Go(t, [thread[t] EXCEPT !.at = place])

Return(t) == Go(t, Idle)

-----------------------------------------------------------------------------
(* Startup and the first-run screen.                                       *)

Boot ==
  /\ ~up /\ up' = TRUE
  /\ settings' = Loaded
  /\ IF Loaded = None THEN UNCHANGED thread
     ELSE Go("startup", [Idle EXCEPT !.at = "open", !.dir = Loaded.dir])
  /\ UNCHANGED <<disk, server, client, target, promised, launched>>

\* The window and its menus are built when startup has tried the vault.
MenuShown(t) == At(t, "idle") /\ thread["startup"].at = "idle"

\* guard_existing.
Guarded(route, exists) == route = IF exists THEN "open" ELSE "create"

\* The screen is there when startup opened no vault, until a pick succeeds.
PickVaultDir(t, route, dir) ==
  /\ MenuShown(t) /\ client = None
  /\ Guarded(route, db[dir].is # "none")
  /\ Go(t, [Idle EXCEPT !.at = "open", !.dir = dir])
  /\ UNCHANGED <<disk, memory, target, promised, launched>>

-----------------------------------------------------------------------------
(* configure_storage, which startup and pick_vault_dir share.              *)

Serving(t, set) == Go(t, [Idle EXCEPT !.at = "serve", !.dir = set.dir, !.set = set])

OpenDatabase(t) ==
  LET dir == thread[t].dir
      set == Preferences(dir)
      existing == db[dir].is # "none"
  IN /\ At(t, "open")
     /\ \/ /\ db[dir].is # "torn"
           /\ db' = Opened(dir)
           /\ IF existing /\ set.auto
              THEN Go(t, [thread[t] EXCEPT !.at = "fold", !.set = set, !.seen = Content(dir)])
              ELSE Serving(t, set)
        \/ Return(t) /\ UNCHANGED db
     /\ UNCHANGED <<file, backups, clock, memory, target, promised, launched>>

\* The result of the checkpoint is not looked at.
FoldAtOpen(t) ==
  /\ At(t, "fold") /\ MayFold
  /\ \E folded \in BOOLEAN :
       /\ db' = IF folded THEN Folded(thread[t].dir) ELSE db
       /\ Go(t, [thread[t] EXCEPT !.at = "snapshot", !.folded = folded])
  /\ UNCHANGED <<file, backups, clock, memory, target, promised, launched>>

\* rotate_backup, whose errors are not looked at either.
BeginSnapshot(t) ==
  LET dir == thread[t].dir IN
  /\ At(t, "snapshot")
  /\ \/ /\ clock < MaxSnapshots /\ clock' = clock + 1
        /\ backups' = [backups EXCEPT ![dir] = @ \cup {[at |-> clock, has |-> Torn]}]
        /\ Go(t, [thread[t] EXCEPT !.at = "snapping", !.name = clock, !.has = db[dir].main])
     \/ Serving(t, thread[t].set) /\ UNCHANGED <<backups, clock>>
  /\ UNCHANGED <<file, db, memory, target, promised, launched>>

\* trim_backups: the names sort by time.
TrimmedNewest(snapshots, keep) ==
  {s \in snapshots : Cardinality({older \in snapshots : older.at < s.at}) < keep}
Trimmed(snapshots, keep) ==
  {s \in snapshots : Cardinality({later \in snapshots : later.at > s.at}) < keep}

EndSnapshot(t) ==
  LET dir == thread[t].dir
      snapshot == [at |-> thread[t].name, has |-> thread[t].has]
      others == {s \in backups[dir] : s.at # snapshot.at}
  IN /\ At(t, "snapping")
     /\ \/ /\ backups' = [backups EXCEPT
                ![dir] = Trimmed(others \cup {snapshot}, thread[t].set.keep)]
           /\ launched' = [dir |-> dir, seen |-> thread[t].seen, folded |-> thread[t].folded]
        \/ backups' = [backups EXCEPT ![dir] = others] /\ UNCHANGED launched
     /\ Serving(t, thread[t].set)
     /\ UNCHANGED <<file, db, clock, memory, target, promised>>

StartServer(t) ==
  /\ At(t, "serve")
  /\ To(t, "save") \/ Return(t)
  /\ UNCHANGED <<disk, memory, target, promised, launched>>

\* save_settings: fs::write truncates the file, then fills it.
BeginSave(t) ==
  /\ At(t, "save")
  /\ \/ file' = Torn /\ To(t, "saving")
     \/ Return(t) /\ UNCHANGED file
  /\ UNCHANGED <<db, backups, clock, memory, target, promised, launched>>

EndSave(t) ==
  /\ At(t, "saving")
  /\ \/ /\ file' = thread[t].set
        /\ To(t, IF t \in Menus THEN "moved" ELSE "publish")
     \/ Return(t) /\ UNCHANGED file
  /\ UNCHANGED <<db, backups, clock, memory, target, promised, launched>>

PublishSettings(t) ==
  /\ At(t, "publish")
  /\ settings' = thread[t].set /\ To(t, "answer")
  /\ UNCHANGED <<disk, up, server, client, target, promised, launched>>

\* The page loads, or loads again, against the port of this server.
PublishServer(t) ==
  /\ At(t, "answer")
  /\ server' = thread[t].dir /\ client' = thread[t].dir /\ Return(t)
  /\ UNCHANGED <<disk, up, settings, target, promised, launched>>

-----------------------------------------------------------------------------
(* Writes: the web client's, and import_backup's.                          *)

Stored(dir, record) ==
  /\ db' = [db EXCEPT ![dir].wal = @ \cup {record}]
  /\ promised' = [promised EXCEPT ![dir] = @ \cup {record}]
  /\ UNCHANGED <<file, backups, clock, memory, target, launched>>

ClientPut(record) ==
  /\ up /\ client # None /\ record \notin Content(client)
  /\ Stored(client, record) /\ UNCHANGED thread

\* SQLite folds a log of a thousand pages by itself.
FoldLog(dir) ==
  /\ up /\ client = dir /\ db[dir].wal # {}
  /\ MayFold
  /\ db' = Folded(dir)
  /\ UNCHANGED <<file, backups, clock, memory, thread, target, promised, launched>>

\* The server is the one of the time before the dialog.  A file with fewer
\* records is one whose reading ends early.
BeginImport(t) ==
  /\ MenuShown(t) /\ server # None
  /\ Go(t, [Idle EXCEPT !.at = "import", !.dir = server, !.has = Records])
  /\ UNCHANGED <<disk, memory, target, promised, launched>>

\* put with no expected revision: a record that is there is skipped.
ImportPut(t, record) ==
  /\ At(t, "import") /\ record \in thread[t].has
  /\ Go(t, [thread[t] EXCEPT !.has = @ \ {record}])
  /\ IF record \in Content(thread[t].dir)
     THEN UNCHANGED <<disk, memory, target, promised, launched>>
     ELSE Stored(thread[t].dir, record)

\* The end of the file, or a record that is rejected.
EndImport(t) ==
  /\ At(t, "import") /\ Return(t)
  /\ UNCHANGED <<disk, memory, target, promised, launched>>

-----------------------------------------------------------------------------
(* export_backup and atomic_file::write_file.                              *)

\* vault_ids comes sorted, and next takes its first.
Exported(records) == {r \in records : \A s \in records : r[1] <= s[1]}

BeginExport(t) ==
  /\ MenuShown(t) /\ server # None
  /\ Go(t, [Idle EXCEPT !.at = "name", !.dir = server])
  /\ UNCHANGED <<disk, memory, target, promised, launched>>

\* vault_ids that fails counts as a vault without a scope: nothing is exported.
WriteTemp(t) ==
  LET records == Content(thread[t].dir) IN
  /\ At(t, "name")
  /\ \/ \E has \in {Exported(records), {}} :
          Go(t, [thread[t] EXCEPT !.at = "written", !.has = has, !.seen = records])
     \/ Return(t)
  /\ UNCHANGED <<disk, memory, target, promised, launched>>

SyncTemp(t) ==
  /\ At(t, "written")
  /\ To(t, "synced") \/ Return(t)
  /\ UNCHANGED <<disk, memory, target, promised, launched>>

RenamesUnsynced(place) == place \in {"written", "synced"}
Renames(place) == place = "synced"

\* The name takes what the temporary file holds, written to disk or not.
RenameTemp(t) ==
  /\ up /\ Renames(thread[t].at)
  /\ \/ target' = IF thread[t].at = "synced" THEN "whole" ELSE "unsynced"
     \/ UNCHANGED target
  /\ Return(t)
  /\ UNCHANGED <<disk, memory, promised, launched>>

-----------------------------------------------------------------------------
(* change_storage_location and migrate_storage.                            *)

\* A checkpoint of the server's folder covers the folder that moves if it is that one.
FoldBeforeMove(t) ==
  LET Choose(covers) == Go(t, [Idle EXCEPT !.at = "choose", !.set = settings, !.seen =
        IF covers THEN Content(settings.dir) ELSE db[settings.dir].main])
  IN /\ MenuShown(t) /\ settings # None
     /\ \/ /\ server # None /\ MayFold /\ db' = Folded(server)
           /\ Choose(server = settings.dir)
        \/ UNCHANGED db /\ Choose(FALSE)
     /\ UNCHANGED <<file, backups, clock, memory, target, promised, launched>>

\* A cancelled dialog, a refused folder, or a source that is not there.
RefuseMove(t) ==
  /\ At(t, "choose") /\ Return(t)
  /\ UNCHANGED <<disk, memory, target, promised, launched>>

BeginCopy(t, dir) ==
  LET old == thread[t].set.dir IN
  /\ At(t, "choose") /\ dir # old
  /\ db[dir].is = "none" /\ db[old].is # "none"
  /\ db' = [db EXCEPT ![dir] = [NoDb EXCEPT !.is = "torn"]]
  /\ Go(t, [thread[t] EXCEPT !.at = "copying", !.dir = dir, !.has = db[old].main])
  /\ UNCHANGED <<file, backups, clock, memory, target, promised, launched>>

\* ..current with the new vault_dir, and the way to forget it.
RelocatedNot(set, dir) == set
Relocated(set, dir) == [set EXCEPT !.dir = dir]

\* A copy that fails stays where it is, and so does a complete one when the
\* old snapshots cannot be listed; a snapshot that is not copied is passed by.
EndCopy(t) ==
  LET old == thread[t].set.dir
      dir == thread[t].dir
      same == db[old].is = "whole" /\ db[old].main = thread[t].has
      copy == [is |-> IF same THEN "whole" ELSE "torn", main |-> thread[t].has, wal |-> {}]
  IN /\ At(t, "copying")
     /\ \/ Return(t) /\ UNCHANGED <<db, backups, promised>>
        \/ /\ db' = [db EXCEPT ![dir] = copy]
           /\ promised' = [promised EXCEPT ![dir] = thread[t].seen]
           /\ \/ Return(t) /\ UNCHANGED backups
              \/ /\ \E copied \in SUBSET backups[old] :
                      backups' = [backups EXCEPT ![dir] = @ \cup copied]
                 /\ Go(t, [Idle EXCEPT !.at = "save", !.dir = dir,
                                       !.set = Relocated(thread[t].set, dir)])
     /\ UNCHANGED <<file, clock, memory, target, launched>>

-----------------------------------------------------------------------------

\* The end of the process: a crash, the window, or restart after a move.
\* What was never written through to the disk may be cut off.
Stop ==
  /\ up /\ up' = FALSE
  /\ settings' = None /\ server' = None /\ client' = None
  /\ thread' = [t \in Threads |-> Idle]
  /\ target' = IF target = "unsynced" THEN Torn ELSE target
  /\ UNCHANGED <<disk, promised, launched>>

Configure(t) ==
  \/ OpenDatabase(t) \/ FoldAtOpen(t) \/ BeginSnapshot(t) \/ EndSnapshot(t)
  \/ StartServer(t) \/ PublishSettings(t) \/ PublishServer(t)

Menu(t) ==
  \/ BeginImport(t)
  \/ \E record \in Records : ImportPut(t, record)
  \/ EndImport(t)
  \/ BeginExport(t) \/ WriteTemp(t) \/ SyncTemp(t) \/ RenameTemp(t)
  \/ FoldBeforeMove(t) \/ RefuseMove(t) \/ EndCopy(t)
  \/ \E dir \in Dirs : BeginCopy(t, dir)

Next ==
  \/ Boot \/ Stop
  \/ \E t \in Pickers, route \in {"create", "open"}, dir \in Dirs : PickVaultDir(t, route, dir)
  \/ \E t \in Pickers \cup {"startup"} : Configure(t)
  \/ \E t \in Threads : BeginSave(t) \/ EndSave(t)
  \/ \E t \in Menus : Menu(t)
  \/ \E record \in Records : ClientPut(record)
  \/ \E dir \in Dirs : FoldLog(dir)

Spec == Init /\ [][Next]_vars

-----------------------------------------------------------------------------
(* What must hold.                                                         *)

\* Every thread is at one of its steps with the folder and the settings that
\* step needs, a snapshot is named once, and only a running process has state.
TypeOK ==
  /\ file \in Settings \cup {None, Torn} /\ settings \in Settings \cup {None}
  /\ {server, client} \subseteq Dirs \cup {None}
  /\ (server = None) = (client = None)
  /\ \A dir \in Dirs :
       /\ db[dir].is \in {"none", "torn", "whole"}
       /\ db[dir].main \subseteq Records /\ db[dir].wal \subseteq Records
       /\ db[dir].is # "whole" => db[dir].wal = {}
       /\ \A s, o \in backups[dir] : s.at < clock /\ (s.at = o.at => s = o)
  /\ \A t \in Threads :
       /\ thread[t].at # "idle" => up
       /\ thread[t].at \in {"fold", "snapshot", "snapping", "serve", "save", "saving", "moved"} =>
            thread[t].set \in Settings /\ thread[t].set.dir = thread[t].dir

\* Whenever the process ends and whatever failed before, settings that can be
\* read name a folder with a complete database, which holds every record its
\* server has accepted and, after a move, every record the old folder's main
\* file held after the move's checkpoint, failed or not (change_storage_location,
\* configure_storage).
SettingsNameWholeVault ==
  file \notin {None, Torn} =>
    db[file.dir].is = "whole" /\ promised[file.dir] \subseteq Content(file.dir)

\* The snapshot of an opening is a whole copy and stays until a later opening is
\* snapshotted; if the checkpoint before it went through, it holds all that the
\* opening found in the vault (configure_storage, rotate_backup, trim_backups).
LaunchSnapshotKept ==
  launched # None =>
    \E s \in backups[launched.dir] :
      s.has # Torn /\ (launched.folded => launched.seen \subseteq s.has)

\* An export that is cut off anywhere leaves the file of its name as it was
\* or complete (atomic_file.rs: "leaves a previously valid target untouched").
ExportWhole == target # Torn

-----------------------------------------------------------------------------
(* What the code promises and does not keep.                               *)

\* lib.rs: "A local vault holds exactly one vault scope": an export has every
\* record of the vault.  The recovery wrapper is stored in a scope of its own.
ExportHoldsVault ==
  \A t \in Menus : thread[t].at \in {"written", "synced"} => thread[t].has = thread[t].seen

\* lib.rs: "Checkpoint so the copied file is self-contained": when the user is
\* told that the vault has moved, the new folder has what the old one has.
MovedVaultIsCurrent ==
  \A t \in Menus : thread[t].at = "moved" =>
    Content(settings.dir) \subseteq Content(thread[t].dir)

\* lib.rs: "Fold the WAL so the snapshot file is self-contained": the snapshot of an
\* opening holds what the opening found.  A checkpoint that fails is not noticed.
SnapshotIsSelfContained ==
  launched # None =>
    \E s \in backups[launched.dir] : s.has # Torn /\ launched.seen \subseteq s.has

\* The settings file can be read whenever no save is in progress.
SettingsReadable == file = Torn => \E t \in Threads : thread[t].at = "saving"

\* The settings name the folder whose server is open.
SettingsNameServer ==
  (server # None /\ \A t \in Threads : thread[t].at = "idle") => settings.dir = server

\* A copy that failed does not stand in the way of the next move.
FailedCopyIsRemoved ==
  \A dir \in Dirs : db[dir].is = "torn" =>
    \E t \in Menus : thread[t].at = "copying" /\ thread[t].dir = dir

=============================================================================
