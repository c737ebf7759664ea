# Veyora in TLA+

Veyora is a zero-knowledge password vault: a web client seals every entry under a
random Vault Key, and a service that sees only ciphertext stores the rows. This
directory holds TLA+ models of the parts where order, failure and concurrency decide
whether a user keeps his data, TLC configurations that check them on small instances,
and TLAPS proofs of most of what they check, for every size.

Paths below are relative to the repository's root.

## The system

| Component | State | Operations | Talks to |
|---|---|---|---|
| Record store contract, `packages/storage/persistence` | rows by (vault, record id): revision, ciphertext, tombstone, deletion stamp | `put`, `tombstone`, `put_batch`, `rekey_vault`, `purge_tombstoned_before`, reads | called by the API, the worker, the desktop |
| SQLite adapter, `packages/storage/sqlite` | one database file behind one mutex | the same, each one transaction; `open` runs the migrations | desktop shell, API in single-node mode |
| In-memory adapter, `packages/storage/persistence` | two maps behind two mutexes | the same | API in test and demo mode |
| PostgreSQL adapter, `packages/storage/postgres` | a connection pool; rows in PostgreSQL | the same, each one transaction with row locks | API, worker |
| API service, `services/api` | store handle, rate limiter, metrics | record routes, batch, rekey, purge | blocking threads into the store |
| Worker, migrator, backup, restore, validator, `services/*` | none of their own | retention sweep, schema versions, export, import, configuration check | PostgreSQL |
| Web client, `apps/web` | session root key, `vault.entries`, `vault.meta` and the pending queue in local storage | vault ceremonies, save, delete, restore, flush, listing, lock | API over HTTP |
| Desktop shell, `apps/desktop` | settings file, vault folder, backups | choose and move the folder, rotate backups, import, export | SQLite adapter, embedded API |
| Security kernel, `packages/security-kernel` | session and unlock policy | derive, seal, open, recovery codes, generator | web client through WebAssembly |
| Configuration, contracts, deployment | none | pure resolution, generated code, containers | all services |

### What is hard, and what makes each part correct

- **Store operations.** A batch may write one record several times; deletion stamps are
  set by some writes and cleared by others; a rekey moves a vault between scopes while
  nothing may be lost. Correct when revisions only grow, rows leave only by a purge or
  a rekey, no live row is stamped, and every operation is one step of the contract.
- **SQLite open.** The two migration scripts run on *every* open, statement by
  statement, outside a transaction. Correct when no crash loses an acknowledged row and
  no tombstone is purged before its time.
- **In-memory adapter.** Calls let go of one mutex before they take the other, or take
  them in different orders. Correct when it still keeps the contract and cannot block.
- **Connection pool.** An atomic counter is changed both under the mutex and outside;
  wake-ups, deadlines, failed probes and shutdown race. Correct when no slot leaks or is
  counted twice and every wait ends.
- **Vault ceremonies.** Each is several requests, with lost answers, reloads and other
  devices in between. Correct when every wrapper on the service opens the vault, some
  Recovery Key always does, and a password changes only where a user set it.
  What the code does not keep (a kit that is revoked, a password that a late migration
  overwrites) is under the counterexamples.
- **Entry synchronisation.** Offline queue, flush, optimistic changes, undo and late
  listings on several devices, forms that stay open meanwhile. Correct when no save
  overwrites an edit it has not seen, no queued write is lost or stored twice.
- **PostgreSQL transactions.** READ COMMITTED with `FOR UPDATE` on rows that may not
  exist; purges, sweeps and imports beside the store's own calls. Correct when what
  commits is what the call would have done alone, and every call is answered.
- **API service.** A conflict's revision is read by a second store call; the limiter
  reads the clock before its lock; listings are paged by offset while others write; the
  service migrates the schema itself while migrators run. Correct when a conflict never
  sends a client in a circle, a page-reader misses nothing and a migrated schema is whole.
- **The page's session.** Unlock, password change, rekey and reset are awaits that a
  lock, a reload, a lost answer or another ceremony crosses. Correct when the vault stays
  where the device looks for it, the session writes under the vault's key and a reset
  that ends leaves no row behind.
- **Desktop shell.** A settings file written in place, a folder copied while it is used,
  snapshots trimmed, several menu threads. Correct when the settings name a whole vault,
  the last launch's snapshot survives and an export is whole or untouched.
- **Kernel and configuration.** No state, but limits, canonical forms, domain separation
  and layers of settings. Correct when every accepted encoding is the one that is
  written, nothing opens but what was sealed and a setting is what the operator wrote.

PROJECT.json lists every component with its state of modelling and every hazard with
its line and the properties that watch it.

## The modules

```
OpaqueStore            what the trait promises (abstract)
  ^ implemented by RecordStore      SQLite operations        DesktopStore_proofs
  ^ implemented by InMemoryStore    two mutexes, threads     InMemoryStore_proofs
  ^ implemented, save rekeys, by PgTransactions
SqliteOpen             open, migrations, crashes             Crates_proofs
PgPool                 the connection pool                      Postgres_proofs
PgTransactions         PostgreSQL sessions by statement         Postgres_proofs
PgSchema               migrators and the API's own migration
  ^ used by ApiService              the HTTP service over a store and a schema   ApiService_proofs
VaultKeys              wrappers and ceremonies       WebClient_proofs
VaultSession           unlock, password change, reset and lock    VaultSession_proofs
DeviceSync             one entry on several devices  WebClient_proofs
Desktop                settings, folders, snapshots, export    DesktopStore_proofs
Results                what a function answers
  ^ used by Kernel                  the security kernel's functions
  ^ used by Config                  the configuration crate's functions
      ^ LibraryCalls                callers of both      Kernel_proofs, Crates_proofs
MC<module>             the instances TLC checks
```

A definition whose comment begins with *Mutant* or *Mistake* is a plausible slip in the
definition that follows it; nothing uses it. PROJECT.json pairs each property with one,
and TLC finds the property violated when it takes the definition's place.

**OpaqueStore.** The variable `records` is what a caller sees of the rows. `Write`
covers put, tombstone and batch: some records gain a revision at once. `Rekey` empties
one scope and fills free slots of another; `Purge` removes tombstones of one vault.

**RecordStore.** `rows` is the `records` table and `now` the epoch clock. Each
operation of `impl OpaqueStore for SqliteStore` is one action because the code holds the
connection's mutex and one transaction around it. Refused calls roll back and are
stuttering. Ciphertext, hashes and protocol fields travel together and are one `body`.
`PutBatch` needs no recursion: an accepted write of expected revision *e* leaves *e* + 1,
so what row *i* of a batch finds is given by the last earlier row for its slot.

**SqliteOpen.** `records` and `scoped` are the two tables a file may hold, `hasStamp` the
column `tombstoned_at`, `step` the statement `open` runs next, `committed` what was
acknowledged. One action per SQL statement of `0001_records.sql`,
`0002_records_vault_scope.sql` and the ensure step of `open`; `Stop` is a crash or an
exit anywhere. `PutLive`, `Tombstone` and `PurgeTombstonedBefore` are the operations
between two opens (put only as create, edit or restore: the case a desktop vault makes).

**InMemoryStore.** `rows` and `stamps` are the two maps, `call[t]` what thread *t* still
has to do. A step runs from one lock to the next, and which mutex a thread holds follows
from `call`; `calls` bounds how many are begun. `StepsKeepContract` is the contract with
one exception: the second half of a purge may remove what the first half collected.

**PgPool.** `at[t]` is where thread *t* is in `get`, `late` the threads whose deadline has
passed, `outstanding` the atomic count, `closer` the one call of `shutdown`. The mutex is
derived from `at` and `closer`: it is held while a connection is opened, free while one
is probed. Idle connections are a number, since they differ only in age.

**PgTransactions.** `rows` is what is committed, `held` who has written or locked a row,
`session[c]` the call of one connection, its place, what it has read and its own
uncommitted rows. An action is one SQL statement; a statement that meets another
session's row is not enabled until that session ends, so a lock wait is `Waiting`. The
calls are the store's six operations, the import of the restore service and the worker's
sweep. `Abort` is a lost connection, the statement timeout or the deadlock detector.

**PgSchema.** `schema` has the files applied and the versions recorded. Each migrator
takes a version's file and its record in one transaction; the API runs the same
statements without versions and falls back to `verify_schema`.

**ApiService.** `request[q]` walks the layers of `app()` in their order: rate limit, token,
size, body, query, then the store gate and one or two store calls. A malformed request
is a set of faults, and the first layer that minds one answers. `windows` and `minute`
are the limiter; `reader` is a client that pages through a listing. `passed`, `stray` and
`removals` are history. `Scenarios` says which calls a behaviour makes and whether the
schema is new; the layers, the status and the retry class of an answer are the code's.

**VaultKeys.** `verifier`, `password` and `recovery` are what the service holds, `kit` and
`stored` each device's metadata in memory and in local storage, `op[d]` the ceremony a
device is in and its next request. Every request of the creation, the unlock, the change
of a wrapped vault's password, the recovery and the kit's regeneration in `recordSync` is
an action; `Heard` lets the answer of any write be lost, `Fail` lets any request be,
`Reload` happens anywhere. Keys are symbolic: the random Vault Key or the key a password
derives in this vault's scope. `Proves` is `verifyRootKey`, which accepts any key in a scope
without a verifier, as after a creation whose first write never arrived. `Starts` selects
wrapped, legacy and new vaults. `opened` is a history variable: the keys with which a
ceremony has reported that the vault is open.

**VaultSession.** `rows` is the service in every scope the vault was ever moved to, `meta`
the device's `vault.meta` with its salt and the pending marker, `key` is
`recordSync.rootKey` and `screen` what the page shows. `task[t]` is a ceremony between two
requests: `unlock` (with `resolvePendingRekey` first), `verifyPassword`,
`changeMasterPassword` by wrapper or by rekey, `deleteVaultEverywhere`. `Lock` and `Reload`
come at any step, and only the reload ends what is in flight. `late` holds a rekey that is
served after the page gave up on it. `struck` records which of `Mishaps` a behaviour has
met: the properties that pass say "until a mishap strikes". `acked`, `used` and `wiping` are
history too.

**DeviceSync.** `row` is the service's record, `local[d]` the entry as a device shows it,
`queue[d]` its pending write in local storage, `call[d]` the user's request in flight and
`sync[d]` the flush and listing beside it, `form[d]` the entry form: its fields are filled
when it is opened, and the revision is read when it is saved. The entry's content is the *set of edits* it
includes, so that losing an edit is visible as a set that shrinks. `origin` is a history
variable: where a copy's revision came from; `applied` and `purged` are others. They
guard nothing. The entry may exist from an earlier session, with no edit in it.
`Scenarios` says which devices create, which delete and restore, and what the service does.

**Desktop.** `db[dir]` is a vault's main file and its write-ahead log, `file` the settings
on disk, `settings`, `server` and `client` what the process believes, `thread[t]` where the
startup, a picker command or a menu thread is. A checkpoint whose result the code does not
look at goes through or not, and the thread does not know. A file copy and a file write each take two
steps; anything that returns a `Result` may fail; the process may end anywhere, and
`Boot` starts from what is on disk. `promised` and `launched` are history.

**Kernel, Config, LibraryCalls.** Kernel and Config are operators, one per function, each
answering `Ok(value)` or `Err(code)` in the order the code checks. A byte string is a value
with a length; a CBOR document is the sequence of its heads, each with the width of its
argument, so that a value has several encodings. Hashes, tags, signatures and
ciphertexts are records of what went into them. A value
is the sequence of its parts in the order they are written, so that a document is read and
written without a recursive operator. LibraryCalls keeps a `log` of one call and
of the call whose meaning depends on it; the invariants are about what the log shows.

### How the models meet

`OpaqueStore` is the interface: RecordStore, InMemoryStore and PgTransactions implement it
by `INSTANCE OpaqueStore WITH records <- ...`, the last one except for a rekey. ApiService,
VaultKeys, VaultSession and DeviceSync take a store operation as one step, which is what
`StoreImplementsContract` proves of SQLite's, `AcceptedAlone` and
`TransactionsImplementContract` of PostgreSQL's. SqliteOpen's operations are RecordStore's
on one vault, cut down to revision, tombstone and stamp. ApiService extends PgSchema, so
that requests, migrators and the API's start interleave. VaultSession leaves recovery
wrappers and the wrappers' compare-and-set to VaultKeys and the queue of offline writes to
DeviceSync; VaultKeys leaves the rekey and the lock to VaultSession.

## The runs

`tlc -config <name>.cfg <module>`; the module of a run is `MC` and the model's name.

### Runs that pass

| Run | What it shows | Bounds |
|---|---|---|
| MCRecordStore | the store's invariant, rows leave only by purge or rekey, changes raise the revision, the contract | 2 vaults, 2 ids, revisions to 3, clock to 2, batches of 2 |
| MCSqliteOpen | nothing lost, an open store shows exactly the acknowledged rows, no stamp before its deletion | 2 records, revisions to 3, clock to 2, any number of opens and crashes |
| MCInMemoryStore | every step is one of the contract's or takes what a purge found expired, every call returns unless a purge and a batch block each other | 2 threads, 2 vaults, 1 id, 4 calls, batches of 2 |
| MCPgPool | slots accounted, drained means none, every get and every shutdown ends | 3 threads, 2 connections, 2 checkouts each |
| MCPgTransactions | what commits is what the call does alone, every call is answered | 2 sessions, each making one of 16 calls, on 2 vaults of 2 ids; starts with and without an expired tombstone |
| MCApiService | the rate limit, the revision a conflict names, a paging client, a migrated schema is whole | 3 requests, 2 migrators, 3 ids in a vault, pages of 1, a limit of 1 in two minutes (`LastMinute`); four scenarios |
| MCVaultKeys | a migration keeps the vault's key, a key a session has opened with stays the wrappers' and the verifier's, some kit stays live, a replaced password comes back only by a migration's second attempt | 2 devices, 2 passwords, 3 kits, 3 writes per wrapper; wrapped, legacy and new vaults |
| MCVaultSession | the vault is where the device finds it, the open page holds its key, a reset that ends leaves no row | 3 salts (two rekeys), 2 passwords, 1 ceremony at a time, 2 edits, 2 writes per row before its deletion; lost answers and another device |
| MCDeviceSync | what is saved on a copy from the service overwrites nothing, no write is stored twice, a queued write leaves only after an answer about it or about the older write it replaced | 2 devices, 2 edits, 3 revisions with 429/503; or one device deletes and restores, purges, one edit on an existing entry |
| MCDesktop | the settings name a whole vault, the last launch's snapshot stays a whole copy (of all that was found, if the checkpoint went through), an export is whole | 2 folders, 2 records, 1 picker, 1 menu thread and the startup, 2 snapshots |
| MCLibraryCalls | codecs are exact, nothing opens but what was made, the configuration is what was written | one call or a pair, inputs at and around each limit |

In MCVaultKeys the users type a legacy vault's own password until it has been migrated
(`Mistyping = FALSE`); MCVaultKeysPromises shows what else happens. A wrong password on
any other vault is always tried. In MCVaultSession `VaultFound` and `ResetTakesWholeVault`
hold until a mishap strikes and the session's key until one other than another device's
edit does, so `Mishaps` leaves out `typo`, `probe` and `overlap`. `lost` is in for the rekeys
that are served late, of which only the type invariant speaks there: what they break is
below. Failed requests, locks and reloads at every step are no mishaps.

### The run that finds a difference

MCSqliteOpenWedge checks `OpenNeverFails`, what "idempotent: safe to call on every startup"
promises: a crash between the copy and the drop of the second migration makes every later
open fail. PROJECT.json quotes the line.

### Further counterexamples

For each model `MC<model>Promises.cfg` lists what the repository's comments or documents
promise and the code does not keep (`MCLibraryCallsPromises.cfg` for the functions); each property's comment in the module quotes the
promise. They are not among the project's runs. Leave one of the lines in to see its
behaviour; each takes seconds to a few minutes.

| Configuration | Property | Behaviour |
|---|---|---|
| MCRecordStorePromises | PurgeNowEmptiesTrash | a record *put* as a tombstone has no stamp and survives every purge |
| MCSqliteOpenPromises | OpenKeepsStamps | every open stamps all tombstones anew |
| MCInMemoryStorePromises | NoLockCycle | a purge and a batch take the mutexes in opposite orders |
| | QuietLiveUnstamped | a restore between a deletion's two mutexes leaves a stamped live record |
| | KeepsContract | a purge removes a record restored since it was collected |
| MCPgPoolPromises | TimesOutOnlyForBusy | shutdown of an idle pool waits out its deadline |
| MCPgTransactionsPromises | FirstWriteConflicts | two first writes of one record: the second meets the unique key, not a conflict |
| | RekeyEmptiesScope | a row committed to the old scope during a rekey stays there |
| | TombstonesExpire | an imported or put tombstone has no stamp and is never purged |
| MCApiServicePromises | LimitPerMinute | a request that read the clock before the minute turned resets the window |
| | PagesAlwaysComplete | a purge between two pages shifts the offset past a record |
| | ServedMeansCurrent | an API whose own migration stops after the first file verifies the table and serves without the later changes |
| | RetryMeansUndone | the store's answer is lost after it committed |
| MCVaultKeysPromises | WrappersOpenVault | a mistyped legacy password, or an unlock after a half creation, seals the wrappers for a wrong key |
| | UserKeepsKit | a reload before the new kit is stored leaves no usable kit |
| | SomeKitOpens | a lost last write leaves a vault without a recovery wrapper |
| | RegenerationRevokes | a retry revokes the failed attempt's kit, the old one stays |
| | RevokedStaysRevoked | another device revives a revoked kit |
| | ReplacedPasswordStaysReplaced | the second attempt of a legacy migration overwrites a password that was changed after another device's migration (`records.js:600`) |
| MCVaultSessionPromises | VaultKept | a rekey whose answer was lost moves the vault to a scope the device has already forgotten; every other mishap does it too, the shortest is a mistyped password on a legacy vault |
| | KeyOpens | after a lost rekey, or an unlock begun twice with different passwords, the open page seals under a key the vault does not have |
| | TakesWholeVault | an edit saved between the purge and the local removal, or a late rekey, leaves rows nobody can reach |
| | LockedHoldsNoKey | a ceremony that began before the lock puts a key back (`PRD.md:328`, UX-AUTH-004) |
| | FailedResetKeepsVault | a reset cut off after the password wrapper leaves rows that no password opens |
| MCDeviceSyncPromises | CreatedCopiesOverwriteNothing | an offline entry overwrites another device's record of that name |
| | RestoredCopiesOverwriteNothing | old contents under a new revision |
| | PendingNotLost | a replay that already arrived makes the next edit a conflict |
| | DroppedOnlyWhenDecided | 429 and 503 drop the queued write |
| | RolledBackStaysBack | a rolled back toggle waits in the queue |
| | FormsOverwriteNothing | a form filled before a listing is saved under the revision of the listed entry (`modals.js:443`) and takes out the other device's edit |
| | DroppedWriteWasSent | the answer to an older write removes a newer one queued meanwhile, which was never sent (`records.js:899`) |
| MCDesktopPromises | MovedVaultIsCurrent | the checkpoint before the copy fails unnoticed, and the records in the log stay in the old folder |
| | SettingsNameWholeVault | a fold during the copy leaves a main file that is neither |
| | SettingsNameServer | two pickers at once: the settings name one folder, the server has another |
| | LaunchSnapshotKept | two picks of one folder at once: the trim of the first keeps the second's unfinished snapshot and removes its own ("then trim snapshots beyond the retention count", `vault.rs`) |
| | SnapshotIsSelfContained | the checkpoint at the opening fails unnoticed (`lib.rs:214`), and the snapshot leaves out what is in the log |
| | FailedCopyIsRemoved | a copy cut off by the end of the process stands in the way of the next move |
| | SettingsReadable | a process that ends while it writes the settings leaves half a file |
| | ExportHoldsVault | an export takes the first scope of the database, which may be the recovery wrapper's |
| MCLibraryCallsPromises | PasswordsAsLongAsAsked | the generator's loop counts bytes, so an alphabet beyond ASCII gives fewer characters |

A purge removes a row's revision with the row, so a record created again starts at 1:
`AppliedOnce` and `ListedCopiesOverwriteNothing` say "until a purge", for the latter a copy
from before the purge would match the new record's revisions.

### Bounds, and why they are enough

Every bound is a constant named `Max...`, used only in guards, or follows from a finite set
of scenarios or calls. Two vaults and two ids are the smallest instance with a rekey that
must leave another vault's rows and another id alone. Revision 3 lets a record be
created, deleted and restored; a clock of 2 has a stamp before, at and after a cutoff.
Batches of two rows include one that writes a record twice. Two threads are every pair of
calls on the two mutexes. Three threads on two connections are one holder of each and a
waiter. Two sessions are every pair of the store's calls, and the calls chosen hit the
same live row, the same missing row and the same tombstone, in both orders of two rows.
Three requests are two that race and one that reads or removes beside them; three records
under a page of one give a page before, at and after a removal. Three kits are an old one
and those of two attempts or two devices. Three writes of the password wrapper are its
first, a change and a rewrite that comes too late. Three salts are two changes of the
password in a row, or one after one that was lost; at most one rekey request is late at a
time (`LosePost`). Two devices with two edits are an edit of an existing entry and one
built on a stale copy. Two folders are a move, and the second move back. The limits of the
kernel that TLC's integers reach keep their values and those beyond have stand-ins:
`WordMax`, `LongMax` and `QuadMax` for 2^32 - 1, 2^63 - 1 and 2^64 - 1, in that order.

Deadlock is checked except where a run really ends (callers stop, requests are answered,
edits or salts are used up, the pool stays closed) or where the program itself can block
(MCInMemoryStore, which NoLockCycle shows).

Symmetry is used only in runs without liveness properties, on sets whose members no
definition tells apart: devices, requests, migrators, threads, vaults, and the kits that
no device starts with. Two runs have a VIEW, which leaves out what neither a step nor a
property reads any more: in MCDeviceSync the forms once the users have made their edits, in
MCDesktop what an export has written and what an opening saw whose checkpoint failed.

### Fairness

- **InMemoryStore**: weak fairness of each thread's `Continue`. The store is called from
  `spawn_blocking` threads, which run to the end of the call; a mutex that stays free is
  taken. No fairness on starting a call.
- **PgPool**: weak fairness of a thread's steps inside `get`, of its deadline passing, and
  of the drain. Condition variables are waited on with a timeout everywhere in the code,
  so time alone ends a wait. *No* fairness on `Release`: whether a caller gives its
  connection back is its own affair, and no property depends on it.
- **PgTransactions**: weak fairness of each session's next statement, and of the abort of a
  session that waits: `statement_timeout` is set on every connection and PostgreSQL's
  deadlock detector ends a cycle. A session that need not wait may still be aborted, but
  no property rests on that. No fairness on beginning a call.
- The other specifications state no fairness and only safety is checked.

## The proofs

Twelve modules have theorems, in eight `_proofs` modules, most beside the module they are about;
DesktopStore_proofs has those of Desktop and of the SQLite store it serves, Postgres_proofs
those of PgPool and PgTransactions (PgPool's specification is therefore `PoolSpec`, its type
invariant `PoolTypeOK`), WebClient_proofs those of VaultKeys and DeviceSync (whose
specification is `SyncSpec`, its type invariant `SyncTypeOK`), Kernel_proofs those of
LibraryCalls (whose specification is `CallsSpec`) that are about the kernel, Crates_proofs
those of SqliteOpen and of the configuration's calls, ApiService_proofs also PgSchema's. TLAPS checks them from named
assumptions and nothing else: bounds are naturals (at least 1 where the first
write has revision 1), NULL, the missing body, kit or salt are not ordinary values, the
pool's threads are finitely many and its limit at least 1, what a behaviour starts from is
one of the starts described above, a put or a delete names one record, a rekey's records lie
in the new scope, an import's revisions are at least 1 (the verifier and the table's CHECK
refuse others) and the ids of a listing are finitely many naturals. Of the arguments of the
kernel and of the configuration crate only their types are assumed (`RequestsAssumption`,
`CodecInputsAssumption`, `KernelInputsAssumption`, `ConfigInputsAssumption`: a structure has
its fields, a list is a sequence, a length or a limit is a natural, a document is a sequence
of heads whatever they announce, a recovery key is 32 bytes and its checksum five, what is
signed is one encoded item, a clock is a 64-bit number, a retention is at least -2), and that the three ceilings are ordered
(`CeilingsAssumption`). Nothing is assumed of
the number of requests, sessions, records, addresses, migrators, vaults, ids, threads,
devices, folders, kits, passwords or edits, or of the length of batches. No invariant that a
run checks is inductive as it stands; what follows says what each proof adds and why. Each
inductive invariant was first run by TLC.

*RecordStore.* The inductive invariant `StoreInv` adds two parts to "live rows carry no
stamp". `MissingIsClean` says that an empty slot is exactly `Missing`; without it a
first insert could inherit a stamp, since `Written` copies the old one for a tombstone.
`StampsPast` bounds stamps by the clock and gives the purge its meaning. There is one
lemma per operation (`PutInv` ... `PurgeInv`), joined in `StoreStepInv`.
`LiveRowsStayUnstamped` is its readable part.
`EveryChangeRaisesRevision` rests on `BatchExpectsAtLeast`: by well-founded descent along
the batch, every accepted row expects at least the revision the batch started from.
`StoreImplementsContract` maps a put, a tombstone and a batch to `Write` through that
lemma, a rekey to `Rekey` and a purge to `Purge`.

*SqliteOpen.* `NothingLost` is not inductive: it does not say which table is complete
when a crash has left both. `OpenInv` adds `CopyComplete` (from the copy on, one table
holds every acknowledged row by itself), `TableAgrees` (whatever row a table holds is the
acknowledged one) and `StampsFit` (no stamp is earlier than its deletion, and none
passes through the copy). One lemma per statement of `open` and per operation.

*InMemoryStore.* `StoreIInv` adds `HeldPlans`: a call that holds the rows mutex across its
locks has planned against rows nobody else can change, so the plan still fits when it is
applied. With it every second half is the contract's step, whatever other calls did to the
other map. A batch's last write of a slot is its largest index, so no fold is needed.

*PgPool.* `PoolInv` equates the atomic count with the idle list and the threads that hold
a slot (`Busy`), by cardinality. It does not say what closing does: `PoolIInv` adds that a
closed pool keeps no idle connection and that a drained one counts nothing, else a return
that comes late could refill the list, and a probe outlive the drain.

*PgTransactions.* `TypeOK` and `AcceptedAsIfAlone` do not say what a session has written
before it commits. `TxInv` does: its uncommitted rows are its own to write (`held`), and are
what its call, as far as it has got, does to the rows that are committed *now* (`Fits`, with
a part per kind of call). `StepKeeps` shows once that a step of one session leaves every
other session's part alone: a commit changes only rows its session holds, and `FitsFrame`
says that what a session has written depends on the committed rows of those slots only. So
each lemma of a statement looks at its own session. For put_batch the part is that the items
so far were accepted and every written row is their `Effect`, which needs no fold: the
revision is the row's plus the number of items for the slot, the tombstone flag the last
item's, and the stamp stays while all are dead. `EffectStep` adds one item to it. `Whole` (a
slot has a row or `NoRow`) is what makes a first insert start from nothing. At the commit
`TxInv` *is* the claim of `AcceptedAlone`. `TransactionsImplementContract` maps the commit
of a batch, a deletion and an import to the contract's `Write` and that of a purge, or of
one vault of a sweep, to its `Purge`; its property is in no run's list, but TLC finds that
it holds when it is added to MCPgTransactions.cfg. A rekey's commit is no step of the
contract: MCPgTransactionsPromises shows rows that stay behind in the old scope. Without FOR
UPDATE `held` would not cover the row that was compared.

*VaultKeys.* `KeysIInv` has three parts: the place and the data of every ceremony fit
(`Shape`), what it has seen of the password wrapper is not newer than the wrapper, and
what it proved is still so if the revision is (`Timely`), and a kit that is being
regenerated is known to that device alone and live once written (`Private`).
`PasswordSetByUser` follows from `Timely`, `KitStaysLive` from `Private`. The two theorems
about keys need `HonestIInv`, which adds `Faithful`: one key is all that wrappers, ceremonies
and reported sessions hold, and the verifier, if there is one, accepts it (`Secure`); or the
creation has not succeeded, nothing was reported open, and once there is a password wrapper
no key is the verifier's (`Young`), so that no ceremony can end with success. A vault without
a verifier is `Secure` with the key its password wrapper was first written with. Their hypothesis `~Mistyping` is the one of the run.

*VaultSession.* `SessionIInv` is a ladder under ever fewer mishaps: `Shape` always; one
ceremony at a time and one scope with rows (`Orderly`) and one key that a password leads to
(`Sound`, `Keyed`) while at most another device interferes; the entry as the user left it
(`Settled`) and what a reset has already deleted (`Emptied`) while nothing does. `Home` is
the scope the vault is in, the marked one once a rekey has filled it: every step of a rekey
moves either the rows or the marker, and `Home` says why no state between them loses either.

*DeviceSync.* `SyncIInv` says, until a purge, of every copy and every sealed write that
came from the service: its revision is not later than the row's, and if it is the row's it
includes all the row has (`Current`). `Once` adds that the writes of an edit expect one
revision, which the row has passed when the edit is stored. `Secret` says that nobody has
seen a favourite toggle's edit before it is stored, else a listing could show it under a
revision it was not stored with. What a device holds is stated of values alone and carried
from row to row by `Onward`. A form has a part of its own (`FormFit`): it holds no toggle,
which a save takes from the entry shown by then, and while the entry it was filled from is
the one shown it has all the other fields of it; so such a save is as good as the copy.
`FlushFit` says that a write the service has accepted from a flush was stored, which is what
`DroppedOnlyWhenAnswered` reads off the step that takes a write out of the queue. `SyncAll`
is the three together.

*Desktop.* `DesktopIInv` says what each place of a thread counts on (`ThreadFit`): an
opening has a whole folder, what it has seen is in the log or the main file, then, if its
checkpoint went through, in the main file and in its snapshot; a move copies to a folder that nobody else copies to and that holds nothing.
`Folders` says that every folder holds what it promised, `Serves` that a server has a whole
vault. `Named` (the folder of readable settings is whole, and a move's copy is that
folder's main file) needs `~FoldsDuringCopy`, as in the run; `Alone` (one opening at a
time, whose unfinished snapshot is the newest and counted on by nobody) needs that at most
one pick runs, `OnePicker`. `TurnKept` carries all this over the step of one thread once, and
the lemmas per action only say what their step does to its folder. MCDesktopPromises shows
that neither theorem holds without its hypothesis.

*ApiService.* `ServiceInv` has a part per property beside the shapes of calls and answers.
`RateInv` counts for every minute what its window has let through: a minute gets a second
window only after a request of another minute has met the first one, which `stray` counts,
so the bound grows by one limit for each. `ConflictInv` keeps, from the refusal to the second
read, that the refused revision is not the expected one and that the record has at least
it unless it was removed. `PagesInv` says that while nothing is removed a reader has seen all
it must find whose rank in the listing is below its offset; writes only raise ranks
(`RankGrows`), and a page that is not full is the listing's end (`PageFull`), by counting
ranks (`RankOnto`). `SchemaInv` says that a recorded version has its file applied and that a
migrator is past a file only when its version is recorded. A batch needs no fold: the
revision an item finds is the record's plus the number of items before it in its slot.

| Theorem | States |
|---|---|
| RecordStore: StoreInvariant, LiveRowsStayUnstamped | `[]StoreInv`, `[]LiveRowsUnstamped` |
| RowsLeaveOnlyByPurgeOrRekey, EveryChangeRaisesRevision | `RowsLeaveByPurgeOrRekey`, `ChangesRaiseRevision` |
| StoreImplementsContract | RecordStore implements OpaqueStore |
| SqliteOpen: OpenInvariant, OpenTypeCorrect | `[]OpenInv`, `[]TypeOK` |
| NothingIsLost, OpenStoreShowsCommitted, StampsNeverEarly | `[]NothingLost`, `[]OpenShowsCommitted`, `[]NeverPurgedEarly` |
| InMemoryStore: StoreInvariant, MutexesExclude | `[]StoreIInv`, `[]TypeOK` |
| InterleavedStepsKeepContract | `StepsKeepContract` |
| PgPool: PoolInvariant, SlotsStayAccounted, DrainedPoolIsEmpty | `[]PoolIInv`, `[]PoolInv`, `[]DrainedMeansNone` |
| PgTransactions: TransactionsInvariant, TransactionsTyped | `[]TxInv`, `[]TypeOK` |
| AcceptedAlone, TransactionsImplementContract | `AcceptedAsIfAlone`, `TransactionsKeepContract` |
| VaultKeys: KeysInvariant, WrappersTyped | `[]KeysIInv`, `[]TypeOK` |
| SomeKitAlwaysLive, PasswordOnlySetByUser | `KitStaysLive`, `PasswordSetByUser` |
| HonestInvariant, MigrationKeepsTheKey, ReadyVaultStaysOpen | without mistyping: `[]HonestIInv`, `[]MigrationKeepsKey`, `[]VaultInv` |
| VaultSession: SessionInvariant, SessionKeepsItsKey | `[]SessionIInv`, `[]SessionInv` |
| VaultStaysFound, ResetLeavesNothing | `[]VaultFound`, `[]ResetTakesWholeVault` |
| DeviceSync: SyncInvariant, CopiesTyped, WritesStoredOnce | `[]SyncAll`, `[]SyncTypeOK`, `[]AppliedOnce` |
| ListedCopiesAreSafe, QueuedUntilAnswered | `ListedCopiesOverwriteNothing`, `DroppedOnlyWhenAnswered` |
| Desktop: DesktopInvariant, ShellTyped, ExportsNeverCutOff | `[]DesktopIInv`, `[]TypeOK`, `[]ExportWhole` |
| SettingsNeverMislead | `[]SettingsNameWholeVault`, no fold during a copy |
| SnapshotSurvives | `[]LaunchSnapshotKept`, one pick at a time |
| ApiService: ServiceInvariant, AnswersTyped | `[]ServiceInv`, `[]TypeOK` |
| RateStaysHeld, ConflictsNameOther, PagesStayComplete | `[]RateHeld`, `[]ConflictNamesOther`, `[]PagesComplete` |
| PgSchema: MigratedStaysCurrent | `[]MigratedMeansCurrent`, of the composition ApiService |
| LibraryCalls: CallsHonourConfig, CallsOpenOnlyWhatWasMade | `[]ConfigHonoured`, `[]OpensOnlyWhatWasMade` |
| CallsAreExact | `[]CodesAreExact` |
| DecodedExactly | a document is decoded just when it is `WellFormed` within its limits |
| RecoveryComesBack, RecoveryOneForm, CharactersUniform | recovery keys and passwords, for every key, form and alphabet |
| Kernel: EncodingInjective, ManifestExact, SameCommitment | what encodings, a manifest's root and commitments fix |
| OpensWhatWasSealed, VerifiesWhatWasSigned, VerifiesWhatWasTagged | what opens and verifies, one call at a time |

*LibraryCalls.* `ConfigHonoured` is about one call, and the work is in what the functions
answer: a layer that is applied names each setting once and gives each the value it has after
it (`LayerFacts`), and every value, a default included, was validated, so it lies within its
specification (`LoadFacts`); a retention window stays within 64 bits of the clock. `OpensOnlyWhatWasMade` needs
`CallsInv`: the first call of the log answered what its function does of its arguments. Then
the second call is judged by lemmas about the kernel:

- Items are prefix-free (`PrefixFree`): the number of items still open after each head is the
  same in two readings as long as the heads are, so it reaches zero at the same place. With
  `HeadOfInjective` this makes encodings injective, and a list of items readable.
- A domain holds no zero byte, so a preimage splits into its domain and its body in one way
  (`DomainPreimageInjective`), and labels differ pairwise: every function's answers are apart
  from every other's, and each is `Exact`, which is to say equal only for arguments with the
  same `Bound`.
- The tree of a manifest is a tower of rows, each `Above` the one before. `TreesReadBack` goes
  down two towers with one root at once, by induction on the sum of their heights: nodes are
  apart from chunks, so the towers have the same cuts, and `ReduceInjective` gives the same
  chunks. A chunk fixes its index, its first and last id and its hashes, and the chunks of a
  list cover it: so the root fixes the leaves, even for two different page lengths.
- An envelope is split where its body, one item, ends; the tag verifies for the body before it.

`CodesAreExact` compares what the functions compute with definitions that do not follow them.
`CodesInv` adds that the first call of the log, if it printed a kit, answered the form of its
key; every other part is about one call, and rests on these:

- *Documents.* The decoder is a recursive function of the position, the depth and the items
  left; `WellFormed` looks at the heads alone. Between them is a count: `Counted` says how many
  items are still to come after each head, and `Reaches` where an item, or several, end: where
  the count has first fallen by so many. An item ends where the items it announces do
  (`ReachesInside`), which turns the recursion into the count. By descent on the position
  (`AllIsRead`) the decoder's answer is the end of what it was asked for if every head up to
  there is allowed, and an error otherwise. Its early refusals need an argument of their own:
  an array that announces more items than there are bytes, or than the limit leaves, could
  not have ended (`ArrayFits`). The arrays around a head are those it is still inside of
  (`ArraysAround`), which are the decoder's depth, and shortest widths are what the encoder
  writes back (`WrittenBack`). So `DecodedExactly` holds for any heads and limits.
- *Recovery keys.* A value is its bits (`BitOf`), so letters and bytes that agree bit by bit
  are the same; the padding that must be zero is what makes the form unique.
- *Passwords.* Below the threshold a character's bytes are one for each whole alphabet, which
  is a bijection onto 256 \div n numbers.

Recursive functions and folds are reasoned about here by induction over a *set* of naturals
(`Induction`: a set that holds 0 and is closed under successor holds every natural), which
needs no operator as a parameter.

So every invariant and every action property of a passing run is stated by a theorem, the
ones about mishaps, mistyping or pickers under the hypothesis of their run. Only
model-checked: liveness under fairness (`EveryCallReturns` of InMemoryStore and of
PgTransactions, `EveryWaitEnds` of PgPool), which with `ENABLED` is beyond the prover; and
the properties that fail, in MCSqliteOpenWedge and the Promises configurations, where a
behaviour is the evidence.

## What is abstracted

- **Cryptography** is symbolic: a wrapper opens with its password or kit and with nothing
  else; a hash, tag, signature, ciphertext or derived key is what went into it. The
  strength of the primitives is assumed, and the checksum of a recovery key is a stand-in
  of five bytes that depends on every position.
- **Contents** are model values, numbers or sets of edits. Where a record is stored, its
  sizes, hashes and encodings are left out, since one that fails the checks is refused before
  anything changes; the checks themselves are operators of Kernel and Config.
- **The clock** never goes back. `utc_now_epoch` reads the system clock, which an operator
  may set; a clock set back could stamp a deletion early.
- **SQLite** commits a statement whole and, with `synchronous = FULL`, durably before it
  is acknowledged.
- **One entry, one vault**: DeviceSync and VaultSession follow one entry, VaultKeys one
  vault's wrappers. In VaultSession a wrapper's write with its retry is one step, and
  `vault.meta` in memory and in local storage are the same.
- **Requests the client has given up on** are not served later, except in VaultSession
  (`late`). In DeviceSync and VaultKeys a lost answer stands for one that was served in time.
- **The client's screens**: an open form does not keep the user from other actions, so the
  model allows more orders than the page. The drawer acts on the entry that is shown; that
  its buttons keep the entry object of the moment it was opened is left out: the contents
  and the revision of that object are of one moment, so its writes are at worst refused.
- **Desktop**: the check that a folder is free and its creation are one step, as are the
  clone of the settings and the checkpoint of a menu thread. `fs::write` without a sync is
  cut by the end of the process only, not by a loss of power. Settings edited by hand to
  keep no snapshot are left out. In the passing run no log is folded while a move copies
  (`FoldsDuringCopy`); the counterexamples lift that.
- **API**: a body, a header or a query is the set of its faults; metrics, response headers
  and the embedded documents change nothing a route reads.
- **Counters** do not reach 2^63: revisions grow by one for each request a client makes.

## Other differences met on the way

Seen while translating and not worth a run of their own:

- `kernel-core/src/crypto.rs` (383-385, 443-445, 504-506) says that an envelope in any
  non-canonical encoding is rejected. The body is copied as it came, and
  `verify_mac_envelope` does not encode the envelope again to compare.
- `generator.rs:49` speaks of bounded redraws; the loop has no bound, and an alphabet of more
  than 256 characters would never finish. No caller has one.
- `leaf_hash` panics for a revision or key epoch over 2^32 - 1.
- `device_wrap_set_root` (`auth.rs:79`) leaves an entry's generation out of the root.
- The validator accepts hexadecimal of odd length, and lengths outside the kernel's buckets.
- `verifyPassword` on a vault with neither wrapper nor kit takes any password, against
  "Throws when the password is wrong".

## What is not modelled

- **The scripts the desktop shell runs in its window**, its storage information and the
  wording of its dialogs.
- **Client import, export and backup views, web views, i18n, styles**: formats and
  rendering. An import is a sequence of saves, one at a time in DeviceSync.
- **Backup files**: format, encryption and dry run; the rows an import writes are in
  PgTransactions.
- **Bindings**: marshalling to WebAssembly and C beyond what decides a call's status.
- **Deployment and gateway, metrics**: no state a property could be about.
- **Moves between folders of the vault and batch saves of several entries** in the client.

## Plan

Built so far, in this order: the store contract and SQLite, the in-memory adapter, the pool,
vault keys, device sync, PostgreSQL transactions, schema and API, desktop, kernel and
configuration, the page's session; then the proofs above. What could follow:
further actors in the compositions (several pages of one vault).
