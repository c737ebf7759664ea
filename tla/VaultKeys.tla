------------------------------ MODULE VaultKeys ------------------------------
(***************************************************************************)
(* The wrappers of a vault's key and the ceremonies of the web client that *)
(* write them.  The Vault Key seals every record and the verifier.  A      *)
(* password wrapper in the vault's scope and a recovery wrapper in the     *)
(* scope of each Recovery Key hold it for the user.  Devices run their     *)
(* ceremonies against the service one request at a time.  A request may    *)
(* not arrive, its answer may be lost after the write was committed, and a *)
(* page may be reloaded between any two requests.                          *)
(*                                                                         *)
(* The compare-and-set of the record store is taken as one step; the rows  *)
(* of the vault that are not wrappers or the verifier play no part.        *)
(***************************************************************************)
EXTENDS Naturals

CONSTANTS
  Devices,      \* pages with a session on the vault
  Passwords,    \* what users type as a Master Password
  Kits,         \* Recovery Keys
  FirstKit,     \* the kit of the device metadata the model starts with
  Starts,       \* which of "wrapped", "legacy" (before wrappers existed), "new" (not created yet)
  NoKit,        \* a device without metadata
  Mistyping,    \* whether a legacy vault is unlocked with a password that is not its own
  MaxRevision   \* bound: writes to one wrapper

ASSUME VaultKeysAssumption ==
  /\ Passwords # {}
  /\ FirstKit \in Kits
  /\ NoKit \notin Kits
  /\ Starts \subseteq {"wrapped", "legacy", "new"}
  /\ Mistyping \in BOOLEAN
  /\ MaxRevision \in Nat \ {0}

VARIABLES
  verifier,   \* the key that opens the verifier record, "none" before it exists
  password,   \* the password wrapper: what opens it and the key it holds
  recovery,   \* the recovery wrapper of every kit
  kit,        \* vault.meta.kit of each device
  stored,     \* vault.meta.kit in each device's local storage
  op,         \* the ceremony each device is in and its next request
  shown,      \* kits a ceremony has displayed
  opened      \* keys a creation, an unlock or a recovery has reported success with

vars == <<verifier, password, recovery, kit, stored, op, shown, opened>>

server == <<verifier, password, recovery>>
device == <<kit, stored, shown>>

\* The random Vault Key, and deriveRootKey of a password in this vault's scope.
VaultKey == <<"random">>
Derived(pw) == <<"derived", pw>>
Keys == {VaultKey} \cup {Derived(pw) : pw \in Passwords}
NoKey == <<"none">>

\* verifyRootKey accepts a key that opens the verifier and, in a scope that has
\* none, any key.  The first live entry of a vault without a verifier, which is
\* then tried instead, is left out: what it refuses is a failed request here.
Proves(key) == verifier \in {NoKey, key}

\* Revision 0 is a wrapper the service does not have.
NoWrap == [revision |-> 0, opens |-> "none", key |-> NoKey]
NoRecovery == [revision |-> 0, key |-> NoKey, dead |-> FALSE]

Idle == [kind |-> "none", step |-> "none", pw |-> "none", next |-> "none",
         key |-> NoKey, kit |-> NoKit, revision |-> 0, expected |-> 0,
         fresh |-> FALSE, again |-> FALSE]

At(d, kind, step) == op[d].kind \in kind /\ op[d].step = step

\* The ceremony of d goes on with the request named step.
Goto(d, step) == op' = [op EXCEPT ![d].step = step]

\* It ends, by its return or by an error it throws.
End(d) == op' = [op EXCEPT ![d] = Idle]

\* After a write: the answer arrives and the ceremony goes on, or it is lost
\* and the ceremony ends in PM-NETWORK-UNREACHABLE.
Heard(d, next) == op' = [op EXCEPT ![d] = next] \/ End(d)

-----------------------------------------------------------------------------
(* Starting a ceremony.                                                    *)

Begin(d, kind, step, pw, next) ==
  /\ op[d] = Idle
  /\ op' = [op EXCEPT ![d] = [Idle EXCEPT !.kind = kind, !.step = step,
                                          !.pw = pw, !.next = next, !.kit = kit[d]]]
  /\ UNCHANGED <<server, opened>>

\* vault.create() and initializeVault: the metadata is stored first.
Create(d, pw) ==
  /\ kit[d] = NoKit
  /\ verifier = NoKey
  /\ \A e \in Devices : kit[e] = NoKit
  /\ op[d] = Idle
  /\ op' = [op EXCEPT ![d] = [Idle EXCEPT !.kind = "create", !.step = "put verifier",
                                          !.next = pw, !.key = VaultKey, !.kit = FirstKit,
                                          !.fresh = TRUE]]
  /\ kit' = [kit EXCEPT ![d] = FirstKit]
  /\ stored' = [stored EXCEPT ![d] = FirstKit]
  /\ UNCHANGED <<server, shown, opened>>

\* The verifier is sealed under a password's key.
LegacyVault == verifier \in {Derived(pw) : pw \in Passwords}

\* A user types any password, or on a legacy vault that has no password wrapper
\* yet its own.
Types(pw) ==
  Mistyping \/ ~LegacyVault \/ password.revision > 0 \/ Derived(pw) = verifier

\* The unlock screen: resolvePendingRekey has no marker to resolve here.
Unlock(d, pw) ==
  /\ kit[d] # NoKit
  /\ Types(pw)
  /\ Begin(d, "unlock", "open", pw, pw)
  /\ UNCHANGED device

\* hasPasswordWrap chooses this path once the vault has a password wrapper.
ChangeMasterPassword(d, pw, next) ==
  /\ kit[d] # NoKit
  /\ password.revision > 0
  /\ Begin(d, "change", "open", pw, next)
  /\ UNCHANGED device

RegenerateRecoveryKey(d, pw) ==
  /\ kit[d] # NoKit
  /\ Types(pw)
  /\ Begin(d, "regenerate", "open", pw, pw)
  /\ UNCHANGED device

\* A kit the user has been shown is typed on any device.
RecoverVault(d, typed, next) ==
  /\ typed \in shown
  /\ op[d] = Idle
  /\ op' = [op EXCEPT ![d] = [Idle EXCEPT !.kind = "recover", !.step = "open kit",
                                          !.next = next, !.kit = typed]]
  /\ UNCHANGED <<server, device, opened>>

-----------------------------------------------------------------------------
(* Requests.                                                               *)

\* ensureVerifier, only ever a create.
PutVerifier(d) ==
  /\ At(d, {"create"}, "put verifier")
  /\ verifier = NoKey
  /\ verifier' = op[d].key
  /\ Heard(d, [op[d] EXCEPT !.step = "put password"])
  /\ UNCHANGED <<password, recovery, device, opened>>

\* Mutant: a legacy vault is given a random key.
LegacyKeyRandom(pw) == VaultKey

\* "The old password-derived root key IS the Vault Key".
LegacyKey(pw) == Derived(pw)

\* unlockViaWrappers: the wrapper opens with its password, or the ceremony
\* ends.  Without a wrapper the vault counts as a legacy one, the typed
\* password derives its key and both wrappers are written at once.
OpenPassword(d) ==
  /\ At(d, {"unlock", "change", "regenerate"}, "open")
  /\ \/ /\ password.revision > 0
        /\ password.opens = op[d].pw
        /\ op' = [op EXCEPT ![d] = [@ EXCEPT
             !.key = password.key, !.revision = password.revision, !.pw = "none",
             !.step = CASE op[d].kind = "unlock" -> "verify"
                        [] op[d].kind = "change" -> "put password"
                        [] op[d].kind = "regenerate" -> "new kit"]]
     \/ /\ password.revision > 0
        /\ password.opens # op[d].pw
        /\ End(d)
     \/ /\ password.revision = 0
        /\ op' = [op EXCEPT ![d] = [@ EXCEPT
             !.key = LegacyKey(op[d].pw), !.fresh = TRUE, !.next = op[d].pw,
             !.pw = "none", !.step = "put password"]]
  /\ UNCHANGED <<server, device, opened>>

\* Mutant: the rewrite asks for the current revision instead of using the one
\* the password was checked against.
RevisionProbed(d) == password.revision

\* The revision a wrapper rewrite expects.
RevisionKnown(d) == op[d].revision

\* The password wrapper is written by itself: at the end of a recovery or a
\* regeneration, not by ensureWrappers, which writes both.
Alone(d) == op[d].kind = "recover" \/ (op[d].kind = "regenerate" /\ ~op[d].fresh)

\* putOpaqueRecord of the password wrapper.  A conflict ends a write of it
\* alone; ensureWrappers reads the revision again and retries once.
PutPassword(d) ==
  /\ op[d].step = "put password"
  /\ IF password.revision = RevisionKnown(d)
     THEN /\ password.revision < MaxRevision
          /\ password' = [revision |-> password.revision + 1, opens |-> op[d].next,
                          key |-> op[d].key]
          /\ Heard(d, [op[d] EXCEPT
               !.revision = password.revision + 1, !.again = FALSE,
               !.step = CASE op[d].kind = "recover" -> "recovered"
                          [] op[d].kind = "regenerate" /\ ~op[d].fresh -> "read old"
                          [] op[d].fresh -> "put recovery"
                          [] op[d].kind = "change" /\ ~op[d].fresh -> "read recovery"])
     ELSE /\ UNCHANGED password
          /\ IF Alone(d) \/ op[d].again THEN End(d)
             ELSE op' = [op EXCEPT ![d].step = "read password", ![d].again = TRUE]
  /\ UNCHANGED <<verifier, recovery, device, opened>>

\* The existence probe of putOpaqueRecord; one that fails counts as "absent".
ReadPassword(d) ==
  /\ op[d].step = "read password"
  /\ \E found \in {password.revision, 0} :
       op' = [op EXCEPT ![d].step = "put password", ![d].revision = found]
  /\ UNCHANGED <<server, device, opened>>

\* The same probe of the recovery wrapper; it finds tombstoned rows too.
ReadRecovery(d) ==
  /\ op[d].step = "read recovery"
  /\ \E found \in {recovery[op[d].kit].revision, 0} :
       op' = [op EXCEPT ![d].step = "put recovery", ![d].expected = found]
  /\ UNCHANGED <<server, device, opened>>

\* putOpaqueRecord of the recovery wrapper, always with tombstone = false.
PutRecovery(d) ==
  /\ op[d].step = "put recovery"
  /\ LET k == op[d].kit
         expected == IF op[d].fresh THEN 0 ELSE op[d].expected
     IN  IF recovery[k].revision = expected
         THEN /\ expected < MaxRevision
              /\ recovery' = [recovery EXCEPT ![k] =
                                [revision |-> expected + 1, key |-> op[d].key, dead |-> FALSE]]
              /\ Heard(d, IF op[d].kind = "change" THEN Idle
                          ELSE [op[d] EXCEPT !.step = "verify"])
         ELSE /\ UNCHANGED recovery
              /\ IF op[d].again THEN End(d)
                 ELSE op' = [op EXCEPT ![d].step = "read recovery", ![d].again = TRUE,
                                       ![d].fresh = FALSE]
  /\ UNCHANGED <<verifier, password, device, opened>>

\* The end of a regeneration that found a legacy vault: its re-authentication
\* has written the wrappers and goes on with the new kit.
LegacyReopened(d) ==
  /\ At(d, {"regenerate"}, "verify")
  /\ op' = [op EXCEPT ![d].step = "new kit", ![d].fresh = FALSE]
  /\ UNCHANGED <<server, device, opened>>

\* fetchAll at the end of a ceremony: a key that is not proved ends it with an
\* error, with any other the session opens and seals its records.
OpenSession(d) == opened' = opened \cup (IF Proves(op[d].key) THEN {op[d].key} ELSE {})

\* Mutant: an unlock is reported before the verifier is read.
VerifyUnread(d) ==
  /\ At(d, {"unlock", "create"}, "verify")
  /\ opened' = opened \cup {op[d].key}
  /\ shown' = IF op[d].kind = "create" THEN shown \cup {kit[d]} ELSE shown
  /\ End(d)
  /\ UNCHANGED <<server, kit, stored>>

\* The end of an unlock, and of a creation, whose key the verifier was sealed
\* with.
Verify(d) ==
  /\ At(d, {"unlock", "create"}, "verify")
  /\ OpenSession(d)
  /\ shown' = IF op[d].kind = "create" THEN shown \cup {kit[d]} ELSE shown
  /\ End(d)
  /\ UNCHANGED <<server, kit, stored>>

-----------------------------------------------------------------------------
(* regenerateRecoveryKey, after the password was opened.                   *)

\* A kit is random: nobody has it, and the service has no wrapper of it.
Undrawn(new) ==
  /\ recovery[new].revision = 0
  /\ new \notin shown
  /\ \A e \in Devices : new \notin {kit[e], stored[e], op[e].kit}

\* Mutant: the old wrapper goes first, while the new one is not written yet.
NewKitDeletesOld(d, new) ==
  /\ At(d, {"regenerate"}, "new kit")
  /\ Undrawn(new)
  /\ recovery' = [recovery EXCEPT ![op[d].kit].dead = TRUE]
  /\ kit' = [kit EXCEPT ![d] = new]
  /\ Goto(d, "put new")
  /\ UNCHANGED <<verifier, password, stored, shown, opened>>

\* The new kit is in the device's memory before anything is written.
NewKit(d, new) ==
  /\ At(d, {"regenerate"}, "new kit")
  /\ Undrawn(new)
  /\ kit' = [kit EXCEPT ![d] = new]
  /\ Goto(d, "put new")
  /\ UNCHANGED <<server, stored, shown, opened>>

PutNewRecovery(d) ==
  /\ At(d, {"regenerate"}, "put new")
  /\ recovery' = [recovery EXCEPT ![kit[d]] =
                    [revision |-> 1, key |-> op[d].key, dead |-> FALSE]]
  /\ Heard(d, [op[d] EXCEPT !.step = "put password"])
  /\ UNCHANGED <<verifier, password, device, opened>>

\* The wrapper of the kit the device had; without one the ceremony ends.
ReadOldRecovery(d) ==
  /\ At(d, {"regenerate"}, "read old")
  /\ IF recovery[op[d].kit].revision = 0 THEN End(d)
     ELSE op' = [op EXCEPT ![d].step = "delete old",
                           ![d].expected = recovery[op[d].kit].revision]
  /\ UNCHANGED <<server, device, opened>>

DeleteOldRecovery(d) ==
  /\ At(d, {"regenerate"}, "delete old")
  /\ LET k == op[d].kit
     IN  IF recovery[k].revision = op[d].expected
         THEN /\ recovery[k].revision < MaxRevision
              /\ recovery' = [recovery EXCEPT ![k] =
                   [revision |-> recovery[k].revision + 1, key |-> recovery[k].key, dead |-> TRUE]]
              /\ Heard(d, [op[d] EXCEPT !.step = "show kit"])
         ELSE UNCHANGED recovery /\ End(d)
  /\ UNCHANGED <<verifier, password, device, opened>>

\* The new kit is stored and displayed.
ShowKit(d) ==
  /\ At(d, {"regenerate"}, "show kit")
  /\ stored' = [stored EXCEPT ![d] = kit[d]]
  /\ shown' = shown \cup {kit[d]}
  /\ End(d)
  /\ UNCHANGED <<server, kit, opened>>

-----------------------------------------------------------------------------
(* recoverVault.                                                           *)

\* A missing or tombstoned wrapper refuses the kit; the key is
\* proved before the device adopts the vault.
OpenKit(d) ==
  /\ At(d, {"recover"}, "open kit")
  /\ LET wrap == recovery[op[d].kit]
     IN  IF wrap.revision > 0 /\ ~wrap.dead /\ Proves(wrap.key)
         THEN /\ op' = [op EXCEPT ![d].step = "read password", ![d].key = wrap.key]
              /\ kit' = [kit EXCEPT ![d] = op[d].kit]
              /\ stored' = [stored EXCEPT ![d] = op[d].kit]
         ELSE End(d) /\ UNCHANGED <<kit, stored>>
  /\ UNCHANGED <<server, shown, opened>>

Recovered(d) ==
  /\ At(d, {"recover"}, "recovered")
  /\ OpenSession(d)
  /\ End(d)
  /\ UNCHANGED <<server, device>>

\* A request that never arrives, or a read whose answer is lost: the ceremony
\* throws, the session stays.
Fail(d) ==
  /\ op[d] # Idle
  /\ End(d)
  /\ UNCHANGED <<server, device, opened>>

\* The page is closed or reloaded: metadata comes back from local storage.
Reload(d) ==
  /\ End(d)
  /\ kit' = [kit EXCEPT ![d] = stored[d]]
  /\ UNCHANGED <<server, stored, shown, opened>>

-----------------------------------------------------------------------------

FirstPassword == CHOOSE pw \in Passwords : TRUE

\* A wrapped vault has its kit shown and both wrappers; a legacy vault has the
\* verifier only; a new vault is not on the service yet.
StartsAs(start) ==
  /\ verifier = CASE start = "wrapped" -> VaultKey
                  [] start = "legacy" -> Derived(FirstPassword)
                  [] start = "new" -> NoKey
  /\ password = IF start = "wrapped"
                THEN [revision |-> 1, opens |-> FirstPassword, key |-> VaultKey]
                ELSE NoWrap
  /\ recovery = [k \in Kits |-> IF start = "wrapped" /\ k = FirstKit
                                THEN [revision |-> 1, key |-> VaultKey, dead |-> FALSE]
                                ELSE NoRecovery]
  /\ kit = [d \in Devices |-> IF start = "new" THEN NoKit ELSE FirstKit]
  /\ shown = IF start = "wrapped" THEN {FirstKit} ELSE {}
  /\ opened = IF start = "wrapped" THEN {VaultKey} ELSE {}

Init ==
  /\ \E start \in Starts : StartsAs(start)
  /\ stored = kit
  /\ op = [d \in Devices |-> Idle]

Ceremony(d) ==
  \/ \E pw \in Passwords : Create(d, pw)
  \/ \E pw \in Passwords : Unlock(d, pw)
  \/ \E pw, next \in Passwords : ChangeMasterPassword(d, pw, next)
  \/ \E pw \in Passwords : RegenerateRecoveryKey(d, pw)
  \/ \E k \in Kits, next \in Passwords : RecoverVault(d, k, next)

Request(d) ==
  \/ PutVerifier(d)
  \/ OpenPassword(d)
  \/ PutPassword(d)
  \/ ReadPassword(d)
  \/ ReadRecovery(d)
  \/ PutRecovery(d)
  \/ LegacyReopened(d)
  \/ Verify(d)
  \/ \E new \in Kits : NewKit(d, new)
  \/ PutNewRecovery(d)
  \/ ReadOldRecovery(d)
  \/ DeleteOldRecovery(d)
  \/ ShowKit(d)
  \/ OpenKit(d)
  \/ Recovered(d)

Next == \E d \in Devices : Ceremony(d) \/ Request(d) \/ Fail(d) \/ Reload(d)

Spec == Init /\ [][Next]_vars

-----------------------------------------------------------------------------

Steps == {"none", "put verifier", "open", "put password", "read password", "read recovery",
          "put recovery", "verify", "new kit", "put new", "read old", "delete old",
          "show kit", "open kit", "recovered"}

\* Type invariant: wrappers, kits and ceremonies have the shape of the code's.
TypeOK ==
  /\ verifier \in Keys \cup {NoKey}
  /\ password \in [revision : 0 .. MaxRevision, opens : Passwords \cup {"none"},
                   key : Keys \cup {NoKey}]
  /\ recovery \in [Kits -> [revision : 0 .. MaxRevision, key : Keys \cup {NoKey},
                            dead : BOOLEAN]]
  /\ \A k \in Kits : recovery[k].revision = 0 => recovery[k] = NoRecovery
  /\ kit \in [Devices -> Kits \cup {NoKit}]
  /\ stored \in [Devices -> Kits \cup {NoKit}]
  /\ \A d \in Devices : op[d].step \in Steps /\ op[d].kit \in Kits \cup {NoKit}
  /\ shown \subseteq Kits
  /\ opened \subseteq Keys

Live(k) == recovery[k].revision > 0 /\ ~recovery[k].dead

\* Every wrapper on the service holds the key of the vault: whoever opens one
\* with the right password or kit can read the records.  A wrong password on
\* a legacy vault, or an unlock after a creation that stopped half way, writes
\* wrappers for another key, and the right password never opens the vault again.
WrappersOpenVault ==
  /\ password.revision > 0 => Proves(password.key)
  /\ \A k \in Kits : Live(k) => Proves(recovery[k].key)

\* "The legacy password-derived root key IS the Vault Key": two devices that
\* migrate a legacy vault at once, stop and try again never leave a wrapper
\* for another key, as long as the password they are given is the vault's.
MigrationKeepsKey == LegacyVault => WrappersOpenVault

\* Once a creation, an unlock or a recovery has reported success with a key,
\* records are sealed with it.  From then on the password wrapper and every live
\* recovery wrapper hold that very key and the verifier, if the vault has one,
\* accepts it: what the ceremonies of two devices do later, and wherever they
\* stop, never locks the user out of those records.  That includes a vault
\* whose verifier was never written, which accepts any key.
ReadyVaultOpens ==
  \A key \in opened :
    /\ Proves(key)
    /\ password.revision > 0 /\ password.key = key
    /\ \A k \in Kits : Live(k) => recovery[k].key = key

\* What every state of the vault keeps: its shape, and a way in.
VaultInv == TypeOK /\ ReadyVaultOpens

\* "Never neither": once some Recovery Key's wrapper is live, one always is,
\* through every regeneration, recovery and rewrite of two devices.
KitStaysLive == [][(\E k \in Kits : Live(k)) => \E k \in Kits : Live(k)']_vars

\* "The password and Recovery Key each receive their own wrapper": a vault that
\* works has a live kit.  A creation whose last write is lost leaves a vault
\* that unlocks and has none.
SomeKitOpens == opened # {} => \E k \in Kits : Live(k)

\* The write of an unlock that found a legacy vault, refused because another
\* device had migrated the vault, and tried again on the revision it then reads.
Overtaken(d) == op[d].fresh /\ op[d].again

\* The Master Password only changes where a user set it: a regeneration that
\* was proved with an older password, a creation that was delayed or any other
\* request never puts an older password back.  The one exception is the second
\* attempt of a migration that another device has finished meanwhile.
PasswordSetByUser ==
  [][password.revision > 0 /\ password'.opens # password.opens =>
       \E d \in Devices : /\ op[d].kind \in {"change", "recover"} \/ Overtaken(d)
                          /\ password'.opens = op[d].next]_vars

\* "A lost create race answers 409; one compare-and-set retry converges": a
\* password changes only by the user's hand.  The retry overwrites whatever it
\* reads, a password changed after the other device's migration included.
ReplacedPasswordStaysReplaced ==
  [][password.revision > 0 /\ password'.opens # password.opens =>
       \E d \in Devices : /\ op[d].kind \in {"change", "recover"}
                          /\ password'.opens = op[d].next]_vars

\* "So the old Recovery Key can never find the vault again": a revoked kit
\* stays revoked.  A device that still has the old kit writes its wrapper
\* again when it changes the password.
RevokedStaysRevoked ==
  [][\A k \in Kits : recovery[k].dead => recovery'[k].dead]_vars

\* "A crash between the two leaves both keys valid, never neither": a kit the
\* user was shown, or one a device has, opens the vault.  A reload after the
\* old wrapper is deleted and before the new kit is stored leaves none.
UserKeepsKit ==
  opened # {} => \E k \in shown \cup {kit[d] : d \in Devices} \cup {stored[d] : d \in Devices} :
             k \in Kits /\ Live(k)

\* "Invalidate the old kit": when a regeneration shows its new kit, no kit
\* shown before opens the vault.  A retry after a failed regeneration revokes
\* the kit of the failed one and leaves the shown one valid.
RegenerationRevokes ==
  [][shown' # shown => \A k \in shown : ~Live(k)]_vars

=============================================================================
