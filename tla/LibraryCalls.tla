----------------------------- MODULE LibraryCalls -----------------------------
(***************************************************************************)
(* Callers of the kernel and of the configuration crate, who keep what     *)
(* their calls answered: a first call, and the one whose meaning depends   *)
(* on it, an opening after a sealing, a verification after a signature, a  *)
(* decoding after an encoding, a second commitment after a first.          *)
(***************************************************************************)
EXTENDS Kernel, Config

CONSTANTS
  Documents, LimitChoices, Credentials,   \* what the decoders are given
  Entropies, Damages,                     \* recovery keys; <<position, letter>> of a damaged form
  AlphabetSizes, Lengths,                 \* of the generator, and of the records stored
  Roots, KeyContexts, Nonces, Aads, Secrets, Domains, Bodies, SigningKeys,
  Requests,                               \* for each commitment or derived key, its arguments
  OwnerFiles, CommandLines, Catalogues, Identities, Observations,
  Retentions, Clocks, ApiEnvironments, PoolEnvironments, HostLists, TlsOverrides, ValidatorInputs

-----------------------------------------------------------------------------
(* The types that callers pass their arguments in: a structure has its     *)
(* fields, a list is a sequence, a number is an integer.                   *)

HasFields(a, fields) == a = [f \in fields |-> a[f]]
IsList(s) == Len(s) \in Nat /\ s = [i \in 1..Len(s) |-> s[i]]
OptionalNumber(x) == x = None \/ \E n \in x : n \in Int /\ x = Some(n)

DeviceFields == {"device", "status", "method", "credential", "x", "y", "signCount", "backupEligible",
  "backupState", "wrapPublic", "mask", "revoked", "enrolled"}
AccountFields == ToSet(CoreBefore) \cup ToSet(CoreAfter) \cup {"methods", "devices", "wrapSetRoot"}

HasArguments(fn, a) ==
  CASE fn = "password_key" -> HasFields(a, {"password", "salt"})
    [] fn = "record_key" -> HasFields(a, {"root", "context"}) /\ IsList(a.context)
    [] fn = "unlock_key" ->
         HasFields(a, {"password", "context"}) /\ HasFields(a.context, {"deployment", "vault", "generation"})
    [] fn = "unlock_wrap" ->
         /\ HasFields(a, {"password", "root", "context"})
         /\ HasFields(a.context, {"deployment", "vault", "generation", "salt", "memory", "iterations",
                                  "parallelism", "nonce"})
    [] fn \in {"recovery_wrap_key", "recovery_auth_seed", "manifest_seed"} ->
         /\ HasFields(a, {"material", "context"})
         /\ HasFields(a.context, {"deployment", "vault", "generation", "recovery"})
    [] fn = "bootstrap_key" -> HasFields(a, {"secret", "deployment", "server"})
    [] fn = "credential_id" -> HasFields(a, {"method", "kind", "authority", "raw"})
    [] fn = "server" -> TRUE
    [] fn \in {"request", "payload", "kit_core"} -> IsList(a)
    [] fn = "device_wraps" -> IsList(a)
    [] fn = "recipient" -> HasFields(a, {"kem", "kdf", "aead", "device", "public"})
    [] fn = "session" -> /\ HasFields(a, {"policy", "issued"})
                         /\ HasFields(a.policy, {"mask", "absolute", "idle", "sessions"})
    [] fn = "account" ->
         /\ HasFields(a, AccountFields)
         /\ IsList(a.methods) /\ \A i \in DOMAIN a.methods : a.methods[i] = <<a.methods[i][1], a.methods[i][2]>>
         /\ IsList(a.devices) /\ \A i \in DOMAIN a.devices :
              HasFields(a.devices[i], DeviceFields) /\ {a.devices[i].backupEligible, a.devices[i].backupState} \subseteq BOOLEAN
    [] fn = "manifest" ->
         /\ HasFields(a, {"records", "page"}) /\ a.page \in Nat
         /\ IsList(a.records) /\ \A i \in DOMAIN a.records :
              /\ HasFields(a.records[i], {"id", "revision", "epoch", "envelope", "tombstone"})
              /\ a.records[i].tombstone \in BOOLEAN
    [] OTHER -> FALSE

ASSUME RequestsAssumption == \A fn \in DOMAIN Requests : \A a \in Requests[fn] : HasArguments(fn, a)

\* A head as it is read from bytes, whatever its width: a number, and the bytes it announces.
IsHead(h) ==
  /\ HasFields(h, {"major", "width", "n", "bytes"}) /\ {h.n, h.width, h.bytes.len} \subseteq Nat
  /\ h.major = "bytes" => h.n = h.bytes.len
  /\ h.major \in {"uint", "array", "bool"} => h.bytes = Nothing
  /\ h.major = "bool" => h.n \in {0, 1}

\* A recovery key is 32 bytes.
ASSUME CodecInputsAssumption ==
  /\ \A doc \in Documents : IsList(doc) /\ \A i \in DOMAIN doc : IsHead(doc[i])
  /\ \A l \in LimitChoices : \A f \in DOMAIN V1 : l[f] \in Nat
  /\ \A e \in Entropies : e \in [1..32 -> 0..255] /\ RecoveryChecksum(e) \in [1..5 -> 0..255]
  /\ AlphabetSizes \cup Lengths \subseteq Nat

\* What is signed is one item, as an encoder wrote it.
ASSUME KernelInputsAssumption ==
  /\ \A c \in KeyContexts : IsList(c)
  /\ \A s \in Secrets : s.len \in Nat
  /\ \A d \in Domains : IsList(d)
  /\ \A b \in Bodies : IsList(b) /\ SkipItems(b, 1, 1) = Len(b) + 1

ASSUME ConfigInputsAssumption ==
  /\ QuadMax \in Nat /\ Clocks \subseteq 0..QuadMax
  /\ \A layer \in OwnerFiles \cup CommandLines :
       /\ IsList(layer.entries)
       /\ \A i \in DOMAIN layer.entries :
            layer.entries[i].value.kind \in {"Integer", "DurationSeconds", "Bytes"} => layer.entries[i].value.n \in Int
  /\ \A identity \in Identities \cup {o.identity : o \in Observations} :
       HasFields(identity, ToSet(IdentityFields) \cup {"epoch"})
  /\ \A o \in Observations : o.unavailable \subseteq ToSet(Features) /\ o.drift \subseteq ToSet(DriftFields)
  /\ \A raw \in Retentions : OptionalNumber(raw) /\ \A n \in raw : n >= -2
  /\ \A env \in ApiEnvironments : OptionalNumber(env.body)
  /\ \A env \in PoolEnvironments : \A f \in DOMAIN PoolDefault : OptionalNumber(env[f])

-----------------------------------------------------------------------------
VARIABLE log    \* the calls so far, each with its function, its arguments and its answer

Called(fn, arg, ret) == log' = Append(log, [fn |-> fn, arg |-> arg, ret |-> ret])
First == log = <<>>
After(fn) == Len(log) = 1 /\ log[1].fn = fn /\ log[1].ret.ok

-----------------------------------------------------------------------------
(* Decoders and encoders.                                                  *)

DecodeDocument == First /\ \E doc \in Documents, l \in LimitChoices :
  NewLimits(l).ok /\ Called("document", [doc |-> doc, limits |-> l], ProtocolDecode(doc, l))

\* A host of the C interface, with a document or a null pointer.
AskStatus == First /\ \E doc \in {{}} \cup {{d} : d \in Documents} :
  Called("status", doc, Ok(FfiStatus(doc)))

DecodeCredential == First /\ \E doc \in Credentials :
  Called("credential", doc, WebAuthnDecode(doc, V1))

EncodeKit == First /\ \E e \in Entropies : Called("kit", e, Ok(EncodeRecovery(e)))

\* The holder types the form back, with at most one character wrong or missing.
DecodeKit == After("kit") /\
  \/ Called("typed", log[1].ret.val, DecodeRecovery(log[1].ret.val))
  \/ LET short == SubSeq(log[1].ret.val, 1, 70) IN Called("typed", short, DecodeRecovery(short))
  \/ \E d \in Damages :
       LET form == [log[1].ret.val EXCEPT ![d[1]] = d[2]] IN Called("typed", form, DecodeRecovery(form))

\* The password the alphabet of the first n code points makes of each byte, drawn as often
\* as the password is long.
DrawPasswords == First /\ \E n \in AlphabetSizes :
  Called("password", n, Ok([byte \in 0..255 |->
    GeneratePassword([i \in 1..8 |-> byte], [c \in 1..n |-> c], 8)]))

StoreRecord == First /\ \E n \in Lengths :
  LET body == Bin("ciphertext", n)
      hex(k) == [len |-> k, lowerHex |-> TRUE]
  IN Called("record", n, ValidateGenericRecord(
       [protocol |-> 1, suite |-> 1, revision |-> 1, ciphertext |-> body, declared |-> n,
        deployment |-> hex(32), vault |-> hex(32), record |-> hex(32),
        ciphertextHash |-> hex(64), templateHash |-> hex(64), manifestBinding |-> hex(64)]))

-----------------------------------------------------------------------------
(* Sealing, signing and committing.                                        *)

Sealing(root, context, nonce, aad, secret) ==
  LET key == DeriveRecordKeyBytes(root, context)
  IN IF key.ok THEN SealRecordBytes(key.val, nonce, aad, secret) ELSE key

Seal == First /\ \E r \in Roots, c \in KeyContexts, n \in Nonces, a \in Aads, s \in Secrets :
  Called("seal", [root |-> r, context |-> c, nonce |-> n, aad |-> a, secret |-> s], Sealing(r, c, n, a, s))

Open == After("seal") /\ \E r \in Roots, c \in KeyContexts, n \in Nonces, a \in Aads :
  \E sealed \in {log[1].ret.val, Bin("damaged", 16), Bin("damaged", 17)} :
    LET key == DeriveRecordKeyBytes(r, c) IN
    /\ key.ok
    /\ Called("open", [root |-> r, context |-> c, nonce |-> n, aad |-> a, sealed |-> sealed],
              OpenRecordBytes(key.val, n, a, sealed))

Sign == First /\ \E k \in SigningKeys, d \in Domains, b \in Bodies :
  \/ Called("sign", [key |-> k, domain |-> d, body |-> b], SignEnvelope(k, d, b))
  \/ Called("mac", [key |-> k, domain |-> d, body |-> b], MacEnvelope(d, b, k))

\* The envelope as it was made, or its tag under another body.
Verify == \E k \in SigningKeys, d \in Domains, b \in Bodies :
  \/ After("sign") /\ LET tag == DecodeCanonicalEnvelope(log[1].ret.val).val.tag
                          envelope == EncodeEnvelope(b, tag)
                      IN Called("verify", [key |-> k, domain |-> d, body |-> b], VerifyEnvelope(k, d, envelope))
  \/ After("mac") /\ LET tag == SplitEnvelope(log[1].ret.val, 32).val.tag
                         envelope == <<CborHead("array", 2, Nothing)>> \o b \o <<CborHead("bytes", 32, tag)>>
                     IN Called("verify", [key |-> k, domain |-> d, body |-> b], VerifyMacEnvelope(d, envelope, k))

Answer(request) ==
  LET a == request.arg
  IN CASE request.fn = "password_key" -> DerivePasswordKeyBytes(a.password, a.salt)
       [] request.fn = "record_key" -> DeriveRecordKeyBytes(a.root, a.context)
       [] request.fn = "unlock_key" -> DeriveUnlockKey(a.password, a.context)
       [] request.fn = "unlock_wrap" ->
            LET key == DeriveUnlockKey(a.password, a.context)
                wrap == SealUnlockWrap(key.val, a.context, a.root)
            IN IF ~key.ok THEN key ELSE IF wrap.ok THEN Ok(UnlockWrapHash(wrap.val)) ELSE wrap
       [] request.fn = "recovery_wrap_key" -> DeriveRecoveryWrapKey(a.material, a.context)
       [] request.fn = "recovery_auth_seed" -> DeriveRecoveryAuthSeed(a.material, a.context)
       [] request.fn = "manifest_seed" -> DeriveManifestSigningSeed(a.material, a.context)
       [] request.fn = "bootstrap_key" -> DeriveBootstrapKey(a.secret, a.deployment, a.server)
       [] request.fn = "credential_id" -> CredentialIdHash(a.method, a.kind, a.authority, a.raw)
       [] request.fn = "server" -> ServerIdentityHashBytes(a)
       [] request.fn = "request" -> AuthorizationRequestHash(a)
       [] request.fn = "payload" -> AuthorizationPayloadHash(a)
       [] request.fn = "kit_core" -> RecoveryKitCoreHash(a)
       [] request.fn = "device_wraps" -> DeviceWrapSetRoot(a)
       [] request.fn = "recipient" -> HpkeRecipientDescriptorHash(a.kem, a.kdf, a.aead, a.device, a.public)
       [] request.fn = "session" -> DeriveSessionResult(a.policy, a.issued)
       [] request.fn = "account" -> AccountCoreHash(a)
       [] request.fn = "manifest" ->
            LET hashes == [i \in DOMAIN a.records |-> LeafHash(a.records[i])]
            IN IF \E i \in DOMAIN hashes : ~hashes[i].ok THEN Err("panic")
               ELSE RootFromLeaves([i \in DOMAIN hashes |-> [id |-> a.records[i].id, hash |-> hashes[i].val]], a.page)

Commit == (First \/ After("commit")) /\ \E fn \in DOMAIN Requests : \E a \in Requests[fn] :
  LET request == [fn |-> fn, arg |-> a] IN Called("commit", request, Answer(request))

-----------------------------------------------------------------------------
(* Settings and environments.                                              *)

LoadSettings == First /\ \E owner \in OwnerFiles, command \in CommandLines :
  Called("load", [owner |-> owner, command |-> command], Load(owner, command))

CompileRoles == First /\ \E candidate \in Catalogues :
  Called("compile", candidate, Compile(candidate))

Bootstrap == First /\ \E identity \in Identities, observed \in Observations :
  Called("bootstrap", [identity |-> identity, observed |-> observed],
         IF Draft(identity).ok THEN AssessUntrusted(identity, observed) ELSE Draft(identity))

Sweep == First /\ \E raw \in Retentions, now \in Clocks :
  LET policy == RetentionFromEnv(raw)
  IN Called("sweep", [raw |-> raw, now |-> now],
            IF policy.ok THEN Ok(RetentionCutoff(policy.val, now)) ELSE policy)

StartApi == First /\ \E env \in ApiEnvironments : Called("api", env, ApiConfig(env))

Connect == First /\ \E env \in PoolEnvironments, hosts \in HostLists, override \in TlsOverrides :
  LET tls == TlsModeWithOverride(hosts, override)
  IN Called("connect", [env |-> env, hosts |-> hosts, override |-> override],
            IF tls.ok THEN Ok([tls |-> tls.val, pool |-> PoolFromOverrides(env)]) ELSE tls)

ValidateInput == First /\ \E r \in ValidatorInputs :
  Called("validate", r, IF ValidatorAccepts(r) THEN Ok(r) ELSE Err("invalid"))

CallsInit == log = <<>>

CallsNext ==
  \/ DecodeDocument \/ AskStatus \/ DecodeCredential \/ EncodeKit \/ DecodeKit \/ DrawPasswords \/ StoreRecord
  \/ Seal \/ Open \/ Sign \/ Verify \/ Commit
  \/ LoadSettings \/ CompileRoles \/ Bootstrap \/ Sweep \/ StartApi \/ Connect \/ ValidateInput

CallsSpec == CallsInit /\ [][CallsNext]_log

-----------------------------------------------------------------------------
(* Properties.                                                             *)

Latest == log[Len(log)]
Returned(fn) == log # <<>> /\ Latest.fn = fn /\ Latest.ret.ok

\* The items still to come after some heads, when one item was to come.
StillOpen(heads) == FoldLeft(LAMBDA n, head : n - 1 + (IF head.major = "array" THEN head.n ELSE 0), 1, heads)

\* A document that is one array, read from its heads alone: every item is counted by the
\* head that announces it, lies inside few enough arrays, and has the shortest head.
WellFormed(doc, l) ==
  LET open(i) == StillOpen(SubSeq(doc, 1, i))
      around(i) == {j \in 1..i - 1 : doc[j].major = "array" /\ SkipItems(doc, j, 1) > i}
  IN /\ doc # <<>> /\ doc[1].major = "array"
     /\ SizeOf(doc) <= l.document /\ Len(doc) <= l.items
     /\ \A i \in DOMAIN doc :
          /\ (open(i) = 0) <=> (i = Len(doc))
          /\ Cardinality(around(i)) < l.depth
          /\ doc[i].width = IF doc[i].major = "bool" THEN 0 ELSE WidthOf(doc[i].n)
          /\ \/ doc[i].major \in {"array", "bool"}
             \/ doc[i].major = "uint" /\ doc[i].n <= LongMax
             \/ doc[i].major = "bytes" /\ doc[i].n <= l.string

\* The lengths a stored ciphertext may have: a tag of 16 bytes and a bucket.
Buckets == {1024 * k : k \in 1..4} \cup {4096 * k : k \in 2..16} \cup {2^k : k \in 17..24}

\* Each of n characters comes of as many bytes, and an ASCII password has its length.
DrawnFairly(n, made) ==
  /\ \A c \in 1..n : 256 \div n = Cardinality({byte \in 0..255 : made[byte].ok /\ made[byte].val[1] = c})
  /\ n < 128 => \A byte \in 0..255 : made[byte].ok => Len(made[byte].val) = 8

\* What is accepted is exactly what the encoder writes: a document is decoded just when it is
\* well formed and within the limits, and then it is the encoding of the value returned, so no
\* value has two accepted forms (codec.rs decode, and the status of the C interface);
\* likewise a WebAuthn document, and the printed form of a recovery key, which comes back
\* whole. A password takes each character of its alphabet from the same number of bytes, and
\* has the length asked for if the alphabet is ASCII (generator.rs counts the bytes of the
\* text). A record is stored only with the length of a bucket.
CodesAreExact ==
  /\ log # <<>> /\ Latest.fn = "document" =>
       /\ Latest.ret.ok <=> WellFormed(Latest.arg.doc, Latest.arg.limits)
       /\ Latest.ret.ok => Encoding(Latest.ret.val) = Latest.arg.doc
  /\ Returned("status") => (Latest.ret.val = "Ok" <=> \E doc \in Latest.arg : WellFormed(doc, V1))
  /\ Returned("credential") => EncodeWebAuthn(Latest.ret.val) = Latest.arg
  /\ log # <<>> /\ Latest.fn = "typed" =>
       /\ Latest.ret.ok => EncodeRecovery(Latest.ret.val) = Latest.arg
       /\ Latest.arg = log[1].ret.val => Latest.ret = Ok(log[1].arg)
  /\ Returned("password") => DrawnFairly(Latest.arg, Latest.ret.val)
  /\ log # <<>> /\ Latest.fn = "record" => (Latest.ret.ok <=> Latest.arg - 16 \in Buckets)

\* What a commitment fixes: all of its arguments, but not the page of the tree (one page
\* holds what several would), nor the generation of a device wrap, which it is not given.
Bound(request) ==
  CASE request.fn = "manifest" -> request.arg.records
    [] request.fn = "device_wraps" ->
         [i \in DOMAIN request.arg |-> <<request.arg[i].device, request.arg[i].status, request.arg[i].envelope>>]
    [] OTHER -> request.arg

\* A ciphertext opens only under the root key, the context, the nonce and the associated data
\* it was sealed with, and then to what was sealed; a signature or a tag verifies only under
\* its key, for its domain and over its body; and two derived keys or commitments are equal
\* only when the same function made them of the same arguments (crypto.rs, auth.rs,
\* account_state.rs, manifest.rs, session.rs, unlock.rs).
OpensOnlyWhatWasMade ==
  /\ log # <<>> /\ Latest.fn = "open" =>
       LET made == log[1].arg
       IN /\ Latest.ret.ok <=> /\ Latest.arg.sealed = log[1].ret.val
                             /\ \A f \in {"root", "context", "nonce", "aad"} : Latest.arg[f] = made[f]
          /\ Latest.ret.ok => Latest.ret.val = made.secret
  /\ log # <<>> /\ Latest.fn = "verify" => (Latest.ret.ok <=> Latest.arg = log[1].arg)
  /\ Len(log) = 2 /\ Returned("commit") =>
       LET one == log[1].arg  other == log[2].arg
       IN /\ log[1].ret.val = log[2].ret.val => one.fn = other.fn
          /\ one.fn = other.fn /\ log[1].ret.val = log[2].ret.val => Bound(one) = Bound(other)

\* What a setting may be, whatever layer it comes from.
Accepts(s, v) ==
  /\ v.kind = s.kind
  /\ v.kind \in {"Integer", "DurationSeconds", "Bytes"} => v.n \in s.range[1]..s.range[2]
  /\ v.kind = "SecretReference" => v.text.prefix = "/run/secrets/" /\ "?" \notin ToSet(v.text.parts)
                                     /\ ".." \notin ToSet(v.text.parts)
  /\ v.kind = "Path" => v.text.prefix = "/run/config/" /\ v.text.len <= 256
  /\ v.kind = "String" => s.allowed = {} \/ v.text.is \in s.allowed

\* What the layers say a setting is: the value that one gives it, and the one that counts.
Given(entries, id) == {entries[i].value : i \in {j \in DOMAIN entries : entries[j].id = id}}
Source(owner, command, id) ==
  IF Given(command.entries, id) # {} THEN Given(command.entries, id)
  ELSE IF Given(owner.entries, id) # {} THEN Given(owner.entries, id) ELSE SpecOf(id).default

\* Every setting of a configuration that loads is the command line's, else the owner file's,
\* else the default, is allowed, and names no secret the command line gave; none that is
\* required is missing (resolved.rs load).
LoadedAsWritten ==
  Returned("load") =>
    /\ DOMAIN Latest.ret.val = SettingIds
    /\ \A id \in SettingIds : /\ Source(Latest.arg.owner, Latest.arg.command, id) = {Latest.ret.val[id]}
                              /\ Accepts(SpecOf(id), Latest.ret.val[id])
    /\ \A i \in DOMAIN Latest.arg.command.entries : Latest.arg.command.entries[i].value.kind # "SecretReference"

\* A role is planned for the services that touch the database, and no other (role_plan.rs);
\* the bootstrap creates nothing unless it was told to expect exactly this destination, which
\* is absent, can do what is needed, and it then verifies whatever can drift (bootstrap_plan.rs).
RolesAsPlanned ==
  /\ Returned("compile") => \A s \in DOMAIN Latest.arg.services :
       ForService(Latest.ret.val, s) = IF Latest.arg.services[s].operations = <<>> THEN None ELSE Some(s)
  /\ Returned("bootstrap") =>
       LET creates == ToSet(Latest.ret.val) \cap (ToSet(Roles) \cup {"CreateDatabase", "CreateApplicationSchema"})
       IN /\ creates # {} => Latest.arg.observed.destination = "Absent"
          /\ creates \in {{}, ToSet(Roles) \cup {"CreateDatabase", "CreateApplicationSchema"}}
          /\ Latest.arg.observed.identity = Latest.arg.identity /\ IsComplete(Latest.arg.identity)
          /\ Latest.arg.observed.unavailable = {} /\ Latest.arg.observed.drift = {}
          /\ ToSet(VerifyActions) \subseteq ToSet(Latest.ret.val)

\* No tombstone younger than the window is purged, whatever the clock says (worker lib.rs); the
\* API starts only with a stated policy, a token where it asks for one and a ceiling for bodies;
\* a remote database is never reached in the clear unless the operator wrote so, and no limit of
\* the pool is zero (postgres lib.rs).
EnvironmentHonoured ==
  /\ Returned("sweep") => \A cutoff \in Latest.ret.val :
       LET days == IF Latest.arg.raw \in {None, Some(-2)} THEN 30 ELSE CHOOSE n \in Latest.arg.raw : TRUE
       IN cutoff = 0 \/ (cutoff <= Latest.arg.now /\ (Latest.arg.now - cutoff) \div 86400 >= days)
  /\ Returned("sweep") /\ Latest.arg.raw = Some(0) => Latest.ret.val = None
  /\ Returned("api") => /\ Latest.ret.val.body > 0 /\ Latest.arg.auth # None
                        /\ Latest.arg.auth = Some("token") => Latest.ret.val.token = Latest.arg.token
                                                            /\ Latest.ret.val.token = Some("t")
  /\ Returned("connect") =>
       /\ "remote" \in ToSet(Latest.arg.hosts) /\ Latest.arg.override # "disabled-insecure"
            => Latest.ret.val.tls = "Required"
       /\ \A f \in DOMAIN Latest.ret.val.pool : Latest.ret.val.pool[f] > 0

\* The configuration is what the operator wrote, and nothing weaker.
ConfigHonoured == LoadedAsWritten /\ RolesAsPlanned /\ EnvironmentHonoured
-----------------------------------------------------------------------------
(* What the code promises and does not keep.                               *)

\* generator.rs: "Generate a `length`-character password".  The loop ends by the bytes of
\* the text, so an alphabet with other than ASCII characters gives fewer characters.
PasswordsAsLongAsAsked ==
  Returned("password") => \A byte \in 0..255 :
    Latest.ret.val[byte].ok => Len(Latest.ret.val[byte].val) = 8

=============================================================================
