------------------------------- MODULE Config -------------------------------
(***************************************************************************)
(* The configuration crate, and the settings the services read from the    *)
(* environment: functions of what an operator wrote, without state.        *)
(*                                                                         *)
(* A text is what the checks read of it: what it is, its length, whether   *)
(* it has the form of a database name, and the prefix and the parts of a   *)
(* path.  An optional value is a set of at most one element.               *)
(***************************************************************************)
EXTENDS Integers, Sequences, FiniteSets, SequencesExt, Results

None == {}
Some(x) == {x}

-----------------------------------------------------------------------------
(* Specifications of settings.                                             *)

Number(id, kind, least, most, default) ==
  [id |-> id, kind |-> kind, range |-> <<least, most>>, longest |-> None, pattern |-> "", allowed |-> {},
   mode |-> "Default", default |-> Some([kind |-> kind, n |-> default])]

Named(is, length) == [is |-> is, len |-> length, name |-> TRUE, prefix |-> "", parts |-> <<>>]

Choice(id, allowed, default, length) ==
  [id |-> id, kind |-> "String", range |-> <<>>, longest |-> None, pattern |-> "", allowed |-> allowed,
   mode |-> "Default", default |-> Some([kind |-> "String", text |-> Named(default, length)])]

Required(id, kind) ==
  [id |-> id, kind |-> kind, range |-> <<>>, longest |-> None, pattern |-> "", allowed |-> {},
   mode |-> "Required", default |-> None]

Secret(id) == Required(id, "SecretReference")
DatabaseName(id) == [Required(id, "String") EXCEPT !.longest = Some(63), !.pattern = "name"]
ConfigPath(id) == [Required(id, "Path") EXCEPT !.longest = Some(256), !.pattern = "path"]
Defaulted(s, v) == [s EXCEPT !.mode = "Default", !.default = Some(v)]
StringList(id, least, most) == [Required(id, "StringList") EXCEPT !.range = <<least, most>>]

SettingsToMigrator == {
  Number("backend.auth.max-concurrent-sessions", "Integer", 1, 16, 5),
  Secret("backend.auth.server-identity-key"),
  Secret("backend.database.api-password"),
  Secret("backend.database.backup-password"),
  ConfigPath("backend.database.ca-file"),
  Number("backend.database.connect-timeout-seconds", "DurationSeconds", 1, 15, 5),
  StringList("backend.database.hosts", 1, 8),
  Secret("backend.database.migrator-password")}

SettingsToTls == {
  DatabaseName("backend.database.name"),
  Number("backend.database.pool-api", "Integer", 1, 50, 10),
  Number("backend.database.pool-worker", "Integer", 1, 25, 5),
  Number("backend.database.port", "Integer", 1, 65535, 5432),
  Number("backend.database.query-timeout-seconds", "DurationSeconds", 1, 120, 30),
  Secret("backend.database.restore-password"),
  Defaulted(DatabaseName("backend.database.schema"), [kind |-> "String", text |-> Named("veyora_v1", 9)]),
  Choice("backend.database.tls-mode", {"verify-full"}, "verify-full", 11)}

SettingsToLease == {
  Secret("backend.database.worker-password"),
  Number("backend.idempotency.retention-seconds", "DurationSeconds", 3600, 604800, 86400),
  Choice("backend.log.format", {"json"}, "json", 4),
  Choice("backend.log.level", {"error", "warn", "info", "debug"}, "info", 4),
  Number("backend.queue.backlog-alert-count", "Integer", 100, 100000, 10000),
  Number("backend.queue.claim-default-count", "Integer", 1, 64, 4),
  Number("backend.queue.claim-max-count", "Integer", 1, 64, 64),
  Number("backend.queue.lease-seconds", "DurationSeconds", 5, 300, 60)}

SettingsToSync == {
  Number("backend.queue.max-attempts", "Integer", 1, 10, 5),
  Number("backend.quota.live-records", "Integer", 1, 100000, 10000),
  Number("backend.quota.relationships", "Integer", 0, 1000000, 50000),
  Number("backend.session.absolute-ttl-seconds", "DurationSeconds", 3600, 604800, 86400),
  Number("backend.session.idle-ttl-seconds", "DurationSeconds", 60, 3600, 900),
  Number("backend.snapshot.lease-ttl-seconds", "DurationSeconds", 30, 900, 300),
  Number("backend.snapshot.page-max-bytes", "Bytes", 65536, 4194304, 4194304),
  Number("backend.sync.page-size", "Integer", 1, 2000, 500)}

SettingsToTombstone == {
  Number("backend.sync.record-size-bytes", "Bytes", 1024, 16777216, 1048576),
  Number("backend.tombstone.retention-days", "Integer", 7, 90, 30)}

GeneratedSettings ==
  SettingsToMigrator \cup SettingsToTls \cup SettingsToLease \cup SettingsToSync \cup SettingsToTombstone

SettingIds == {s.id : s \in GeneratedSettings}
SpecOf(id) == CHOOSE s \in GeneratedSettings : s.id = id

-----------------------------------------------------------------------------
(* What a setting accepts.                                                 *)

\* "?" is a part with a character outside letters, digits, dot, underscore and hyphen.
ValidMountedPath(text, prefix) ==
  /\ text.prefix = prefix
  /\ text.parts # <<>>
  /\ ToSet(text.parts) \cap {"", ".", "..", "?"} = {}

ValidSecretReference(text) == ValidMountedPath(text, "/run/secrets/") /\ text.len <= 268

MatchesPattern(pattern, text) ==
  CASE pattern = "path" -> ValidMountedPath(text, "/run/config/")
    [] pattern = "name" -> text.name
    [] pattern = "" -> TRUE

Within(range, n) == range[1] <= n /\ n <= range[2]

ValidateText(spec, text) ==
  /\ \A longest \in spec.longest : text.len <= longest
  /\ spec.allowed = {} \/ text.is \in spec.allowed
  /\ MatchesPattern(spec.pattern, text)

Validate(spec, value) ==
  IF value.kind # spec.kind THEN Err("TypeMismatch")
  ELSE CASE value.kind \in {"Integer", "DurationSeconds", "Bytes"} ->
              IF Within(spec.range, value.n) THEN Ok(value) ELSE Err("OutOfBounds")
         [] value.kind \in {"String", "Path"} ->
              IF ValidateText(spec, value.text) THEN Ok(value) ELSE Err("OutOfBounds")
         [] value.kind = "StringList" ->
              IF Within(spec.range, Len(value.items)) THEN Ok(value) ELSE Err("OutOfBounds")
         [] value.kind = "SecretReference" ->
              IF ValidSecretReference(value.text) THEN Ok(value) ELSE Err("InvalidSecretReference")

-----------------------------------------------------------------------------
(* Two layers over the defaults.                                           *)

ValidateGeneratedProjection ==
  /\ Cardinality(GeneratedSettings) = 34
  /\ \A s, t \in GeneratedSettings : s.id = t.id => s = t
  /\ \A s \in GeneratedSettings : (s.mode = "Default") <=> (s.default # None)

Defaults == [id \in {s.id : s \in {t \in GeneratedSettings : t.default # None}} |->
              CHOOSE v \in SpecOf(id).default : TRUE]

\* The layer with the entry of an id set anew, or added at its end.
Replace(layer, id, value) ==
  LET entry == [id |-> id, value |-> value]
      at == {i \in DOMAIN layer.entries : layer.entries[i].id = id}
  IN [layer EXCEPT !.entries =
        IF at = {} THEN Append(@, entry) ELSE [@ EXCEPT ![CHOOSE i \in at : \A j \in at : i <= j] = entry]]

\* The first thing wrong with entry i of a layer, none when it is applied; a mutant takes a
\* secret from the command line too.
EntryErrorAnySource(entries, i, secrets) ==
  LET e == entries[i]
  IN IF \E j \in 1..i - 1 : entries[j].id = e.id THEN Some("DuplicateSetting")
     ELSE IF e.id \notin SettingIds THEN Some("UnknownSetting")
     ELSE IF Validate(SpecOf(e.id), e.value).ok THEN None ELSE Some(Validate(SpecOf(e.id), e.value).val)

EntryError(entries, i, secrets) ==
  LET e == entries[i]
  IN IF \E j \in 1..i - 1 : entries[j].id = e.id THEN Some("DuplicateSetting")
     ELSE IF e.id \notin SettingIds THEN Some("UnknownSetting")
     ELSE IF e.value.kind = "SecretReference" /\ ~secrets THEN Some("SecretReferenceSource")
     ELSE IF Validate(SpecOf(e.id), e.value).ok THEN None ELSE Some(Validate(SpecOf(e.id), e.value).val)

ApplyLayer(layer, values, secrets) ==
  LET wrong == {i \in DOMAIN layer.entries : EntryError(layer.entries, i, secrets) # None}
      first == CHOOSE i \in wrong : \A j \in wrong : i <= j
      valueOf(id) == LET i == CHOOSE i \in DOMAIN layer.entries : layer.entries[i].id = id
                     IN layer.entries[i].value
      ids == {layer.entries[i].id : i \in DOMAIN layer.entries}
  IN IF wrong # {} THEN Err(CHOOSE code \in EntryError(layer.entries, first, secrets) : TRUE)
     ELSE Ok([id \in ids \cup DOMAIN values |-> IF id \in ids THEN valueOf(id) ELSE values[id]])

Load(owner, command) ==
  LET file == ApplyLayer(owner, Defaults, TRUE)
      both == ApplyLayer(command, file.val, FALSE)
  IN IF ~ValidateGeneratedProjection THEN Err("InvalidProjection")
     ELSE IF owner.owner # "backend" \/ command.owner # "backend" THEN Err("OwnerMismatch")
     ELSE IF owner.version # 1 \/ command.version # 1 THEN Err("VersionMismatch")
     ELSE IF \E s \in GeneratedSettings : \E v \in s.default : ~Validate(s, v).ok THEN Err("OutOfBounds")
     ELSE IF ~file.ok THEN file
     ELSE IF ~both.ok THEN both
     ELSE IF \E s \in GeneratedSettings : s.mode = "Required" /\ s.id \notin DOMAIN both.val
     THEN Err("MissingRequired") ELSE both

-----------------------------------------------------------------------------
(* Roles.                                                                  *)

Roles == <<"api", "worker", "migrator", "backup", "restore">>

Capability(routes, operations, secrets, targets, volumes, jobs, observed, stdin) ==
  [routes |-> routes, operations |-> operations, secrets |-> secrets, targets |-> targets,
   volumes |-> volumes, jobs |-> jobs, observed |-> observed, stdin |-> stdin]

CanonicalServiceCapabilities ==
  [version |-> 1, default |-> "deny", services |->
    [gateway |-> Capability(<<"public-gateway">>, <<>>, <<>>, <<"api", "web">>, <<>>, <<>>, <<"gateway-metrics">>, None),
     api |-> Capability(<<"private-api">>, <<"api-transaction">>, <<"server-identity-key", "database-api-password">>,
               <<"postgresql">>, <<>>, <<"enqueue-outbox">>, <<"api-metrics">>, None),
     worker |-> Capability(<<>>, <<"worker-lease", "outbox">>, <<"database-worker-password">>,
               <<"postgresql">>, <<>>, <<"worker-jobs">>, <<"worker-metrics">>, None),
     web |-> Capability(<<"static-assets">>, <<>>, <<>>, <<>>, <<>>, <<>>, <<>>, None),
     validator |-> Capability(<<>>, <<>>, <<>>, <<>>, <<>>, <<>>, <<>>, Some(<<"bounded-ciphertext">>)),
     migrator |-> Capability(<<>>, <<"schema-migration">>, <<"database-migrator-password">>,
               <<"postgresql">>, <<>>, <<>>, <<"migration-status">>, None),
     backup |-> Capability(<<>>, <<"logical-snapshot">>,
               <<"database-backup-password", "backup-key", "receipt-signing-key">>,
               <<"postgresql", "backup-target">>, <<"backup-staging">>, <<"backup-once">>, <<"backup-status">>, None),
     restore |-> Capability(<<>>, <<"provisional-restore">>, <<"database-restore-password", "backup-key">>,
               <<"provisional-postgresql", "operator-egress-proxy">>, <<"restore-staging">>, <<"restore-once">>,
               <<"restore-status">>, None)]]

Compile(candidate) ==
  IF candidate.version # 1 THEN Err("VersionMismatch")
  ELSE IF candidate.default # "deny" THEN Err("DefaultMustDeny")
  ELSE IF candidate # CanonicalServiceCapabilities THEN Err("CapabilityMismatch")
  ELSE Ok(Roles)

ForService(plans, service) ==
  IF service \in {"gateway", "web", "validator"} THEN None ELSE {service} \cap ToSet(plans)

-----------------------------------------------------------------------------
(* The bootstrap of an external database.                                  *)

ZeroDigest == "zero"
IdentityFields == <<"plan", "destination", "configuration", "capabilities", "contract">>
Features == <<"DatabaseCreation", "SchemaCreation", "RoleCreation", "DefaultPrivileges", "OwnershipInspection">>
DriftFields == <<"Owner", "RoleAttributes", "Grants", "SearchPath", "DefaultPrivileges">>

Identity(plan, destination, configuration, contract, epoch) ==
  [plan |-> plan, destination |-> destination, configuration |-> configuration,
   capabilities |-> "catalogue", contract |-> contract, epoch |-> epoch]

IsComplete(identity) ==
  identity.epoch > 0 /\ \A i \in DOMAIN IdentityFields : identity[IdentityFields[i]] # ZeroDigest

Draft(identity) == IF IsComplete(identity) THEN Ok(identity) ELSE Err("IdentityRequired")

\* The first name of a sequence that is in a set, none when there is none.
FirstOf(names, S) ==
  LET found == {i \in DOMAIN names : names[i] \in S}
  IN IF found = {} THEN None ELSE Some(names[CHOOSE i \in found : \A j \in found : i <= j])

IdentityMismatch(expected, observed) ==
  FirstOf(Append(IdentityFields, "epoch"), {f \in DOMAIN expected : expected[f] # observed[f]})

FirstUnavailable(unavailable) == FirstOf(Features, unavailable)
FirstReportedDrift(drift) == FirstOf(DriftFields, drift)

VerifyActions == <<"VerifyOwner", "VerifyRoleAttributes", "VerifyGrants", "VerifySearchPath", "VerifyDefaultPrivileges">>
InspectActions == <<"RequireExclusiveGuard", "InspectDestination">>
ApplyActions ==
  InspectActions \o <<"CreateDatabase", "CreateApplicationSchema">> \o Roles
    \o <<"EnforceDenyByDefault">> \o VerifyActions
VerifyOnlyActions == InspectActions \o VerifyActions

Fails(code, detail) == [ok |-> FALSE, val |-> code, detail |-> detail]

AssessUntrusted(identity, observed) ==
  LET field == IdentityMismatch(identity, observed.identity)
      feature == FirstUnavailable(observed.unavailable)
      drift == FirstReportedDrift(observed.drift)
  IN IF field # None THEN Fails("ObservationIdentityMismatch", field)
     ELSE IF feature # None THEN Fails("ManagedFeatureUnavailable", feature)
     ELSE IF drift # None THEN Fails("DiagnosticDrift", drift)
     ELSE CASE observed.destination = "Absent" -> Ok(ApplyActions)
            [] observed.destination = "ExactCompleted" -> Ok(VerifyOnlyActions)
            [] OTHER -> Fails("PreExistingStateMismatch", None)

-----------------------------------------------------------------------------
(* What the services read from the environment.  A variable is None or the *)
(* number it parses to, -1 when it does not, -2 when it is blank.          *)

RetentionFromEnv(raw) ==
  CASE raw = None \/ raw = Some(-2) -> Ok(Some(30))
    [] raw = Some(0) -> Ok(None)
    [] raw = Some(-1) -> Err("malformed")
    [] OTHER -> Ok(raw)

RetentionCutoff(policy, now) ==
  {LET window == IF days > QuadMax \div 86400 THEN QuadMax ELSE days * 86400
   IN IF window > now THEN 0 ELSE now - window : days \in policy}

\* The fields of ApiProblems are the variables that stop the service from starting.
ApiProblems(env) ==
  {v \in {"bind"} : env.bind = None}
  \cup {v \in {"auth"} : ~(env.auth = Some("disabled") \/ (env.auth = Some("token") /\ env.token \in {Some("t")}))}
  \cup {v \in {"rate"} : env.rate = Some(-1)}
  \cup {v \in {"body"} : ~(\E n \in env.body : n > 0)}

ApiConfig(env) ==
  IF ApiProblems(env) # {} THEN Err(ApiProblems(env))
  ELSE Ok([bind |-> env.bind, token |-> IF env.auth = Some("token") THEN env.token ELSE None,
           cors |-> SelectSeq(env.cors, LAMBDA origin : origin # ""),
           rate |-> IF env.rate \in {None, Some(-2)} THEN 0 ELSE CHOOSE n \in env.rate : TRUE,
           body |-> CHOOSE n \in env.body : TRUE])

PoolDefault == [size |-> 8, acquire |-> 3000, statement |-> 15000, idle |-> 300]
PoolFromOverrides(env) ==
  [f \in DOMAIN PoolDefault |->
    IF \E n \in env[f] : n >= 0 THEN LET n == CHOOSE n \in env[f] : TRUE IN IF n > 1 THEN n ELSE 1
    ELSE PoolDefault[f]]

\* Hosts are "socket", "local" or "remote".
TlsModeWithOverride(hosts, override) ==
  LET remote == "remote" \in ToSet(hosts)
  IN CASE override = "verify-full" -> Ok("Required")
       [] override = "disabled-insecure" -> Ok(IF remote THEN "AcknowledgedInsecure" ELSE "None")
       [] override \in {"", "auto"} -> Ok(IF remote THEN "Required" ELSE "None")
       [] OTHER -> Err("StoreUnavailable")

\* The record a validator reads from its input; the fields it does not name are ignored.
ValidatorAccepts(r) ==
  /\ r.protocol = 1 /\ r.suite = 1
  /\ r.ciphertext.hex /\ r.ciphertext.len >= 2
  /\ r.hash.hex /\ r.hash.len = 64
  /\ r.record.len > 0
=============================================================================
