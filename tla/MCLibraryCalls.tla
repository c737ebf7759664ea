---------------------------- MODULE MCLibraryCalls ----------------------------
(* The inputs TLC gives the kernel and the configuration crate: at and around *)
(* every limit, and arguments that differ in one field at a time.             *)
EXTENDS LibraryCalls

MCChecksum(bytes) ==
  LET sum(weight(_)) == FoldLeft(LAMBDA n, i : (n + weight(i) * bytes[i]) % 251, 0, [i \in DOMAIN bytes |-> i])
  IN <<sum(LAMBDA i : i), sum(LAMBDA i : i * i), sum(LAMBDA i : 1), sum(LAMBDA i : i + 7), Len(bytes)>>

Wider(head) == [head EXCEPT !.width = IF @ = 0 THEN 1 ELSE 2 * @]

-----------------------------------------------------------------------------
(* Documents.                                                              *)

ArrayOf(n) == CborHead("array", n, Nothing)
StringOf(n) == CborHead("bytes", n, Bin("string", n))

Heads ==
  {ArrayOf(0), ArrayOf(1), ArrayOf(2), Wider(ArrayOf(1)), ZeroByte, Wider(ZeroByte),
   StringOf(0), StringOf(3), Wider(StringOf(3)), CborHead("bool", 1, Nothing), CborHead("text", 1, Bin("t", 1))}

Ends ==
  {CborHead("uint", 23, Nothing), CborHead("uint", 24, Nothing), CborHead("uint", 255, Nothing),
   CborHead("uint", 65536, Nothing), CborHead("uint", WordMax, Nothing), CborHead("uint", WordMax + 1, Nothing),
   CborHead("uint", LongMax, Nothing), CborHead("uint", LongMax + 1, Nothing),
   StringOf(V1.string), StringOf(V1.string + 1), Wider(CborHead("uint", 24, Nothing))}

Nested(n) == [i \in 1..n |-> IF i < n THEN ArrayOf(1) ELSE ZeroByte]
Row(n) == <<ArrayOf(n)>> \o [i \in 1..n |-> ZeroByte]

MCDocuments ==
  UNION {[1..n -> Heads] : n \in 0..3}
  \cup {<<ArrayOf(n)>> \o rest : n \in {1, 2}, rest \in [1..4 -> Heads]}
  \cup {<<ArrayOf(1), end>> : end \in Ends}
  \cup {Nested(n) : n \in 31..34} \cup {Row(n) : n \in {4, 5}}
  \cup {<<ArrayOf(2), StringOf(V1.string), StringOf(n)>> : n \in {65527, 65528}}

Tight == [document |-> 8, items |-> 5, string |-> 2, depth |-> 2, secret |-> 1]
MCLimitChoices == {V1, Tight, [Tight EXCEPT !.depth = 0], [V1 EXCEPT !.items = 4097]}

-----------------------------------------------------------------------------
(* WebAuthn documents: right, and with one head changed, lost or added.    *)

MCCurvePoints == {<<Bin("x", 32), Bin("y", 32)>>}
Attestation(n) == EncodeWebAuthn([kind |-> "attestation", data |-> Bin("data", n)])
CoseKey(x, y) == EncodeWebAuthn([kind |-> "es256", x |-> x, y |-> y])

RightCredentials ==
  {Attestation(n) : n \in {36, 37, 1024, 1025}}
  \cup {CoseKey(x, y) : x \in {Bin("x", 32), Bin("x", 31)}, y \in {Bin("y", 32), Bin("z", 32)}}

Altered(doc) ==
  {doc, Append(doc, ZeroByte), SubSeq(doc, 1, Len(doc) - 1)}
  \cup UNION {{[doc EXCEPT ![i] = Wider(doc[i])], [doc EXCEPT ![i] = ZeroByte]} : i \in DOMAIN doc}
MCCredentials == UNION {Altered(doc) : doc \in RightCredentials} \cup {<<>>, <<CborHead("map", 4, Nothing)>>}

-----------------------------------------------------------------------------
(* Recovery kits, and lengths.                                             *)

MCEntropies == {[i \in 1..32 |-> 0], [i \in 1..32 |-> (37 * i) % 256], [i \in 1..32 |-> 255]}
MCDamages == {1, 2, 6, 59, 66, 70, 71} \X (0..33)
MCLengths == {n + 16 : n \in {0, 1, 1023, 1024, 1025, 2048, 4096, 5120, 6144, 8192, 10240, 65536, 69632,
                              131072, 131073, 196608, 16777216, 16777217, 33554432}}

-----------------------------------------------------------------------------
(* Keys, records and envelopes.                                            *)

MCRoots == {Bin("root", 32), Bin("other root", 32), Bin("short", 31)}
MCKeyContexts == {<<ZeroByte>>, <<CborHead("uint", 1, Nothing)>>}
MCNonces == {Bin("nonce", 24), Bin("other nonce", 24), Bin("short", 23)}
MCAads == {<<>>, <<ZeroByte>>}
MCSecrets == {Nothing, Bin("secret", 1), Bin("secret", 1024), Bin("secret", 1025)}

A == Text("a", 1)
Pair == <<ArrayOf(2), ZeroByte, CborHead("uint", 1, Nothing)>>
MCDomains == {<<>>, <<A>>, <<A, ZeroByte, ArrayOf(2)>>, <<Text("b", 1)>>}
MCBodies == {Pair, <<CborHead("uint", 1, Nothing)>>, <<ArrayOf(1), ZeroByte>>}
MCSigningKeys == {"k1", "k2"}

-----------------------------------------------------------------------------
(* Commitments: a request, and the same with one argument changed.         *)

Id(name) == Bin(name, 16)
Hash(name) == Bin(name, 32)
Other == Bin("other", 16)
Variants(base, changes) == {base} \cup {[base EXCEPT ![f] = changes[f]] : f \in DOMAIN changes}

Owner == [deployment |-> Id("d"), vault |-> Id("v"), generation |-> 1]
OwnerChanges == [deployment |-> Other, vault |-> Id("d"), generation |-> 2]
Scope == [deployment |-> Id("d"), vault |-> Id("v"), generation |-> 1, recovery |-> Id("r")]
ScopeChanges == [deployment |-> Other, vault |-> Id("d"), generation |-> 2, recovery |-> Id("v")]
Materials == {[material |-> Hash("m"), context |-> c] :
                c \in Variants(Scope, ScopeChanges) \cup {[Scope EXCEPT !.generation = WordMax + 1]}}
             \cup {[material |-> Hash("n"), context |-> Scope]}

WrapContext == [deployment |-> Id("d"), vault |-> Id("v"), generation |-> 1, salt |-> Id("s"), memory |-> 1,
                iterations |-> 2, parallelism |-> 3, nonce |-> Bin("nonce", 24)]
WrapChanges == [deployment |-> Other, vault |-> Id("d"), generation |-> 2, salt |-> Id("d"), memory |-> 2,
                iterations |-> 3, parallelism |-> 4, nonce |-> Bin("other", 24)]
Wraps == Variants([password |-> Hash("p"), root |-> Hash("root"), context |-> WrapContext],
                  [password |-> Hash("q"), root |-> Hash("other root")])
         \cup {[password |-> Hash("p"), root |-> Hash("root"), context |-> c] : c \in Variants(WrapContext, WrapChanges)}

Policy == [mask |-> 1, absolute |-> 3600, idle |-> 60, sessions |-> 5]
Sessions == {[policy |-> p, issued |-> 100] :
               p \in Variants(Policy, [mask |-> 2, absolute |-> 60, idle |-> 3600, sessions |-> 6])}
            \cup {[policy |-> Policy, issued |-> n] : n \in {101, WordMax + 1, QuadMax}}

Wrap(device, status, envelope, generation) ==
  [device |-> device, status |-> status, envelope |-> envelope, generation |-> generation]
DeviceWraps ==
  {<<>>, <<Wrap(Id("1"), 1, Hash("e"), 1)>>, <<Wrap(Id("1"), 2, Hash("e"), 1)>>, <<Wrap(Id("1"), 1, Hash("e"), 2)>>,
   <<Wrap(Id("1"), 1, Hash("e"), 1), Wrap(Id("2"), 1, Hash("e"), 1)>>,
   <<Wrap(Id("2"), 1, Hash("e"), 1), Wrap(Id("1"), 1, Hash("e"), 1)>>}

Leaf(id, revision, tombstone) ==
  [id |-> Id(id), revision |-> revision, epoch |-> 1, envelope |-> Hash("e"), tombstone |-> tombstone]
Manifests ==
  {[records |-> [i \in 1..n |-> Leaf("i", i, FALSE)], page |-> page] : n \in 0..5, page \in 0..2}
  \cup {[records |-> <<Leaf("i", 1, FALSE), Leaf("i", n, t)>>, page |-> 2] : n \in {2, 3, WordMax + 1}, t \in BOOLEAN}

Device(id, status) ==
  [device |-> Id(id), status |-> status, method |-> 1, credential |-> Hash("c"), x |-> Hash("x"), y |-> Hash("y"),
   signCount |-> 0, backupEligible |-> TRUE, backupState |-> FALSE, wrapPublic |-> Hash("w"), mask |-> 0,
   revoked |-> 0, enrolled |-> 1]
Field(f) == IF f \in CoreNumbers THEN 1 ELSE Hash("h")
Account ==
  [f \in ToSet(CoreBefore) \cup ToSet(CoreAfter) \cup {"methods", "devices", "wrapSetRoot"} |->
     CASE f = "methods" -> <<<<1, 2>>>> [] f = "devices" -> <<Device("1", 1)>>
       [] f = "wrapSetRoot" -> Hash("s") [] OTHER -> Field(f)]
Accounts ==
  {Account}
  \cup {[Account EXCEPT ![f] = IF f \in CoreNumbers THEN 2 ELSE Hash("g")] :
          f \in ToSet(CoreBefore) \cup ToSet(CoreAfter)}
  \cup {[Account EXCEPT !.methods = m] : m \in {<<>>, <<<<2, 1>>>>, <<<<1, 2>>, <<1, 2>>>>}}
  \cup {[Account EXCEPT !.devices = d] :
          d \in {<<>>, <<Device("1", 2)>>, <<Device("2", 1)>>, <<Device("1", 1), Device("2", 1)>>,
                 <<[Device("1", 1) EXCEPT !.backupState = TRUE]>>, <<[Device("1", 1) EXCEPT !.revoked = 1]>>}}
  \cup {[Account EXCEPT !.wrapSetRoot = Hash("h")], [Account EXCEPT !.securityVersion = WordMax + 1]}

Password(name, n, utf8) == [leaf |-> name, len |-> n, utf8 |-> utf8]
Pairs == {Pair, <<CborHead("uint", 1, Nothing)>>}

MCRequests ==
  [password_key |-> {[password |-> p, salt |-> s] :
      p \in {Password("p", 8, TRUE), Password("q", 8, TRUE), Password("p", 8, FALSE), Password("p", 1025, TRUE)},
      s \in {Id("s"), Other, Bin("short", 15)}},
   record_key |-> {[root |-> r, context |-> c] : r \in MCRoots, c \in MCKeyContexts},
   unlock_key |-> {[password |-> p, context |-> c] : p \in {Hash("p"), Hash("q")}, c \in Variants(Owner, OwnerChanges)},
   unlock_wrap |-> Wraps,
   recovery_wrap_key |-> Materials, recovery_auth_seed |-> Materials, manifest_seed |-> Materials,
   bootstrap_key |-> Variants([secret |-> Hash("s"), deployment |-> Id("d"), server |-> Hash("i")],
                              [secret |-> Hash("i"), deployment |-> Other, server |-> Hash("s")]),
   credential_id |-> Variants([method |-> 1, kind |-> 2, authority |-> Id("a"), raw |-> Hash("r")],
                              [method |-> 2, kind |-> 1, authority |-> Other, raw |-> Hash("s")]),
   server |-> {Hash("k"), Hash("l"), Bin("short", 31)},
   request |-> Pairs, payload |-> Pairs, kit_core |-> Pairs,
   device_wraps |-> DeviceWraps,
   recipient |-> Variants([kem |-> 1, kdf |-> 2, aead |-> 3, device |-> Id("d"), public |-> Hash("p")],
                          [kem |-> 2, kdf |-> 1, aead |-> 2, device |-> Other, public |-> Hash("q")]),
   session |-> Sessions, account |-> Accounts, manifest |-> Manifests]

-----------------------------------------------------------------------------
(* Layers of settings: right, and wrong in one way at a time.              *)

Path(prefix, parts, length) == [is |-> "path", len |-> length, name |-> FALSE, prefix |-> prefix, parts |-> parts]
SecretPath == Path("/run/secrets/", <<"key">>, 16)
Written(kind, text) == [kind |-> kind, text |-> text]
Entry(id, value) == [id |-> id, value |-> value]

ValueFor(s) ==
  CASE s.kind = "SecretReference" -> Written(s.kind, SecretPath)
    [] s.kind = "Path" -> Written(s.kind, Path("/run/config/", <<"tls", "ca.pem">>, 23))
    [] s.kind = "StringList" -> [kind |-> s.kind, items |-> <<"db">>]
    [] s.kind = "String" -> Written(s.kind, Named("vault", 5))

Complete == FoldSet(LAMBDA s, entries : Append(entries, Entry(s.id, ValueFor(s))), <<>>,
                    {s \in GeneratedSettings : s.mode = "Required"})

Numbers(id, kind, values) == {Entry(id, [kind |-> kind, n |-> n]) : n \in values}
Extras ==
  Numbers("backend.tombstone.retention-days", "Integer", {6, 7, 90, 91})
  \cup Numbers("backend.tombstone.retention-days", "Bytes", {30})
  \cup Numbers("backend.sync.record-size-bytes", "Bytes", {1023, 16777216})
  \cup Numbers("backend.session.idle-ttl-seconds", "DurationSeconds", {60, 3601})
  \cup Numbers("backend.unknown", "Integer", {1})
  \cup {Entry("backend.log.level", Written("String", Named(level, 5))) : level \in {"debug", "trace"}}
  \cup {Entry("backend.database.tls-mode", Written("String", Named("disable", 7)))}

Replacements ==
  {Entry("backend.database.api-password", Written("SecretReference", path)) :
     path \in {Path("/run/secrets/", <<"..", "config">>, 22), Path("/run/config/", <<"key">>, 15),
               Path("/run/secrets/", <<>>, 13), Path("/run/secrets/", <<"a", "?">>, 16),
               Path("/run/secrets/", <<"long">>, 269), Path("/run/secrets/", <<"long">>, 268)}}
  \cup {Entry("backend.database.hosts", [kind |-> "StringList", items |-> [i \in 1..n |-> "db"]]) : n \in {0, 8, 9}}
  \cup {Entry("backend.database.name", Written("String", text)) :
          text \in {Named("vault", 63), Named("vault", 64), [Named("Vault!", 6) EXCEPT !.name = FALSE]}}

Layer(entries) == [owner |-> "backend", version |-> 1, entries |-> entries]
MCOwnerFiles ==
  {Layer(Complete), [Layer(Complete) EXCEPT !.owner = "frontend"], [Layer(Complete) EXCEPT !.version = 2],
   Layer(<<>>), Layer(Append(Complete, Complete[1])), Layer(Tail(Complete))}
  \cup {Layer(Append(Complete, e)) : e \in Extras}
  \cup {Replace(Layer(Complete), e.id, e.value) : e \in Replacements \cup Extras}

MCCommandLines ==
  {Layer(<<>>), [Layer(<<>>) EXCEPT !.owner = "frontend"], Layer(<<Complete[1]>>),
   Layer(<<Entry("backend.database.api-password", Written("SecretReference", SecretPath))>>)}
  \cup {Layer(<<e>>) : e \in Extras}
  \cup {Layer(<<e, f>>) : e, f \in Numbers("backend.tombstone.retention-days", "Integer", {7, 90})}

-----------------------------------------------------------------------------
(* Catalogues, destinations and environments.                              *)

MCCatalogues ==
  {CanonicalServiceCapabilities,
   [CanonicalServiceCapabilities EXCEPT !.version = 2], [CanonicalServiceCapabilities EXCEPT !.default = "allow"],
   [CanonicalServiceCapabilities EXCEPT !.services.validator.operations = <<"outbox">>],
   [CanonicalServiceCapabilities EXCEPT !.services.web.secrets = <<"backup-key">>]}

Expected == Identity("p", "d", "c", "k", 1)
MCIdentities == Variants(Expected, [plan |-> ZeroDigest, contract |-> ZeroDigest, epoch |-> 0])
MCObservations ==
  {[identity |-> i, destination |-> d, unavailable |-> u, drift |-> f] :
     i \in MCIdentities \cup Variants(Expected, [destination |-> "e", configuration |-> "e", epoch |-> 2]),
     d \in {"Absent", "ExactCompleted", "Partial", "Unexpected"},
     u \in {{}, {"RoleCreation"}, ToSet(Features)}, f \in {{}, {"Grants"}, ToSet(DriftFields)}}

MCRetentions == {None} \cup {Some(n) : n \in {-2, -1, 0, 7, 30, 40, 41}}
MCClocks == {0, 7 * 86400, 30 * 86400 - 1, 30 * 86400, QuadMax}

MCApiEnvironments ==
  [bind : {None, Some("0.0.0.0:8080")}, auth : {None, Some("disabled"), Some("token"), Some("basic")},
   token : {None, Some(""), Some("t")}, rate : {None} \cup {Some(n) : n \in {-2, -1, 0, 5}},
   body : {None} \cup {Some(n) : n \in {-1, 0, 100}}, cors : {<<>>, <<"", "https://vault">>}]

MCPoolEnvironments ==
  LET values == {None} \cup {Some(n) : n \in {-1, 0, 1, 20}}
      unset == [f \in DOMAIN PoolDefault |-> None]
  IN {[unset EXCEPT ![f] = v] : f \in DOMAIN PoolDefault, v \in values}

MCHostLists == {<<>>, <<"local">>, <<"socket">>, <<"remote">>, <<"local", "remote">>}

MCValidatorInputs ==
  LET right == [protocol |-> 1, suite |-> 1, ciphertext |-> [hex |-> TRUE, len |-> 3], hash |-> [hex |-> TRUE, len |-> 64],
                record |-> [hex |-> FALSE, len |-> 1]]
  IN Variants(right, [protocol |-> 2, suite |-> 2, ciphertext |-> [hex |-> TRUE, len |-> 1],
                      hash |-> [hex |-> FALSE, len |-> 64], record |-> [hex |-> FALSE, len |-> 0]])
=============================================================================
