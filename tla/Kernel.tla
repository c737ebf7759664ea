------------------------------- MODULE Kernel -------------------------------
(***************************************************************************)
(* The security kernel (kernel-core, kernel-wasm): what its functions      *)
(* answer.  None keeps state; LibraryCalls calls them.                     *)
(*                                                                         *)
(* A byte string is a value with its length; a CBOR document is a sequence *)
(* of heads, each with the width of its argument, so that one value has    *)
(* several encodings and only the shortest is canonical.  Primitives are   *)
(* symbolic: a hash, a tag, a signature, a ciphertext or a derived key is  *)
(* the record of what went into it, so two are equal only when everything  *)
(* that went in was.  Three ceilings do not fit TLC's integers and are     *)
(* constants: WordMax stands for 2^32 - 1, LongMax for 2^63 - 1 and        *)
(* QuadMax, of Results, for 2^64 - 1.                                      *)
(***************************************************************************)
EXTENDS Integers, Sequences, FiniteSets, SequencesExt, Results

CONSTANTS WordMax, LongMax,
          CurvePoints,          \* the pairs of coordinates that lie on P-256
          RecoveryChecksum(_)   \* five bytes for the bytes of a recovery key

ASSUME CeilingsAssumption == 65535 < WordMax /\ WordMax < LongMax /\ LongMax < QuadMax

Bin(name, n) == [leaf |-> name, len |-> n]
Nothing == Bin("", 0)
Sha(preimage) == [sha |-> preimage, len |-> 32]

-----------------------------------------------------------------------------
(* Limits.                                                                 *)

V1 == [document |-> 4259840, items |-> 4096, string |-> 4194304, depth |-> 32, secret |-> 1024]

NewLimits(l) ==
  IF \E f \in DOMAIN V1 : l[f] = 0 \/ l[f] > V1[f] THEN Err("LimitExceeded") ELSE Ok(l)

-----------------------------------------------------------------------------
(* Heads, items and their shortest encoding.                               *)

WidthOf(n) == CASE n < 24 -> 0 [] n \in 24..255 -> 1 [] n \in 256..65535 -> 2
                [] n \in 65536..WordMax -> 4 [] OTHER -> 8

CborHead(major, n, bytes) == [major |-> major, width |-> WidthOf(n), n |-> n, bytes |-> bytes]
ZeroByte == CborHead("uint", 0, Nothing)

\* A value is its parts in the order they are written: a leaf, or the length of an array and
\* then the parts of its items.
Uint(n) == <<[kind |-> "uint", n |-> n]>>
Bytes(b) == <<[kind |-> "bytes", bytes |-> b]>>
Bool(b) == <<[kind |-> "bool", n |-> IF b THEN 1 ELSE 0]>>
Array(items) == <<[kind |-> "array", n |-> Len(items)]>> \o FlattenSeq(items)

HeadOf(part) ==
  CASE part.kind = "uint"  -> CborHead("uint", part.n, Nothing)
    [] part.kind = "bytes" -> CborHead("bytes", part.bytes.len, part.bytes)
    [] part.kind = "bool"  -> [CborHead("bool", part.n, Nothing) EXCEPT !.width = 0]
    [] part.kind = "array" -> CborHead("array", part.n, Nothing)

Encoding(v) == [i \in DOMAIN v |-> HeadOf(v[i])]

Evidence(v) ==
  LET out == Encoding(v)
  IN IF \E i \in DOMAIN out : out[i].n > WordMax THEN Err("LimitExceeded") ELSE Ok(out)

SizeOf(doc) == FoldLeft(LAMBDA size, head : size + 1 + head.width + head.bytes.len, 0, doc)

-----------------------------------------------------------------------------
(* Documents of the protocol profile.                                      *)

\* The position after the items of a document, or what is wrong with the first that cannot be
\* read; every head before a position is an item read.
DecodeItem(doc, l) ==
  LET items[p \in (Nat \ {0}) \X Nat \X Nat] ==   \* a position, the depth, the items left
        LET at == p[1]  depth == p[2]  left == p[3] IN
        IF left = 0 THEN Ok(at)
        ELSE IF depth > l.depth \/ at > l.items THEN Err("LimitExceeded")
        ELSE IF at > Len(doc) THEN Err("InvalidEncoding")
        ELSE LET head == doc[at]
                 item == CASE head.major = "uint" /\ head.n <= LongMax -> Ok(at + 1)
                           [] head.major = "bytes" ->
                                IF head.bytes.len > l.string THEN Err("LimitExceeded") ELSE Ok(at + 1)
                           [] head.major = "bool" -> Ok(at + 1)
                           [] head.major = "array" ->
                                IF head.n > SizeOf(SubSeq(doc, at + 1, Len(doc))) THEN Err("InvalidEncoding")
                                ELSE IF head.n > l.items - at THEN Err("LimitExceeded")
                                ELSE items[<<at + 1, depth + 1, head.n>>]
                           [] OTHER -> Err("InvalidEncoding")
             IN IF item.ok THEN items[<<item.val, depth, left - 1>>] ELSE item
  IN items[<<1, 1, 1>>]

\* The part of a value that a head is read as.
PartOf(head) ==
  CASE head.major = "bytes" -> [kind |-> "bytes", bytes |-> head.bytes]
    [] head.major = "bool" -> [kind |-> "bool", n |-> IF head.n = 1 THEN 1 ELSE 0]
    [] OTHER -> [kind |-> head.major, n |-> head.n]

\* Reading back the shortest form refuses every other one; a mutant does not compare.
IsShortestFree(doc, again) == TRUE
IsShortest(doc, again) == doc = again

ProtocolDecode(doc, l) ==
  IF doc = <<>> \/ SizeOf(doc) > l.document THEN Err("LimitExceeded")
  ELSE IF doc[1].major # "array" THEN Err("InvalidEncoding")
  ELSE LET end == DecodeItem(doc, l)
           item == [i \in DOMAIN doc |-> PartOf(doc[i])]
       IN IF ~end.ok THEN end
          ELSE IF end.val # Len(doc) + 1 THEN Err("InvalidEncoding")
          ELSE IF ~IsShortest(doc, Encoding(item)) THEN Err("NonCanonicalEncoding")
          ELSE Ok(item)

-----------------------------------------------------------------------------
(* Documents of the WebAuthn profile.                                      *)

Text(name, n) == CborHead("text", n, Bin(name, n))
Signed(i) == IF i >= 0 THEN CborHead("uint", i, Nothing) ELSE CborHead("nint", -i - 1, Nothing)

EncodeWebAuthn(item) ==
  IF item.kind = "attestation"
  THEN <<CborHead("map", 3, Nothing), Text("fmt", 3), Text("none", 4), Text("attStmt", 7),
         CborHead("map", 0, Nothing), Text("authData", 8), CborHead("bytes", item.data.len, item.data)>>
  ELSE <<CborHead("map", 5, Nothing), Signed(1), Signed(2), Signed(3), Signed(-7), Signed(-1), Signed(1), Signed(-2),
         CborHead("bytes", item.x.len, item.x), Signed(-3), CborHead("bytes", item.y.len, item.y)>>

\* The document reads as the heads of a form, whatever their widths.
ReadsAs(doc, form) ==
  /\ Len(doc) = Len(form)
  /\ \A i \in DOMAIN form : /\ doc[i].major = form[i].major
                            /\ doc[i].major = "bytes" \/ ( doc[i].n = form[i].n
                                                         /\ doc[i].bytes = form[i].bytes )

NoneAttestation(doc, l) ==
  LET item == [kind |-> "attestation", data |-> doc[Len(doc)].bytes]
  IN IF ~ReadsAs(doc, EncodeWebAuthn(item)) THEN Err("InvalidEncoding")
     ELSE IF item.data.len < 37 \/ item.data.len > 1024 \/ item.data.len > l.string
     THEN Err("LimitExceeded") ELSE Ok(item)

Es256CoseKey(doc) ==
  LET item == [kind |-> "es256", x |-> doc[Len(doc) - 2].bytes, y |-> doc[Len(doc)].bytes]
  IN IF \/ Len(doc) # 11 \/ ~ReadsAs(doc, EncodeWebAuthn(item))
        \/ item.x.len # 32 \/ item.y.len # 32 \/ <<item.x, item.y>> \notin CurvePoints
     THEN Err("InvalidEncoding") ELSE Ok(item)

WebAuthnDecode(doc, l) ==
  IF doc = <<>> \/ SizeOf(doc) > l.document THEN Err("LimitExceeded")
  ELSE IF doc[1].major # "map" \/ doc[1].n \notin {3, 5} THEN Err("InvalidEncoding")
  ELSE LET read == IF doc[1].n = 3 THEN NoneAttestation(doc, l)
                   ELSE IF Len(doc) < 3 THEN Err("InvalidEncoding") ELSE Es256CoseKey(doc)
       IN IF ~read.ok THEN read
          ELSE IF ~IsShortest(doc, EncodeWebAuthn(read.val)) THEN Err("NonCanonicalEncoding")
          ELSE read

-----------------------------------------------------------------------------
(* Preimages, keys, sealed records.                                        *)

\* A label is a sequence of heads too: of characters, with no zero byte.
Label(name) == <<Text(name, 0)>>

Kdf(label, ikm, context) ==
  IF label = <<>> \/ ZeroByte \in ToSet(label) THEN Err("CryptographicFailure")
  ELSE Ok([kdf |-> ikm, info |-> label \o <<ZeroByte>> \o context, len |-> 32])

\* A mutant lets a label hold the byte that ends it.
DomainPreimageAnyLabel(domain, body) ==
  IF domain = <<>> THEN Err("CryptographicFailure") ELSE Ok(domain \o <<ZeroByte>> \o body)

DomainPreimage(domain, body) ==
  IF domain = <<>> \/ ZeroByte \in ToSet(domain) THEN Err("CryptographicFailure")
  ELSE Ok(domain \o <<ZeroByte>> \o body)

\* The key of a label and a list of items, and the hash of one.
Derived(name, ikm, items) ==
  LET context == Evidence(Array(items))
  IN IF context.ok THEN Kdf(Label(name), ikm, context.val) ELSE context

HashOf(name, body) == Ok(Sha(DomainPreimage(Label(name), body).val))

Hashed(name, items) ==
  LET body == Evidence(Array(items)) IN IF body.ok THEN HashOf(name, body.val) ELSE body

AeadKey(bytes) == IF bytes.len = 32 THEN Ok(bytes) ELSE Err("CryptographicFailure")

DeriveRecordKey(root, context) == Kdf(Label("pm-v1/record-key"), root, context)

SealRecord(key, nonce, aad, plaintext, l) ==
  IF plaintext.len = 0 \/ plaintext.len > l.secret THEN Err("LimitExceeded")
  ELSE Ok([aead |-> key, nonce |-> nonce, aad |-> aad, msg |-> plaintext, len |-> plaintext.len + 16])

OpenRecord(key, nonce, aad, sealed, l) ==
  IF sealed.len < 17 THEN Err("InvalidEncoding")
  ELSE IF \/ "aead" \notin DOMAIN sealed
          \/ sealed # [aead |-> key, nonce |-> nonce, aad |-> aad, msg |-> sealed.msg, len |-> sealed.len]
  THEN Err("CryptographicFailure")
  ELSE IF sealed.msg.len = 0 \/ sealed.msg.len > l.secret THEN Err("LimitExceeded")
  ELSE Ok(sealed.msg)

-----------------------------------------------------------------------------
(* Signed and authenticated envelopes.                                     *)

EncodeEnvelope(body, signature) == <<CborHead("array", 2, Nothing)>> \o body \o <<CborHead("bytes", 64, signature)>>

SignEnvelope(key, domain, body) ==
  LET preimage == DomainPreimage(domain, body)
  IN IF ~preimage.ok THEN preimage
     ELSE Ok(EncodeEnvelope(body, [sig |-> key, over |-> preimage.val, len |-> 64]))

MacEnvelope(domain, body, key) ==
  LET preimage == DomainPreimage(domain, body)
  IN IF ~preimage.ok THEN preimage
     ELSE Ok(<<CborHead("array", 2, Nothing)>> \o body
               \o <<CborHead("bytes", 32, [mac |-> key, over |-> preimage.val, len |-> 32])>>)

\* The position after the items still to skip, 0 when the document ends first.
SkipItems(doc, at, left) ==
  LET open[i \in 0..Len(doc) + 1 - at] ==   \* the items still to skip after i heads
        IF i = 0 THEN left
        ELSE LET before == open[i - 1]  head == doc[at + i - 1]
             IN IF before = 0 THEN 0
                ELSE before - 1 + CASE head.major = "array" -> head.n
                                    [] head.major = "map" -> 2 * head.n
                                    [] OTHER -> 0
      ends == {i \in DOMAIN open : open[i] = 0}
  IN IF ends = {} THEN 0 ELSE at + (CHOOSE i \in ends : \A j \in ends : i <= j)

\* An array of two, one item, and a byte string of the length of a signature or a tag.
SplitEnvelope(envelope, length) ==
  IF envelope = <<>> \/ envelope[1].major # "array" \/ envelope[1].n # 2 THEN Err("NonCanonicalEncoding")
  ELSE LET end == SkipItems(envelope, 2, 1)
       IN IF end = 0 \/ end > Len(envelope) \/ envelope[end].major # "bytes" THEN Err("NonCanonicalEncoding")
          ELSE IF envelope[end].bytes.len # length THEN Err("InvalidEncoding")
          ELSE IF end # Len(envelope) THEN Err("NonCanonicalEncoding")
          ELSE Ok([body |-> SubSeq(envelope, 2, end - 1), tag |-> envelope[end].bytes])

DecodeCanonicalEnvelope(envelope) ==
  LET split == SplitEnvelope(envelope, 64)
  IN IF split.ok /\ EncodeEnvelope(split.val.body, split.val.tag) # envelope
     THEN Err("NonCanonicalEncoding") ELSE split

VerifyEnvelope(key, domain, envelope) ==
  LET split == DecodeCanonicalEnvelope(envelope)
      preimage == DomainPreimage(domain, split.val.body)
  IN IF ~split.ok THEN split ELSE IF ~preimage.ok THEN preimage
     ELSE IF split.val.tag # [sig |-> key, over |-> preimage.val, len |-> 64]
     THEN Err("CryptographicFailure") ELSE Ok(split.val.body)

VerifyMacEnvelope(domain, envelope, key) ==
  LET split == SplitEnvelope(envelope, 32)
      preimage == DomainPreimage(domain, split.val.body)
  IN IF ~split.ok THEN split ELSE IF ~preimage.ok THEN preimage
     ELSE IF split.val.tag # [mac |-> key, over |-> preimage.val, len |-> 32]
     THEN Err("CryptographicFailure") ELSE Ok(split.val.body)

-----------------------------------------------------------------------------
(* The wraps of the vault's root key, and what is derived from the kit.    *)

DeriveUnlockKey(password, c) ==
  Derived("pm-v1/unlock-wrap-key", password, <<Bytes(c.deployment), Bytes(c.vault), Uint(c.generation)>>)

WrapFields(c) ==
  <<Uint(1), Uint(1), Bytes(c.deployment), Bytes(c.vault), Uint(c.generation), Bytes(c.salt),
    Uint(c.memory), Uint(c.iterations), Uint(c.parallelism), Bytes(c.nonce)>>

AadPreimage(c) ==
  LET body == Evidence(Array(WrapFields(c)))
  IN IF body.ok THEN DomainPreimage(Label("pm-v1/unlock-wrap"), body.val) ELSE body

SealUnlockWrap(key, c, root) ==
  LET aad == AadPreimage(c)
      sealed == SealRecord(key, c.nonce, aad.val, root, V1)
  IN IF ~aad.ok THEN aad ELSE IF ~sealed.ok THEN sealed
     ELSE Evidence(Array(Append(WrapFields(c), Bytes(sealed.val))))

UnlockWrapHash(wrap) == Sha(wrap)

RecoveryContext(c) == <<Bytes(c.deployment), Bytes(c.vault), Uint(c.generation), Bytes(c.recovery)>>
DeriveRecoveryWrapKey(material, c) == Derived("pm-v1/recovery-wrap-key", material, RecoveryContext(c))
DeriveRecoveryAuthSeed(material, c) == Derived("pm-v1/recovery-auth-seed", material, RecoveryContext(c))
DeriveBootstrapKey(secret, deployment, server) ==
  Derived("pm-v1/bootstrap-key", secret, <<Bytes(deployment), Bytes(server)>>)
DeriveManifestSigningSeed(root, c) ==
  Derived("pm-v1/manifest-signing-seed", root,
          <<Bytes(c.deployment), Bytes(c.vault), Uint(c.generation), Bytes(c.recovery)>>)

-----------------------------------------------------------------------------
(* What the account state commits to.                                      *)

CredentialIdHash(method, kind, authority, raw) ==
  Hashed("pm-v1/auth-credential-id", <<Uint(method), Uint(kind), Bytes(authority), Bytes(raw)>>)
ServerIdentityHash(public) == Sha(<<CborHead("bytes", 32, public)>>)
AuthorizationRequestHash(body) == HashOf("pm-v1/authorization-request", body)
AuthorizationPayloadHash(body) == HashOf("pm-v1/authorization-payload", body)
RecoveryKitCoreHash(body) == HashOf("pm-v1/recovery-kit-core", body)

DeviceWrapSetRoot(entries) ==
  Hashed("pm-v1/device-wrap-set",
    [i \in DOMAIN entries |-> Array(<<Bytes(entries[i].device), Uint(entries[i].status),
                                      Bytes(entries[i].envelope)>>)])

HpkeRecipientDescriptorHash(kem, kdf, aead, device, public) ==
  Hashed("pm-v1/hpke-recipient", <<Uint(kem), Uint(kdf), Uint(aead), Bytes(device), Bytes(public)>>)

SessionBody(p) == <<Uint(1), Uint(p.mask), Uint(p.absolute), Uint(p.idle), Uint(p.sessions)>>
PolicyHash(p) == Hashed("pm-v1/session-policy", SessionBody(p))

DeriveSessionResult(p, issued) ==
  LET policy == PolicyHash(p)
  IN IF ~policy.ok THEN policy
     ELSE IF issued + p.absolute > QuadMax \/ issued + p.idle > QuadMax THEN Err("LimitExceeded")
     ELSE Hashed("pm-v1/session-policy-result",
            <<Uint(1), Bytes(policy.val)>> \o Tail(SessionBody(p))
              \o <<Uint(issued), Uint(issued + p.absolute), Uint(issued + p.idle)>>)

DeviceItem(d) ==
  Array(<<Bytes(d.device), Uint(d.status),
          Array(<<Uint(d.method), Bytes(d.credential), Bytes(d.x), Bytes(d.y), Uint(d.signCount),
                  Bool(d.backupEligible), Bool(d.backupState)>>),
          Bytes(d.wrapPublic), Uint(d.mask), Uint(d.revoked), Uint(d.enrolled)>>)

\* The fields of the core that are plain numbers or byte strings, in the order of the layout.
CoreBefore == <<"deployment", "vault", "securityVersion", "priorRoot", "epoch", "manifestKeyId",
  "manifestKey", "recoveryGeneration", "recoveryId", "recoveryKey", "unlockGeneration", "unlockHash", "authPolicy">>
CoreAfter == <<"activeWriter", "activeSuite", "minimumReader", "minimumSuite", "migration", "serverKeyId",
  "serverKeyHash", "origin", "rpId", "pslHash", "receiptKeyId", "receiptKey">>
CoreNumbers == {"securityVersion", "epoch", "recoveryGeneration", "unlockGeneration", "authPolicy",
  "activeWriter", "activeSuite", "minimumReader", "minimumSuite", "migration"}

EncodeAccountState(s) ==
  LET fields(names) == [i \in DOMAIN names |-> IF names[i] \in CoreNumbers THEN Uint(s[names[i]])
                                                ELSE Bytes(s[names[i]])]
  IN Evidence(Array(<<Uint(1), Uint(1)>> \o fields(CoreBefore)
       \o <<Array([i \in DOMAIN s.methods |-> Array(<<Uint(s.methods[i][1]), Uint(s.methods[i][2])>>)])>>
       \o fields(CoreAfter)
       \o <<Array([i \in DOMAIN s.devices |-> DeviceItem(s.devices[i])]), Bytes(s.wrapSetRoot)>>))

AccountCoreHash(s) ==
  LET core == EncodeAccountState(s) IN IF core.ok THEN HashOf("pm-v1/account-state-core", core.val) ELSE core

-----------------------------------------------------------------------------
(* The manifest: leaves, chunks and the tree above them.                   *)

EmptyRoot == Sha(Label("pm-v1/manifest-empty") \o <<ZeroByte>>)

\* Err is the panic of expect.
LeafHash(r) == Hashed("pm-v1/manifest-leaf",
  <<Bytes(r.id), Uint(r.revision), Uint(r.epoch), Bytes(r.envelope), Bool(r.tombstone)>>)

\* The level above, where the last of an odd number is carried up as it is.
Above(level) ==
  [i \in 1..(Len(level) + 1) \div 2 |->
     IF 2 * i > Len(level) THEN level[2 * i - 1]
     ELSE Sha(Label("pm-v1/manifest-node") \o <<ZeroByte, level[2 * i - 1], level[2 * i]>>)]

\* Until one is left, which takes no more rounds than there were.
Reduce(leaves) ==
  LET level[k \in 0..Len(leaves)] ==
        IF k = 0 THEN leaves
        ELSE LET below == level[k - 1] IN IF Len(below) > 1 THEN Above(below) ELSE below
  IN level[Len(leaves)][1]

RootFromLeaves(leaves, page) ==
  LET last(i) == IF i * page < Len(leaves) THEN i * page ELSE Len(leaves)
      first(i) == (i - 1) * page + 1
      chunk(i) == Hashed("pm-v1/manifest-chunk",
        <<Uint(i - 1), Bytes(leaves[first(i)].id), Bytes(leaves[last(i)].id),
          Array([j \in 1..last(i) - first(i) + 1 |-> Bytes(leaves[first(i) + j - 1].hash)])>>)
      chunks == 1..(Len(leaves) + page - 1) \div page
  IN IF page = 0 THEN Err("LimitExceeded")
     ELSE IF leaves = <<>> THEN Ok(EmptyRoot)
     ELSE IF \E i \in chunks : ~chunk(i).ok THEN Err("LimitExceeded")
     ELSE Ok(Reduce([i \in chunks |-> chunk(i).val]))

-----------------------------------------------------------------------------
(* Recovery kits: bytes to groups of five letters and back.                *)

Bits(values, width) == FlattenSeq([i \in DOMAIN values |->
                         [b \in 1..width |-> (values[i] \div 2^(width - b)) % 2]])

ValueOf(bits) == FoldLeft(LAMBDA v, bit : 2 * v + bit, 0, bits)

\* The bits in values of the given width; the bits after the last whole value are left.
Values(bits, width) == [i \in 1..Len(bits) \div width |-> ValueOf(SubSeq(bits, (i - 1) * width + 1, i * width))]

Base32Encode(bytes) ==
  LET bits == Bits(bytes, 8)
  IN Values(bits \o [i \in 1..((5 - (Len(bits) % 5)) % 5) |-> 0], 5)

Base32Decode(letters) ==
  LET bits == Bits(letters, 5)
      unused == SubSeq(bits, Len(bits) - (Len(bits) % 8) + 1, Len(bits))
  IN IF 1 \in ToSet(unused) THEN Err("InvalidEncoding") ELSE Ok(Values(bits, 8))

\* A form is 71 characters: the 32 letters are 0..31, the hyphen 32, anything else 33.
Hyphen == 32
EncodeRecovery(entropy) ==
  LET letters == Base32Encode(entropy \o RecoveryChecksum(entropy))
  IN [i \in 1..71 |-> IF i % 6 = 0 THEN Hyphen ELSE letters[i - i \div 6]]

DecodeRecovery(form) ==
  LET letters == [i \in 1..60 |-> form[i + (i - 1) \div 5]]
      payload == Base32Decode(letters)
      entropy == SubSeq(payload.val, 1, 32)
  IN IF \/ Len(form) # 71
        \/ \E i \in 1..71 : IF i % 6 = 0 THEN form[i] # Hyphen ELSE form[i] \notin 0..31
     THEN Err("InvalidEncoding")
     ELSE IF ~payload.ok THEN payload
     ELSE IF RecoveryChecksum(entropy) # SubSeq(payload.val, 33, 37) THEN Err("InvalidEncoding")
     ELSE Ok(entropy)

-----------------------------------------------------------------------------
(* Passwords, secrets and records.                                         *)

\* Where the redrawing starts for an alphabet of n.
Threshold(n) == 256 - (256 % n)

\* A character is its code point.
Utf8Len(char) == IF char < 128 THEN 1 ELSE IF char < 2048 THEN 2 ELSE IF char < 65536 THEN 3 ELSE 4

\* The password after the random bytes drawn so far; a loop that wants more is "drawing".
\* The alphabet is counted in characters, the password in the bytes of its UTF-8 form.
GeneratePassword(draws, alphabet, length) ==
  LET next(text, byte) ==
        LET char == alphabet[(byte % Len(alphabet)) + 1]
        IN IF text.len >= length \/ byte >= Threshold(Len(alphabet)) THEN text
           ELSE [chars |-> Append(text.chars, char), len |-> text.len + Utf8Len(char)]
      text == FoldLeft(next, [chars |-> <<>>, len |-> 0], draws)
  IN IF alphabet = <<>> THEN Err("InvalidSecretText")
     ELSE IF length \notin 8..128 THEN Err("LimitExceeded")
     ELSE IF text.len < length THEN Err("drawing") ELSE Ok(text.chars)

EncodeOpaqueSecret(secret) ==
  IF secret.len = 0 \/ secret.len > V1.secret THEN Err("LimitExceeded")
  ELSE IF ~secret.utf8 THEN Err("InvalidSecretText") ELSE Ok(secret)

DerivePasswordKey(password, salt) ==
  LET secret == EncodeOpaqueSecret(password)
  IN IF secret.ok THEN Ok([argon |-> password, salt |-> salt, len |-> 32]) ELSE secret

\* n is 2^k for a k up to the largest bucket.
IsPowerOfTwo(n) == \E k \in 0..24 : n = 2^k

IsValidRecordCiphertextLength(n) ==
  /\ n <= 16777232
  /\ 1024 <= n - 16 /\ n - 16 <= 16777216
  /\ IF n - 16 <= 4096 THEN (n - 16) % 1024 = 0
     ELSE IF n - 16 <= 65536 THEN (n - 16) % 4096 = 0 ELSE IsPowerOfTwo(n - 16)

IsLowerHex(text, n) == text.len = n /\ text.lowerHex

ValidateGenericRecord(r) ==
  IF /\ r.protocol = 1 /\ r.suite = 1 /\ r.revision # 0
     /\ r.ciphertext.len # 0 /\ r.ciphertext.len = r.declared /\ IsValidRecordCiphertextLength(r.declared)
     /\ \A f \in {"deployment", "vault", "record"} : IsLowerHex(r[f], 32)
     /\ \A f \in {"ciphertextHash", "templateHash", "manifestBinding"} : IsLowerHex(r[f], 64)
  THEN Ok(r) ELSE Err("InvalidRecord")

-----------------------------------------------------------------------------
(* The WebAssembly bindings: lengths first, then the kernel.               *)

OfLength(bytes, n, code, then) == IF bytes.len = n THEN then ELSE Err(code)

ValidateProtocolCborBytes(doc) ==
  LET read == ProtocolDecode(doc, V1) IN IF read.ok THEN Ok(Encoding(read.val)) ELSE read
DerivePasswordKeyBytes(password, salt) ==
  OfLength(salt, 16, "InvalidEncoding", DerivePasswordKey(password, salt))
DeriveRecordKeyBytes(root, context) ==
  OfLength(root, 32, "CryptographicFailure", DeriveRecordKey(root, context))
SealRecordBytes(key, nonce, aad, plaintext) ==
  IF ~AeadKey(key).ok THEN AeadKey(key)
  ELSE OfLength(nonce, 24, "InvalidEncoding", SealRecord(key, nonce, aad, plaintext, V1))
OpenRecordBytes(key, nonce, aad, sealed) ==
  IF ~AeadKey(key).ok THEN AeadKey(key)
  ELSE OfLength(nonce, 24, "InvalidEncoding", OpenRecord(key, nonce, aad, sealed, V1))
ServerIdentityHashBytes(public) ==
  OfLength(public, 32, "InvalidEncoding", Ok(ServerIdentityHash(public)))

\* The C interface answers a status; a document is None for a null pointer.
FfiStatus(doc) ==
  LET read == ValidateProtocolCborBytes(CHOOSE d \in doc : TRUE)
  IN IF doc = {} THEN "InvalidInput"
     ELSE IF read.ok THEN "Ok"
     ELSE CASE read.val = "NonCanonicalEncoding" -> "NonCanonicalInput"
            [] read.val = "LimitExceeded" -> "LimitExceeded"
            [] OTHER -> "InvalidInput"
=============================================================================
