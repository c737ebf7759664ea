--------------------------- MODULE WebClient_proofs ----------------------------
(* What the web client keeps with any devices: of an entry's copies and of *)
(* the wrappers of a vault's key, for any passwords, kits and edits.       *)
EXTENDS DeviceSync, VaultKeys, TLAPS

-----------------------------------------------------------------------------
(* An entry's copies: the inductive invariant.  What one device holds is   *)
(* said of the value alone, of the edits made so far, of the row and of    *)
(* whether it was ever purged, so that it can be carried from one state to *)
(* the next.                                                               *)

CallKinds == {"none", "edit", "create", "favorite", "delete", "restore"}
CallAnswers == Answers \cup {"none", "wait"}
Saves == {"edit", "create", "favorite"}

Call == [kind : CallKinds, write : Write, answer : CallAnswers, attached : BOOLEAN]

SyncSteps == {"idle", "flush", "list", "fetch", "listed"}

Sync == [step : SyncSteps, write : Write, answer : CallAnswers, listed : Entry]

Row == [revision : 0 .. MaxWrites, content : Contents, dead : BOOLEAN]

\* A copy with this revision and content holds what the row r had at it.
Current(revision, content, r) ==
  /\ revision <= r.revision
  /\ revision = r.revision => r.content \subseteq content

\* A write names edits that exist; one sealed from the service's copy has that
\* copy's revision.
WriteFit(w, made, r, past) ==
  /\ w.edit <= made
  /\ w.content \subseteq 1 .. made
  /\ w.origin = "service" => w.expected > 0
  /\ past \/ (w.origin = "service" => Current(w.expected, w.content, r))

\* So does a copy, and one that is shown has a revision.
EntryFit(x, made, r, past) ==
  /\ x.content \subseteq 1 .. made
  /\ x.origin \in Origins => x.revision > 0
  /\ past \/ (x.origin = "service" => Current(x.revision, x.content, r))

\* Only a save carries an edit, and only what fits the bound is answered "ok".
CallOK(x) ==
  /\ x.kind \in Saves <=> x.write.edit # 0
  /\ x.kind \in Saves => ~x.write.dead
  /\ x.kind = "favorite" => x.write.expected > 0
  /\ x.answer = "ok" => x.write.expected < MaxWrites

CallFit(x, made, r, past) ==
  /\ CallOK(x)
  /\ WriteFit(x.write, made, r, past)
  /\ past \/ ((x.kind \in Saves /\ x.answer = "ok") =>
                Current(x.write.expected + 1, x.write.content, r))

SyncFit(x, made, r, past) ==
  /\ WriteFit(x.write, made, r, past)
  /\ EntryFit(x.listed, made, r, past)

OfferFit(x, made) ==
  /\ x.content \subseteq 1 .. made
  /\ x.origin # "service"

\* A toggle shows what it asks for.
ToggleFit(c, l) ==
  (c.kind = "favorite" /\ c.attached) =>
    /\ l.content = c.write.content
    /\ l.origin = c.write.origin

DeviceFit(c, l, s, o, q, made, r, past) ==
  /\ CallFit(c, made, r, past)
  /\ EntryFit(l, made, r, past)
  /\ SyncFit(s, made, r, past)
  /\ OfferFit(o, made)
  /\ WriteFit(q, made, r, past)
  /\ ToggleFit(c, l)

Typed ==
  /\ call \in [Pages -> Call] /\ local \in [Pages -> Entry]
  /\ sync \in [Pages -> Sync] /\ offered \in [Pages -> Entry]
  /\ queue \in [Pages -> Write]

SyncShape ==
  /\ scenario \in Scenarios
  /\ row \in Row /\ row.content \subseteq 1 .. edits
  /\ edits \in 0 .. MaxEdits
  /\ applied \in [EditIds -> 0 .. 2] /\ \A n \in EditIds : n > edits => applied[n] = 0
  /\ purged \in BOOLEAN
  /\ Typed
  /\ \A d \in Pages : sync[d].answer = "busy" => scenario.busy

Fits ==
  \A d \in Pages : DeviceFit(call[d], local[d], sync[d], offered[d], queue[d],
                               edits, row, purged)

Writes(d) == {call[d].write, queue[d], sync[d].write}
AllWrites == UNION {Writes(d) : d \in Pages}

\* The writes of an edit are one write, and once it is stored the row has moved on.
Once ==
  /\ \A n \in EditIds : applied[n] <= 1
  /\ \A v, w \in AllWrites : (v.edit = w.edit /\ v.edit # 0) => v.expected = w.expected
  /\ \A w \in AllWrites : (w.edit # 0 /\ applied[w.edit] # 0) => w.expected < row.revision

\* What a device holds beside its request and the copy it shows.
Rest(d) ==
  queue[d].content \cup sync[d].write.content \cup sync[d].listed.content \cup offered[d].content

OwnEdits(d) == call[d].write.content \cup local[d].content

\* The edit n of d's request is nowhere but in it and in d's own copy.
Unseen(d, n) ==
  /\ n \notin row.content
  /\ \A e \in Pages : n \notin Rest(e)
  /\ \A e \in Pages \ {d} : n \notin OwnEdits(e)

\* Until a toggle is stored nobody has seen it.
Secret ==
  \A d \in Pages : (call[d].kind = "favorite" /\ row.revision <= call[d].write.expected) =>
    Unseen(d, call[d].write.edit)

SyncIInv == SyncShape /\ Fits /\ (purged \/ (Once /\ Secret))

\* The edits that no toggle on its way to the service is about.
Untoggled ==
  {n \in EditIds : \A e \in Pages : call[e].kind = "favorite" => call[e].write.edit # n}

Form == [open : BOOLEAN, content : Contents, attached : BOOLEAN]

\* A form holds no toggle.  One that was filled from the entry still shown has all
\* the fields that entry has.
FormFit(f, l, c, made, flipped) ==
  /\ f.content \subseteq 1 .. made
  /\ f.content \cap flipped = {}
  /\ f.attached => l.origin \in Origins /\ l.content \ flipped \subseteq f.content
  /\ c.kind = "favorite" => c.write.edit \in flipped

FormIInv ==
  /\ form \in [Pages -> Form]
  /\ toggles \subseteq 1 .. edits
  /\ \A d \in Pages : FormFit(form[d], local[d], call[d], edits, toggles)

\* What is queued and what a flush sends is a save; one the service took was stored.
FlushFit(s, q, counts) ==
  /\ q # NoWrite => q.edit \in EditIds
  /\ s.answer # "none" => s.write.edit \in EditIds
  /\ s.answer = "ok" => counts[s.write.edit] > 0

FlushIInv == \A d \in Pages : FlushFit(sync[d], queue[d], applied)

-----------------------------------------------------------------------------
(* What a device holds stays fit while the row and the edits move on.      *)

\* From one state to the next edits are only made, and the row is the same,
\* has a later revision, or was purged.
Onward(made, made2, r, r2, past, past2) ==
  /\ made <= made2
  /\ past => past2
  /\ past2 \/ r2 = r \/ r.revision < r2.revision

\* A larger bound takes all that a smaller one does.
LEMMA MoreEdits ==
  ASSUME NEW m \in Nat, NEW n \in Nat, m <= n, NEW s, s \subseteq 1 .. m
  PROVE  s \subseteq 1 .. n
<1>1. 1 .. m \subseteq 1 .. n
  OBVIOUS
<1> QED
  BY <1>1

\* A copy of an earlier row is never mistaken for one of a later row.
LEMMA CurrentOnward ==
  ASSUME NEW n \in Nat, NEW c, NEW r, NEW r2, r.revision \in Nat, r2.revision \in Nat,
         r2 = r \/ r.revision < r2.revision,
         Current(n, c, r)
  PROVE  Current(n, c, r2)
<1>1. CASE r2 = r
  BY <1>1
<1>2. CASE r.revision < r2.revision
  <2>1. n <= r.revision
    BY DEF Current
  <2>2. n < r2.revision
    BY <1>2, <2>1
  <2> QED
    BY <2>2 DEF Current
<1> QED
  BY <1>1, <1>2

\* The numbers in a write, a copy and a row.
LEMMA Parts ==
  /\ \A w \in Write : /\ w.edit \in Nat /\ w.edit <= MaxEdits /\ w.expected \in Nat
                      /\ w.expected <= MaxWrites + 1
                      /\ w.content \subseteq EditIds /\ w.dead \in BOOLEAN
  /\ \A x \in Entry : x.revision \in Nat /\ x.content \subseteq EditIds
  /\ \A r \in Row : r.revision \in Nat /\ r.content \subseteq EditIds
<1>1. \A n \in 0 .. MaxEdits : n \in Nat /\ n <= MaxEdits
  BY DeviceSyncAssumption
<1>2. \A n \in 0 .. MaxWrites + 1 : n \in Nat /\ n <= MaxWrites + 1
  BY DeviceSyncAssumption
<1>3. \A n \in 0 .. MaxWrites : n \in Nat
  BY DeviceSyncAssumption
<1>4. \A w \in Write : /\ w.edit \in 0 .. MaxEdits /\ w.expected \in 0 .. MaxWrites + 1
                       /\ w.content \subseteq EditIds /\ w.dead \in BOOLEAN
  BY DEF Write, Contents
<1>5. \A x \in Entry : x.revision \in 0 .. MaxWrites + 1 /\ x.content \subseteq EditIds
  BY DEF Entry, Contents
<1>6. \A r \in Row : r.revision \in 0 .. MaxWrites /\ r.content \subseteq EditIds
  BY DEF Row, Contents
<1> QED
  BY <1>1, <1>2, <1>3, <1>4, <1>5, <1>6

\* What fits in one state fits in a later one.
LEMMA WriteOnward ==
  ASSUME NEW w \in Write, NEW m \in Nat, NEW m2 \in Nat, NEW r \in Row, NEW r2 \in Row,
         NEW p \in BOOLEAN, NEW p2 \in BOOLEAN,
         Onward(m, m2, r, r2, p, p2), WriteFit(w, m, r, p)
  PROVE  WriteFit(w, m2, r2, p2)
<1>1. w.edit \in Nat /\ w.expected \in Nat /\ r.revision \in Nat /\ r2.revision \in Nat
  BY Parts
<1>2. m <= m2 /\ (p => p2) /\ (p2 \/ r2 = r \/ r.revision < r2.revision)
  BY DEF Onward
<1>3. w.edit <= m2
  <2>1. w.edit <= m
    BY DEF WriteFit
  <2> QED
    BY <1>1, <1>2, <2>1
<1>4. w.content \subseteq 1 .. m2
  <2>1. w.content \subseteq 1 .. m
    BY DEF WriteFit
  <2> QED
    BY <1>2, <2>1, MoreEdits
<1>5. w.origin = "service" => w.expected > 0
  BY DEF WriteFit
<1>6. p2 \/ (w.origin = "service" => Current(w.expected, w.content, r2))
  <2> SUFFICES ASSUME ~p2, w.origin = "service"
               PROVE  Current(w.expected, w.content, r2)
    OBVIOUS
  <2>1. Current(w.expected, w.content, r) /\ (r2 = r \/ r.revision < r2.revision)
    BY <1>2 DEF WriteFit
  <2> QED
    BY <1>1, <2>1, CurrentOnward
<1> QED
  BY <1>3, <1>4, <1>5, <1>6 DEF WriteFit

\* The same for a copy.
LEMMA EntryOnward ==
  ASSUME NEW x \in Entry, NEW m \in Nat, NEW m2 \in Nat, NEW r \in Row, NEW r2 \in Row,
         NEW p \in BOOLEAN, NEW p2 \in BOOLEAN,
         Onward(m, m2, r, r2, p, p2), EntryFit(x, m, r, p)
  PROVE  EntryFit(x, m2, r2, p2)
<1>1. x.revision \in Nat /\ r.revision \in Nat /\ r2.revision \in Nat
  BY Parts
<1>2. m <= m2 /\ (p => p2) /\ (p2 \/ r2 = r \/ r.revision < r2.revision)
  BY DEF Onward
<1>3. x.content \subseteq 1 .. m2
  <2>1. x.content \subseteq 1 .. m
    BY DEF EntryFit
  <2> QED
    BY <1>2, <2>1, MoreEdits
<1>4. x.origin \in Origins => x.revision > 0
  BY DEF EntryFit
<1>5. p2 \/ (x.origin = "service" => Current(x.revision, x.content, r2))
  <2> SUFFICES ASSUME ~p2, x.origin = "service"
               PROVE  Current(x.revision, x.content, r2)
    OBVIOUS
  <2>1. Current(x.revision, x.content, r) /\ (r2 = r \/ r.revision < r2.revision)
    BY <1>2 DEF EntryFit
  <2> QED
    BY <1>1, <2>1, CurrentOnward
<1> QED
  BY <1>3, <1>4, <1>5 DEF EntryFit

\* And for a request, with what its answer promised.
LEMMA CallOnward ==
  ASSUME NEW x \in Call, NEW m \in Nat, NEW m2 \in Nat, NEW r \in Row, NEW r2 \in Row,
         NEW p \in BOOLEAN, NEW p2 \in BOOLEAN,
         Onward(m, m2, r, r2, p, p2), CallFit(x, m, r, p)
  PROVE  CallFit(x, m2, r2, p2)
<1>1. x.write \in Write
  BY DEF Call
<1>2. /\ x.write.expected + 1 \in Nat /\ r.revision \in Nat /\ r2.revision \in Nat
  BY <1>1, Parts
<1>3. CallOK(x) /\ WriteFit(x.write, m2, r2, p2)
  BY <1>1, WriteOnward DEF CallFit
<1>4. p2 \/ ((x.kind \in Saves /\ x.answer = "ok") =>
               Current(x.write.expected + 1, x.write.content, r2))
  <2> SUFFICES ASSUME ~p2, x.kind \in Saves, x.answer = "ok"
               PROVE  Current(x.write.expected + 1, x.write.content, r2)
    OBVIOUS
  <2>1. r2 = r \/ r.revision < r2.revision
    BY DEF Onward
  <2>2. Current(x.write.expected + 1, x.write.content, r)
    BY DEF CallFit, Onward
  <2> QED
    BY <1>2, <2>1, <2>2, CurrentOnward
<1> QED
  BY <1>3, <1>4 DEF CallFit

\* So what a whole device holds stays fit.
LEMMA DeviceOnward ==
  ASSUME NEW c \in Call, NEW l \in Entry, NEW s \in Sync, NEW o \in Entry, NEW q \in Write,
         NEW m \in Nat, NEW m2 \in Nat, NEW r \in Row, NEW r2 \in Row,
         NEW p \in BOOLEAN, NEW p2 \in BOOLEAN,
         Onward(m, m2, r, r2, p, p2), DeviceFit(c, l, s, o, q, m, r, p)
  PROVE  DeviceFit(c, l, s, o, q, m2, r2, p2)
<1>1. s.write \in Write /\ s.listed \in Entry
  BY DEF Sync
<1>2. CallFit(c, m2, r2, p2)
  BY CallOnward DEF DeviceFit
<1>3. EntryFit(l, m2, r2, p2)
  BY EntryOnward DEF DeviceFit
<1>4. SyncFit(s, m2, r2, p2)
  BY <1>1, WriteOnward, EntryOnward DEF DeviceFit, SyncFit
<1>5. OfferFit(o, m2)
  <2>1. o.content \subseteq 1 .. m /\ o.origin # "service" /\ m <= m2
    BY DEF DeviceFit, OfferFit, Onward
  <2> QED
    BY <2>1, MoreEdits DEF OfferFit
<1>6. WriteFit(q, m2, r2, p2)
  BY WriteOnward DEF DeviceFit
<1> QED
  BY <1>2, <1>3, <1>4, <1>5, <1>6 DEF DeviceFit

-----------------------------------------------------------------------------
(* Steps of one device.                                                    *)

\* The others keep what they have.
Others(d) ==
  \A e \in Pages \ {d} : /\ call'[e] = call[e] /\ local'[e] = local[e] /\ sync'[e] = sync[e]
                           /\ offered'[e] = offered[e] /\ queue'[e] = queue[e]

\* It is enough to look at the device that moves.
LEMMA FitsKept ==
  ASSUME SyncShape, Fits, SyncShape', NEW d \in Pages, Others(d),
         Onward(edits, edits', row, row', purged, purged'),
         DeviceFit(call'[d], local'[d], sync'[d], offered'[d], queue'[d],
                   edits', row', purged')
  PROVE  Fits'
<1>1. /\ edits \in Nat /\ edits' \in Nat /\ row \in Row /\ row' \in Row
      /\ purged \in BOOLEAN /\ purged' \in BOOLEAN
  <2>1. \A n \in 0 .. MaxEdits : n \in Nat
    BY DeviceSyncAssumption
  <2> QED
    BY <2>1 DEF SyncShape, Row
<1>2. ASSUME NEW e \in Pages
      PROVE  DeviceFit(call'[e], local'[e], sync'[e], offered'[e], queue'[e],
                       edits', row', purged')
  <2>1. CASE e = d
    BY <2>1
  <2>2. CASE e # d
    <3>1. DeviceFit(call[e], local[e], sync[e], offered[e], queue[e], edits, row, purged)
      BY DEF Fits
    <3>2. /\ call[e] \in Call /\ local[e] \in Entry /\ sync[e] \in Sync
          /\ offered[e] \in Entry /\ queue[e] \in Write
      BY DEF SyncShape, Typed
    <3>3. DeviceFit(call[e], local[e], sync[e], offered[e], queue[e], edits', row', purged')
      BY <1>1, <3>1, <3>2, DeviceOnward
    <3> QED
      BY <2>2, <3>3 DEF Others
  <2> QED
    BY <2>1, <2>2
<1> QED
  BY <1>2 DEF Fits, DeviceFit, CallFit, WriteFit, EntryFit, SyncFit, OfferFit, ToggleFit, CallOK,
              Current, NoCall, NoWrite, Saves, Origins

\* Writes that only move keep their edits' single expectation; a new edit has
\* one write, and no write of it was stored.
LEMMA OnceKept ==
  ASSUME SyncShape, Fits, Once, NEW d \in Pages, Others(d), row' = row, applied' = applied,
         \A w \in Writes(d)' :
           w \in Writes(d) \/ w.edit = 0 \/ (w = call'[d].write /\ w.edit = edits + 1),
         \A w \in Writes(d)' : w \in Write
  PROVE  Once'
<1>1. \A w \in AllWrites' :
        w \in AllWrites \/ w.edit = 0 \/ (w = call'[d].write /\ w.edit = edits + 1)
  BY DEF AllWrites, Writes, Others
<1>2. edits \in Nat /\ \A n \in 0 .. MaxEdits : n \in Nat
  BY DeviceSyncAssumption DEF SyncShape
<1>3. \A w \in AllWrites : w.edit <= edits /\ w \in Write
  BY DEF AllWrites, Writes, Fits, DeviceFit, CallFit, SyncFit, WriteFit, SyncShape, Typed, Call, Sync
<1>4. \A w \in AllWrites : w.edit # edits + 1
  BY <1>2, <1>3, Parts
<1>5. \A v, w \in AllWrites' : (v.edit = w.edit /\ v.edit # 0) => v.expected = w.expected
  BY <1>1, <1>4 DEF Once
<1>6. ASSUME NEW w \in AllWrites', w.edit # 0, applied[w.edit] # 0
      PROVE  w.expected < row.revision
  <2>1. CASE w \in AllWrites
    BY <1>6, <2>1 DEF Once
  <2>2. CASE w = call'[d].write /\ w.edit = edits + 1
    <3>1. w \in Write
      BY <2>2 DEF Writes
    <3>2. w.edit \in EditIds /\ w.edit > edits
      <4>1. w.edit \in Nat /\ w.edit <= MaxEdits
        BY <3>1, Parts
      <4> QED
        BY <1>2, <2>2, <4>1, DeviceSyncAssumption DEF EditIds
    <3>3. applied[w.edit] = 0
      BY <3>2 DEF SyncShape
    <3> QED
      BY <1>6, <3>3
  <2> QED
    BY <1>1, <1>6, <2>1, <2>2
<1>7. \A n \in EditIds : applied'[n] <= 1
  BY DEF Once
<1> QED
  BY <1>5, <1>6, <1>7 DEF Once

\* A toggle stays secret while nobody takes it from the request, and a new one
\* is known to nobody.
LEMMA SecretKept ==
  ASSUME SyncShape, Fits, Secret, NEW d \in Pages, Others(d), row' = row,
         OwnEdits(d)' \subseteq OwnEdits(d) \cup Rest(d) \cup row.content \cup {edits + 1} \cup Untoggled,
         Rest(d)' \subseteq OwnEdits(d) \cup Rest(d) \cup row.content,
         call'[d].kind = "favorite" =>
           /\ Rest(d)' \subseteq Rest(d) \cup row.content
           /\ \/ call[d].kind = "favorite" /\ call'[d].write = call[d].write
              \/ call'[d].write.edit = edits + 1
  PROVE  Secret'
<1>1. edits \in Nat
  BY DeviceSyncAssumption DEF SyncShape
<1>2. \A e \in Pages : OwnEdits(e) \cup Rest(e) \cup row.content \subseteq 1 .. edits
  <2> SUFFICES ASSUME NEW e \in Pages
               PROVE  OwnEdits(e) \cup Rest(e) \subseteq 1 .. edits
    BY DEF SyncShape
  <2>1. DeviceFit(call[e], local[e], sync[e], offered[e], queue[e], edits, row, purged)
    BY DEF Fits
  <2> QED
    BY <2>1 DEF DeviceFit, CallFit, SyncFit, WriteFit, EntryFit, OfferFit, OwnEdits, Rest
<1>3. \A e \in Pages : edits + 1 \notin OwnEdits(e) \cup Rest(e) \cup row.content
  BY <1>1, <1>2
<1>4. \A e \in Pages \ {d} : OwnEdits(e)' = OwnEdits(e) /\ Rest(e)' = Rest(e) /\ call'[e] = call[e]
  BY DEF OwnEdits, Rest, Others
<1>5. ASSUME NEW e \in Pages, call'[e].kind = "favorite",
             row.revision <= call'[e].write.expected
      PROVE  LET n == call'[e].write.edit
             IN  /\ n \notin row.content
                 /\ \A f \in Pages : n \notin Rest(f)'
                 /\ \A f \in Pages \ {e} : n \notin OwnEdits(f)'
  <2>1. CASE e = d /\ call'[d].write.edit = edits + 1
    BY <1>3, <1>4, <1>5, <2>1
  <2>2. CASE e = d /\ call[d].kind = "favorite" /\ call'[d].write = call[d].write
    <3>1. Unseen(d, call[d].write.edit)
      BY <1>5, <2>2 DEF Secret
    <3> QED
      BY <1>4, <1>5, <2>2, <3>1 DEF Unseen
  <2>3. CASE e # d
    <3>1. call[e].kind = "favorite" /\ Unseen(e, call[e].write.edit)
      BY <1>4, <1>5, <2>3 DEF Secret
    <3>2. call[e].write.edit # edits + 1
      <4>1. call[e].write \in Write /\ call[e].write.edit <= edits
        <5>1. CallFit(call[e], edits, row, purged) /\ call[e] \in Call
          BY DEF Fits, DeviceFit, SyncShape, Typed
        <5> QED
          BY <5>1 DEF CallFit, WriteFit, Call
      <4>2. call[e].write.edit \in Nat
        BY <4>1, Parts
      <4> QED
        BY <1>1, <4>1, <4>2
    <3>3. call[e].write.edit \notin Untoggled
      BY <3>1 DEF Untoggled
    <3> QED
      BY <1>4, <2>3, <3>1, <3>2, <3>3 DEF Unseen
  <2> QED
    BY <1>5, <2>1, <2>2, <2>3
<1> QED
  BY <1>5 DEF Secret, Unseen

\* A step that leaves the row alone.
LEMMA MoveKept ==
  ASSUME SyncIInv, NEW d \in Pages, Others(d), UNCHANGED <<scenario, row, applied, purged>>,
         Typed',
         edits' = edits \/ (edits' = edits + 1 /\ edits < MaxEdits),
         sync'[d].answer = "busy" => scenario.busy,
         DeviceFit(call'[d], local'[d], sync'[d], offered'[d], queue'[d], edits', row, purged),
         \A w \in Writes(d)' :
           w \in Writes(d) \/ w.edit = 0 \/ (w = call'[d].write /\ w.edit = edits + 1),
         OwnEdits(d)' \subseteq OwnEdits(d) \cup Rest(d) \cup row.content \cup {edits + 1} \cup Untoggled,
         Rest(d)' \subseteq OwnEdits(d) \cup Rest(d) \cup row.content,
         call'[d].kind = "favorite" =>
           /\ Rest(d)' \subseteq Rest(d) \cup row.content
           /\ \/ call[d].kind = "favorite" /\ call'[d].write = call[d].write
              \/ call'[d].write.edit = edits + 1
  PROVE  SyncIInv'
<1>1. SyncShape /\ Fits /\ (purged \/ (Once /\ Secret))
  BY DEF SyncIInv
<1>2. row' = row /\ applied' = applied /\ purged' = purged /\ scenario' = scenario
  OBVIOUS
<1>3. /\ edits \in Nat /\ edits' \in Nat /\ edits <= edits' /\ edits' \in 0 .. MaxEdits
      /\ \A n \in EditIds : n > edits' => n > edits
  <2>1. edits \in Nat /\ edits <= MaxEdits
    BY <1>1, DeviceSyncAssumption DEF SyncShape
  <2>2. \A n \in EditIds : n \in Nat
    BY DeviceSyncAssumption DEF EditIds
  <2> QED
    BY <2>1, <2>2, DeviceSyncAssumption
<1>4. SyncShape'
  <2>1. row.content \subseteq 1 .. edits'
    BY <1>1, <1>3, MoreEdits DEF SyncShape
  <2>2. \A n \in EditIds : n > edits' => applied[n] = 0
    BY <1>1, <1>3 DEF SyncShape
  <2>3. \A e \in Pages : sync'[e].answer = "busy" => scenario.busy
    BY <1>1 DEF SyncShape, Others
  <2> QED
    BY <1>1, <1>2, <1>3, <2>1, <2>2, <2>3 DEF SyncShape, Row, Contents, EditIds
<1>5. Fits'
  <2>1. Onward(edits, edits', row, row', purged, purged')
    BY <1>2, <1>3 DEF Onward
  <2>2. DeviceFit(call'[d], local'[d], sync'[d], offered'[d], queue'[d], edits', row', purged')
    BY <1>2
  <2> QED
    BY <1>1, <1>4, <2>1, <2>2, FitsKept
<1>6. ASSUME Once
      PROVE  Once'
  <2>1. \A w \in Writes(d)' : w \in Write
    BY DEF Writes, Typed, Call, Sync
  <2> QED
    BY <1>1, <1>2, <1>6, <2>1, OnceKept
<1>7. Secret => Secret'
  BY <1>1, <1>2, SecretKept
<1> QED
  BY <1>1, <1>2, <1>4, <1>5, <1>6, <1>7 DEF SyncIInv

\* What the invariant says of one device.
LEMMA AtPage ==
  ASSUME SyncIInv, NEW d \in Pages
  PROVE  /\ call[d] \in Call /\ local[d] \in Entry /\ sync[d] \in Sync
         /\ offered[d] \in Entry /\ queue[d] \in Write
         /\ call[d].write \in Write /\ sync[d].write \in Write /\ sync[d].listed \in Entry
         /\ CallFit(call[d], edits, row, purged) /\ CallOK(call[d])
         /\ WriteFit(call[d].write, edits, row, purged)
         /\ EntryFit(local[d], edits, row, purged)
         /\ SyncFit(sync[d], edits, row, purged) /\ OfferFit(offered[d], edits)
         /\ WriteFit(queue[d], edits, row, purged) /\ ToggleFit(call[d], local[d])
         /\ sync[d].answer = "busy" => scenario.busy
<1>1. /\ call[d] \in Call /\ local[d] \in Entry /\ sync[d] \in Sync
      /\ offered[d] \in Entry /\ queue[d] \in Write
  BY DEF SyncIInv, SyncShape, Typed
<1>2. call[d].write \in Write /\ sync[d].write \in Write /\ sync[d].listed \in Entry
  BY <1>1 DEF Call, Sync
<1>3. DeviceFit(call[d], local[d], sync[d], offered[d], queue[d], edits, row, purged)
  BY DEF SyncIInv, Fits
<1>4. sync[d].answer = "busy" => scenario.busy
  BY DEF SyncIInv, SyncShape
<1> QED
  BY <1>1, <1>2, <1>3, <1>4 DEF DeviceFit, CallFit

\* The row and the counters.
LEMMA AtService ==
  ASSUME SyncIInv
  PROVE  /\ row \in Row /\ row.content \subseteq 1 .. edits /\ row.content \subseteq EditIds
         /\ row.revision \in Nat /\ row.revision \in 0 .. MaxWrites
         /\ edits \in Nat /\ edits <= MaxEdits /\ purged \in BOOLEAN
         /\ scenario \in Scenarios
<1>1. row \in Row /\ row.content \subseteq 1 .. edits /\ edits \in 0 .. MaxEdits
      /\ purged \in BOOLEAN /\ scenario \in Scenarios
  BY DEF SyncIInv, SyncShape
<1>2. row.revision \in Nat /\ row.content \subseteq EditIds /\ row.revision \in 0 .. MaxWrites
  BY <1>1, Parts DEF Row
<1>3. edits \in Nat /\ edits <= MaxEdits
  BY <1>1, DeviceSyncAssumption
<1> QED
  BY <1>1, <1>2, <1>3

\* Nothing is always fit.
LEMMA NothingFits ==
  ASSUME NEW m \in Nat, NEW r, NEW p \in BOOLEAN
  PROVE  /\ NoCall \in Call /\ CallFit(NoCall, m, r, p) /\ NoCall.write = NoWrite
         /\ NoWrite \in Write /\ WriteFit(NoWrite, m, r, p) /\ NoWrite.edit = 0
         /\ NoWrite.content = {}
         /\ NoEntry \in Entry /\ EntryFit(NoEntry, m, r, p) /\ OfferFit(NoEntry, m)
         /\ NoEntry.content = {}
         /\ Locked \in Entry /\ EntryFit(Locked, m, r, p) /\ Locked.content = {}
         /\ NoSync \in Sync /\ SyncFit(NoSync, m, r, p) /\ NoSync.answer = "none"
         /\ NoSync.write = NoWrite /\ NoSync.listed = NoEntry
<1>1. 0 \in 0 .. MaxEdits /\ 0 \in 0 .. MaxWrites + 1 /\ 0 <= m
  BY DeviceSyncAssumption
<1>2. /\ NoWrite \in Write /\ WriteFit(NoWrite, m, r, p) /\ NoWrite.edit = 0
      /\ NoWrite.content = {}
  BY <1>1 DEF NoWrite, Write, WriteFit, Origins, Contents
<1>3. /\ NoEntry \in Entry /\ EntryFit(NoEntry, m, r, p) /\ OfferFit(NoEntry, m)
      /\ NoEntry.content = {}
  BY <1>1 DEF NoEntry, Entry, EntryFit, OfferFit, Origins, Contents
<1>4. Locked \in Entry /\ EntryFit(Locked, m, r, p) /\ Locked.content = {}
  BY <1>1 DEF Locked, Entry, EntryFit, Origins, Contents
<1>5. /\ NoCall \in Call /\ NoCall.write = NoWrite /\ NoCall.kind = "none"
      /\ NoCall.answer = "none"
  BY <1>2 DEF NoCall, Call, CallKinds, CallAnswers
<1>6. CallOK(NoCall)
  BY <1>2, <1>5 DEF CallOK, Saves
<1>7. CallFit(NoCall, m, r, p)
  BY <1>2, <1>5, <1>6 DEF CallFit, Saves
<1>8. NoSync \in Sync /\ NoSync.write = NoWrite /\ NoSync.listed = NoEntry
      /\ NoSync.answer = "none"
  BY <1>2, <1>3 DEF NoSync, Sync, SyncSteps, CallAnswers
<1>9. SyncFit(NoSync, m, r, p)
  BY <1>2, <1>3, <1>8 DEF SyncFit
<1> QED
  BY <1>2, <1>3, <1>4, <1>5, <1>7, <1>8, <1>9
\* What a device has after a step of its own.
Turn(d, x, l, s, o, q) ==
  /\ call' = [call EXCEPT ![d] = x]
  /\ local' = [local EXCEPT ![d] = l]
  /\ sync' = [sync EXCEPT ![d] = s]
  /\ offered' = [offered EXCEPT ![d] = o]
  /\ queue' = [queue EXCEPT ![d] = q]

\* What a step leaves alone is what it was.
LEMMA Same ==
  ASSUME SyncIInv, NEW d \in Pages
  PROVE  /\ call = [call EXCEPT ![d] = call[d]]
         /\ local = [local EXCEPT ![d] = local[d]]
         /\ sync = [sync EXCEPT ![d] = sync[d]]
         /\ offered = [offered EXCEPT ![d] = offered[d]]
         /\ queue = [queue EXCEPT ![d] = queue[d]]
BY DEF SyncIInv, SyncShape, Typed

\* What a turn makes of the devices.
LEMMA TurnGives ==
  ASSUME SyncIInv, NEW d \in Pages,
         NEW x \in Call, NEW l \in Entry, NEW s \in Sync, NEW o \in Entry, NEW q \in Write,
         Turn(d, x, l, s, o, q)
  PROVE  /\ Typed' /\ Others(d)
         /\ call'[d] = x /\ local'[d] = l /\ sync'[d] = s /\ offered'[d] = o /\ queue'[d] = q
<1>1. Typed
  BY DEF SyncIInv, SyncShape
<1>2. /\ call' \in [Pages -> Call] /\ call'[d] = x
      /\ \A e \in Pages \ {d} : call'[e] = call[e]
  BY <1>1 DEF Turn, Typed
<1>3. /\ local' \in [Pages -> Entry] /\ local'[d] = l
      /\ \A e \in Pages \ {d} : local'[e] = local[e]
  BY <1>1 DEF Turn, Typed
<1>4. /\ sync' \in [Pages -> Sync] /\ sync'[d] = s
      /\ \A e \in Pages \ {d} : sync'[e] = sync[e]
  BY <1>1 DEF Turn, Typed
<1>5. /\ offered' \in [Pages -> Entry] /\ offered'[d] = o
      /\ \A e \in Pages \ {d} : offered'[e] = offered[e]
  BY <1>1 DEF Turn, Typed
<1>6. /\ queue' \in [Pages -> Write] /\ queue'[d] = q
      /\ \A e \in Pages \ {d} : queue'[e] = queue[e]
  BY <1>1 DEF Turn, Typed
<1>7. Typed' /\ Others(d)
  BY <1>2, <1>3, <1>4, <1>5, <1>6 DEF Typed, Others, Call, Entry, Sync, Write
<1> QED
  BY <1>2, <1>3, <1>4, <1>5, <1>6, <1>7

\* A step of one device that leaves the row alone, by what the device has afterwards.
LEMMA TurnKept ==
  ASSUME SyncIInv, NEW d \in Pages, UNCHANGED <<scenario, row, applied, purged>>,
         NEW x \in Call, NEW l \in Entry, NEW s \in Sync, NEW o \in Entry, NEW q \in Write,
         Turn(d, x, l, s, o, q),
         edits' = edits \/ (edits' = edits + 1 /\ edits < MaxEdits),
         s.answer = "busy" => scenario.busy,
         DeviceFit(x, l, s, o, q, edits', row, purged),
         \A w \in {x.write, q, s.write} :
           w \in Writes(d) \/ w.edit = 0 \/ (w = x.write /\ w.edit = edits + 1),
         x.write.content \cup l.content \subseteq
           OwnEdits(d) \cup Rest(d) \cup row.content \cup {edits + 1} \cup Untoggled,
         q.content \cup s.write.content \cup s.listed.content \cup o.content \subseteq
           OwnEdits(d) \cup Rest(d) \cup row.content,
         x.kind = "favorite" =>
           /\ q.content \cup s.write.content \cup s.listed.content \cup o.content \subseteq
                Rest(d) \cup row.content
           /\ \/ call[d].kind = "favorite" /\ x.write = call[d].write
              \/ x.write.edit = edits + 1
  PROVE  SyncIInv'
<1>1. /\ Typed' /\ Others(d)
      /\ call'[d] = x /\ local'[d] = l /\ sync'[d] = s /\ offered'[d] = o /\ queue'[d] = q
  BY TurnGives
<1>2. Writes(d)' = {x.write, q, s.write}
  BY <1>1 DEF Writes
<1>3. /\ OwnEdits(d)' = x.write.content \cup l.content
      /\ Rest(d)' = q.content \cup s.write.content \cup s.listed.content \cup o.content
  BY <1>1 DEF OwnEdits, Rest
<1>4. /\ sync'[d].answer = "busy" => scenario.busy
       /\ DeviceFit(call'[d], local'[d], sync'[d], offered'[d], queue'[d], edits', row, purged)
  BY <1>1
<1>5. \A w \in Writes(d)' :
         w \in Writes(d) \/ w.edit = 0 \/ (w = call'[d].write /\ w.edit = edits + 1)
  BY <1>1, <1>2
<1>6. /\ OwnEdits(d)' \subseteq OwnEdits(d) \cup Rest(d) \cup row.content \cup {edits + 1} \cup Untoggled
       /\ Rest(d)' \subseteq OwnEdits(d) \cup Rest(d) \cup row.content
  BY <1>3
<1>7. call'[d].kind = "favorite" =>
         /\ Rest(d)' \subseteq Rest(d) \cup row.content
         /\ \/ call[d].kind = "favorite" /\ call'[d].write = call[d].write
            \/ call'[d].write.edit = edits + 1
  BY <1>1, <1>3
<1> QED
  BY <1>1, <1>4, <1>5, <1>6, <1>7, MoveKept

\* What a device has fits as well once the user has made another edit.
LEMMA AnotherEdit ==
  ASSUME SyncIInv, NEW d \in Pages, NEW made \in Nat, edits <= made
  PROVE  DeviceFit(call[d], local[d], sync[d], offered[d], queue[d], made, row, purged)
<1>1. Onward(edits, made, row, row, purged, purged)
  BY DEF Onward
<1>2. DeviceFit(call[d], local[d], sync[d], offered[d], queue[d], edits, row, purged)
  BY DEF SyncIInv, Fits
<1>3. /\ call[d] \in Call /\ local[d] \in Entry /\ sync[d] \in Sync
      /\ offered[d] \in Entry /\ queue[d] \in Write
  BY AtPage
<1>4. row \in Row /\ purged \in BOOLEAN /\ edits \in Nat
  BY AtService
<1> QED
  BY <1>1, <1>2, <1>3, <1>4, DeviceOnward

-----------------------------------------------------------------------------
(* The user's requests.                                                    *)

\* A request that says what it should, with the copy shown from then on.
LEMMA AskKept ==
  ASSUME SyncIInv, NEW d \in Pages, NEW kind \in CallKinds \ {"none"}, NEW w \in Write,
         NEW l \in Entry, Ask(d, kind, w), local' = [local EXCEPT ![d] = l],
         UNCHANGED <<scenario, service, offered, queue, sync>>,
         edits' = edits \/ (edits' = edits + 1 /\ edits < MaxEdits),
         kind \in Saves <=> w.edit # 0,
         w.edit = 0 \/ w.edit = edits + 1,
         kind \in Saves => ~w.dead,
         kind = "favorite" => w.expected > 0 /\ l.content = w.content /\ l.origin = w.origin,
         WriteFit(w, edits', row, purged), EntryFit(l, edits', row, purged),
         w.content \cup l.content \subseteq
           OwnEdits(d) \cup Rest(d) \cup row.content \cup {edits + 1} \cup Untoggled
  PROVE  SyncIInv'
<1> DEFINE y == [kind |-> kind, write |-> w, answer |-> "wait", attached |-> TRUE]
<1>1. PICK x : x = y
  OBVIOUS
<1>2. /\ x.kind = kind /\ x.write = w /\ x.answer = "wait" /\ x.attached
  BY <1>1
<1>3. x \in Call
  BY <1>1 DEF Call, CallAnswers
<1>4. Turn(d, x, l, sync[d], offered[d], queue[d])
  BY <1>1, Same DEF Ask, Turn
<1>5. edits' \in Nat /\ edits <= edits'
  BY AtService
<1>6. DeviceFit(call[d], local[d], sync[d], offered[d], queue[d], edits', row, purged)
  BY <1>5, AnotherEdit
<1>7. CallOK(x)
  BY <1>2 DEF CallOK, Saves
<1>8. CallFit(x, edits', row, purged)
  BY <1>2, <1>7 DEF CallFit
<1>9. ToggleFit(x, l)
  BY <1>2 DEF ToggleFit
<1>10. DeviceFit(x, l, sync[d], offered[d], queue[d], edits', row, purged)
  BY <1>6, <1>8, <1>9 DEF DeviceFit
<1>11. /\ sync[d] \in Sync /\ offered[d] \in Entry /\ queue[d] \in Write
       /\ sync[d].answer = "busy" => scenario.busy
  BY AtPage
<1>12. \A v \in {x.write, queue[d], sync[d].write} :
         v \in Writes(d) \/ v.edit = 0 \/ (v = x.write /\ v.edit = edits + 1)
  BY <1>2 DEF Writes
<1>13. queue[d].content \cup sync[d].write.content \cup sync[d].listed.content
         \cup offered[d].content = Rest(d)
  BY DEF Rest
<1>14. x.kind = "favorite" => x.write.edit = edits + 1
  BY <1>2 DEF Saves
<1>15. x.write.content \cup l.content \subseteq
         OwnEdits(d) \cup Rest(d) \cup row.content \cup {edits + 1} \cup Untoggled
  BY <1>2
<1>16. UNCHANGED <<scenario, row, applied, purged>>
  BY DEF service
<1> QED
  BY <1>3, <1>4, <1>10, <1>11, <1>12, <1>13, <1>14, <1>15, <1>16, TurnKept
\* Another edit within the scenario's bound.
LEMMA EditBound ==
  ASSUME SyncIInv, edits < scenario.edits
  PROVE  /\ edits < MaxEdits /\ edits + 1 \in Nat /\ edits + 1 \in 0 .. MaxEdits
         /\ edits + 1 \in EditIds /\ edits + 1 \in 1 .. edits + 1 /\ edits + 1 # 0
         /\ 1 .. edits \subseteq 1 .. edits + 1
<1>1. edits \in Nat
  BY AtService
<1>2. scenario.edits \in 0 .. MaxEdits
  BY AtService, DeviceSyncAssumption
<1> QED
  BY <1>1, <1>2, DeviceSyncAssumption DEF EditIds

\* A save of a copy that is shown, which has a revision.
LEMMA SealedCopy ==
  ASSUME SyncIInv, NEW d \in Pages, Shown(d), edits < scenario.edits,
         NEW c, c \subseteq 1 .. edits, NEW origin \in Origins,
         origin = "service" => local[d].origin = "service" /\ local[d].content \subseteq c,
         NEW w, w = [edit |-> edits + 1, expected |-> local[d].revision,
                     content |-> c \cup {edits + 1}, dead |-> FALSE, origin |-> origin]
  PROVE  /\ w \in Write /\ WriteFit(w, edits + 1, row, purged)
         /\ w.edit = edits + 1 /\ ~w.dead /\ w.expected > 0
         /\ w.content = c \cup {edits + 1} /\ w.origin = origin
<1>2. /\ w.edit = edits + 1 /\ w.expected = local[d].revision /\ w.dead = FALSE
      /\ w.content = c \cup {edits + 1} /\ w.origin = origin
  OBVIOUS
<1>3. local[d] \in Entry /\ EntryFit(local[d], edits, row, purged) /\ local[d].origin \in Origins
  BY AtPage DEF Shown
<1>4. local[d].revision > 0
  BY <1>3 DEF EntryFit
<1>5. w \in Write
  <2>1. edits + 1 \in 0 .. MaxEdits /\ edits + 1 \in EditIds /\ 1 .. edits \subseteq EditIds
    <3>1. edits + 1 \in 0 .. MaxEdits /\ edits + 1 \in EditIds
      BY EditBound
    <3>2. edits \in Nat /\ edits <= MaxEdits /\ MaxEdits \in Nat
      BY AtService, DeviceSyncAssumption
    <3>3. 1 .. edits \subseteq EditIds
      BY <3>2, MoreEdits DEF EditIds
    <3> QED
      BY <3>1, <3>3
  <2>2. local[d].revision \in 0 .. MaxWrites + 1
    BY <1>3 DEF Entry
  <2>3. c \cup {edits + 1} \in Contents
    BY <2>1 DEF Contents
  <2> QED
    BY <2>1, <2>2, <2>3 DEF Write
<1>6. w.content \subseteq 1 .. edits + 1 /\ w.edit <= edits + 1
  <2>1. c \cup {edits + 1} \subseteq 1 .. edits + 1
    BY EditBound
  <2>2. edits + 1 <= edits + 1
    BY EditBound
  <2> QED
    BY <1>2, <2>1, <2>2
<1>7. purged \/ (w.origin = "service" => Current(w.expected, w.content, row))
  BY <1>2, <1>3 DEF EntryFit, Current
<1>8. WriteFit(w, edits + 1, row, purged)
  BY <1>2, <1>4, <1>6, <1>7 DEF WriteFit
<1> QED
  BY <1>2, <1>4, <1>5, <1>8

\* What a form saves: the shown entry's toggles, and fields that are at least the
\* entry's unless a listing has replaced it.
LEMMA FormSaves ==
  ASSUME SyncIInv, FormIInv, NEW d \in Pages
  PROVE  /\ FormContent(d) \subseteq 1 .. edits
         /\ FormContent(d) \subseteq local[d].content \cup Untoggled
         /\ form[d].attached => local[d].content \subseteq FormContent(d)
<1>1. /\ FormFit(form[d], local[d], call[d], edits, toggles)
      /\ EntryFit(local[d], edits, row, purged)
  BY AtPage DEF FormIInv
<1>2. form[d].content \subseteq 1 .. edits /\ local[d].content \subseteq 1 .. edits
  BY <1>1 DEF FormFit, EntryFit
<1>3. 1 .. edits \subseteq EditIds
  BY AtService, DeviceSyncAssumption DEF EditIds
<1>4. form[d].content \cap toggles = {}
  BY <1>1 DEF FormFit
<1>5. \A e \in Pages : call[e].kind = "favorite" => call[e].write.edit \in toggles
  BY DEF FormIInv, FormFit
<1>6. form[d].content \subseteq Untoggled
  BY <1>2, <1>3, <1>4, <1>5 DEF Untoggled
<1>7. form[d].attached => local[d].content \ toggles \subseteq form[d].content
  BY <1>1 DEF FormFit
<1>8. FormContent(d) = (form[d].content \ toggles) \cup (local[d].content \cap toggles)
  BY DEF FormContent
<1> QED
  BY <1>2, <1>4, <1>6, <1>7, <1>8

\* The form on an entry that is shown.
LEMMA EditKept ==
  ASSUME SyncIInv, FormIInv, NEW d \in Pages, Edit(d), UNCHANGED scenario
  PROVE  SyncIInv'
<1>1. PICK origin : origin = IF form[d].attached THEN local[d].origin ELSE "form"
  OBVIOUS
<1>2. PICK w : w = [edit |-> edits + 1, expected |-> local[d].revision,
                    content |-> FormContent(d) \cup {edits + 1}, dead |-> FALSE,
                    origin |-> origin]
  OBVIOUS
<1>3. /\ Ask(d, "edit", w) /\ edits' = edits + 1 /\ edits < scenario.edits /\ Shown(d)
      /\ UNCHANGED <<service, local, offered, queue, sync>>
  BY <1>1, <1>2 DEF Edit, NewEdit
<1>4. /\ FormContent(d) \subseteq 1 .. edits
      /\ FormContent(d) \subseteq local[d].content \cup Untoggled
      /\ form[d].attached => local[d].content \subseteq FormContent(d)
  BY FormSaves
<1>5. /\ origin \in Origins
      /\ origin = "service" => local[d].origin = "service" /\ local[d].content \subseteq FormContent(d)
  BY <1>1, <1>3, <1>4 DEF Shown, Origins
<1>6. /\ w \in Write /\ WriteFit(w, edits + 1, row, purged)
      /\ w.edit = edits + 1 /\ ~w.dead /\ w.content = FormContent(d) \cup {edits + 1}
  <2>1. PICK c : c = FormContent(d)
    OBVIOUS
  <2> QED
    BY <1>2, <1>3, <1>4, <1>5, <2>1, SealedCopy
<1>7. local[d] \in Entry /\ local' = [local EXCEPT ![d] = local[d]]
  BY <1>3, AtPage, Same
<1>8. EntryFit(local[d], edits', row, purged)
  BY <1>3, AnotherEdit, EditBound, AtService DEF DeviceFit
<1>9. w.content \cup local[d].content \subseteq
        OwnEdits(d) \cup Rest(d) \cup row.content \cup {edits + 1} \cup Untoggled
  BY <1>4, <1>6 DEF OwnEdits
<1>10. edits < MaxEdits /\ edits + 1 # 0
  BY <1>3, EditBound
<1> QED
  BY <1>3, <1>6, <1>7, <1>8, <1>9, <1>10, AskKept DEF CallKinds, Saves

\* The form on a new entry.
LEMMA CreateEntryKept ==
  ASSUME SyncIInv, NEW d \in Pages, CreateEntry(d), UNCHANGED scenario
  PROVE  SyncIInv'
<1>1. PICK w : w = [edit |-> edits + 1, expected |-> 0, content |-> {edits + 1},
                    dead |-> FALSE, origin |-> "created"]
  OBVIOUS
<1>2. /\ Ask(d, "create", w) /\ edits' = edits + 1 /\ edits < scenario.edits
      /\ UNCHANGED <<service, local, offered, queue, sync>>
  BY <1>1 DEF CreateEntry, NewEdit
<1>3. /\ w.edit = edits + 1 /\ w.content = {edits + 1} /\ w.dead = FALSE
      /\ w.origin = "created"
  BY <1>1
<1>4. local[d] \in Entry /\ local' = [local EXCEPT ![d] = local[d]]
  BY <1>2, AtPage, Same
<1>5. EntryFit(local[d], edits', row, purged)
  BY <1>2, AnotherEdit, EditBound, AtService DEF DeviceFit
<1>6. /\ edits < MaxEdits /\ edits + 1 # 0 /\ edits + 1 \in 0 .. MaxEdits
      /\ edits + 1 \in EditIds /\ edits + 1 \in 1 .. edits + 1 /\ edits + 1 \in Nat
  BY <1>2, EditBound
<1>7. w \in Write
  <2>1. 0 \in 0 .. MaxWrites + 1
    BY DeviceSyncAssumption
  <2> QED
    BY <1>1, <1>6, <2>1 DEF Write, Origins, Contents
<1>8. WriteFit(w, edits', row, purged)
  <2>1. w.edit <= edits'
    BY <1>2, <1>3, <1>6
  <2> QED
    BY <1>2, <1>3, <1>6, <2>1 DEF WriteFit
<1>9. w.content \cup local[d].content \subseteq
        OwnEdits(d) \cup Rest(d) \cup row.content \cup {edits + 1} \cup Untoggled
  BY <1>3 DEF OwnEdits
<1> QED
  BY <1>2, <1>3, <1>4, <1>5, <1>6, <1>7, <1>8, <1>9, AskKept DEF CallKinds, Saves

\* The star, which shows the edit at once.
LEMMA FavoriteKept ==
  ASSUME SyncIInv, NEW d \in Pages, Favorite(d), UNCHANGED scenario
  PROVE  SyncIInv'
<1> DEFINE v == [edit |-> edits + 1, expected |-> local[d].revision,
                 content |-> local[d].content \cup {edits + 1}, dead |-> FALSE,
                 origin |-> local[d].origin]
<1>0. PICK w : w = v
  OBVIOUS
<1>1. /\ Ask(d, "favorite", w) /\ edits' = edits + 1 /\ edits < scenario.edits
      /\ Shown(d) /\ UNCHANGED <<service, offered, queue, sync>>
  BY <1>0 DEF Favorite, NewEdit
<1> HIDE DEF v
<1>2. PICK l : l = [local[d] EXCEPT !.content = @ \cup {edits + 1}]
  OBVIOUS
<1>3. local' = [local EXCEPT ![d] = l]
  BY <1>2, Same DEF Favorite, NewEdit, SyncIInv, SyncShape, Typed
<1>4. local[d] \in Entry /\ EntryFit(local[d], edits, row, purged) /\ local[d].origin \in Origins
  BY <1>1, AtPage DEF Shown
<1>5. /\ l.content = local[d].content \cup {edits + 1} /\ l.origin = local[d].origin
      /\ l.revision = local[d].revision
  BY <1>2, <1>4 DEF Entry
<1>6. /\ edits < MaxEdits /\ edits + 1 # 0 /\ edits + 1 \in EditIds
      /\ edits + 1 \in 1 .. edits + 1 /\ 1 .. edits \subseteq 1 .. edits + 1
  BY <1>1, EditBound
<1>7. l \in Entry
  BY <1>2, <1>4, <1>6 DEF Entry, Contents
<1>8. EntryFit(l, edits', row, purged)
  <2>1. l.content \subseteq 1 .. edits'
    BY <1>1, <1>4, <1>5, <1>6 DEF EntryFit
  <2>2. l.revision > 0
    BY <1>4, <1>5 DEF EntryFit
  <2>3. purged \/ (l.origin = "service" => Current(l.revision, l.content, row))
    BY <1>4, <1>5 DEF EntryFit, Current
  <2> QED
    BY <2>1, <2>2, <2>3 DEF EntryFit
<1>9. /\ w \in Write /\ WriteFit(w, edits + 1, row, purged)
      /\ w.edit = edits + 1 /\ ~w.dead /\ w.expected > 0
      /\ w.content = l.content /\ w.origin = l.origin
  <2>1. local[d].content \subseteq 1 .. edits
    BY <1>4 DEF EntryFit
  <2>2. PICK c, origin : c = local[d].content /\ origin = local[d].origin
    OBVIOUS
  <2>3. w = [edit |-> edits + 1, expected |-> local[d].revision,
             content |-> c \cup {edits + 1}, dead |-> FALSE, origin |-> origin]
    BY <1>0, <2>2 DEF v
  <2> QED
    BY <1>1, <1>4, <1>5, <2>1, <2>2, <2>3, SealedCopy
<1>10. w.content \cup l.content \subseteq
         OwnEdits(d) \cup Rest(d) \cup row.content \cup {edits + 1} \cup Untoggled
  BY <1>5, <1>9 DEF OwnEdits
<1> QED
  BY <1>1, <1>3, <1>6, <1>7, <1>8, <1>9, <1>10, AskKept DEF CallKinds, Saves

\* A deletion seals the copy shown.
LEMMA DeleteKept ==
  ASSUME SyncIInv, NEW d \in Pages, Delete(d), UNCHANGED scenario
  PROVE  SyncIInv'
<1>1. PICK w : w = [edit |-> 0, expected |-> local[d].revision, content |-> local[d].content,
                    dead |-> TRUE, origin |-> local[d].origin]
  OBVIOUS
<1>2. /\ Ask(d, "delete", w) /\ edits' = edits /\ Shown(d)
      /\ UNCHANGED <<service, local, offered, queue, sync>>
  BY <1>1 DEF Delete, user
<1>3. /\ w.edit = 0 /\ w.expected = local[d].revision /\ w.content = local[d].content
      /\ w.origin = local[d].origin
  BY <1>1
<1>4. /\ local[d] \in Entry /\ EntryFit(local[d], edits, row, purged)
      /\ local[d].origin \in Origins
  BY <1>2, AtPage DEF Shown
<1>5. local' = [local EXCEPT ![d] = local[d]]
  BY <1>2, Same
<1>6. w \in Write
  <2>1. 0 \in 0 .. MaxEdits
    BY DeviceSyncAssumption
  <2> QED
    BY <1>1, <1>4, <2>1 DEF Write, Entry
<1>7. WriteFit(w, edits', row, purged) /\ EntryFit(local[d], edits', row, purged)
  <2>1. w.edit <= edits
    BY <1>3, AtService
  <2> QED
    BY <1>2, <1>3, <1>4, <2>1 DEF WriteFit, EntryFit
<1>8. w.content \cup local[d].content \subseteq
        OwnEdits(d) \cup Rest(d) \cup row.content \cup {edits + 1} \cup Untoggled
  BY <1>3 DEF OwnEdits
<1> QED
  BY <1>2, <1>3, <1>4, <1>5, <1>6, <1>7, <1>8, AskKept DEF CallKinds, Saves

\* A restore seals the row.
LEMMA RestoreKept ==
  ASSUME SyncIInv, NEW d \in Pages, Restore(d), UNCHANGED scenario
  PROVE  SyncIInv'
<1>1. PICK w : w = [edit |-> 0, expected |-> row.revision, content |-> row.content,
                    dead |-> FALSE, origin |-> "service"]
  OBVIOUS
<1>2. /\ Ask(d, "restore", w) /\ edits' = edits /\ row.revision > 0
      /\ UNCHANGED <<service, local, offered, queue, sync>>
  BY <1>1 DEF Restore, user
<1>3. /\ w.edit = 0 /\ w.expected = row.revision /\ w.content = row.content
  BY <1>1
<1>4. local[d] \in Entry /\ EntryFit(local[d], edits, row, purged)
  BY AtPage
<1>5. local' = [local EXCEPT ![d] = local[d]]
  BY <1>2, Same
<1>6. /\ row.revision \in 0 .. MaxWrites + 1 /\ row.revision <= row.revision
      /\ 0 \in 0 .. MaxEdits /\ 0 <= edits
  BY AtService, DeviceSyncAssumption
<1>7. w \in Write
  BY <1>1, <1>6, AtService DEF Write, Contents, Origins
<1>8. WriteFit(w, edits', row, purged) /\ EntryFit(local[d], edits', row, purged)
  BY <1>2, <1>3, <1>4, <1>6, AtService DEF WriteFit, EntryFit, Current
<1>9. w.content \cup local[d].content \subseteq
        OwnEdits(d) \cup Rest(d) \cup row.content \cup {edits + 1} \cup Untoggled
  BY <1>3 DEF OwnEdits
<1> QED
  BY <1>2, <1>3, <1>4, <1>5, <1>7, <1>8, <1>9, AskKept DEF CallKinds, Saves

-----------------------------------------------------------------------------
(* The answers.                                                            *)

\* The request is over; the copy shown, the offer and the queue may change.
LEMMA AnswerKept ==
  ASSUME SyncIInv, NEW d \in Pages, UNCHANGED <<scenario, service, sync, edits>>,
         NEW l \in Entry, NEW o \in Entry, NEW q \in Write,
         call' = [call EXCEPT ![d] = NoCall], local' = [local EXCEPT ![d] = l],
         offered' = [offered EXCEPT ![d] = o], queue' = [queue EXCEPT ![d] = q],
         EntryFit(l, edits, row, purged), OfferFit(o, edits),
         q \in {queue[d], call[d].write},
         l.content \cup o.content \subseteq OwnEdits(d) \cup Rest(d) \cup row.content
  PROVE  SyncIInv'
<1>1. Turn(d, NoCall, l, sync[d], o, q)
  BY Same DEF Turn
<1>2. /\ NoCall \in Call /\ CallFit(NoCall, edits, row, purged) /\ NoCall.write = NoWrite
      /\ NoWrite.edit = 0 /\ NoWrite.content = {}
  BY AtService, NothingFits
<1>3. NoCall.kind = "none" /\ ToggleFit(NoCall, l)
  BY DEF NoCall, ToggleFit
<1>4. /\ sync[d] \in Sync /\ SyncFit(sync[d], edits, row, purged)
      /\ WriteFit(queue[d], edits, row, purged) /\ WriteFit(call[d].write, edits, row, purged)
      /\ sync[d].answer = "busy" => scenario.busy
  BY AtPage
<1>5. DeviceFit(NoCall, l, sync[d], o, q, edits', row, purged)
  BY <1>2, <1>3, <1>4 DEF DeviceFit
<1>6. \A w \in {NoCall.write, q, sync[d].write} :
        w \in Writes(d) \/ w.edit = 0 \/ (w = NoCall.write /\ w.edit = edits + 1)
  BY <1>2 DEF Writes
<1>7. NoCall.write.content \cup l.content \subseteq
        OwnEdits(d) \cup Rest(d) \cup row.content \cup {edits + 1} \cup Untoggled
  BY <1>2
<1>8. q.content \cup sync[d].write.content \cup sync[d].listed.content \cup o.content \subseteq
        OwnEdits(d) \cup Rest(d) \cup row.content
  BY DEF OwnEdits, Rest
<1>9. NoCall.kind # "favorite" /\ edits' = edits /\ UNCHANGED <<scenario, row, applied, purged>>
  BY <1>3 DEF service
<1> QED
  BY <1>1, <1>2, <1>4, <1>5, <1>6, <1>7, <1>8, <1>9, TurnKept

\* What an answer shows is shown in place of the copy, or the copy stays.
LEMMA ShownOr ==
  ASSUME SyncIInv, NEW d \in Pages, NEW x, Show(d, x)
  PROVE  \/ local' = [local EXCEPT ![d] = x] /\ InList(d)
         \/ local' = [local EXCEPT ![d] = local[d]]
BY Same DEF Show

\* Only the queue changes with an answer that shows nothing.
LEMMA CopyStays ==
  ASSUME SyncIInv, NEW d \in Pages, UNCHANGED <<scenario, service, sync, edits, offered>>,
         NEW q \in {queue[d], call[d].write},
         call' = [call EXCEPT ![d] = NoCall], local' = [local EXCEPT ![d] = local[d]],
         queue' = [queue EXCEPT ![d] = q]
  PROVE  SyncIInv'
<1>1. /\ local[d] \in Entry /\ offered[d] \in Entry /\ q \in Write
      /\ EntryFit(local[d], edits, row, purged) /\ OfferFit(offered[d], edits)
  BY AtPage
<1>2. offered' = [offered EXCEPT ![d] = offered[d]]
  BY Same
<1>3. local[d].content \cup offered[d].content \subseteq OwnEdits(d) \cup Rest(d) \cup row.content
  BY DEF OwnEdits, Rest
<1> QED
  BY <1>1, <1>2, <1>3, AnswerKept

\* A copy shown in place of the old one.
LEMMA CopyShown ==
  ASSUME SyncIInv, NEW d \in Pages, UNCHANGED <<scenario, service, sync, edits, offered>>,
         NEW q \in {queue[d], call[d].write}, NEW l \in Entry,
         call' = [call EXCEPT ![d] = NoCall], local' = [local EXCEPT ![d] = l],
         queue' = [queue EXCEPT ![d] = q], EntryFit(l, edits, row, purged),
         l.content \subseteq OwnEdits(d)
  PROVE  SyncIInv'
<1>1. offered[d] \in Entry /\ q \in Write /\ OfferFit(offered[d], edits)
  BY AtPage
<1>2. offered' = [offered EXCEPT ![d] = offered[d]]
  BY Same
<1>3. l.content \cup offered[d].content \subseteq OwnEdits(d) \cup Rest(d) \cup row.content
  BY DEF Rest
<1> QED
  BY <1>1, <1>2, <1>3, AnswerKept
\* Revisions of what an answer shows.
LEMMA AnsweredRevision ==
  ASSUME NEW w \in Write
  PROVE  /\ w.expected \in 0 .. MaxWrites + 1
         /\ w.expected < MaxWrites => w.expected + 1 \in 0 .. MaxWrites + 1
         /\ w.expected + 1 > 0 /\ w.expected \in Nat
<1>1. w.expected \in Nat /\ w.expected <= MaxWrites + 1
  BY Parts
<1> QED
  BY <1>1, DeviceSyncAssumption

\* A save the service took is shown under the revision it was given.
LEMMA SavedKept ==
  ASSUME SyncIInv, NEW d \in Pages, Saved(d), UNCHANGED scenario
  PROVE  SyncIInv'
<1>1. PICK w : w = call[d].write
  OBVIOUS
<1>2. PICK l : l = [revision |-> w.expected + 1, content |-> w.content, origin |-> "service"]
  OBVIOUS
<1>3. /\ call[d].kind \in {"edit", "create"} /\ call[d].answer = "ok"
      /\ call' = [call EXCEPT ![d] = NoCall] /\ Show(d, l)
      /\ UNCHANGED <<scenario, service, sync, edits, offered, queue>>
  BY <1>1, <1>2 DEF Saved, Answered, user
<1>4. l.revision = w.expected + 1 /\ l.content = w.content
  BY <1>2
<1>5. /\ w \in Write /\ CallFit(call[d], edits, row, purged)
      /\ WriteFit(w, edits, row, purged) /\ CallOK(call[d])
  BY <1>1, AtPage
<1>6. w.expected < MaxWrites
  BY <1>1, <1>3, <1>5 DEF CallOK
<1>7. l \in Entry
  <2>1. w.expected + 1 \in 0 .. MaxWrites + 1
    BY <1>5, <1>6, AnsweredRevision
  <2>2. w.content \in Contents
    BY <1>5 DEF Write
  <2> QED
    BY <1>2, <2>1, <2>2 DEF Entry, Origins
<1>8. EntryFit(l, edits, row, purged)
  <2>1. purged \/ Current(w.expected + 1, w.content, row)
    BY <1>1, <1>3, <1>5 DEF CallFit, Saves
  <2>2. w.content \subseteq 1 .. edits /\ w.expected + 1 > 0
    BY <1>5, AnsweredRevision DEF WriteFit
  <2> QED
    BY <1>4, <2>1, <2>2 DEF EntryFit
<1>9. queue' = [queue EXCEPT ![d] = queue[d]] /\ l.content \subseteq OwnEdits(d)
  BY <1>1, <1>3, <1>4, Same DEF OwnEdits
<1>10. CASE local' = [local EXCEPT ![d] = l]
  BY <1>3, <1>7, <1>8, <1>9, <1>10, CopyShown
<1>11. CASE local' = [local EXCEPT ![d] = local[d]]
  BY <1>3, <1>9, <1>11, CopyStays
<1> QED
  BY <1>3, <1>10, <1>11, ShownOr

\* A save that waits in the queue is shown under the revision it was made from.
LEMMA SavedOfflineKept ==
  ASSUME SyncIInv, NEW d \in Pages, SavedOffline(d), UNCHANGED scenario
  PROVE  SyncIInv'
<1>1. PICK w : w = call[d].write
  OBVIOUS
<1>2. PICK l : l = [revision |-> OfflineRevision(w.expected), content |-> w.content,
                    origin |-> w.origin]
  OBVIOUS
<1>3. /\ call' = [call EXCEPT ![d] = NoCall] /\ queue' = [queue EXCEPT ![d] = w] /\ Show(d, l)
      /\ UNCHANGED <<scenario, service, sync, edits, offered>>
  BY <1>1, <1>2 DEF SavedOffline, Answered, Enqueued, user
<1>4. /\ l.revision = OfflineRevision(w.expected) /\ l.content = w.content
      /\ l.origin = w.origin
  BY <1>2
<1>5. w \in Write /\ WriteFit(w, edits, row, purged)
  BY <1>1, AtPage
<1>6. /\ OfflineRevision(w.expected) \in 0 .. MaxWrites + 1
      /\ OfflineRevision(w.expected) > 0
      /\ w.expected > 0 => OfflineRevision(w.expected) = w.expected
  <2>1. w.expected \in 0 .. MaxWrites + 1 /\ w.expected \in Nat
    BY <1>5, AnsweredRevision
  <2>2. 1 \in 0 .. MaxWrites + 1
    BY DeviceSyncAssumption
  <2> QED
    BY <2>1, <2>2 DEF OfflineRevision
<1>7. l \in Entry
  BY <1>2, <1>5, <1>6 DEF Entry, Write
<1>8. EntryFit(l, edits, row, purged)
  <2>1. purged \/ (w.origin = "service" => Current(w.expected, w.content, row))
    BY <1>5 DEF WriteFit
  <2>2. /\ w.content \subseteq 1 .. edits
        /\ w.origin = "service" => OfflineRevision(w.expected) = w.expected
    BY <1>5, <1>6 DEF WriteFit
  <2> QED
    BY <1>4, <1>6, <2>1, <2>2 DEF EntryFit
<1>9. l.content \subseteq OwnEdits(d)
  BY <1>1, <1>4 DEF OwnEdits
<1>10. CASE local' = [local EXCEPT ![d] = l]
  BY <1>1, <1>3, <1>7, <1>8, <1>9, <1>10, CopyShown
<1>11. CASE local' = [local EXCEPT ![d] = local[d]]
  BY <1>1, <1>3, <1>11, CopyStays
<1> QED
  BY <1>3, <1>10, <1>11, ShownOr

\* A request that failed leaves nothing behind.
LEMMA FailedKept ==
  ASSUME SyncIInv, NEW d \in Pages, Failed(d), UNCHANGED scenario
  PROVE  SyncIInv'
<1>1. /\ call' = [call EXCEPT ![d] = NoCall]
      /\ UNCHANGED <<scenario, service, sync, edits, offered, local, queue>>
  BY DEF Failed, Answered, user
<1>2. local' = [local EXCEPT ![d] = local[d]] /\ queue' = [queue EXCEPT ![d] = queue[d]]
  BY <1>1, Same
<1> QED
  BY <1>1, <1>2, CopyStays

\* A toggle the service took has the row's revision, and what it showed is what it stored.
LEMMA FavoredKept ==
  ASSUME SyncIInv, NEW d \in Pages, Favored(d), UNCHANGED scenario
  PROVE  SyncIInv'
<1>1. PICK w : w = call[d].write
  OBVIOUS
<1>2. PICK l : l = [local[d] EXCEPT !.revision = w.expected + 1, !.origin = "service"]
  OBVIOUS
<1>3. /\ call[d].kind = "favorite" /\ call[d].answer = "ok"
      /\ call' = [call EXCEPT ![d] = NoCall] /\ Show(d, l)
      /\ UNCHANGED <<scenario, service, sync, edits, offered, queue>>
  BY <1>1, <1>2 DEF Favored, Answered, user
<1>4. /\ w \in Write /\ CallFit(call[d], edits, row, purged) /\ local[d] \in Entry
      /\ WriteFit(w, edits, row, purged) /\ CallOK(call[d]) /\ ToggleFit(call[d], local[d])
  BY <1>1, AtPage
<1>5. l.revision = w.expected + 1 /\ l.content = local[d].content
  BY <1>2, <1>4 DEF Entry
<1>6. w.expected < MaxWrites
  BY <1>1, <1>3, <1>4 DEF CallOK
<1>7. l \in Entry
  <2>1. w.expected + 1 \in 0 .. MaxWrites + 1
    BY <1>4, <1>6, AnsweredRevision
  <2> QED
    BY <1>2, <1>4, <2>1 DEF Entry, Origins
<1>8. queue' = [queue EXCEPT ![d] = queue[d]] /\ l.content \subseteq OwnEdits(d)
  BY <1>3, <1>5, Same DEF OwnEdits
<1>9. CASE local' = [local EXCEPT ![d] = l] /\ InList(d)
  <2>1. l.content = w.content
    BY <1>1, <1>3, <1>4, <1>5, <1>9 DEF InList, ToggleFit
  <2>2. purged \/ Current(w.expected + 1, w.content, row)
    BY <1>1, <1>3, <1>4 DEF CallFit, Saves
  <2>3. w.content \subseteq 1 .. edits /\ w.expected + 1 > 0
    BY <1>4, AnsweredRevision DEF WriteFit
  <2>4. EntryFit(l, edits, row, purged)
    BY <1>5, <2>1, <2>2, <2>3 DEF EntryFit
  <2> QED
    BY <1>3, <1>7, <1>8, <1>9, <2>4, CopyShown
<1>10. CASE local' = [local EXCEPT ![d] = local[d]]
  BY <1>3, <1>8, <1>10, CopyStays
<1> QED
  BY <1>3, <1>9, <1>10, ShownOr
\* A toggle that failed is taken back.  The row cannot hold the edit: at the
\* revision the toggle was made from it has not been stored.
LEMMA RollBackKept ==
  ASSUME SyncIInv, NEW d \in Pages, RollBack(d), UNCHANGED scenario
  PROVE  SyncIInv'
<1>1. PICK w : w = call[d].write
  OBVIOUS
<1>2. PICK l : l = [local[d] EXCEPT !.revision = w.expected, !.content = @ \ {w.edit}]
  OBVIOUS
<1>3. PICK q : q = IF call[d].answer = "unreachable" THEN w ELSE queue[d]
  OBVIOUS
<1>4. /\ call[d].kind = "favorite" /\ call' = [call EXCEPT ![d] = NoCall] /\ Show(d, l)
      /\ UNCHANGED <<scenario, service, sync, edits, offered>>
  BY <1>1, <1>2 DEF RollBack, Answered, user
<1>5. queue' = [queue EXCEPT ![d] = q] /\ q \in {queue[d], w}
  BY <1>1, <1>3, Same DEF RollBack, Enqueued, user
<1>6. /\ w \in Write /\ local[d] \in Entry /\ EntryFit(local[d], edits, row, purged)
      /\ WriteFit(w, edits, row, purged) /\ CallOK(call[d]) /\ ToggleFit(call[d], local[d])
  BY <1>1, AtPage
<1>7. /\ l.revision = w.expected /\ l.content = local[d].content \ {w.edit}
      /\ l.origin = local[d].origin
  BY <1>2, <1>6 DEF Entry
<1>8. l \in Entry
  <2>1. w.expected \in 0 .. MaxWrites + 1
    BY <1>6, AnsweredRevision
  <2>2. local[d].content \ {w.edit} \in Contents
    BY <1>6 DEF Entry, Contents
  <2> QED
    BY <1>2, <1>6, <2>1, <2>2 DEF Entry
<1>9. l.content \subseteq OwnEdits(d)
  BY <1>7 DEF OwnEdits
<1>10. CASE local' = [local EXCEPT ![d] = l] /\ InList(d)
  <2>1. local[d].content = w.content /\ local[d].origin = w.origin
    BY <1>1, <1>4, <1>6, <1>10 DEF InList, ToggleFit
  <2>2. l.content \subseteq 1 .. edits /\ w.expected > 0
    BY <1>1, <1>4, <1>6, <1>7 DEF EntryFit, CallOK
  <2>3. ASSUME ~purged, l.origin = "service"
        PROVE  Current(l.revision, l.content, row)
    <3>1. Current(w.expected, w.content, row)
      BY <1>6, <1>7, <2>1, <2>3 DEF WriteFit
    <3>2. w.expected <= row.revision
      BY <3>1 DEF Current
    <3>3. ASSUME w.expected = row.revision
          PROVE  row.content \subseteq l.content
      <4>1. row.revision <= w.expected
        BY <3>3, AtService
      <4>2. w.edit \notin row.content
        BY <1>1, <1>4, <2>3, <4>1 DEF SyncIInv, Secret, Unseen
      <4>3. row.content \subseteq w.content
        BY <3>1, <3>3 DEF Current
      <4> QED
        BY <1>7, <2>1, <4>2, <4>3
    <3> QED
      BY <1>7, <3>2, <3>3 DEF Current
  <2>4. EntryFit(l, edits, row, purged)
    BY <1>7, <2>2, <2>3 DEF EntryFit
  <2> QED
    BY <1>1, <1>4, <1>5, <1>8, <1>9, <1>10, <2>4, CopyShown
<1>11. CASE local' = [local EXCEPT ![d] = local[d]]
  BY <1>1, <1>4, <1>5, <1>11, CopyStays
<1> QED
  BY <1>4, <1>10, <1>11, ShownOr

\* A deletion offers what it sealed.
LEMMA DeletedKept ==
  ASSUME SyncIInv, NEW d \in Pages, Deleted(d), UNCHANGED scenario
  PROVE  SyncIInv'
<1>1. PICK w : w = call[d].write
  OBVIOUS
<1>2. PICK o : o = [revision |-> w.expected, content |-> w.content, origin |-> "restored"]
  OBVIOUS
<1>3. /\ call' = [call EXCEPT ![d] = NoCall] /\ local' = [local EXCEPT ![d] = NoEntry]
      /\ offered' = [offered EXCEPT ![d] = o] /\ queue' = queue
      /\ UNCHANGED <<scenario, service, sync, edits>>
  BY <1>1, <1>2 DEF Deleted, Answered, user
<1>4. w \in Write /\ WriteFit(w, edits, row, purged) /\ queue[d] \in Write
  BY <1>1, AtPage
<1>5. o.content = w.content /\ o.origin = "restored"
  BY <1>2
<1>6. o \in Entry
  BY <1>2, <1>4 DEF Entry, Write, Origins
<1>7. OfferFit(o, edits)
  BY <1>4, <1>5 DEF OfferFit, WriteFit
<1>8. /\ NoEntry \in Entry /\ EntryFit(NoEntry, edits, row, purged) /\ NoEntry.content = {}
  BY AtService, NothingFits
<1>9. /\ queue' = [queue EXCEPT ![d] = queue[d]]
      /\ NoEntry.content \cup o.content \subseteq OwnEdits(d) \cup Rest(d) \cup row.content
  BY <1>1, <1>3, <1>5, <1>8, Same DEF OwnEdits
<1> QED
  BY <1>3, <1>4, <1>6, <1>7, <1>8, <1>9, AnswerKept

\* A restore shows what was offered, which does not count as read from the service.
LEMMA RestoredKept ==
  ASSUME SyncIInv, NEW d \in Pages, Restored(d), UNCHANGED scenario
  PROVE  SyncIInv'
<1>1. PICK w : w = call[d].write
  OBVIOUS
<1>2. PICK l : l = IF local[d] = NoEntry THEN [offered[d] EXCEPT !.revision = w.expected + 1]
                   ELSE local[d]
  OBVIOUS
<1>3. /\ call[d].answer = "ok" /\ call' = [call EXCEPT ![d] = NoCall]
      /\ offered' = [offered EXCEPT ![d] = NoEntry] /\ queue' = queue
      /\ UNCHANGED <<scenario, service, sync, edits>>
  BY DEF Restored, Answered, user
<1>4. local' = [local EXCEPT ![d] = l] /\ queue' = [queue EXCEPT ![d] = queue[d]]
  BY <1>1, <1>2, <1>3, Same DEF Restored, user
<1>5. /\ w \in Write /\ CallOK(call[d]) /\ queue[d] \in Write /\ local[d] \in Entry
      /\ offered[d] \in Entry /\ OfferFit(offered[d], edits)
      /\ EntryFit(local[d], edits, row, purged)
  BY <1>1, AtPage
<1>6. /\ NoEntry \in Entry /\ OfferFit(NoEntry, edits) /\ NoEntry.content = {}
  BY AtService, NothingFits
<1>7. w.expected + 1 \in 0 .. MaxWrites + 1 /\ w.expected + 1 > 0
  <2>1. w.expected < MaxWrites
    BY <1>1, <1>3, <1>5 DEF CallOK
  <2> QED
    BY <1>5, <2>1, AnsweredRevision
<1>8. /\ l \in Entry /\ EntryFit(l, edits, row, purged)
      /\ l.content \subseteq OwnEdits(d) \cup Rest(d)
  <2>1. CASE local[d] = NoEntry
    <3>1. l = [offered[d] EXCEPT !.revision = w.expected + 1]
      BY <1>2, <2>1
    <3>2. /\ l.revision = w.expected + 1 /\ l.content = offered[d].content
          /\ l.origin = offered[d].origin
      BY <1>5, <3>1 DEF Entry
    <3>3. l \in Entry
      BY <1>5, <1>7, <3>1 DEF Entry
    <3>4. EntryFit(l, edits, row, purged)
      BY <1>5, <1>7, <3>2 DEF EntryFit, OfferFit
    <3> QED
      BY <3>2, <3>3, <3>4 DEF Rest
  <2>2. CASE local[d] # NoEntry
    BY <1>2, <1>5, <2>2 DEF OwnEdits
  <2> QED
    BY <2>1, <2>2
<1>9. l.content \cup NoEntry.content \subseteq OwnEdits(d) \cup Rest(d) \cup row.content
  BY <1>6, <1>8
<1> QED
  BY <1>3, <1>4, <1>5, <1>6, <1>8, <1>9, AnswerKept
-----------------------------------------------------------------------------
(* The flush and the listing.                                              *)

\* Only the flush or listing moves, and may empty the queue.
LEMMA SyncKept ==
  ASSUME SyncIInv, NEW d \in Pages,
         UNCHANGED <<scenario, service, call, local, offered, edits>>,
         NEW s \in Sync, NEW q \in {queue[d], NoWrite}, sync' = [sync EXCEPT ![d] = s],
         queue' = [queue EXCEPT ![d] = q],
         s.answer = "busy" => scenario.busy,
         s.write \in {NoWrite, queue[d], sync[d].write}, EntryFit(s.listed, edits, row, purged),
         s.listed.content \subseteq Rest(d) \cup row.content
  PROVE  SyncIInv'
<1>1. Turn(d, call[d], local[d], s, offered[d], q)
  BY Same DEF Turn
<1>2. /\ call[d] \in Call /\ local[d] \in Entry /\ offered[d] \in Entry /\ queue[d] \in Write
      /\ DeviceFit(call[d], local[d], sync[d], offered[d], queue[d], edits, row, purged)
  BY AtPage DEF SyncIInv, Fits
<1>3. /\ NoWrite \in Write /\ WriteFit(NoWrite, edits, row, purged) /\ NoWrite.edit = 0
      /\ NoWrite.content = {}
  BY AtService, NothingFits
<1>4. q \in Write /\ WriteFit(q, edits, row, purged) /\ WriteFit(s.write, edits, row, purged)
  BY <1>2, <1>3 DEF DeviceFit, SyncFit
<1>5. DeviceFit(call[d], local[d], s, offered[d], q, edits', row, purged)
  BY <1>2, <1>4 DEF DeviceFit, SyncFit
<1>6. \A w \in {call[d].write, q, s.write} :
        w \in Writes(d) \/ w.edit = 0 \/ (w = call[d].write /\ w.edit = edits + 1)
  BY <1>3 DEF Writes
<1>7. call[d].write.content \cup local[d].content \subseteq
        OwnEdits(d) \cup Rest(d) \cup row.content \cup {edits + 1} \cup Untoggled
  BY DEF OwnEdits
<1>8. q.content \cup s.write.content \cup s.listed.content \cup offered[d].content \subseteq
        Rest(d) \cup row.content
  BY <1>3 DEF Rest
<1>9. edits' = edits /\ UNCHANGED <<scenario, row, applied, purged>>
  BY DEF service
<1> QED
  BY <1>1, <1>2, <1>4, <1>5, <1>6, <1>7, <1>8, <1>9, TurnKept

\* A record of the service as a copy.
LEMMA EntryOfRow ==
  ASSUME SyncIInv
  PROVE  /\ EntryOf(row) \in Entry /\ EntryOf(row).content = row.content
         /\ row.revision > 0 => EntryFit(EntryOf(row), edits, row, purged)
<1>1. /\ row.content \subseteq 1 .. edits /\ row.content \subseteq EditIds
      /\ row.revision \in Nat /\ row.revision \in 0 .. MaxWrites + 1
      /\ row.revision <= row.revision
  BY AtService, DeviceSyncAssumption
<1>2. PICK x : x = EntryOf(row)
  OBVIOUS
<1>3. x.revision = row.revision /\ x.content = row.content
  BY <1>2 DEF EntryOf
<1>4. x \in Entry
  BY <1>1, <1>2 DEF EntryOf, Entry, Contents, Origins
<1>5. row.revision > 0 => EntryFit(x, edits, row, purged)
  BY <1>1, <1>3 DEF EntryFit, Current
<1> QED
  BY <1>2, <1>3, <1>4, <1>5

\* The fields of what a flush or listing becomes.
LEMMA SyncFields ==
  ASSUME NEW s \in Sync, NEW step \in SyncSteps, NEW x \in Entry
  PROVE  /\ [s EXCEPT !.step = step] \in Sync
         /\ [s EXCEPT !.step = step].write = s.write
         /\ [s EXCEPT !.step = step].listed = s.listed
         /\ [s EXCEPT !.step = step].answer = s.answer
         /\ [s EXCEPT !.step = step, !.listed = x] \in Sync
         /\ [s EXCEPT !.step = step, !.listed = x].write = s.write
         /\ [s EXCEPT !.step = step, !.listed = x].listed = x
         /\ [s EXCEPT !.step = step, !.listed = x].answer = s.answer
BY DEF Sync

\* A flush takes the queued write.
LEMMA StartSyncKept ==
  ASSUME SyncIInv, NEW d \in Pages, StartSync(d), UNCHANGED scenario
  PROVE  SyncIInv'
<1>1. /\ NoSync \in Sync /\ NoSync.answer = "none" /\ NoSync.write = NoWrite
      /\ NoSync.listed = NoEntry /\ NoEntry \in Entry /\ NoEntry.content = {}
      /\ EntryFit(NoEntry, edits, row, purged)
  BY AtService, NothingFits
<1>2. PICK s : s = IF queue[d] = NoWrite THEN [NoSync EXCEPT !.step = "list"]
                   ELSE [NoSync EXCEPT !.step = "flush", !.write = queue[d], !.answer = "wait"]
  OBVIOUS
<1>3. sync' = [sync EXCEPT ![d] = s] /\ UNCHANGED <<scenario, service, call, local, offered, edits>>
  BY <1>2 DEF StartSync, user
<1>4. queue' = [queue EXCEPT ![d] = queue[d]]
  BY Same DEF StartSync, user
<1>5. s \in Sync /\ s.answer # "busy" /\ s.write \in {NoWrite, queue[d]} /\ s.listed = NoEntry
  <2>1. CASE queue[d] = NoWrite
    <3>1. "list" \in SyncSteps
      BY DEF SyncSteps
    <3> QED
      BY <1>1, <1>2, <2>1, <3>1, SyncFields
  <2>2. CASE queue[d] # NoWrite
    <3>1. s = [NoSync EXCEPT !.step = "flush", !.write = queue[d], !.answer = "wait"]
      BY <1>2, <2>2
    <3>2. queue[d] \in Write
      BY AtPage
    <3> QED
      BY <1>1, <3>1, <3>2 DEF Sync, SyncSteps, CallAnswers
  <2> QED
    BY <2>1, <2>2
<1> QED
  BY <1>1, <1>3, <1>4, <1>5, SyncKept

\* The queue is emptied or kept.
LEMMA FlushedKept ==
  ASSUME SyncIInv, NEW d \in Pages, Flushed(d), UNCHANGED scenario
  PROVE  SyncIInv'
<1>1. /\ NoSync \in Sync /\ NoSync.answer = "none" /\ NoSync.write = NoWrite
      /\ NoSync.listed = NoEntry /\ NoEntry \in Entry /\ NoEntry.content = {}
      /\ EntryFit(NoEntry, edits, row, purged)
  BY AtService, NothingFits
<1>2. PICK s : s \in {NoSync, [NoSync EXCEPT !.step = "list"]} /\ sync' = [sync EXCEPT ![d] = s]
  BY DEF Flushed, user
<1>3. s \in Sync /\ s.answer = "none" /\ s.write = NoWrite /\ s.listed = NoEntry
  <2>1. "list" \in SyncSteps
    BY DEF SyncSteps
  <2>2. PICK t : t = [NoSync EXCEPT !.step = "list"]
    OBVIOUS
  <2>3. t \in Sync /\ t.answer = "none" /\ t.write = NoWrite /\ t.listed = NoEntry
    BY <1>1, <2>1, <2>2, SyncFields
  <2> QED
    BY <1>1, <1>2, <2>2, <2>3
<1>4. PICK q \in {queue[d], NoWrite} : queue' = [queue EXCEPT ![d] = q]
  BY Same DEF Flushed, user
<1>5. UNCHANGED <<scenario, service, call, local, offered, edits>>
  BY DEF Flushed, user
<1> QED
  BY <1>1, <1>2, <1>3, <1>4, <1>5, SyncKept

\* What the listing or the fetch reads is the row of that moment.
LEMMA ListKept ==
  ASSUME SyncIInv, NEW d \in Pages, List(d) \/ Fetch(d), UNCHANGED scenario
  PROVE  SyncIInv'
<1>1. /\ NoSync \in Sync /\ NoSync.answer = "none" /\ NoSync.write = NoWrite
      /\ NoSync.listed = NoEntry /\ NoEntry \in Entry /\ NoEntry.content = {}
      /\ EntryFit(NoEntry, edits, row, purged)
  BY AtService, NothingFits
<1>2. /\ sync[d] \in Sync /\ sync[d].listed \in Entry
      /\ EntryFit(sync[d].listed, edits, row, purged)
      /\ sync[d].answer = "busy" => scenario.busy
  BY AtPage DEF SyncFit
<1>3. /\ EntryOf(row) \in Entry /\ EntryOf(row).content = row.content
      /\ row.revision # 0 => EntryFit(EntryOf(row), edits, row, purged)
  BY EntryOfRow, AtService
<1>4. row.revision > 0 => row.revision # 0
  BY AtService
<1>5. /\ queue' = [queue EXCEPT ![d] = queue[d]]
      /\ UNCHANGED <<scenario, service, call, local, offered, edits>>
  BY Same DEF List, Fetch, user
<1>6. ASSUME NEW x \in {NoEntry, EntryOf(row)}, x = EntryOf(row) => row.revision # 0,
             sync' = [sync EXCEPT ![d] = [sync[d] EXCEPT !.step = "listed", !.listed = x]]
      PROVE  SyncIInv'
  <2>1. PICK s : s = [sync[d] EXCEPT !.step = "listed", !.listed = x]
    OBVIOUS
  <2>2. x \in Entry /\ "listed" \in SyncSteps /\ sync[d] \in Sync
    BY <1>1, <1>2, <1>3 DEF SyncSteps
  <2>3. s \in Sync /\ s.write = sync[d].write /\ s.listed = x /\ s.answer = sync[d].answer
    BY <2>1, <2>2 DEF Sync
  <2>4. EntryFit(x, edits, row, purged) /\ x.content \subseteq Rest(d) \cup row.content
    BY <1>1, <1>3, <1>6
  <2> QED
    BY <1>2, <1>5, <1>6, <2>1, <2>3, <2>4, SyncKept
<1>7. ASSUME sync' = [sync EXCEPT ![d] = [sync[d] EXCEPT !.step = "fetch"]]
      PROVE  SyncIInv'
  <2>1. PICK s : s = [sync[d] EXCEPT !.step = "fetch"]
    OBVIOUS
  <2>2. "fetch" \in SyncSteps
    BY DEF SyncSteps
  <2>3. /\ s \in Sync /\ s.write = sync[d].write /\ s.listed = sync[d].listed
        /\ s.answer = sync[d].answer
    BY <1>2, <2>1, <2>2, SyncFields
  <2>4. sync[d].listed.content \subseteq Rest(d)
    BY DEF Rest
  <2> QED
    BY <1>2, <1>5, <1>7, <2>1, <2>3, <2>4, SyncKept
<1>8. ASSUME sync' = [sync EXCEPT ![d] = NoSync]
      PROVE  SyncIInv'
  BY <1>1, <1>5, <1>8, SyncKept
<1>9. CASE List(d)
  <2>1. \/ sync' = [sync EXCEPT ![d] = NoSync]
        \/ sync' = [sync EXCEPT ![d] = [sync[d] EXCEPT !.step = "fetch"]]
        \/ sync' = [sync EXCEPT ![d] = [sync[d] EXCEPT
             !.step = "listed",
             !.listed = IF row.revision = 0 \/ row.dead THEN NoEntry ELSE EntryOf(row)]]
    BY <1>2, <1>9 DEF List, SyncIInv, SyncShape, Typed, user
  <2>2. PICK x : x = IF row.revision = 0 \/ row.dead THEN NoEntry ELSE EntryOf(row)
    OBVIOUS
  <2>3. x \in {NoEntry, EntryOf(row)}
    BY <2>2
  <2>4. NoEntry # EntryOf(row)
    BY DEF NoEntry, EntryOf
  <2>5. x = EntryOf(row) => row.revision # 0
    BY <2>2, <2>4
  <2> QED
    BY <1>6, <1>7, <1>8, <2>1, <2>2, <2>3, <2>5
<1>10. CASE Fetch(d)
  <2>1. \/ sync' = [sync EXCEPT ![d] = NoSync]
        \/ /\ row.revision > 0
           /\ sync' = [sync EXCEPT ![d] =
                         [sync[d] EXCEPT !.step = "listed", !.listed = EntryOf(row)]]
    BY <1>10 DEF Fetch, SyncIInv, SyncShape, Typed, user
  <2> QED
    BY <1>4, <1>6, <1>8, <2>1
<1> QED
  BY <1>9, <1>10
\* What was listed replaces the copy; a request in flight keeps the old one.
LEMMA ListedKept ==
  ASSUME SyncIInv, NEW d \in Pages, Listed(d), UNCHANGED scenario
  PROVE  SyncIInv'
<1>1. /\ NoSync \in Sync /\ NoSync.answer = "none" /\ NoSync.write = NoWrite
      /\ NoSync.listed = NoEntry /\ NoEntry.content = {} /\ NoWrite.content = {}
      /\ NoWrite.edit = 0 /\ SyncFit(NoSync, edits, row, purged)
  BY AtService, NothingFits
<1>2. PICK x : x = [call[d] EXCEPT !.attached = FALSE]
  OBVIOUS
<1>3. PICK l : l = sync[d].listed
  OBVIOUS
<1>4. /\ call[d] \in Call /\ CallFit(call[d], edits, row, purged) /\ CallOK(call[d])
      /\ SyncFit(sync[d], edits, row, purged) /\ OfferFit(offered[d], edits)
      /\ WriteFit(queue[d], edits, row, purged) /\ l \in Entry
      /\ offered[d] \in Entry /\ queue[d] \in Write
  BY <1>3, AtPage
<1>5. /\ x.kind = call[d].kind /\ x.write = call[d].write /\ x.answer = call[d].answer
      /\ x.attached = FALSE /\ x \in Call
  BY <1>2, <1>4 DEF Call
<1>6. CallOK(x)
  BY <1>4, <1>5 DEF CallOK
<1>7. CallFit(x, edits, row, purged) /\ ToggleFit(x, l)
  BY <1>4, <1>5, <1>6 DEF CallFit, ToggleFit
<1>8. DeviceFit(x, l, NoSync, offered[d], queue[d], edits', row, purged)
  BY <1>1, <1>3, <1>4, <1>7 DEF DeviceFit, SyncFit, Listed, user
<1>9. call' = [call EXCEPT ![d] = x]
  BY <1>2 DEF Listed, SyncIInv, SyncShape, Typed, user
<1>10. Turn(d, x, l, NoSync, offered[d], queue[d])
  BY <1>3, <1>9, Same DEF Listed, Turn, user
<1>11. \A w \in {x.write, queue[d], NoSync.write} :
         w \in Writes(d) \/ w.edit = 0 \/ (w = x.write /\ w.edit = edits + 1)
  BY <1>1, <1>5 DEF Writes
<1>12. x.write.content \cup l.content \subseteq
         OwnEdits(d) \cup Rest(d) \cup row.content \cup {edits + 1} \cup Untoggled
  BY <1>3, <1>5 DEF OwnEdits, Rest
<1>13. queue[d].content \cup NoSync.write.content \cup NoSync.listed.content
         \cup offered[d].content \subseteq Rest(d)
  BY <1>1 DEF Rest
<1>14. edits' = edits /\ UNCHANGED <<scenario, row, applied, purged>> /\ NoSync.answer # "busy"
  BY <1>1 DEF Listed, service, user
<1> QED
  BY <1>1, <1>4, <1>5, <1>8, <1>10, <1>11, <1>12, <1>13, <1>14, TurnKept

\* The trash offers the row's content, never as read from the service.
LEMMA OpenTrashKept ==
  ASSUME SyncIInv, NEW d \in Pages, OpenTrash(d), UNCHANGED scenario
  PROVE  SyncIInv'
<1>1. PICK o : o = [revision |-> row.revision, content |-> row.content, origin |-> "restored"]
  OBVIOUS
<1>2. /\ call[d] = NoCall /\ offered' = [offered EXCEPT ![d] = o]
      /\ UNCHANGED <<scenario, service, local, queue, call, sync, edits>>
  BY <1>1 DEF OpenTrash, user
<1>3. o.content = row.content /\ o.origin = "restored"
  BY <1>1
<1>4. o \in Entry
  <2>1. row.revision \in 0 .. MaxWrites + 1 /\ row.content \in Contents
    BY AtService, DeviceSyncAssumption DEF Contents
  <2> QED
    BY <1>1, <2>1 DEF Entry, Origins
<1>5. OfferFit(o, edits)
  BY <1>3, AtService DEF OfferFit
<1>6. /\ call[d] \in Call /\ local[d] \in Entry /\ sync[d] \in Sync /\ queue[d] \in Write
      /\ sync[d].answer = "busy" => scenario.busy
  BY AtPage
<1>7. DeviceFit(call[d], local[d], sync[d], o, queue[d], edits', row, purged)
  <2>1. DeviceFit(call[d], local[d], sync[d], offered[d], queue[d], edits, row, purged)
    BY DEF SyncIInv, Fits
  <2> QED
    BY <1>2, <1>5, <2>1 DEF DeviceFit
<1>8. Turn(d, call[d], local[d], sync[d], o, queue[d])
  BY <1>2, Same DEF Turn
<1>9. \A w \in {call[d].write, queue[d], sync[d].write} :
        w \in Writes(d) \/ w.edit = 0 \/ (w = call[d].write /\ w.edit = edits + 1)
  BY DEF Writes
<1>10. call[d].write.content \cup local[d].content \subseteq
         OwnEdits(d) \cup Rest(d) \cup row.content \cup {edits + 1} \cup Untoggled
  BY DEF OwnEdits
<1>11. queue[d].content \cup sync[d].write.content \cup sync[d].listed.content
         \cup o.content \subseteq Rest(d) \cup row.content
  BY <1>3 DEF Rest
<1>12. edits' = edits /\ UNCHANGED <<scenario, row, applied, purged>> /\ call[d].kind # "favorite"
  BY <1>2 DEF service, NoCall
<1> QED
  BY <1>4, <1>6, <1>7, <1>8, <1>9, <1>10, <1>11, <1>12, TurnKept

\* After a reload only the queue is left.
LEMMA ReloadPageKept ==
  ASSUME SyncIInv, NEW d \in Pages, ReloadPage(d), UNCHANGED scenario
  PROVE  SyncIInv'
<1>1. /\ NoCall \in Call /\ CallFit(NoCall, edits, row, purged) /\ NoCall.write = NoWrite
      /\ NoWrite.edit = 0 /\ NoWrite.content = {}
      /\ NoEntry \in Entry /\ OfferFit(NoEntry, edits) /\ NoEntry.content = {}
      /\ Locked \in Entry /\ EntryFit(Locked, edits, row, purged) /\ Locked.content = {}
      /\ NoSync \in Sync /\ SyncFit(NoSync, edits, row, purged) /\ NoSync.answer = "none"
      /\ NoSync.write = NoWrite /\ NoSync.listed = NoEntry
  BY AtService, NothingFits
<1>2. NoCall.kind # "favorite" /\ ToggleFit(NoCall, Locked)
  BY DEF NoCall, ToggleFit
<1>3. queue[d] \in Write /\ WriteFit(queue[d], edits, row, purged)
  BY AtPage
<1>4. Turn(d, NoCall, Locked, NoSync, NoEntry, queue[d])
  BY Same DEF ReloadPage, Turn, user
<1>5. edits' = edits /\ UNCHANGED <<scenario, row, applied, purged>>
  BY DEF ReloadPage, service, user
<1>6. DeviceFit(NoCall, Locked, NoSync, NoEntry, queue[d], edits', row, purged)
  BY <1>1, <1>2, <1>3, <1>5 DEF DeviceFit
<1>7. \A w \in {NoCall.write, queue[d], NoSync.write} :
        w \in Writes(d) \/ w.edit = 0 \/ (w = NoCall.write /\ w.edit = edits + 1)
  BY <1>1 DEF Writes
<1>8. NoCall.write.content \cup Locked.content \subseteq
        OwnEdits(d) \cup Rest(d) \cup row.content \cup {edits + 1} \cup Untoggled
  BY <1>1
<1>9. queue[d].content \cup NoSync.write.content \cup NoSync.listed.content
        \cup NoEntry.content \subseteq OwnEdits(d) \cup Rest(d) \cup row.content
  BY <1>1 DEF Rest
<1>10. NoSync.answer # "busy"
  BY <1>1
<1> QED
  BY <1>1, <1>2, <1>3, <1>4, <1>5, <1>6, <1>7, <1>8, <1>9, <1>10, TurnKept

-----------------------------------------------------------------------------
(* The service.                                                            *)

\* Once purged, revisions start again and nothing is promised of the copies.
LEMMA PurgeKept ==
  ASSUME SyncIInv, Purge, UNCHANGED scenario
  PROVE  SyncIInv'
<1>1. /\ row' = NoRow /\ purged' = TRUE
      /\ UNCHANGED <<scenario, applied, local, offered, queue, call, sync, edits>>
  BY DEF Purge, user
<1>2. NoRow \in Row /\ NoRow.content = {}
  BY DeviceSyncAssumption DEF NoRow, Row, Contents
<1>3. SyncShape /\ Fits
  BY DEF SyncIInv
<1>4. Typed'
  BY <1>1, <1>3 DEF SyncShape, Typed, Call, Entry, Sync, Write
<1>5. SyncShape'
  BY <1>1, <1>2, <1>3, <1>4 DEF SyncShape, Row, Contents, EditIds
<1>6. /\ edits \in Nat /\ row \in Row /\ purged \in BOOLEAN
      /\ Onward(edits, edits, row, NoRow, purged, TRUE)
  BY AtService DEF Onward
<1>7. ASSUME NEW d \in Pages
      PROVE  DeviceFit(call[d], local[d], sync[d], offered[d], queue[d], edits, NoRow, TRUE)
  <2>1. DeviceFit(call[d], local[d], sync[d], offered[d], queue[d], edits, row, purged)
    BY <1>3 DEF Fits
  <2>2. /\ call[d] \in Call /\ local[d] \in Entry /\ sync[d] \in Sync
        /\ offered[d] \in Entry /\ queue[d] \in Write
    BY AtPage
  <2> QED
    BY <1>2, <1>6, <2>1, <2>2, DeviceOnward
<1>8. Fits'
  BY <1>1, <1>7 DEF Fits, DeviceFit, CallFit, WriteFit, EntryFit, SyncFit, OfferFit, ToggleFit,
                    CallOK, Current, NoCall, NoWrite, Saves, Origins
<1> QED
  BY <1>1, <1>5, <1>8 DEF SyncIInv
\* The row a stored write makes.
LEMMA StoredRow ==
  ASSUME SyncIInv, NEW w \in Write, WriteFit(w, edits, row, purged), Matches(w),
         row.revision < MaxWrites
  PROVE  /\ Stored(w) \in Row /\ Stored(w).content \subseteq 1 .. edits
         /\ Stored(w).revision = row.revision + 1 /\ row.revision < Stored(w).revision
         /\ w.expected = row.revision /\ w.expected + 1 = Stored(w).revision
         /\ w.expected < MaxWrites
         /\ Stored(w).content = IF w.dead THEN row.content ELSE w.content
<1>1. PICK r : r = Stored(w)
  OBVIOUS
<1>2. /\ r.revision = row.revision + 1 /\ r.dead = w.dead
      /\ r.content = IF w.dead THEN row.content ELSE w.content
  BY <1>1 DEF Stored
<1>3. w.content \subseteq 1 .. edits /\ w.expected = row.revision
  BY DEF WriteFit, Matches
<1>4. /\ row.content \subseteq 1 .. edits /\ row.content \subseteq EditIds
      /\ w.content \subseteq EditIds /\ w.dead \in BOOLEAN
  BY AtService, Parts
<1>5. row.revision + 1 \in 0 .. MaxWrites /\ row.revision < row.revision + 1
  BY AtService, DeviceSyncAssumption
<1>6. r \in Row
  BY <1>1, <1>4, <1>5 DEF Stored, Row, Contents
<1>7. r.content \subseteq 1 .. edits
  BY <1>2, <1>3, <1>4
<1> QED
  BY <1>1, <1>2, <1>3, <1>5, <1>6, <1>7

\* The counters once a write was stored.
LEMMA CountedOnce ==
  ASSUME NEW w \in Write, NEW made \in Nat, w.edit <= made, NEW f \in [EditIds -> 0 .. 2],
         \A n \in EditIds : n > made => f[n] = 0,
         NEW g, g = [n \in EditIds |-> IF n = w.edit THEN OnceMore(f[n]) ELSE f[n]]
  PROVE  /\ g \in [EditIds -> 0 .. 2]
         /\ \A n \in EditIds : n > made => g[n] = 0
         /\ \A n \in EditIds : n # w.edit => g[n] = f[n]
         /\ \A n \in EditIds : (n = w.edit /\ f[n] = 0) => g[n] <= 1
<1>1. \A t \in 0 .. 2 : OnceMore(t) \in 0 .. 2
  BY DEF OnceMore
<1>2. g \in [EditIds -> 0 .. 2]
  BY <1>1
<1>3. \A n \in EditIds : n # w.edit => g[n] = f[n]
  OBVIOUS
<1>4. \A n \in EditIds : n > made => n # w.edit
  <2>1. w.edit \in Nat
    BY Parts
  <2>2. \A n \in EditIds : n \in Nat
    BY DeviceSyncAssumption DEF EditIds
  <2> QED
    BY <2>1, <2>2
<1>5. \A n \in EditIds : n > made => g[n] = 0
  BY <1>3, <1>4
<1>6. \A n \in EditIds : (n = w.edit /\ f[n] = 0) => g[n] <= 1
  <2>1. OnceMore(0) <= 1
    BY DEF OnceMore
  <2> QED
    BY <2>1
<1> QED
  BY <1>2, <1>3, <1>5, <1>6
\* The service stores one of a device's writes and answers it, or the answer is lost.
LEMMA StoredKept ==
  ASSUME SyncIInv, NEW d \in Pages, NEW w \in Writes(d), Matches(w),
         row.revision < MaxWrites, row' = Stored(w),
         applied' = [n \in EditIds |-> IF n = w.edit THEN OnceMore(applied[n]) ELSE applied[n]],
         UNCHANGED <<scenario, purged, edits>>,
         NEW x \in Call, NEW s \in Sync, Turn(d, x, local[d], s, offered[d], queue[d]),
         x.write = call[d].write, x.kind = call[d].kind, x.attached = call[d].attached,
         x.answer = "ok" => call[d].answer = "ok" \/ x.write = w,
         s.write = sync[d].write, s.listed = sync[d].listed,
         s.answer = "busy" => scenario.busy
  PROVE  SyncIInv'
<1>1. PICK r : r = Stored(w)
  OBVIOUS
<1>2. /\ call[d] \in Call /\ local[d] \in Entry /\ sync[d] \in Sync
      /\ offered[d] \in Entry /\ queue[d] \in Write
      /\ DeviceFit(call[d], local[d], sync[d], offered[d], queue[d], edits, row, purged)
      /\ CallOK(call[d])
  BY AtPage DEF SyncIInv, Fits
<1>3. w \in Write /\ WriteFit(w, edits, row, purged)
  BY AtPage DEF Writes, SyncFit
<1>4. /\ r \in Row /\ r.content \subseteq 1 .. edits /\ r.revision = row.revision + 1
      /\ row.revision < r.revision /\ w.expected = row.revision /\ w.expected + 1 = r.revision
      /\ w.expected < MaxWrites /\ r.content = IF w.dead THEN row.content ELSE w.content
  BY <1>1, <1>3, StoredRow
<1>5. /\ Typed' /\ Others(d) /\ call'[d] = x /\ local'[d] = local[d] /\ sync'[d] = s
      /\ offered'[d] = offered[d] /\ queue'[d] = queue[d]
  BY <1>2, TurnGives
<1>6. edits \in Nat /\ row \in Row /\ purged \in BOOLEAN /\ row.revision \in Nat
  BY AtService
<1>7. /\ applied' \in [EditIds -> 0 .. 2] /\ \A n \in EditIds : n > edits => applied'[n] = 0
      /\ \A n \in EditIds : n # w.edit => applied'[n] = applied[n]
      /\ \A n \in EditIds : (n = w.edit /\ applied[n] = 0) => applied'[n] <= 1
  <2>1. /\ applied \in [EditIds -> 0 .. 2] /\ \A n \in EditIds : n > edits => applied[n] = 0
        /\ w.edit <= edits
    BY <1>3 DEF SyncIInv, SyncShape, WriteFit
  <2> QED
    BY <1>3, <1>6, <2>1, CountedOnce
<1>8. SyncShape'
  <2>1. \A e \in Pages : sync'[e].answer = "busy" => scenario.busy
    BY <1>5 DEF SyncIInv, SyncShape, Others
  <2>2. scenario \in Scenarios /\ edits \in 0 .. MaxEdits
    BY DEF SyncIInv, SyncShape
  <2> QED
    BY <1>1, <1>4, <1>5, <1>6, <1>7, <2>1, <2>2 DEF SyncShape, Row, Contents, EditIds
<1>9. Fits'
  <2>1. Onward(edits, edits, row, r, purged, purged)
    BY <1>4, <1>6 DEF Onward
  <2>2. DeviceFit(call[d], local[d], sync[d], offered[d], queue[d], edits, r, purged)
    BY <1>2, <1>4, <1>6, <2>1, DeviceOnward
  <2>3. CallOK(x)
    BY <1>2, <1>4 DEF CallOK
  <2>4. ASSUME ~purged, x.kind \in Saves, x.answer = "ok"
        PROVE  Current(x.write.expected + 1, x.write.content, r)
    <3>1. CASE call[d].answer = "ok"
      BY <2>2, <2>4, <3>1 DEF DeviceFit, CallFit
    <3>2. CASE x.write = w
      <4>1. r.content = w.content
        BY <1>4, <2>3, <2>4, <3>2 DEF CallOK
      <4>2. w.expected + 1 <= r.revision
        BY <1>4, <1>6
      <4> QED
        BY <3>2, <4>1, <4>2 DEF Current
    <3> QED
      BY <2>4, <3>1, <3>2
  <2>5. CallFit(x, edits, r, purged)
    BY <2>2, <2>3, <2>4 DEF DeviceFit, CallFit
  <2>6. SyncFit(s, edits, r, purged) /\ ToggleFit(x, local[d])
    BY <2>2 DEF DeviceFit, SyncFit, ToggleFit
  <2>7. DeviceFit(x, local[d], s, offered[d], queue[d], edits, r, purged)
    BY <2>2, <2>5, <2>6 DEF DeviceFit
  <2>8. /\ Onward(edits, edits', row, row', purged, purged')
        /\ DeviceFit(call'[d], local'[d], sync'[d], offered'[d], queue'[d],
                     edits', row', purged')
    BY <1>1, <1>5, <2>1, <2>7
  <2>9. SyncShape /\ Fits
    BY DEF SyncIInv
  <2> QED
    BY <1>5, <1>8, <2>8, <2>9, FitsKept
<1>10. \A e \in Pages : Writes(e)' = Writes(e) /\ OwnEdits(e)' = OwnEdits(e) /\ Rest(e)' = Rest(e)
  <2>1. Writes(d)' = Writes(d) /\ OwnEdits(d)' = OwnEdits(d) /\ Rest(d)' = Rest(d)
    BY <1>5 DEF Writes, OwnEdits, Rest
  <2>2. \A e \in Pages \ {d} :
          Writes(e)' = Writes(e) /\ OwnEdits(e)' = OwnEdits(e) /\ Rest(e)' = Rest(e)
    BY <1>5 DEF Writes, OwnEdits, Rest, Others
  <2> QED
    BY <2>1, <2>2
<1>11. ASSUME Once
       PROVE  Once'
  <2>1. AllWrites' = AllWrites
    BY <1>10 DEF AllWrites
  <2>2. w \in AllWrites
    BY DEF AllWrites
  <2>3. \A v \in AllWrites : v \in Write
    BY AtPage DEF AllWrites, Writes
  <2>4. \A n \in EditIds : applied'[n] <= 1
    <3>1. w.edit \in EditIds => applied[w.edit] = 0
      <4>1. w.edit # 0 /\ applied[w.edit] # 0 => w.expected < row.revision
        BY <1>11, <2>2 DEF Once
      <4>2. 0 \notin EditIds
        BY DeviceSyncAssumption DEF EditIds
      <4> QED
        BY <1>4, <1>6, <4>1, <4>2
    <3> QED
      BY <1>7, <1>11, <3>1 DEF Once
  <2>5. ASSUME NEW v \in AllWrites, v.edit # 0, applied'[v.edit] # 0
        PROVE  v.expected < r.revision
    <3>1. CASE v.edit = w.edit
      <4>1. v.expected = w.expected
        BY <1>11, <2>2, <2>5, <3>1 DEF Once
      <4> QED
        BY <1>4, <4>1
    <3>2. CASE v.edit # w.edit
      <4>1. v.edit \in EditIds
        <5>1. v.edit \in Nat /\ v.edit <= MaxEdits
          BY <2>3, Parts
        <5> QED
          BY <2>5, <5>1, DeviceSyncAssumption DEF EditIds
      <4>2. v.expected < row.revision
        BY <1>7, <1>11, <2>5, <3>2, <4>1 DEF Once
      <4>3. v.expected \in Nat
        BY <2>3, Parts
      <4> QED
        BY <1>4, <1>6, <4>2, <4>3
    <3> QED
      BY <3>1, <3>2
  <2>6. \A u, v \in AllWrites : (u.edit = v.edit /\ u.edit # 0) => u.expected = v.expected
    BY <1>11 DEF Once
  <2> QED
    BY <1>1, <2>1, <2>4, <2>5, <2>6 DEF Once
<1>12. ASSUME Secret
       PROVE  Secret'
  <2>1. ASSUME NEW e \in Pages, call[e].kind = "favorite",
               r.revision <= call[e].write.expected
        PROVE  Unseen(e, call[e].write.edit) /\ call[e].write.edit \notin r.content
    <3>1. call[e].write.expected \in Nat
      BY AtPage, Parts
    <3>2. row.revision <= call[e].write.expected /\ call[e].write.expected # w.expected
      BY <1>4, <1>6, <2>1, <3>1
    <3>3. Unseen(e, call[e].write.edit)
      BY <1>12, <2>1, <3>2 DEF Secret
    <3>4. call[e].write.edit \notin w.content
      <4>1. CASE e = d
        <5>1. w \in {queue[d], sync[d].write}
          BY <3>2, <4>1 DEF Writes
        <5> QED
          BY <3>3, <5>1 DEF Unseen, Rest
      <4>2. CASE e # d
        BY <3>3, <4>2 DEF Unseen, Writes, OwnEdits, Rest
      <4> QED
        BY <4>1, <4>2
    <3> QED
      BY <1>4, <3>3, <3>4 DEF Unseen
  <2>2. \A e \in Pages : call'[e].kind = call[e].kind /\ call'[e].write = call[e].write
    BY <1>5 DEF Others
  <2>3. ASSUME NEW e \in Pages, call'[e].kind = "favorite",
               row'.revision <= call'[e].write.expected
        PROVE  LET n == call'[e].write.edit
               IN  /\ n \notin row'.content
                   /\ \A f \in Pages : n \notin Rest(f)'
                   /\ \A f \in Pages \ {e} : n \notin OwnEdits(f)'
    BY <1>1, <1>10, <2>1, <2>2, <2>3 DEF Unseen
  <2> QED
    BY <2>3 DEF Secret, Unseen
<1> QED
  BY <1>8, <1>9, <1>11, <1>12 DEF SyncIInv
\* A request is served.
LEMMA ServeKept ==
  ASSUME SyncIInv, NEW d \in Pages, Serve(d), UNCHANGED scenario
  PROVE  SyncIInv'
<1>1. PICK a \in Answers : /\ Serves(call[d].write, a)
                           /\ call' = [call EXCEPT ![d].answer = a]
  BY DEF Serve, user
<1>2. PICK x : x = [call[d] EXCEPT !.answer = a]
  OBVIOUS
<1>3. /\ call[d] \in Call /\ local[d] \in Entry /\ sync[d] \in Sync
      /\ offered[d] \in Entry /\ queue[d] \in Write /\ CallOK(call[d])
      /\ sync[d].answer = "busy" => scenario.busy
      /\ DeviceFit(call[d], local[d], sync[d], offered[d], queue[d], edits, row, purged)
  BY AtPage DEF SyncIInv, Fits
<1>4. call' = [call EXCEPT ![d] = x]
  BY <1>1, <1>2 DEF SyncIInv, SyncShape, Typed
<1>5. /\ x.kind = call[d].kind /\ x.write = call[d].write /\ x.answer = a
      /\ x.attached = call[d].attached /\ x \in Call
  BY <1>1, <1>2, <1>3 DEF Call, CallAnswers
<1>6. UNCHANGED <<scenario, local, offered, queue, sync, edits>>
  BY DEF Serve, user
<1>7. Turn(d, x, local[d], sync[d], offered[d], queue[d])
  BY <1>4, <1>6, Same DEF Turn
<1>8. CASE /\ Matches(call[d].write) /\ row.revision < MaxWrites
           /\ row' = Stored(call[d].write) /\ UNCHANGED purged
           /\ applied' = [n \in EditIds |->
                IF n = call[d].write.edit THEN OnceMore(applied[n]) ELSE applied[n]]
  <2>1. call[d].write \in Writes(d)
    BY DEF Writes
  <2> QED
    BY <1>3, <1>5, <1>6, <1>7, <1>8, <2>1, StoredKept
<1>9. CASE a # "ok" /\ UNCHANGED service
  <2>1. CallOK(x)
    BY <1>3, <1>5, <1>9 DEF CallOK
  <2>2. CallFit(x, edits, row, purged) /\ ToggleFit(x, local[d])
    BY <1>3, <1>5, <1>9, <2>1 DEF DeviceFit, CallFit, ToggleFit
  <2>3. DeviceFit(x, local[d], sync[d], offered[d], queue[d], edits', row, purged)
    BY <1>3, <1>6, <2>2 DEF DeviceFit
  <2>4. \A w \in {x.write, queue[d], sync[d].write} :
          w \in Writes(d) \/ w.edit = 0 \/ (w = x.write /\ w.edit = edits + 1)
    BY <1>5 DEF Writes
  <2>5. x.write.content \cup local[d].content \subseteq
          OwnEdits(d) \cup Rest(d) \cup row.content \cup {edits + 1} \cup Untoggled
    BY <1>5 DEF OwnEdits
  <2>6. queue[d].content \cup sync[d].write.content \cup sync[d].listed.content
          \cup offered[d].content \subseteq Rest(d) \cup row.content
    BY DEF Rest
  <2>7. edits' = edits /\ UNCHANGED <<scenario, row, applied, purged>>
    BY <1>6, <1>9 DEF service
  <2> QED
    BY <1>3, <1>5, <1>7, <2>3, <2>4, <2>5, <2>6, <2>7, TurnKept
<1> QED
  BY <1>1, <1>8, <1>9 DEF Serves

\* A flush is served.
LEMMA ServeFlushKept ==
  ASSUME SyncIInv, NEW d \in Pages, ServeFlush(d), UNCHANGED scenario
  PROVE  SyncIInv'
<1>1. PICK a \in Answers : /\ Serves(sync[d].write, a)
                           /\ sync' = [sync EXCEPT ![d].answer = a]
  BY DEF ServeFlush, user
<1>2. PICK s : s = [sync[d] EXCEPT !.answer = a]
  OBVIOUS
<1>3. /\ call[d] \in Call /\ sync[d] \in Sync /\ SyncFit(sync[d], edits, row, purged)
  BY AtPage
<1>4. sync' = [sync EXCEPT ![d] = s]
  BY <1>1, <1>2 DEF SyncIInv, SyncShape, Typed
<1>5. /\ s.write = sync[d].write /\ s.listed = sync[d].listed /\ s.answer = a /\ s \in Sync
  BY <1>1, <1>2, <1>3 DEF Sync, CallAnswers
<1>6. UNCHANGED <<scenario, local, offered, queue, call, edits>>
  BY DEF ServeFlush, user
<1>7. s.answer = "busy" => scenario.busy
  BY <1>1, <1>5 DEF Serves
<1>8. CASE /\ Matches(sync[d].write) /\ row.revision < MaxWrites
           /\ row' = Stored(sync[d].write) /\ UNCHANGED purged
           /\ applied' = [n \in EditIds |->
                IF n = sync[d].write.edit THEN OnceMore(applied[n]) ELSE applied[n]]
  <2>1. sync[d].write \in Writes(d)
    BY DEF Writes
  <2>2. Turn(d, call[d], local[d], s, offered[d], queue[d])
    BY <1>4, <1>6, Same DEF Turn
  <2> QED
    BY <1>3, <1>5, <1>6, <1>7, <1>8, <2>1, <2>2, StoredKept
<1>9. CASE UNCHANGED service
  <2>1. queue' = [queue EXCEPT ![d] = queue[d]]
    BY <1>6, Same
  <2>2. EntryFit(s.listed, edits, row, purged) /\ s.listed.content \subseteq Rest(d)
    BY <1>3, <1>5 DEF SyncFit, Rest
  <2> QED
    BY <1>4, <1>5, <1>6, <1>7, <1>9, <2>1, <2>2, SyncKept
<1> QED
  BY <1>1, <1>8, <1>9 DEF Serves

-----------------------------------------------------------------------------
(* The forms.                                                              *)

\* What the invariant says of one form.
LEMMA AtForm ==
  ASSUME FormIInv, NEW d \in Pages
  PROVE  /\ form[d] \in Form /\ form = [form EXCEPT ![d] = form[d]]
         /\ FormFit(form[d], local[d], call[d], edits, toggles)
BY DEF FormIInv

\* It is enough to look at the form of the device that moves.
LEMMA FormsKept ==
  ASSUME SyncIInv, FormIInv, NEW d \in Pages, NEW x \in Call, NEW l \in Entry, NEW f \in Form,
         call' = [call EXCEPT ![d] = x], local' = [local EXCEPT ![d] = l],
         form' = [form EXCEPT ![d] = f],
         \/ edits' = edits /\ toggles' = toggles
         \/ edits' = edits + 1 /\ toggles' \in {toggles, toggles \cup {edits + 1}},
         FormFit(f, l, x, edits', toggles')
  PROVE  FormIInv'
<1>1. edits \in Nat /\ toggles \subseteq 1 .. edits
  BY AtService DEF FormIInv
<1>2. /\ 1 .. edits \subseteq 1 .. edits' /\ toggles \subseteq toggles'
      /\ toggles' \subseteq 1 .. edits' /\ toggles' \cap 1 .. edits \subseteq toggles
  <2>1. CASE edits' = edits /\ toggles' = toggles
    BY <1>1, <2>1
  <2>2. CASE edits' = edits + 1 /\ toggles' \in {toggles, toggles \cup {edits + 1}}
    <3>1. /\ 1 .. edits \subseteq 1 .. edits + 1 /\ edits + 1 \in 1 .. edits + 1
          /\ edits + 1 \notin 1 .. edits
      BY <1>1
    <3> QED
      BY <1>1, <2>2, <3>1
  <2> QED
    BY <2>1, <2>2
<1>3. /\ call'[d] = x /\ local'[d] = l
      /\ \A e \in Pages \ {d} : call'[e] = call[e] /\ local'[e] = local[e]
  BY DEF SyncIInv, SyncShape, Typed
<1>4. /\ form' \in [Pages -> Form] /\ form'[d] = f
      /\ \A e \in Pages \ {d} : form'[e] = form[e]
  BY DEF FormIInv
<1>5. ASSUME NEW e \in Pages
      PROVE  FormFit(form'[e], local'[e], call'[e], edits', toggles')
  <2>1. CASE e = d
    BY <1>3, <1>4, <2>1
  <2>2. CASE e # d
    <3>1. FormFit(form[e], local[e], call[e], edits, toggles)
      BY DEF FormIInv
    <3>2. FormFit(form[e], local[e], call[e], edits', toggles')
      BY <1>2, <3>1 DEF FormFit
    <3> QED
      BY <1>3, <1>4, <2>2, <3>2
  <2> QED
    BY <2>1, <2>2
<1> QED
  BY <1>2, <1>4, <1>5 DEF FormIInv, FormFit, Form

\* A form that is left alone: the entry shown may lose what it showed, never gain a field.
LEMMA FormStays ==
  ASSUME SyncIInv, FormIInv, NEW d \in Pages, NEW x \in Call, NEW l \in Entry,
         call' = [call EXCEPT ![d] = x], local' = [local EXCEPT ![d] = l],
         UNCHANGED <<form, user>>,
         x.kind = "favorite" => call[d].kind = "favorite" /\ x.write = call[d].write,
         local[d].origin \in Origins => l.origin \in Origins /\ l.content \subseteq local[d].content
  PROVE  FormIInv'
<1>1. /\ form[d] \in Form /\ form = [form EXCEPT ![d] = form[d]]
      /\ FormFit(form[d], local[d], call[d], edits, toggles)
  BY AtForm
<1>2. FormFit(form[d], l, x, edits, toggles)
  BY <1>1 DEF FormFit
<1>3. edits' = edits /\ toggles' = toggles /\ form' = [form EXCEPT ![d] = form[d]]
  BY <1>1 DEF user
<1> QED
  BY <1>1, <1>2, <1>3, FormsKept

\* A form that is closed, or whose entry is not in vault.entries any more.
LEMMA FormLeft ==
  ASSUME SyncIInv, FormIInv, NEW d \in Pages, NEW x \in Call, NEW l \in Entry,
         call' = [call EXCEPT ![d] = x], local' = [local EXCEPT ![d] = l],
         form' = [form EXCEPT ![d] = NoForm] \/ Detached(d),
         toggles' = toggles, edits' \in {edits, edits + 1},
         x.kind = "favorite" => call[d].kind = "favorite" /\ x.write = call[d].write
  PROVE  FormIInv'
<1>1. form[d] \in Form /\ FormFit(form[d], local[d], call[d], edits, toggles)
  BY AtForm
<1>2. 1 .. edits \subseteq 1 .. edits'
  <2>1. edits \in Nat
    BY AtService
  <2>2. 1 .. edits \subseteq 1 .. edits + 1
    BY <2>1
  <2> QED
    BY <2>2
<1>3. PICK f : f \in {NoForm, [form[d] EXCEPT !.attached = FALSE]}
                 /\ form' = [form EXCEPT ![d] = f]
  BY DEF Detached, FormIInv
<1>4. f \in Form /\ f.content \in {{}, form[d].content} /\ f.attached = FALSE
  <2>1. CASE f = NoForm
    BY <2>1 DEF Form, NoForm, Contents
  <2>2. CASE f = [form[d] EXCEPT !.attached = FALSE]
    BY <1>1, <2>2 DEF Form
  <2> QED
    BY <1>3, <2>1, <2>2
<1>5. FormFit(f, l, x, edits', toggles')
  BY <1>1, <1>2, <1>4 DEF FormFit
<1> QED
  BY <1>3, <1>4, <1>5, FormsKept

\* A form that is opened shows the fields of the entry of that moment.
LEMMA OpenFormForms ==
  ASSUME SyncIInv, FormIInv, NEW d \in Pages, OpenForm(d)
  PROVE  FormIInv'
<1>1. PICK f : f = [open |-> TRUE, content |-> local[d].content \ toggles, attached |-> TRUE]
  OBVIOUS
<1>2. /\ form' = [form EXCEPT ![d] = f] /\ call' = call /\ local' = local /\ Shown(d)
      /\ edits' = edits /\ toggles' = toggles
  BY <1>1 DEF OpenForm, user
<1>3. /\ local[d] \in Entry /\ EntryFit(local[d], edits, row, purged) /\ call[d] \in Call
  BY AtPage
<1>4. f \in Form
  <2>1. local[d].content \ toggles \in Contents
    BY <1>3 DEF Entry, Contents
  <2> QED
    BY <1>1, <2>1 DEF Form
<1>5. f.content = local[d].content \ toggles
  BY <1>1
<1>6. FormFit(f, local[d], call[d], edits', toggles')
  <2>1. call[d].kind = "favorite" => call[d].write.edit \in toggles
    BY AtForm DEF FormFit
  <2> QED
    BY <1>2, <1>3, <1>5, <2>1 DEF FormFit, EntryFit, Shown
<1>7. call' = [call EXCEPT ![d] = call[d]] /\ local' = [local EXCEPT ![d] = local[d]]
  BY <1>2, Same
<1> QED
  BY <1>2, <1>3, <1>4, <1>6, <1>7, FormsKept

\* A save adds the edit to the form, which is no toggle.
LEMMA EditForms ==
  ASSUME SyncIInv, FormIInv, NEW d \in Pages, Edit(d)
  PROVE  FormIInv'
<1>1. PICK f : f = [form[d] EXCEPT !.content = @ \cup {edits + 1}]
  OBVIOUS
<1>2. /\ form' = [form EXCEPT ![d] = f] /\ local' = local /\ toggles' = toggles
      /\ edits' = edits + 1 /\ edits < scenario.edits
  BY <1>1 DEF Edit, NewEdit, FormIInv
<1>3. PICK x \in Call : call' = [call EXCEPT ![d] = x] /\ x.kind = "edit"
  <2>1. PICK w : w = [edit |-> NewEdit, expected |-> local[d].revision,
                      content |-> FormContent(d) \cup {NewEdit}, dead |-> FALSE,
                      origin |-> IF form[d].attached THEN local[d].origin ELSE "form"]
    OBVIOUS
  <2>2. PICK x : x = [kind |-> "edit", write |-> w, answer |-> "wait", attached |-> TRUE]
    OBVIOUS
  <2>3. call' = [call EXCEPT ![d] = x]
    BY <2>1, <2>2 DEF Edit, Ask
  <2>4. w \in Write
    <3>1. FormContent(d) \subseteq 1 .. edits /\ edits + 1 \in EditIds /\ edits + 1 \in 0 .. MaxEdits
      BY <1>2, FormSaves, EditBound
    <3>2. FormContent(d) \cup {edits + 1} \in Contents
      <4>1. 1 .. edits \subseteq EditIds
        BY AtService, DeviceSyncAssumption DEF EditIds
      <4> QED
        BY <3>1, <4>1 DEF Contents
    <3>3. local[d].revision \in 0 .. MaxWrites + 1
      BY AtPage DEF Entry
    <3>4. (IF form[d].attached THEN local[d].origin ELSE "form") \in Origins
      BY DEF Edit, Shown, Origins
    <3> QED
      BY <2>1, <3>1, <3>2, <3>3, <3>4 DEF Write, NewEdit
  <2>5. x \in Call
    BY <2>2, <2>4 DEF Call, CallKinds, CallAnswers
  <2> QED
    BY <2>2, <2>3, <2>5
<1>4. /\ form[d] \in Form /\ FormFit(form[d], local[d], call[d], edits, toggles)
      /\ local[d] \in Entry
  BY AtForm, AtPage
<1>5. /\ edits + 1 \in EditIds /\ edits + 1 \in 1 .. edits + 1
      /\ 1 .. edits \subseteq 1 .. edits + 1 /\ edits + 1 \notin toggles
  <2>1. edits + 1 \notin 1 .. edits
    BY AtService
  <2> QED
    BY <1>2, <2>1, EditBound DEF FormIInv
<1>6. /\ f \in Form /\ f.content = form[d].content \cup {edits + 1}
      /\ f.attached = form[d].attached
  BY <1>1, <1>4, <1>5 DEF Form, Contents
<1>7. FormFit(f, local[d], x, edits', toggles')
  BY <1>2, <1>3, <1>4, <1>5, <1>6 DEF FormFit
<1> QED
  BY <1>2, <1>3, <1>4, <1>6, <1>7, Same, FormsKept

\* A toggle is no field of the form, whatever the form was opened on.
LEMMA FavoriteForms ==
  ASSUME SyncIInv, FormIInv, NEW d \in Pages, Favorite(d), SyncIInv'
  PROVE  FormIInv'
<1>1. /\ form' = form /\ edits' = edits + 1 /\ toggles' = toggles \cup {edits + 1}
      /\ call'[d].kind = "favorite" /\ call'[d].write.edit = edits + 1 /\ edits < scenario.edits
      /\ \A e \in Pages \ {d} : call'[e] = call[e]
  BY DEF Favorite, NewEdit, Ask, SyncIInv, SyncShape, Typed
<1>2. PICK l : l = [local[d] EXCEPT !.content = @ \cup {edits + 1}]
  OBVIOUS
<1>3. local' = [local EXCEPT ![d] = l]
  BY <1>2 DEF Favorite, NewEdit, SyncIInv, SyncShape, Typed
<1>4. /\ form[d] \in Form /\ form = [form EXCEPT ![d] = form[d]] /\ local[d] \in Entry
      /\ FormFit(form[d], local[d], call[d], edits, toggles)
  BY AtForm, AtPage
<1>5. /\ l.content = local[d].content \cup {edits + 1} /\ l.origin = local[d].origin
      /\ l \in Entry
  <2>1. edits + 1 \in EditIds
    BY <1>1, EditBound
  <2> QED
    BY <1>2, <1>4, <2>1 DEF Entry, Contents
<1>6. call' = [call EXCEPT ![d] = call'[d]] /\ call'[d] \in Call
  <2>1. call' \in [Pages -> Call]
    BY DEF SyncIInv, SyncShape, Typed, Call, Write
  <2>2. call \in [Pages -> Call]
    BY DEF SyncIInv, SyncShape, Typed
  <2> QED
    BY <1>1, <2>1, <2>2
<1>7. FormFit(form[d], l, call'[d], edits', toggles')
  <2>1. 1 .. edits \subseteq 1 .. edits + 1 /\ edits + 1 \notin 1 .. edits
    BY <1>1, EditBound, AtService
  <2> QED
    BY <1>1, <1>4, <1>5, <2>1 DEF FormFit
<1> QED
  BY <1>1, <1>3, <1>4, <1>5, <1>6, <1>7, FormsKept

\* The other requests, and the service's part of them, leave the form alone.
LEMMA RequestForms ==
  ASSUME SyncIInv, FormIInv, NEW d \in Pages, Delete(d) \/ Restore(d) \/ Serve(d), SyncIInv'
  PROVE  FormIInv'
<1>1. /\ UNCHANGED <<form, user>> /\ local' = local
      /\ \A e \in Pages \ {d} : call'[e] = call[e]
      /\ call'[d].kind = "favorite" => call[d].kind = "favorite" /\ call'[d].write = call[d].write
  BY DEF Delete, Restore, Serve, Ask, SyncIInv, SyncShape, Typed, Call
<1>2. call' \in [Pages -> Call]
  BY DEF SyncIInv, SyncShape, Typed, Call, Write
<1>3. call \in [Pages -> Call] /\ local[d] \in Entry
  BY AtPage DEF SyncIInv, SyncShape, Typed
<1>4. call' = [call EXCEPT ![d] = call'[d]] /\ call'[d] \in Call
  BY <1>1, <1>2, <1>3
<1> QED
  BY <1>1, <1>3, <1>4, Same, FormStays

\* An answer closes the form, takes its entry from the list, or leaves it alone.
LEMMA AnswerForms ==
  ASSUME SyncIInv, FormIInv, NEW d \in Pages, SyncIInv',
         \/ Saved(d) \/ SavedOffline(d) \/ Failed(d) \/ Favored(d) \/ RollBack(d)
         \/ Deleted(d) \/ Restored(d)
  PROVE  FormIInv'
<1>1. call' = [call EXCEPT ![d] = NoCall] /\ UNCHANGED user
  BY DEF Saved, SavedOffline, Failed, Favored, RollBack, Deleted, Restored, Answered
<1>2. NoCall \in Call /\ NoCall.kind # "favorite"
  BY AtService, NothingFits DEF NoCall
<1>3. local' \in [Pages -> Entry] /\ local \in [Pages -> Entry] /\ local[d] \in Entry
  <2>1. local' \in [Pages -> Entry]
    BY DEF SyncIInv, SyncShape, Typed, Entry
  <2> QED
    BY <2>1 DEF SyncIInv, SyncShape, Typed
<1>4. PICK x : local' = [local EXCEPT ![d] = x]
  BY Same DEF Saved, SavedOffline, Failed, Favored, RollBack, Deleted, Restored, Show
<1>5. x \in Entry
  BY <1>3, <1>4
<1>6. CASE Saved(d) \/ SavedOffline(d) \/ Deleted(d)
  <2>1. form' = [form EXCEPT ![d] = NoForm] \/ Detached(d)
    BY <1>6 DEF Saved, SavedOffline, Deleted, SavedPanel
  <2> QED
    BY <1>1, <1>2, <1>4, <1>5, <2>1, FormLeft DEF user
<1>7. CASE Failed(d) \/ Favored(d) \/ RollBack(d) \/ Restored(d)
  <2>1. form' = form
    BY <1>7 DEF Failed, Favored, RollBack, Restored
  <2>2. x = local'[d]
    BY <1>3, <1>4
  <2>3. local[d].origin \in Origins => x.origin \in Origins /\ x.content \subseteq local[d].content
    <3>1. CASE Failed(d)
      BY <2>2, <3>1 DEF Failed
    <3>2. CASE Favored(d)
      BY <1>3, <2>2, <3>2 DEF Favored, Show, Origins, Entry
    <3>3. CASE RollBack(d)
      BY <1>3, <2>2, <3>3 DEF RollBack, Show, Entry
    <3>4. CASE Restored(d)
      <4>1. NoEntry.origin \notin Origins
        BY DEF NoEntry, Origins
      <4> QED
        BY <2>2, <3>4, <4>1 DEF Restored
    <3> QED
      BY <1>7, <3>1, <3>2, <3>3, <3>4
  <2> QED
    BY <1>1, <1>2, <1>4, <1>5, <2>1, <2>3, FormStays
<1> QED
  BY <1>6, <1>7

\* A new entry, a listing and a reload end the form or detach it.
LEMMA ReplacedForms ==
  ASSUME SyncIInv, FormIInv, NEW d \in Pages, SyncIInv',
         CreateEntry(d) \/ Listed(d) \/ ReloadPage(d)
  PROVE  FormIInv'
<1>1. /\ form' = [form EXCEPT ![d] = NoForm] \/ Detached(d)
      /\ toggles' = toggles /\ edits' \in {edits, edits + 1}
      /\ \A e \in Pages \ {d} : call'[e] = call[e] /\ local'[e] = local[e]
      /\ call'[d].kind = "favorite" => call[d].kind = "favorite" /\ call'[d].write = call[d].write
  BY DEF CreateEntry, Listed, ReloadPage, Ask, NewEdit, user, NoCall, SyncIInv, SyncShape, Typed,
         Call
<1>2. call' \in [Pages -> Call] /\ local' \in [Pages -> Entry]
  BY DEF SyncIInv, SyncShape, Typed, Call, Write, Entry
<1>3. call \in [Pages -> Call] /\ local \in [Pages -> Entry]
  BY DEF SyncIInv, SyncShape, Typed
<1>4. /\ call' = [call EXCEPT ![d] = call'[d]] /\ call'[d] \in Call
      /\ local' = [local EXCEPT ![d] = local'[d]] /\ local'[d] \in Entry
  BY <1>1, <1>2, <1>3
<1> QED
  BY <1>1, <1>4, FormLeft

\* Where neither the form, the copy, the request nor the edits change.
LEMMA OtherForms ==
  ASSUME FormIInv, UNCHANGED <<form, local, call, user>>
  PROVE  FormIInv'
BY DEF FormIInv, FormFit, Form, user

-----------------------------------------------------------------------------
(* The queue.                                                              *)

\* What is queued or sent stays a save while no count goes down.
LEMMA FlushKept ==
  ASSUME SyncIInv, FlushIInv, NEW d \in Pages, NEW s \in Sync, NEW q \in Write,
         sync' = [sync EXCEPT ![d] = s], queue' = [queue EXCEPT ![d] = q],
         \A n \in EditIds : applied[n] > 0 => applied'[n] > 0,
         FlushFit(s, q, applied')
  PROVE  FlushIInv'
<1>1. /\ sync'[d] = s /\ queue'[d] = q
      /\ \A e \in Pages \ {d} : sync'[e] = sync[e] /\ queue'[e] = queue[e]
  BY DEF SyncIInv, SyncShape, Typed
<1>2. ASSUME NEW e \in Pages
      PROVE  FlushFit(sync'[e], queue'[e], applied')
  <2>1. CASE e = d
    BY <1>1, <2>1
  <2>2. CASE e # d
    <3>1. FlushFit(sync[e], queue[e], applied)
      BY DEF FlushIInv
    <3>2. FlushFit(sync[e], queue[e], applied')
      BY <3>1 DEF FlushFit
    <3> QED
      BY <1>1, <2>2, <3>2
  <2> QED
    BY <2>1, <2>2
<1> QED
  BY <1>2 DEF FlushIInv, FlushFit, NoWrite, EditIds

\* The service counts what it stores.
LEMMA Counted ==
  ASSUME SyncIInv, NEW w, NEW a, Serves(w, a)
  PROVE  /\ \A n \in EditIds : applied[n] > 0 => applied'[n] > 0
         /\ (a = "ok" /\ w.edit \in EditIds) => applied'[w.edit] > 0
<1>1. applied \in [EditIds -> 0 .. 2]
  BY DEF SyncIInv, SyncShape
<1>2. \A t \in 0 .. 2 : OnceMore(t) > 0
  BY DEF OnceMore
<1>3. CASE applied' = [n \in EditIds |-> IF n = w.edit THEN OnceMore(applied[n]) ELSE applied[n]]
  BY <1>1, <1>2, <1>3
<1>4. CASE applied' = applied /\ a # "ok"
  BY <1>4
<1> QED
  BY <1>3, <1>4 DEF Serves, service

\* A flush that is answered "ok" was stored.
LEMMA ServedFlush ==
  ASSUME SyncIInv, FlushIInv, NEW d \in Pages, ServeFlush(d)
  PROVE  FlushIInv'
<1>1. PICK a \in Answers : /\ Serves(sync[d].write, a)
                           /\ sync' = [sync EXCEPT ![d].answer = a]
  BY DEF ServeFlush
<1>2. PICK s : s = [sync[d] EXCEPT !.answer = a]
  OBVIOUS
<1>3. sync' = [sync EXCEPT ![d] = s] /\ queue' = queue /\ sync[d].answer = "wait"
  BY <1>1, <1>2 DEF ServeFlush, SyncIInv, SyncShape, Typed
<1>4. s \in Sync /\ s.write = sync[d].write /\ s.answer = a /\ queue[d] \in Write
  BY <1>1, <1>2, AtPage DEF Sync, CallAnswers
<1>5. FlushFit(sync[d], queue[d], applied)
  BY DEF FlushIInv
<1>6. /\ \A n \in EditIds : applied[n] > 0 => applied'[n] > 0
      /\ (a = "ok" /\ s.write.edit \in EditIds) => applied'[s.write.edit] > 0
  BY <1>1, <1>4, Counted
<1>7. FlushFit(s, queue[d], applied')
  BY <1>3, <1>4, <1>5, <1>6 DEF FlushFit
<1> QED
  BY <1>3, <1>4, <1>6, <1>7, Same, FlushKept

\* Only what a save asked for is queued, and only what is queued is sent.
LEMMA QueueFlush ==
  ASSUME SyncIInv, FlushIInv, NEW d \in Pages,
         SavedOffline(d) \/ RollBack(d) \/ StartSync(d) \/ Flushed(d) \/ List(d) \/ Fetch(d)
           \/ Listed(d) \/ ReloadPage(d),
         SyncIInv'
  PROVE  FlushIInv'
<1>1. applied' = applied
  BY DEF SavedOffline, RollBack, StartSync, Flushed, List, Fetch, Listed, ReloadPage, service
<1>2. FlushFit(sync[d], queue[d], applied)
  BY DEF FlushIInv
<1>3. /\ sync' \in [Pages -> Sync] /\ queue' \in [Pages -> Write]
      /\ sync \in [Pages -> Sync] /\ queue \in [Pages -> Write]
  <2>1. sync' \in [Pages -> Sync] /\ queue' \in [Pages -> Write]
    BY DEF SyncIInv, SyncShape, Typed, Sync, Write, Entry
  <2> QED
    BY <2>1 DEF SyncIInv, SyncShape, Typed
<1>4. \A e \in Pages \ {d} : sync'[e] = sync[e] /\ queue'[e] = queue[e]
  BY <1>3 DEF SavedOffline, RollBack, StartSync, Flushed, List, Fetch, Listed, ReloadPage, Enqueued
<1>5. /\ sync' = [sync EXCEPT ![d] = sync'[d]] /\ queue' = [queue EXCEPT ![d] = queue'[d]]
      /\ sync'[d] \in Sync /\ queue'[d] \in Write
  BY <1>3, <1>4
<1>6. NoSync.answer = "none"
  BY DEF NoSync
<1>7. FlushFit(sync'[d], queue'[d], applied)
  <2>1. CASE SavedOffline(d) \/ RollBack(d)
    <3>1. sync' = sync /\ queue'[d] \in {queue[d], call[d].write}
      BY <1>3, <2>1 DEF SavedOffline, RollBack, Enqueued
    <3>2. call[d].kind \in Saves
      BY <2>1 DEF SavedOffline, RollBack, Answered, Saves
    <3>3. call[d].write.edit # 0 /\ call[d].write.edit \in Nat /\ call[d].write.edit <= MaxEdits
      BY <3>2, AtPage, Parts DEF CallOK
    <3>4. call[d].write.edit \in EditIds
      BY <3>3, DeviceSyncAssumption DEF EditIds
    <3> QED
      BY <1>2, <3>1, <3>4 DEF FlushFit
  <2>2. CASE StartSync(d)
    <3>1. queue' = queue
      BY <2>2 DEF StartSync
    <3>2. CASE queue[d] = NoWrite
      <4>1. sync'[d].answer = "none"
        BY <1>3, <2>2, <3>2 DEF StartSync, NoSync
      <4> QED
        BY <1>2, <3>1, <4>1 DEF FlushFit
    <3>3. CASE queue[d] # NoWrite
      <4>1. sync'[d].answer = "wait" /\ sync'[d].write = queue[d]
        BY <1>3, <2>2, <3>3 DEF StartSync, NoSync
      <4> QED
        BY <1>2, <3>1, <3>3, <4>1 DEF FlushFit
    <3> QED
      BY <3>2, <3>3
  <2>3. CASE Flushed(d) \/ Listed(d) \/ ReloadPage(d)
    <3>1. sync'[d].answer = "none" /\ queue'[d] \in {queue[d], NoWrite}
      BY <1>3, <2>3 DEF Flushed, Listed, ReloadPage, NoSync
    <3> QED
      BY <1>2, <3>1 DEF FlushFit
  <2>4. CASE List(d) \/ Fetch(d)
    <3>1. /\ queue' = queue
          /\ \/ sync'[d] = NoSync
             \/ sync'[d].answer = sync[d].answer /\ sync'[d].write = sync[d].write
      <4>1. queue' = queue
        BY <2>4 DEF List, Fetch
      <4>2. \/ sync'[d] = NoSync
            \/ sync'[d] = [sync[d] EXCEPT !.step = "fetch"]
            \/ \E x : sync'[d] = [sync[d] EXCEPT !.step = "listed", !.listed = x]
        BY <1>3, <2>4 DEF List, Fetch
      <4>3. sync[d] \in Sync
        BY <1>3
      <4> QED
        BY <4>1, <4>2, <4>3 DEF Sync
    <3> QED
      BY <1>2, <1>6, <3>1 DEF FlushFit
  <2> QED
    BY <2>1, <2>2, <2>3, <2>4
<1> QED
  BY <1>1, <1>5, <1>7, FlushKept

\* A request of the user is counted as well.
LEMMA ServedCall ==
  ASSUME SyncIInv, FlushIInv, NEW d \in Pages, Serve(d)
  PROVE  FlushIInv'
<1>1. \A n \in EditIds : applied[n] > 0 => applied'[n] > 0
  BY Counted DEF Serve
<1>2. sync' = sync /\ queue' = queue
  BY DEF Serve
<1> QED
  BY <1>1, <1>2 DEF FlushIInv, FlushFit, NoWrite, EditIds

\* Where neither the queue, the flush nor the counts change.
LEMMA OtherFlush ==
  ASSUME FlushIInv, UNCHANGED <<sync, queue, applied>>
  PROVE  FlushIInv'
BY DEF FlushIInv, FlushFit, NoWrite, EditIds

-----------------------------------------------------------------------------
(* The theorems.                                                           *)

\* The scenarios start with nothing on the devices.
LEMMA InitFits ==
  ASSUME SyncInit
  PROVE  SyncIInv
<1>1. /\ 0 \in Nat /\ 0 \in 0 .. MaxEdits /\ 0 \in 0 .. 2 /\ 0 \in 0 .. MaxWrites
      /\ \A n \in EditIds : n > 0
  BY DeviceSyncAssumption DEF EditIds
<1>2. row \in {NoRow, OldRow} /\ purged = FALSE /\ edits = 0
  BY DEF SyncInit
<1>3. /\ NoCall \in Call /\ CallFit(NoCall, edits, row, purged) /\ NoCall.write = NoWrite
      /\ NoWrite \in Write /\ WriteFit(NoWrite, edits, row, purged) /\ NoWrite.edit = 0
      /\ NoEntry \in Entry /\ EntryFit(NoEntry, edits, row, purged) /\ OfferFit(NoEntry, edits)
      /\ NoSync \in Sync /\ SyncFit(NoSync, edits, row, purged) /\ NoSync.answer = "none"
      /\ NoSync.write = NoWrite
  BY <1>1, <1>2, NothingFits
<1>4. NoCall.kind = "none"
  BY DEF NoCall
<1>5. Typed
  BY <1>3 DEF SyncInit, Typed
<1>6. NoRow \in Row /\ OldRow \in Row /\ NoRow.content = {} /\ OldRow.content = {}
  BY DeviceSyncAssumption DEF NoRow, OldRow, Row, Contents
<1>7. row \in Row /\ row.content \subseteq 1 .. edits
  BY <1>2, <1>6
<1>8. applied = [n \in EditIds |-> 0] /\ scenario \in Scenarios
  BY DEF SyncInit
<1>9. SyncShape
  <2>1. applied \in [EditIds -> 0 .. 2] /\ \A n \in EditIds : applied[n] = 0
    BY <1>1, <1>8
  <2>2. \A d \in Pages : sync[d].answer # "busy"
    BY <1>3 DEF SyncInit
  <2> QED
    BY <1>1, <1>2, <1>5, <1>7, <1>8, <2>1, <2>2 DEF SyncShape
<1>10. ASSUME NEW d \in Pages
       PROVE  /\ call[d] = NoCall /\ local[d] = NoEntry /\ sync[d] = NoSync
              /\ offered[d] = NoEntry /\ queue[d] = NoWrite
  BY DEF SyncInit
<1>11. Fits
  <2>1. ToggleFit(NoCall, NoEntry)
    BY <1>4 DEF ToggleFit
  <2>2. DeviceFit(NoCall, NoEntry, NoSync, NoEntry, NoWrite, edits, row, purged)
    BY <1>3, <2>1 DEF DeviceFit
  <2> QED
    BY <1>10, <2>2 DEF Fits
<1>12. Once
  <2>1. \A w \in AllWrites : w.edit = 0
    BY <1>3, <1>10 DEF AllWrites, Writes
  <2>2. \A n \in EditIds : applied[n] <= 1
    BY <1>1, <1>8
  <2> QED
    BY <2>1, <2>2 DEF Once
<1>13. Secret
  BY <1>4, <1>10 DEF Secret
<1> QED
  BY <1>9, <1>11, <1>12, <1>13 DEF SyncIInv

\* No form is open, and nothing is queued.
LEMMA InitForms ==
  ASSUME SyncInit
  PROVE  FormIInv /\ FlushIInv
<1>1. \A d \in Pages : /\ form[d] = NoForm /\ call[d] = NoCall /\ queue[d] = NoWrite
                       /\ sync[d] = NoSync
  BY DEF SyncInit
<1>2. form \in [Pages -> Form] /\ toggles = {}
  BY DEF SyncInit, NoForm, Form, Contents
<1>3. NoForm.content = {} /\ NoForm.attached = FALSE /\ NoCall.kind = "none"
      /\ NoSync.answer = "none"
  BY DEF NoForm, NoCall, NoSync
<1>4. FormIInv
  BY <1>1, <1>2, <1>3 DEF FormIInv, FormFit
<1>5. FlushIInv
  BY <1>1, <1>3 DEF FlushIInv, FlushFit
<1> QED
  BY <1>4, <1>5

\* A step that changes nothing of this, whatever becomes of the forms.
LEMMA UnopenedFits ==
  ASSUME SyncIInv,
         UNCHANGED <<scenario, service, local, offered, queue, call, sync, edits>>
  PROVE  SyncIInv'
<1>1. /\ scenario' = scenario /\ row' = row /\ local' = local /\ offered' = offered
      /\ queue' = queue /\ call' = call /\ sync' = sync /\ edits' = edits
      /\ applied' = applied /\ purged' = purged
  BY DEF service
<1>2. Typed'
  BY <1>1 DEF SyncIInv, SyncShape, Typed, Call, Entry, Sync, Write
<1>3. SyncShape'
  BY <1>1, <1>2 DEF SyncIInv, SyncShape, Row, Contents, EditIds
<1>4. Fits'
  BY <1>1 DEF SyncIInv, Fits, DeviceFit, CallFit, WriteFit, EntryFit, SyncFit, OfferFit,
              ToggleFit, CallOK, Current, Saves, Origins
<1>5. \A d \in Pages : Writes(d)' = Writes(d) /\ OwnEdits(d)' = OwnEdits(d) /\ Rest(d)' = Rest(d)
  BY <1>1 DEF Writes, OwnEdits, Rest
<1>6. Once => Once'
  <2>1. AllWrites' = AllWrites
    BY <1>5 DEF AllWrites
  <2> QED
    BY <1>1, <2>1 DEF Once
<1>7. Secret => Secret'
  BY <1>1, <1>5 DEF Secret, Unseen
<1> QED
  BY <1>1, <1>3, <1>4, <1>6, <1>7 DEF SyncIInv

\* A step that changes nothing.
LEMMA StutterFits ==
  ASSUME SyncIInv, UNCHANGED syncVars
  PROVE  SyncIInv'
BY UnopenedFits DEF syncVars, service

\* The steps, one case for each action.
LEMMA StepFits ==
  ASSUME SyncIInv, FormIInv, SyncNext
  PROVE  SyncIInv'
<1>1. UNCHANGED scenario
  BY DEF SyncNext
<1>2. CASE Purge
  BY <1>1, <1>2, PurgeKept
<1>7. CASE \E d \in Pages : OpenForm(d)
  <2>1. UNCHANGED <<scenario, service, local, offered, queue, call, sync, edits>>
    BY <1>1, <1>7 DEF OpenForm, user
  <2> QED
    BY <2>1, UnopenedFits
<1>3. CASE \E d \in Pages : Edit(d) \/ CreateEntry(d) \/ Favorite(d) \/ Delete(d) \/ Restore(d)
  BY <1>1, <1>3, EditKept, CreateEntryKept, FavoriteKept, DeleteKept, RestoreKept
<1>4. CASE \E d \in Pages : \/ Saved(d) \/ SavedOffline(d) \/ Failed(d) \/ Favored(d)
                              \/ RollBack(d) \/ Deleted(d) \/ Restored(d)
  BY <1>1, <1>4, SavedKept, SavedOfflineKept, FailedKept, FavoredKept, RollBackKept,
     DeletedKept, RestoredKept
<1>5. CASE \E d \in Pages : \/ StartSync(d) \/ Flushed(d) \/ List(d) \/ Fetch(d) \/ Listed(d)
                              \/ OpenTrash(d) \/ ReloadPage(d)
  BY <1>1, <1>5, StartSyncKept, FlushedKept, ListKept, ListedKept, OpenTrashKept, ReloadPageKept
<1>6. CASE \E d \in Pages : Serve(d) \/ ServeFlush(d)
  BY <1>1, <1>6, ServeKept, ServeFlushKept
<1> QED
  BY <1>2, <1>3, <1>4, <1>5, <1>6, <1>7 DEF SyncNext, Step

\* The same of the forms.
LEMMA StepForms ==
  ASSUME SyncIInv, FormIInv, SyncNext, SyncIInv'
  PROVE  FormIInv'
<1>1. CASE \E d \in Pages : OpenForm(d) \/ Edit(d) \/ Favorite(d)
  BY <1>1, OpenFormForms, EditForms, FavoriteForms
<1>2. CASE \E d \in Pages : \/ Delete(d) \/ Restore(d) \/ Serve(d)
                            \/ CreateEntry(d) \/ Listed(d) \/ ReloadPage(d)
  BY <1>2, RequestForms, ReplacedForms
<1>3. CASE \E d \in Pages : \/ Saved(d) \/ SavedOffline(d) \/ Failed(d) \/ Favored(d)
                            \/ RollBack(d) \/ Deleted(d) \/ Restored(d)
  BY <1>3, AnswerForms
<1>4. CASE \/ Purge
           \/ \E d \in Pages : \/ StartSync(d) \/ ServeFlush(d) \/ Flushed(d) \/ List(d)
                               \/ Fetch(d) \/ OpenTrash(d)
  <2>1. UNCHANGED <<form, local, call, user>>
    BY <1>4 DEF Purge, StartSync, ServeFlush, Flushed, List, Fetch, OpenTrash
  <2> QED
    BY <2>1, OtherForms
<1> QED
  BY <1>1, <1>2, <1>3, <1>4 DEF SyncNext, Step

\* And of the queue.
LEMMA StepFlush ==
  ASSUME SyncIInv, FlushIInv, SyncNext, SyncIInv'
  PROVE  FlushIInv'
<1>1. CASE \E d \in Pages : Serve(d) \/ ServeFlush(d)
  BY <1>1, ServedCall, ServedFlush
<1>2. CASE \E d \in Pages : \/ SavedOffline(d) \/ RollBack(d) \/ StartSync(d) \/ Flushed(d)
                            \/ List(d) \/ Fetch(d) \/ Listed(d) \/ ReloadPage(d)
  BY <1>2, QueueFlush
<1>3. CASE \/ Purge
           \/ \E d \in Pages : \/ OpenForm(d) \/ Edit(d) \/ CreateEntry(d) \/ Favorite(d)
                               \/ Delete(d) \/ Restore(d) \/ Saved(d) \/ Failed(d)
                               \/ Favored(d) \/ Deleted(d) \/ Restored(d) \/ OpenTrash(d)
  <2>1. UNCHANGED <<sync, queue, applied>>
    BY <1>3 DEF Purge, OpenForm, Edit, CreateEntry, Favorite, Delete, Restore, Saved, Failed,
                Favored, Deleted, Restored, OpenTrash, service
  <2> QED
    BY <2>1, OtherFlush
<1> QED
  BY <1>1, <1>2, <1>3 DEF SyncNext, Step

\* The whole inductive invariant.
SyncAll == SyncIInv /\ FormIInv /\ FlushIInv

\* However many devices and edits there are and whatever is lost, queued, replayed, listed late
\* or rolled back: what every copy and every write claims to come from the service was there at
\* the revision it names, and until a purge a write of an edit is stored once and a toggle that
\* is not stored is nowhere but on its device.
THEOREM SyncInvariant == SyncSpec => []SyncAll
<1>1. SyncInit => SyncAll
  BY InitFits, InitForms DEF SyncAll
<1>2. SyncAll /\ [SyncNext]_syncVars => SyncAll'
  <2>1. ASSUME SyncAll, SyncNext
        PROVE  SyncAll'
    BY <2>1, StepFits, StepForms, StepFlush DEF SyncAll
  <2>2. ASSUME SyncAll, UNCHANGED syncVars
        PROVE  SyncAll'
    <3>1. UNCHANGED <<form, local, call, user>> /\ UNCHANGED <<sync, queue, applied>>
      BY <2>2 DEF syncVars, user
    <3> QED
      BY <2>2, <3>1, StutterFits, OtherForms, OtherFlush DEF SyncAll
  <2> QED
    BY <2>1, <2>2
<1> QED
  BY <1>1, <1>2, PTL DEF SyncSpec

\* Every variable has its type, and a copy that is shown has a revision, so that saving it is a
\* compare-and-set and never a create.
THEOREM CopiesTyped == SyncSpec => []SyncTypeOK
<1>1. SyncAll => SyncTypeOK
  <2> SUFFICES ASSUME SyncIInv, FormIInv
               PROVE  SyncTypeOK
    BY DEF SyncAll
  <2>1. \A d \in Pages : Shown(d) => local[d].revision > 0
    BY AtPage DEF Shown, EntryFit
  <2>2. \A d \in Pages : call[d].write \in Write /\ sync[d].write \in Write
    BY AtPage
  <2>3. toggles \subseteq EditIds
    BY AtService, DeviceSyncAssumption DEF FormIInv, EditIds
  <2> QED
    BY <2>1, <2>2, <2>3 DEF SyncIInv, SyncShape, Typed, SyncTypeOK, Row, FormIInv, Form
<1> QED
  BY <1>1, SyncInvariant, PTL

\* A sealed write is stored at most once, although a flush repeats it when the answer of an
\* earlier attempt was lost.
THEOREM WritesStoredOnce == SyncSpec => []AppliedOnce
<1>1. SyncAll => AppliedOnce
  BY DEF SyncAll, SyncIInv, Once, AppliedOnce
<1> QED
  BY <1>1, SyncInvariant, PTL

\* The row changes only when it is purged or the service stores a write.
LEMMA RowSteps ==
  ASSUME SyncNext, row' # row
  PROVE  Purge \/ \E d \in Pages : Serve(d) \/ ServeFlush(d)
BY DEF SyncNext, Step, service, OpenForm, Edit, CreateEntry, Favorite, Delete, Restore, Saved, SavedOffline, Failed,
       Favored, RollBack, Deleted, Restored, StartSync, Flushed, List, Fetch, Listed,
       OpenTrash, ReloadPage

\* A write sealed from the service's copy holds what the row does when it is stored.
LEMMA KeepsRow ==
  ASSUME SyncIInv, ~purged, NEW w \in Write, WriteFit(w, edits, row, purged),
         w.origin = "service", NEW a, Serves(w, a)
  PROVE  row.content \subseteq row'.content
<1>1. CASE Matches(w) /\ row.revision < MaxWrites /\ row' = Stored(w)
  <2>1. row'.content = IF w.dead THEN row.content ELSE w.content
    BY <1>1, StoredRow
  <2>2. Current(w.expected, w.content, row) /\ w.expected = row.revision
    BY <1>1 DEF WriteFit, Matches
  <2>3. row.content \subseteq w.content
    BY <2>2 DEF Current
  <2> QED
    BY <2>1, <2>3
<1>2. CASE UNCHANGED service
  BY <1>2 DEF service
<1> QED
  BY <1>1, <1>2 DEF Serves
\* A step stores no write sealed from the service's copy over an edit it does not hold.
LEMMA StepKeepsEdits ==
  ASSUME SyncIInv, SyncNext, ~purged
  PROVE  KeepsEdits({"service"})
<1> SUFFICES ASSUME NEW d \in Pages
             PROVE  /\ (/\ call[d].answer = "wait" /\ call'[d].answer \in Answers
                        /\ call[d].write.origin = "service") => row.content \subseteq row'.content
                    /\ (/\ sync[d].answer = "wait" /\ sync'[d].answer \in Answers
                        /\ sync[d].write.origin = "service") => row.content \subseteq row'.content
  BY DEF KeepsEdits
<1>1. "wait" \notin Answers
  BY DEF Answers
<1>2. /\ call[d].write \in Write /\ WriteFit(call[d].write, edits, row, purged)
      /\ sync[d].write \in Write /\ WriteFit(sync[d].write, edits, row, purged)
  BY AtPage DEF SyncFit
<1>3. CASE row' = row
  BY <1>3
<1>4. CASE Purge
  BY <1>1, <1>4 DEF Purge, user
<1>5. CASE \E e \in Pages : Serve(e)
  <2>1. PICK e \in Pages : Serve(e)
    BY <1>5
  <2>2. PICK a \in Answers : Serves(call[e].write, a) /\ call' = [call EXCEPT ![e].answer = a]
    BY <2>1 DEF Serve, user
  <2>3. sync' = sync
    BY <2>1 DEF Serve, user
  <2>4. CASE e = d
    BY <1>1, <1>2, <2>2, <2>3, <2>4, KeepsRow
  <2>5. CASE e # d
    <3>1. call'[d] = call[d]
      BY <2>2, <2>5 DEF SyncIInv, SyncShape, Typed
    <3> QED
      BY <1>1, <2>3, <3>1
  <2> QED
    BY <2>4, <2>5
<1>6. CASE \E e \in Pages : ServeFlush(e)
  <2>1. PICK e \in Pages : ServeFlush(e)
    BY <1>6
  <2>2. PICK a \in Answers : Serves(sync[e].write, a) /\ sync' = [sync EXCEPT ![e].answer = a]
    BY <2>1 DEF ServeFlush, user
  <2>3. call' = call
    BY <2>1 DEF ServeFlush, user
  <2>4. CASE e = d
    BY <1>1, <1>2, <2>2, <2>3, <2>4, KeepsRow
  <2>5. CASE e # d
    <3>1. sync'[d] = sync[d]
      BY <2>2, <2>5 DEF SyncIInv, SyncShape, Typed
    <3> QED
      BY <1>1, <2>3, <3>1
  <2> QED
    BY <2>4, <2>5
<1> QED
  BY <1>3, <1>4, <1>5, <1>6, RowSteps

\* Until a purge, a write sealed from a copy whose contents and revision came together from the
\* service never takes another device's edit out of the row, sent now or queued long ago.  A
\* form's save is one while the entry the form was filled from is the one that is shown.
THEOREM ListedCopiesAreSafe == SyncSpec => ListedCopiesOverwriteNothing
<1>1. SyncAll /\ [SyncNext]_syncVars => [purged \/ KeepsEdits({"service"})]_syncVars
  BY StepKeepsEdits DEF SyncAll
<1>2. SyncSpec => [][purged \/ KeepsEdits({"service"})]_syncVars
  BY <1>1, SyncInvariant, PTL DEF SyncSpec
<1> QED
  BY <1>2 DEF ListedCopiesOverwriteNothing

\* Only a save joins the queue, and only a flush that was answered leaves it.
LEMMA QueueSteps ==
  ASSUME SyncIInv, SyncNext, NEW d \in Pages, Dropped(d)
  PROVE  sync[d].answer \in Answers /\ ~Kept(sync[d].answer)
<1>1. queue[d] # NoWrite /\ queue'[d] = NoWrite /\ queue' # queue
  BY DEF Dropped
<1>2. NoWrite.edit = 0
  BY DEF NoWrite
<1>3. queue \in [Pages -> Write]
  BY DEF SyncIInv, SyncShape, Typed
<1>4. ASSUME NEW e \in Pages, SavedOffline(e) \/ RollBack(e)
      PROVE  FALSE
  <2>1. call[e].kind \in Saves /\ queue' = [queue EXCEPT ![e] = call[e].write]
    BY <1>1, <1>4 DEF SavedOffline, RollBack, Answered, Enqueued, Saves, user
  <2>2. call[e].write.edit # 0
    BY <2>1, AtPage DEF CallOK
  <2> QED
    BY <1>1, <1>2, <1>3, <2>1, <2>2
<1>5. PICK e \in Pages : Flushed(e)
  BY <1>1, <1>4 DEF SyncNext, Step, service, Purge, OpenForm, Edit, CreateEntry, Favorite, Delete, Restore, Serve,
       Saved, Failed, Favored, Deleted, Restored, StartSync, ServeFlush, List, Fetch, Listed,
       OpenTrash, ReloadPage
<1>6. ~Kept(sync[e].answer) /\ queue' = [queue EXCEPT ![e] = NoWrite] /\ sync[e].answer \in Answers
  BY <1>1, <1>5 DEF Flushed, user
<1>7. e = d
  BY <1>1, <1>3, <1>6
<1> QED
  BY <1>6, <1>7

\* A queued write outlives an unreachable service, a reload and every other request: it leaves
\* the queue only when a flush was answered, with a refusal to look only where the service turns
\* requests away.  If that flush sent this very write and the service took it, the write is
\* stored; only a newer write that took its place meanwhile leaves without having been sent.
THEOREM QueuedUntilAnswered == SyncSpec => DroppedOnlyWhenAnswered
<1>1. ASSUME SyncIInv, FlushIInv, SyncNext, NEW d \in Pages, Dropped(d)
      PROVE  /\ sync[d].answer \in {"ok", "conflict"} \cup {a \in {"busy"} : scenario.busy}
             /\ (sync[d].answer = "ok" /\ ~Outdated(d)) => applied[queue[d].edit] > 0
  <2>1. sync[d].answer \in Answers /\ ~Kept(sync[d].answer)
    BY <1>1, QueueSteps
  <2>2. sync[d].answer \in {"ok", "conflict", "busy"}
    BY <2>1 DEF Answers, Kept
  <2>3. sync[d].answer = "busy" => scenario.busy
    BY <1>1, AtPage
  <2>4. (sync[d].answer = "ok" /\ ~Outdated(d)) => applied[queue[d].edit] > 0
    BY <1>1 DEF FlushIInv, FlushFit, Outdated
  <2> QED
    BY <2>2, <2>3, <2>4
<1>2. SyncAll /\ [SyncNext]_syncVars =>
        [\A d \in Pages : Dropped(d) =>
           /\ sync[d].answer \in {"ok", "conflict"} \cup {a \in {"busy"} : scenario.busy}
           /\ (sync[d].answer = "ok" /\ ~Outdated(d)) => applied[queue[d].edit] > 0]_syncVars
  BY <1>1 DEF SyncAll
<1>3. SyncSpec =>
        [][\A d \in Pages : Dropped(d) =>
             /\ sync[d].answer \in {"ok", "conflict"} \cup {a \in {"busy"} : scenario.busy}
             /\ (sync[d].answer = "ok" /\ ~Outdated(d)) => applied[queue[d].edit] > 0]_syncVars
  BY <1>2, SyncInvariant, PTL DEF SyncSpec
<1> QED
  BY <1>3 DEF DroppedOnlyWhenAnswered

-----------------------------------------------------------------------------
(* The wrappers: the inductive invariant.                                  *)

Kinds == {"none", "create", "unlock", "change", "regenerate", "recover"}

\* Which ceremony takes which step.
Staged(x) ==
  \/ x.kind = "none" /\ x.step = "none"
  \/ x.kind = "create" /\ x.step = "put verifier"
  \/ x.kind = "recover" /\ x.step \in {"open kit", "recovered"}
  \/ x.kind # "none" /\ x.step \in {"put password", "read password"}
  \/ x.kind \notin {"none", "recover"} /\ x.step \in {"put recovery", "read recovery"}
  \/ x.kind \in {"unlock", "change", "regenerate"} /\ x.step = "open"
  \/ x.kind \in {"create", "unlock", "regenerate"} /\ x.step = "verify"
  \/ /\ x.kind = "regenerate"
     /\ x.step \in {"new kit", "put new", "read old", "delete old", "show kit"}

Op ==
  [kind : Kinds, step : Steps, pw : Passwords \cup {"none"}, next : Passwords \cup {"none"},
   key : Keys \cup {NoKey}, kit : Kits \cup {NoKit},
   revision : 0 .. MaxRevision, expected : 0 .. MaxRevision,
   fresh : BOOLEAN, again : BOOLEAN]

\* A regeneration between its new kit and the end.
Renewing(x) ==
  \/ x.step \in {"put new", "read old", "delete old", "show kit"}
  \/ x.kind = "regenerate" /\ x.step = "put password" /\ ~x.fresh

\* A regeneration that has opened or written the password wrapper.
Proved(x) ==
  /\ x.kind = "regenerate"
  /\ x.step \notin {"open", "read password"}
  /\ ~(x.step = "put password" /\ x.fresh)

OpOK(x) ==
  /\ Staged(x)
  /\ x.kind = "none" => x = Idle
  /\ x.kind # "none" => x.kit \in Kits /\ x.next \in Passwords
  /\ x.step = "open" => x.pw \in Passwords
  /\ IF x.step \in {"none", "open", "open kit"} THEN x.key = NoKey ELSE x.key \in Keys
  /\ x.step = "put verifier" => x.key = VaultKey
  /\ (/\ x.kind \in {"create", "unlock"}
      /\ x.step \in {"put verifier", "put password", "read password"}) => x.fresh
  /\ (x.kind = "regenerate" /\ x.step = "read password") => x.fresh
  /\ (x.kind = "regenerate" /\ x.step = "open") => x.next = x.pw
  /\ x.kind = "recover" => ~x.fresh
  /\ x.step = "delete old" => x.expected # 0
  /\ x.step \in {"open", "put verifier"} => x.revision = 0
  /\ x.step \in {"open", "new kit", "put new"} => ~x.fresh
  /\ (x.step = "read password" /\ x.kind # "recover") => x.again
  /\ (x.kind \in {"create", "unlock", "regenerate"} /\ x.step = "put password" /\ x.fresh) =>
       x.revision = 0 \/ x.again

\* Absent wrappers hold nothing, present ones a key.
WrapsOK ==
  /\ password.revision > 0 => password.key \in Keys
  /\ \A k \in Kits : recovery[k].revision > 0 => recovery[k].key \in Keys

Shape ==
  /\ TypeOK
  /\ WrapsOK
  /\ op \in [Devices -> Op] /\ \A d \in Devices : OpOK(op[d])
  /\ \A d \in Devices : (kit[d] = NoKit) <=> (stored[d] = NoKit)

\* Steps a ceremony takes only after the password wrapper exists.
Later == {"read recovery", "put recovery", "verify", "new kit", "put new", "read old",
          "delete old", "show kit", "recovered"}

\* What a ceremony x of a device with the kit k has seen of the password wrapper p.
InTime(x, k, p) ==
  /\ x.step \notin {"none", "open kit"} => k # NoKit
  /\ (x.step \in Later \/ (x.kind = "change" /\ x.step = "open")) => p.revision > 0
  /\ x.revision <= p.revision
  /\ (Proved(x) /\ p.revision = x.revision) => p.opens = x.next

Timely ==
  /\ (Devices # {} /\ \A d \in Devices : kit[d] = NoKit) => password.revision = 0
  /\ opened # {} => password.revision > 0
  /\ \A d \in Devices : InTime(op[d], kit[d], password)

\* The kit a regeneration has drawn is nobody else's.
Own(d, k) ==
  /\ k \in Kits
  /\ k \notin shown
  /\ k \notin {stored[d], op[d].kit}
  /\ \A e \in Devices \ {d} : k \notin {kit[e], stored[e], op[e].kit}

Private ==
  \A d \in Devices : Renewing(op[d]) =>
    /\ Own(d, kit[d])
    /\ op[d].step # "put new" => Live(kit[d])

\* The vault has the key t and no other.
OneKey(t) ==
  /\ Proves(t)
  /\ LegacyVault \/ password.revision > 0
  /\ password.revision > 0 => password.key = t
  /\ \A k \in Kits : recovery[k].revision > 0 => recovery[k].key = t
  /\ \A d \in Devices : op[d].key # NoKey => op[d].key = t
  /\ \A d \in Devices : op[d].step = "put verifier" => verifier # NoKey
  /\ opened \subseteq {t}

\* All keys are the vault's: the verifier's, or in a vault that has none the one
\* its password wrapper was first written with.
Secure == \E t \in Keys : OneKey(t)

\* A creation that has not succeeded: one device has a kit, and once the
\* password wrapper is written there is a verifier and no key is the verifier's.
Young ==
  /\ ~LegacyVault
  /\ opened = {}
  /\ \A d, e \in Devices : kit[d] # NoKit /\ kit[e] # NoKit => d = e
  /\ \A d \in Devices : op[d].kind = "recover" => op[d].step = "open kit"
  /\ \A d \in Devices : op[d].step = "put verifier" => password.revision = 0
  /\ IF password.revision = 0
     THEN \A k \in Kits : recovery[k].revision = 0
     ELSE /\ verifier # NoKey
          /\ password.key # verifier
          /\ \A k \in Kits : recovery[k].revision > 0 => recovery[k].key # verifier
          /\ \A d \in Devices : op[d].key # verifier \/ op[d].key = NoKey

\* A user of a vault from before wrappers types its own password.
Honest ==
  \A d \in Devices :
    (op[d].step = "open" /\ LegacyVault /\ password.revision = 0) => Derived(op[d].pw) = verifier

KeysIInv == Shape /\ Timely /\ Private

Faithful == Honest /\ (Secure \/ Young)

HonestIInv == KeysIInv /\ Faithful

\* What a step has to keep.
Keeps == KeysIInv' /\ ((~Mistyping /\ Faithful) => Faithful')

-----------------------------------------------------------------------------
(* Steps of one ceremony.                                                  *)

\* The ceremony of d becomes x.
Becomes(d, x) == op' = [op EXCEPT ![d] = x]

\* A written wrapper is not at revision 0.
LEMMA Positive == ASSUME NEW n, n > 0 PROVE n # 0
OBVIOUS

\* A wrapper that is written again stays written.
LEMMA StaysPositive == ASSUME NEW m \in Nat, NEW n, n = m \/ n = m + 1, m > 0 PROVE n > 0
OBVIOUS

\* The bound leaves room for one more write.
LEMMA NextRevision ==
  ASSUME NEW m \in Nat, m < MaxRevision
  PROVE  m + 1 \in 0 .. MaxRevision /\ m + 1 > 0 /\ m + 1 <= m + 1
BY VaultKeysAssumption

\* A revision the service gives is within the bound and not 0.
LEMMA WrittenRevision ==
  ASSUME NEW n \in 1 .. MaxRevision
  PROVE  n \in 0 .. MaxRevision /\ n # 0 /\ n > 0
BY VaultKeysAssumption

\* The revision after the one a write expects.
LEMMA AfterExpected ==
  ASSUME NEW m \in 0 .. MaxRevision, m < MaxRevision
  PROVE  m + 1 \in 1 .. MaxRevision
BY VaultKeysAssumption

\* A key is neither absent nor the other kind: the tuples that stand for them differ.
LEMMA KeyFacts ==
  /\ VaultKey \in Keys
  /\ NoKey \notin Keys
  /\ \A pw \in Passwords : Derived(pw) \in Keys /\ Derived(pw) # VaultKey /\ Derived(pw) # NoKey
<1>1. VaultKey # NoKey
  BY DEF VaultKey, NoKey
<1>2. \A pw \in Passwords : Derived(pw) # VaultKey /\ Derived(pw) # NoKey
  BY DEF VaultKey, NoKey, Derived
<1> QED
  BY <1>1, <1>2 DEF Keys

\* A device that does nothing has an operation of the code's shape.
LEMMA IdleIsOp == Idle \in Op /\ OpOK(Idle)
<1>1. Idle \in Op
  BY VaultKeysAssumption DEF Idle, Op, Kinds, Steps
<1>2. OpOK(Idle)
  BY DEF Idle, OpOK, Staged
<1> QED
  BY <1>1, <1>2

\* One ceremony moves, the others keep their place.
LEMMA Advance ==
  ASSUME op \in [Devices -> Op], \A e \in Devices : OpOK(op[e]),
         NEW d \in Devices, NEW x \in Op, OpOK(x), Becomes(d, x)
  PROVE  /\ op' \in [Devices -> Op]
         /\ \A e \in Devices : OpOK(op[e])'
         /\ op'[d] = x
         /\ \A e \in Devices : e # d => op'[e] = op[e]
<1>1. op' \in [Devices -> Op]
  BY DEF Becomes
<1>2. op'[d] = x /\ \A e \in Devices : e # d => op'[e] = op[e]
  BY DEF Becomes
<1>3. \A e \in Devices : OpOK(op'[e])
  BY <1>2
<1>4. \A e \in Devices : OpOK(op[e])'
  BY <1>3 DEF OpOK, Staged, Idle
<1> QED
  BY <1>1, <1>2, <1>4

\* What the others know of the password wrapper stays in time, as it is only
\* ever rewritten with the next revision.
LEMMA TimelyKept ==
  ASSUME Shape, Timely, NEW d \in Devices, NEW x \in Op, OpOK(x), Becomes(d, x),
         TypeOK',
         \A e \in Devices : e # d => kit'[e] = kit[e],
         kit[d] # NoKit => kit'[d] # NoKit,
         \/ password' = password
         \/ password'.revision = password.revision + 1 /\ kit'[d] # NoKit,
         opened' # {} => password'.revision > 0,
         InTime(x, kit'[d], password')
  PROVE  Timely'
<1>1. op' \in [Devices -> Op] /\ op'[d] = x /\ \A e \in Devices : e # d => op'[e] = op[e]
  BY Advance DEF Shape
<1>2. password.revision \in Nat /\ password'.revision \in Nat
  BY VaultKeysAssumption DEF Shape, TypeOK
<1>3. ASSUME NEW e \in Devices
      PROVE  op[e].revision \in Nat /\ op[e].revision <= password.revision
  <2>1. op[e] \in Op /\ InTime(op[e], kit[e], password)
    BY DEF Shape, Timely
  <2>2. op[e].revision \in 0 .. MaxRevision
    BY <2>1 DEF Op
  <2>3. op[e].revision <= password.revision
    BY <2>1 DEF InTime
  <2>4. op[e].revision \in Nat
    BY <2>2, VaultKeysAssumption
  <2> QED
    BY <2>3, <2>4
<1>4. (Devices # {} /\ \A e \in Devices : kit'[e] = NoKit) => password'.revision = 0
  BY DEF Timely
<1>5. ASSUME NEW e \in Devices, e # d
      PROVE  InTime(op[e], kit[e], password')
  <2>1. CASE password' = password
    BY <2>1 DEF Timely
  <2>2. CASE password'.revision = password.revision + 1
    <3>1. InTime(op[e], kit[e], password)
      BY DEF Timely
    <3>2. password'.revision > 0 /\ op[e].revision <= password'.revision
          /\ password'.revision # op[e].revision
      BY <1>2, <1>3, <2>2
    <3> QED
      BY <3>1, <3>2 DEF InTime
  <2> QED
    BY <2>1, <2>2
<1>6. \A e \in Devices : InTime(op'[e], kit'[e], password')
  BY <1>1, <1>5
<1> QED
  BY <1>4, <1>6 DEF Timely, InTime, Proved, Later

\* The kit of another device's regeneration is not one that d can name.
LEMMA KitsOfOthers ==
  ASSUME Private, NEW d \in Devices, NEW e \in Devices, e # d, Renewing(op[e])
  PROVE  kit[e] \in Kits /\ kit[e] \notin {kit[d], stored[d], op[d].kit, NoKit} \cup shown
BY VaultKeysAssumption DEF Private, Own

\* A step of d leaves the kits of the others' regenerations theirs.
LEMMA PrivateKept ==
  ASSUME Shape, Private, NEW d \in Devices, NEW x \in Op, OpOK(x), Becomes(d, x),
         \A e \in Devices : e # d => kit'[e] = kit[e] /\ stored'[e] = stored[e],
         \A e \in Devices : (e # d /\ Renewing(op[e])) =>
           /\ kit[e] \notin {kit'[d], stored'[d], x.kit} \cup shown'
           /\ Live(kit[e]) => Live(kit[e])',
         Renewing(x) =>
           /\ kit'[d] \in Kits /\ kit'[d] \notin {stored'[d], x.kit} \cup shown'
           /\ \A e \in Devices \ {d} : kit'[d] \notin {kit[e], stored[e], op[e].kit}
           /\ x.step # "put new" => Live(kit[d])'
  PROVE  Private'
<1>1. op'[d] = x /\ \A e \in Devices : e # d => op'[e] = op[e]
  BY Advance DEF Shape
<1>2. ASSUME NEW e \in Devices, e # d, Renewing(op[e])
      PROVE  Own(e, kit[e])' /\ (op[e].step # "put new" => Live(kit[e])')
  <2>1. Own(e, kit[e]) /\ (op[e].step # "put new" => Live(kit[e]))
    BY <1>2 DEF Private
  <2> QED
    BY <1>1, <1>2, <2>1 DEF Own
<1>3. Renewing(x) => Own(d, kit[d])' /\ (x.step # "put new" => Live(kit[d])')
  BY <1>1 DEF Own
<1>4. ASSUME NEW e \in Devices, Renewing(op'[e])
      PROVE  Own(e, kit[e])' /\ (op'[e].step # "put new" => Live(kit[e])')
  <2>1. CASE e = d
    BY <1>1, <1>3, <1>4, <2>1
  <2>2. CASE e # d
    BY <1>1, <1>2, <1>4, <2>2
  <2> QED
    BY <2>1, <2>2
<1> QED
  BY <1>4 DEF Private, Renewing

\* How a ceremony that writes nothing goes on: with the key of the wrapper it
\* opened, or with the one the password of a legacy vault derives.
Proceeds(d, x) ==
  /\ x.step # "put verifier"
  /\ x.kind = "recover" =>
       x.step = "open kit" \/ (op[d].kind = "recover" /\ op[d].step # "open kit")
  /\ (~Mistyping /\ x.step = "open" /\ LegacyVault /\ password.revision = 0) =>
       Derived(x.pw) = verifier
  /\ \/ x.key \in {NoKey, op[d].key}
     \/ password.revision > 0 /\ x.key = password.key
     \/ password.revision = 0 /\ op[d].step = "open" /\ x.key = Derived(op[d].pw)

\* A vault from before wrappers has no key but its verifier's.
LEMMA LegacyOneKey ==
  ASSUME NEW t, OneKey(t), LegacyVault
  PROVE  verifier = t
BY KeyFacts DEF OneKey, Proves, LegacyVault

\* A session opens with nothing but the key of the vault.
OpensSafely ==
  /\ Young => opened' = {}
  /\ \A t \in Keys : OneKey(t) => opened' \subseteq {t}

\* A step that opens no session does.
LEMMA OpensNothing == opened' = opened => OpensSafely
BY DEF OpensSafely, Young, OneKey

\* The sessions that were open have the key of a vault that has one.
LEMMA SecureCase == Secure => \E t \in Keys : OneKey(t)
BY DEF Secure

\* A step that writes nothing to the service keeps the wrappers faithful.
LEMMA FaithfulKept ==
  ASSUME Shape, ~Mistyping, Faithful,
         NEW d \in Devices, NEW x \in Op, OpOK(x), Becomes(d, x),
         Proceeds(d, x), UNCHANGED server,
         \A e \in Devices : e # d => kit'[e] = kit[e],
         kit'[d] # NoKit => kit[d] # NoKit,
         OpensSafely
  PROVE  Faithful'
<1>1. op'[d] = x /\ \A e \in Devices : e # d => op'[e] = op[e]
  BY Advance DEF Shape
<1>2. verifier' = verifier /\ password' = password /\ recovery' = recovery
  BY DEF server
<1>3. LegacyVault' = LegacyVault
  BY <1>2 DEF LegacyVault
<1>4. Honest'
  <2>1. (x.step = "open" /\ LegacyVault /\ password.revision = 0) => Derived(x.pw) = verifier
    BY DEF Proceeds
  <2>2. \A e \in Devices : (op'[e].step = "open" /\ LegacyVault /\ password.revision = 0)
                             => Derived(op'[e].pw) = verifier
    BY <1>1, <2>1 DEF Faithful, Honest
  <2> QED
    BY <1>2, <1>3, <2>2 DEF Honest, Derived
<1>5. CASE Secure
  <2>0. PICK t \in Keys : OneKey(t)
    BY <1>5, SecureCase
  <2>1. x.key # NoKey => x.key = t
    <3>1. CASE x.key \in {NoKey, op[d].key}
      BY <2>0, <3>1 DEF OneKey
    <3>2. CASE password.revision > 0 /\ x.key = password.key
      BY <2>0, <3>2 DEF OneKey
    <3>3. CASE password.revision = 0 /\ op[d].step = "open" /\ x.key = Derived(op[d].pw)
      <4>1. ~(password.revision > 0)
        BY <3>3
      <4>2. LegacyVault
        BY <2>0, <4>1 DEF OneKey
      <4>3. verifier = t
        BY <2>0, <4>2, LegacyOneKey
      <4> QED
        BY <3>3, <4>2, <4>3 DEF Faithful, Honest
    <3> QED
      BY <3>1, <3>2, <3>3 DEF Proceeds
  <2>2. \A e \in Devices : op'[e].key # NoKey => op'[e].key = t
    BY <1>1, <2>0, <2>1 DEF OneKey
  <2>3. \A e \in Devices : op'[e].step = "put verifier" => verifier # NoKey
    BY <1>1, <2>0 DEF OneKey, Proceeds
  <2>4. opened' \subseteq {t}
    BY <2>0 DEF OpensSafely
  <2>5. OneKey(t)'
    BY <1>2, <1>3, <2>0, <2>2, <2>3, <2>4 DEF OneKey, Proves, NoKey
  <2>6. Secure'
    BY <2>5 DEF Secure, Keys, Derived, VaultKey
  <2> QED
    BY <1>4, <2>6 DEF Faithful
<1>6. CASE Young
  <2>1. \A e, f \in Devices : kit'[e] # NoKit /\ kit'[f] # NoKit => e = f
    BY <1>6 DEF Young
  <2>2. \A e \in Devices : op'[e].kind = "recover" => op'[e].step = "open kit"
    BY <1>1, <1>6 DEF Young, Proceeds
  <2>3. \A e \in Devices : op'[e].step = "put verifier" => password.revision = 0
    BY <1>1, <1>6 DEF Young, Proceeds
  <2>4. password.revision # 0 => \A e \in Devices : op'[e].key # verifier \/ op'[e].key = NoKey
    <3> SUFFICES ASSUME password.revision # 0
                 PROVE  x.key # verifier \/ x.key = NoKey
      BY <1>1, <1>6 DEF Young
    <3> QED
      BY <1>6 DEF Young, Proceeds
  <2>5. opened' = {}
    BY <1>6 DEF OpensSafely
  <2>6. Young'
    BY <1>2, <1>3, <1>6, <2>1, <2>2, <2>3, <2>4, <2>5 DEF Young, NoKey
  <2> QED
    BY <1>4, <2>6 DEF Faithful
<1> QED
  BY <1>5, <1>6 DEF Faithful

\* A ceremony that writes nothing names no other kit than those of its device
\* and of the user, and only a regeneration that has drawn its kit keeps it.
SameKits(d, x) ==
  /\ x.kit \in {op[d].kit, kit[d], NoKit} \cup shown
  /\ Renewing(x) => /\ Renewing(op[d])
                    /\ x.kit = op[d].kit
                    /\ x.step # "put new" => op[d].step # "put new"

\* Such a step keeps the whole invariant.
LEMMA QuietKept ==
  ASSUME KeysIInv, NEW d \in Devices, NEW x \in Op, OpOK(x), Becomes(d, x),
         UNCHANGED <<server, device, opened>>,
         InTime(x, kit[d], password), Proceeds(d, x), SameKits(d, x)
  PROVE  Keeps
<1>1. /\ UNCHANGED <<verifier, password, recovery, kit, stored, shown, opened>>
      /\ UNCHANGED server
  BY DEF server, device
<1>2. op' \in [Devices -> Op] /\ \A e \in Devices : OpOK(op[e])'
  BY Advance DEF KeysIInv, Shape
<1>3. TypeOK'
  <2>1. \A e \in Devices : op'[e].step \in Steps /\ op'[e].kit \in Kits \cup {NoKit}
    BY <1>2 DEF Op
  <2> QED
    BY <1>1, <2>1 DEF KeysIInv, Shape, TypeOK, NoRecovery, NoKey
<1>4. Shape'
  BY <1>1, <1>2, <1>3 DEF KeysIInv, Shape, WrapsOK
<1>5. Timely'
  BY <1>1, <1>3, TimelyKept DEF KeysIInv, Timely
<1>6. Private'
  <2>1. \A k \in Kits : Live(k)' <=> Live(k)
    BY <1>1 DEF Live
  <2>2. ASSUME NEW e \in Devices, e # d, Renewing(op[e])
        PROVE  /\ kit[e] \notin {kit'[d], stored'[d], x.kit} \cup shown'
               /\ Live(kit[e]) => Live(kit[e])'
    <3>1. kit[e] \in Kits /\ kit[e] \notin {kit[d], stored[d], op[d].kit, NoKit} \cup shown
      BY <2>2, KitsOfOthers DEF KeysIInv
    <3> QED
      BY <1>1, <2>1, <3>1 DEF SameKits, Live
  <2>3. ASSUME Renewing(x)
        PROVE  /\ kit'[d] \in Kits /\ kit'[d] \notin {stored'[d], x.kit} \cup shown'
               /\ \A e \in Devices \ {d} : kit'[d] \notin {kit[e], stored[e], op[e].kit}
               /\ x.step # "put new" => Live(kit[d])'
    <3>1. /\ Renewing(op[d]) /\ x.kit = op[d].kit
          /\ x.step # "put new" => op[d].step # "put new"
      BY <2>3 DEF SameKits
    <3>2. Own(d, kit[d]) /\ (op[d].step # "put new" => Live(kit[d]))
      BY <3>1 DEF KeysIInv, Private
    <3> QED
      BY <1>1, <3>1, <3>2 DEF Own, Live
  <2>4. \A e \in Devices : e # d => kit'[e] = kit[e] /\ stored'[e] = stored[e]
    BY <1>1
  <2> QED
    BY <2>2, <2>3, <2>4, PrivateKept DEF KeysIInv
<1>7. (~Mistyping /\ Faithful) => Faithful'
  <2>1. OpensSafely
    BY <1>1, OpensNothing
  <2> QED
    BY <1>1, <2>1, FaithfulKept DEF KeysIInv
<1> QED
  BY <1>4, <1>5, <1>6, <1>7 DEF Keeps, KeysIInv

\* The end of a ceremony, by its return or by an error.
LEMMA EndKept ==
  ASSUME KeysIInv, NEW d \in Devices, End(d), UNCHANGED <<server, device, opened>>
  PROVE  Keeps
<1>1. PICK x : x = Idle
  OBVIOUS
<1>2. x \in Op /\ OpOK(x)
  BY <1>1, IdleIsOp
<1>3. Becomes(d, x)
  BY <1>1 DEF End, Becomes
<1>4. /\ x.kind = "none" /\ x.step = "none" /\ x.key = NoKey /\ x.kit = NoKit
      /\ x.revision = 0
  BY <1>1 DEF Idle
<1>5. InTime(x, kit[d], password)
  <2>1. 0 <= password.revision
    BY VaultKeysAssumption DEF KeysIInv, Shape, TypeOK
  <2> QED
    BY <1>4, <2>1 DEF InTime, Later, Proved
<1>6. Proceeds(d, x) /\ SameKits(d, x)
  BY <1>4 DEF Proceeds, SameKits, Renewing
<1> QED
  BY <1>2, <1>3, <1>5, <1>6, QuietKept

\* A ceremony that starts by opening the password wrapper.
LEMMA BeginKept ==
  ASSUME KeysIInv, NEW d \in Devices, NEW kind \in {"unlock", "change", "regenerate"},
         NEW pw \in Passwords, NEW next \in Passwords,
         Begin(d, kind, "open", pw, next), UNCHANGED device,
         kit[d] # NoKit,
         kind = "change" => password.revision > 0,
         kind # "change" => Types(pw),
         kind = "regenerate" => next = pw
  PROVE  Keeps
<1>1. kit[d] \in Kits
  BY DEF KeysIInv, Shape, TypeOK
<1>2. PICK x : x = [Idle EXCEPT !.kind = kind, !.step = "open", !.pw = pw, !.next = next,
                                !.kit = kit[d]]
  OBVIOUS
<1>3. /\ x.kind = kind /\ x.step = "open" /\ x.pw = pw /\ x.next = next
      /\ x.kit = kit[d] /\ x.key = NoKey /\ x.revision = 0 /\ x.fresh = FALSE
  BY <1>2 DEF Idle
<1>4. x \in Op
  BY <1>1, <1>2, IdleIsOp DEF Op, Kinds, Steps
<1>5. OpOK(x)
  BY <1>1, <1>3 DEF OpOK, Staged
<1>6. Becomes(d, x)
  BY <1>2 DEF Begin, Becomes
<1>7. InTime(x, kit[d], password)
  <2>1. 0 <= password.revision
    BY VaultKeysAssumption DEF KeysIInv, Shape, TypeOK
  <2> QED
    BY <1>3, <2>1 DEF InTime, Later, Proved
<1>8. Proceeds(d, x) /\ SameKits(d, x)
  <2>1. (~Mistyping /\ LegacyVault /\ password.revision = 0) => Derived(pw) = verifier
    BY DEF Types
  <2> QED
    BY <1>3, <2>1 DEF Proceeds, SameKits, Renewing
<1>9. UNCHANGED <<server, device, opened>>
  BY DEF Begin
<1> QED
  BY <1>4, <1>5, <1>6, <1>7, <1>8, <1>9, QuietKept

\* Unlocking only starts a ceremony.
LEMMA UnlockKept ==
  ASSUME KeysIInv, NEW d \in Devices, NEW pw \in Passwords, Unlock(d, pw)
  PROVE  Keeps
BY BeginKept DEF Unlock

\* A change of the Master Password starts after the vault has its wrapper.
LEMMA ChangeKept ==
  ASSUME KeysIInv, NEW d \in Devices, NEW pw \in Passwords, NEW next \in Passwords,
         ChangeMasterPassword(d, pw, next)
  PROVE  Keeps
BY BeginKept DEF ChangeMasterPassword

\* A regeneration starts with the password that it keeps.
LEMMA RegenerateKept ==
  ASSUME KeysIInv, NEW d \in Devices, NEW pw \in Passwords, RegenerateRecoveryKey(d, pw)
  PROVE  Keeps
BY BeginKept DEF RegenerateRecoveryKey

\* A kit is typed: it is one the user was shown, so no regeneration's own.
LEMMA RecoverKept ==
  ASSUME KeysIInv, NEW d \in Devices, NEW typed \in Kits, NEW next \in Passwords,
         RecoverVault(d, typed, next)
  PROVE  Keeps
<1>1. PICK x : x = [Idle EXCEPT !.kind = "recover", !.step = "open kit", !.next = next,
                                !.kit = typed]
  OBVIOUS
<1>2. /\ x.kind = "recover" /\ x.step = "open kit" /\ x.next = next
      /\ x.kit = typed /\ x.key = NoKey /\ x.revision = 0 /\ x.fresh = FALSE
  BY <1>1 DEF Idle
<1>3. x \in Op
  BY <1>1, IdleIsOp DEF Op, Kinds, Steps
<1>4. OpOK(x)
  BY <1>2 DEF OpOK, Staged
<1>5. Becomes(d, x)
  BY <1>1 DEF RecoverVault, Becomes
<1>6. InTime(x, kit[d], password)
  <2>1. 0 <= password.revision
    BY VaultKeysAssumption DEF KeysIInv, Shape, TypeOK
  <2> QED
    BY <1>2, <2>1 DEF InTime, Later, Proved
<1>7. typed \in shown /\ UNCHANGED <<server, device, opened>>
  BY DEF RecoverVault
<1>8. Proceeds(d, x) /\ SameKits(d, x)
  BY <1>2, <1>7 DEF Proceeds, SameKits, Renewing
<1> QED
  BY <1>3, <1>4, <1>5, <1>6, <1>7, <1>8, QuietKept

\* What the invariant says of one device.
LEMMA AtDevice ==
  ASSUME KeysIInv, NEW d \in Devices
  PROVE  /\ op[d] \in Op /\ OpOK(op[d]) /\ InTime(op[d], kit[d], password)
         /\ op[d].kit \in Kits \cup {NoKit} /\ op[d].key \in Keys \cup {NoKey}
         /\ op[d].revision \in Nat /\ password.revision \in Nat
         /\ op[d].revision <= password.revision
<1>1. op[d] \in Op /\ OpOK(op[d]) /\ InTime(op[d], kit[d], password)
  BY DEF KeysIInv, Shape, Timely
<1>2. /\ op[d].kit \in Kits \cup {NoKit} /\ op[d].key \in Keys \cup {NoKey}
      /\ op[d].revision \in 0 .. MaxRevision
  BY <1>1 DEF Op
<1>3. op[d].revision \in Nat /\ password.revision \in Nat
  BY <1>2, VaultKeysAssumption DEF KeysIInv, Shape, TypeOK
<1>4. op[d].revision <= password.revision
  BY <1>1 DEF InTime
<1> QED
  BY <1>1, <1>2, <1>3, <1>4

\* The password wrapper opens, or does not, or the vault counts as a legacy one.
LEMMA OpenPasswordKept ==
  ASSUME KeysIInv, NEW d \in Devices, OpenPassword(d)
  PROVE  Keeps
<1>0. password.revision <= password.revision
  <2>1. password.revision \in Nat
    BY AtDevice
  <2> QED
    BY <2>1
<1>1. /\ op[d].kind \in {"unlock", "change", "regenerate"} /\ op[d].step = "open"
      /\ UNCHANGED <<server, device, opened>>
  BY DEF OpenPassword, At
<1>2. PICK o \in Op : o = op[d]
  BY AtDevice
<1>3. /\ OpOK(o) /\ InTime(o, kit[d], password) /\ o.kit \in Kits
      /\ o.step = "open" /\ o.kind \in {"unlock", "change", "regenerate"}
      /\ o.pw \in Passwords /\ o.next \in Passwords /\ kit[d] # NoKit
  BY <1>1, <1>2, AtDevice DEF OpOK, InTime
<1>4. CASE /\ password.revision > 0
           /\ password.opens = o.pw
           /\ op' = [op EXCEPT ![d] = [o EXCEPT
                !.key = password.key, !.revision = password.revision, !.pw = "none",
                !.step = CASE o.kind = "unlock" -> "verify"
                           [] o.kind = "change" -> "put password"
                           [] o.kind = "regenerate" -> "new kit"]]
  <2>1. password.key \in Keys /\ password.revision \in 0 .. MaxRevision
    BY <1>4 DEF KeysIInv, Shape, TypeOK, WrapsOK
  <2>2. PICK step \in {"verify", "put password", "new kit"} :
           /\ step = CASE o.kind = "unlock" -> "verify"
                       [] o.kind = "change" -> "put password"
                       [] o.kind = "regenerate" -> "new kit"
           /\ step = "verify" <=> o.kind = "unlock"
           /\ step = "put password" <=> o.kind = "change"
           /\ step = "new kit" <=> o.kind = "regenerate"
    BY <1>3
  <2>3. PICK x : x = [o EXCEPT !.key = password.key, !.revision = password.revision,
                               !.pw = "none", !.step = step]
    OBVIOUS
  <2>4. /\ x.kind = o.kind /\ x.step = step /\ x.next = o.next /\ x.kit = o.kit
        /\ x.key = password.key /\ x.revision = password.revision /\ x.fresh = o.fresh
    BY <2>3 DEF Op
  <2>5. x \in Op
    BY <2>1, <2>2, <2>3 DEF Op, Steps
  <2>6. OpOK(x)
    BY <1>3, <2>1, <2>2, <2>4 DEF OpOK, Staged
  <2>7. Becomes(d, x)
    BY <1>4, <2>2, <2>3 DEF Becomes
  <2>8. InTime(x, kit[d], password)
    <3>1. x.revision <= password.revision
      <4>1. x.revision = password.revision
        BY <2>4
      <4> QED
        BY <1>0, <4>1
    <3>2. Proved(x) => password.opens = x.next
      BY <1>3, <1>4, <2>2, <2>4 DEF Proved, OpOK
    <3> QED
      BY <1>3, <1>4, <3>1, <3>2 DEF InTime
  <2>9. Proceeds(d, x) /\ SameKits(d, x)
    BY <1>2, <1>3, <1>4, <2>2, <2>4 DEF Proceeds, SameKits, Renewing
  <2> QED
    BY <1>1, <2>5, <2>6, <2>7, <2>8, <2>9, QuietKept
<1>5. CASE End(d)
  BY <1>1, <1>5, EndKept
<1>6. CASE /\ password.revision = 0
           /\ op' = [op EXCEPT ![d] = [o EXCEPT
                !.key = LegacyKey(o.pw), !.fresh = TRUE, !.next = o.pw,
                !.pw = "none", !.step = "put password"]]
  <2>1. ~(password.revision > 0)
    BY <1>6
  <2>2. o.kind # "change"
    BY <1>3, <2>1 DEF InTime
  <2>3. PICK key \in Keys : key = LegacyKey(o.pw) /\ key = Derived(o.pw)
    BY <1>3, KeyFacts DEF LegacyKey
  <2>4. PICK x : x = [o EXCEPT !.key = key, !.fresh = TRUE, !.next = o.pw,
                               !.pw = "none", !.step = "put password"]
    OBVIOUS
  <2>5. /\ x.kind = o.kind /\ x.step = "put password" /\ x.next = o.pw /\ x.kit = o.kit
        /\ x.key = key /\ x.revision = o.revision /\ x.fresh = TRUE
    BY <2>4 DEF Op
  <2>6. x \in Op
    BY <1>3, <2>4 DEF Op, Steps
  <2>7. OpOK(x)
    BY <1>3, <2>2, <2>5 DEF OpOK, Staged
  <2>8. Becomes(d, x)
    BY <1>6, <2>3, <2>4 DEF Becomes
  <2>9. InTime(x, kit[d], password)
    <3>1. x.revision <= password.revision
      BY <1>2, <2>5, AtDevice
    <3> QED
      BY <1>3, <2>5, <3>1 DEF InTime, Proved, Later
  <2>10. Proceeds(d, x) /\ SameKits(d, x)
    BY <1>2, <1>3, <1>6, <2>3, <2>5 DEF Proceeds, SameKits, Renewing
  <2> QED
    BY <1>1, <2>6, <2>7, <2>8, <2>9, <2>10, QuietKept
<1> QED
  BY <1>2, <1>4, <1>5, <1>6 DEF OpenPassword

\* The probe of the password wrapper only reads a revision.
LEMMA ReadPasswordKept ==
  ASSUME KeysIInv, NEW d \in Devices, ReadPassword(d)
  PROVE  Keeps
<1>1. op[d].step = "read password" /\ UNCHANGED <<server, device, opened>>
  BY DEF ReadPassword
<1>2. PICK o \in Op : o = op[d]
  BY AtDevice
<1>3. /\ OpOK(o) /\ InTime(o, kit[d], password) /\ o.step = "read password"
  BY <1>1, <1>2, AtDevice
<1>4. PICK found \in {password.revision, 0} :
        op' = [op EXCEPT ![d].step = "put password", ![d].revision = found]
  BY DEF ReadPassword
<1>5. found \in 0 .. MaxRevision /\ found <= password.revision
  <2>1. password.revision \in 0 .. MaxRevision
    BY DEF KeysIInv, Shape, TypeOK
  <2> QED
    BY <2>1, VaultKeysAssumption
<1>6. PICK x : x = [o EXCEPT !.step = "put password", !.revision = found]
  OBVIOUS
<1>7. /\ x.kind = o.kind /\ x.step = "put password" /\ x.next = o.next /\ x.kit = o.kit
      /\ x.key = o.key /\ x.revision = found /\ x.fresh = o.fresh
      /\ x.again = o.again
  BY <1>6 DEF Op
<1>8. x \in Op
  BY <1>5, <1>6 DEF Op, Steps
<1>9. OpOK(x)
  BY <1>3, <1>7 DEF OpOK, Staged
<1>10. Becomes(d, x)
  BY <1>2, <1>4, <1>6, <1>8 DEF Becomes, KeysIInv, Shape
<1>11. ~Proved(x) /\ ~Renewing(x)
  BY <1>3, <1>7 DEF Proved, OpOK, Renewing
<1>12. InTime(x, kit[d], password)
  BY <1>3, <1>5, <1>7, <1>11 DEF InTime, Later
<1>13. Proceeds(d, x) /\ SameKits(d, x)
  BY <1>2, <1>3, <1>7, <1>11 DEF Proceeds, SameKits
<1> QED
  BY <1>1, <1>8, <1>9, <1>10, <1>12, <1>13, QuietKept

\* The probe of the recovery wrapper.
LEMMA ReadRecoveryKept ==
  ASSUME KeysIInv, NEW d \in Devices, ReadRecovery(d)
  PROVE  Keeps
<1>1. op[d].step = "read recovery" /\ UNCHANGED <<server, device, opened>>
  BY DEF ReadRecovery
<1>2. PICK o \in Op : o = op[d]
  BY AtDevice
<1>3. /\ OpOK(o) /\ InTime(o, kit[d], password) /\ o.step = "read recovery"
  BY <1>1, <1>2, AtDevice
<1>4. PICK found \in {recovery[op[d].kit].revision, 0} :
        op' = [op EXCEPT ![d].step = "put recovery", ![d].expected = found]
  BY DEF ReadRecovery
<1>5. found \in 0 .. MaxRevision
  <2>1. o.kit \in Kits
    BY <1>3 DEF OpOK, Staged
  <2>2. recovery[o.kit].revision \in 0 .. MaxRevision
    BY <2>1 DEF KeysIInv, Shape, TypeOK
  <2> QED
    BY <1>2, <2>2, VaultKeysAssumption
<1>6. PICK x : x = [o EXCEPT !.step = "put recovery", !.expected = found]
  OBVIOUS
<1>7. /\ x.kind = o.kind /\ x.step = "put recovery" /\ x.next = o.next /\ x.kit = o.kit
      /\ x.key = o.key /\ x.revision = o.revision /\ x.fresh = o.fresh
  BY <1>6 DEF Op
<1>8. x \in Op
  BY <1>5, <1>6 DEF Op, Steps
<1>9. OpOK(x)
  BY <1>3, <1>7 DEF OpOK, Staged
<1>10. Becomes(d, x)
  BY <1>2, <1>4, <1>6, <1>8 DEF Becomes, KeysIInv, Shape
<1>11. InTime(x, kit[d], password)
  BY <1>3, <1>7 DEF InTime, Later, Proved
<1>12. Proceeds(d, x) /\ SameKits(d, x)
  BY <1>2, <1>3, <1>7 DEF Proceeds, SameKits, OpOK, Staged, Renewing
<1> QED
  BY <1>1, <1>8, <1>9, <1>10, <1>11, <1>12, QuietKept

\* A regeneration of a legacy vault has written the wrappers and goes on.
LEMMA LegacyReopenedKept ==
  ASSUME KeysIInv, NEW d \in Devices, LegacyReopened(d)
  PROVE  Keeps
<1>1. /\ op[d].kind = "regenerate" /\ op[d].step = "verify"
      /\ UNCHANGED <<server, device, opened>>
  BY DEF LegacyReopened, At
<1>2. PICK o \in Op : o = op[d]
  BY AtDevice
<1>3. /\ OpOK(o) /\ InTime(o, kit[d], password) /\ o.kind = "regenerate" /\ o.step = "verify"
  BY <1>1, <1>2, AtDevice
<1>4. PICK x : x = [o EXCEPT !.step = "new kit", !.fresh = FALSE]
  OBVIOUS
<1>5. /\ x.kind = o.kind /\ x.step = "new kit" /\ x.next = o.next /\ x.kit = o.kit
      /\ x.key = o.key /\ x.revision = o.revision /\ x.fresh = FALSE
  BY <1>4 DEF Op
<1>6. x \in Op
  BY <1>4 DEF Op, Steps
<1>7. OpOK(x)
  BY <1>3, <1>5 DEF OpOK, Staged
<1>8. Becomes(d, x)
  BY <1>2, <1>4 DEF Becomes, LegacyReopened
<1>9. InTime(x, kit[d], password)
  BY <1>3, <1>5 DEF InTime, Later, Proved
<1>10. Proceeds(d, x) /\ SameKits(d, x)
  BY <1>2, <1>3, <1>5 DEF Proceeds, SameKits, Renewing
<1> QED
  BY <1>1, <1>6, <1>7, <1>8, <1>9, <1>10, QuietKept

\* The probe of the wrapper to revoke: its regeneration keeps the kit it drew.
LEMMA ReadOldKept ==
  ASSUME KeysIInv, NEW d \in Devices, ReadOldRecovery(d)
  PROVE  Keeps
<1>1. /\ op[d].kind = "regenerate" /\ op[d].step = "read old"
      /\ UNCHANGED <<server, device, opened>>
  BY DEF ReadOldRecovery, At
<1>2. PICK o \in Op : o = op[d]
  BY AtDevice
<1>3. /\ OpOK(o) /\ InTime(o, kit[d], password) /\ o.kind = "regenerate" /\ o.step = "read old"
  BY <1>1, <1>2, AtDevice
<1>4. CASE End(d)
  BY <1>1, <1>4, EndKept
<1>5. CASE /\ recovery[op[d].kit].revision # 0
           /\ op' = [op EXCEPT ![d].step = "delete old",
                               ![d].expected = recovery[op[d].kit].revision]
  <2>1. PICK found \in 0 .. MaxRevision : found = recovery[o.kit].revision /\ found # 0
    <3>1. o.kit \in Kits
      BY <1>3 DEF OpOK, Staged
    <3> QED
      BY <1>2, <1>5, <3>1 DEF KeysIInv, Shape, TypeOK
  <2>2. PICK x : x = [o EXCEPT !.step = "delete old", !.expected = found]
    OBVIOUS
  <2>3. /\ x.kind = o.kind /\ x.step = "delete old" /\ x.next = o.next /\ x.kit = o.kit
        /\ x.key = o.key /\ x.revision = o.revision /\ x.expected = found
    BY <2>2 DEF Op
  <2>4. x \in Op
    BY <2>1, <2>2 DEF Op, Steps
  <2>5. OpOK(x)
    BY <1>3, <2>1, <2>3 DEF OpOK, Staged
  <2>6. Becomes(d, x)
    BY <1>2, <1>5, <2>1, <2>2, <2>4 DEF Becomes, KeysIInv, Shape
  <2>7. InTime(x, kit[d], password)
    BY <1>3, <2>3 DEF InTime, Later, Proved
  <2>8. Proceeds(d, x) /\ SameKits(d, x)
    BY <1>2, <1>3, <2>3 DEF Proceeds, SameKits, Renewing
  <2> QED
    BY <1>1, <2>4, <2>5, <2>6, <2>7, <2>8, QuietKept
<1> QED
  BY <1>4, <1>5 DEF ReadOldRecovery

\* A request that fails ends its ceremony and writes nothing.
LEMMA FailKept ==
  ASSUME KeysIInv, NEW d \in Devices, Fail(d)
  PROVE  Keeps
BY EndKept DEF Fail

-----------------------------------------------------------------------------
(* Steps that write nothing to the service and change what a device has.   *)

\* The kit and the metadata of one device change.
LEMMA LocalKept ==
  ASSUME KeysIInv, NEW d \in Devices, NEW x \in Op, OpOK(x), Becomes(d, x),
         UNCHANGED server,
         kit' \in [Devices -> Kits \cup {NoKit}], stored' \in [Devices -> Kits \cup {NoKit}],
         shown' \subseteq Kits, opened' \subseteq Keys,
         \A e \in Devices : e # d => kit'[e] = kit[e] /\ stored'[e] = stored[e],
         (kit'[d] = NoKit) <=> (stored'[d] = NoKit),
         kit[d] # NoKit => kit'[d] # NoKit,
         opened' # {} => password.revision > 0,
         InTime(x, kit'[d], password),
         \A e \in Devices : (e # d /\ Renewing(op[e])) =>
           kit[e] \notin {kit'[d], stored'[d], x.kit} \cup shown',
         Renewing(x) =>
           /\ kit'[d] \in Kits /\ kit'[d] \notin {stored'[d], x.kit} \cup shown'
           /\ \A e \in Devices \ {d} : kit'[d] \notin {kit[e], stored[e], op[e].kit}
           /\ x.step # "put new" => Live(kit[d])'
  PROVE  KeysIInv'
<1>1. UNCHANGED <<verifier, password, recovery>>
  BY DEF server
<1>2. op' \in [Devices -> Op] /\ \A e \in Devices : OpOK(op[e])'
  BY Advance DEF KeysIInv, Shape
<1>3. TypeOK'
  <2>1. \A e \in Devices : op'[e].step \in Steps /\ op'[e].kit \in Kits \cup {NoKit}
    BY <1>2 DEF Op
  <2> QED
    BY <1>1, <2>1 DEF KeysIInv, Shape, TypeOK, NoRecovery, NoKey
<1>4. Shape'
  <2>1. \A e \in Devices : (kit'[e] = NoKit) <=> (stored'[e] = NoKit)
    BY DEF KeysIInv, Shape
  <2> QED
    BY <1>1, <1>2, <1>3, <2>1 DEF KeysIInv, Shape, WrapsOK
<1>5. Timely'
  <2>1. password' = password
    BY <1>1
  <2>2. InTime(x, kit'[d], password') /\ (opened' # {} => password'.revision > 0)
    BY <2>1
  <2> QED
    BY <1>3, <2>1, <2>2, TimelyKept DEF KeysIInv
<1>6. Private'
  <2>1. ASSUME NEW e \in Devices, e # d, Renewing(op[e])
        PROVE  /\ kit[e] \notin {kit'[d], stored'[d], x.kit} \cup shown'
               /\ Live(kit[e]) => Live(kit[e])'
    BY <1>1, <2>1 DEF Live
  <2> QED
    BY <2>1, PrivateKept DEF KeysIInv
<1> QED
  BY <1>4, <1>5, <1>6 DEF KeysIInv

\* A ceremony ends; the device adopts kits of its own or shows its kit.
LEMMA EndLocal ==
  ASSUME KeysIInv, NEW d \in Devices, End(d), UNCHANGED server,
         kit' \in [Devices -> Kits \cup {NoKit}], stored' \in [Devices -> Kits \cup {NoKit}],
         \A e \in Devices : e # d => kit'[e] = kit[e] /\ stored'[e] = stored[e],
         {kit'[d], stored'[d]} \subseteq {kit[d], stored[d]},
         shown' \subseteq (shown \cup {kit[d]}) \cap Kits,
         opened' \subseteq Keys, opened' # {} => password.revision > 0
  PROVE  /\ KeysIInv'
         /\ (~Mistyping /\ Faithful /\ OpensSafely) => Faithful'
<1>1. PICK x : x = Idle
  OBVIOUS
<1>2. x \in Op /\ OpOK(x)
  BY <1>1, IdleIsOp
<1>3. Becomes(d, x)
  BY <1>1 DEF End, Becomes
<1>4. /\ x.kind = "none" /\ x.step = "none" /\ x.key = NoKey /\ x.kit = NoKit
      /\ x.revision = 0
  BY <1>1 DEF Idle
<1>5. ~Renewing(x) /\ Proceeds(d, x)
  BY <1>4 DEF Renewing, Proceeds
<1>6. InTime(x, kit'[d], password)
  <2>1. 0 <= password.revision
    BY VaultKeysAssumption DEF KeysIInv, Shape, TypeOK
  <2> QED
    BY <1>4, <2>1 DEF InTime, Later, Proved
<1>7. (kit[d] = NoKit) <=> (stored[d] = NoKit)
  BY DEF KeysIInv, Shape
<1>8. /\ (kit'[d] = NoKit) <=> (stored'[d] = NoKit)
      /\ (kit[d] = NoKit) <=> (kit'[d] = NoKit)
  BY <1>7
<1>9. \A e \in Devices : (e # d /\ Renewing(op[e])) =>
           kit[e] \notin {kit'[d], stored'[d], x.kit} \cup shown'
  <2> SUFFICES ASSUME NEW e \in Devices, e # d, Renewing(op[e])
               PROVE  kit[e] \notin {kit'[d], stored'[d], x.kit} \cup shown'
    OBVIOUS
  <2>1. kit[e] \in Kits /\ kit[e] \notin {kit[d], stored[d], op[d].kit, NoKit} \cup shown
    BY KitsOfOthers DEF KeysIInv
  <2> QED
    BY <1>4, <2>1
<1>10. KeysIInv'
  BY <1>2, <1>3, <1>5, <1>6, <1>8, <1>9, LocalKept
<1>11. (~Mistyping /\ Faithful /\ OpensSafely) => Faithful'
  <2>1. Shape /\ (kit'[d] # NoKit => kit[d] # NoKit)
    BY <1>8 DEF KeysIInv
  <2> QED
    BY <1>2, <1>3, <1>5, <2>1, FaithfulKept
<1> QED
  BY <1>10, <1>11

\* The page is reloaded.
LEMMA ReloadKept ==
  ASSUME KeysIInv, NEW d \in Devices, Reload(d)
  PROVE  Keeps
<1>1. /\ kit \in [Devices -> Kits \cup {NoKit}] /\ stored \in [Devices -> Kits \cup {NoKit}]
      /\ shown \subseteq Kits /\ opened \subseteq Keys /\ (opened # {} => password.revision > 0)
  BY DEF KeysIInv, Shape, TypeOK, Timely
<1>2. /\ kit' = [kit EXCEPT ![d] = stored[d]] /\ stored' = stored /\ shown' = shown
      /\ opened' = opened /\ End(d) /\ UNCHANGED server
  BY DEF Reload
<1>3. /\ kit' \in [Devices -> Kits \cup {NoKit}] /\ kit'[d] = stored[d]
      /\ \A e \in Devices : e # d => kit'[e] = kit[e]
  BY <1>1, <1>2
<1>4. OpensSafely
  BY <1>2, OpensNothing
<1>5. KeysIInv' /\ ((~Mistyping /\ Faithful /\ OpensSafely) => Faithful')
  BY <1>1, <1>2, <1>3, EndLocal
<1> QED
  BY <1>4, <1>5 DEF Keeps

\* A session opens with the key its ceremony holds, which in a young vault is
\* not proved.
LEMMA OpenSafe ==
  ASSUME KeysIInv, NEW d \in Devices, OpenSession(d), op[d].key \in Keys, password.revision > 0
  PROVE  OpensSafely
<1>1. op[d].key # NoKey /\ password.revision # 0
  BY KeyFacts, Positive
<1>2. Young => opened' = {}
  <2>1. Young => opened = {} /\ verifier # NoKey /\ op[d].key # verifier
    BY <1>1 DEF Young
  <2> QED
    BY <2>1 DEF OpenSession, Proves
<1>3. \A t \in Keys : OneKey(t) => opened' \subseteq {t}
  BY <1>1 DEF OneKey, OpenSession
<1> QED
  BY <1>2, <1>3 DEF OpensSafely

\* An unlock or a creation proves its key and reports.
LEMMA VerifyKept ==
  ASSUME KeysIInv, NEW d \in Devices, Verify(d)
  PROVE  Keeps
<1>1. /\ kit \in [Devices -> Kits \cup {NoKit}] /\ stored \in [Devices -> Kits \cup {NoKit}]
      /\ shown \subseteq Kits /\ opened \subseteq Keys
  BY DEF KeysIInv, Shape, TypeOK
<1>2. op[d].step = "verify" /\ End(d) /\ UNCHANGED <<server, kit, stored>>
  BY DEF Verify, At
<1>3. /\ op[d].key \in Keys /\ kit[d] \in Kits /\ password.revision > 0
  BY <1>1, <1>2, AtDevice DEF OpOK, InTime, Later
<1>4. shown' \subseteq (shown \cup {kit[d]}) \cap Kits
  BY <1>1, <1>3 DEF Verify
<1>5. opened' \subseteq Keys
  BY <1>1, <1>3 DEF Verify, OpenSession
<1>6. OpensSafely
  BY <1>2, <1>3, OpenSafe DEF Verify
<1>7. KeysIInv' /\ ((~Mistyping /\ Faithful /\ OpensSafely) => Faithful')
  BY <1>1, <1>2, <1>3, <1>4, <1>5, EndLocal
<1> QED
  BY <1>6, <1>7 DEF Keeps

\* A regeneration stores and shows the kit it drew.
LEMMA ShowKitKept ==
  ASSUME KeysIInv, NEW d \in Devices, ShowKit(d)
  PROVE  Keeps
<1>1. /\ kit \in [Devices -> Kits \cup {NoKit}] /\ stored \in [Devices -> Kits \cup {NoKit}]
      /\ shown \subseteq Kits /\ opened \subseteq Keys /\ (opened # {} => password.revision > 0)
  BY DEF KeysIInv, Shape, TypeOK, Timely
<1>2. /\ op[d].step = "show kit" /\ End(d) /\ UNCHANGED server /\ kit' = kit /\ opened' = opened
      /\ stored' = [stored EXCEPT ![d] = kit[d]] /\ shown' = shown \cup {kit[d]}
  BY DEF ShowKit, At
<1>3. kit[d] \in Kits
  BY <1>1, <1>2, AtDevice DEF InTime
<1>4. /\ stored' \in [Devices -> Kits \cup {NoKit}] /\ stored'[d] = kit[d]
      /\ \A e \in Devices : e # d => stored'[e] = stored[e]
  BY <1>1, <1>2
<1>5. OpensSafely
  BY <1>2, OpensNothing
<1>6. KeysIInv' /\ ((~Mistyping /\ Faithful /\ OpensSafely) => Faithful')
  BY <1>1, <1>2, <1>3, <1>4, EndLocal
<1> QED
  BY <1>5, <1>6 DEF Keeps

\* A recovery reports success with the key of the wrapper its kit opened.
LEMMA RecoveredKept ==
  ASSUME KeysIInv, NEW d \in Devices, Recovered(d)
  PROVE  Keeps
<1>1. /\ kit \in [Devices -> Kits \cup {NoKit}] /\ stored \in [Devices -> Kits \cup {NoKit}]
      /\ shown \subseteq Kits /\ opened \subseteq Keys
  BY DEF KeysIInv, Shape, TypeOK
<1>2. /\ op[d].kind = "recover" /\ op[d].step = "recovered" /\ OpenSession(d) /\ End(d)
      /\ UNCHANGED <<server, device>>
  BY DEF Recovered, At
<1>3. kit' = kit /\ stored' = stored /\ shown' = shown /\ UNCHANGED server
  BY <1>2 DEF device
<1>4. password.revision > 0 /\ op[d].key \in Keys
  BY <1>2, AtDevice DEF OpOK, InTime, Later
<1>5. OpensSafely
  BY <1>2, <1>4, OpenSafe
<1>6. opened' \subseteq Keys
  BY <1>1, <1>2, <1>4 DEF OpenSession
<1>7. KeysIInv' /\ ((~Mistyping /\ Faithful /\ OpensSafely) => Faithful')
  BY <1>1, <1>2, <1>3, <1>4, <1>6, EndLocal
<1> QED
  BY <1>5, <1>7 DEF Keeps

\* A regeneration draws a kit that nobody has.
LEMMA NewKitKept ==
  ASSUME KeysIInv, NEW d \in Devices, NEW new \in Kits, NewKit(d, new)
  PROVE  Keeps
<1>1. /\ kit \in [Devices -> Kits \cup {NoKit}] /\ stored \in [Devices -> Kits \cup {NoKit}]
      /\ shown \subseteq Kits /\ opened \subseteq Keys /\ (opened # {} => password.revision > 0)
  BY DEF KeysIInv, Shape, TypeOK, Timely
<1>2. /\ op[d].kind = "regenerate" /\ op[d].step = "new kit" /\ Undrawn(new)
      /\ kit' = [kit EXCEPT ![d] = new] /\ Goto(d, "put new")
      /\ UNCHANGED server /\ stored' = stored /\ shown' = shown /\ opened' = opened
  BY DEF NewKit, At
<1>3. PICK o \in Op : o = op[d]
  BY AtDevice
<1>4. /\ OpOK(o) /\ InTime(o, kit[d], password) /\ o.kind = "regenerate" /\ o.step = "new kit"
  BY <1>2, <1>3, AtDevice
<1>5. PICK x : x = [o EXCEPT !.step = "put new"]
  OBVIOUS
<1>6. /\ x.kind = o.kind /\ x.step = "put new" /\ x.next = o.next /\ x.kit = o.kit
      /\ x.key = o.key /\ x.revision = o.revision /\ x.fresh = o.fresh
  BY <1>5 DEF Op
<1>7. x \in Op
  BY <1>5 DEF Op, Steps
<1>8. OpOK(x)
  BY <1>4, <1>6 DEF OpOK, Staged
<1>9. Becomes(d, x)
  BY <1>2, <1>3, <1>5 DEF Becomes, Goto
<1>10. new # NoKit
  BY VaultKeysAssumption
<1>11. InTime(x, new, password)
  BY <1>4, <1>6, <1>10 DEF InTime, Later, Proved
<1>12. Proceeds(d, x)
  BY <1>3, <1>4, <1>6 DEF Proceeds
<1>13. /\ kit' \in [Devices -> Kits \cup {NoKit}] /\ kit'[d] = new
       /\ \A e \in Devices : e # d => kit'[e] = kit[e]
  BY <1>1, <1>2
<1>14. kit[d] # NoKit /\ stored[d] # NoKit
  <2>1. kit[d] # NoKit
    BY <1>4 DEF InTime
  <2> QED
    BY <2>1 DEF KeysIInv, Shape
<1>15. /\ new \notin shown
       /\ \A e \in Devices : new \notin {kit[e], stored[e], op[e].kit}
  BY <1>2 DEF Undrawn
<1>16. KeysIInv'
  <2>1. ASSUME NEW e \in Devices, e # d, Renewing(op[e])
        PROVE  kit[e] \notin {kit'[d], stored'[d], x.kit} \cup shown'
    <3>1. kit[e] \in Kits /\ kit[e] \notin {kit[d], stored[d], op[d].kit, NoKit} \cup shown
      BY <2>1, KitsOfOthers DEF KeysIInv
    <3> QED
      BY <1>2, <1>3, <1>6, <1>13, <1>15, <3>1
  <2>2. /\ kit'[d] \in Kits /\ kit'[d] \notin {stored'[d], x.kit} \cup shown'
        /\ \A e \in Devices \ {d} : kit'[d] \notin {kit[e], stored[e], op[e].kit}
        /\ x.step = "put new"
    BY <1>2, <1>3, <1>6, <1>13, <1>15
  <2>3. /\ (kit'[d] = NoKit) <=> (stored'[d] = NoKit)
        /\ kit[d] # NoKit => kit'[d] # NoKit
        /\ InTime(x, kit'[d], password)
        /\ stored' \in [Devices -> Kits \cup {NoKit}]
        /\ shown' \subseteq Kits /\ opened' \subseteq Keys
        /\ opened' # {} => password.revision > 0
        /\ \A e \in Devices : e # d => stored'[e] = stored[e]
    BY <1>1, <1>2, <1>10, <1>11, <1>13, <1>14
  <2> QED
    BY <1>2, <1>7, <1>8, <1>9, <1>13, <2>1, <2>2, <2>3, LocalKept
<1>17. (~Mistyping /\ Faithful) => Faithful'
  <2>1. OpensSafely
    BY <1>2, OpensNothing
  <2>2. Shape
    BY DEF KeysIInv
  <2> QED
    BY <1>2, <1>7, <1>8, <1>9, <1>12, <1>13, <1>14, <2>1, <2>2, FaithfulKept
<1> QED
  BY <1>16, <1>17 DEF Keeps

\* Once the vault has its verifier and its password wrapper only the vault's
\* key moves between ceremonies.
LEMMA SecureKept ==
  ASSUME Shape, ~Mistyping, Faithful, NEW t \in Keys, OneKey(t),
         NEW d \in Devices, NEW x \in Op, OpOK(x), Becomes(d, x), UNCHANGED server,
         opened' = opened,
         x.key # NoKey => x.key = t, x.step \notin {"open", "put verifier"}
  PROVE  Faithful'
<1>1. op'[d] = x /\ \A e \in Devices : e # d => op'[e] = op[e]
  BY Advance DEF Shape
<1>2. verifier' = verifier /\ password' = password /\ recovery' = recovery
  BY DEF server
<1>3. LegacyVault' = LegacyVault
  BY <1>2 DEF LegacyVault
<1>4. \A e \in Devices : (op'[e].step = "open" /\ LegacyVault /\ password.revision = 0)
                          => Derived(op'[e].pw) = verifier
  BY <1>1 DEF Faithful, Honest
<1>5. /\ \A e \in Devices : op'[e].key # NoKey => op'[e].key = t
      /\ \A e \in Devices : op'[e].step = "put verifier" => verifier # NoKey
  BY <1>1 DEF OneKey
<1>6. Honest'
  BY <1>2, <1>3, <1>4 DEF Honest, Derived
<1>7. OneKey(t)'
  BY <1>2, <1>3, <1>5 DEF OneKey, Proves, NoKey
<1>8. Secure'
  BY <1>7 DEF Secure, Keys, Derived, VaultKey
<1> QED
  BY <1>6, <1>8 DEF Faithful

\* A typed kit opens its wrapper and the device adopts the vault, or is refused.
LEMMA OpenKitKept ==
  ASSUME KeysIInv, NEW d \in Devices, OpenKit(d)
  PROVE  Keeps
<1>1. /\ kit \in [Devices -> Kits \cup {NoKit}] /\ stored \in [Devices -> Kits \cup {NoKit}]
      /\ shown \subseteq Kits /\ opened \subseteq Keys /\ (opened # {} => password.revision > 0)
  BY DEF KeysIInv, Shape, TypeOK, Timely
<1>2. /\ op[d].kind = "recover" /\ op[d].step = "open kit"
      /\ UNCHANGED server /\ shown' = shown /\ opened' = opened
  BY DEF OpenKit, At
<1>3. PICK o \in Op : o = op[d]
  BY AtDevice
<1>4. /\ OpOK(o) /\ InTime(o, kit[d], password) /\ o.kind = "recover" /\ o.step = "open kit"
  BY <1>2, <1>3, AtDevice
<1>5. PICK k \in Kits : k = o.kit
  BY <1>4 DEF OpOK
<1>6. CASE End(d) /\ UNCHANGED <<kit, stored>>
  BY <1>2, <1>6, EndKept DEF device
<1>7. CASE /\ recovery[k].revision > 0 /\ Proves(recovery[k].key)
           /\ op' = [op EXCEPT ![d].step = "read password", ![d].key = recovery[k].key]
           /\ kit' = [kit EXCEPT ![d] = k]
           /\ stored' = [stored EXCEPT ![d] = k]
  <2>1. PICK key \in Keys : key = recovery[k].key /\ Proves(key)
    BY <1>7 DEF KeysIInv, Shape, WrapsOK
  <2>2. PICK x : x = [o EXCEPT !.step = "read password", !.key = key]
    OBVIOUS
  <2>3. /\ x.kind = o.kind /\ x.step = "read password" /\ x.next = o.next /\ x.kit = o.kit
        /\ x.key = key /\ x.revision = o.revision /\ x.fresh = o.fresh
    BY <2>2 DEF Op
  <2>4. x \in Op
    BY <2>2 DEF Op, Steps
  <2>5. OpOK(x)
    BY <1>4, <2>3 DEF OpOK, Staged
  <2>6. Becomes(d, x)
    BY <1>3, <1>7, <2>1, <2>2, <2>4 DEF Becomes, KeysIInv, Shape
  <2>7. k # NoKit
    BY VaultKeysAssumption
  <2>8. InTime(x, k, password) /\ ~Renewing(x)
    BY <1>4, <2>3, <2>7 DEF InTime, Later, Proved, Renewing
  <2>9. /\ kit' \in [Devices -> Kits \cup {NoKit}] /\ kit'[d] = k
        /\ stored' \in [Devices -> Kits \cup {NoKit}] /\ stored'[d] = k
        /\ \A e \in Devices : e # d => kit'[e] = kit[e] /\ stored'[e] = stored[e]
    BY <1>1, <1>7
  <2>10. KeysIInv'
    <3>1. ASSUME NEW e \in Devices, e # d, Renewing(op[e])
          PROVE  kit[e] \notin {kit'[d], stored'[d], x.kit} \cup shown'
      <4>1. kit[e] \notin {op[d].kit} \cup shown
        BY <3>1, KitsOfOthers DEF KeysIInv
      <4> QED
        BY <1>2, <1>3, <1>5, <2>3, <2>9, <4>1
    <3>2. /\ (kit'[d] = NoKit) <=> (stored'[d] = NoKit)
          /\ kit[d] # NoKit => kit'[d] # NoKit
          /\ InTime(x, kit'[d], password)
          /\ shown' \subseteq Kits /\ opened' \subseteq Keys
          /\ opened' # {} => password.revision > 0
      BY <1>1, <1>2, <2>7, <2>8, <2>9
    <3> QED
      BY <1>2, <2>4, <2>5, <2>6, <2>8, <2>9, <3>1, <3>2, LocalKept
  <2>11. (~Mistyping /\ Faithful) => Faithful'
    <3>1. ~Young
      <4>1. recovery[k].revision > 0 /\ Proves(recovery[k].key)
        BY <1>7
      <4>2. recovery[k].revision # 0
        BY <4>1, Positive
      <4> QED
        BY <4>1, <4>2 DEF Young, Proves
    <3> SUFFICES ASSUME ~Mistyping, Faithful
                 PROVE  Faithful'
      OBVIOUS
    <3>2. PICK t \in Keys : OneKey(t)
      BY <3>1, SecureCase DEF Faithful
    <3>3. x.key = t /\ x.step \notin {"open", "put verifier"}
      BY <1>7, <2>1, <2>3, <3>2 DEF OneKey
    <3>4. Shape
      BY DEF KeysIInv
    <3> QED
      BY <1>2, <2>4, <2>5, <2>6, <3>2, <3>3, <3>4, SecureKept
  <2> QED
    BY <2>10, <2>11 DEF Keeps
<1> QED
  BY <1>3, <1>5, <1>6, <1>7 DEF OpenKit

\* A device that had nothing creates a vault where there was none.
LEMMA CreateKept ==
  ASSUME KeysIInv, NEW d \in Devices, NEW pw \in Passwords, Create(d, pw)
  PROVE  Keeps
<1>1. /\ kit \in [Devices -> Kits \cup {NoKit}] /\ stored \in [Devices -> Kits \cup {NoKit}]
      /\ shown \subseteq Kits /\ opened \subseteq Keys /\ (opened # {} => password.revision > 0)
  BY DEF KeysIInv, Shape, TypeOK, Timely
<1>2. /\ verifier = NoKey /\ UNCHANGED server /\ shown' = shown /\ opened' = opened
      /\ \A e \in Devices : kit[e] = NoKit
      /\ kit' = [kit EXCEPT ![d] = FirstKit]
      /\ stored' = [stored EXCEPT ![d] = FirstKit]
  BY DEF Create
<1>3. password.revision = 0 /\ ~(password.revision > 0)
  <2>1. password.revision = 0
    BY <1>2 DEF KeysIInv, Timely
  <2> QED
    BY <2>1
<1>4. PICK x : x = [Idle EXCEPT !.kind = "create", !.step = "put verifier",
                                !.next = pw, !.key = VaultKey, !.kit = FirstKit,
                                !.fresh = TRUE]
  OBVIOUS
<1>5. /\ x.kind = "create" /\ x.step = "put verifier" /\ x.next = pw /\ x.kit = FirstKit
      /\ x.key = VaultKey /\ x.revision = 0 /\ x.fresh = TRUE
  BY <1>4 DEF Idle
<1>6. x \in Op
  BY <1>4, IdleIsOp, VaultKeysAssumption, KeyFacts DEF Op, Kinds, Steps
<1>7. OpOK(x)
  BY <1>5, VaultKeysAssumption, KeyFacts DEF OpOK, Staged
<1>8. Becomes(d, x)
  BY <1>4 DEF Create, Becomes
<1>9. FirstKit \in Kits /\ FirstKit # NoKit
  BY VaultKeysAssumption
<1>10. /\ kit' \in [Devices -> Kits \cup {NoKit}] /\ kit'[d] = FirstKit
       /\ stored' \in [Devices -> Kits \cup {NoKit}] /\ stored'[d] = FirstKit
       /\ \A e \in Devices : e # d => kit'[e] = kit[e] /\ stored'[e] = stored[e]
  BY <1>1, <1>2, <1>9
<1>11. InTime(x, FirstKit, password) /\ ~Renewing(x)
  <2>1. x.revision <= password.revision
    <3>1. 0 <= password.revision
      BY <1>3
    <3> QED
      BY <1>5, <3>1
  <2> QED
    BY <1>5, <1>9, <2>1 DEF InTime, Later, Proved, Renewing
<1>12. KeysIInv'
  <2>1. ASSUME NEW e \in Devices, e # d, Renewing(op[e])
        PROVE  kit[e] \notin {kit'[d], stored'[d], x.kit} \cup shown'
    <3>1. kit[e] \in Kits
      BY <2>1, KitsOfOthers DEF KeysIInv
    <3> QED
      BY <1>2, <3>1, VaultKeysAssumption
  <2>2. /\ (kit'[d] = NoKit) <=> (stored'[d] = NoKit)
        /\ kit[d] # NoKit => kit'[d] # NoKit
        /\ InTime(x, kit'[d], password)
        /\ shown' \subseteq Kits /\ opened' \subseteq Keys
        /\ opened' # {} => password.revision > 0
    BY <1>1, <1>2, <1>9, <1>10, <1>11
  <2> QED
    BY <1>2, <1>6, <1>7, <1>8, <1>10, <1>11, <2>1, <2>2, LocalKept
<1>13. Faithful => Faithful'
  <2> SUFFICES ASSUME Faithful
               PROVE  Faithful'
    OBVIOUS
  <2>1. op'[d] = x /\ \A e \in Devices : e # d => op'[e] = op[e]
    BY <1>6, <1>7, <1>8, Advance DEF KeysIInv, Shape
  <2>2. verifier' = verifier /\ password' = password /\ recovery' = recovery
    BY <1>2 DEF server
  <2>3. ~LegacyVault /\ ~LegacyVault'
    BY <1>2, <2>2, KeyFacts DEF LegacyVault, NoKey, Derived
  <2>4. Young
    BY <1>3, <2>3 DEF Faithful, Secure, OneKey
  <2>5. Honest'
    BY <2>3 DEF Honest
  <2>6. \A e, f \in Devices : kit'[e] # NoKit /\ kit'[f] # NoKit => e = f
    BY <1>2, <1>10
  <2>7. \A e \in Devices : op'[e].kind = "recover" => op'[e].step = "open kit"
    BY <1>5, <2>1, <2>4 DEF Young
  <2>8. opened' = {}
    BY <1>2, <2>4 DEF Young
  <2>9. Young'
    BY <1>3, <2>2, <2>3, <2>4, <2>6, <2>7, <2>8 DEF Young
  <2> QED
    BY <2>5, <2>9 DEF Faithful
<1> QED
  BY <1>12, <1>13 DEF Keeps

-----------------------------------------------------------------------------
(* Steps that write to the service.                                        *)

\* A ceremony that has written goes on with its key and kit, or ends.
Goes(d, x) ==
  /\ x \in Op /\ OpOK(x) /\ Becomes(d, x)
  /\ InTime(x, kit[d], password')
  /\ x.kit \in {op[d].kit, NoKit}
  /\ x.key \in {NoKey, op[d].key}
  /\ x.kind \in {"none", op[d].kind}
  /\ x.step \notin {"open", "open kit", "put verifier"}
  /\ Renewing(x) => x.kit = op[d].kit /\ Renewing(op[d])

\* An answer that is lost ends the ceremony.
LEMMA LostGoes ==
  ASSUME KeysIInv, NEW d \in Devices, End(d), password'.revision \in Nat
  PROVE  \E x \in Op : Goes(d, x) /\ ~Renewing(x)
<1>1. PICK x : x = Idle
  OBVIOUS
<1>2. x \in Op /\ OpOK(x)
  BY <1>1, IdleIsOp
<1>3. Becomes(d, x)
  BY <1>1 DEF End, Becomes
<1>4. /\ x.kind = "none" /\ x.step = "none" /\ x.key = NoKey /\ x.kit = NoKit
      /\ x.revision = 0
  BY <1>1 DEF Idle
<1>5. InTime(x, kit[d], password')
  <2>1. 0 <= password'.revision
    OBVIOUS
  <2> QED
    BY <1>4, <2>1 DEF InTime, Later, Proved
<1>6. Goes(d, x) /\ ~Renewing(x)
  BY <1>2, <1>3, <1>4, <1>5 DEF Goes, Renewing
<1> QED
  BY <1>2, <1>6

\* A vault that has reported success has its password wrapper.
LEMMA ReadyHasPassword ==
  ASSUME Timely, opened' = opened
  PROVE  opened' # {} => password.revision > 0
BY DEF Timely

\* A write keeps what the devices know, as long as it leaves the kits that
\* regenerations have drawn live.
LEMMA WriteKept ==
  ASSUME KeysIInv, NEW d \in Devices, NEW x \in Op, Goes(d, x),
         UNCHANGED <<device, opened>>,
         verifier' \in Keys \cup {NoKey},
         password' \in [revision : 0 .. MaxRevision, opens : Passwords \cup {"none"},
                        key : Keys \cup {NoKey}],
         recovery' \in [Kits -> [revision : 0 .. MaxRevision, key : Keys \cup {NoKey},
                                 dead : BOOLEAN]],
         \A k \in Kits : recovery'[k].revision = 0 => recovery'[k] = NoRecovery,
         WrapsOK',
         \/ password' = password
         \/ password'.revision = password.revision + 1 /\ kit[d] # NoKit,
         \A e \in Devices : (e # d /\ Renewing(op[e])) => (Live(kit[e]) => Live(kit[e])'),
         (Renewing(x) /\ x.step # "put new") => Live(kit[d])'
  PROVE  KeysIInv'
<1>1. /\ x \in Op /\ OpOK(x) /\ Becomes(d, x)
      /\ kit' = kit /\ stored' = stored /\ shown' = shown /\ opened' = opened
  BY DEF Goes, device
<1>2. op' \in [Devices -> Op] /\ \A e \in Devices : OpOK(op[e])'
  BY <1>1, Advance DEF KeysIInv, Shape
<1>3. TypeOK'
  <2>1. \A e \in Devices : op'[e].step \in Steps /\ op'[e].kit \in Kits \cup {NoKit}
    BY <1>2 DEF Op
  <2>2. /\ kit' \in [Devices -> Kits \cup {NoKit}] /\ stored' \in [Devices -> Kits \cup {NoKit}]
        /\ shown' \subseteq Kits /\ opened' \subseteq Keys
    BY <1>1 DEF KeysIInv, Shape, TypeOK
  <2> QED
    BY <2>1, <2>2 DEF TypeOK, NoRecovery, NoKey, Keys, Derived, VaultKey
<1>4. Shape'
  <2>1. \A e \in Devices : (kit'[e] = NoKit) <=> (stored'[e] = NoKit)
    BY <1>1 DEF KeysIInv, Shape
  <2> QED
    BY <1>2, <1>3, <2>1 DEF Shape
<1>5. Timely'
  <2>1. opened' # {} => password'.revision > 0
    <3>1. opened' # {} => password.revision > 0
      BY <1>1, ReadyHasPassword DEF KeysIInv
    <3>2. password.revision > 0 => password'.revision > 0
      <4>1. password.revision \in Nat
        BY AtDevice
      <4>2. password'.revision = password.revision \/ password'.revision = password.revision + 1
        OBVIOUS
      <4> QED
        BY <4>1, <4>2, StaysPositive
    <3> QED
      BY <3>1, <3>2
  <2>2. InTime(x, kit'[d], password')
    BY <1>1 DEF Goes
  <2>3. /\ \A e \in Devices : e # d => kit'[e] = kit[e]
        /\ kit[d] # NoKit => kit'[d] # NoKit
        /\ \/ password' = password
           \/ password'.revision = password.revision + 1 /\ kit'[d] # NoKit
    BY <1>1
  <2>4. Shape /\ Timely
    BY DEF KeysIInv
  <2> QED
    BY <1>1, <1>3, <2>1, <2>2, <2>3, <2>4, TimelyKept
<1>6. Private'
  <2>1. ASSUME NEW e \in Devices, e # d, Renewing(op[e])
        PROVE  /\ kit[e] \notin {kit'[d], stored'[d], x.kit} \cup shown'
               /\ Live(kit[e]) => Live(kit[e])'
    <3>1. kit[e] \in Kits /\ kit[e] \notin {kit[d], stored[d], op[d].kit, NoKit} \cup shown
      BY <2>1, KitsOfOthers DEF KeysIInv
    <3> QED
      BY <1>1, <2>1, <3>1 DEF Goes
  <2>2. ASSUME Renewing(x)
        PROVE  /\ kit'[d] \in Kits /\ kit'[d] \notin {stored'[d], x.kit} \cup shown'
               /\ \A e \in Devices \ {d} : kit'[d] \notin {kit[e], stored[e], op[e].kit}
               /\ x.step # "put new" => Live(kit[d])'
    <3>1. Renewing(op[d]) /\ x.kit = op[d].kit
      BY <2>2 DEF Goes
    <3>2. Own(d, kit[d])
      BY <3>1 DEF KeysIInv, Private
    <3> QED
      BY <1>1, <2>2, <3>1, <3>2 DEF Own
  <2>3. \A e \in Devices : e # d => kit'[e] = kit[e] /\ stored'[e] = stored[e]
    BY <1>1
  <2>4. Shape /\ Private
    BY DEF KeysIInv
  <2> QED
    BY <1>1, <2>1, <2>2, <2>3, <2>4, PrivateKept
<1> QED
  BY <1>4, <1>5, <1>6 DEF KeysIInv

\* In a young vault only one device has a ceremony with a key.
LEMMA OnlyOneKey ==
  ASSUME KeysIInv, Young, NEW d \in Devices, kit[d] # NoKit, NEW e \in Devices, e # d
  PROVE  op[e].key = NoKey
<1>1. kit[e] = NoKit
  BY DEF Young
<1>2. OpOK(op[e]) /\ InTime(op[e], kit[e], password)
  BY AtDevice
<1>3. op[e].step \in {"none", "open kit"}
  BY <1>1, <1>2 DEF InTime
<1> QED
  BY <1>2, <1>3 DEF OpOK

\* What a ceremony writes is the key it holds: the vault's, or in a young
\* vault one that is not, until the creation itself writes the password wrapper.
LEMMA WriteFaithful ==
  ASSUME KeysIInv, ~Mistyping, Faithful, NEW d \in Devices, NEW x \in Op, Goes(d, x),
         UNCHANGED <<device, opened>>, verifier' = verifier,
         kit[d] # NoKit, op[d].key \in Keys,
         \/ password' = password
         \/ /\ password'.revision > 0 /\ password'.key = op[d].key
            /\ recovery' = recovery,
         \A k \in Kits : recovery'[k].revision > 0 =>
           \/ password.revision > 0 /\ recovery'[k].key = op[d].key
           \/ recovery[k].revision > 0 /\ recovery'[k].key = recovery[k].key,
         \A k \in Kits : recovery'[k].revision = 0 \/ recovery'[k].revision > 0,
         password.revision = 0 \/ password.revision > 0
  PROVE  Faithful'
<1>1. /\ x \in Op /\ OpOK(x) /\ Becomes(d, x)
      /\ kit' = kit /\ opened' = opened
  BY DEF Goes, device
<1>2. op'[d] = x /\ \A e \in Devices : e # d => op'[e] = op[e]
  BY <1>1, Advance DEF KeysIInv, Shape
<1>3. LegacyVault' = LegacyVault
  BY DEF LegacyVault
<1>4. op[d].key # NoKey
  BY KeyFacts
<1>5. x.key \in {NoKey, op[d].key} /\ x.step \notin {"open", "open kit", "put verifier"}
      /\ x.kind \in {"none", op[d].kind}
  BY DEF Goes
<1>6. password'.revision = 0 => password.revision = 0
  <2>1. CASE password' = password
    BY <2>1
  <2>2. CASE password'.revision > 0
    BY <2>2, Positive
  <2> QED
    BY <2>1, <2>2
<1>7. Honest'
  <2>1. \A e \in Devices : (op'[e].step = "open" /\ LegacyVault /\ password'.revision = 0)
                           => Derived(op'[e].pw) = verifier
    BY <1>2, <1>5, <1>6 DEF Faithful, Honest
  <2> QED
    BY <1>3, <2>1 DEF Honest, Derived
<1>8. CASE Secure
  <2>0. PICK t \in Keys : OneKey(t)
    BY <1>8, SecureCase
  <2>1. op[d].key = t
    BY <1>4, <2>0 DEF OneKey
  <2>2. /\ \A e \in Devices : op'[e].key # NoKey => op'[e].key = t
        /\ \A e \in Devices : op'[e].step = "put verifier" => verifier # NoKey
    BY <1>2, <1>5, <2>0, <2>1 DEF OneKey
  <2>3. \A k \in Kits : recovery'[k].revision > 0 => recovery'[k].key = t
    BY <2>0, <2>1 DEF OneKey
  <2>4. /\ password'.revision > 0 => password'.key = t
        /\ LegacyVault \/ password'.revision > 0
    BY <2>0, <2>1 DEF OneKey
  <2>5. OneKey(t)'
    BY <1>1, <1>3, <2>0, <2>2, <2>3, <2>4 DEF OneKey, Proves, NoKey
  <2>6. Secure'
    BY <2>5 DEF Secure, Keys, Derived, VaultKey
  <2> QED
    BY <1>7, <2>6 DEF Faithful
<1>9. CASE Young
  <2>1. \A e \in Devices : e # d => op'[e].key = NoKey
    BY <1>2, <1>9, OnlyOneKey
  <2>2. /\ \A e, f \in Devices : kit'[e] # NoKit /\ kit'[f] # NoKit => e = f
        /\ \A e \in Devices : op'[e].kind = "recover" => op'[e].step = "open kit"
        /\ ~LegacyVault
    <3>1. op[d].kind # "recover"
      <4>1. op[d].kind = "recover" => op[d].step = "open kit"
        BY <1>9 DEF Young
      <4>2. OpOK(op[d])
        BY AtDevice
      <4> QED
        BY <1>4, <4>1, <4>2 DEF OpOK
    <3>2. x.kind # "recover"
      BY <1>5, <3>1
    <3> QED
      BY <1>1, <1>2, <1>9, <3>2 DEF Young
  <2>3. opened' = {}
    BY <1>1, <1>9 DEF Young
  <2>4. CASE password' = password
    <3>1. \A e \in Devices : op'[e].step = "put verifier" => password.revision = 0
      BY <1>2, <1>5, <1>9 DEF Young
    <3>2. CASE password.revision = 0
      <4>1. \A k \in Kits : recovery'[k].revision = 0
        <5> SUFFICES ASSUME NEW k \in Kits, recovery'[k].revision > 0
                     PROVE  FALSE
          OBVIOUS
        <5>1. recovery[k].revision = 0
          BY <1>9, <3>2 DEF Young
        <5>2. ~(password.revision > 0) /\ ~(recovery[k].revision > 0)
          BY <3>2, <5>1, Positive
        <5> QED
          BY <5>2
      <4>2. Young'
        BY <1>3, <2>2, <2>3, <2>4, <3>1, <3>2, <4>1 DEF Young
      <4> QED
        BY <1>7, <4>2 DEF Faithful
    <3>3. CASE password.revision # 0
      <4>1. op[d].key # verifier /\ password.key # verifier /\ verifier # NoKey
        BY <1>4, <1>9, <3>3 DEF Young
      <4>2. \A k \in Kits : recovery'[k].revision > 0 => recovery'[k].key # verifier
        BY <1>9, <3>3, <4>1 DEF Young
      <4>3. \A e \in Devices : op'[e].key # verifier \/ op'[e].key = NoKey
        BY <1>2, <1>5, <2>1, <4>1
      <4>4. Young'
        BY <1>3, <2>2, <2>3, <2>4, <3>1, <3>3, <4>1, <4>2, <4>3 DEF Young, NoKey
      <4> QED
        BY <1>7, <4>4 DEF Faithful
    <3> QED
      BY <3>2, <3>3
  <2>5. CASE /\ password'.revision > 0 /\ password'.key = op[d].key
             /\ recovery' = recovery
    <3>0. \A e \in Devices : op'[e].step # "put verifier"
      <4>1. ASSUME NEW e \in Devices, e # d
            PROVE  op'[e].step # "put verifier"
        <5>1. OpOK(op[e]) /\ op[e].key = NoKey
          BY <1>9, <4>1, AtDevice, OnlyOneKey
        <5> QED
          BY <1>2, <4>1, <5>1, KeyFacts DEF OpOK
      <4> QED
        BY <1>2, <1>5, <4>1
    <3>1. CASE Proves(op[d].key)
      <4>1. password.revision = 0
        BY <1>4, <1>9, <3>1 DEF Young, Proves
      <4>2. \A k \in Kits : ~(recovery'[k].revision > 0)
        BY <1>9, <2>5, <4>1, Positive DEF Young
      <4>3. PICK t \in Keys : t = op[d].key
        OBVIOUS
      <4>4. \A e \in Devices : op'[e].key # NoKey => op'[e].key = t
        BY <1>2, <1>5, <2>1, <4>3
      <4>5. OneKey(t)'
        BY <2>3, <2>5, <3>0, <3>1, <4>2, <4>3, <4>4 DEF OneKey, Proves, NoKey
      <4>6. Secure'
        BY <4>5 DEF Secure, Keys, Derived, VaultKey
      <4> QED
        BY <1>7, <4>6 DEF Faithful
    <3>2. CASE ~Proves(op[d].key)
      <4>0. op[d].key # verifier /\ verifier # NoKey
        BY <3>2 DEF Proves
      <4>1. \A e \in Devices : op'[e].key # verifier \/ op'[e].key = NoKey
        BY <1>2, <1>5, <2>1, <4>0
      <4>2. \A k \in Kits : recovery'[k].revision > 0 => recovery'[k].key # verifier
        <5>1. CASE password.revision = 0
          BY <1>9, <2>5, <5>1, Positive DEF Young
        <5>2. CASE password.revision # 0
          BY <1>9, <2>5, <5>2 DEF Young
        <5> QED
          BY <5>1, <5>2
      <4>3. password'.revision # 0
        BY <2>5, Positive
      <4>4. Young'
        BY <1>3, <2>2, <2>3, <2>5, <3>0, <4>0, <4>1, <4>2, <4>3 DEF Young, NoKey
      <4> QED
        BY <1>7, <4>4 DEF Faithful
    <3> QED
      BY <3>1, <3>2
  <2> QED
    BY <2>4, <2>5
<1> QED
  BY <1>8, <1>9 DEF Faithful

\* A creation writes its verifier, and the answer may be lost.
LEMMA PutVerifierKept ==
  ASSUME KeysIInv, NEW d \in Devices, PutVerifier(d)
  PROVE  Keeps
<1>1. /\ op[d].kind = "create" /\ op[d].step = "put verifier" /\ verifier = NoKey
      /\ verifier' = op[d].key /\ password' = password /\ recovery' = recovery
      /\ UNCHANGED <<device, opened>>
  BY DEF PutVerifier, At
<1>2. PICK o \in Op : o = op[d]
  BY AtDevice
<1>3. /\ OpOK(o) /\ InTime(o, kit[d], password) /\ o.kind = "create" /\ o.step = "put verifier"
      /\ op[d].key = VaultKey /\ kit[d] # NoKit
  BY <1>1, <1>2, AtDevice DEF OpOK, InTime
<1>4. PICK x \in Op : Goes(d, x) /\ ~Renewing(x)
  <2>1. CASE End(d)
    BY <1>1, <2>1, AtDevice, LostGoes
  <2>2. CASE op' = [op EXCEPT ![d] = [o EXCEPT !.step = "put password"]]
    <3>1. PICK x : x = [o EXCEPT !.step = "put password"]
      OBVIOUS
    <3>2. /\ x.kind = o.kind /\ x.step = "put password" /\ x.next = o.next /\ x.kit = o.kit
          /\ x.key = o.key /\ x.revision = o.revision /\ x.fresh = o.fresh
      BY <3>1 DEF Op
    <3>3. x \in Op /\ Becomes(d, x)
      BY <2>2, <3>1 DEF Op, Steps, Becomes
    <3>4. OpOK(x)
      BY <1>3, <3>2, KeyFacts DEF OpOK, Staged
    <3>5. InTime(x, kit[d], password) /\ ~Renewing(x)
      BY <1>3, <3>2 DEF InTime, Later, Proved, Renewing
    <3>6. InTime(x, kit[d], password')
      BY <1>1, <3>5
    <3> QED
      BY <1>2, <1>3, <3>2, <3>3, <3>4, <3>5, <3>6 DEF Goes, Renewing
  <2> QED
    BY <1>2, <2>1, <2>2 DEF PutVerifier, Heard
<1>5. KeysIInv'
  <2>1. verifier' \in Keys \cup {NoKey}
    BY <1>1, <1>3, KeyFacts
  <2>2. \A k \in Kits : Live(k)' <=> Live(k)
    BY <1>1 DEF Live
  <2>3. WrapsOK'
    BY <1>1 DEF KeysIInv, Shape, WrapsOK
  <2>4. /\ password' \in [revision : 0 .. MaxRevision, opens : Passwords \cup {"none"},
                          key : Keys \cup {NoKey}]
        /\ recovery' \in [Kits -> [revision : 0 .. MaxRevision, key : Keys \cup {NoKey},
                                   dead : BOOLEAN]]
        /\ \A k \in Kits : recovery'[k].revision = 0 => recovery'[k] = NoRecovery
    BY <1>1 DEF KeysIInv, Shape, TypeOK
  <2>5. \A e \in Devices : (e # d /\ Renewing(op[e])) => (Live(kit[e]) => Live(kit[e])')
    BY <1>1 DEF Live, device
  <2> QED
    BY <1>1, <1>4, <2>1, <2>3, <2>4, <2>5, WriteKept
<1>6. Faithful => Faithful'
  <2> SUFFICES ASSUME Faithful
               PROVE  Faithful'
    OBVIOUS
  <2>1. op'[d] = x /\ \A e \in Devices : e # d => op'[e] = op[e]
    BY <1>4, Advance DEF KeysIInv, Shape, Goes
  <2>2. kit' = kit /\ opened' = opened
    BY <1>1 DEF device
  <2>3. ~LegacyVault
    BY <1>1, KeyFacts DEF LegacyVault
  <2>4. ~LegacyVault'
    BY <1>1, <1>3, KeyFacts DEF LegacyVault, Derived
  <2>5. Young
    <3> SUFFICES ASSUME Secure
                 PROVE  FALSE
      BY DEF Faithful
    <3> QED
      BY <1>1 DEF Secure, OneKey
  <2>6. password.revision = 0
    BY <1>1, <2>5 DEF Young
  <2>7. Honest'
    BY <2>4 DEF Honest
  <2>8. /\ \A e, f \in Devices : kit'[e] # NoKit /\ kit'[f] # NoKit => e = f
        /\ \A e \in Devices : op'[e].kind = "recover" => op'[e].step = "open kit"
    BY <1>1, <1>4, <2>1, <2>2, <2>5 DEF Young, Goes
  <2>9. opened' = {}
    BY <2>2, <2>5 DEF Young
  <2>10. Young'
    BY <1>1, <2>4, <2>5, <2>6, <2>8, <2>9 DEF Young
  <2> QED
    BY <2>7, <2>10 DEF Faithful
<1> QED
  BY <1>5, <1>6 DEF Keeps

\* A password wrapper that is not the one expected: the ceremony ends or reads
\* the revision again.
LEMMA PutPasswordRefused ==
  ASSUME KeysIInv, NEW d \in Devices, op[d].step = "put password",
         UNCHANGED <<server, device, opened>>,
         IF Alone(d) \/ op[d].again THEN End(d)
         ELSE op' = [op EXCEPT ![d].step = "read password", ![d].again = TRUE]
  PROVE  Keeps
<1>1. CASE End(d)
  BY <1>1, EndKept
<1>2. CASE ~Alone(d) /\ op' = [op EXCEPT ![d].step = "read password", ![d].again = TRUE]
  <2>1. PICK o \in Op : o = op[d]
    BY AtDevice
  <2>2. /\ OpOK(o) /\ InTime(o, kit[d], password) /\ o.step = "put password"
        /\ o.kind # "recover" /\ (o.kind = "regenerate" => o.fresh)
    BY <1>2, <2>1, AtDevice DEF Alone
  <2>3. PICK x : x = [o EXCEPT !.step = "read password", !.again = TRUE]
    OBVIOUS
  <2>4. /\ x.kind = o.kind /\ x.step = "read password" /\ x.next = o.next /\ x.kit = o.kit
        /\ x.key = o.key /\ x.revision = o.revision /\ x.fresh = o.fresh
        /\ x.again = TRUE
    BY <2>3 DEF Op
  <2>5. x \in Op
    BY <2>3 DEF Op, Steps
  <2>6. OpOK(x)
    BY <2>2, <2>4 DEF OpOK, Staged
  <2>7. Becomes(d, x)
    BY <1>2, <2>1, <2>3, <2>5 DEF Becomes, KeysIInv, Shape
  <2>8. InTime(x, kit[d], password)
    BY <2>2, <2>4 DEF InTime, Later, Proved
  <2>9. Proceeds(d, x) /\ SameKits(d, x)
    BY <2>1, <2>2, <2>4 DEF Proceeds, SameKits, Renewing
  <2> QED
    BY <2>5, <2>6, <2>7, <2>8, <2>9, QuietKept
<1> QED
  BY <1>1, <1>2

\* Where a ceremony goes after it has written the password wrapper.
PasswordWritten(d) ==
  [op[d] EXCEPT
     !.revision = password.revision + 1, !.again = FALSE,
     !.step = CASE op[d].kind = "recover" -> "recovered"
                [] op[d].kind = "regenerate" /\ ~op[d].fresh -> "read old"
                [] op[d].fresh -> "put recovery"
                [] op[d].kind = "change" /\ ~op[d].fresh -> "read recovery"]

\* It knows the new revision, and a regeneration its own password under it.
LEMMA PasswordGoes ==
  ASSUME KeysIInv, NEW d \in Devices, op[d].step = "put password",
         password.revision = op[d].revision, password.revision < MaxRevision,
         password'.revision = password.revision + 1, password'.opens = op[d].next,
         op' = [op EXCEPT ![d] = PasswordWritten(d)]
  PROVE  \E x \in Op : Goes(d, x)
<1>1. PICK o \in Op : o = op[d]
  BY AtDevice
<1>2. /\ OpOK(o) /\ InTime(o, kit[d], password) /\ o.step = "put password"
      /\ o.next = password'.opens
  BY <1>1, AtDevice
<1>3. PICK rev \in 0 .. MaxRevision :
        /\ rev = password.revision + 1 /\ rev = password'.revision
        /\ rev > 0 /\ rev <= rev
  <2>1. password.revision \in Nat
    BY AtDevice
  <2>2. /\ password.revision + 1 \in 0 .. MaxRevision /\ password.revision + 1 > 0
        /\ password.revision + 1 <= password.revision + 1
    BY <2>1, NextRevision
  <2> QED
    BY <2>2
<1>4. o.kind \in {"create", "unlock", "change", "regenerate", "recover"}
  BY <1>2 DEF OpOK, Staged, Op, Kinds
<1>5. PICK step \in {"recovered", "read old", "put recovery", "read recovery"} :
        /\ step = CASE o.kind = "recover" -> "recovered"
                    [] o.kind = "regenerate" /\ ~o.fresh -> "read old"
                    [] o.fresh -> "put recovery"
                    [] o.kind = "change" /\ ~o.fresh -> "read recovery"
        /\ step = "recovered" <=> o.kind = "recover"
        /\ step = "read old" => (o.kind = "regenerate" /\ ~o.fresh)
        /\ step = "read recovery" => o.kind = "change"
  BY <1>2, <1>4 DEF OpOK
<1>6. PICK x : x = [o EXCEPT !.revision = rev, !.again = FALSE, !.step = step]
  OBVIOUS
<1>7. /\ x.kind = o.kind /\ x.step = step /\ x.next = o.next /\ x.kit = o.kit
      /\ x.key = o.key /\ x.revision = rev /\ x.fresh = o.fresh
  BY <1>6 DEF Op
<1>8. x \in Op
  BY <1>3, <1>5, <1>6 DEF Op, Steps
<1>9. Becomes(d, x)
  BY <1>1, <1>3, <1>5, <1>6 DEF Becomes, PasswordWritten
<1>10. OpOK(x)
  BY <1>2, <1>4, <1>5, <1>7 DEF OpOK, Staged
<1>11. InTime(x, kit[d], password')
  <2>1. kit[d] # NoKit
    BY <1>2 DEF InTime
  <2>2. x.revision <= password'.revision /\ password'.revision > 0
    BY <1>3, <1>7
  <2> QED
    BY <1>2, <1>7, <2>1, <2>2 DEF InTime
<1>12. Renewing(x) => Renewing(o)
  BY <1>2, <1>5, <1>7 DEF Renewing
<1>13. Goes(d, x)
  BY <1>1, <1>5, <1>7, <1>8, <1>9, <1>10, <1>11, <1>12 DEF Goes, Renewing
<1> QED
  BY <1>8, <1>13

\* A wrapper is absent or written.
LEMMA WrapRevisions ==
  ASSUME KeysIInv
  PROVE  /\ password.revision \in Nat /\ (password.revision = 0 \/ password.revision > 0)
         /\ \A k \in Kits : /\ recovery[k].revision \in Nat
                            /\ recovery[k].revision = 0 \/ recovery[k].revision > 0
<1>1. /\ password.revision \in 0 .. MaxRevision
      /\ \A k \in Kits : recovery[k].revision \in 0 .. MaxRevision
  BY DEF KeysIInv, Shape, TypeOK
<1> QED
  BY <1>1, VaultKeysAssumption

\* The password wrapper is written with the key the ceremony holds.
LEMMA PutPasswordKept ==
  ASSUME KeysIInv, NEW d \in Devices, PutPassword(d)
  PROVE  Keeps
<1>1. /\ op[d].step = "put password" /\ verifier' = verifier /\ recovery' = recovery
      /\ UNCHANGED <<device, opened>>
  BY DEF PutPassword
<1>2. CASE /\ password' = password
           /\ IF Alone(d) \/ op[d].again THEN End(d)
              ELSE op' = [op EXCEPT ![d].step = "read password", ![d].again = TRUE]
  <2>1. UNCHANGED <<server, device, opened>>
    BY <1>1, <1>2 DEF server
  <2> QED
    BY <1>1, <1>2, <2>1, PutPasswordRefused
<1>3. CASE /\ password.revision = op[d].revision /\ password.revision < MaxRevision
           /\ password' = [revision |-> password.revision + 1, opens |-> op[d].next,
                           key |-> op[d].key]
           /\ Heard(d, PasswordWritten(d))
  <2>1. PICK rev \in 0 .. MaxRevision : rev = password.revision + 1 /\ rev \in Nat /\ rev > 0
    <3>1. password.revision \in Nat
      BY AtDevice
    <3>2. password.revision + 1 \in 0 .. MaxRevision /\ password.revision + 1 > 0
      BY <1>3, <3>1, NextRevision
    <3> QED
      BY <3>1, <3>2
  <2>2. /\ password'.revision = rev /\ password'.opens = op[d].next /\ password'.key = op[d].key
    BY <1>3, <2>1
  <2>3. OpOK(op[d]) /\ op[d] \in Op /\ InTime(op[d], kit[d], password)
    BY AtDevice
  <2>4. op[d].key \in Keys /\ op[d].next \in Passwords /\ kit[d] # NoKit
    BY <1>1, <2>3 DEF OpOK, Staged, InTime
  <2>5. PICK x \in Op : Goes(d, x)
    <3>1. CASE End(d)
      BY <2>1, <2>2, <3>1, LostGoes
    <3>2. CASE op' = [op EXCEPT ![d] = PasswordWritten(d)]
      BY <1>1, <1>3, <2>1, <2>2, <3>2, PasswordGoes
    <3> QED
      BY <1>3, <3>1, <3>2 DEF Heard
  <2>6. KeysIInv'
    <3>1. password' \in [revision : 0 .. MaxRevision, opens : Passwords \cup {"none"},
                         key : Keys \cup {NoKey}]
      BY <1>3, <2>1, <2>4
    <3>2. /\ recovery' \in [Kits -> [revision : 0 .. MaxRevision, key : Keys \cup {NoKey},
                                     dead : BOOLEAN]]
          /\ \A k \in Kits : recovery'[k].revision = 0 => recovery'[k] = NoRecovery
          /\ verifier' \in Keys \cup {NoKey}
      BY <1>1 DEF KeysIInv, Shape, TypeOK
    <3>3. WrapsOK'
      <4>1. \A k \in Kits : recovery[k].revision > 0 => recovery[k].key \in Keys
        BY DEF KeysIInv, Shape, WrapsOK
      <4> QED
        BY <1>1, <2>2, <2>4, <4>1 DEF WrapsOK, Keys, Derived, VaultKey
    <3>4. \A e \in Devices : Live(kit[e]) => Live(kit[e])'
      BY <1>1 DEF Live, device
    <3>5. (Renewing(x) /\ x.step # "put new") => Live(kit[d])'
      <4>1. Renewing(x) => Renewing(op[d])
        BY <2>5 DEF Goes
      <4>2. Renewing(op[d]) => Live(kit[d])
        BY <1>1 DEF KeysIInv, Private
      <4> QED
        BY <3>4, <4>1, <4>2
    <3>6. password'.revision = password.revision + 1
      BY <2>1, <2>2
    <3> QED
      BY <1>1, <2>4, <2>5, <3>1, <3>2, <3>3, <3>4, <3>5, <3>6, WriteKept
  <2>7. (~Mistyping /\ Faithful) => Faithful'
    <3>1. password'.revision > 0
      BY <2>1, <2>2
    <3>2. \A k \in Kits : recovery[k].revision = 0 \/ recovery[k].revision > 0
      BY WrapRevisions
    <3>3. password.revision = 0 \/ password.revision > 0
      BY WrapRevisions
    <3> QED
      BY <1>1, <2>2, <2>4, <2>5, <3>1, <3>2, <3>3, WriteFaithful
  <2> QED
    BY <2>6, <2>7 DEF Keeps
<1> QED
  BY <1>1, <1>2, <1>3 DEF PutPassword, RevisionKnown, PasswordWritten

\* One recovery wrapper is written: live with the ceremony's key, or again with
\* the key it held.
RecoveryWrite(k, n, key, dead) ==
  /\ recovery' = [recovery EXCEPT ![k] = [revision |-> n, key |-> key, dead |-> dead]]
  /\ UNCHANGED <<verifier, password, device, opened>>

\* Such a write keeps the invariant unless it revokes a kit that was just drawn.
LEMMA RecoveryWriteKept ==
  ASSUME KeysIInv, NEW d \in Devices, NEW x \in Op, Goes(d, x),
         NEW k \in Kits, NEW n \in 1 .. MaxRevision, NEW key \in Keys, NEW dead \in BOOLEAN,
         RecoveryWrite(k, n, key, dead),
         kit[d] # NoKit, op[d].key \in Keys,
         \/ password.revision > 0 /\ key = op[d].key
         \/ recovery[k].revision > 0 /\ key = recovery[k].key,
         dead => \A e \in Devices : (e # d /\ Renewing(op[e])) => kit[e] # k,
         (Renewing(x) /\ x.step # "put new") => Live(kit[d])'
  PROVE  Keeps
<1>1. /\ UNCHANGED <<verifier, password, device, opened>>
      /\ recovery' = [recovery EXCEPT ![k] = [revision |-> n, key |-> key, dead |-> dead]]
  BY DEF RecoveryWrite
<1>2. recovery \in [Kits -> [revision : 0 .. MaxRevision, key : Keys \cup {NoKey},
                             dead : BOOLEAN]]
  BY DEF KeysIInv, Shape, TypeOK
<1>3. n \in 0 .. MaxRevision /\ n # 0 /\ n > 0
  BY WrittenRevision
<1>4. /\ recovery' \in [Kits -> [revision : 0 .. MaxRevision, key : Keys \cup {NoKey},
                                 dead : BOOLEAN]]
      /\ recovery'[k].revision = n /\ recovery'[k].key = key /\ recovery'[k].dead = dead
      /\ \A j \in Kits : j # k => recovery'[j] = recovery[j]
  <2>1. [revision |-> n, key |-> key, dead |-> dead]
          \in [revision : 0 .. MaxRevision, key : Keys \cup {NoKey}, dead : BOOLEAN]
    BY <1>3
  <2> QED
    BY <1>1, <1>2, <2>1
<1>5. KeysIInv'
  <2>1. /\ verifier' \in Keys \cup {NoKey}
        /\ password' \in [revision : 0 .. MaxRevision, opens : Passwords \cup {"none"},
                          key : Keys \cup {NoKey}]
        /\ \A j \in Kits : recovery[j].revision = 0 => recovery[j] = NoRecovery
    BY <1>1 DEF KeysIInv, Shape, TypeOK
  <2>2. \A j \in Kits : recovery'[j].revision = 0 => recovery'[j] = NoRecovery
    BY <1>3, <1>4, <2>1
  <2>3. WrapsOK'
    <3>1. /\ password.revision > 0 => password.key \in Keys
          /\ \A j \in Kits : recovery[j].revision > 0 => recovery[j].key \in Keys
      BY DEF KeysIInv, Shape, WrapsOK
    <3>2. /\ password'.revision > 0 => password'.key \in Keys
          /\ \A j \in Kits : recovery'[j].revision > 0 => recovery'[j].key \in Keys
      BY <1>1, <1>4, <3>1
    <3> QED
      BY <3>2 DEF WrapsOK, Keys, Derived, VaultKey
  <2>4. ASSUME NEW e \in Devices, e # d, Renewing(op[e]), Live(kit[e])
        PROVE  Live(kit[e])'
    <3>1. kit[e] \in Kits /\ kit'[e] = kit[e]
      BY <1>1, <2>4, KitsOfOthers DEF KeysIInv, device
    <3>2. CASE kit[e] = k
      BY <1>3, <1>4, <2>4, <3>1, <3>2 DEF Live
    <3>3. CASE kit[e] # k
      BY <1>4, <2>4, <3>1, <3>3 DEF Live
    <3> QED
      BY <3>2, <3>3
  <2>5. password' = password /\ UNCHANGED <<device, opened>>
    BY <1>1
  <2> QED
    BY <1>4, <2>1, <2>2, <2>3, <2>4, <2>5, WriteKept
<1>6. (~Mistyping /\ Faithful) => Faithful'
  <2>1. password' = password /\ verifier' = verifier /\ UNCHANGED <<device, opened>>
    BY <1>1
  <2>2. \A j \in Kits : recovery'[j].revision > 0 =>
          \/ password.revision > 0 /\ recovery'[j].key = op[d].key
          \/ recovery[j].revision > 0 /\ recovery'[j].key = recovery[j].key
    BY <1>4
  <2>3. /\ \A j \in Kits : recovery'[j].revision = 0 \/ recovery'[j].revision > 0
        /\ password.revision = 0 \/ password.revision > 0
    BY <1>3, <1>4, WrapRevisions
  <2> QED
    BY <2>1, <2>2, <2>3, WriteFaithful
<1> QED
  BY <1>5, <1>6 DEF Keeps

\* The recovery wrapper is written, or its revision read again, once.
LEMMA PutRecoveryKept ==
  ASSUME KeysIInv, NEW d \in Devices, PutRecovery(d)
  PROVE  Keeps
<1>1. op[d].step = "put recovery" /\ UNCHANGED <<verifier, password, device, opened>>
  BY DEF PutRecovery
<1>2. PICK o \in Op : o = op[d]
  BY AtDevice
<1>3. /\ OpOK(o) /\ InTime(o, kit[d], password) /\ o.step = "put recovery"
      /\ o.key \in Keys /\ o.kit \in Kits /\ kit[d] # NoKit /\ password.revision > 0
      /\ o.kind \in {"create", "unlock", "change", "regenerate"}
  <2>1. OpOK(o) /\ InTime(o, kit[d], password) /\ o.step = "put recovery"
    BY <1>1, <1>2, AtDevice
  <2> QED
    BY <2>1 DEF OpOK, Staged, InTime, Later, Op, Kinds
<1>4. PICK k \in Kits, expected \in 0 .. MaxRevision :
        /\ k = o.kit /\ expected = IF o.fresh THEN 0 ELSE o.expected
  <2>1. 0 \in 0 .. MaxRevision
    BY VaultKeysAssumption
  <2> QED
    BY <1>3, <2>1 DEF Op
<1>5. CASE /\ recovery' = recovery
           /\ End(d)
  BY <1>1, <1>5, EndKept DEF server
<1>6. CASE /\ recovery' = recovery
           /\ op' = [op EXCEPT ![d].step = "read recovery", ![d].again = TRUE,
                               ![d].fresh = FALSE]
  <2>1. PICK x : x = [o EXCEPT !.step = "read recovery", !.again = TRUE, !.fresh = FALSE]
    OBVIOUS
  <2>2. /\ x.kind = o.kind /\ x.step = "read recovery" /\ x.next = o.next /\ x.kit = o.kit
        /\ x.key = o.key /\ x.revision = o.revision /\ x.fresh = FALSE
    BY <2>1 DEF Op
  <2>3. x \in Op
    BY <2>1 DEF Op, Steps
  <2>4. OpOK(x)
    BY <1>3, <2>2 DEF OpOK, Staged
  <2>5. Becomes(d, x)
    BY <1>2, <1>6, <2>1, <2>3 DEF Becomes, KeysIInv, Shape
  <2>6. InTime(x, kit[d], password)
    BY <1>3, <2>2 DEF InTime, Later, Proved
  <2>7. Proceeds(d, x) /\ SameKits(d, x)
    BY <1>2, <1>3, <2>2 DEF Proceeds, SameKits, OpOK, Staged, Renewing
  <2>8. UNCHANGED <<server, device, opened>>
    BY <1>1, <1>6 DEF server
  <2> QED
    BY <2>3, <2>4, <2>5, <2>6, <2>7, <2>8, QuietKept
<1>7. CASE /\ expected < MaxRevision
           /\ recovery' = [recovery EXCEPT ![k] =
                             [revision |-> expected + 1, key |-> o.key, dead |-> FALSE]]
           /\ Heard(d, IF o.kind = "change" THEN Idle ELSE [o EXCEPT !.step = "verify"])
  <2>1. PICK n \in 1 .. MaxRevision : n = expected + 1
    BY <1>7, AfterExpected
  <2>2. PICK x \in Op : Goes(d, x) /\ ~Renewing(x)
    <3>1. CASE End(d)
      BY <1>1, <3>1, AtDevice, LostGoes
    <3>2. CASE o.kind # "change" /\ op' = [op EXCEPT ![d] = [o EXCEPT !.step = "verify"]]
      <4>1. PICK x : x = [o EXCEPT !.step = "verify"]
        OBVIOUS
      <4>2. /\ x.kind = o.kind /\ x.step = "verify" /\ x.next = o.next /\ x.kit = o.kit
            /\ x.key = o.key /\ x.revision = o.revision /\ x.fresh = o.fresh
        BY <4>1 DEF Op
      <4>3. x \in Op /\ Becomes(d, x)
        BY <3>2, <4>1 DEF Op, Steps, Becomes
      <4>4. OpOK(x)
        BY <1>3, <3>2, <4>2 DEF OpOK, Staged
      <4>5. InTime(x, kit[d], password) /\ ~Renewing(x)
        BY <1>3, <4>2 DEF InTime, Later, Proved, Renewing
      <4>6. InTime(x, kit[d], password')
        BY <1>1, <4>5
      <4> QED
        BY <1>2, <1>3, <4>2, <4>3, <4>4, <4>5, <4>6 DEF Goes, Renewing
    <3> QED
      BY <1>7, <3>1, <3>2 DEF Heard, End
  <2>3. RecoveryWrite(k, n, o.key, FALSE)
    BY <1>1, <1>7, <2>1 DEF RecoveryWrite
  <2> QED
    BY <1>2, <1>3, <2>1, <2>2, <2>3, RecoveryWriteKept
<1> QED
  BY <1>2, <1>4, <1>5, <1>6, <1>7 DEF PutRecovery

\* The wrapper of the kit a regeneration has drawn is created.
LEMMA PutNewRecoveryKept ==
  ASSUME KeysIInv, NEW d \in Devices, PutNewRecovery(d)
  PROVE  Keeps
<1>1. /\ op[d].kind = "regenerate" /\ op[d].step = "put new"
      /\ UNCHANGED <<verifier, password, device, opened>>
  BY DEF PutNewRecovery, At
<1>2. PICK o \in Op : o = op[d]
  BY AtDevice
<1>3. /\ OpOK(o) /\ InTime(o, kit[d], password) /\ o.kind = "regenerate" /\ o.step = "put new"
      /\ o.key \in Keys /\ kit[d] # NoKit /\ password.revision > 0 /\ Renewing(op[d])
  <2>1. /\ OpOK(o) /\ InTime(o, kit[d], password)
        /\ o.kind = "regenerate" /\ o.step = "put new"
    BY <1>1, <1>2, AtDevice
  <2> QED
    BY <1>1, <2>1 DEF OpOK, Staged, InTime, Later, Renewing
<1>4. PICK k \in Kits : k = kit[d]
  BY <1>3 DEF KeysIInv, Private, Own
<1>5. PICK n \in 1 .. MaxRevision : n = 1
  BY VaultKeysAssumption
<1>6. RecoveryWrite(k, n, o.key, FALSE)
  BY <1>1, <1>2, <1>4, <1>5 DEF PutNewRecovery, RecoveryWrite
<1>7. Live(kit[d])'
  <2>1. recovery'[k] = [revision |-> n, key |-> o.key, dead |-> FALSE]
    BY <1>6 DEF RecoveryWrite, KeysIInv, Shape, TypeOK
  <2>2. recovery'[k].revision = n /\ recovery'[k].dead = FALSE
    BY <2>1
  <2>3. n > 0
    BY WrittenRevision
  <2> QED
    BY <1>1, <1>4, <2>2, <2>3 DEF Live, device
<1>8. PICK x \in Op : Goes(d, x)
  <2>1. CASE End(d)
    BY <1>1, <2>1, AtDevice, LostGoes
  <2>2. CASE op' = [op EXCEPT ![d] = [o EXCEPT !.step = "put password"]]
    <3>1. PICK x : x = [o EXCEPT !.step = "put password"]
      OBVIOUS
    <3>2. /\ x.kind = o.kind /\ x.step = "put password" /\ x.next = o.next /\ x.kit = o.kit
          /\ x.key = o.key /\ x.revision = o.revision /\ x.fresh = o.fresh
      BY <3>1 DEF Op
    <3>3. x \in Op /\ Becomes(d, x)
      BY <2>2, <3>1 DEF Op, Steps, Becomes
    <3>4. OpOK(x)
      BY <1>3, <3>2 DEF OpOK, Staged
    <3>5. InTime(x, kit[d], password)
      BY <1>3, <3>2 DEF InTime, Later, Proved
    <3>6. InTime(x, kit[d], password')
      BY <1>1, <3>5
    <3> QED
      BY <1>2, <1>3, <3>2, <3>3, <3>4, <3>6 DEF Goes
  <2> QED
    BY <1>2, <2>1, <2>2 DEF PutNewRecovery, Heard
<1> QED
  BY <1>2, <1>3, <1>6, <1>7, <1>8, RecoveryWriteKept

\* The wrapper of the kit the device had is deleted: the one it drew is another.
LEMMA DeleteOldKept ==
  ASSUME KeysIInv, NEW d \in Devices, DeleteOldRecovery(d)
  PROVE  Keeps
<1>1. /\ op[d].kind = "regenerate" /\ op[d].step = "delete old"
      /\ UNCHANGED <<verifier, password, device, opened>>
  BY DEF DeleteOldRecovery, At
<1>2. PICK o \in Op : o = op[d]
  BY AtDevice
<1>3. /\ OpOK(o) /\ InTime(o, kit[d], password) /\ o.kind = "regenerate"
      /\ o.step = "delete old"
      /\ o.key \in Keys /\ o.kit \in Kits /\ kit[d] # NoKit /\ password.revision > 0
      /\ Renewing(op[d])
  <2>1. /\ OpOK(o) /\ InTime(o, kit[d], password)
        /\ o.kind = "regenerate" /\ o.step = "delete old"
    BY <1>1, <1>2, AtDevice
  <2> QED
    BY <1>1, <2>1 DEF OpOK, Staged, InTime, Later, Renewing
<1>4. PICK k \in Kits : k = o.kit
  BY <1>3
<1>5. CASE recovery' = recovery /\ End(d)
  BY <1>1, <1>5, EndKept DEF server
<1>6. CASE /\ recovery[k].revision = o.expected
           /\ recovery[k].revision < MaxRevision
           /\ recovery' = [recovery EXCEPT ![k] =
                [revision |-> recovery[k].revision + 1, key |-> recovery[k].key, dead |-> TRUE]]
           /\ Heard(d, [o EXCEPT !.step = "show kit"])
  <2>1. recovery[k].revision \in 0 .. MaxRevision /\ recovery[k].revision > 0
    <3>1. recovery[k].revision \in 0 .. MaxRevision
      BY DEF KeysIInv, Shape, TypeOK
    <3>2. recovery[k].revision # 0
      BY <1>3, <1>6 DEF OpOK
    <3> QED
      BY <3>1, <3>2, WrapRevisions
  <2>2. PICK n \in 1 .. MaxRevision : n = recovery[k].revision + 1
    BY <1>6, <2>1, AfterExpected
  <2>3. PICK key \in Keys : key = recovery[k].key
    BY <2>1 DEF KeysIInv, Shape, WrapsOK
  <2>4. RecoveryWrite(k, n, key, TRUE)
    BY <1>1, <1>6, <2>2, <2>3 DEF RecoveryWrite
  <2>5. /\ kit[d] \in Kits /\ kit[d] # k /\ Live(kit[d])
    BY <1>1, <1>2, <1>3, <1>4 DEF KeysIInv, Private, Own
  <2>6. Live(kit[d])'
    <3>1. recovery'[kit[d]] = recovery[kit[d]] /\ kit' = kit
      BY <1>1, <1>6, <2>5 DEF KeysIInv, Shape, TypeOK, device
    <3> QED
      BY <2>5, <3>1 DEF Live
  <2>7. \A e \in Devices : (e # d /\ Renewing(op[e])) => kit[e] # k
    BY <1>2, <1>4, KitsOfOthers DEF KeysIInv
  <2>8. PICK x \in Op : Goes(d, x)
    <3>1. CASE End(d)
      BY <1>1, <3>1, AtDevice, LostGoes
    <3>2. CASE op' = [op EXCEPT ![d] = [o EXCEPT !.step = "show kit"]]
      <4>1. PICK x : x = [o EXCEPT !.step = "show kit"]
        OBVIOUS
      <4>2. /\ x.kind = o.kind /\ x.step = "show kit" /\ x.next = o.next /\ x.kit = o.kit
            /\ x.key = o.key /\ x.revision = o.revision /\ x.fresh = o.fresh
        BY <4>1 DEF Op
      <4>3. x \in Op /\ Becomes(d, x)
        BY <3>2, <4>1 DEF Op, Steps, Becomes
      <4>4. OpOK(x)
        BY <1>3, <4>2 DEF OpOK, Staged
      <4>5. InTime(x, kit[d], password)
        BY <1>3, <4>2 DEF InTime, Later, Proved
      <4>6. InTime(x, kit[d], password')
        BY <1>1, <4>5
      <4> QED
        BY <1>2, <1>3, <4>2, <4>3, <4>4, <4>6 DEF Goes
    <3> QED
      BY <1>6, <3>1, <3>2 DEF Heard
  <2> QED
    BY <1>2, <1>3, <2>1, <2>3, <2>4, <2>6, <2>7, <2>8, RecoveryWriteKept
<1> QED
  BY <1>2, <1>4, <1>5, <1>6 DEF DeleteOldRecovery

-----------------------------------------------------------------------------
(* The theorems.                                                           *)

\* The model starts in the invariant.
LEMMA InitOK == Init => HonestIInv
<1> SUFFICES ASSUME Init
             PROVE  HonestIInv
  OBVIOUS
<1>1. PICK start \in Starts : StartsAs(start)
  BY DEF Init
<1>2. start \in {"wrapped", "legacy", "new"}
  BY VaultKeysAssumption
<1>3. FirstPassword \in Passwords
  BY VaultKeysAssumption DEF FirstPassword
<1>4. op = [d \in Devices |-> Idle] /\ stored = kit
  BY DEF Init
<1>5. 0 \in 0 .. MaxRevision /\ 1 \in 0 .. MaxRevision /\ 1 > 0 /\ ~(0 > 0) /\ 0 <= 0 /\ 0 <= 1
  BY VaultKeysAssumption
<1>6. PICK first \in Passwords : first = FirstPassword
  BY <1>3
<1>7. FirstKit \in Kits /\ FirstKit # NoKit
  BY VaultKeysAssumption
<1>8. \A d \in Devices : /\ op[d] \in Op /\ OpOK(op[d])
                         /\ op[d].kind = "none" /\ op[d].step = "none" /\ op[d].key = NoKey
                         /\ op[d].kit = NoKit /\ op[d].revision = 0
  BY <1>4, IdleIsOp DEF Idle
<1>9. /\ op \in [Devices -> Op]
      /\ \A d \in Devices : ~Renewing(op[d]) /\ ~Proved(op[d])
      /\ \A d \in Devices : op[d].step \in Steps /\ op[d].kit \in Kits \cup {NoKit}
  BY <1>4, <1>8, IdleIsOp DEF Renewing, Proved, Steps
<1>10. Private
  BY <1>9 DEF Private
<1>11. Honest
  BY <1>8 DEF Honest
<1>12. shown \subseteq Kits /\ opened \subseteq Keys /\ verifier \in Keys \cup {NoKey}
  <2>1. Derived(first) \in Keys /\ VaultKey \in Keys
    BY KeyFacts
  <2>2. verifier \in {VaultKey, Derived(first), NoKey}
    BY <1>1, <1>2, <1>6 DEF StartsAs
  <2> QED
    BY <1>1, <1>7, <2>1, <2>2 DEF StartsAs
<1>13. /\ kit \in [Devices -> Kits \cup {NoKit}] /\ stored \in [Devices -> Kits \cup {NoKit}]
       /\ \A d \in Devices : (kit[d] = NoKit) <=> (stored[d] = NoKit)
  BY <1>1, <1>4, <1>7 DEF StartsAs
<1>14. CASE start = "wrapped"
  <2>1. PICK wrap : wrap = [revision |-> 1, key |-> VaultKey, dead |-> FALSE]
    OBVIOUS
  <2>2. /\ verifier = VaultKey
        /\ password = [revision |-> 1, opens |-> first, key |-> VaultKey]
        /\ recovery = [k \in Kits |-> IF k = FirstKit THEN wrap ELSE NoRecovery]
        /\ kit = [d \in Devices |-> FirstKit]
    BY <1>1, <1>6, <1>14, <2>1 DEF StartsAs
  <2>3. /\ password \in [revision : 0 .. MaxRevision, opens : Passwords \cup {"none"},
                          key : Keys \cup {NoKey}]
        /\ password.revision = 1 /\ password.key = VaultKey
    BY <1>5, <2>2, KeyFacts
  <2>4. /\ wrap \in [revision : 0 .. MaxRevision, key : Keys \cup {NoKey}, dead : BOOLEAN]
        /\ wrap.revision = 1 /\ wrap.key = VaultKey
    BY <1>5, <2>1, KeyFacts
  <2>5. /\ NoRecovery \in [revision : 0 .. MaxRevision, key : Keys \cup {NoKey}, dead : BOOLEAN]
        /\ NoRecovery.revision = 0
    BY <1>5 DEF NoRecovery
  <2>6. /\ recovery \in [Kits -> [revision : 0 .. MaxRevision, key : Keys \cup {NoKey},
                                  dead : BOOLEAN]]
        /\ \A k \in Kits : recovery[k] = wrap \/ recovery[k] = NoRecovery
    BY <2>2, <2>4, <2>5
  <2>7. \A k \in Kits : /\ recovery[k].revision = 0 => recovery[k] = NoRecovery
                        /\ recovery[k].revision > 0 => recovery[k].key = VaultKey
    BY <1>5, <2>4, <2>5, <2>6
  <2>8. Shape
    BY <1>8, <1>9, <1>12, <1>13, <2>3, <2>6, <2>7, KeyFacts DEF Shape, TypeOK, WrapsOK
  <2>9. Timely
    <3>1. password.revision > 0
      BY <1>5, <2>3
    <3>2. Devices # {} => \E d \in Devices : kit[d] # NoKit
      BY <1>7, <2>2
    <3>3. \A d \in Devices : InTime(op[d], kit[d], password)
      BY <1>5, <1>8, <1>9, <2>3 DEF InTime, Later
    <3> QED
      BY <3>1, <3>2, <3>3 DEF Timely
  <2>10. OneKey(VaultKey)
    <3>1. opened = {VaultKey}
      BY <1>1, <1>14 DEF StartsAs
    <3> QED
      BY <1>5, <1>8, <2>2, <2>3, <2>7, <3>1 DEF OneKey, Proves
  <2>11. Secure
    BY <2>10, KeyFacts DEF Secure
  <2> QED
    BY <1>10, <1>11, <2>8, <2>9, <2>11 DEF HonestIInv, KeysIInv, Faithful
<1>15. CASE start \in {"legacy", "new"}
  <2>1. /\ password = NoWrap /\ recovery = [k \in Kits |-> NoRecovery] /\ opened = {}
    BY <1>1, <1>15 DEF StartsAs
  <2>2. /\ password \in [revision : 0 .. MaxRevision, opens : Passwords \cup {"none"},
                          key : Keys \cup {NoKey}]
        /\ password.revision = 0
    BY <1>5, <2>1 DEF NoWrap
  <2>3. /\ NoRecovery \in [revision : 0 .. MaxRevision, key : Keys \cup {NoKey}, dead : BOOLEAN]
        /\ NoRecovery.revision = 0
    BY <1>5 DEF NoRecovery
  <2>4. /\ recovery \in [Kits -> [revision : 0 .. MaxRevision, key : Keys \cup {NoKey},
                                  dead : BOOLEAN]]
        /\ \A k \in Kits : recovery[k] = NoRecovery
    BY <2>1, <2>3
  <2>5. \A k \in Kits : recovery[k].revision = 0 /\ ~(recovery[k].revision > 0)
    BY <1>5, <2>3, <2>4
  <2>6. ~(password.revision > 0)
    BY <1>5, <2>2
  <2>7. Shape
    BY <1>8, <1>9, <1>12, <1>13, <2>2, <2>4, <2>5, <2>6 DEF Shape, TypeOK, WrapsOK
  <2>8. Timely
    <3>1. \A d \in Devices : InTime(op[d], kit[d], password)
      BY <1>5, <1>8, <1>9, <2>2 DEF InTime, Later
    <3> QED
      BY <2>1, <2>2, <3>1 DEF Timely
  <2>9. Secure \/ Young
    <3>1. CASE start = "legacy"
      <4>1. verifier = Derived(first)
        BY <1>1, <1>6, <3>1 DEF StartsAs
      <4>2. PICK t \in Keys : t = Derived(first)
        BY KeyFacts
      <4>3. OneKey(t)
        BY <1>8, <2>1, <2>5, <2>6, <4>1, <4>2 DEF OneKey, Proves, LegacyVault
      <4> QED
        BY <4>3 DEF Secure
    <3>2. CASE start = "new"
      <4>1. verifier = NoKey /\ kit = [d \in Devices |-> NoKit]
        BY <1>1, <3>2 DEF StartsAs
      <4>2. ~LegacyVault
        BY <4>1, KeyFacts DEF LegacyVault
      <4> QED
        BY <1>8, <2>1, <2>2, <2>5, <4>1, <4>2 DEF Young
    <3> QED
      BY <1>15, <3>1, <3>2
  <2> QED
    BY <1>10, <1>11, <2>7, <2>8, <2>9 DEF HonestIInv, KeysIInv, Faithful
<1> QED
  BY <1>2, <1>14, <1>15

\* Every step of every device keeps the invariant.
LEMMA StepOK == KeysIInv /\ [Next]_vars => Keeps
<1> SUFFICES ASSUME KeysIInv, [Next]_vars
             PROVE  Keeps
  OBVIOUS
<1>1. CASE UNCHANGED vars
  <2>1. /\ verifier' = verifier /\ password' = password /\ recovery' = recovery /\ kit' = kit
        /\ stored' = stored /\ op' = op /\ shown' = shown /\ opened' = opened
    BY <1>1 DEF vars
  <2>2. KeysIInv'
    <3>1. TypeOK'
      BY <2>1 DEF KeysIInv, Shape, TypeOK, NoRecovery, NoKey
    <3>2. WrapsOK'
      BY <2>1 DEF KeysIInv, Shape, WrapsOK, Keys, Derived, VaultKey
    <3>3. Shape'
      <4>1. op' \in [Devices -> Op] /\ \A d \in Devices : OpOK(op'[d])
        BY <2>1 DEF KeysIInv, Shape
      <4>2. \A d \in Devices : OpOK(op[d])'
        BY <4>1 DEF OpOK, Staged, Idle
      <4>3. \A d \in Devices : (kit'[d] = NoKit) <=> (stored'[d] = NoKit)
        BY <2>1 DEF KeysIInv, Shape
      <4> QED
        BY <3>1, <3>2, <4>1, <4>2, <4>3 DEF Shape
    <3>4. Timely'
      BY <2>1 DEF KeysIInv, Timely, InTime, Proved, Later
    <3>5. Private'
      BY <2>1 DEF KeysIInv, Private, Own, Live, Renewing
    <3> QED
      BY <3>3, <3>4, <3>5 DEF KeysIInv
  <2>3. Faithful => Faithful'
    BY <2>1 DEF Faithful, Honest, Secure, OneKey, Proves, Young, LegacyVault, Derived, NoKey,
                Keys, VaultKey
  <2> QED
    BY <2>2, <2>3 DEF Keeps
<1>2. CASE Next
  <2>1. PICK d \in Devices : Ceremony(d) \/ Request(d) \/ Fail(d) \/ Reload(d)
    BY <1>2 DEF Next
  <2>2. CASE Ceremony(d)
    BY <2>2, CreateKept, UnlockKept, ChangeKept, RegenerateKept, RecoverKept DEF Ceremony
  <2>3. CASE Request(d)
    BY <2>3, PutVerifierKept, OpenPasswordKept, PutPasswordKept, ReadPasswordKept,
       ReadRecoveryKept, PutRecoveryKept, LegacyReopenedKept, VerifyKept, NewKitKept,
       PutNewRecoveryKept, ReadOldKept, DeleteOldKept, ShowKitKept, OpenKitKept, RecoveredKept
       DEF Request
  <2>4. CASE Fail(d)
    BY <2>4, FailKept
  <2>5. CASE Reload(d)
    BY <2>5, ReloadKept
  <2> QED
    BY <2>1, <2>2, <2>3, <2>4, <2>5
<1> QED
  BY <1>1, <1>2

\* Whatever users type, the wrappers, kits and ceremonies keep their shape, no
\* ceremony is ahead of the password wrapper and a kit that a regeneration has
\* drawn is its own.
THEOREM KeysInvariant == Spec => []KeysIInv
<1>1. Init => KeysIInv
  BY InitOK DEF HonestIInv
<1>2. KeysIInv /\ [Next]_vars => KeysIInv'
  BY StepOK DEF Keeps
<1> QED
  BY <1>1, <1>2, PTL DEF Spec

\* Wrappers, kits and ceremonies have the shape of the code's in every state.
THEOREM WrappersTyped == Spec => []TypeOK
<1>1. KeysIInv => TypeOK
  BY DEF KeysIInv, Shape
<1> QED
  BY <1>1, KeysInvariant, PTL

\* As long as a legacy vault is opened with its own password, every key that
\* is written or held is the vault's, or the creation has not succeeded yet.
THEOREM HonestInvariant ==
  ASSUME ~Mistyping
  PROVE  Spec => []HonestIInv
<1>1. Init => HonestIInv
  BY InitOK
<1>2. HonestIInv /\ [Next]_vars => HonestIInv'
  BY StepOK DEF HonestIInv, Keeps
<1> QED
  BY <1>1, <1>2, PTL DEF Spec

\* "The legacy password-derived root key IS the Vault Key": a migration of a
\* legacy vault never leaves a wrapper that holds another key.
THEOREM MigrationKeepsTheKey ==
  ASSUME ~Mistyping
  PROVE  Spec => []MigrationKeepsKey
<1>1. HonestIInv => MigrationKeepsKey
  <2> SUFFICES ASSUME HonestIInv, LegacyVault
               PROVE  WrappersOpenVault
    BY DEF MigrationKeepsKey
  <2>1. PICK t \in Keys : OneKey(t)
    BY SecureCase DEF HonestIInv, Faithful, Young
  <2> QED
    BY <2>1 DEF OneKey, WrappersOpenVault, Live
<1> QED
  BY <1>1, HonestInvariant, PTL

\* Once a session has opened with a key, whether or not the vault has a verifier
\* to prove it, the password wrapper and every live recovery wrapper hold it.
THEOREM ReadyVaultStaysOpen ==
  ASSUME ~Mistyping
  PROVE  Spec => []VaultInv
<1>1. HonestIInv => VaultInv
  <2> SUFFICES ASSUME HonestIInv
               PROVE  VaultInv
    OBVIOUS
  <2>1. TypeOK /\ (opened # {} => password.revision > 0)
    BY DEF HonestIInv, KeysIInv, Shape, Timely
  <2>2. ASSUME NEW key \in opened
        PROVE  /\ Proves(key)
               /\ password.revision > 0 /\ password.key = key
               /\ \A k \in Kits : Live(k) => recovery[k].key = key
    <3>1. PICK t \in Keys : OneKey(t)
      BY <2>2, SecureCase DEF HonestIInv, Faithful, Young
    <3>2. key = t /\ password.revision > 0
      BY <2>1, <2>2, <3>1 DEF OneKey
    <3> QED
      BY <3>1, <3>2 DEF OneKey, Live
  <2> QED
    BY <2>1, <2>2 DEF VaultInv, ReadyVaultOpens
<1> QED
  BY <1>1, HonestInvariant, PTL

\* Only three requests write a recovery wrapper, only one the password wrapper.
LEMMA OthersLeaveWrappers ==
  ASSUME NEW d \in Devices, Ceremony(d) \/ Request(d) \/ Fail(d) \/ Reload(d)
  PROVE  /\ recovery' = recovery \/ PutRecovery(d) \/ PutNewRecovery(d) \/ DeleteOldRecovery(d)
         /\ password' = password \/ PutPassword(d)
<1>1. CASE Ceremony(d)
  BY <1>1 DEF Ceremony, Create, Unlock, ChangeMasterPassword, RegenerateRecoveryKey, RecoverVault,
              Begin, server
<1>2. CASE Request(d)
  BY <1>2 DEF Request, PutVerifier, OpenPassword, PutPassword, ReadPassword, ReadRecovery,
              PutRecovery, LegacyReopened, Verify, NewKit, PutNewRecovery, ReadOldRecovery,
              DeleteOldRecovery, ShowKit, OpenKit, Recovered, server
<1>3. CASE Fail(d) \/ Reload(d)
  BY <1>3 DEF Fail, Reload, server
<1> QED
  BY <1>1, <1>2, <1>3

\* A recovery wrapper is only revoked while another one is live: the kit that
\* the regeneration has drawn and whose wrapper it wrote first.
LEMMA SomeKitStaysLive ==
  ASSUME KeysIInv, [Next]_vars, NEW j \in Kits, Live(j)
  PROVE  \E k \in Kits : Live(k)'
<1>1. CASE recovery' = recovery
  BY <1>1 DEF Live
<1>2. ASSUME NEW d \in Devices, PutRecovery(d)
      PROVE  \E k \in Kits : Live(k)'
  <2>1. PICK o \in Op : o = op[d]
    BY AtDevice
  <2>2. OpOK(o) /\ o.step = "put recovery"
    BY <1>2, <2>1, AtDevice DEF PutRecovery
  <2>3. PICK k \in Kits, expected \in 0 .. MaxRevision :
          /\ k = o.kit /\ expected = IF o.fresh THEN 0 ELSE o.expected
    <3>1. 0 \in 0 .. MaxRevision
      BY VaultKeysAssumption
    <3> QED
      BY <2>2, <3>1 DEF OpOK, Staged, Op
  <2>4. CASE /\ expected < MaxRevision
             /\ recovery' = [recovery EXCEPT ![k] =
                               [revision |-> expected + 1, key |-> o.key, dead |-> FALSE]]
    <3>1. PICK n \in 1 .. MaxRevision : n = expected + 1
      BY <2>4, AfterExpected
    <3>2. recovery'[k] = [revision |-> n, key |-> o.key, dead |-> FALSE]
      BY <2>4, <3>1 DEF KeysIInv, Shape, TypeOK
    <3>3. recovery'[k].revision = n /\ recovery'[k].dead = FALSE
      BY <3>2
    <3>4. n > 0
      BY WrittenRevision
    <3> QED
      BY <3>3, <3>4 DEF Live
  <2> QED
    BY <1>1, <1>2, <2>1, <2>3, <2>4 DEF PutRecovery
<1>3. ASSUME NEW d \in Devices, PutNewRecovery(d)
      PROVE  \E k \in Kits : Live(k)'
  <2>1. op[d].step = "put new" /\ recovery' = [recovery EXCEPT ![kit[d]] =
                    [revision |-> 1, key |-> op[d].key, dead |-> FALSE]]
    BY <1>3 DEF PutNewRecovery, At
  <2>2. PICK k \in Kits : k = kit[d]
    BY <2>1 DEF KeysIInv, Private, Own, Renewing
  <2>3. PICK n \in 1 .. MaxRevision : n = 1
    BY VaultKeysAssumption
  <2>4. recovery'[k] = [revision |-> n, key |-> op[d].key, dead |-> FALSE]
    BY <2>1, <2>2, <2>3 DEF KeysIInv, Shape, TypeOK
  <2>5. recovery'[k].revision = n /\ recovery'[k].dead = FALSE
    BY <2>4
  <2>6. n > 0
    BY WrittenRevision
  <2> QED
    BY <2>5, <2>6 DEF Live
<1>4. ASSUME NEW d \in Devices, DeleteOldRecovery(d)
      PROVE  \E k \in Kits : Live(k)'
  <2>1. op[d].step = "delete old"
    BY <1>4 DEF DeleteOldRecovery, At
  <2>2. kit[d] \in Kits /\ kit[d] # op[d].kit /\ Live(kit[d])
    BY <2>1 DEF KeysIInv, Private, Own, Renewing
  <2>3. PICK k \in Kits : k = kit[d]
    BY <2>2
  <2>4. recovery'[k] = recovery[k]
    BY <1>4, <2>2, <2>3 DEF DeleteOldRecovery, KeysIInv, Shape, TypeOK
  <2> QED
    BY <2>2, <2>3, <2>4 DEF Live
<1>5. CASE UNCHANGED vars
  BY <1>1, <1>5 DEF vars
<1>6. CASE Next
  BY <1>1, <1>2, <1>3, <1>4, <1>6, OthersLeaveWrappers DEF Next
<1> QED
  BY <1>5, <1>6

\* "Never neither": once some Recovery Key's wrapper is live, one always is,
\* whatever the devices do and wherever they stop.
THEOREM SomeKitAlwaysLive == Spec => KitStaysLive
<1>1. KeysIInv /\ [Next]_vars =>
        [(\E k \in Kits : Live(k)) => \E k \in Kits : Live(k)']_vars
  BY SomeKitStaysLive
<1> QED
  BY <1>1, KeysInvariant, PTL DEF Spec, KitStaysLive

\* The password wrapper is only written by a ceremony in which a user set the
\* password it opens with, with the password it has, or by a migration that was
\* refused once because another device had finished it.
LEMMA PasswordStep ==
  ASSUME KeysIInv, [Next]_vars, password.revision > 0, password'.opens # password.opens
  PROVE  \E d \in Devices : /\ op[d].kind \in {"change", "recover"} \/ Overtaken(d)
                            /\ password'.opens = op[d].next
<1>1. password' # password
  OBVIOUS
<1>2. PICK d \in Devices : PutPassword(d)
  <2>1. Next
    BY <1>1 DEF vars
  <2> QED
    BY <1>1, <2>1, OthersLeaveWrappers DEF Next
<1>3. /\ op[d].step = "put password"
      /\ password.revision = op[d].revision
      /\ password' = [revision |-> password.revision + 1, opens |-> op[d].next,
                      key |-> op[d].key]
  BY <1>1, <1>2 DEF PutPassword, RevisionKnown
<1>4. password'.opens = op[d].next
  BY <1>3
<1>5. op[d] \in Op /\ OpOK(op[d]) /\ InTime(op[d], kit[d], password)
  BY AtDevice
<1>6. op[d].kind \in {"create", "unlock", "change", "regenerate", "recover"}
  BY <1>3, <1>5 DEF Op, Kinds, OpOK, Staged
<1>7. op[d].kind \in {"change", "recover"} \/ op[d].fresh
  <2> SUFFICES ASSUME op[d].kind = "regenerate", ~op[d].fresh
               PROVE  FALSE
    BY <1>3, <1>5, <1>6 DEF OpOK
  <2>1. Proved(op[d])
    BY <1>3 DEF Proved
  <2> QED
    BY <1>3, <1>4, <1>5, <2>1 DEF InTime
<1>8. (op[d].kind \notin {"change", "recover"} /\ op[d].fresh) => Overtaken(d)
  <2>1. op[d].revision # 0
    BY <1>3, Positive
  <2> QED
    BY <1>3, <1>5, <1>6, <2>1 DEF OpOK, Overtaken
<1> QED
  BY <1>4, <1>7, <1>8

\* The Master Password only changes where a user set it: a regeneration that
\* was proved with an older password, a creation that was delayed or any other
\* request never puts an older password back, but the second attempt of a
\* migration that another device has finished meanwhile.
THEOREM PasswordOnlySetByUser == Spec => PasswordSetByUser
<1>1. KeysIInv /\ [Next]_vars =>
        [password.revision > 0 /\ password'.opens # password.opens =>
           \E d \in Devices : /\ op[d].kind \in {"change", "recover"} \/ Overtaken(d)
                              /\ password'.opens = op[d].next]_vars
  BY PasswordStep
<1> QED
  BY <1>1, KeysInvariant, PTL DEF Spec, PasswordSetByUser
================================================================================
