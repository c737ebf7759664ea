-------------------------- MODULE VaultSession_proofs --------------------------
(* What a page keeps of its vault for any salts, passwords and bounds.     *)
EXTENDS VaultSession, TLAPS

-----------------------------------------------------------------------------
(* The inductive invariant.  Its parts hold under ever fewer mishaps:      *)
(* Shape always, Orderly and Keyed while at most other devices interfere,  *)
(* Settled and Emptied while nothing does.                                 *)

Kinds == {"none", "unlock", "verify", "change", "reset"}

StepNames ==
  {"none", "probe", "open", "put legacy", "fetch", "look", "put wrapper", "check", "list", "read",
   "post", "adopt", "list all", "tombstone", "purge", "remove"}

\* Which ceremony takes which step.
Steps ==
  {<<"none", "none">>, <<"unlock", "probe">>, <<"unlock", "open">>, <<"unlock", "put legacy">>,
   <<"unlock", "fetch">>, <<"verify", "open">>, <<"verify", "put legacy">>, <<"change", "look">>,
   <<"change", "open">>, <<"change", "put legacy">>, <<"change", "put wrapper">>,
   <<"change", "check">>, <<"change", "list">>, <<"change", "read">>, <<"change", "post">>,
   <<"change", "adopt">>, <<"change", "fetch">>, <<"reset", "list all">>,
   <<"reset", "tombstone">>, <<"reset", "purge">>, <<"reset", "remove">>}

Task ==
  [kind : Kinds, step : StepNames, pw : Passwords \cup {"none"}, next : Passwords \cup {"none"},
   prev : Keys \cup {NoKey}, key : Keys \cup {NoKey},
   from : Salts \cup {NoSalt}, to : Salts \cup {NoSalt},
   seen : [Ids -> Row], left : SUBSET Ids]

Request == [from : Salts, to : Salts, moved : [Ids -> Row]]

\* Absent rows carry nothing, and a deletion still has a revision to give.
Clean(scope) ==
  \A id \in Ids : /\ Present(scope[id]) \/ scope[id] = NoRow
                  /\ Live(scope[id]) => scope[id].revision <= MaxRevision

TaskOK(x) ==
  /\ <<x.kind, x.step>> \in Steps
  /\ x.step = "none" => x = Idle
  /\ x.kind \in {"unlock", "verify", "change"} => x.pw \in Passwords
  /\ x.kind = "change" => x.next \in Passwords
  /\ x.step \in {"probe", "post", "adopt"} => x.to \in used
  /\ x.step = "post" => x.from \in Salts /\ Clean(x.seen)
  /\ x.step = "tombstone" => \A id \in x.left : x.seen[id].revision <= MaxRevision

Shape ==
  /\ TypeOK
  /\ task \in [Tasks -> Task] /\ \A t \in Tasks : TaskOK(task[t])
  /\ late \subseteq Request /\ \A r \in late : Clean(r.moved)
  /\ \A s \in Salts : Clean(rows[s])
  /\ {meta.salt, meta.pending} \subseteq used \cup {NoSalt}

\* The scope the vault is in: the marked one once a rekey has filled it.
Home == IF meta.pending # NoSalt /\ rows[meta.pending] # Empty THEN meta.pending ELSE meta.salt

\* A marker is there only while a rekey or the unlock after it is under way.
Placed(x) ==
  /\ x.step \in {"probe", "post", "adopt"} => meta.pending = x.to
  /\ x.step \notin {"none", "probe", "post", "adopt"} => meta.pending = NoSalt
  /\ x.kind = "unlock" => screen # "open"
  /\ x.step = "probe" /\ rows[x.to] # Empty => Committed(key, x.to)
  /\ x.step = "post" => x.from = meta.salt /\ rows[x.to] = Empty
  /\ x.step = "adopt" => rows[meta.salt] = Empty

\* One ceremony runs at a time, and one scope holds rows.
Orderly ==
  /\ \A t, u \in Tasks : task[t] # Idle /\ task[u] # Idle => t = u
  /\ \A t \in Tasks : Placed(task[t])
  /\ late = {}
  /\ \A s \in Salts \ used : rows[s] = Empty
  /\ meta # NoMeta => \A s \in Salts \ {Home} : rows[s] = Empty
  /\ screen = "open" /\ Quiet => meta.pending = NoSalt

VaultKeyNow == rows[Home]["verifier"].key

Unwrapped == ~Live(rows[Home]["wrapper"])

\* The vault is sealed under one key, which a password leads to.
Sound ==
  /\ meta # NoMeta
  /\ Live(rows[Home]["verifier"])
  /\ VaultKeyNow \in Keys
  /\ Present(rows[Home]["entry"]) /\ rows[Home]["entry"].key = VaultKeyNow
  /\ Present(rows[Home]["wrapper"]) =>
       /\ ~Unwrapped
       /\ rows[Home]["wrapper"].key = VaultKeyNow
       /\ rows[Home]["wrapper"].pw \in Passwords
  /\ Unwrapped => \E pw \in Passwords : VaultKeyNow = Derived(pw, Home)

\* What a ceremony knows of the key of the vault.
KeyedTask(x) ==
  /\ meta.kit /\ Unwrapped =>
       x.kind = "none" \/ (x.kind = "unlock" /\ x.step \in {"probe", "open", "put legacy"})
  /\ x.kind = "unlock" /\ x.step \in {"probe", "open"} /\ meta.kit /\ Unwrapped =>
       VaultKeyNow = Derived(x.pw, Home)
  /\ x.step = "put legacy" => x.kind = "unlock" /\ x.key = VaultKeyNow
  /\ x.kind \in {"verify", "change"} /\ x.step \notin {"adopt", "fetch"} /\ screen = "open" =>
       x.prev = VaultKeyNow
  /\ x.kind = "change" /\ x.step = "open" => ~Unwrapped
  /\ x.step \in {"look", "open", "put wrapper"} => x.to = NoSalt
  /\ x.step = "put wrapper" => ~Unwrapped /\ x.key = VaultKeyNow
  /\ x.step \in {"check", "list", "read", "post", "adopt"} => ~meta.kit /\ Unwrapped
  /\ x.step = "read" => Live(x.seen["verifier"]) /\ Present(x.seen["entry"])
  /\ x.step = "post" =>
       /\ x.key = Derived(x.next, x.to)
       /\ \A id \in {"verifier", "entry"} : Present(x.seen[id]) /\ x.seen[id].key = x.key
       /\ ~x.seen["verifier"].dead
       /\ ~Present(x.seen["wrapper"])
  /\ x.step = "adopt" => Home = x.to /\ x.key = VaultKeyNow
  /\ x.step = "tombstone" => "verifier" \in x.left
  /\ x.step \notin {"purge", "remove"}

\* The session works under the key of the vault, but for the steps that set
\* its key aside.
Keyed ==
  /\ Sound
  /\ \A t \in Tasks : KeyedTask(task[t])
  /\ screen = "open" =>
       /\ meta.kit => ~Unwrapped
       /\ key = VaultKeyNow \/ \E t \in Tasks : task[t].step \in {"check", "post", "adopt"}

SettledTask(x) ==
  /\ x.step = "read" => x.seen = rows[meta.salt]
  /\ x.step = "post" => x.seen["entry"].edit = acked.edit /\ x.seen["entry"].dead = acked.dead

\* The entry is as the user left it, also on its way to a new scope.
Settled ==
  /\ rows[Home]["entry"].edit = acked.edit
  /\ rows[Home]["entry"].dead = acked.dead
  /\ \A t \in Tasks : SettledTask(task[t])

EmptiedTask(x) ==
  /\ x.step = "tombstone" => \A id \in Ids \ x.left : ~Live(rows[meta.salt][id])
  /\ x.step = "purge" => \A id \in Ids : ~Live(rows[meta.salt][id])
  /\ x.step = "remove" => rows[meta.salt] = Empty

\* What a deletion of the vault has done so far.
Emptied ==
  /\ meta = NoMeta => rows = [s \in Salts |-> Empty]
  /\ \A t \in Tasks : EmptiedTask(task[t])

Kept ==
  /\ struck \subseteq {"other"} => Orderly
  /\ struck \subseteq {"other"} /\ ~wiping => Keyed
  /\ struck = {} /\ ~wiping => Settled
  /\ struck = {} => Emptied

SessionIInv == Shape /\ Kept

-----------------------------------------------------------------------------
(* Keys, rows and scopes.                                                  *)

\* The keys the page derives or holds are keys, and having none is not one.
LEMMA KeyFacts ==
  /\ VaultKey \in Keys
  /\ \A pw \in Passwords, s \in Salts : Derived(pw, s) \in Keys
  /\ NoKey \notin Keys
<1>1. VaultKey # NoKey
  BY DEF VaultKey, NoKey
<1>2. \A pw \in Passwords, s \in Salts : Derived(pw, s) # NoKey
  <2>1. ASSUME NEW pw, NEW s, Derived(pw, s) = NoKey PROVE FALSE
    <3>1. <<"derived", pw, s>>[1] # <<"none">>[1]
      OBVIOUS
    <3> QED BY <2>1, <3>1 DEF Derived, NoKey
  <2> QED BY <2>1
<1> QED BY <1>1, <1>2 DEF Keys

\* A row in the state this model needs it in.
Fit(row) ==
  row \in Row /\ (Present(row) \/ row = NoRow) /\ (Live(row) => row.revision <= MaxRevision)

\* A scope nothing was written to is fit.
LEMMA EmptyFit ==
  /\ Fit(NoRow) /\ ~Present(NoRow) /\ ~Live(NoRow)
  /\ Empty \in [Ids -> Row] /\ Clean(Empty)
  /\ \A id \in Ids : Empty[id] = NoRow
<1>1. 0 \in 0 .. MaxRevision + 1
  BY VaultSessionAssumption
<1>2. NoRow \in Row /\ ~Present(NoRow)
  BY <1>1 DEF NoRow, Row, Present
<1> QED BY <1>2 DEF Empty, Clean, Live, Fit

\* A scope is fit when each of its rows is.
LEMMA FitScope ==
  ASSUME NEW scope
  PROVE  scope \in [Ids -> Row] /\ Clean(scope)
           <=> scope = [id \in Ids |-> scope[id]] /\ \A id \in Ids : Fit(scope[id])
  BY DEF Clean, Fit

\* A row sealed for the first time.
LEMMA FirstRow ==
  ASSUME NEW k \in Keys \cup {NoKey}, NEW edit \in Nat
  PROVE  /\ Sealed(k, edit) \in Row /\ Fit(Sealed(k, edit)) /\ Present(Sealed(k, edit))
         /\ Sealed(k, edit).revision = 1 /\ Sealed(k, edit).dead = FALSE
         /\ Sealed(k, edit).key = k /\ Sealed(k, edit).edit = edit
<1>1. 1 \in 0 .. MaxRevision + 1 /\ 1 <= MaxRevision
  BY VaultSessionAssumption
<1>2. Sealed(k, edit) \in [revision : {1}, dead : {FALSE}, key : {k}, pw : {"none"}, edit : {edit}]
  BY DEF Sealed, NoRow
<1>3. PICK row : row = Sealed(k, edit)
  OBVIOUS
<1>4. row \in Row /\ row.revision = 1 /\ row.dead = FALSE /\ row.key = k /\ row.edit = edit
  BY <1>1, <1>2, <1>3 DEF Row
<1>5. Present(row) /\ Fit(row)
  BY <1>1, <1>4 DEF Present, Fit, Live
<1> QED BY <1>3, <1>4, <1>5

\* Sealed again, with the flag of the row it was.
LEMMA SealedRow ==
  ASSUME NEW k \in Keys \cup {NoKey}, NEW edit \in Nat, NEW dead \in BOOLEAN
  PROVE  LET row == [Sealed(k, edit) EXCEPT !.dead = dead]
         IN  Fit(row) /\ Present(row) /\ row.key = k /\ row.edit = edit /\ row.dead = dead
<1>1. PICK first \in Row : first = Sealed(k, edit)
  BY FirstRow
<1>2. PICK row \in Row : row = [first EXCEPT !.dead = dead]
  BY DEF Row
<1>3. /\ row.revision = 1 /\ row.key = k /\ row.edit = edit /\ row.dead = dead
  BY <1>1, <1>2, FirstRow DEF Row
<1>4. Present(row) /\ Fit(row)
  BY <1>3, VaultSessionAssumption DEF Present, Fit, Live
<1> QED BY <1>1, <1>2, <1>3, <1>4

\* A wrapper written over a row.
LEMMA WrappedRow ==
  ASSUME NEW row \in Row, row.revision < MaxRevision,
         NEW k \in Keys \cup {NoKey}, NEW pw \in Passwords \cup {"none"}
  PROVE  LET new == Wrapped(row, k, pw)
         IN  Fit(new) /\ Live(new) /\ new.key = k /\ new.pw = pw
<1>1. row.revision + 1 \in 0 .. MaxRevision + 1 /\ row.revision + 1 <= MaxRevision
      /\ row.revision + 1 > 0
  BY VaultSessionAssumption DEF Row
<1> QED BY <1>1 DEF Wrapped, NoRow, Row, Fit, Present, Live

\* Any other write to a row takes its revision one further.
LEMMA NextRow ==
  ASSUME NEW row \in Row, NEW new, new \in [revision : {row.revision + 1}, dead : BOOLEAN,
           key : Keys \cup {NoKey}, pw : Passwords \cup {"none"}, edit : Nat],
         row.revision < MaxRevision \/ (row.revision <= MaxRevision /\ new.dead)
  PROVE  Fit(new) /\ Present(new)
<1>1. row.revision + 1 \in 0 .. MaxRevision + 1 /\ row.revision + 1 > 0
      /\ (row.revision < MaxRevision => row.revision + 1 <= MaxRevision)
  BY VaultSessionAssumption DEF Row
<1> QED BY <1>1 DEF Row, Fit, Present, Live

-----------------------------------------------------------------------------
(* Shape.                                                                  *)

\* Ceremony t is at x after the step.
Becomes(t, x) == task' = [task EXCEPT ![t] = x]

\* No ceremony.
LEMMA IdleFacts ==
  /\ Idle \in Task /\ TaskOK(Idle)
  /\ Idle.kind = "none" /\ Idle.step = "none" /\ Idle.left = {} /\ Idle.to = NoSalt
<1>1. Idle \in Task
  BY EmptyFit DEF Idle, Task, Kinds, StepNames
<1> QED BY <1>1 DEF Idle, TaskOK, Steps

\* A ceremony that moves changes its own place only.
LEMMA TasksStay ==
  ASSUME Shape, NEW t \in Tasks, NEW x \in Task, TaskOK(x)', used \subseteq used',
         task' = [task EXCEPT ![t] = x]
  PROVE  task' \in [Tasks -> Task] /\ \A u \in Tasks : TaskOK(task[u])'
<1>1. task \in [Tasks -> Task] /\ \A u \in Tasks : TaskOK(task[u])
  BY DEF Shape
<1>2. task' \in [Tasks -> Task]
  BY <1>1
<1>3. ASSUME NEW u \in Tasks, u # t PROVE TaskOK(task[u])'
  <2>1. task'[u] = task[u]
    BY <1>1, <1>3
  <2> QED BY <1>1, <2>1 DEF TaskOK
<1>4. task'[t] = x
  BY <1>1
<1> QED BY <1>2, <1>3, <1>4 DEF TaskOK

\* A ceremony that ends.
LEMMA TasksEnd ==
  ASSUME Shape, NEW t \in Tasks, End(t), used \subseteq used'
  PROVE  task' \in [Tasks -> Task] /\ \A u \in Tasks : TaskOK(task[u])'
<1>1. TaskOK(Idle)'
  BY IdleFacts DEF TaskOK
<1> QED BY <1>1, IdleFacts, TasksStay DEF End

\* A ceremony that goes on to a step that carries nothing new.
LEMMA TasksGo ==
  ASSUME Shape, NEW t \in Tasks, NEW step \in StepNames, Goto(t, step), used' = used,
         <<task[t].kind, step>> \in Steps, task[t].step # "none",
         step \notin {"none", "probe", "post", "tombstone"},
         step = "adopt" => task[t].to \in used
  PROVE  task' \in [Tasks -> Task] /\ \A u \in Tasks : TaskOK(task[u])'
<1>1. task[t] \in Task /\ TaskOK(task[t])
  BY DEF Shape
<1>2. PICK x \in Task : x = [task[t] EXCEPT !.step = step]
  BY <1>1 DEF Task
<1>3. /\ x.step = step /\ x.kind = task[t].kind /\ x.pw = task[t].pw
      /\ x.next = task[t].next /\ x.to = task[t].to
  BY <1>1, <1>2 DEF Task
<1>4. task' = [task EXCEPT ![t] = x]
  BY <1>2 DEF Goto
<1>5. TaskOK(x)'
  BY <1>1, <1>3 DEF TaskOK
<1> QED BY <1>4, <1>5, TasksStay

\* What the service and the marks of a run keep when they do not change.
LEMMA ServerStays ==
  ASSUME Shape
  PROVE  /\ UNCHANGED rows => /\ rows' \in [Salts -> [Ids -> Row]]
                              /\ \A s \in Salts : Clean(rows[s])'
         /\ UNCHANGED late => late' \subseteq Request /\ \A r \in late' : Clean(r.moved)
         /\ UNCHANGED used => used' \subseteq Salts
         /\ UNCHANGED acked => acked' \in [edit : Nat, dead : BOOLEAN]
         /\ UNCHANGED wiping => wiping' \in BOOLEAN
         /\ UNCHANGED struck => struck' \subseteq Mishaps
         /\ UNCHANGED screen => screen' \in {"open", "locked", "asked"}
         /\ UNCHANGED key => key' \in Keys \cup {NoKey}
  BY DEF Shape, TypeOK, Clean

\* The device's own record of the vault, unchanged.
LEMMA MetaStays ==
  ASSUME Shape, UNCHANGED meta, used \subseteq used'
  PROVE  /\ meta' \in [salt : Salts \cup {NoSalt}, pending : Salts \cup {NoSalt}, kit : BOOLEAN]
         /\ meta' # NoMeta => meta'.salt \in Salts /\ meta'.pending # meta'.salt
         /\ {meta'.salt, meta'.pending} \subseteq used' \cup {NoSalt}
  BY DEF Shape, TypeOK

\* What a ceremony starts with.
BegunAs(x, kind, step, pw, next) ==
  /\ x.kind = kind /\ x.step = step /\ x.pw = pw /\ x.next = next /\ x.prev = key
  /\ x.to = IF step = "probe" THEN meta.pending ELSE NoSalt

\* A ceremony that begins, and what it starts with.
LEMMA Begun ==
  ASSUME Shape, NEW t \in Tasks, NEW kind \in Kinds, NEW step \in StepNames,
         NEW pw \in Passwords \cup {"none"}, NEW next \in Passwords \cup {"none"},
         Begin(t, kind, step, pw, next)
  PROVE  /\ meta # NoMeta /\ UNCHANGED <<rows, late, acked, used, meta>>
         /\ \E x \in Task : Becomes(t, x) /\ BegunAs(x, kind, step, pw, next)
<1>1. meta.pending \in Salts \cup {NoSalt} /\ key \in Keys \cup {NoKey}
  BY DEF Shape, TypeOK
<1>2. PICK x \in Task :
        x = [Idle EXCEPT !.kind = kind, !.step = step, !.pw = pw, !.next = next, !.prev = key,
                         !.to = IF step = "probe" THEN meta.pending ELSE NoSalt]
  <2>1. \A to \in Salts \cup {NoSalt}, prev \in Keys \cup {NoKey} :
          [Idle EXCEPT !.kind = kind, !.step = step, !.pw = pw, !.next = next, !.prev = prev,
                       !.to = to] \in Task
    BY IdleFacts DEF Task
  <2>2. (IF step = "probe" THEN meta.pending ELSE NoSalt) \in Salts \cup {NoSalt}
    BY <1>1
  <2> QED BY <1>1, <2>1, <2>2
<1>3. BegunAs(x, kind, step, pw, next)
  BY <1>2, IdleFacts DEF Task, BegunAs
<1> QED BY <1>2, <1>3 DEF Begin, Becomes, server

\* A ceremony begins.
LEMMA BeginShape ==
  ASSUME Shape, NEW t \in Tasks, NEW kind \in Kinds, NEW step \in StepNames,
         NEW pw \in Passwords \cup {"none"}, NEW next \in Passwords \cup {"none"},
         Begin(t, kind, step, pw, next),
         <<kind, step>> \in Steps, step \notin {"none", "post", "adopt", "tombstone"},
         step = "probe" => meta.pending # NoSalt,
         kind \in {"unlock", "verify", "change"} => pw \in Passwords,
         kind = "change" => next \in Passwords,
         key' \in Keys \cup {NoKey}, screen' \in {"open", "locked", "asked"},
         UNCHANGED wiping, struck' \subseteq Mishaps
  PROVE  Shape'
<1>1. meta.pending \in used \cup {NoSalt}
  BY DEF Shape, TypeOK
<1>2. UNCHANGED <<rows, late, acked, used, meta>>
  BY Begun
<1>3. PICK x \in Task : Becomes(t, x) /\ BegunAs(x, kind, step, pw, next)
  BY Begun
<1>4. TaskOK(x)'
  BY <1>1, <1>2, <1>3 DEF TaskOK, BegunAs
<1>5. task' \in [Tasks -> Task] /\ \A u \in Tasks : TaskOK(task[u])'
  BY <1>2, <1>3, <1>4, TasksStay DEF Becomes
<1> QED BY <1>2, <1>5, ServerStays, MetaStays DEF Shape, TypeOK

\* Every ceremony begins in a state of the page's shape.
LEMMA StartingShape ==
  ASSUME Shape, NEW t \in Tasks, Starting(t)
  PROVE  Shape'
<1>1. key \in Keys \cup {NoKey} /\ struck \subseteq Mishaps
      /\ screen \in {"open", "locked", "asked"}
      /\ meta.pending \in Salts \cup {NoSalt}
  BY DEF Shape, TypeOK
<1> USE DEF Steps, Kinds, StepNames
<1>2. ASSUME NEW pw \in Passwords, Unlock(t, pw) PROVE Shape'
  <2>1. struck' \subseteq Mishaps /\ screen' = "asked" /\ UNCHANGED wiping
    BY <1>1, <1>2 DEF Unlock, Strike
  <2>2. CASE meta.pending = NoSalt
    <3>1. Begin(t, "unlock", "open", pw, pw) /\ key' = key
      BY <1>2, <2>2 DEF Unlock
    <3> QED BY <1>1, <2>1, <3>1, BeginShape
  <2>3. CASE meta.pending # NoSalt
    <3>1. Begin(t, "unlock", "probe", pw, pw) /\ key' = Derived(pw, meta.pending)
      BY <1>2, <2>3 DEF Unlock
    <3>2. key' \in Keys
      BY <1>1, <2>3, <3>1, KeyFacts
    <3> QED BY <2>1, <2>3, <3>1, <3>2, BeginShape
  <2> QED BY <2>2, <2>3
<1>3. ASSUME NEW pw \in Passwords, VerifyPassword(t, pw) PROVE Shape'
  <2>1. struck' \subseteq Mishaps /\ UNCHANGED <<key, screen, wiping>>
        /\ Begin(t, "verify", "open", pw, pw)
    BY <1>1, <1>3 DEF VerifyPassword, Strike
  <2> QED BY <1>1, <2>1, BeginShape
<1>4. ASSUME NEW pw \in Passwords, NEW next \in Passwords, ChangeMasterPassword(t, pw, next)
      PROVE  Shape'
  <2>1. struck' \subseteq Mishaps /\ UNCHANGED <<key, screen, wiping>>
        /\ Begin(t, "change", "look", pw, next)
    BY <1>1, <1>4 DEF ChangeMasterPassword, Strike
  <2> QED BY <1>1, <2>1, BeginShape
<1>5. ASSUME DeleteEverywhere(t) PROVE Shape'
  <2>1. struck' \subseteq Mishaps /\ UNCHANGED <<key, screen, wiping>>
        /\ Begin(t, "reset", "list all", "none", "none")
    BY <1>1, <1>5 DEF DeleteEverywhere, Strike
  <2> QED BY <1>1, <2>1, BeginShape
<1> QED BY <1>2, <1>3, <1>4, <1>5 DEF Starting

\* What the shape says of the rows and of the device.
LEMMA StateFacts ==
  ASSUME Shape
  PROVE  /\ task \in [Tasks -> Task]
         /\ rows \in [Salts -> [Ids -> Row]]
         /\ \A s \in Salts : Clean(rows[s]) /\ \A id \in Ids : Fit(rows[s][id])
         /\ meta \in [salt : Salts \cup {NoSalt}, pending : Salts \cup {NoSalt}, kit : BOOLEAN]
         /\ meta # NoMeta => meta.salt \in Salts /\ meta.salt \in used
         /\ meta.pending \in used \cup {NoSalt}
         /\ NoSalt \notin Salts /\ used \subseteq Salts
         /\ key \in Keys \cup {NoKey}
<1>1. \A s \in Salts : Clean(rows[s]) /\ rows[s] \in [Ids -> Row]
  BY DEF Shape, TypeOK
<1>2. \A s \in Salts : \A id \in Ids : Fit(rows[s][id])
  BY <1>1, FitScope
<1>3. NoSalt \notin Salts
  BY VaultSessionAssumption
<1> QED BY <1>1, <1>2, <1>3 DEF Shape, TypeOK

\* The same, with the ceremony in hand.
LEMMA InHand ==
  ASSUME Shape, NEW t \in Tasks
  PROVE  /\ task[t] \in Task /\ TaskOK(task[t])
         /\ task \in [Tasks -> Task]
         /\ rows \in [Salts -> [Ids -> Row]]
         /\ \A s \in Salts : Clean(rows[s]) /\ \A id \in Ids : Fit(rows[s][id])
         /\ meta \in [salt : Salts \cup {NoSalt}, pending : Salts \cup {NoSalt}, kit : BOOLEAN]
         /\ meta # NoMeta => meta.salt \in Salts /\ meta.salt \in used
         /\ meta.pending \in used \cup {NoSalt}
         /\ NoSalt \notin Salts /\ used \subseteq Salts
         /\ key \in Keys \cup {NoKey}
         /\ task[t].prev \in Keys \cup {NoKey} /\ task[t].key \in Keys \cup {NoKey}
         /\ task[t].pw \in Passwords \cup {"none"} /\ task[t].next \in Passwords \cup {"none"}
<1>1. task[t] \in Task /\ TaskOK(task[t])
  BY DEF Shape
<1>2. /\ task[t].prev \in Keys \cup {NoKey} /\ task[t].key \in Keys \cup {NoKey}
      /\ task[t].pw \in Passwords \cup {"none"} /\ task[t].next \in Passwords \cup {"none"}
  BY <1>1 DEF Task
<1> QED BY <1>1, <1>2, StateFacts

\* The key an unlock would use is a key or none.
LEMMA UnlocksKey ==
  ASSUME Shape, NEW s \in Salts, NEW pw \in Passwords
  PROVE  Unlocks(pw, s) \in Keys \cup {NoKey}
<1>1. rows[s]["wrapper"] \in Row
  BY DEF Shape, TypeOK, Ids
<1>2. rows[s]["wrapper"].key \in Keys \cup {NoKey}
  BY <1>1 DEF Row
<1> QED BY <1>2, KeyFacts DEF Unlocks

\* Writing one fit row keeps every scope fit.
LEMMA WriteRow ==
  ASSUME Shape, NEW s \in Salts, NEW id \in Ids, NEW row, Fit(row),
         rows' = [rows EXCEPT ![s] = [rows[s] EXCEPT ![id] = row]]
  PROVE  rows' \in [Salts -> [Ids -> Row]] /\ \A r \in Salts : Clean(rows[r])'
<1>1. rows \in [Salts -> [Ids -> Row]] /\ \A r \in Salts : Clean(rows[r])
  BY DEF Shape, TypeOK
<1>2. PICK scope : scope = [rows[s] EXCEPT ![id] = row]
  OBVIOUS
<1>3. scope \in [Ids -> Row] /\ Clean(scope)
  BY <1>1, <1>2 DEF Clean, Fit
<1>4. rows' = [rows EXCEPT ![s] = scope]
  BY <1>2
<1>5. rows' \in [Salts -> [Ids -> Row]]
  BY <1>1, <1>3, <1>4
<1>6. \A r \in Salts : rows'[r] = rows[r] \/ rows'[r] = scope
  BY <1>1, <1>4
<1>7. \A r \in Salts : Clean(rows'[r])
  BY <1>1, <1>3, <1>6
<1> QED BY <1>5, <1>7 DEF Clean

\* Writing a wrapper.
LEMMA PutWrapperRow ==
  ASSUME Shape, NEW t \in Tasks, NEW pw \in Passwords \cup {"none"}, meta # NoMeta,
         PutWrapper(t, pw)
  PROVE  LET s == meta.salt
             new == Wrapped(rows[s]["wrapper"], task[t].key, pw)
         IN  /\ Fit(new) /\ Live(new) /\ new.key = task[t].key /\ new.pw = pw
             /\ rows' = [rows EXCEPT ![s] = [rows[s] EXCEPT !["wrapper"] = new]]
<1>1. meta.salt \in Salts /\ rows \in [Salts -> [Ids -> Row]]
      /\ task[t].key \in Keys \cup {NoKey} /\ "wrapper" \in Ids
  BY InHand DEF Ids
<1>2. rows[meta.salt]["wrapper"] \in Row /\ rows[meta.salt]["wrapper"].revision < MaxRevision
  BY <1>1 DEF PutWrapper
<1>3. rows' = [rows EXCEPT ![meta.salt] = [rows[meta.salt] EXCEPT !["wrapper"] =
                              Wrapped(rows[meta.salt]["wrapper"], task[t].key, pw)]]
  BY <1>1 DEF PutWrapper
<1>4. LET new == Wrapped(rows[meta.salt]["wrapper"], task[t].key, pw)
      IN  Fit(new) /\ Live(new) /\ new.key = task[t].key /\ new.pw = pw
  <2>1. PICK row \in Row, k \in Keys \cup {NoKey} :
          row = rows[meta.salt]["wrapper"] /\ k = task[t].key
    BY <1>1, <1>2
  <2>2. row.revision < MaxRevision
    BY <1>2, <2>1
  <2>3. LET new == Wrapped(row, k, pw)
        IN  Fit(new) /\ Live(new) /\ new.key = k /\ new.pw = pw
    BY <2>2, WrappedRow
  <2> QED BY <2>1, <2>3
<1> QED BY <1>3, <1>4

\* Unlock, verification and the wrappers they write.
LEMMA UnlockingShape ==
  ASSUME Shape, NEW t \in Tasks,
         Resolve(t) \/ OpenPassword(t) \/ PutLegacyWrapper(t) \/ PutNextWrapper(t) \/ Fetch(t)
  PROVE  Shape'
<1>a. task[t] \in Task
  BY InHand
<1>b. {"open", "put legacy", "fetch", "put wrapper"} \subseteq StepNames
  BY DEF StepNames
<1>0. /\ task[t] \in Task /\ TaskOK(task[t])
      /\ task[t].prev \in Keys \cup {NoKey} /\ task[t].key \in Keys \cup {NoKey}
      /\ meta \in [salt : Salts \cup {NoSalt}, pending : Salts \cup {NoSalt}, kit : BOOLEAN]
      /\ meta # NoMeta => meta.salt \in Salts /\ meta.salt \in used
      /\ NoSalt \notin Salts /\ used \subseteq Salts /\ struck \subseteq Mishaps
      /\ key \in Keys \cup {NoKey} /\ screen \in {"open", "locked", "asked"}
  BY InHand DEF Shape, TypeOK
<1>1. CASE Resolve(t)
  <2>1. /\ UNCHANGED <<rows, late, acked, used, screen, wiping>> /\ struck' \subseteq Mishaps
        /\ key' = task[t].prev /\ task[t].kind = "unlock" /\ task[t].step = "probe" /\ meta # NoMeta
    BY <1>0, <1>1 DEF Resolve, Doing, server, Strike
  <2>a. task' = [task EXCEPT ![t] = [task[t] EXCEPT !.step = "open", !.to = NoSalt]]
    BY <1>1, InHand DEF Resolve
  <2>b. PICK s \in {meta.salt, task[t].to} : meta' = [meta EXCEPT !.pending = NoSalt, !.salt = s]
    BY <1>1 DEF Resolve
  <2>2. task[t].to \in used
    BY <1>0, <2>1 DEF TaskOK
  <2>3. /\ meta' \in [salt : Salts \cup {NoSalt}, pending : Salts \cup {NoSalt}, kit : BOOLEAN]
        /\ meta'.salt \in Salts /\ meta'.salt \in used' /\ meta'.pending = NoSalt
    BY <1>0, <2>1, <2>2, <2>b
  <2>4. PICK x \in Task : /\ x = [task[t] EXCEPT !.step = "open", !.to = NoSalt]
                         /\ x.step = "open" /\ x.kind = task[t].kind /\ x.pw = task[t].pw
    <3>1. [task[t] EXCEPT !.step = "open", !.to = NoSalt] \in Task
      BY <1>a DEF Task, StepNames
    <3> QED BY <1>a, <3>1 DEF Task
  <2>5. x.kind = "unlock"
    BY <2>1, <2>4
  <2>6. TaskOK(x)'
    BY <1>0, <2>1, <2>4, <2>5 DEF TaskOK, Steps
  <2>7. task' \in [Tasks -> Task] /\ \A u \in Tasks : TaskOK(task[u])'
    BY <2>1, <2>a, <2>4, <2>6, TasksStay
  <2> QED BY <1>0, <2>1, <2>3, <2>7, ServerStays DEF Shape, TypeOK
<1>2. CASE OpenPassword(t)
  <2>1. /\ UNCHANGED <<rows, late, acked, used, screen, wiping, struck, meta>> /\ meta # NoMeta
        /\ task[t].kind \in {"unlock", "verify", "change"} /\ task[t].step = "open"
    BY <1>2 DEF OpenPassword, Doing, server, history
  <2>2. PICK opened \in Keys \cup {NoKey} : opened = Unlocks(task[t].pw, meta.salt)
    BY <1>0, <2>1, UnlocksKey DEF TaskOK
  <2>3. key' \in {key, task[t].prev, opened}
    BY <1>2, <2>2 DEF OpenPassword
  <2>4. \/ End(t)
        \/ \E step \in {"put legacy", "fetch", "put wrapper"} :
             /\ step = "fetch" => task[t].kind = "unlock"
             /\ step = "put wrapper" => task[t].kind = "change"
             /\ task' = [task EXCEPT ![t] = [task[t] EXCEPT !.key = opened, !.step = step]]
    <3> DEFINE writes == ~Live(rows[meta.salt]["wrapper"]) /\ meta.kit
    <3>1. CASE writes
      BY <1>0, <1>2, <2>1, <2>2, <3>1 DEF OpenPassword
    <3>2. CASE ~writes
      BY <1>0, <1>2, <2>1, <2>2, <3>2 DEF OpenPassword
    <3> QED BY <3>1, <3>2
  <2>5. task' \in [Tasks -> Task] /\ \A u \in Tasks : TaskOK(task[u])'
    <3>1. CASE End(t)
      BY <2>1, <3>1, TasksEnd
    <3>2. ASSUME NEW step \in {"put legacy", "fetch", "put wrapper"},
                 step = "fetch" => task[t].kind = "unlock",
                 step = "put wrapper" => task[t].kind = "change",
                 task' = [task EXCEPT ![t] = [task[t] EXCEPT !.key = opened, !.step = step]]
          PROVE  task' \in [Tasks -> Task] /\ \A u \in Tasks : TaskOK(task[u])'
      <4>1. PICK x \in Task :
              /\ x = [task[t] EXCEPT !.key = opened, !.step = step]
              /\ x.step = step /\ x.kind = task[t].kind /\ x.pw = task[t].pw /\ x.next = task[t].next
        <5>0. step \in StepNames /\ opened \in Keys \cup {NoKey}
          BY <1>b, <2>2
        <5>1. [task[t] EXCEPT !.key = opened, !.step = step] \in Task
          BY <1>a, <5>0 DEF Task
        <5> QED BY <1>a, <5>1 DEF Task
      <4>3. TaskOK(x)'
        BY <1>0, <2>1, <3>2, <4>1 DEF TaskOK, Steps
      <4> QED BY <2>1, <3>2, <4>1, <4>3, TasksStay
    <3> QED BY <2>4, <3>1, <3>2
  <2> QED BY <1>0, <2>1, <2>2, <2>3, <2>5, ServerStays, MetaStays DEF Shape, TypeOK
<1>3. CASE PutLegacyWrapper(t) \/ PutNextWrapper(t)
  <2>1. /\ UNCHANGED <<meta, screen, late, acked, used, wiping, struck>> /\ meta # NoMeta
        /\ PutWrapper(t, task[t].pw) \/ PutWrapper(t, task[t].next)
        /\ <<task[t].kind, task[t].step>> \in {<<"unlock", "put legacy">>, <<"verify", "put legacy">>,
                                              <<"change", "put legacy">>, <<"change", "put wrapper">>}
    BY <1>3 DEF PutLegacyWrapper, PutNextWrapper, PutWrapper, Doing, server, history
  <2>2. key' \in {key, task[t].prev, task[t].key}
    BY <1>3 DEF PutLegacyWrapper, PutNextWrapper
  <2>3. \/ End(t)
        \/ Goto(t, "fetch") /\ task[t].kind \in {"unlock", "change"}
        \/ Goto(t, "put wrapper") /\ task[t].kind = "change"
    BY <1>3, <2>1 DEF PutLegacyWrapper, PutNextWrapper, Doing
  <2>4. task' \in [Tasks -> Task] /\ \A u \in Tasks : TaskOK(task[u])'
    BY <1>b, <2>1, <2>3, TasksEnd, TasksGo DEF Steps
  <2>5. task[t].pw \in Passwords \cup {"none"} /\ task[t].next \in Passwords \cup {"none"}
    BY InHand
  <2>6. rows' \in [Salts -> [Ids -> Row]] /\ \A r \in Salts : Clean(rows[r])'
    BY <1>0, <2>1, <2>5, PutWrapperRow, WriteRow DEF Ids
  <2> QED BY <1>0, <2>1, <2>2, <2>4, <2>6, ServerStays, MetaStays DEF Shape, TypeOK
<1>4. CASE Fetch(t)
  <2>1. UNCHANGED <<rows, late, acked, used, meta, key, wiping, struck>> /\ End(t)
        /\ screen' \in {"open", "locked", "asked"}
    BY <1>0, <1>4 DEF Fetch, server, history
  <2> QED BY <2>1, ServerStays, MetaStays, TasksEnd DEF Shape, TypeOK
<1> QED BY <1>1, <1>2, <1>3, <1>4

\* A rekey that is served leaves fit scopes.
LEMMA RekeyRows ==
  ASSUME Shape, NEW from \in Salts, NEW to \in Salts, NEW moved \in [Ids -> Row], Clean(moved),
         Rekey(from, to, moved)
  PROVE  /\ rows' \in [Salts -> [Ids -> Row]] /\ \A r \in Salts : Clean(rows[r])'
         /\ rows'[to] = moved
         /\ from # to => rows'[from] = Empty
         /\ \A s \in Salts \ {from, to} : rows'[s] = rows[s]
<1>1. rows \in [Salts -> [Ids -> Row]] /\ \A r \in Salts : Clean(rows[r])
  BY DEF Shape, TypeOK
<1>2. Empty \in [Ids -> Row] /\ Clean(Empty)
  BY EmptyFit
<1>3. rows' = [rows EXCEPT ![from] = Empty, ![to] = moved]
  BY DEF Rekey
<1>4. rows' \in [Salts -> [Ids -> Row]]
  BY <1>1, <1>2, <1>3
<1>5. /\ rows'[to] = moved
      /\ from # to => rows'[from] = Empty
      /\ \A s \in Salts \ {from, to} : rows'[s] = rows[s]
  BY <1>1, <1>3
<1>6. \A r \in Salts : Clean(rows'[r])
  BY <1>1, <1>2, <1>5
<1> QED BY <1>4, <1>5, <1>6 DEF Clean

\* The rows a rekey will ask for are fit, and a row that was not listed is not
\* among them.
LEMMA ResealedRows ==
  ASSUME Shape, NEW t \in Tasks, meta # NoMeta, NEW k \in Keys
  PROVE  /\ Resealed(t, k) \in [Ids -> Row] /\ Clean(Resealed(t, k))
         /\ \A id \in Ids :
              /\ Present(task[t].seen[id]) =>
                   /\ Present(Resealed(t, k)[id]) /\ Resealed(t, k)[id].key = k
                   /\ Resealed(t, k)[id].dead = task[t].seen[id].dead
                   /\ Resealed(t, k)[id].edit = rows[meta.salt][id].edit
              /\ ~Present(task[t].seen[id]) => Resealed(t, k)[id] = NoRow
<1>1. meta.salt \in Salts /\ task[t] \in Task /\ rows \in [Salts -> [Ids -> Row]]
  BY InHand
<1>2. task[t].seen \in [Ids -> Row]
  BY <1>1 DEF Task
<1>3. \A id \in Ids : rows[meta.salt][id].edit \in Nat /\ task[t].seen[id].dead \in BOOLEAN
  BY <1>1, <1>2 DEF Row
<1>4. ASSUME NEW id \in Ids, Present(task[t].seen[id])
      PROVE  LET row == [Sealed(k, rows[meta.salt][id].edit) EXCEPT !.dead = task[t].seen[id].dead]
             IN  /\ Resealed(t, k)[id] = row /\ Fit(row) /\ Present(row) /\ row.key = k
                 /\ row.edit = rows[meta.salt][id].edit /\ row.dead = task[t].seen[id].dead
  <2>1. PICK edit \in Nat, dead \in BOOLEAN :
          edit = rows[meta.salt][id].edit /\ dead = task[t].seen[id].dead
    BY <1>3
  <2>2. edit \in Nat /\ dead \in BOOLEAN
    BY <2>1
  <2>3. LET row == [Sealed(k, edit) EXCEPT !.dead = dead]
        IN  Fit(row) /\ Present(row) /\ row.key = k /\ row.edit = edit /\ row.dead = dead
    BY <2>2, SealedRow
  <2>4. Resealed(t, k)[id] = [Sealed(k, edit) EXCEPT !.dead = dead]
    BY <1>4, <2>1 DEF Resealed
  <2> QED BY <2>1, <2>3, <2>4
<1>5. \A id \in Ids : ~Present(task[t].seen[id]) => Resealed(t, k)[id] = NoRow
  BY DEF Resealed
<1>6. \A id \in Ids : Fit(Resealed(t, k)[id])
  BY <1>4, <1>5, EmptyFit
<1>7. Resealed(t, k) = [id \in Ids |-> Resealed(t, k)[id]]
  BY DEF Resealed
<1>8. Resealed(t, k) \in [Ids -> Row] /\ Clean(Resealed(t, k))
  BY <1>6, <1>7, FitScope
<1> QED BY <1>4, <1>5, <1>8

\* The change of a vault without wrappers, up to its request.
LEMMA ChangingShape ==
  ASSUME Shape, NEW t \in Tasks,
         HasPasswordWrap(t) \/ Check(t) \/ List(t) \/ \E to \in Salts : Read(t, to)
  PROVE  Shape'
<1>a. task[t] \in Task
  BY InHand
<1>b. {"open", "check", "list", "read", "post"} \subseteq StepNames
  BY DEF StepNames
<1>0. /\ TaskOK(task[t])
      /\ task[t].prev \in Keys \cup {NoKey}
      /\ meta \in [salt : Salts \cup {NoSalt}, pending : Salts \cup {NoSalt}, kit : BOOLEAN]
      /\ meta # NoMeta => meta.salt \in Salts /\ meta.salt \in used
      /\ NoSalt \notin Salts /\ used \subseteq Salts
      /\ key \in Keys \cup {NoKey}
  BY InHand
<1>1. CASE HasPasswordWrap(t)
  <2>1. /\ UNCHANGED <<rows, late, acked, used, screen, wiping, struck, meta>> /\ meta # NoMeta
        /\ task[t].kind = "change" /\ task[t].step = "look"
        /\ key' \in {key, Derived(task[t].pw, meta.salt)}
    BY <1>1 DEF HasPasswordWrap, Doing, server, history
  <2>2. PICK step \in {"open", "check"} :
          task' = [task EXCEPT ![t] = [task[t] EXCEPT !.step = step, !.prev = key]]
    BY <1>1, InHand DEF HasPasswordWrap
  <2>3. task[t].pw \in Passwords /\ key' \in Keys \cup {NoKey}
    BY <1>0, <2>1, KeyFacts DEF TaskOK
  <2>4. step \in StepNames
    BY <1>b, <2>2
  <2>5. [task[t] EXCEPT !.step = step, !.prev = key] \in Task
    BY <1>0, <1>a, <2>4 DEF Task
  <2>6. PICK x \in Task :
          /\ x = [task[t] EXCEPT !.step = step, !.prev = key]
          /\ x.step = step /\ x.kind = task[t].kind /\ x.pw = task[t].pw /\ x.next = task[t].next
    BY <1>a, <2>5 DEF Task
  <2>7. TaskOK(x)'
    BY <1>0, <2>1, <2>2, <2>6 DEF TaskOK, Steps
  <2>8. task' \in [Tasks -> Task] /\ \A u \in Tasks : TaskOK(task[u])'
    BY <2>1, <2>2, <2>6, <2>7, TasksStay
  <2> QED BY <2>1, <2>3, <2>8, ServerStays, MetaStays DEF Shape, TypeOK
<1>2. CASE Check(t)
  <2>1. /\ UNCHANGED <<rows, late, acked, used, screen, wiping, struck, meta>> /\ meta # NoMeta
        /\ task[t].kind = "change" /\ task[t].step = "check"
        /\ key' = task[t].prev
        /\ Goto(t, "list") \/ End(t)
    BY <1>2 DEF Check, Doing, server, history
  <2>2. task' \in [Tasks -> Task] /\ \A u \in Tasks : TaskOK(task[u])'
    BY <1>b, <2>1, TasksEnd, TasksGo DEF Steps
  <2> QED BY <1>0, <2>1, <2>2, ServerStays, MetaStays DEF Shape, TypeOK
<1>3. CASE List(t)
  <2>1. /\ UNCHANGED <<rows, late, acked, used, screen, wiping, struck, meta, key>> /\ meta # NoMeta
        /\ task[t].kind = "change" /\ task[t].step = "list"
        /\ task' = [task EXCEPT ![t] = [task[t] EXCEPT !.step = "read", !.seen = rows[meta.salt]]]
    BY <1>3, InHand DEF List, Doing, server, history
  <2>2. rows[meta.salt] \in [Ids -> Row] /\ "read" \in StepNames
    BY <1>0, <1>b, <2>1, InHand
  <2>5. [task[t] EXCEPT !.step = "read", !.seen = rows[meta.salt]] \in Task
    BY <1>a, <2>2 DEF Task
  <2>6. PICK x \in Task :
          /\ x = [task[t] EXCEPT !.step = "read", !.seen = rows[meta.salt]]
          /\ x.step = "read" /\ x.kind = task[t].kind /\ x.pw = task[t].pw /\ x.next = task[t].next
    BY <1>a, <2>5 DEF Task
  <2>7. TaskOK(x)'
    BY <1>0, <2>1, <2>6 DEF TaskOK, Steps
  <2>8. task' \in [Tasks -> Task] /\ \A u \in Tasks : TaskOK(task[u])'
    BY <2>1, <2>6, <2>7, TasksStay
  <2> QED BY <2>1, <2>8, ServerStays, MetaStays DEF Shape, TypeOK
<1>4. ASSUME NEW to \in Salts, Read(t, to)
      PROVE  Shape'
  <2>1. /\ UNCHANGED <<rows, late, acked, screen, wiping, struck>> /\ meta # NoMeta
        /\ task[t].kind = "change" /\ task[t].step = "read"
    BY <1>4 DEF Read, Doing, history
  <2>2. CASE ~Readable(t)
    <3>1. End(t) /\ UNCHANGED <<meta, key, used>>
      BY <1>4, <2>2 DEF Read
    <3> QED BY <2>1, <3>1, TasksEnd, ServerStays, MetaStays DEF Shape, TypeOK
  <2>3. CASE Readable(t)
    <3>1. PICK k \in Keys : k = Derived(task[t].next, to)
      BY <1>0, <2>1, KeyFacts DEF TaskOK
    <3>2. PICK seen \in [Ids -> Row] : seen = Resealed(t, k) /\ Clean(seen)
      BY <2>1, <3>1, ResealedRows
    <3>a. /\ to \notin used /\ used' = used \cup {to} /\ key' = k
          /\ meta' = [meta EXCEPT !.pending = to]
          /\ task' = [task EXCEPT ![t].step = "post", ![t].from = meta.salt, ![t].to = to,
                                  ![t].key = k, ![t].seen = seen]
      BY <1>4, <2>3, <3>1, <3>2 DEF Read, Marked
    <3>3. /\ to \notin used /\ used' = used \cup {to} /\ key' = k
          /\ meta' = [meta EXCEPT !.pending = to]
          /\ task' = [task EXCEPT ![t] = [task[t] EXCEPT !.step = "post", !.from = meta.salt,
                                            !.to = to, !.key = k, !.seen = seen]]
      BY <3>a, InHand
    <3>4. /\ meta' \in [salt : Salts \cup {NoSalt}, pending : Salts \cup {NoSalt}, kit : BOOLEAN]
          /\ meta'.salt = meta.salt /\ meta'.pending = to /\ meta.salt \in Salts
      BY <1>0, <2>1, <3>3
    <3>5. /\ "post" \in StepNames /\ meta.salt \in Salts \cup {NoSalt} /\ to \in Salts \cup {NoSalt}
          /\ k \in Keys \cup {NoKey} /\ seen \in [Ids -> Row]
      BY <1>b, <3>1, <3>2, <3>4
    <3>6. [task[t] EXCEPT !.step = "post", !.from = meta.salt, !.to = to, !.key = k, !.seen = seen]
            \in Task
      BY <1>a, <3>5 DEF Task
    <3>7. PICK x \in Task :
            /\ x = [task[t] EXCEPT !.step = "post", !.from = meta.salt, !.to = to, !.key = k, !.seen = seen]
            /\ x.step = "post" /\ x.kind = task[t].kind /\ x.pw = task[t].pw
            /\ x.next = task[t].next /\ x.from = meta.salt /\ x.to = to /\ x.seen = seen
      BY <1>a, <3>6 DEF Task
    <3>8. Clean(seen)'
      BY <3>2 DEF Clean
    <3>9. TaskOK(x)'
      BY <1>0, <2>1, <3>3, <3>4, <3>7, <3>8 DEF TaskOK, Steps
    <3>10. task' \in [Tasks -> Task] /\ \A u \in Tasks : TaskOK(task[u])'
      BY <3>3, <3>7, <3>9, TasksStay
    <3>11. used' \subseteq Salts /\ {meta'.salt, meta'.pending} \subseteq used' \cup {NoSalt}
           /\ meta'.pending # meta'.salt
      BY <1>0, <2>1, <3>3, <3>4
    <3>12. key' \in Keys \cup {NoKey}
      BY <3>1, <3>3
    <3> QED BY <2>1, <3>4, <3>10, <3>11, <3>12, ServerStays DEF Shape, TypeOK
  <2> QED BY <2>2, <2>3
<1> QED BY <1>1, <1>2, <1>3, <1>4

\* The request of a rekey: served, refused, lost or late, and what follows.
LEMMA PostingShape ==
  ASSUME Shape, NEW t \in Tasks,
         ServePost(t) \/ FailPost(t) \/ LosePost(t) \/ Adopt(t)
  PROVE  Shape'
<1>a. task[t] \in Task
  BY InHand
<1>b. {"adopt", "put wrapper", "fetch"} \subseteq StepNames
  BY DEF StepNames
<1>0. /\ TaskOK(task[t])
      /\ task[t].prev \in Keys \cup {NoKey} /\ task[t].key \in Keys \cup {NoKey}
      /\ meta \in [salt : Salts \cup {NoSalt}, pending : Salts \cup {NoSalt}, kit : BOOLEAN]
      /\ meta # NoMeta => meta.salt \in Salts /\ meta.salt \in used
      /\ NoSalt \notin Salts /\ used \subseteq Salts /\ struck \subseteq Mishaps
  BY InHand DEF Shape, TypeOK
<1>1. task[t].step = "post" =>
        task[t].from \in Salts /\ task[t].to \in Salts /\ task[t].to \in used
        /\ task[t].seen \in [Ids -> Row] /\ Clean(task[t].seen)
  <2>1. task[t].seen \in [Ids -> Row]
    BY <1>a DEF Task
  <2> QED BY <1>0, <2>1 DEF TaskOK
<1>2. CASE ServePost(t)
  <2>1. /\ UNCHANGED <<meta, key, screen, late, acked, used, wiping, struck>>
        /\ task[t].kind = "change" /\ task[t].step = "post" /\ Goto(t, "adopt")
        /\ Rekey(task[t].from, task[t].to, task[t].seen)
    BY <1>2 DEF ServePost, Doing, history
  <2>2. rows' \in [Salts -> [Ids -> Row]] /\ \A r \in Salts : Clean(rows[r])'
    BY <1>1, <2>1, RekeyRows
  <2>3. task' \in [Tasks -> Task] /\ \A u \in Tasks : TaskOK(task[u])'
    BY <1>b, <1>1, <2>1, TasksGo DEF Steps
  <2> QED BY <2>1, <2>2, <2>3, ServerStays, MetaStays DEF Shape, TypeOK
<1>3. CASE FailPost(t) \/ LosePost(t)
  <2>1. /\ UNCHANGED <<rows, acked, used, screen, wiping>> /\ Catch(t) /\ struck' \subseteq Mishaps
        /\ meta # NoMeta
    BY <1>0, <1>3 DEF FailPost, LosePost, LeavesPost, Doing, Strike, server, history
  <2>2. \/ UNCHANGED late
        \/ /\ late' = {[from |-> task[t].from, to |-> task[t].to, moved |-> task[t].seen]}
           /\ task[t].step = "post"
    BY <1>3 DEF FailPost, LosePost, LeavesPost, Doing, server
  <2>3. late' \subseteq Request /\ \A r \in late' : Clean(r.moved)
    <3>1. CASE UNCHANGED late
      BY <3>1, ServerStays
    <3>2. CASE /\ late' = {[from |-> task[t].from, to |-> task[t].to, moved |-> task[t].seen]}
               /\ task[t].step = "post"
      BY <1>1, <3>2 DEF Request
    <3> QED BY <2>2, <3>1, <3>2
  <2>4. key' = task[t].prev /\ meta' = [meta EXCEPT !.pending = NoSalt] /\ End(t)
    BY <2>1 DEF Catch, PutBack
  <2>5. /\ meta' \in [salt : Salts \cup {NoSalt}, pending : Salts \cup {NoSalt}, kit : BOOLEAN]
        /\ meta'.salt = meta.salt /\ meta'.pending = NoSalt
    BY <1>0, <2>4
  <2>6. task' \in [Tasks -> Task] /\ \A u \in Tasks : TaskOK(task[u])'
    BY <2>1, <2>4, TasksEnd
  <2>7. \A r \in late' : Clean(r.moved)'
    BY <2>3 DEF Clean
  <2> QED BY <1>0, <2>1, <2>3, <2>4, <2>5, <2>6, <2>7, ServerStays DEF Shape, TypeOK, Clean
<1>4. CASE Adopt(t)
  <2>1. /\ UNCHANGED <<rows, late, acked, used, screen, wiping, struck>> /\ meta # NoMeta
        /\ task[t].kind = "change" /\ task[t].step = "adopt"
        /\ meta' = [meta EXCEPT !.salt = task[t].to, !.pending = NoSalt]
        /\ key' = task[t].key
        /\ Goto(t, "put wrapper") \/ Goto(t, "fetch")
    BY <1>4 DEF Adopt, Doing, server, history
  <2>2. task[t].to \in used
    BY <1>0, <2>1 DEF TaskOK
  <2>3. /\ meta' \in [salt : Salts \cup {NoSalt}, pending : Salts \cup {NoSalt}, kit : BOOLEAN]
        /\ meta'.salt = task[t].to /\ meta'.pending = NoSalt
    BY <1>0, <2>1, <2>2
  <2>4. task' \in [Tasks -> Task] /\ \A u \in Tasks : TaskOK(task[u])'
    BY <1>b, <2>1, TasksGo DEF Steps
  <2> QED BY <1>0, <2>1, <2>2, <2>3, <2>4, ServerStays DEF Shape, TypeOK
<1> QED BY <1>2, <1>3, <1>4

\* The row a deletion leaves.
LEMMA DeletedRow ==
  ASSUME Shape, NEW t \in Tasks, NEW id \in Ids, DeleteRow(t, id),
         rows[meta.salt][id].revision = task[t].seen[id].revision
  PROVE  LET row == [rows[meta.salt][id] EXCEPT !.revision = @ + 1, !.dead = TRUE]
         IN  /\ Fit(row) /\ ~Live(row)
             /\ rows' = [rows EXCEPT ![meta.salt] = [rows[meta.salt] EXCEPT ![id] = row]]
             /\ task' = [task EXCEPT ![t] = [task[t] EXCEPT !.left = @ \ {id}]]
<1>1. /\ meta.salt \in Salts /\ rows \in [Salts -> [Ids -> Row]] /\ task \in [Tasks -> Task]
      /\ TaskOK(task[t]) /\ task[t] \in Task
  BY InHand DEF DeleteRow, Doing
<1>2. task[t].step = "tombstone" /\ id \in task[t].left
  BY DEF DeleteRow, Doing
<1>3. PICK old \in Row : old = rows[meta.salt][id] /\ old.revision <= MaxRevision
  BY <1>1, <1>2 DEF TaskOK
<1>4. PICK row : row = [old EXCEPT !.revision = @ + 1, !.dead = TRUE]
  OBVIOUS
<1>5. row \in [revision : {old.revision + 1}, dead : BOOLEAN, key : Keys \cup {NoKey},
               pw : Passwords \cup {"none"}, edit : Nat] /\ row.dead
  BY <1>3, <1>4 DEF Row
<1>6. Fit(row)
  BY <1>3, <1>5, NextRow
<1>a. rows' = [rows EXCEPT ![meta.salt][id].revision = @ + 1, ![meta.salt][id].dead = TRUE]
  BY DEF DeleteRow
<1>7. rows' = [rows EXCEPT ![meta.salt] = [rows[meta.salt] EXCEPT ![id] = row]]
  BY <1>1, <1>3, <1>4, <1>a
<1>8. task' = [task EXCEPT ![t] = [task[t] EXCEPT !.left = @ \ {id}]]
  BY <1>1 DEF DeleteRow
<1> QED BY <1>3, <1>4, <1>5, <1>6, <1>7, <1>8 DEF Live

\* The scope a purge leaves.
LEMMA PurgedScope ==
  ASSUME Shape, NEW t \in Tasks, Purge(t)
  PROVE  /\ rows' \in [Salts -> [Ids -> Row]] /\ \A r \in Salts : Clean(rows[r])'
         /\ \A s \in Salts \ {meta.salt} : rows'[s] = rows[s]
         /\ \A id \in Ids : rows'[meta.salt][id] = IF rows[meta.salt][id].dead THEN NoRow
                                                ELSE rows[meta.salt][id]
<1>1. meta.salt \in Salts /\ rows \in [Salts -> [Ids -> Row]]
      /\ \A s \in Salts : Clean(rows[s]) /\ \A id \in Ids : Fit(rows[s][id])
  BY InHand DEF Purge, Doing
<1>2. PICK scope : scope = [id \in Ids |-> IF rows[meta.salt][id].dead THEN NoRow
                                          ELSE rows[meta.salt][id]]
  OBVIOUS
<1>3. \A id \in Ids : Fit(scope[id])
  BY <1>1, <1>2, EmptyFit
<1>4. scope = [id \in Ids |-> scope[id]]
  BY <1>2
<1>5. scope \in [Ids -> Row] /\ Clean(scope)
  BY <1>3, <1>4, FitScope
<1>6. rows' = [rows EXCEPT ![meta.salt] = scope]
  BY <1>1, <1>2 DEF Purge
<1>7. rows' \in [Salts -> [Ids -> Row]]
  BY <1>1, <1>5, <1>6
<1>8. rows'[meta.salt] = scope /\ \A s \in Salts \ {meta.salt} : rows'[s] = rows[s]
  BY <1>1, <1>6
<1>9. \A r \in Salts : Clean(rows'[r])
  BY <1>1, <1>5, <1>8
<1> QED BY <1>2, <1>7, <1>8, <1>9 DEF Clean

\* The deletion of the vault everywhere.
LEMMA DeletingShape ==
  ASSUME Shape, NEW t \in Tasks,
         \/ ListAll(t) \/ Deleted(t) \/ Purge(t) \/ RemoveLocal(t)
         \/ \E id \in Ids : DeleteRow(t, id)
  PROVE  Shape'
<1>a. task[t] \in Task
  BY InHand
<1>b. {"tombstone", "purge", "remove"} \subseteq StepNames
  BY DEF StepNames
<1>0. /\ TaskOK(task[t])
      /\ meta \in [salt : Salts \cup {NoSalt}, pending : Salts \cup {NoSalt}, kit : BOOLEAN]
      /\ meta # NoMeta => meta.salt \in Salts /\ meta.salt \in used
  BY InHand
<1>1. CASE ListAll(t)
  <2>1. /\ UNCHANGED <<rows, late, acked, used, screen, wiping, struck, meta, key>> /\ meta # NoMeta
        /\ task[t].kind = "reset" /\ task[t].step = "list all"
    BY <1>1 DEF ListAll, Doing, server, history
  <2>2. PICK seen, left : seen = rows[meta.salt] /\ left = {id \in Ids : Live(rows[meta.salt][id])}
    OBVIOUS
  <2>3. task' = [task EXCEPT ![t] = [task[t] EXCEPT !.step = "tombstone", !.seen = seen, !.left = left]]
    BY <1>1, <2>2, InHand DEF ListAll
  <2>4. seen \in [Ids -> Row] /\ left \in SUBSET Ids /\ "tombstone" \in StepNames
    BY <1>0, <1>b, <2>1, <2>2, InHand
  <2>5. [task[t] EXCEPT !.step = "tombstone", !.seen = seen, !.left = left] \in Task
    BY <1>a, <2>4 DEF Task
  <2>6. PICK x \in Task :
          /\ x = [task[t] EXCEPT !.step = "tombstone", !.seen = seen, !.left = left]
          /\ x.step = "tombstone" /\ x.kind = task[t].kind /\ x.seen = seen /\ x.left = left
    BY <1>a, <2>5 DEF Task
  <2>7. \A id \in left : seen[id].revision <= MaxRevision
    BY <1>0, <2>1, <2>2, InHand DEF Fit
  <2>8. TaskOK(x)'
    BY <2>1, <2>6, <2>7 DEF TaskOK, Steps
  <2>9. task' \in [Tasks -> Task] /\ \A u \in Tasks : TaskOK(task[u])'
    BY <2>1, <2>3, <2>6, <2>8, TasksStay
  <2> QED BY <2>1, <2>9, ServerStays, MetaStays DEF Shape, TypeOK
<1>2. CASE Deleted(t)
  <2>1. /\ UNCHANGED <<rows, late, acked, used, screen, wiping, struck, meta, key>>
        /\ task[t].kind = "reset" /\ task[t].step = "tombstone" /\ Goto(t, "purge")
    BY <1>2 DEF Deleted, DeletedAll, Goto, Doing, server, history
  <2>2. task' \in [Tasks -> Task] /\ \A u \in Tasks : TaskOK(task[u])'
    BY <1>b, <2>1, TasksGo DEF Steps
  <2> QED BY <2>1, <2>2, ServerStays, MetaStays DEF Shape, TypeOK
<1>3. CASE Purge(t)
  <2>1. /\ UNCHANGED <<late, acked, used, screen, wiping, struck, meta, key>>
        /\ task[t].kind = "reset" /\ task[t].step = "purge" /\ Goto(t, "remove")
    BY <1>3 DEF Purge, Doing, history
  <2>2. task' \in [Tasks -> Task] /\ \A u \in Tasks : TaskOK(task[u])'
    BY <1>b, <2>1, TasksGo DEF Steps
  <2>3. rows' \in [Salts -> [Ids -> Row]] /\ \A r \in Salts : Clean(rows[r])'
    BY <1>3, PurgedScope
  <2> QED BY <2>1, <2>2, <2>3, ServerStays, MetaStays DEF Shape, TypeOK
<1>4. CASE RemoveLocal(t)
  <2>1. /\ UNCHANGED <<rows, late, acked, used, wiping, struck>> /\ End(t)
        /\ meta' = NoMeta /\ key' = NoKey /\ screen' = "locked"
    BY <1>4 DEF RemoveLocal, server, history
  <2>2. /\ NoMeta \in [salt : Salts \cup {NoSalt}, pending : Salts \cup {NoSalt}, kit : BOOLEAN]
        /\ NoMeta.salt = NoSalt /\ NoMeta.pending = NoSalt
    BY DEF NoMeta
  <2> QED BY <2>1, <2>2, TasksEnd, ServerStays DEF Shape, TypeOK
<1>5. ASSUME NEW id \in Ids, DeleteRow(t, id)
      PROVE  Shape'
  <2>1. /\ UNCHANGED <<late, acked, used, screen, struck, meta, key>> /\ meta # NoMeta
        /\ task[t].kind = "reset" /\ task[t].step = "tombstone" /\ id \in task[t].left
    BY <1>5 DEF DeleteRow, Doing
  <2>2. CASE rows[meta.salt][id].revision # task[t].seen[id].revision
    <3>1. End(t) /\ UNCHANGED <<rows, wiping>>
      BY <1>5, <2>2 DEF DeleteRow
    <3> QED BY <2>1, <3>1, TasksEnd, ServerStays, MetaStays DEF Shape, TypeOK
  <2>3. CASE rows[meta.salt][id].revision = task[t].seen[id].revision
    <3>1. PICK row : /\ Fit(row)
                     /\ rows' = [rows EXCEPT ![meta.salt] = [rows[meta.salt] EXCEPT ![id] = row]]
                     /\ task' = [task EXCEPT ![t] = [task[t] EXCEPT !.left = @ \ {id}]]
      BY <1>5, <2>3, DeletedRow
    <3>2. rows' \in [Salts -> [Ids -> Row]] /\ \A r \in Salts : Clean(rows[r])'
      BY <1>0, <2>1, <3>1, WriteRow
    <3>3. task[t].left \ {id} \in SUBSET Ids
      BY <1>a DEF Task
    <3>4. [task[t] EXCEPT !.left = @ \ {id}] \in Task
      BY <1>a, <3>3 DEF Task
    <3>5. PICK x \in Task :
            /\ x = [task[t] EXCEPT !.left = @ \ {id}]
            /\ x.step = task[t].step /\ x.kind = task[t].kind /\ x.seen = task[t].seen
            /\ x.left \subseteq task[t].left
      BY <1>a, <3>4 DEF Task
    <3>6. TaskOK(x)'
      BY <1>0, <2>1, <3>5 DEF TaskOK, Steps
    <3>7. task' \in [Tasks -> Task] /\ \A u \in Tasks : TaskOK(task[u])'
      BY <2>1, <3>1, <3>5, <3>6, TasksStay
    <3>8. wiping' = TRUE
      BY <1>5, <2>3 DEF DeleteRow
    <3> QED BY <2>1, <3>2, <3>7, <3>8, ServerStays, MetaStays DEF Shape, TypeOK
  <2> QED BY <2>2, <2>3
<1> QED BY <1>1, <1>2, <1>3, <1>4, <1>5

\* A save, a move to the trash or out of it, on this device or another: the
\* entry keeps its key or gets the one of the writer, and is what the user
\* acknowledged.
LEMMA EditedRow ==
  ASSUME Shape, Edit \/ OtherEdit
  PROVE  \E row :
           /\ Fit(row) /\ Present(row)
           /\ rows' = [rows EXCEPT ![meta.salt] = [rows[meta.salt] EXCEPT !["entry"] = row]]
           /\ acked' = [edit |-> row.edit, dead |-> row.dead]
           /\ \/ row.key = rows[meta.salt]["entry"].key /\ Present(rows[meta.salt]["entry"])
              \/ Edit /\ row.key = key
              \/ OtherEdit /\ row.key = rows[meta.salt]["verifier"].key
<1>1. /\ meta.salt \in Salts /\ rows \in [Salts -> [Ids -> Row]]
      /\ \A id \in Ids : Fit(rows[meta.salt][id])
      /\ key \in Keys \cup {NoKey} /\ "entry" \in Ids /\ "verifier" \in Ids
  BY StateFacts DEF Edit, OtherEdit, Ids
<1>a. acked.edit + 1 \in Nat
  BY DEF Shape, TypeOK
<1>2. PICK old \in Row : old = rows[meta.salt]["entry"] /\ old.revision < MaxRevision
  BY <1>1 DEF Edit, OtherEdit
<1>3. Fit(old)
  BY <1>1, <1>2
<1>4. old.dead => Present(old)
  BY <1>3 DEF Fit, NoRow
<1>5. ASSUME NEW k \in Keys \cup {NoKey}, NEW dead \in BOOLEAN
      PROVE  /\ LET row == [old EXCEPT !.revision = @ + 1, !.dead = dead]
                IN  Fit(row) /\ Present(row) /\ row.key = old.key /\ row.dead = dead
             /\ LET row == [old EXCEPT !.revision = @ + 1, !.key = k, !.edit = acked.edit + 1]
                IN  Fit(row) /\ Present(row) /\ row.key = k /\ row.edit = acked.edit + 1
                    /\ row.dead = old.dead
  <2> DEFINE a == [old EXCEPT !.revision = @ + 1, !.dead = dead]
             b == [old EXCEPT !.revision = @ + 1, !.key = k, !.edit = acked.edit + 1]
             Next1 == [revision : {old.revision + 1}, dead : BOOLEAN, key : Keys \cup {NoKey},
                       pw : Passwords \cup {"none"}, edit : Nat]
  <2>1. a \in Next1 /\ a.key = old.key /\ a.dead = dead
    BY <1>2 DEF Row
  <2>2. b \in Next1 /\ b.key = k /\ b.edit = acked.edit + 1 /\ b.dead = old.dead
    BY <1>2, <1>a DEF Row
  <2>3. Fit(a) /\ Present(a) /\ Fit(b) /\ Present(b)
    <3>1. PICK p, q : p = a /\ q = b
      OBVIOUS
    <3>2. p \in Next1 /\ q \in Next1
      BY <2>1, <2>2, <3>1
    <3> HIDE DEF a, b
    <3>3. Fit(p) /\ Present(p)
      BY <1>2, <3>2, NextRow
    <3>4. Fit(q) /\ Present(q)
      BY <1>2, <3>2, NextRow
    <3> QED BY <3>1, <3>3, <3>4
  <2> QED BY <2>1, <2>2, <2>3
<1>6. CASE Edit
  <2>1. PICK dead \in BOOLEAN :
          /\ dead => Live(old)
          /\ WriteEntry(IF dead \/ rows[meta.salt]["entry"].dead
                        THEN [rows[meta.salt]["entry"] EXCEPT !.revision = @ + 1, !.dead = dead]
                        ELSE [rows[meta.salt]["entry"] EXCEPT !.revision = @ + 1, !.key = key,
                                                              !.edit = acked.edit + 1])
    BY <1>2, <1>6 DEF Edit
  <2>2. PICK row :
          /\ row = IF dead \/ rows[meta.salt]["entry"].dead
                   THEN [rows[meta.salt]["entry"] EXCEPT !.revision = @ + 1, !.dead = dead]
                   ELSE [rows[meta.salt]["entry"] EXCEPT !.revision = @ + 1, !.key = key,
                                                         !.edit = acked.edit + 1]
          /\ WriteEntry(row)
    BY <2>1
  <2>3. /\ Fit(row) /\ Present(row)
        /\ (row.key = old.key /\ Present(old)) \/ row.key = key
    <3>1. CASE dead \/ old.dead
      BY <1>1, <1>2, <1>4, <1>5, <2>1, <2>2, <3>1 DEF Live
    <3>2. CASE ~(dead \/ old.dead)
      BY <1>1, <1>2, <1>5, <2>2, <3>2
    <3> QED BY <3>1, <3>2
  <2> QED BY <1>1, <1>2, <1>6, <2>2, <2>3 DEF WriteEntry
<1>7. CASE OtherEdit
  <2>1. PICK k \in Keys \cup {NoKey} : k = rows[meta.salt]["verifier"].key
    BY <1>1 DEF Row
  <2>2. PICK row :
          /\ row = IF rows[meta.salt]["entry"].dead
                   THEN [rows[meta.salt]["entry"] EXCEPT !.revision = @ + 1, !.dead = FALSE]
                   ELSE [rows[meta.salt]["entry"] EXCEPT !.revision = @ + 1, !.edit = acked.edit + 1,
                                                         !.key = rows[meta.salt]["verifier"].key]
          /\ WriteEntry(row)
    BY <1>7 DEF OtherEdit
  <2>3. /\ Fit(row) /\ Present(row)
        /\ (row.key = old.key /\ Present(old)) \/ row.key = k
    <3>1. row = IF old.dead THEN [old EXCEPT !.revision = @ + 1, !.dead = FALSE]
              ELSE [old EXCEPT !.revision = @ + 1, !.edit = acked.edit + 1, !.key = k]
      BY <1>2, <2>1, <2>2
    <3>2. [old EXCEPT !.revision = @ + 1, !.edit = acked.edit + 1, !.key = k]
            = [old EXCEPT !.revision = @ + 1, !.key = k, !.edit = acked.edit + 1]
      BY <1>2 DEF Row
    <3> QED BY <1>4, <1>5, <2>1, <3>1, <3>2
  <2> QED BY <1>1, <1>2, <1>7, <2>1, <2>2, <2>3 DEF WriteEntry
<1> QED BY <1>6, <1>7

\* What is no step of a ceremony, and a ceremony that throws.
LEMMA WorldShape ==
  ASSUME Shape, ServeLate \/ Edit \/ OtherEdit \/ Lock \/ Reload \/ \E t \in Tasks : Fail(t)
  PROVE  Shape'
<1>a. /\ task \in [Tasks -> Task] /\ \A t \in Tasks : TaskOK(task[t])
      /\ meta # NoMeta => meta.salt \in Salts
      /\ struck \subseteq Mishaps
  BY StateFacts DEF Shape, TypeOK
<1>b. UNCHANGED <<task, used>> => task' \in [Tasks -> Task] /\ \A t \in Tasks : TaskOK(task[t])'
  BY <1>a DEF TaskOK, Clean
<1>1. CASE ServeLate
  <2>1. PICK r \in late : Rekey(r.from, r.to, r.moved) /\ late' = late \ {r}
    BY <1>1 DEF ServeLate
  <2>2. r \in Request /\ Clean(r.moved)
    BY <2>1 DEF Shape
  <2>3. r.from \in Salts /\ r.to \in Salts /\ r.moved \in [Ids -> Row]
    BY <2>2 DEF Request
  <2>4. rows' \in [Salts -> [Ids -> Row]] /\ \A s \in Salts : Clean(rows[s])'
    BY <2>1, <2>2, <2>3, RekeyRows
  <2>5. UNCHANGED <<meta, key, screen, task, acked, used, wiping, struck>>
    BY <1>1 DEF ServeLate, history
  <2>6. late' \subseteq Request /\ \A q \in late' : Clean(q.moved)'
    BY <2>1 DEF Shape, Clean
  <2> QED BY <1>b, <2>4, <2>5, <2>6, ServerStays, MetaStays DEF Shape, TypeOK
<1>2. CASE Edit \/ OtherEdit
  <2>1. PICK row :
           /\ Fit(row)
           /\ rows' = [rows EXCEPT ![meta.salt] = [rows[meta.salt] EXCEPT !["entry"] = row]]
           /\ acked' = [edit |-> row.edit, dead |-> row.dead]
    BY <1>2, EditedRow
  <2>2. /\ UNCHANGED <<meta, key, screen, task, late, used, wiping>> /\ meta # NoMeta
        /\ struck' \subseteq Mishaps
    BY <1>2, <1>a DEF Edit, OtherEdit, Strike
  <2>3. rows' \in [Salts -> [Ids -> Row]] /\ \A s \in Salts : Clean(rows[s])'
    BY <1>a, <2>1, <2>2, WriteRow DEF Ids
  <2>4. acked' \in [edit : Nat, dead : BOOLEAN]
    BY <2>1 DEF Fit, Row
  <2> QED BY <1>b, <2>2, <2>3, <2>4, ServerStays, MetaStays DEF Shape, TypeOK
<1>3. CASE Lock
  <2>1. /\ UNCHANGED <<rows, late, acked, used, meta, task, wiping, struck>>
        /\ screen' = "locked" /\ key' = NoKey
    BY <1>3 DEF Lock, server, history
  <2> QED BY <1>b, <2>1, ServerStays, MetaStays DEF Shape, TypeOK
<1>4. CASE Reload
  <2>1. /\ UNCHANGED <<rows, meta, acked, used, wiping>> /\ struck' \subseteq Mishaps
        /\ screen' = "locked" /\ key' = NoKey /\ task' = [t \in Tasks |-> Idle]
    BY <1>4, <1>a DEF Reload, Strike
  <2>2. \/ UNCHANGED late
        \/ \E t \in Tasks :
             /\ late' = {[from |-> task[t].from, to |-> task[t].to, moved |-> task[t].seen]}
             /\ task[t].step = "post"
    BY <1>4 DEF Reload, LeavesPost, Doing
  <2>3. late' \subseteq Request /\ \A r \in late' : Clean(r.moved)'
    <3>1. CASE UNCHANGED late
      BY <3>1, ServerStays DEF Clean
    <3>2. ASSUME NEW t \in Tasks, task[t].step = "post",
                 late' = {[from |-> task[t].from, to |-> task[t].to, moved |-> task[t].seen]}
          PROVE  late' \subseteq Request /\ \A r \in late' : Clean(r.moved)'
      <4>1. task[t] \in Task /\ TaskOK(task[t]) /\ used \subseteq Salts
        BY InHand
      <4>2. task[t].seen \in [Ids -> Row]
        BY <4>1 DEF Task
      <4>3. task[t].from \in Salts /\ task[t].to \in Salts /\ Clean(task[t].seen)
        BY <3>2, <4>1 DEF TaskOK
      <4> QED BY <3>2, <4>2, <4>3 DEF Request, Clean
    <3> QED BY <2>2, <3>1, <3>2
  <2>4. task' \in [Tasks -> Task] /\ \A t \in Tasks : TaskOK(task[t])'
    BY <2>1, IdleFacts DEF TaskOK, Clean
  <2> QED BY <2>1, <2>3, <2>4, ServerStays, MetaStays DEF Shape, TypeOK
<1>5. ASSUME NEW t \in Tasks, Fail(t) PROVE Shape'
  <2>1. /\ UNCHANGED <<rows, late, acked, used, meta, screen, wiping, struck>> /\ End(t)
        /\ key' \in {key, task[t].prev}
    BY <1>5 DEF Fail, server, history
  <2>2. key' \in Keys \cup {NoKey}
    BY <2>1, InHand
  <2> QED BY <2>1, <2>2, TasksEnd, ServerStays, MetaStays DEF Shape, TypeOK
<1> QED BY <1>1, <1>2, <1>3, <1>4, <1>5

\* Every step keeps the shape, whatever mishap strikes.
LEMMA ShapeStep == Shape /\ [Next]_vars => Shape'
<1> SUFFICES ASSUME Shape, [Next]_vars PROVE Shape'
  OBVIOUS
<1>1. ASSUME NEW t \in Tasks, Going(t) PROVE Shape'
  BY <1>1, UnlockingShape, ChangingShape, PostingShape, DeletingShape DEF Going
<1>2. CASE UNCHANGED vars
  <2>1. UNCHANGED <<rows, meta, key, screen, task, late, acked, used, wiping, struck>>
    BY <1>2 DEF vars
  <2>2. task' \in [Tasks -> Task] /\ \A t \in Tasks : TaskOK(task[t])'
    BY <2>1 DEF Shape, TaskOK, Clean
  <2> QED BY <2>1, <2>2, ServerStays, MetaStays DEF Shape, TypeOK, Clean
<1> QED BY <1>1, <1>2, StartingShape, WorldShape DEF Next

-----------------------------------------------------------------------------
(* Orderly, Keyed, Settled and Emptied.                                    *)

\* Without a ceremony there is nothing to know of one.
LEMMA IdleKept ==
  ASSUME NEW x \in Task, x = Idle
  PROVE  Placed(x)' /\ KeyedTask(x)' /\ SettledTask(x)' /\ EmptiedTask(x)'
<1>1. x.kind = "none" /\ x.step = "none"
  BY IdleFacts
<1>2. Placed(x)'
  BY <1>1 DEF Placed
<1>3. KeyedTask(x)'
  BY <1>1 DEF KeyedTask
<1>4. SettledTask(x)' /\ EmptiedTask(x)'
  BY <1>1 DEF SettledTask, EmptiedTask
<1> QED BY <1>2, <1>3, <1>4

\* While at most other devices interfere a ceremony runs alone, and what it
\* knows afterwards is all there is to know of ceremonies.
LEMMA AloneKept ==
  ASSUME Shape, NEW t \in Tasks, NEW x \in Task, Becomes(t, x),
         \A u \in Tasks \ {t} : task[u] = Idle
  PROVE  /\ \A u, v \in Tasks : task'[u] # Idle /\ task'[v] # Idle => u = v
         /\ task'[t] = x
         /\ Placed(x)' => \A u \in Tasks : Placed(task[u])'
         /\ KeyedTask(x)' => \A u \in Tasks : KeyedTask(task[u])'
         /\ SettledTask(x)' => \A u \in Tasks : SettledTask(task[u])'
         /\ EmptiedTask(x)' => \A u \in Tasks : EmptiedTask(task[u])'
<1>1. task \in [Tasks -> Task]
  BY StateFacts
<1>2. task'[t] = x /\ \A u \in Tasks \ {t} : task'[u] = Idle
  BY <1>1 DEF Becomes
<1>0. PICK y \in Task : y = Idle
  BY IdleFacts
<1>3. \A u \in Tasks : task'[u] \in {x, y}
  BY <1>0, <1>2
<1>4. Placed(x)' => \A u \in Tasks : Placed(task[u])'
  BY <1>0, <1>3, IdleKept DEF Placed
<1>5. KeyedTask(x)' => \A u \in Tasks : KeyedTask(task[u])'
  BY <1>0, <1>3, IdleKept DEF KeyedTask
<1>6. SettledTask(x)' => \A u \in Tasks : SettledTask(task[u])'
  BY <1>0, <1>3, IdleKept DEF SettledTask
<1>7. EmptiedTask(x)' => \A u \in Tasks : EmptiedTask(task[u])'
  BY <1>0, <1>3, IdleKept DEF EmptiedTask
<1> QED BY <1>2, <1>4, <1>5, <1>6, <1>7

\* A step of a ceremony that leaves the service and the vault's record alone.
LEMMA QuietStep ==
  ASSUME SessionIInv, NEW t \in Tasks, NEW x \in Task, Becomes(t, x),
         UNCHANGED <<rows, meta, late, acked, used, wiping>>, struck \subseteq struck',
         struck' \subseteq {"other"} =>
           /\ \A u \in Tasks \ {t} : task[u] = Idle
           /\ Placed(x)'
           /\ x = Idle /\ screen' = "open" => meta.pending = NoSalt,
         struck' \subseteq {"other"} /\ ~wiping =>
           /\ KeyedTask(x)'
           /\ screen' = "open" =>
                /\ meta.kit => ~Unwrapped
                /\ key' = VaultKeyNow \/ x.step \in {"check", "post", "adopt"},
         struck' = {} /\ ~wiping => SettledTask(x)',
         struck' = {} => EmptiedTask(x)'
  PROVE  Kept'
<1>a. Shape /\ Kept
  BY DEF SessionIInv
<1>0. /\ Home' = Home /\ VaultKeyNow' = VaultKeyNow /\ Unwrapped' = Unwrapped
      /\ Sound' = Sound
  BY DEF Home, VaultKeyNow, Unwrapped, Sound
<1>1. ASSUME struck' \subseteq {"other"} PROVE Orderly'
  <2>1. Orderly
    BY <1>a, <1>1 DEF Kept
  <2>2. /\ \A u, v \in Tasks : task'[u] # Idle /\ task'[v] # Idle => u = v
        /\ \A u \in Tasks : Placed(task[u])'
        /\ task'[t] = x
    BY <1>1, <1>a, AloneKept
  <2>3. screen' = "open" /\ Quiet' => meta'.pending = NoSalt
    BY <1>1, <2>2 DEF Quiet
  <2> QED BY <1>0, <2>1, <2>2, <2>3 DEF Orderly
<1>2. ASSUME struck' \subseteq {"other"}, ~wiping PROVE Keyed'
  <2>1. Keyed
    BY <1>a, <1>2 DEF Kept
  <2>2. task'[t] = x /\ \A u \in Tasks : KeyedTask(task[u])'
    BY <1>2, <1>a, AloneKept
  <2> QED BY <1>0, <1>2, <2>1, <2>2 DEF Keyed
<1>3. ASSUME struck' = {}, ~wiping PROVE Settled'
  <2>1. Settled
    BY <1>a, <1>3 DEF Kept
  <2>2. \A u \in Tasks : SettledTask(task[u])'
    BY <1>3, <1>a, AloneKept
  <2> QED BY <1>0, <2>1, <2>2 DEF Settled
<1>4. ASSUME struck' = {} PROVE Emptied'
  <2>1. Emptied
    BY <1>a, <1>4 DEF Kept
  <2>2. \A u \in Tasks : EmptiedTask(task[u])'
    BY <1>4, <1>a, AloneKept
  <2> QED BY <2>1, <2>2 DEF Emptied
<1> QED BY <1>1, <1>2, <1>3, <1>4 DEF Kept

\* What the session has in hand while at most other devices interfere.
LEMMA InOrder ==
  ASSUME SessionIInv, struck \subseteq {"other"}
  PROVE  /\ Shape /\ Orderly
         /\ ~wiping => Keyed /\ Sound
         /\ \A u \in Tasks : Placed(task[u])
         /\ \A t \in Tasks : task[t] # Idle => \A u \in Tasks \ {t} : task[u] = Idle
         /\ meta.pending = NoSalt => Home = meta.salt
  BY DEF SessionIInv, Kept, Orderly, Keyed, Home

\* Between ceremonies an open vault has no marker, and its key is the vault's.
LEMMA OpenAndQuiet ==
  ASSUME SessionIInv, struck \subseteq {"other"}, screen = "open", Quiet
  PROVE  /\ meta.pending = NoSalt
         /\ ~wiping => key = VaultKeyNow /\ (meta.kit => ~Unwrapped)
<1>1. \A t \in Tasks : task[t].step = "none"
  BY IdleFacts DEF Quiet
<1> QED BY <1>1, InOrder DEF Orderly, Keyed

\* A button starts a ceremony that knows the key of the vault.
LEMMA StartingKeeps ==
  ASSUME SessionIInv, NEW t \in Tasks, Starting(t)
  PROVE  Kept'
<1>a. Shape /\ {"unlock", "verify", "change", "reset"} \subseteq Kinds
      /\ {"probe", "open", "look", "list all"} \subseteq StepNames
  BY DEF SessionIInv, Kinds, StepNames
<1>b. struck \subseteq struck' => (struck' \subseteq {"other"} => struck \subseteq {"other"})
  OBVIOUS
<1>1. ASSUME NEW pw \in Passwords, Unlock(t, pw) PROVE Kept'
  <2>1. /\ UNCHANGED wiping /\ screen' = "asked"
        /\ struck' = struck \cup Crowded \cup IF TypedRight(pw) THEN {} ELSE {"typo"}
    BY <1>1 DEF Unlock, Strike
  <2>2. PICK step \in {"open", "probe"} :
          /\ Begin(t, "unlock", step, pw, pw)
          /\ step = "probe" <=> meta.pending # NoSalt
          /\ step = "probe" => key' = Derived(pw, meta.pending)
    BY <1>1 DEF Unlock
  <2>3. UNCHANGED <<rows, late, acked, used, meta>>
    BY <1>a, <2>2, Begun
  <2>x. PICK x \in Task : Becomes(t, x) /\ BegunAs(x, "unlock", step, pw, pw)
    BY <1>a, <2>2, Begun
  <2>4. /\ x.kind = "unlock" /\ x.step = step /\ x.pw = pw
        /\ x.to = IF step = "probe" THEN meta.pending ELSE NoSalt
    BY <2>x DEF BegunAs
  <2>5. struck' \subseteq {"other"} =>
          struck \subseteq {"other"} /\ TypedRight(pw) /\ \A u \in Tasks : task[u] = Idle
    BY <2>1 DEF Crowded, Quiet
  <2>6. ASSUME struck' \subseteq {"other"} PROVE Placed(x)'
    <3>1. step = "probe" /\ rows[x.to] # Empty => Committed(key, x.to)'
      BY <2>2, <2>3, <2>4, <2>5, <2>6 DEF TypedRight, Committed
    <3> QED BY <2>1, <2>2, <2>3, <2>4, <3>1 DEF Placed
  <2>7. ASSUME struck' \subseteq {"other"}, ~wiping, meta.kit, Unwrapped
        PROVE  VaultKeyNow = Derived(pw, Home)
    <3>1. Sound /\ TypedRight(pw)
      BY <2>5, <2>7, InOrder
    <3>2. CASE Home = meta.pending /\ meta.pending # NoSalt /\ rows[meta.pending] # Empty
      BY <3>1, <3>2 DEF Sound, TypedRight, Committed, Live, VaultKeyNow
    <3>3. CASE Home = meta.salt
      BY <2>7, <3>1, <3>3 DEF Sound, TypedRight, VaultKeyNow, Unwrapped
    <3> QED BY <3>2, <3>3 DEF Home
  <2>8. ASSUME struck' \subseteq {"other"}, ~wiping PROVE KeyedTask(x)'
    <3>1. Home' = Home /\ VaultKeyNow' = VaultKeyNow /\ Unwrapped' = Unwrapped
      BY <2>3 DEF Home, VaultKeyNow, Unwrapped
    <3> QED BY <2>2, <2>3, <2>4, <2>7, <2>8, <3>1 DEF KeyedTask
  <2>9. SettledTask(x)' /\ EmptiedTask(x)'
    BY <2>4 DEF SettledTask, EmptiedTask
  <2>10. x # Idle
    BY <2>4, IdleFacts
  <2> QED BY <2>1, <2>3, <2>x, <2>4, <2>5, <2>6, <2>8, <2>9, <2>10, QuietStep
<1>2. ASSUME NEW kind \in {"verify", "change", "reset"}, NEW step \in {"open", "look", "list all"},
             <<kind, step>> \in {<<"verify", "open">>, <<"change", "look">>, <<"reset", "list all">>},
             NEW pw \in Passwords \cup {"none"}, NEW next \in Passwords \cup {"none"},
             Begin(t, kind, step, pw, next),
             screen = "open", Strike(Crowded), UNCHANGED <<key, screen, wiping>>
      PROVE  Kept'
  <2>1. UNCHANGED <<rows, late, acked, used, meta>>
    BY <1>a, <1>2, Begun
  <2>x. PICK x \in Task : Becomes(t, x) /\ BegunAs(x, kind, step, pw, next)
    BY <1>a, <1>2, Begun
  <2>2. x.kind = kind /\ x.step = step /\ x.prev = key /\ x.to = NoSalt
    BY <1>2, <2>x DEF BegunAs
  <2>3. struck' \subseteq {"other"} =>
          struck \subseteq {"other"} /\ Quiet /\ \A u \in Tasks : task[u] = Idle
    BY <1>2 DEF Crowded, Quiet, Strike
  <2>4. ASSUME struck' \subseteq {"other"} PROVE Placed(x)' /\ meta.pending = NoSalt
    <3>1. meta.pending = NoSalt
      BY <1>2, <2>3, <2>4, OpenAndQuiet
    <3> QED BY <1>2, <2>1, <2>2, <3>1 DEF Placed
  <2>5. ASSUME struck' \subseteq {"other"}, ~wiping
        PROVE  KeyedTask(x)' /\ (meta.kit => ~Unwrapped) /\ key' = VaultKeyNow
    <3>1. key = VaultKeyNow /\ (meta.kit => ~Unwrapped)
      BY <1>2, <2>3, <2>5, OpenAndQuiet
    <3>2. Home' = Home /\ VaultKeyNow' = VaultKeyNow /\ Unwrapped' = Unwrapped
      BY <2>1 DEF Home, VaultKeyNow, Unwrapped
    <3>3. KeyedTask(x)'
      BY <1>2, <2>1, <2>2, <3>1, <3>2 DEF KeyedTask
    <3> QED BY <1>2, <3>1, <3>3
  <2>6. SettledTask(x)' /\ EmptiedTask(x)'
    BY <1>2, <2>2 DEF SettledTask, EmptiedTask
  <2>7. struck \subseteq struck'
    BY <1>2 DEF Strike
  <2> QED BY <1>2, <2>x, <2>1, <2>2, <2>3, <2>4, <2>5, <2>6, <2>7, QuietStep
<1>3. ASSUME NEW pw \in Passwords, VerifyPassword(t, pw) PROVE Kept'
  BY <1>2, <1>3 DEF VerifyPassword
<1>4. ASSUME NEW pw \in Passwords, NEW next \in Passwords, ChangeMasterPassword(t, pw, next)
      PROVE  Kept'
  BY <1>2, <1>4 DEF ChangeMasterPassword
<1>5. CASE DeleteEverywhere(t)
  BY <1>2, <1>5 DEF DeleteEverywhere
<1> QED BY <1>1, <1>3, <1>4, <1>5 DEF Starting

\* A step to which a ceremony carries everything else along.
Carried(x, y, step) ==
  /\ x.step = step /\ x.kind = y.kind /\ x.pw = y.pw /\ x.next = y.next /\ x.prev = y.prev
  /\ x.key = y.key /\ x.from = y.from /\ x.to = y.to /\ x.seen = y.seen /\ x.left = y.left

\* Going to a step changes nothing else.
LEMMA Gone ==
  ASSUME Shape, NEW t \in Tasks, NEW step \in StepNames, Goto(t, step)
  PROVE  \E x \in Task : Becomes(t, x) /\ Carried(x, task[t], step)
<1>1. task[t] \in Task /\ task \in [Tasks -> Task]
  BY InHand
<1>2. PICK x : x = [task[t] EXCEPT !.step = step]
  OBVIOUS
<1>3. x \in Task /\ Carried(x, task[t], step)
  BY <1>1, <1>2 DEF Task, Carried
<1> QED BY <1>2, <1>3 DEF Goto, Becomes

\* A ceremony that ends leaves the session with the key of the vault.
LEMMA QuietEnd ==
  ASSUME SessionIInv, NEW t \in Tasks, End(t), task[t] # Idle,
         UNCHANGED <<rows, meta, late, acked, used, wiping, struck>>,
         struck \subseteq {"other"} /\ screen' = "open" => meta.pending = NoSalt,
         struck \subseteq {"other"} /\ ~wiping /\ screen' = "open" =>
           (meta.kit => ~Unwrapped) /\ key' = VaultKeyNow
  PROVE  Kept'
<1>1. PICK x \in Task : x = Idle
  BY IdleFacts
<1>2. Becomes(t, x)
  BY <1>1 DEF End, Becomes
<1>3. Placed(x)' /\ KeyedTask(x)' /\ SettledTask(x)' /\ EmptiedTask(x)'
  BY <1>1, IdleKept
<1>4. struck \subseteq {"other"} => \A u \in Tasks \ {t} : task[u] = Idle
  BY InOrder
<1> QED BY <1>2, <1>3, <1>4, QuietStep

\* What an open session knows while a ceremony holds no key aside.
LEMMA KeyInUse ==
  ASSUME SessionIInv, NEW t \in Tasks, struck \subseteq {"other"}, ~wiping, screen = "open",
         task[t] # Idle, task[t].step \notin {"check", "post", "adopt"}
  PROVE  (meta.kit => ~Unwrapped) /\ key = VaultKeyNow
<1>1. \A u \in Tasks \ {t} : task[u] = Idle
  BY InOrder
<1>2. \A u \in Tasks : task[u].step \notin {"check", "post", "adopt"}
  BY <1>1, IdleFacts
<1> QED BY <1>2, InOrder DEF Keyed

\* A ceremony at one of its steps.
LEMMA AtStep ==
  ASSUME SessionIInv, NEW t \in Tasks, task[t].step # "none"
  PROVE  /\ task[t] # Idle /\ Shape
         /\ struck \subseteq {"other"} =>
              /\ \A u \in Tasks \ {t} : task[u] = Idle
              /\ Placed(task[t])
              /\ task[t].step \notin {"probe", "post", "adopt"} =>
                   meta.pending = NoSalt /\ Home = meta.salt
         /\ struck \subseteq {"other"} /\ ~wiping => Sound /\ KeyedTask(task[t])
<1>1. task[t] # Idle
  BY IdleFacts
<1>2. SessionIInv /\ struck \subseteq {"other"} => Placed(task[t])
  BY InOrder
<1> QED BY <1>1, <1>2, InOrder DEF Placed, Keyed, SessionIInv

\* A request that fails ends its ceremony.
LEMMA FailKeeps ==
  ASSUME SessionIInv, NEW t \in Tasks, Fail(t)
  PROVE  Kept'
<1>1. /\ task[t].step \notin {"none", "probe", "post", "adopt"} /\ End(t)
      /\ key' = IF task[t].step = "check" THEN task[t].prev ELSE key
      /\ UNCHANGED <<rows, meta, late, acked, used, screen, wiping, struck>>
  BY DEF Fail, server, history
<1>2. /\ task[t] # Idle
      /\ struck \subseteq {"other"} => meta.pending = NoSalt
  BY <1>1, AtStep
<1>3. ASSUME struck \subseteq {"other"}, ~wiping, screen = "open"
      PROVE  (meta.kit => ~Unwrapped) /\ key' = VaultKeyNow
  <2>1. CASE task[t].step = "check"
    <3>1. KeyedTask(task[t]) /\ TaskOK(task[t])
      BY <1>1, <1>3, AtStep, InHand
    <3>2. task[t].kind = "change"
      BY <2>1, <3>1 DEF TaskOK, Steps
    <3>3. task[t].prev = VaultKeyNow /\ ~meta.kit
      BY <1>3, <2>1, <3>1, <3>2 DEF KeyedTask
    <3> QED BY <1>1, <2>1, <3>3
  <2>2. CASE task[t].step # "check"
    BY <1>1, <1>2, <1>3, <2>2, KeyInUse
  <2> QED BY <2>1, <2>2
<1> QED BY <1>1, <1>2, <1>3, QuietEnd

\* An unlock opens the page when the key it has opens everything.
LEMMA FetchKeeps ==
  ASSUME SessionIInv, NEW t \in Tasks, Fetch(t)
  PROVE  Kept'
<1>1. /\ task[t].step = "fetch" /\ task[t].kind \in {"unlock", "change"} /\ End(t)
      /\ screen' = IF task[t].kind = "unlock" /\ Hydrates(key, rows[meta.salt]) THEN "open"
                   ELSE screen
      /\ UNCHANGED <<rows, meta, late, acked, used, key, wiping, struck>>
  BY DEF Fetch, Doing, server, history
<1>2. /\ task[t] # Idle
      /\ struck \subseteq {"other"} => meta.pending = NoSalt /\ Home = meta.salt /\ Placed(task[t])
  BY <1>1, AtStep
<1>3. ASSUME struck \subseteq {"other"}, ~wiping, screen' = "open"
      PROVE  (meta.kit => ~Unwrapped) /\ key = VaultKeyNow
  <2>1. CASE screen = "open"
    BY <1>1, <1>2, <1>3, <2>1, KeyInUse
  <2>2. CASE screen # "open"
    <3>1. KeyedTask(task[t]) /\ Sound
      BY <1>1, <1>3, AtStep
    <3>2. task[t].kind = "unlock" /\ Hydrates(key, rows[meta.salt])
      BY <1>1, <1>3, <2>2
    <3>3. key = VaultKeyNow
      BY <1>2, <1>3, <3>1, <3>2 DEF Hydrates, Accepts, Sound, VaultKeyNow
    <3>4. meta.kit => ~Unwrapped
      BY <1>1, <3>1, <3>2 DEF KeyedTask
    <3> QED BY <3>3, <3>4
  <2> QED BY <2>1, <2>2
<1> QED BY <1>1, <1>2, <1>3, QuietEnd

\* A ceremony that goes on, its place and the key of the session aside.
LEMMA QuietGo ==
  ASSUME SessionIInv, NEW t \in Tasks, NEW x \in Task, Becomes(t, x), x.kind = task[t].kind,
         task[t].step \notin {"none", "probe", "post", "adopt"},
         x.step \notin {"none", "probe", "post", "adopt"},
         UNCHANGED <<rows, meta, late, acked, used, screen, wiping, struck>>,
         struck \subseteq {"other"} /\ ~wiping =>
           KeyedTask(x) /\ (screen = "open" => key' = VaultKeyNow \/ x.step = "check"),
         struck = {} /\ ~wiping => SettledTask(x),
         struck = {} => EmptiedTask(x)
  PROVE  Kept'
<1>1. x # Idle
  BY IdleFacts
<1>2. ASSUME struck \subseteq {"other"} PROVE Placed(x)' /\ \A u \in Tasks \ {t} : task[u] = Idle
  <2>1. Placed(task[t]) /\ meta.pending = NoSalt /\ \A u \in Tasks \ {t} : task[u] = Idle
    BY <1>2, AtStep
  <2> QED BY <2>1 DEF Placed
<1>3. ASSUME struck \subseteq {"other"}, ~wiping
      PROVE  KeyedTask(x)' /\ (screen' = "open" /\ meta.kit => ~Unwrapped)
  <2>1. Home' = Home /\ VaultKeyNow' = VaultKeyNow /\ Unwrapped' = Unwrapped
    BY DEF Home, VaultKeyNow, Unwrapped
  <2>2. KeyedTask(x)'
    BY <1>3, <2>1 DEF KeyedTask
  <2> QED BY <1>3, <2>2, InOrder DEF Keyed
<1>4. SettledTask(x)' = SettledTask(x) /\ EmptiedTask(x)' = EmptiedTask(x)
  BY DEF SettledTask, EmptiedTask
<1> QED BY <1>1, <1>2, <1>3, <1>4, QuietStep

\* A password that opens the vault gives the session its key.
LEMMA OpenKeeps ==
  ASSUME SessionIInv, NEW t \in Tasks, OpenPassword(t)
  PROVE  Kept'
<1> DEFINE opened == Unlocks(task[t].pw, meta.salt)
           writes == ~Live(rows[meta.salt]["wrapper"]) /\ meta.kit
           done == opened = NoKey \/ (task[t].kind = "verify" /\ ~writes)
<1>1. /\ task[t].kind \in {"unlock", "verify", "change"} /\ task[t].step = "open"
      /\ meta # NoMeta /\ UNCHANGED <<rows, meta, late, acked, used, screen, wiping, struck>>
  BY DEF OpenPassword, Doing, server, history
<1>2. /\ opened = NoKey => End(t) /\ key' = key
      /\ opened # NoKey => /\ key' = IF task[t].kind = "verify" /\ ~writes THEN task[t].prev
                                     ELSE opened
                           /\ task[t].kind = "verify" /\ ~writes => End(t)
      /\ ~done => task' = [task EXCEPT ![t] = [task[t] EXCEPT !.key = opened,
                             !.step = IF writes THEN "put legacy"
                                      ELSE IF task[t].kind = "unlock" THEN "fetch"
                                      ELSE "put wrapper"]]
  BY InHand DEF OpenPassword, SessionIInv
<1>3. /\ task[t] # Idle /\ Shape
      /\ struck \subseteq {"other"} => meta.pending = NoSalt /\ Home = meta.salt /\ Placed(task[t])
      /\ struck \subseteq {"other"} /\ ~wiping => Sound /\ KeyedTask(task[t])
  BY <1>1, AtStep
<1>4. task[t] \in Task /\ TaskOK(task[t]) /\ opened \in Keys \cup {NoKey}
  <2>1. task[t] \in Task /\ TaskOK(task[t]) /\ meta.salt \in Salts
    BY <1>1, <1>3, InHand
  <2> QED BY <1>1, <1>3, <2>1, UnlocksKey DEF TaskOK
<1>5. ASSUME struck \subseteq {"other"}, ~wiping
      PROVE  /\ Live(rows[meta.salt]["wrapper"]) /\ opened # NoKey => opened = VaultKeyNow
             /\ writes => task[t].kind = "unlock" /\ opened = VaultKeyNow
             /\ task[t].kind \in {"verify", "change"} /\ screen = "open" => task[t].prev = VaultKeyNow
             /\ Unwrapped <=> ~Live(rows[meta.salt]["wrapper"])
             /\ task[t].kind = "change" => ~Unwrapped /\ task[t].to = NoSalt
  <2>1. Unwrapped <=> ~Live(rows[meta.salt]["wrapper"])
    BY <1>3, <1>5 DEF Unwrapped
  <2>2. Live(rows[meta.salt]["wrapper"]) /\ opened # NoKey => opened = VaultKeyNow
    BY <1>3, <1>5 DEF Sound, Unlocks, Live
  <2>3. writes => task[t].kind = "unlock"
    BY <1>1, <1>3, <1>5, <2>1 DEF KeyedTask
  <2>4. writes => opened = VaultKeyNow
    BY <1>1, <1>3, <1>5, <2>1, <2>3 DEF KeyedTask, Unlocks
  <2>5. /\ task[t].kind \in {"verify", "change"} /\ screen = "open" => task[t].prev = VaultKeyNow
        /\ task[t].kind = "change" => ~Unwrapped /\ task[t].to = NoSalt
    BY <1>1, <1>3, <1>5 DEF KeyedTask
  <2> QED BY <2>1, <2>2, <2>3, <2>4, <2>5
<1>6. CASE done
  <2>1. End(t)
    BY <1>2, <1>6
  <2>2. ASSUME struck \subseteq {"other"}, ~wiping, screen = "open"
        PROVE  (meta.kit => ~Unwrapped) /\ key' = VaultKeyNow
    <3>1. (meta.kit => ~Unwrapped) /\ key = VaultKeyNow
      BY <1>1, <1>3, <2>2, KeyInUse
    <3> QED BY <1>2, <1>5, <1>6, <2>2, <3>1
  <2> QED BY <1>1, <1>3, <2>1, <2>2, QuietEnd
<1>7. CASE ~done
  <2>1. PICK step \in StepNames :
          step = IF writes THEN "put legacy" ELSE IF task[t].kind = "unlock" THEN "fetch"
                 ELSE "put wrapper"
    BY DEF StepNames
  <2>2. PICK x : x = [task[t] EXCEPT !.key = opened, !.step = step]
    OBVIOUS
  <2>3. Becomes(t, x)
    BY <1>2, <1>7, <2>1, <2>2 DEF Becomes
  <2>4. /\ x \in Task /\ x.step = step /\ x.key = opened /\ x.kind = task[t].kind
        /\ x.pw = task[t].pw /\ x.prev = task[t].prev /\ x.to = task[t].to
    BY <1>4, <2>2 DEF Task
  <2>5. SettledTask(x) /\ EmptiedTask(x)
    BY <2>1, <2>4 DEF SettledTask, EmptiedTask
  <2>6. ASSUME struck \subseteq {"other"}, ~wiping
        PROVE  KeyedTask(x) /\ (screen = "open" => key' = VaultKeyNow)
    <3>2. CASE writes
      <4>1. step = "put legacy" /\ task[t].kind = "unlock" /\ opened = VaultKeyNow
        BY <1>5, <2>1, <2>6, <3>2
      <4>2. KeyedTask(x)
        BY <2>4, <4>1 DEF KeyedTask
      <4> QED BY <1>2, <1>7, <4>1, <4>2
    <3>3. CASE ~writes /\ task[t].kind = "unlock"
      <4>1. screen # "open"
        BY <1>3, <2>6, <3>3 DEF Placed
      <4>2. step = "fetch" /\ (meta.kit => ~Unwrapped)
        BY <1>5, <2>1, <2>6, <3>3
      <4>3. KeyedTask(x)
        BY <2>4, <3>3, <4>1, <4>2 DEF KeyedTask
      <4> QED BY <4>1, <4>3
    <3>4. CASE ~writes /\ task[t].kind = "change"
      <4>1. step = "put wrapper" /\ opened = VaultKeyNow /\ ~Unwrapped /\ task[t].to = NoSalt
        BY <1>5, <1>7, <2>1, <2>6, <3>4
      <4>2. KeyedTask(x)
        BY <1>5, <2>4, <2>6, <3>4, <4>1 DEF KeyedTask
      <4> QED BY <1>2, <1>7, <3>4, <4>1, <4>2
    <3> QED BY <1>1, <1>7, <3>2, <3>3, <3>4
  <2>7. x.step \notin {"none", "probe", "post", "adopt"}
    BY <2>1, <2>4
  <2> QED BY <1>1, <2>3, <2>4, <2>5, <2>6, <2>7, QuietGo
<1> QED BY <1>6, <1>7

\* The change of a password sets the key of the session aside while it proves
\* the current password, and lists the rows it will move.
LEMMA ChangingKeeps ==
  ASSUME SessionIInv, NEW t \in Tasks, HasPasswordWrap(t) \/ Check(t) \/ List(t)
  PROVE  Kept'
<1>1. /\ task[t].kind = "change" /\ task[t].step \in {"look", "check", "list"} /\ meta # NoMeta
      /\ UNCHANGED <<rows, meta, late, acked, used, screen, wiping, struck>>
  BY DEF HasPasswordWrap, Check, List, Doing, server, history
<1>2. /\ task[t] # Idle /\ Shape
      /\ struck \subseteq {"other"} => meta.pending = NoSalt /\ Home = meta.salt
      /\ struck \subseteq {"other"} /\ ~wiping => Sound /\ KeyedTask(task[t])
  BY <1>1, AtStep
<1>3. task[t] \in Task /\ key \in Keys \cup {NoKey} /\ meta.salt \in Salts
      /\ rows[meta.salt] \in [Ids -> Row]
  BY <1>1, <1>2, InHand
<1>4. CASE HasPasswordWrap(t)
  <2>1. PICK step \in StepNames :
          step = IF Live(rows[meta.salt]["wrapper"]) THEN "open" ELSE "check"
    BY DEF StepNames
  <2>2. PICK x : x = [task[t] EXCEPT !.step = step, !.prev = key]
    OBVIOUS
  <2>3. Becomes(t, x)
    BY <1>2, <1>4, <2>1, <2>2, InHand DEF HasPasswordWrap, Becomes
  <2>4. /\ x \in Task /\ x.step = step /\ x.prev = key /\ x.kind = task[t].kind /\ x.to = task[t].to
    BY <1>3, <2>2 DEF Task
  <2>5. SettledTask(x) /\ EmptiedTask(x)
    BY <2>1, <2>4 DEF SettledTask, EmptiedTask
  <2>6. ASSUME struck \subseteq {"other"}, ~wiping
        PROVE  KeyedTask(x) /\ (screen = "open" => key' = VaultKeyNow \/ x.step = "check")
    <3>1. /\ Unwrapped <=> step = "check"
          /\ meta.kit => ~Unwrapped
          /\ task[t].to = NoSalt
      BY <1>1, <1>2, <1>4, <2>1, <2>6 DEF HasPasswordWrap, Doing, KeyedTask, Unwrapped
    <3>2. screen = "open" => key = VaultKeyNow
      BY <1>1, <1>2, <1>4, <2>6, KeyInUse DEF HasPasswordWrap, Doing
    <3>3. KeyedTask(x)
      BY <1>1, <2>1, <2>4, <3>1, <3>2 DEF KeyedTask
    <3>4. step = "open" => key' = key
      BY <1>4, <2>1 DEF HasPasswordWrap
    <3> QED BY <2>1, <2>4, <3>2, <3>3, <3>4
  <2>7. x.step \notin {"none", "probe", "post", "adopt"}
    BY <2>1, <2>4
  <2> QED BY <1>1, <2>3, <2>4, <2>5, <2>6, <2>7, QuietGo
<1>5. CASE Check(t)
  <2>1. task[t].step = "check" /\ key' = task[t].prev
    BY <1>5 DEF Check, Doing
  <2>2. struck \subseteq {"other"} /\ ~wiping =>
          /\ ~meta.kit
          /\ screen = "open" => task[t].prev = VaultKeyNow
    BY <1>1, <1>2, <2>1 DEF KeyedTask
  <2>3. CASE End(t)
    BY <1>1, <1>2, <2>1, <2>2, <2>3, QuietEnd
  <2>4. CASE Goto(t, "list")
    <3>1. PICK x \in Task : Becomes(t, x) /\ Carried(x, task[t], "list")
      BY <1>2, <2>4, Gone DEF StepNames
    <3>2. SettledTask(x) /\ EmptiedTask(x) /\ x.step = "list" /\ x.kind = task[t].kind
      BY <3>1 DEF SettledTask, EmptiedTask, Carried
    <3>3. ASSUME struck \subseteq {"other"}, ~wiping PROVE KeyedTask(x)
      BY <1>1, <1>2, <2>1, <3>1, <3>3 DEF KeyedTask, Carried
    <3> QED BY <1>1, <2>1, <2>2, <3>1, <3>2, <3>3, QuietGo
  <2> QED BY <1>5, <2>3, <2>4 DEF Check
<1>6. CASE List(t)
  <2>1. task[t].step = "list" /\ key' = key
    BY <1>6 DEF List, Doing
  <2>2. PICK seen \in [Ids -> Row] : seen = rows[meta.salt]
    BY <1>3
  <2>3. PICK x : x = [task[t] EXCEPT !.step = "read", !.seen = seen]
    OBVIOUS
  <2>4. Becomes(t, x)
    BY <1>2, <1>6, <2>2, <2>3, InHand DEF List, Becomes
  <2>5. /\ x \in Task /\ x.step = "read" /\ x.seen = rows[meta.salt] /\ x.prev = task[t].prev
        /\ x.kind = task[t].kind
    <3>1. "read" \in StepNames
      BY DEF StepNames
    <3> QED BY <1>3, <2>2, <2>3, <3>1 DEF Task
  <2>6. SettledTask(x) /\ EmptiedTask(x)
    BY <2>5 DEF SettledTask, EmptiedTask
  <2>7. ASSUME struck \subseteq {"other"}, ~wiping
        PROVE  KeyedTask(x) /\ (screen = "open" => key = VaultKeyNow)
    <3>1. /\ Live(x.seen["verifier"]) /\ Present(x.seen["entry"])
          /\ ~meta.kit /\ Unwrapped
          /\ screen = "open" => task[t].prev = VaultKeyNow
      BY <1>1, <1>2, <2>1, <2>5, <2>7 DEF Sound, KeyedTask
    <3>2. KeyedTask(x)
      BY <1>1, <2>5, <3>1 DEF KeyedTask
    <3> QED BY <1>2, <2>1, <2>7, <3>2, KeyInUse
  <2> QED BY <1>1, <2>1, <2>4, <2>5, <2>6, <2>7, QuietGo
<1> QED BY <1>4, <1>5, <1>6

\* Before a deletion of the vault tombstones a row it lists them all.
LEMMA ListingKeeps ==
  ASSUME SessionIInv, NEW t \in Tasks, ListAll(t) \/ Deleted(t)
  PROVE  Kept'
<1>1. /\ task[t].kind = "reset" /\ task[t].step \in {"list all", "tombstone"} /\ meta # NoMeta
      /\ UNCHANGED <<rows, meta, late, acked, used, key, screen, wiping, struck>>
  BY DEF ListAll, Deleted, Doing, server, history
<1>2. /\ task[t] # Idle /\ Shape
      /\ struck \subseteq {"other"} => meta.pending = NoSalt /\ Home = meta.salt
      /\ struck \subseteq {"other"} /\ ~wiping => Sound /\ KeyedTask(task[t])
  BY <1>1, AtStep
<1>3. task[t] \in Task /\ meta.salt \in Salts /\ rows[meta.salt] \in [Ids -> Row]
  BY <1>1, <1>2, InHand
<1>4. CASE ListAll(t)
  <2>1. PICK seen \in [Ids -> Row], left \in SUBSET Ids :
          seen = rows[meta.salt] /\ left = {id \in Ids : Live(rows[meta.salt][id])}
    BY <1>3
  <2>2. PICK x : x = [task[t] EXCEPT !.step = "tombstone", !.seen = seen, !.left = left]
    OBVIOUS
  <2>3. Becomes(t, x)
    BY <1>2, <1>4, <2>1, <2>2, InHand DEF ListAll, Becomes
  <2>4. /\ x \in Task /\ x.step = "tombstone" /\ x.kind = task[t].kind
        /\ x.left = {id \in Ids : Live(rows[meta.salt][id])}
    <3>1. "tombstone" \in StepNames
      BY DEF StepNames
    <3>2. x \in Task /\ x.step = "tombstone" /\ x.kind = task[t].kind /\ x.left = left
      BY <1>3, <2>1, <2>2, <3>1 DEF Task
    <3> QED BY <2>1, <3>2
  <2>5. SettledTask(x) /\ EmptiedTask(x)
    BY <2>4 DEF SettledTask, EmptiedTask
  <2>6. ASSUME struck \subseteq {"other"}, ~wiping
        PROVE  KeyedTask(x) /\ (screen = "open" => key = VaultKeyNow)
    <3>1. "verifier" \in x.left
      BY <1>2, <2>4, <2>6 DEF Sound, Ids
    <3>2. meta.kit => ~Unwrapped
      BY <1>1, <1>2, <2>6 DEF KeyedTask
    <3>3. KeyedTask(x)
      BY <1>1, <2>4, <3>1, <3>2 DEF KeyedTask
    <3>4. task[t].step \notin {"check", "post", "adopt"}
      BY <1>1
    <3> QED BY <1>2, <2>6, <3>3, <3>4, KeyInUse
  <2> QED BY <1>1, <2>3, <2>4, <2>5, <2>6, QuietGo
<1>5. CASE Deleted(t)
  <2>1. task[t].step = "tombstone" /\ task[t].left = {} /\ Goto(t, "purge")
    BY <1>5 DEF Deleted, DeletedAll, Doing, Goto
  <2>2. PICK x \in Task : Becomes(t, x) /\ Carried(x, task[t], "purge")
    BY <1>2, <2>1, Gone DEF StepNames
  <2>3. x.step = "purge" /\ x.kind = task[t].kind /\ SettledTask(x)
    BY <2>2 DEF Carried, SettledTask
  <2>4. ~(struck \subseteq {"other"} /\ ~wiping)
    BY <1>2, <2>1 DEF KeyedTask
  <2>5. ASSUME struck = {} PROVE EmptiedTask(x)
    <3>1. EmptiedTask(task[t])
      BY <2>5 DEF SessionIInv, Kept, Emptied
    <3> QED BY <2>1, <2>3, <3>1 DEF EmptiedTask
  <2> QED BY <1>1, <2>1, <2>2, <2>3, <2>4, <2>5, QuietGo
<1> QED BY <1>4, <1>5

\* A row written to a scope leaves the others, and the other scopes, alone.
LEMMA RowWritten ==
  ASSUME Shape, NEW s \in Salts, NEW id \in Ids, NEW row,
         rows' = [rows EXCEPT ![s] = [rows[s] EXCEPT ![id] = row]]
  PROVE  /\ rows'[s][id] = row
         /\ \A i \in Ids \ {id} : rows'[s][i] = rows[s][i]
         /\ \A r \in Salts \ {s} : rows'[r] = rows[r]
<1>1. rows \in [Salts -> [Ids -> Row]] /\ rows[s] \in [Ids -> Row]
  BY StateFacts
<1>2. rows'[s] = [rows[s] EXCEPT ![id] = row] /\ \A r \in Salts \ {s} : rows'[r] = rows[r]
  BY <1>1
<1> QED BY <1>1, <1>2

\* A ceremony that writes to the scope of the vault keeps the vault in it.
LEMMA OrderlyWrite ==
  ASSUME SessionIInv, NEW t \in Tasks, NEW x \in Task, Becomes(t, x), meta # NoMeta,
         task[t].step \notin {"none", "probe", "post", "adopt"},
         x = Idle \/ (x.kind = task[t].kind /\ x.step \notin {"none", "probe", "post", "adopt"}),
         UNCHANGED <<meta, late, used, screen, struck>>, struck \subseteq {"other"},
         \A s \in Salts \ {meta.salt} : rows'[s] = rows[s]
  PROVE  Orderly' /\ Home = meta.salt /\ Home' = meta.salt
<1>1. /\ Shape /\ Orderly /\ meta.pending = NoSalt /\ Home = meta.salt /\ Placed(task[t])
      /\ \A u \in Tasks \ {t} : task[u] = Idle
  BY AtStep, InOrder
<1>2. Home' = meta.salt
  BY <1>1 DEF Home
<1>3. Placed(x)'
  <2>1. CASE x = Idle
    BY <2>1, IdleKept
  <2>2. CASE x.kind = task[t].kind /\ x.step \notin {"none", "probe", "post", "adopt"}
    BY <1>1, <2>2 DEF Placed
  <2> QED BY <2>1, <2>2
<1>4. /\ \A u, v \in Tasks : task'[u] # Idle /\ task'[v] # Idle => u = v
      /\ \A u \in Tasks : Placed(task[u])'
  BY <1>1, <1>3, AloneKept
<1>5. \A s \in Salts \ used : rows'[s] = Empty
  BY <1>1, StateFacts DEF Orderly
<1>6. \A s \in Salts \ {Home'} : rows'[s] = Empty
  BY <1>1, <1>2 DEF Orderly
<1> QED BY <1>1, <1>2, <1>4, <1>5, <1>6 DEF Orderly

\* A wrapper is written around the key of the vault.
LEMMA PuttingKeeps ==
  ASSUME SessionIInv, NEW t \in Tasks, PutLegacyWrapper(t) \/ PutNextWrapper(t)
  PROVE  Kept'
<1>1. /\ task[t].step \in {"put legacy", "put wrapper"} /\ meta # NoMeta
      /\ task[t].kind \in {"unlock", "verify", "change"}
      /\ task[t].step = "put wrapper" => task[t].kind = "change"
      /\ UNCHANGED <<meta, late, acked, used, screen, wiping, struck>>
  BY DEF PutLegacyWrapper, PutNextWrapper, PutWrapper, Doing, history
<1>2. /\ task[t] # Idle /\ Shape
      /\ struck \subseteq {"other"} => meta.pending = NoSalt /\ Home = meta.salt /\ Placed(task[t])
      /\ struck \subseteq {"other"} /\ ~wiping => Sound /\ KeyedTask(task[t])
  BY <1>1, AtStep
<1>3. task[t] \in Task /\ TaskOK(task[t]) /\ meta.salt \in Salts /\ "wrapper" \in Ids
  BY <1>1, <1>2, InHand DEF Ids
<1>4. PICK pw \in Passwords \cup {"none"} : PutWrapper(t, pw) /\ pw \in Passwords
  <2>1. task[t].pw \in Passwords /\ (task[t].kind = "change" => task[t].next \in Passwords)
    BY <1>1, <1>3 DEF TaskOK
  <2>2. PutWrapper(t, task[t].pw) \/ (task[t].kind = "change" /\ PutWrapper(t, task[t].next))
    BY DEF PutLegacyWrapper, PutNextWrapper, Doing
  <2> QED BY <2>1, <2>2
<1>5. PICK new :
        /\ Live(new) /\ new.key = task[t].key /\ new.pw = pw
        /\ rows' = [rows EXCEPT ![meta.salt] = [rows[meta.salt] EXCEPT !["wrapper"] = new]]
  <2>1. PICK new : new = Wrapped(rows[meta.salt]["wrapper"], task[t].key, pw)
    OBVIOUS
  <2>2. /\ Live(new) /\ new.key = task[t].key /\ new.pw = pw
        /\ rows' = [rows EXCEPT ![meta.salt] = [rows[meta.salt] EXCEPT !["wrapper"] = new]]
    BY <1>1, <1>2, <1>4, <2>1, PutWrapperRow
  <2> QED BY <2>2
<1>6. /\ rows'[meta.salt]["wrapper"] = new
      /\ rows'[meta.salt]["entry"] = rows[meta.salt]["entry"]
      /\ rows'[meta.salt]["verifier"] = rows[meta.salt]["verifier"]
      /\ \A s \in Salts \ {meta.salt} : rows'[s] = rows[s]
  BY <1>2, <1>3, <1>5, RowWritten DEF Ids
<1>7. PICK x \in Task :
        /\ Becomes(t, x)
        /\ \/ x = Idle
           \/ Carried(x, task[t], "fetch") /\ x.step = "fetch" /\ x.kind = task[t].kind
           \/ task[t].kind = "change" /\ Carried(x, task[t], "put wrapper")
              /\ x.step = "put wrapper" /\ x.kind = task[t].kind
        /\ task[t].kind = "unlock" => x # Idle
        /\ task[t].step = "put wrapper" /\ task[t].to = NoSalt =>
             x = Idle /\ key' = IF task[t].prev = NoKey THEN task[t].key ELSE task[t].prev
  <2>1. End(t) \/ Goto(t, "fetch") \/ (task[t].kind = "change" /\ Goto(t, "put wrapper"))
    BY <1>1 DEF PutLegacyWrapper, PutNextWrapper, Doing
  <2>2. /\ task[t].kind = "unlock" => Goto(t, "fetch")
        /\ task[t].step = "put wrapper" /\ task[t].to = NoSalt =>
             End(t) /\ key' = IF task[t].prev = NoKey THEN task[t].key ELSE task[t].prev
    BY <1>1 DEF PutLegacyWrapper, PutNextWrapper, Doing
  <2>3. CASE End(t) /\ task[t].kind # "unlock"
    <3>1. PICK x \in Task : x = Idle
      BY IdleFacts
    <3>2. Becomes(t, x)
      BY <2>3, <3>1 DEF End, Becomes
    <3> QED BY <2>2, <2>3, <3>1, <3>2
  <2>4. CASE Goto(t, "fetch") /\ ~End(t)
    <3>1. PICK x \in Task : Becomes(t, x) /\ Carried(x, task[t], "fetch")
      BY <1>2, <2>4, Gone DEF StepNames
    <3>2. x.step = "fetch" /\ x.kind = task[t].kind
      BY <3>1 DEF Carried
    <3>3. x # Idle
      BY <3>2, IdleFacts
    <3> QED BY <2>2, <2>4, <3>1, <3>2, <3>3
  <2>5. CASE task[t].kind = "change" /\ Goto(t, "put wrapper") /\ ~End(t)
    <3>1. PICK x \in Task : Becomes(t, x) /\ Carried(x, task[t], "put wrapper")
      BY <1>2, <2>5, Gone DEF StepNames
    <3>2. x.step = "put wrapper" /\ x.kind = task[t].kind
      BY <3>1 DEF Carried
    <3> QED BY <2>2, <2>5, <3>1, <3>2
  <2>6. ~(Goto(t, "fetch") /\ End(t))
    <3>1. task \in [Tasks -> Task]
      BY <1>2, StateFacts
    <3>2. Goto(t, "fetch") => task'[t].step = "fetch"
      BY <1>3, <3>1 DEF Goto, Task
    <3>3. End(t) => task'[t] = Idle
      BY <3>1 DEF End
    <3> QED BY <3>2, <3>3, IdleFacts
  <2> QED BY <2>1, <2>2, <2>3, <2>4, <2>5, <2>6
<1>8. ASSUME struck \subseteq {"other"} PROVE Orderly' /\ Home' = meta.salt
  <2>1. x = Idle \/ (x.kind = task[t].kind /\ x.step \notin {"none", "probe", "post", "adopt"})
    BY <1>7
  <2>2. task[t].step \notin {"none", "probe", "post", "adopt"}
    BY <1>1
  <2> QED BY <1>1, <1>6, <1>7, <1>8, <2>1, <2>2, OrderlyWrite
<1>9. ASSUME struck \subseteq {"other"}, ~wiping PROVE Keyed'
  <2>1. Home = meta.salt /\ Home' = meta.salt
    BY <1>2, <1>8, <1>9
  <2>2. VaultKeyNow' = VaultKeyNow /\ ~Unwrapped' /\ task[t].key = VaultKeyNow
    <3>1. task[t].key = VaultKeyNow
      BY <1>1, <1>2, <1>9 DEF KeyedTask
    <3>2. VaultKeyNow' = VaultKeyNow /\ ~Unwrapped'
      BY <1>5, <1>6, <2>1 DEF VaultKeyNow, Unwrapped
    <3> QED BY <3>1, <3>2
  <2>3. Sound'
    <3>1. Sound /\ meta' # NoMeta
      BY <1>1, <1>2, <1>9
    <3>2. Live(rows[Home]["verifier"])' /\ Present(rows[Home]["entry"])'
          /\ (rows[Home]["entry"].key = VaultKeyNow)'
      BY <1>6, <2>1, <2>2, <3>1 DEF Sound, Live, Present
    <3>3. rows'[Home']["wrapper"].key = VaultKeyNow' /\ rows'[Home']["wrapper"].pw \in Passwords
      BY <1>4, <1>5, <1>6, <2>1, <2>2
    <3> QED BY <2>2, <3>1, <3>2, <3>3 DEF Sound
  <2>4. KeyedTask(x)'
    <3>1. CASE x = Idle
      BY <3>1, IdleKept
    <3>2. CASE Carried(x, task[t], "fetch") /\ x.step = "fetch"
      BY <2>2, <3>2 DEF KeyedTask
    <3>3. CASE task[t].kind = "change" /\ Carried(x, task[t], "put wrapper") /\ x.step = "put wrapper"
      <4>1. task[t].step = "put wrapper"
        BY <1>1, <1>2, <1>9, <3>3 DEF KeyedTask
      <4>2. x = Idle
        BY <1>2, <1>7, <1>9, <4>1 DEF KeyedTask
      <4> QED BY <4>2, IdleKept
    <3> QED BY <1>7, <3>1, <3>2, <3>3
  <2>5. task'[t] = x /\ \A u \in Tasks : KeyedTask(task[u])'
    <3>1. \A u \in Tasks \ {t} : task[u] = Idle
      BY <1>1, <1>9, AtStep
    <3> QED BY <1>2, <1>7, <2>4, <3>1, AloneKept
  <2>6. screen = "open" => key' = VaultKeyNow
    <3>1. CASE task[t].step = "put legacy"
      BY <1>2, <1>9, <3>1 DEF KeyedTask, Placed
    <3>2. CASE task[t].step = "put wrapper"
      <4>1. task[t].to = NoSalt /\ task[t].kind = "change"
            /\ (screen = "open" => task[t].prev = VaultKeyNow)
        BY <1>1, <1>2, <1>9, <3>2 DEF KeyedTask
      <4> QED BY <1>7, <2>2, <3>2, <4>1
    <3> QED BY <1>1, <3>1, <3>2
  <2> QED BY <1>1, <2>2, <2>3, <2>5, <2>6 DEF Keyed
<1>10. x.step \notin {"read", "post", "tombstone", "purge", "remove"}
  BY <1>7, IdleFacts
<1>11. SettledTask(x)' /\ EmptiedTask(x)'
  BY <1>10 DEF SettledTask, EmptiedTask
<1>12. ASSUME struck = {} PROVE Emptied' /\ (~wiping => Settled')
  <2>1. Emptied /\ (~wiping => Settled)
    BY <1>12 DEF SessionIInv, Kept
  <2>2. /\ \A u \in Tasks : SettledTask(task[u])'
        /\ \A u \in Tasks : EmptiedTask(task[u])'
    <3>1. \A u \in Tasks \ {t} : task[u] = Idle
      BY <1>1, <1>12, AtStep
    <3> QED BY <1>2, <1>7, <1>11, <3>1, AloneKept
  <2>3. Home = meta.salt /\ Home' = meta.salt
    BY <1>2, <1>8, <1>12
  <2> QED BY <1>1, <1>6, <2>1, <2>2, <2>3 DEF Emptied, Settled
<1> QED BY <1>1, <1>8, <1>9, <1>12 DEF Kept

\* A tombstone is the first mark of the wipe, and what it leaves the deletion
\* still has before it.
LEMMA DeleteRowKeeps ==
  ASSUME SessionIInv, NEW t \in Tasks, NEW id \in Ids, DeleteRow(t, id)
  PROVE  Kept'
<1>1. /\ task[t].kind = "reset" /\ task[t].step = "tombstone" /\ meta # NoMeta
      /\ UNCHANGED <<meta, key, screen, late, acked, used, struck>>
  BY DEF DeleteRow, Doing
<1>2. /\ task[t] # Idle /\ Shape /\ task[t] \in Task /\ meta.salt \in Salts
      /\ struck \subseteq {"other"} => meta.pending = NoSalt
  BY <1>1, AtStep, InHand
<1>3. CASE rows[meta.salt][id].revision # task[t].seen[id].revision
  <2>1. End(t) /\ UNCHANGED <<rows, wiping>>
    BY <1>3 DEF DeleteRow
  <2>2. task[t].step \notin {"check", "post", "adopt"}
    BY <1>1
  <2> QED BY <1>1, <1>2, <2>1, <2>2, QuietEnd, KeyInUse
<1>4. CASE rows[meta.salt][id].revision = task[t].seen[id].revision
  <2>1. PICK row :
          /\ ~Live(row)
          /\ rows' = [rows EXCEPT ![meta.salt] = [rows[meta.salt] EXCEPT ![id] = row]]
          /\ task' = [task EXCEPT ![t] = [task[t] EXCEPT !.left = @ \ {id}]]
    BY <1>2, <1>4, DeletedRow
  <2>2. PICK x : x = [task[t] EXCEPT !.left = @ \ {id}]
    OBVIOUS
  <2>3. Becomes(t, x)
    BY <2>1, <2>2 DEF Becomes
  <2>4. task[t].left \ {id} \in SUBSET Ids
    BY <1>2 DEF Task
  <2>5. /\ x \in Task /\ x.kind = "reset" /\ x.step = "tombstone" /\ x.left = task[t].left \ {id}
    BY <1>1, <1>2, <2>2, <2>4 DEF Task
  <2>6. /\ rows'[meta.salt][id] = row
        /\ \A i \in Ids \ {id} : rows'[meta.salt][i] = rows[meta.salt][i]
        /\ \A s \in Salts \ {meta.salt} : rows'[s] = rows[s]
    BY <1>2, <2>1, RowWritten
  <2>7. wiping' = TRUE
    BY <1>4 DEF DeleteRow
  <2>8. struck \subseteq {"other"} => Orderly'
    BY <1>1, <2>3, <2>5, <2>6, OrderlyWrite
  <2>9. ASSUME struck = {} PROVE Emptied'
    <3>1. Emptied /\ EmptiedTask(task[t])
      BY <2>9 DEF SessionIInv, Kept, Emptied
    <3>2. \A i \in Ids \ x.left : ~Live(rows'[meta.salt][i])
      BY <1>1, <2>1, <2>5, <2>6, <3>1 DEF EmptiedTask
    <3>3. EmptiedTask(x)'
      BY <1>1, <2>5, <3>2 DEF EmptiedTask
    <3>4. \A u \in Tasks \ {t} : task[u] = Idle
      BY <1>1, <2>9, AtStep
    <3>5. \A u \in Tasks : EmptiedTask(task[u])'
      BY <1>2, <2>3, <2>5, <3>3, <3>4, AloneKept
    <3> QED BY <1>1, <3>5 DEF Emptied
  <2> QED BY <1>1, <2>7, <2>8, <2>9 DEF Kept
<1> QED BY <1>3, <1>4

\* The purge takes what the tombstones left, and only then the device forgets.
LEMMA WipedKeeps ==
  ASSUME SessionIInv, NEW t \in Tasks, Purge(t) \/ RemoveLocal(t)
  PROVE  Kept'
<1>1. /\ task[t].kind = "reset" /\ task[t].step \in {"purge", "remove"} /\ meta # NoMeta
      /\ UNCHANGED <<late, acked, used, wiping, struck>>
  BY DEF Purge, RemoveLocal, Doing, server, history
<1>2. /\ task[t] # Idle /\ Shape /\ meta.salt \in Salts
      /\ struck \subseteq {"other"} => /\ meta.pending = NoSalt /\ Home = meta.salt
                                       /\ \A u \in Tasks \ {t} : task[u] = Idle
      /\ struck \subseteq {"other"} /\ ~wiping => KeyedTask(task[t])
  BY <1>1, AtStep, InHand
<1>3. ~(struck \subseteq {"other"} /\ ~wiping)
  BY <1>1, <1>2 DEF KeyedTask
<1>4. CASE Purge(t)
  <2>1. task[t].step = "purge" /\ Goto(t, "remove") /\ UNCHANGED <<meta, key, screen>>
    BY <1>4 DEF Purge, Doing
  <2>2. PICK x \in Task : Becomes(t, x) /\ Carried(x, task[t], "remove")
    BY <1>2, <2>1, Gone DEF StepNames
  <2>3. x.step = "remove" /\ x.kind = task[t].kind
    BY <2>2 DEF Carried
  <2>4. /\ \A s \in Salts \ {meta.salt} : rows'[s] = rows[s]
        /\ \A i \in Ids : rows'[meta.salt][i] = IF rows[meta.salt][i].dead THEN NoRow
                                                ELSE rows[meta.salt][i]
        /\ rows' \in [Salts -> [Ids -> Row]]
    BY <1>2, <1>4, PurgedScope
  <2>5. struck \subseteq {"other"} => Orderly'
    BY <1>1, <2>1, <2>2, <2>3, <2>4, OrderlyWrite
  <2>6. ASSUME struck = {} PROVE Emptied'
    <3>1. EmptiedTask(task[t])
      BY <2>6 DEF SessionIInv, Kept, Emptied
    <3>2. \A i \in Ids : Fit(rows[meta.salt][i]) /\ ~Live(rows[meta.salt][i])
      BY <1>2, <2>1, <3>1, StateFacts DEF EmptiedTask
    <3>3. \A i \in Ids : rows'[meta.salt][i] = NoRow
      BY <2>4, <3>2 DEF Fit, Live
    <3>4. rows'[meta.salt] = Empty
      <4>1. rows'[meta.salt] \in [Ids -> Row]
        BY <1>2, <2>4
      <4> QED BY <3>3, <4>1 DEF Empty
    <3>5. EmptiedTask(x)'
      BY <2>1, <2>3, <3>4 DEF EmptiedTask
    <3>6. \A u \in Tasks : EmptiedTask(task[u])'
      BY <1>2, <2>2, <2>6, <3>5, AloneKept
    <3> QED BY <1>1, <2>1, <3>6 DEF Emptied
  <2> QED BY <1>1, <1>3, <2>5, <2>6 DEF Kept
<1>5. CASE RemoveLocal(t)
  <2>1. /\ task[t].step = "remove" /\ End(t) /\ UNCHANGED rows
        /\ meta' = NoMeta /\ screen' = "locked"
    BY <1>5 DEF RemoveLocal, Doing, server
  <2>2. PICK x \in Task : x = Idle
    BY IdleFacts
  <2>3. Becomes(t, x)
    BY <2>1, <2>2 DEF End, Becomes
  <2>4. ASSUME struck \subseteq {"other"} PROVE Orderly'
    <3>1. Placed(x)'
      BY <2>2, IdleKept
    <3>2. /\ \A u, v \in Tasks : task'[u] # Idle /\ task'[v] # Idle => u = v
          /\ \A u \in Tasks : Placed(task[u])'
      BY <1>2, <2>3, <2>4, <3>1, AloneKept
    <3> QED BY <1>1, <2>1, <2>4, <3>2, InOrder DEF Orderly
  <2>5. ASSUME struck = {} PROVE Emptied'
    <3>1. EmptiedTask(task[t]) /\ Orderly
      BY <2>5, InOrder DEF SessionIInv, Kept, Emptied
    <3>2. \A s \in Salts : rows[s] = Empty
      BY <1>1, <1>2, <2>1, <2>5, <3>1 DEF EmptiedTask, Orderly
    <3>3. rows' = [s \in Salts |-> Empty]
      <4>1. rows \in [Salts -> [Ids -> Row]]
        BY <1>2, StateFacts
      <4> QED BY <2>1, <3>2, <4>1
    <3>4. \A u \in Tasks : EmptiedTask(task[u])'
      <4>1. EmptiedTask(x)'
        BY <2>2, IdleKept
      <4> QED BY <1>2, <2>3, <2>5, <4>1, AloneKept
    <3> QED BY <3>3, <3>4 DEF Emptied
  <2> QED BY <1>1, <1>3, <2>4, <2>5 DEF Kept
<1> QED BY <1>4, <1>5

\* The unlock after a change settles in the scope that holds the vault.
LEMMA ResolveKeeps ==
  ASSUME SessionIInv, NEW t \in Tasks, Resolve(t)
  PROVE  Kept'
<1>1. /\ task[t].kind = "unlock" /\ task[t].step = "probe" /\ meta # NoMeta
      /\ UNCHANGED <<rows, late, acked, used, screen, wiping>>
      /\ struck \subseteq struck'
  BY DEF Resolve, Doing, server, Strike
<1>2. /\ task[t] # Idle /\ Shape /\ task[t] \in Task /\ TaskOK(task[t])
      /\ meta \in [salt : Salts \cup {NoSalt}, pending : Salts \cup {NoSalt}, kit : BOOLEAN]
      /\ meta.salt \in Salts /\ NoSalt \notin Salts /\ used \subseteq Salts
  BY <1>1, AtStep, InHand
<1>3. task[t].to \in Salts
  BY <1>1, <1>2 DEF TaskOK
<1>4. PICK x : x = [task[t] EXCEPT !.step = "open", !.to = NoSalt]
  OBVIOUS
<1>5. /\ x \in Task /\ x.step = "open" /\ x.to = NoSalt /\ x.kind = "unlock" /\ x.pw = task[t].pw
  <2>1. "open" \in StepNames
    BY DEF StepNames
  <2> QED BY <1>1, <1>2, <1>4, <2>1 DEF Task
<1>6. Becomes(t, x)
  BY <1>2, <1>4, InHand DEF Resolve, Becomes
<1>7. SettledTask(x)' /\ EmptiedTask(x)'
  BY <1>5 DEF SettledTask, EmptiedTask
<1>8. PICK salt \in Salts :
        /\ meta' = [meta EXCEPT !.pending = NoSalt, !.salt = salt]
        /\ struck' \subseteq {"other"} =>
             salt = IF Committed(key, task[t].to) THEN task[t].to ELSE meta.salt
  <2>1. PICK unheard \in SUBSET {"probe"} :
          /\ Strike(unheard)
          /\ meta' = [meta EXCEPT !.pending = NoSalt,
                                  !.salt = IF unheard = {} /\ Committed(key, task[t].to)
                                           THEN task[t].to ELSE @]
    BY DEF Resolve
  <2>2. PICK salt \in Salts :
          salt = IF unheard = {} /\ Committed(key, task[t].to) THEN task[t].to ELSE meta.salt
    BY <1>2, <1>3
  <2>3. meta' = [meta EXCEPT !.pending = NoSalt, !.salt = salt]
    BY <1>2, <2>1, <2>2
  <2>4. struck' \subseteq {"other"} => unheard = {}
    BY <2>1 DEF Strike
  <2> QED BY <2>2, <2>3, <2>4
<1>9. meta'.pending = NoSalt /\ meta'.salt = salt /\ meta'.kit = meta.kit /\ meta' # NoMeta
  BY <1>2, <1>8 DEF NoMeta
<1>10. ASSUME struck' \subseteq {"other"}
       PROVE  /\ Orderly /\ screen # "open" /\ \A u \in Tasks \ {t} : task[u] = Idle
              /\ Home' = Home
  <2>1. /\ Orderly /\ Placed(task[t]) /\ \A u \in Tasks \ {t} : task[u] = Idle
    BY <1>1, <1>10, AtStep, InOrder
  <2>2. /\ meta.pending = task[t].to /\ screen # "open"
        /\ rows[task[t].to] # Empty => Committed(key, task[t].to)
    BY <1>1, <2>1 DEF Placed
  <2>3. rows[task[t].to] = Empty => ~Committed(key, task[t].to)
    BY EmptyFit DEF Committed, Ids
  <2>4. Home' = salt
    BY <1>9 DEF Home
  <2>5. Home = salt
    BY <1>2, <1>3, <1>8, <1>10, <2>2, <2>3 DEF Home
  <2> QED BY <2>1, <2>2, <2>4, <2>5
<1>11. struck' \subseteq {"other"} =>
         /\ VaultKeyNow' = VaultKeyNow /\ Unwrapped' = Unwrapped
         /\ task'[t] = x
  <2>1. task'[t] = x
    BY <1>2, <1>6, InHand DEF Becomes
  <2> QED BY <1>1, <1>10, <2>1 DEF VaultKeyNow, Unwrapped
<1>12. ASSUME struck' \subseteq {"other"} PROVE Orderly'
  <2>1. Placed(x)'
    BY <1>1, <1>5, <1>9, <1>10, <1>12 DEF Placed
  <2>2. /\ \A u, v \in Tasks : task'[u] # Idle /\ task'[v] # Idle => u = v
        /\ \A u \in Tasks : Placed(task[u])'
    BY <1>2, <1>5, <1>6, <1>10, <1>12, <2>1, AloneKept
  <2> QED BY <1>1, <1>9, <1>10, <1>12, <2>2 DEF Orderly
<1>13. ASSUME struck' \subseteq {"other"}, ~wiping PROVE Keyed'
  <2>1. Sound /\ KeyedTask(task[t])
    BY <1>1, <1>13, AtStep
  <2>2. Sound'
    BY <1>1, <1>9, <1>10, <1>11, <1>13, <2>1 DEF Sound
  <2>3. KeyedTask(x)'
    BY <1>1, <1>5, <1>9, <1>10, <1>11, <1>13, <2>1 DEF KeyedTask
  <2>4. \A u \in Tasks : KeyedTask(task[u])'
    BY <1>2, <1>5, <1>6, <1>10, <1>13, <2>3, AloneKept
  <2> QED BY <1>1, <1>10, <1>13, <2>2, <2>4 DEF Keyed
<1>14. ASSUME struck' = {} PROVE Emptied' /\ (~wiping => Settled')
  <2>1. Emptied /\ (~wiping => Settled)
    BY <1>1, <1>14 DEF SessionIInv, Kept
  <2>2. /\ \A u \in Tasks : SettledTask(task[u])'
        /\ \A u \in Tasks : EmptiedTask(task[u])'
    BY <1>2, <1>5, <1>6, <1>7, <1>10, <1>14, AloneKept
  <2> QED BY <1>1, <1>9, <1>10, <1>14, <2>1, <2>2 DEF Emptied, Settled
<1> QED BY <1>1, <1>12, <1>13, <1>14 DEF Kept

\* Everything is sealed for a scope no vault was ever in, and the marker says so.
LEMMA ReadKeeps ==
  ASSUME SessionIInv, NEW t \in Tasks, NEW to \in Salts, Read(t, to)
  PROVE  Kept'
<1>1. /\ task[t].kind = "change" /\ task[t].step = "read" /\ meta # NoMeta
      /\ UNCHANGED <<rows, late, acked, screen, wiping, struck>>
  BY DEF Read, Doing, history
<1>2. /\ task[t] # Idle /\ Shape /\ task[t] \in Task /\ TaskOK(task[t])
      /\ meta \in [salt : Salts \cup {NoSalt}, pending : Salts \cup {NoSalt}, kit : BOOLEAN]
      /\ meta.salt \in Salts /\ NoSalt \notin Salts /\ meta.salt \in used
      /\ struck \subseteq {"other"} => /\ meta.pending = NoSalt /\ Home = meta.salt
                                       /\ \A u \in Tasks \ {t} : task[u] = Idle
                                       /\ Orderly /\ Placed(task[t])
      /\ struck \subseteq {"other"} /\ ~wiping => Sound /\ KeyedTask(task[t]) /\ Keyed
  BY <1>1, AtStep, InHand, InOrder
<1>3. CASE ~Readable(t)
  <2>1. End(t) /\ UNCHANGED <<meta, key, used>>
    BY <1>3 DEF Read
  <2>2. task[t].step \notin {"check", "post", "adopt"}
    BY <1>1
  <2> QED BY <1>1, <1>2, <2>1, <2>2, QuietEnd, KeyInUse
<1>4. CASE Readable(t)
  <2>1. task[t].next \in Passwords
    BY <1>1, <1>2 DEF TaskOK
  <2>2. PICK next \in Keys : next = Derived(task[t].next, to)
    BY <2>1, KeyFacts
  <2>3. PICK moved : moved = Resealed(t, next)
    OBVIOUS
  <2>4. /\ moved \in [Ids -> Row]
        /\ \A id \in Ids :
             /\ Present(task[t].seen[id]) =>
                  /\ Present(moved[id]) /\ moved[id].key = next
                  /\ moved[id].dead = task[t].seen[id].dead
                  /\ moved[id].edit = rows[meta.salt][id].edit
             /\ ~Present(task[t].seen[id]) => moved[id] = NoRow
    BY <1>1, <1>2, <2>3, ResealedRows
  <2>5. /\ to \notin used /\ used' = used \cup {to} /\ key' = next /\ meta' = Marked(to)
        /\ task' = [task EXCEPT ![t].step = "post", ![t].from = meta.salt, ![t].to = to,
                                ![t].key = next, ![t].seen = moved]
    BY <1>4, <2>2, <2>3 DEF Read
  <2>6. PICK x : x = [task[t] EXCEPT !.step = "post", !.from = meta.salt, !.to = to,
                                     !.key = next, !.seen = moved]
    OBVIOUS
  <2>7. Becomes(t, x)
    BY <1>2, <2>5, <2>6, InHand DEF Becomes
  <2>8. /\ x \in Task /\ x.step = "post" /\ x.from = meta.salt /\ x.to = to /\ x.key = next
        /\ x.seen = moved /\ x.kind = "change" /\ x.next = task[t].next /\ x.prev = task[t].prev
    <3>1. "post" \in StepNames
      BY DEF StepNames
    <3> QED BY <1>1, <1>2, <2>4, <2>6, <3>1 DEF Task
  <2>9. meta'.pending = to /\ meta'.salt = meta.salt /\ meta'.kit = meta.kit /\ meta' # NoMeta
    BY <1>2, <2>5 DEF Marked, NoMeta
  <2>10. ASSUME struck \subseteq {"other"}
         PROVE  rows[to] = Empty /\ Home' = meta.salt /\ Home = meta.salt
    <3>1. rows[to] = Empty
      BY <1>2, <2>5, <2>10 DEF Orderly
    <3> QED BY <1>1, <1>2, <2>9, <2>10, <3>1 DEF Home
  <2>11. struck \subseteq {"other"} =>
           VaultKeyNow' = VaultKeyNow /\ Unwrapped' = Unwrapped
    BY <1>1, <2>10 DEF VaultKeyNow, Unwrapped
  <2>12. task'[t] = x
    BY <1>2, <2>7, InHand DEF Becomes
  <2>13. ASSUME struck \subseteq {"other"} PROVE Orderly'
    <3>1. Placed(x)'
      BY <1>1, <2>8, <2>9, <2>10, <2>13 DEF Placed
    <3>2. /\ \A u, v \in Tasks : task'[u] # Idle /\ task'[v] # Idle => u = v
          /\ \A u \in Tasks : Placed(task[u])'
      BY <1>2, <2>7, <2>8, <2>13, <3>1, AloneKept
    <3>3. ~Quiet'
      <4>1. x # Idle
        BY <2>8, IdleFacts
      <4> QED BY <2>12, <4>1 DEF Quiet
    <3> QED BY <1>1, <1>2, <2>5, <2>9, <2>10, <2>13, <3>2, <3>3 DEF Orderly
  <2>14. ASSUME struck \subseteq {"other"}, ~wiping PROVE Keyed'
    <3>1. Sound'
      BY <1>1, <1>2, <2>9, <2>10, <2>11, <2>14 DEF Sound
    <3>2. /\ Present(moved["verifier"]) /\ moved["verifier"].key = next
          /\ Present(moved["entry"]) /\ moved["entry"].key = next
          /\ ~moved["verifier"].dead /\ ~Present(moved["wrapper"])
      <4>1. Live(task[t].seen["verifier"]) /\ Present(task[t].seen["entry"])
        BY <1>1, <1>2, <2>14 DEF KeyedTask
      <4>2. ~Present(task[t].seen["wrapper"])
        BY <1>4 DEF Readable
      <4> QED BY <2>4, <4>1, <4>2, EmptyFit DEF Ids, Live
    <3>3. /\ ~meta.kit /\ Unwrapped
          /\ screen = "open" => task[t].prev = VaultKeyNow
      BY <1>1, <1>2, <2>14 DEF KeyedTask
    <3>4. KeyedTask(x)'
      BY <1>1, <2>2, <2>8, <2>9, <2>11, <2>14, <3>2, <3>3 DEF KeyedTask
    <3>5. \A u \in Tasks : KeyedTask(task[u])'
      BY <1>2, <2>7, <2>8, <2>14, <3>4, AloneKept
    <3>6. task'[t].step = "post"
      BY <2>8, <2>12
    <3> QED BY <2>9, <3>1, <3>3, <3>5, <3>6 DEF Keyed
  <2>15. ASSUME struck = {} PROVE Emptied' /\ (~wiping => Settled')
    <3>1. Emptied /\ (~wiping => Settled /\ Keyed /\ KeyedTask(task[t]))
      BY <1>2, <2>15 DEF SessionIInv, Kept
    <3>2. EmptiedTask(x)'
      BY <2>8 DEF EmptiedTask
    <3>3. ASSUME ~wiping PROVE SettledTask(x)'
      <4>1. task[t].seen = rows[meta.salt]
        BY <1>1, <3>1, <3>3 DEF Settled, SettledTask
      <4>2. Present(task[t].seen["entry"])
        BY <1>1, <3>1, <3>3 DEF KeyedTask
      <4>3. rows[meta.salt]["entry"].edit = acked.edit /\ rows[meta.salt]["entry"].dead = acked.dead
        BY <1>2, <2>15, <3>1, <3>3 DEF Settled
      <4>4. moved["entry"].edit = acked.edit /\ moved["entry"].dead = acked.dead
        BY <2>4, <4>1, <4>2, <4>3 DEF Ids
      <4> QED BY <1>1, <2>8, <4>4 DEF SettledTask
    <3>4. /\ \A u \in Tasks : EmptiedTask(task[u])'
          /\ ~wiping => \A u \in Tasks : SettledTask(task[u])'
      BY <1>2, <2>7, <2>8, <2>15, <3>2, <3>3, AloneKept
    <3> QED BY <1>1, <2>9, <2>10, <2>15, <3>1, <3>4 DEF Emptied, Settled
  <2> QED BY <1>1, <2>13, <2>14, <2>15 DEF Kept
<1> QED BY <1>3, <1>4

\* The service moves the vault: the marked scope is where it is from then on.
LEMMA ServeKeeps ==
  ASSUME SessionIInv, NEW t \in Tasks, ServePost(t)
  PROVE  Kept'
<1>1. /\ task[t].kind = "change" /\ task[t].step = "post" /\ meta # NoMeta
      /\ Goto(t, "adopt") /\ Rekey(task[t].from, task[t].to, task[t].seen)
      /\ UNCHANGED <<meta, key, screen, late, acked, used, wiping, struck>>
  BY DEF ServePost, Doing, history
<1>2. /\ task[t] # Idle /\ Shape /\ task[t] \in Task /\ TaskOK(task[t])
      /\ meta.salt \in Salts /\ NoSalt \notin Salts /\ meta.salt \in used /\ used \subseteq Salts
      /\ struck \subseteq {"other"} => /\ \A u \in Tasks \ {t} : task[u] = Idle
                                       /\ Orderly /\ Placed(task[t])
      /\ struck \subseteq {"other"} /\ ~wiping => Sound /\ KeyedTask(task[t]) /\ Keyed
  BY <1>1, AtStep, InHand, InOrder
<1>3. /\ task[t].from \in Salts /\ task[t].to \in used /\ Clean(task[t].seen)
      /\ task[t].seen \in [Ids -> Row]
  BY <1>1, <1>2 DEF TaskOK, Task
<1>4. /\ rows'[task[t].to] = task[t].seen
      /\ task[t].from # task[t].to => rows'[task[t].from] = Empty
      /\ \A s \in Salts \ {task[t].from, task[t].to} : rows'[s] = rows[s]
  BY <1>1, <1>2, <1>3, RekeyRows
<1>5. PICK x \in Task : Becomes(t, x) /\ Carried(x, task[t], "adopt")
  BY <1>1, <1>2, Gone DEF StepNames
<1>6. x.step = "adopt" /\ x.kind = "change" /\ x.to = task[t].to /\ x.key = task[t].key
  BY <1>1, <1>5 DEF Carried
<1>7. task'[t] = x
  BY <1>2, <1>5, InHand DEF Becomes
<1>8. ASSUME struck \subseteq {"other"}
      PROVE  /\ meta.pending = task[t].to /\ meta.pending \in Salts
             /\ task[t].from = meta.salt /\ meta.salt # meta.pending
             /\ rows'[meta.salt] = Empty
             /\ \A s \in Salts \ {meta.pending} : rows'[s] = Empty
             /\ Home = meta.salt
  <2>1. /\ meta.pending = task[t].to /\ task[t].from = meta.salt /\ rows[meta.pending] = Empty
        /\ meta.salt # meta.pending
    BY <1>1, <1>2, <1>8 DEF Placed, Shape, TypeOK
  <2>2. Home = meta.salt
    BY <2>1 DEF Home
  <2>3. \A s \in Salts \ {meta.salt} : rows[s] = Empty
    BY <1>1, <1>2, <1>8, <2>2 DEF Orderly
  <2> QED BY <1>2, <1>3, <1>4, <2>1, <2>2, <2>3
<1>9. ASSUME struck \subseteq {"other"} PROVE Orderly'
  <2>1. Placed(x)'
    BY <1>1, <1>6, <1>8, <1>9 DEF Placed
  <2>2. /\ \A u, v \in Tasks : task'[u] # Idle /\ task'[v] # Idle => u = v
        /\ \A u \in Tasks : Placed(task[u])'
    BY <1>2, <1>5, <1>9, <2>1, AloneKept
  <2>3. ~Quiet'
    <3>1. x # Idle
      BY <1>6, IdleFacts
    <3> QED BY <1>7, <3>1 DEF Quiet
  <2>4. \A s \in Salts \ {Home'} : rows'[s] = Empty
    BY <1>1, <1>2, <1>8, <1>9 DEF Home
  <2>5. \A s \in Salts \ used : rows'[s] = Empty
    BY <1>3, <1>8, <1>9
  <2> QED BY <1>1, <1>2, <1>9, <2>2, <2>3, <2>4, <2>5 DEF Orderly
<1>10. ASSUME struck \subseteq {"other"}, ~wiping
       PROVE  /\ Home' = meta.pending /\ rows'[Home'] = task[t].seen
              /\ VaultKeyNow' = task[t].key /\ Unwrapped' /\ ~meta.kit
              /\ task[t].key = Derived(task[t].next, meta.pending)
              /\ task[t].next \in Passwords
              /\ Present(task[t].seen["entry"]) /\ task[t].seen["entry"].key = task[t].key
              /\ Live(task[t].seen["verifier"])
              /\ ~Present(task[t].seen["wrapper"])
  <2>1. /\ task[t].key = Derived(task[t].next, task[t].to) /\ ~meta.kit
        /\ Present(task[t].seen["entry"]) /\ task[t].seen["entry"].key = task[t].key
        /\ Live(task[t].seen["verifier"]) /\ task[t].seen["verifier"].key = task[t].key
        /\ ~Present(task[t].seen["wrapper"])
    BY <1>1, <1>2, <1>10 DEF KeyedTask, Live
  <2>2. task[t].seen # Empty
    BY <2>1, EmptyFit DEF Ids
  <2>3. Home' = meta.pending
    BY <1>1, <1>2, <1>4, <1>8, <1>10, <2>2 DEF Home
  <2>4. rows'[Home'] = task[t].seen
    BY <1>4, <1>8, <1>10, <2>3
  <2>5. VaultKeyNow' = task[t].key /\ Unwrapped'
    BY <2>1, <2>4 DEF VaultKeyNow, Unwrapped, Live
  <2>6. task[t].next \in Passwords
    BY <1>1, <1>2 DEF TaskOK
  <2> QED BY <1>8, <1>10, <2>1, <2>3, <2>4, <2>5, <2>6
<1>11. ASSUME struck \subseteq {"other"}, ~wiping PROVE Keyed'
  <2>1. task[t].key \in Keys
    BY <1>8, <1>10, <1>11, KeyFacts
  <2>2. Sound'
    BY <1>1, <1>10, <1>11, <2>1 DEF Sound
  <2>3. KeyedTask(x)'
    BY <1>1, <1>6, <1>8, <1>10, <1>11 DEF KeyedTask
  <2>4. \A u \in Tasks : KeyedTask(task[u])'
    BY <1>2, <1>5, <1>11, <2>3, AloneKept
  <2> QED BY <1>1, <1>6, <1>7, <1>10, <1>11, <2>2, <2>4 DEF Keyed
<1>12. ASSUME struck = {} PROVE Emptied' /\ (~wiping => Settled')
  <2>1. Emptied /\ (~wiping => Settled)
    BY <1>12 DEF SessionIInv, Kept
  <2>2. SettledTask(x)' /\ EmptiedTask(x)'
    BY <1>6 DEF SettledTask, EmptiedTask
  <2>3. /\ \A u \in Tasks : SettledTask(task[u])'
        /\ \A u \in Tasks : EmptiedTask(task[u])'
    BY <1>2, <1>5, <1>12, <2>2, AloneKept
  <2>4. ASSUME ~wiping PROVE Settled'
    <3>1. task[t].seen["entry"].edit = acked.edit /\ task[t].seen["entry"].dead = acked.dead
      BY <1>1, <2>1, <2>4 DEF Settled, SettledTask
    <3> QED BY <1>1, <1>10, <1>12, <2>3, <2>4, <3>1 DEF Settled
  <2> QED BY <1>1, <2>1, <2>3, <2>4 DEF Emptied
<1> QED BY <1>1, <1>9, <1>11, <1>12 DEF Kept

\* A request that did not reach the service: the key and the marker go back.
LEMMA CatchKeeps ==
  ASSUME SessionIInv, NEW t \in Tasks, FailPost(t) \/ LosePost(t)
  PROVE  Kept'
<1>1. CASE LosePost(t)
  <2>1. "lost" \in struck'
    BY <1>1 DEF LosePost, Strike
  <2> QED BY <2>1 DEF Kept
<1>2. CASE FailPost(t)
  <2>1. /\ task[t].kind = "change" /\ task[t].step = "post" /\ meta # NoMeta /\ End(t)
        /\ key' = task[t].prev /\ meta' = [meta EXCEPT !.pending = NoSalt]
        /\ UNCHANGED <<rows, screen, late, acked, used, wiping, struck>>
    BY <1>2 DEF FailPost, Catch, PutBack, Doing, server, history
  <2>2. /\ Shape /\ meta.salt \in Salts /\ NoSalt \notin Salts
        /\ meta \in [salt : Salts \cup {NoSalt}, pending : Salts \cup {NoSalt}, kit : BOOLEAN]
        /\ struck \subseteq {"other"} => /\ \A u \in Tasks \ {t} : task[u] = Idle
                                         /\ Orderly /\ Placed(task[t])
        /\ struck \subseteq {"other"} /\ ~wiping => Sound /\ KeyedTask(task[t]) /\ Keyed
    BY <2>1, AtStep, InHand, InOrder
  <2>3. meta'.pending = NoSalt /\ meta'.salt = meta.salt /\ meta'.kit = meta.kit /\ meta' # NoMeta
    BY <2>1, <2>2 DEF NoMeta
  <2>4. PICK x \in Task : x = Idle
    BY IdleFacts
  <2>5. Becomes(t, x)
    BY <2>1, <2>4 DEF End, Becomes
  <2>6. Placed(x)' /\ KeyedTask(x)' /\ SettledTask(x)' /\ EmptiedTask(x)'
    BY <2>4, IdleKept
  <2>7. struck \subseteq {"other"} => Home' = Home
    <3>1. struck \subseteq {"other"} => meta.pending = task[t].to /\ rows[meta.pending] = Empty
      BY <2>1, <2>2 DEF Placed
    <3> QED BY <2>1, <2>3, <3>1 DEF Home
  <2>8. struck \subseteq {"other"} => VaultKeyNow' = VaultKeyNow /\ Unwrapped' = Unwrapped
    BY <2>1, <2>7 DEF VaultKeyNow, Unwrapped
  <2>9. struck \subseteq {"other"} =>
          /\ \A u, v \in Tasks : task'[u] # Idle /\ task'[v] # Idle => u = v
          /\ \A u \in Tasks : Placed(task[u])'
          /\ \A u \in Tasks : KeyedTask(task[u])'
          /\ \A u \in Tasks : SettledTask(task[u])'
          /\ \A u \in Tasks : EmptiedTask(task[u])'
    BY <2>2, <2>5, <2>6, AloneKept
  <2>10. ASSUME struck \subseteq {"other"} PROVE Orderly'
    BY <2>1, <2>2, <2>3, <2>7, <2>9, <2>10 DEF Orderly
  <2>11. ASSUME struck \subseteq {"other"}, ~wiping PROVE Keyed'
    <3>1. Sound'
      BY <2>1, <2>2, <2>3, <2>7, <2>8, <2>11 DEF Sound
    <3>2. screen = "open" => task[t].prev = VaultKeyNow /\ ~meta.kit
      BY <2>1, <2>2, <2>11 DEF KeyedTask
    <3> QED BY <2>1, <2>3, <2>8, <2>9, <2>11, <3>1, <3>2 DEF Keyed
  <2>12. ASSUME struck = {} PROVE Emptied' /\ (~wiping => Settled')
    <3>1. Emptied /\ (~wiping => Settled)
      BY <2>12 DEF SessionIInv, Kept
    <3> QED BY <2>1, <2>3, <2>7, <2>9, <2>12, <3>1 DEF Emptied, Settled
  <2> QED BY <2>1, <2>10, <2>11, <2>12 DEF Kept
<1> QED BY <1>1, <1>2

\* The device follows the vault to the scope it marked.
LEMMA AdoptKeeps ==
  ASSUME SessionIInv, NEW t \in Tasks, Adopt(t)
  PROVE  Kept'
<1>1. /\ task[t].kind = "change" /\ task[t].step = "adopt" /\ meta # NoMeta
      /\ meta' = [meta EXCEPT !.salt = task[t].to, !.pending = NoSalt]
      /\ key' = task[t].key
      /\ Goto(t, IF meta.kit THEN "put wrapper" ELSE "fetch")
      /\ UNCHANGED <<rows, screen, late, acked, used, wiping, struck>>
  BY DEF Adopt, Doing, server, history
<1>2. /\ Shape /\ meta.salt \in Salts /\ NoSalt \notin Salts /\ used \subseteq Salts
      /\ meta \in [salt : Salts \cup {NoSalt}, pending : Salts \cup {NoSalt}, kit : BOOLEAN]
      /\ task[t] \in Task /\ TaskOK(task[t])
      /\ struck \subseteq {"other"} => /\ \A u \in Tasks \ {t} : task[u] = Idle
                                       /\ Orderly /\ Placed(task[t])
      /\ struck \subseteq {"other"} /\ ~wiping => Sound /\ KeyedTask(task[t]) /\ Keyed
  BY <1>1, AtStep, InHand, InOrder
<1>3. PICK to \in Salts : to = task[t].to
  BY <1>1, <1>2 DEF TaskOK
<1>4. meta'.pending = NoSalt /\ meta'.salt = to /\ meta'.kit = meta.kit /\ meta' # NoMeta
  BY <1>1, <1>2, <1>3 DEF NoMeta
<1>5. PICK step \in StepNames :
        step = (IF meta.kit THEN "put wrapper" ELSE "fetch") /\ Goto(t, step)
  BY <1>1 DEF StepNames
<1>6. PICK x \in Task : Becomes(t, x) /\ Carried(x, task[t], step)
  BY <1>2, <1>5, Gone
<1>7. x.step = step /\ x.kind = "change"
  BY <1>1, <1>6 DEF Carried
<1>8. SettledTask(x)' /\ EmptiedTask(x)'
  BY <1>5, <1>7 DEF SettledTask, EmptiedTask
<1>9. Home' = to
  BY <1>4 DEF Home
<1>10. ASSUME struck \subseteq {"other"}
       PROVE  meta.pending = to /\ \A s \in Salts \ {to} : rows[s] = Empty
  <2>1. meta.pending = to /\ rows[meta.salt] = Empty
    BY <1>1, <1>2, <1>3, <1>10 DEF Placed
  <2>2. \A s \in Salts \ {Home} : rows[s] = Empty
    BY <1>1, <1>2, <1>10 DEF Orderly
  <2> QED BY <2>1, <2>2 DEF Home
<1>11. ASSUME struck \subseteq {"other"} PROVE Orderly'
  <2>1. Placed(x)'
    BY <1>4, <1>5, <1>7 DEF Placed
  <2>2. /\ \A u, v \in Tasks : task'[u] # Idle /\ task'[v] # Idle => u = v
        /\ \A u \in Tasks : Placed(task[u])'
    BY <1>2, <1>6, <1>11, <2>1, AloneKept
  <2> QED BY <1>1, <1>2, <1>4, <1>9, <1>10, <1>11, <2>2 DEF Orderly
<1>12. ASSUME struck \subseteq {"other"}, ~wiping PROVE Keyed' /\ Home' = Home
  <2>1. /\ Home = to /\ task[t].key = VaultKeyNow /\ ~meta.kit
    BY <1>1, <1>2, <1>3, <1>12 DEF KeyedTask
  <2>2. Home' = Home
    BY <1>9, <2>1
  <2>3. VaultKeyNow' = VaultKeyNow /\ Unwrapped' = Unwrapped
    BY <1>1, <2>2 DEF VaultKeyNow, Unwrapped
  <2>4. Sound'
    BY <1>1, <1>2, <1>4, <1>12, <2>2, <2>3 DEF Sound
  <2>5. KeyedTask(x)'
    BY <1>4, <1>5, <1>7, <2>1 DEF KeyedTask
  <2>6. \A u \in Tasks : KeyedTask(task[u])'
    BY <1>2, <1>6, <1>12, <2>5, AloneKept
  <2> QED BY <1>1, <1>4, <2>1, <2>2, <2>3, <2>4, <2>6 DEF Keyed
<1>13. ASSUME struck = {} PROVE Emptied' /\ (~wiping => Settled')
  <2>1. Emptied /\ (~wiping => Settled)
    BY <1>13 DEF SessionIInv, Kept
  <2>2. /\ \A u \in Tasks : SettledTask(task[u])'
        /\ \A u \in Tasks : EmptiedTask(task[u])'
    BY <1>2, <1>6, <1>8, <1>13, AloneKept
  <2> QED BY <1>1, <1>4, <1>12, <1>13, <2>1, <2>2 DEF Emptied, Settled
<1> QED BY <1>1, <1>11, <1>12, <1>13 DEF Kept

\* A save, here or elsewhere, keeps the entry under the key of the vault.
LEMMA EditKeeps ==
  ASSUME SessionIInv, Edit \/ OtherEdit
  PROVE  Kept'
<1>1. /\ meta # NoMeta /\ UNCHANGED <<meta, key, screen, task, late, used, wiping>>
      /\ struck \subseteq struck'
      /\ OtherEdit => "other" \in struck' /\ Present(rows[meta.salt]["verifier"])
      /\ Edit => screen = "open" /\ (struck' \subseteq {"other"} => Quiet)
  <2>1. Edit => /\ meta # NoMeta /\ UNCHANGED <<meta, key, screen, task, late, used, wiping>>
                /\ struck \subseteq struck' /\ screen = "open"
                /\ struck' \subseteq {"other"} => Quiet
    <3>1. SUFFICES ASSUME Edit
                   PROVE  /\ meta # NoMeta /\ UNCHANGED <<meta, key, screen, task, late, used, wiping>>
                          /\ struck \subseteq struck' /\ screen = "open"
                          /\ struck' \subseteq {"other"} => Quiet
      OBVIOUS
    <3>2. /\ meta # NoMeta /\ UNCHANGED <<meta, key, screen, task, late, used, wiping>>
          /\ Strike(Crowded) /\ screen = "open"
      BY <3>1 DEF Edit
    <3>3. "overlap" \in struck' \/ Quiet
      BY <3>2 DEF Strike, Crowded
    <3> QED BY <3>2, <3>3 DEF Strike
  <2>2. OtherEdit => /\ meta # NoMeta /\ UNCHANGED <<meta, key, screen, task, late, used, wiping>>
                     /\ struck \subseteq struck' /\ "other" \in struck'
                     /\ Present(rows[meta.salt]["verifier"])
    BY DEF OtherEdit, Strike
  <2> QED BY <2>1, <2>2
<1>2. Shape /\ meta.salt \in Salts /\ meta.salt \in used /\ meta.pending # meta.salt
      /\ "entry" \in Ids /\ "verifier" \in Ids /\ "wrapper" \in Ids
  BY <1>1, StateFacts DEF SessionIInv, Shape, TypeOK, Ids
<1>3. PICK row :
        /\ Present(row)
        /\ rows' = [rows EXCEPT ![meta.salt] = [rows[meta.salt] EXCEPT !["entry"] = row]]
        /\ acked' = [edit |-> row.edit, dead |-> row.dead]
        /\ \/ row.key = rows[meta.salt]["entry"].key /\ Present(rows[meta.salt]["entry"])
           \/ Edit /\ row.key = key
           \/ OtherEdit /\ row.key = rows[meta.salt]["verifier"].key
  BY <1>2, EditedRow
<1>4. /\ rows'[meta.salt]["entry"] = row
      /\ rows'[meta.salt]["verifier"] = rows[meta.salt]["verifier"]
      /\ rows'[meta.salt]["wrapper"] = rows[meta.salt]["wrapper"]
      /\ \A s \in Salts \ {meta.salt} : rows'[s] = rows[s]
  BY <1>2, <1>3, RowWritten DEF Ids
<1>5. ASSUME struck' \subseteq {"other"}
      PROVE  /\ Orderly /\ Home = meta.salt /\ Home' = meta.salt
             /\ meta.pending # NoSalt => /\ meta.pending \in Salts
                                         /\ rows[meta.pending] = Empty
                                         /\ rows'[meta.pending] = Empty
  <2>1. Orderly
    BY <1>1, <1>5, InOrder
  <2>2. Edit => meta.pending = NoSalt
    BY <1>1, <1>5, OpenAndQuiet
  <2>3. meta.pending # NoSalt => meta.pending \in Salts /\ rows[meta.pending] = Empty
    <3>1. SUFFICES ASSUME meta.pending # NoSalt, rows[meta.pending] # Empty PROVE FALSE
      BY <1>2, StateFacts
    <3>2. rows[meta.salt] = Empty
      BY <1>1, <1>2, <2>1, <3>1 DEF Orderly, Home
    <3>3. ~Present(rows[meta.salt]["verifier"])
      BY <1>2, <3>2, EmptyFit
    <3> QED BY <1>1, <2>2, <3>1, <3>3
  <2>4. meta.pending # NoSalt => rows'[meta.pending] = Empty
    BY <1>2, <1>4, <2>3
  <2> QED BY <1>1, <2>1, <2>3, <2>4 DEF Home
<1>6. ASSUME struck' \subseteq {"other"} PROVE Orderly'
  <2>1. ASSUME NEW u \in Tasks PROVE Placed(task[u])'
    <3>1. Placed(task[u]) /\ task'[u] = task[u]
      BY <1>1, <1>5, <1>6 DEF Orderly
    <3>2. ~(task[u].step = "adopt" /\ OtherEdit)
      BY <1>1, <1>2, <3>1, EmptyFit DEF Placed
    <3>3. Edit => task[u].step = "none"
      BY <1>1, <1>6, IdleFacts DEF Quiet
    <3>4. task[u].kind = "unlock" => screen # "open"
      BY <3>1 DEF Placed
    <3>5. /\ task[u].step \in {"probe", "post", "adopt"} => meta.pending = task[u].to
          /\ task[u].step \notin {"none", "probe", "post", "adopt"} => meta.pending = NoSalt
          /\ task[u].step = "post" => task[u].from = meta.salt
      BY <3>1 DEF Placed
    <3>6. task[u].step \in {"probe", "post"} => task[u].to \in used
      BY <1>2 DEF Shape, TaskOK
    <3>7. task[u].step \in {"probe", "post"} => rows'[task[u].to] = Empty
      BY <1>2, <1>5, <1>6, <3>5, <3>6, StateFacts
    <3>8. task[u].step # "adopt"
      BY <3>2, <3>3, <1>3
    <3> QED BY <1>1, <3>1, <3>4, <3>5, <3>7, <3>8 DEF Placed
  <2>2. \A s \in Salts \ used : rows'[s] = Empty
    BY <1>2, <1>4, <1>5, <1>6 DEF Orderly
  <2>3. \A s \in Salts \ {Home'} : rows'[s] = Empty
    BY <1>1, <1>4, <1>5, <1>6 DEF Orderly
  <2> QED BY <1>1, <1>5, <1>6, <2>1, <2>2, <2>3 DEF Orderly, Quiet
<1>7. ASSUME struck' \subseteq {"other"}, ~wiping PROVE Keyed'
  <2>1. Keyed /\ Sound /\ struck \subseteq {"other"}
    BY <1>1, <1>7, InOrder
  <2>2. /\ Home' = Home /\ VaultKeyNow' = VaultKeyNow /\ Unwrapped' = Unwrapped
        /\ rows'[Home'] = rows'[meta.salt] /\ rows[Home] = rows[meta.salt]
    BY <1>4, <1>5, <1>7 DEF VaultKeyNow, Unwrapped
  <2>3. Edit => key = VaultKeyNow
    BY <1>1, <1>7, <2>1, OpenAndQuiet
  <2>4. row.key = VaultKeyNow
    BY <1>3, <2>1, <2>2, <2>3 DEF Sound, VaultKeyNow
  <2>5. Sound'
    BY <1>1, <1>3, <1>4, <2>1, <2>2, <2>4 DEF Sound
  <2>6. \A u \in Tasks : KeyedTask(task[u])'
    BY <1>1, <2>1, <2>2 DEF Keyed, KeyedTask
  <2> QED BY <1>1, <2>1, <2>2, <2>5, <2>6 DEF Keyed
<1>8. ASSUME struck' = {} PROVE Emptied' /\ (~wiping => Settled')
  <2>1. \A u \in Tasks : task[u] = Idle
    BY <1>1, <1>3, <1>8 DEF Quiet
  <2>2. \A u \in Tasks : SettledTask(task[u])' /\ EmptiedTask(task[u])'
    <3>1. PICK x \in Task : x = Idle
      BY IdleFacts
    <3>2. \A u \in Tasks : task'[u] = x
      BY <1>1, <2>1, <3>1
    <3>3. SettledTask(x)' /\ EmptiedTask(x)'
      BY <3>1, IdleKept
    <3> QED BY <3>2, <3>3 DEF SettledTask, EmptiedTask
  <2>3. rows'[Home']["entry"].edit = acked'.edit /\ rows'[Home']["entry"].dead = acked'.dead
    BY <1>3, <1>4, <1>5, <1>8
  <2> QED BY <1>1, <2>2, <2>3 DEF Emptied, Settled
<1> QED BY <1>1, <1>6, <1>7, <1>8 DEF Kept

\* A lock and a reload leave no key and, a reload, no ceremony.
LEMMA LockKeeps ==
  ASSUME SessionIInv, Lock \/ Reload \/ ServeLate
  PROVE  Kept'
<1>1. CASE Lock
  <2>1. /\ UNCHANGED <<rows, late, acked, used, meta, task, wiping, struck>>
        /\ screen = "open" /\ screen' = "locked" /\ key' = NoKey
    BY <1>1 DEF Lock, server, history
  <2>2. /\ Home' = Home /\ VaultKeyNow' = VaultKeyNow /\ Unwrapped' = Unwrapped /\ Sound' = Sound
    BY <2>1 DEF Home, VaultKeyNow, Unwrapped, Sound
  <2>3. ASSUME struck \subseteq {"other"} PROVE Orderly'
    <3>1. Orderly /\ Shape
      BY <2>3, InOrder
    <3>2. ASSUME NEW u \in Tasks PROVE Placed(task[u])'
      <4>1. Placed(task[u]) /\ task[u].kind # "unlock" /\ TaskOK(task[u])
        BY <2>1, <3>1 DEF Orderly, Placed, Shape
      <4>2. task[u].step # "probe"
        BY <4>1 DEF TaskOK, Steps
      <4> QED BY <2>1, <4>1, <4>2 DEF Placed
    <3> QED BY <2>1, <2>2, <3>1, <3>2 DEF Orderly
  <2>4. ASSUME struck \subseteq {"other"}, ~wiping PROVE Keyed'
    <3>1. Keyed
      BY <2>4, InOrder
    <3>2. \A u \in Tasks : KeyedTask(task[u])'
      BY <2>1, <2>2, <3>1 DEF Keyed, KeyedTask
    <3> QED BY <2>1, <2>2, <3>1, <3>2 DEF Keyed
  <2>5. ASSUME struck = {} PROVE Emptied' /\ (~wiping => Settled')
    BY <2>1, <2>2, <2>5 DEF SessionIInv, Kept, Emptied, Settled, EmptiedTask, SettledTask
  <2> QED BY <2>1, <2>3, <2>4, <2>5 DEF Kept
<1>2. CASE Reload
  <2>1. /\ UNCHANGED <<rows, meta, acked, used, wiping>> /\ struck \subseteq struck'
        /\ screen' = "locked" /\ key' = NoKey /\ task' = [t \in Tasks |-> Idle]
        /\ UNCHANGED late \/ "lost" \in struck'
    BY <1>2 DEF Reload, Strike
  <2>2. /\ Home' = Home /\ VaultKeyNow' = VaultKeyNow /\ Unwrapped' = Unwrapped /\ Sound' = Sound
    BY <2>1 DEF Home, VaultKeyNow, Unwrapped, Sound
  <2>3. \A u \in Tasks : /\ Placed(task[u])' /\ KeyedTask(task[u])'
                         /\ SettledTask(task[u])' /\ EmptiedTask(task[u])'
                         /\ task'[u] = Idle
    <3>1. PICK x \in Task : x = Idle
      BY IdleFacts
    <3>2. \A u \in Tasks : task'[u] = x
      BY <2>1, <3>1
    <3>3. Placed(x)' /\ KeyedTask(x)' /\ SettledTask(x)' /\ EmptiedTask(x)'
      BY <3>1, IdleKept
    <3>4. \A u \in Tasks : Placed(task[u])'
      BY <3>2, <3>3 DEF Placed
    <3>5. \A u \in Tasks : KeyedTask(task[u])'
      BY <3>2, <3>3 DEF KeyedTask
    <3>6. \A u \in Tasks : SettledTask(task[u])' /\ EmptiedTask(task[u])'
      BY <3>2, <3>3 DEF SettledTask, EmptiedTask
    <3> QED BY <3>1, <3>2, <3>4, <3>5, <3>6
  <2>4. ASSUME struck' \subseteq {"other"} PROVE Orderly'
    BY <2>1, <2>2, <2>3, <2>4, InOrder DEF Orderly
  <2>5. ASSUME struck' \subseteq {"other"}, ~wiping PROVE Keyed'
    BY <2>1, <2>2, <2>3, <2>5, InOrder DEF Keyed
  <2>6. ASSUME struck' = {} PROVE Emptied' /\ (~wiping => Settled')
    <3>1. struck = {}
      BY <2>1, <2>6
    <3> QED BY <2>1, <2>2, <2>3, <3>1 DEF SessionIInv, Kept, Emptied, Settled
  <2> QED BY <2>1, <2>4, <2>5, <2>6 DEF Kept
<1>3. CASE ServeLate
  <2>1. late # {} /\ UNCHANGED <<wiping, struck>>
    BY <1>3 DEF ServeLate, history
  <2>2. ~(struck \subseteq {"other"})
    BY <2>1, InOrder DEF Orderly
  <2> QED BY <2>1, <2>2 DEF Kept
<1> QED BY <1>1, <1>2, <1>3

\* A page opened for the first time on a vault of any kind.
LEMMA InitOK == Init => SessionIInv
<1> SUFFICES ASSUME Init PROVE SessionIInv
  OBVIOUS
<1>1. FirstSalt \in Salts /\ FirstPassword \in Passwords
  BY VaultSessionAssumption DEF FirstSalt, FirstPassword
<1>2. PICK start \in {"bare", "legacy", "wrapped"}, k \in Keys :
        /\ k = IF start = "wrapped" THEN VaultKey ELSE Derived(FirstPassword, FirstSalt)
        /\ rows = [[s \in Salts |-> Empty] EXCEPT ![FirstSalt] =
             [entry    |-> Sealed(k, 1),
              verifier |-> Sealed(k, 0),
              wrapper  |-> IF start = "wrapped" THEN Wrapped(NoRow, k, FirstPassword)
                           ELSE NoRow]]
        /\ meta = [salt |-> FirstSalt, pending |-> NoSalt, kit |-> start # "bare"]
  BY <1>1, KeyFacts, VaultSessionAssumption DEF Init
<1>3. /\ key = NoKey /\ screen = "locked" /\ task = [t \in Tasks |-> Idle]
      /\ late = {} /\ acked = [edit |-> 1, dead |-> FALSE] /\ used = {FirstSalt}
      /\ wiping = FALSE /\ struck = {}
  BY DEF Init
<1>4. PICK entry, verifier, wrapper :
        /\ entry = Sealed(k, 1)
        /\ verifier = Sealed(k, 0)
        /\ wrapper = IF start = "wrapped" THEN Wrapped(NoRow, k, FirstPassword) ELSE NoRow
  OBVIOUS
<1>6. /\ Fit(entry) /\ Present(entry) /\ entry.key = k /\ entry.edit = 1 /\ entry.dead = FALSE
      /\ Fit(verifier) /\ Live(verifier) /\ verifier.key = k
  <2>1. PICK one \in Nat, zero \in Nat : one = 1 /\ zero = 0
    OBVIOUS
  <2>2. entry = Sealed(k, one) /\ verifier = Sealed(k, zero)
    BY <1>4, <2>1
  <2>3. Fit(entry) /\ Present(entry) /\ entry.key = k /\ entry.edit = one /\ entry.dead = FALSE
    BY <2>2, FirstRow
  <2>4. Fit(verifier) /\ Present(verifier) /\ verifier.key = k /\ verifier.dead = FALSE
    BY <2>2, FirstRow
  <2> QED BY <2>1, <2>3, <2>4 DEF Live
<1>7. /\ Fit(wrapper)
      /\ start = "wrapped" => Live(wrapper) /\ wrapper.key = k /\ wrapper.pw = FirstPassword
      /\ start # "wrapped" => ~Present(wrapper)
  <2>1. NoRow \in Row /\ NoRow.revision < MaxRevision
    BY EmptyFit, VaultSessionAssumption DEF Fit, NoRow
  <2> QED BY <1>1, <1>4, <2>1, EmptyFit, WrappedRow
<1>8. PICK scope : scope = [entry |-> entry, verifier |-> verifier, wrapper |-> wrapper]
  OBVIOUS
<1>9. /\ scope["entry"] = entry /\ scope["verifier"] = verifier /\ scope["wrapper"] = wrapper
      /\ scope = [id \in Ids |-> scope[id]]
  BY <1>8 DEF Ids
<1>10. scope \in [Ids -> Row] /\ Clean(scope)
  <2>1. \A id \in Ids : Fit(scope[id])
    BY <1>6, <1>7, <1>9 DEF Ids
  <2> QED BY <1>9, <2>1, FitScope
<1>11. rows = [[s \in Salts |-> Empty] EXCEPT ![FirstSalt] = scope]
  BY <1>2, <1>4, <1>8
<1>12. /\ rows \in [Salts -> [Ids -> Row]]
       /\ rows[FirstSalt] = scope /\ \A s \in Salts \ {FirstSalt} : rows[s] = Empty
       /\ \A s \in Salts : Clean(rows[s])
  BY <1>1, <1>10, <1>11, EmptyFit
<1>13. \A t \in Tasks : task[t] = Idle /\ task[t] \in Task /\ TaskOK(task[t])
  BY <1>3, IdleFacts
<1>14. /\ meta \in [salt : Salts \cup {NoSalt}, pending : Salts \cup {NoSalt}, kit : BOOLEAN]
       /\ meta.salt = FirstSalt /\ meta.pending = NoSalt /\ FirstSalt # NoSalt
       /\ meta.kit <=> start # "bare"
  BY <1>1, <1>2, VaultSessionAssumption
<1>15. meta # NoMeta /\ Home = FirstSalt
  BY <1>14 DEF NoMeta, Home
<1>16. Shape
  <2>1. acked \in [edit : Nat, dead : BOOLEAN] /\ screen \in {"open", "locked", "asked"}
    BY <1>3
  <2>2. task \in [Tasks -> Task]
    BY <1>3, IdleFacts
  <2> QED BY <1>1, <1>3, <1>12, <1>13, <1>14, <2>1, <2>2 DEF Shape, TypeOK
<1>17. Orderly
  BY <1>3, <1>12, <1>13, <1>14, <1>15, IdleFacts DEF Orderly, Placed
<1>18. VaultKeyNow = k /\ (Unwrapped <=> start # "wrapped")
  BY <1>6, <1>7, <1>9, <1>12, <1>15 DEF VaultKeyNow, Unwrapped, Live
<1>19. Sound
  BY <1>1, <1>2, <1>6, <1>7, <1>9, <1>12, <1>15, <1>18 DEF Sound
<1>20. Keyed
  BY <1>3, <1>13, <1>19, IdleFacts DEF Keyed, KeyedTask
<1>21. Settled /\ Emptied
  BY <1>3, <1>6, <1>9, <1>12, <1>13, <1>15, IdleFacts
     DEF Settled, SettledTask, Emptied, EmptiedTask
<1> QED BY <1>16, <1>17, <1>20, <1>21 DEF SessionIInv, Kept

\* Every step of the page, its ceremonies and the world keeps the invariant.
LEMMA StepOK == SessionIInv /\ [Next]_vars => SessionIInv'
<1> SUFFICES ASSUME SessionIInv, [Next]_vars PROVE SessionIInv'
  OBVIOUS
<1>1. Shape'
  BY ShapeStep DEF SessionIInv
<1>2. ASSUME NEW t \in Tasks, Going(t) PROVE Kept'
  BY <1>2, ResolveKeeps, OpenKeeps, PuttingKeeps, FetchKeeps, ChangingKeeps, ReadKeeps,
     ServeKeeps, CatchKeeps, AdoptKeeps, ListingKeeps, DeleteRowKeeps, WipedKeeps DEF Going
<1>3. ASSUME UNCHANGED vars PROVE Kept'
  <2>1. UNCHANGED <<rows, meta, key, screen, task, late, acked, used, wiping, struck>>
    BY <1>3 DEF vars
  <2>2. /\ Home' = Home /\ VaultKeyNow' = VaultKeyNow /\ Unwrapped' = Unwrapped /\ Sound' = Sound
        /\ Quiet' = Quiet
    BY <2>1 DEF Home, VaultKeyNow, Unwrapped, Sound, Quiet
  <2>3. Orderly => Orderly'
    BY <2>1, <2>2 DEF Orderly, Placed, Committed
  <2>4. Keyed => Keyed'
    BY <2>1, <2>2 DEF Keyed, KeyedTask
  <2>5. (Settled => Settled') /\ (Emptied => Emptied')
    BY <2>1, <2>2 DEF Settled, SettledTask, Emptied, EmptiedTask
  <2>6. struck' = struck /\ wiping' = wiping
    BY <2>1
  <2>7. Kept
    BY DEF SessionIInv
  <2> QED BY <2>3, <2>4, <2>5, <2>6, <2>7 DEF Kept
<1>4. Kept'
  <2>1. CASE \E t \in Tasks : Starting(t) \/ Going(t) \/ Fail(t)
    BY <1>2, <2>1, StartingKeeps, FailKeeps
  <2>2. CASE Edit \/ OtherEdit
    BY <2>2, EditKeeps
  <2>3. CASE Lock \/ Reload \/ ServeLate
    BY <2>3, LockKeeps
  <2> QED BY <1>3, <2>1, <2>2, <2>3 DEF Next
<1> QED BY <1>1, <1>4 DEF SessionIInv

-----------------------------------------------------------------------------
(* The theorems.                                                           *)

\* The inductive invariant holds in every reachable state.
THEOREM SessionInvariant == Spec => []SessionIInv
<1> QED BY InitOK, StepOK, PTL DEF Spec

\* While the vault is open and no ceremony runs, the page holds the key of the
\* scope it writes to, whatever other devices save, until a mishap strikes.
THEOREM SessionKeepsItsKey == Spec => []SessionInv
<1>1. SessionIInv => SessionInv
  <2> SUFFICES ASSUME SessionIInv PROVE SessionInv
    OBVIOUS
  <2>1. TypeOK
    BY DEF SessionIInv, Shape
  <2>2. KeyOpensVault
    <3>1. ASSUME struck \subseteq {"other"}, screen = "open", Quiet, ~wiping
          PROVE  key = rows[meta.salt]["verifier"].key
      <4>1. meta.pending = NoSalt /\ key = VaultKeyNow /\ Home = meta.salt
        BY <3>1, OpenAndQuiet, InOrder
      <4> QED BY <4>1 DEF VaultKeyNow
    <3> QED BY <3>1 DEF KeyOpensVault, KeyOpens
  <2> QED BY <2>1, <2>2 DEF SessionInv
<1> QED BY <1>1, SessionInvariant, PTL

\* Wherever the page is closed, locked or refused, a scope the device knows of
\* holds the whole vault as the user left it, and some password unlocks it.
THEOREM VaultStaysFound == Spec => []VaultFound
<1>1. SessionIInv => VaultFound
  <2> SUFFICES ASSUME SessionIInv, struck = {}, ~wiping
               PROVE  \E pw \in Passwords : Found(pw)
    BY DEF VaultFound, VaultKept
  <2>1. Shape /\ Sound /\ Settled
    BY InOrder DEF SessionIInv, Kept
  <2>2. Home \in {meta.salt, meta.pending} \ {NoSalt}
    BY <2>1, StateFacts DEF Home, Sound
  <2>3. Home \in Salts
    BY <2>1, <2>2, StateFacts
  <2>4. PICK pw \in Passwords : VaultKeyNow = Unlocks(pw, Home)
    <3>1. CASE Unwrapped
      BY <2>1, <3>1 DEF Sound, Unwrapped, Unlocks
    <3>2. CASE ~Unwrapped
      BY <2>1, <3>2 DEF Sound, Unwrapped, Unlocks, Live
    <3> QED BY <3>1, <3>2
  <2>5. Whole(pw, Home)
    BY <2>1, <2>4 DEF Whole, Sound, Settled, VaultKeyNow
  <2> QED BY <2>2, <2>5 DEF Found
<1> QED BY <1>1, SessionInvariant, PTL

\* When the device has forgotten the vault, no scope it was ever in holds a
\* row of it, however many deletions failed before.
THEOREM ResetLeavesNothing == Spec => []ResetTakesWholeVault
<1>1. SessionIInv => ResetTakesWholeVault
  BY DEF SessionIInv, Kept, Emptied, ResetTakesWholeVault, TakesWholeVault
<1> QED BY <1>1, SessionInvariant, PTL

=============================================================================
