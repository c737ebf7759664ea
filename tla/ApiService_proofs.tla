--------------------------- MODULE ApiService_proofs ---------------------------
(* What the HTTP service guarantees for any vaults, ids, requests and limits. *)
EXTENDS ApiService, FiniteSetTheorems, WellFoundedInduction, TLAPS

-----------------------------------------------------------------------------
(* Positions and ranks.                                                    *)

\* Every nonempty set of naturals has a least element: the first refusal that
\* applies is one of those that apply.
LEMMA LeastExists ==
  ASSUME NEW S \in SUBSET Nat, S # {}
  PROVE  \E i \in S : \A j \in S : i <= j
<1>1. PICK g \in S : \A h \in S : <<h, g>> \notin OpToRel(<, Nat)
  BY NatLessThanWellFounded, WFMin
<1>2. \A h \in S : ~(h < g)
  BY <1>1 DEF OpToRel
<1>3. g \in Nat /\ \A h \in S : h \in Nat
  BY <1>1
<1>4. \A h \in S : g <= h
  BY <1>2, <1>3
<1> QED BY <1>1, <1>4

\* Every nonempty set of positions has a last one: the item of a batch that
\* leaves its slot's record.
LEMMA LastExists ==
  ASSUME NEW n \in Nat, NEW S \in SUBSET (1 .. n), S # {}
  PROVE  \E i \in S : \A j \in S : j <= i
<1> DEFINE gaps == {n - i : i \in S}
<1>1. gaps \in SUBSET Nat
  OBVIOUS
<1>2. gaps # {}
  <2>1. PICK i \in S : TRUE
    OBVIOUS
  <2>2. n - i \in gaps
    BY <2>1
  <2> QED BY <2>2
<1>3. PICK g \in gaps : \A h \in gaps : g <= h
  <2> HIDE DEF gaps
  <2> QED BY <1>1, <1>2, LeastExists
<1>4. PICK i \in S : g = n - i
  BY <1>3
<1>5. \A j \in S : n - i <= n - j
  BY <1>3, <1>4
<1> QED BY <1>4, <1>5

\* How many members of a set come before one of them.
Rank(S, x) == Cardinality({y \in S : y < x})

\* A rank is a number below the size of the set.
LEMMA RankBounds ==
  ASSUME NEW S \in SUBSET Nat, IsFiniteSet(S), NEW x \in S
  PROVE  Rank(S, x) \in 0 .. (Cardinality(S) - 1)
<1> DEFINE below == {y \in S : y < x}
<1>1. IsFiniteSet(below) /\ Cardinality(below) \in Nat /\ Cardinality(S) \in Nat
  BY FS_Subset, FS_CardinalityType
<1>2. Cardinality(below \cup {x}) = Cardinality(below) + 1
  <2>1. x \in Nat
    OBVIOUS
  <2>2. x \notin below
    BY <2>1
  <2> HIDE DEF below
  <2> QED BY <1>1, <2>2, FS_AddElement
<1>3. Cardinality(below \cup {x}) <= Cardinality(S)
  BY FS_Subset
<1> QED BY <1>1, <1>2, <1>3 DEF Rank

\* The ranks of two members are in the order of the members.
LEMMA RankOrders ==
  ASSUME NEW S \in SUBSET Nat, IsFiniteSet(S), NEW x \in S, NEW y \in S, x < y
  PROVE  Rank(S, x) < Rank(S, y)
<1> DEFINE below(z) == {i \in S : i < z}
<1>1. IsFiniteSet(below(x)) /\ Cardinality(below(x)) \in Nat
      /\ IsFiniteSet(below(y)) /\ Cardinality(below(y)) \in Nat
  BY FS_Subset, FS_CardinalityType
<1>2. Cardinality(below(x) \cup {x}) = Cardinality(below(x)) + 1
  <2>1. x \in Nat
    OBVIOUS
  <2>2. x \notin below(x)
    BY <2>1
  <2> HIDE DEF below
  <2> QED BY <1>1, <2>2, FS_AddElement
<1>3. below(x) \cup {x} \in SUBSET below(y)
  <2>1. x \in Nat /\ y \in Nat /\ \A i \in S : i \in Nat
    OBVIOUS
  <2>2. \A i \in below(x) : i < y
    BY <2>1
  <2> QED BY <2>2
<1>4. Cardinality(below(x) \cup {x}) <= Cardinality(below(y))
  BY <1>1, <1>3, FS_Subset
<1> QED BY <1>1, <1>2, <1>4 DEF Rank

\* A larger set puts no member earlier.
LEMMA RankGrows ==
  ASSUME NEW T \in SUBSET Nat, IsFiniteSet(T), NEW S \in SUBSET T, NEW x \in S
  PROVE  Rank(S, x) <= Rank(T, x)
<1>1. {y \in S : y < x} \in SUBSET {y \in T : y < x}
  OBVIOUS
<1>2. IsFiniteSet({y \in T : y < x})
  BY FS_Subset
<1> QED BY <1>1, <1>2, FS_Subset DEF Rank

\* Every rank below the size of the set is some member's.
LEMMA RankOnto ==
  ASSUME NEW S \in SUBSET Nat, IsFiniteSet(S), NEW k \in 0 .. (Cardinality(S) - 1)
  PROVE  \E x \in S : Rank(S, x) = k
<1> DEFINE n == Cardinality(S)
           rank == [x \in S |-> Rank(S, x)]
<1>1. n \in Nat
  BY FS_CardinalityType
<1>2. IsFiniteSet(0 .. (n - 1)) /\ Cardinality(0 .. (n - 1)) = n
  BY <1>1, FS_Interval
<1>3. rank \in [S -> 0 .. (n - 1)]
  BY RankBounds
<1>4. \A x, y \in S : rank[x] = rank[y] => x = y
  <2> SUFFICES ASSUME NEW x \in S, NEW y \in S, x < y
               PROVE  rank[x] # rank[y]
    OBVIOUS
  <2>1. Rank(S, x) < Rank(S, y)
    BY RankOrders
  <2>2. Rank(S, x) \in 0 .. (n - 1) /\ Rank(S, y) \in 0 .. (n - 1)
    BY RankBounds
  <2> QED BY <1>1, <2>1, <2>2
<1>5. rank \in Injection(S, 0 .. (n - 1))
  BY <1>3, <1>4 DEF Injection, IsInjective
<1>6. rank \in Surjection(S, 0 .. (n - 1))
  BY <1>2, <1>5, FS_Injection
<1> QED BY <1>6 DEF Surjection

\* A page that is not the end of a listing is full: LIMIT cuts it.
LEMMA PageFull ==
  ASSUME NEW S \in SUBSET Nat, IsFiniteSet(S), NEW offset \in Nat, NEW limit \in Nat \ {0},
         NEW x \in S, Rank(S, x) >= offset + limit
  PROVE  Cardinality({y \in S : Rank(S, y) \in offset .. (offset + limit - 1)}) = limit
<1> DEFINE page == {y \in S : Rank(S, y) \in offset .. (offset + limit - 1)}
           rank == [y \in page |-> Rank(S, y)]
<1>1. Cardinality(S) \in Nat /\ Rank(S, x) \in 0 .. (Cardinality(S) - 1)
  BY FS_CardinalityType, RankBounds
<1>2. \A k \in offset .. (offset + limit - 1) : \E y \in S : Rank(S, y) = k
  <2> SUFFICES ASSUME NEW k \in offset .. (offset + limit - 1)
               PROVE  \E y \in S : Rank(S, y) = k
    OBVIOUS
  <2>1. k \in 0 .. (Cardinality(S) - 1)
    BY <1>1
  <2> QED BY <2>1, RankOnto
<1>3. rank \in [page -> offset .. (offset + limit - 1)]
  OBVIOUS
<1>4. \A y, z \in page : rank[y] = rank[z] => y = z
  <2> SUFFICES ASSUME NEW y \in page, NEW z \in page, y < z
               PROVE  rank[y] # rank[z]
    OBVIOUS
  <2>1. Rank(S, y) < Rank(S, z)
    BY RankOrders
  <2> QED BY <2>1
<1>5. \A k \in offset .. (offset + limit - 1) : \E y \in page : rank[y] = k
  BY <1>2
<1>6. rank \in Bijection(page, offset .. (offset + limit - 1))
  BY <1>3, <1>4, <1>5 DEF Bijection, Injection, IsInjective, Surjection
<1>7. IsFiniteSet(page)
  BY FS_Subset
<1>8. Cardinality(offset .. (offset + limit - 1)) = Cardinality(page)
  BY <1>6, <1>7, FS_Bijection DEF ExistsBijection
<1>9. Cardinality(offset .. (offset + limit - 1)) = limit
  BY FS_Interval
<1> QED BY <1>8, <1>9


-----------------------------------------------------------------------------
(* Refusals and the store's answers.                                       *)

\* The codes a request may be answered with.
Faults == {"BAD_BODY", "BAD_QUERY", "MIXED", "ROUTE_MISMATCH", "INVALID_RECORD",
           "UNAUTHORIZED", "TOO_LARGE", "PREFLIGHT"}

Answers == Faults \cup {"OK", "NOT_FOUND", "CONFLICT", "RATE_LIMITED", "UNAVAILABLE"}

\* Three members of a set are a sequence over it.
LEMMA TupleOf3 ==
  ASSUME NEW S, NEW a \in S, NEW b \in S, NEW c \in S
  PROVE  <<a, b, c>> \in Seq(S)
  OBVIOUS

\* A request that the layers or the handler refuse gets one of their codes.
LEMMA RefusalIsFault ==
  ASSUME NEW call
  PROVE  Refusal(call) \in Faults \cup {"none"}
<1> DEFINE refusals == Refusals(call.op)
           hits == {i \in DOMAIN refusals : refusals[i] \in call.faults \cup {"PREFLIGHT"}}
           first == CHOOSE i \in hits : \A j \in hits : i <= j
<1>1. FaultsOf(call.op) \in Seq(Faults)
  <2>1. {"BAD_BODY", "ROUTE_MISMATCH", "INVALID_RECORD", "MIXED", "BAD_QUERY"} \subseteq Faults
    BY DEF Faults
  <2>2. /\ <<"BAD_BODY", "ROUTE_MISMATCH", "INVALID_RECORD">> \in Seq(Faults)
        /\ <<"BAD_BODY", "INVALID_RECORD", "MIXED">> \in Seq(Faults)
        /\ <<"BAD_QUERY", "BAD_BODY", "MIXED">> \in Seq(Faults)
    BY <2>1, TupleOf3
  <2>3. <<"BAD_QUERY", "BAD_BODY">> \in Seq(Faults)
    BY <2>1
  <2>4. <<"BAD_QUERY">> \in Seq(Faults)
    BY <2>1
  <2>5. <<>> \in Seq(Faults)
    OBVIOUS
  <2> QED BY <2>2, <2>3, <2>4, <2>5 DEF FaultsOf
<1>2. (IF Open(call.op) THEN <<>> ELSE <<"UNAUTHORIZED">>) \in Seq(Faults)
  <2>1. "UNAUTHORIZED" \in Faults
    BY DEF Faults
  <2>2. <<"UNAUTHORIZED">> \in Seq(Faults) /\ <<>> \in Seq(Faults)
    BY <2>1
  <2> QED BY <2>2
<1>3. (IF call.op = "options" THEN <<"PREFLIGHT">> ELSE <<"TOO_LARGE">>) \in Seq(Faults)
  <2>1. "PREFLIGHT" \in Faults /\ "TOO_LARGE" \in Faults
    BY DEF Faults
  <2>2. <<"PREFLIGHT">> \in Seq(Faults) /\ <<"TOO_LARGE">> \in Seq(Faults)
    BY <2>1
  <2> QED BY <2>2
<1>4. refusals \in Seq(Faults)
  BY <1>1, <1>2, <1>3 DEF Refusals
<1>5. CASE hits = {}
  BY <1>5 DEF Refusal
<1>6. CASE hits # {}
  <2>1. hits \in SUBSET Nat
    BY <1>4
  <2>2. first \in hits
    <3> HIDE DEF hits
    <3> QED BY <1>6, <2>1, LeastExists
  <2>3. refusals[first] \in Faults
    BY <1>4, <2>2
  <2> QED BY <1>6, <2>3 DEF Refusal
<1> QED BY <1>5, <1>6

\* Only success is answered with the status 200 (status_and_code).
LEMMA StatusOfAnswers ==
  ASSUME NEW code \in Answers
  PROVE  Status(code) = 200 <=> code = "OK"
  BY DEF Answers, Faults, Status

\* What a call may name.
CallOK(call) ==
  /\ call.ip \in Ips
  /\ call.items \in Seq(Items) \ {<<>>}
  /\ call.op \in {"put", "delete"} => Len(call.items) = 1

TombstonesPresent(table) == \A slot \in Slots : table[slot].dead => Present(table[slot])

\* No record's revision goes down while it stays.
Raises(before, after) ==
  \A slot \in Slots : Present(before[slot]) /\ Present(after[slot]) =>
    after[slot].revision >= before[slot].revision

\* Compare-and-set leaves records of their kind and lowers no revision; a
\* single one that is refused has met another revision than it expected.
LEMMA WrittenSound ==
  ASSUME records \in Contents, TombstonesPresent(records),
         NEW items \in Seq(Items), items # <<>>
  PROVE  /\ Written(items).code \in {"OK", "CONFLICT"}
         /\ Written(items).records \in Contents
         /\ TombstonesPresent(Written(items).records)
         /\ Raises(records, Written(items).records)
         /\ Len(items) = 1 /\ Written(items).code = "CONFLICT" =>
              Prior(records[items[1].slot].revision) # items[1].expected
<1> DEFINE refused == \E i \in DOMAIN items : Prior(Found(items, i)) # items[i].expected
           mine(s) == {i \in DOMAIN items : items[i].slot = s}
           last(s) == CHOOSE i \in mine(s) : \A j \in mine(s) : j <= i
           left(s) == IF mine(s) = {} THEN records[s]
                      ELSE [revision |-> Found(items, last(s)) + 1, dead |-> items[last(s)].dead]
<1>1. Len(items) \in Nat /\ DOMAIN items = 1 .. Len(items)
      /\ \A i \in DOMAIN items : items[i] \in Items
  OBVIOUS
<1>2. \A i \in DOMAIN items :
        /\ items[i].slot \in Slots /\ items[i].dead \in BOOLEAN
        /\ records[items[i].slot].revision \in Nat
  BY <1>1 DEF Items, Contents
<1>3. \A i \in DOMAIN items :
        Cardinality({j \in 1 .. (i - 1) : items[j].slot = items[i].slot}) \in Nat
  <2> TAKE i \in DOMAIN items
  <2>1. i \in Int /\ i - 1 \in Int
    BY <1>1
  <2>2. IsFiniteSet(1 .. (i - 1))
    BY <2>1, FS_Interval
  <2>3. IsFiniteSet({j \in 1 .. (i - 1) : items[j].slot = items[i].slot})
    BY <2>2, FS_Subset
  <2> QED BY <2>3, FS_CardinalityType
<1>4. \A i \in DOMAIN items : Found(items, i) \in Nat
                              /\ Found(items, i) >= records[items[i].slot].revision
  <2> TAKE i \in DOMAIN items
  <2>1. Found(items, i) = records[items[i].slot].revision
          + Cardinality({j \in 1 .. (i - 1) : items[j].slot = items[i].slot})
    BY DEF Found
  <2>2. Cardinality({j \in 1 .. (i - 1) : items[j].slot = items[i].slot}) \in Nat
    BY <1>3
  <2>3. records[items[i].slot].revision \in Nat
    BY <1>2
  <2> QED BY <2>1, <2>2, <2>3
<1>5. CASE refused
  <2>1. Written(items) = [code |-> "CONFLICT", records |-> records]
    BY <1>5 DEF Written
  <2>2. ASSUME Len(items) = 1
        PROVE  Prior(records[items[1].slot].revision) # items[1].expected
    <3>1. PICK i \in DOMAIN items : Prior(Found(items, i)) # items[i].expected
      BY <1>5
    <3>2. i = 1
      BY <1>1, <2>2
    <3>3. {j \in 1 .. (1 - 1) : items[j].slot = items[1].slot} = {}
      OBVIOUS
    <3>4. Cardinality({j \in 1 .. (1 - 1) : items[j].slot = items[1].slot}) = 0
      BY <3>3, FS_EmptySet
    <3>5. 1 \in DOMAIN items /\ records[items[1].slot].revision \in Nat
      BY <1>2, <3>1, <3>2
    <3>6. Found(items, 1) = records[items[1].slot].revision + 0
      BY <3>4 DEF Found
    <3>7. Found(items, 1) = records[items[1].slot].revision
      BY <3>5, <3>6
    <3> QED BY <3>1, <3>2, <3>7
  <2>3. Raises(records, records)
    BY DEF Raises, Contents
  <2> QED BY <2>1, <2>2, <2>3
<1>6. CASE ~refused
  <2>1. Written(items) = [code |-> "OK", records |-> [s \in Slots |-> left(s)]]
    BY <1>6 DEF Written
  <2>2. ASSUME NEW s \in Slots
        PROVE  /\ left(s) \in [revision : Nat, dead : BOOLEAN]
               /\ left(s).dead => Present(left(s))
               /\ Present(records[s]) => left(s).revision >= records[s].revision
    <3>1. CASE mine(s) = {}
      <4>1. left(s) = records[s]
        BY <3>1
      <4>2. records[s] \in [revision : Nat, dead : BOOLEAN]
        BY DEF Contents
      <4>3. records[s].dead => Present(records[s])
        BY DEF TombstonesPresent
      <4>4. records[s].revision >= records[s].revision
        BY <4>2
      <4> HIDE DEF left
      <4> QED BY <4>1, <4>2, <4>3, <4>4
    <3>2. CASE mine(s) # {}
      <4>1. mine(s) \in SUBSET (1 .. Len(items))
        BY <1>1
      <4>2. last(s) \in mine(s)
        <5> HIDE DEF mine
        <5> QED BY <1>1, <3>2, <4>1, LastExists
      <4>3. last(s) \in DOMAIN items /\ items[last(s)].slot = s
        BY <4>2
      <4>4. Found(items, last(s)) \in Nat /\ Found(items, last(s)) >= records[s].revision
        BY <1>4, <4>3
      <4>5. items[last(s)].dead \in BOOLEAN
        BY <1>2, <4>3
      <4>6. left(s) = [revision |-> Found(items, last(s)) + 1, dead |-> items[last(s)].dead]
        BY <3>2
      <4>7. records[s].revision \in Nat
        BY DEF Contents
      <4> HIDE DEF left, last, mine
      <4>8. left(s).revision = Found(items, last(s)) + 1 /\ left(s).dead \in BOOLEAN
            /\ left(s) \in [revision : Nat, dead : BOOLEAN]
        BY <4>4, <4>5, <4>6
      <4> QED BY <4>4, <4>7, <4>8 DEF Present
    <3> QED BY <3>1, <3>2
  <2> HIDE DEF left
  <2>3. [s \in Slots |-> left(s)] \in Contents
    BY <2>2 DEF Contents
  <2>4. TombstonesPresent([s \in Slots |-> left(s)])
    BY <2>2 DEF TombstonesPresent
  <2>5. Raises(records, [s \in Slots |-> left(s)])
    BY <2>2 DEF Raises
  <2> QED BY <2>1, <2>3, <2>4, <2>5
<1> QED BY <1>5, <1>6

\* Every call leaves records of their kind and lowers the revision of none
\* that stays; a put or a delete that is refused has met another revision
\* than it expected.
LEMMA OutcomeSound ==
  ASSUME records \in Contents, TombstonesPresent(records), NEW call, CallOK(call)
  PROVE  /\ Outcome(call).code \in Answers
         /\ Outcome(call).records \in Contents
         /\ TombstonesPresent(Outcome(call).records)
         /\ Raises(records, Outcome(call).records)
         /\ call.op \in {"put", "delete"} /\ Outcome(call).code = "CONFLICT" =>
              Prior(records[call.items[1].slot].revision) # call.items[1].expected
<1> DEFINE slot == call.items[1].slot
           moved == {call.items[i].slot : i \in DOMAIN call.items}
           purged == [s \in Slots |-> IF s[1] = call.vault /\ records[s].dead THEN NoRecord ELSE records[s]]
           rekeyed == [s \in Slots |-> IF s[1] = call.vault THEN NoRecord
                                       ELSE IF s \in moved THEN [revision |-> 1, dead |-> FALSE]
                                       ELSE records[s]]
<1>1. \A code : [code |-> code, records |-> records].records = records
  OBVIOUS
<1>2. Raises(records, records)
  BY DEF Raises, Contents
<1>3. call.items \in Seq(Items) /\ call.items # <<>>
  BY DEF CallOK
<1>4. NoRecord \in [revision : Nat, dead : BOOLEAN] /\ ~Present(NoRecord) /\ ~NoRecord.dead
  BY DEF NoRecord, Present
<1>5. purged \in Contents /\ TombstonesPresent(purged) /\ Raises(records, purged)
  <2>1. purged \in Contents
    BY <1>4 DEF Contents
  <2>2. TombstonesPresent(purged)
    BY <1>4 DEF TombstonesPresent
  <2>3. Raises(records, purged)
    BY <1>2, <1>4 DEF Raises
  <2> QED BY <2>1, <2>2, <2>3
<1>6. ASSUME \A s \in moved : ~Present(records[s])
      PROVE  rekeyed \in Contents /\ TombstonesPresent(rekeyed) /\ Raises(records, rekeyed)
  <2> HIDE DEF moved
  <2>1. rekeyed \in Contents
    BY <1>4 DEF Contents
  <2>2. TombstonesPresent(rekeyed)
    BY <1>4 DEF TombstonesPresent
  <2>3. Raises(records, rekeyed)
    BY <1>2, <1>4, <1>6 DEF Raises
  <2> QED BY <2>1, <2>2, <2>3
<1>7. CASE call.op \in {"put", "batch"}
  <2>1. Outcome(call) = Written(call.items)
    BY <1>7 DEF Outcome
  <2>2. call.op = "put" => Len(call.items) = 1
    BY DEF CallOK
  <2> QED BY <1>3, <1>7, <2>1, <2>2, WrittenSound DEF Answers
<1>8. CASE call.op = "delete" /\ Present(records[slot])
  <2>1. Outcome(call) = Written(call.items)
    BY <1>8 DEF Outcome
  <2>2. Len(call.items) = 1
    BY <1>8 DEF CallOK
  <2> QED BY <1>3, <2>1, <2>2, WrittenSound DEF Answers
<1>9. CASE call.op = "delete" /\ ~Present(records[slot])
  <2>1. Outcome(call) = [code |-> "NOT_FOUND", records |-> records]
    BY <1>9 DEF Outcome
  <2> QED BY <1>2, <2>1 DEF Answers
<1>10. CASE call.op = "purge"
  <2>1. Outcome(call) = [code |-> "OK", records |-> purged]
    BY <1>10 DEF Outcome
  <2> HIDE DEF purged
  <2> QED BY <1>5, <1>10, <2>1 DEF Answers
<1>11. CASE call.op = "rekey" /\ \A s \in moved : ~Present(records[s])
  <2>1. Outcome(call) = [code |-> "OK", records |-> rekeyed]
    BY <1>11 DEF Outcome
  <2>2. rekeyed \in Contents /\ TombstonesPresent(rekeyed) /\ Raises(records, rekeyed)
    BY <1>6, <1>11
  <2> HIDE DEF rekeyed
  <2> QED BY <1>11, <2>1, <2>2 DEF Answers
<1>12. CASE /\ call.op \notin {"put", "batch", "delete", "purge"}
            /\ ~(call.op = "rekey" /\ \A s \in moved : ~Present(records[s]))
  <2>1. \E code \in {"OK", "NOT_FOUND", "BAD_QUERY", "CONFLICT"} :
          Outcome(call) = [code |-> code, records |-> records]
    <3>1. CASE call.op = "get"
      BY <3>1 DEF Outcome
    <3>2. CASE call.op = "embed"
      BY <3>2 DEF Outcome, Embedded
    <3>3. CASE call.op = "rekey"
      <4>1. \E s \in moved : Present(records[s])
        BY <1>12, <3>3
      <4>2. Outcome(call) = [code |-> "CONFLICT", records |-> records]
        BY <3>3, <4>1 DEF Outcome
      <4> QED BY <4>2
    <3>4. CASE call.op \notin {"get", "embed", "rekey"}
      BY <1>12, <3>4 DEF Outcome
    <3> QED BY <3>1, <3>2, <3>3, <3>4
  <2> QED BY <1>2, <1>12, <2>1 DEF Answers, Faults
<1> QED BY <1>7, <1>8, <1>9, <1>10, <1>11, <1>12

-----------------------------------------------------------------------------
(* The inductive invariant.                                                *)

RequestStates == {"idle", "limit", "store", "reread", "done"}

RequestRecords ==
  [state : RequestStates, call : scenario.calls, minute : Minutes, removals : Nat,
   found : Nat, code : Answers \cup {"none"}, revision : Nat]

Readers ==
  [state : {"off", "reading", "read"}, offset : Nat, seen : SUBSET Ids, there : SUBSET Ids,
   removals : [Ids -> Nat]]

\* Every value is of its kind, no minute is ahead of the clock's, and what is
\* answered has a code.
ServiceTyped ==
  /\ scenario \in Scenarios /\ minute \in Minutes
  /\ windows \in [Ips -> [minute : Minutes, count : Nat]]
  /\ passed \in [Ips -> [Minutes -> Nat]] /\ stray \in [Ips -> Nat]
  /\ records \in Contents /\ removals \in [Slots -> Nat]
  /\ request \in [Requests -> RequestRecords]
  /\ reader \in Readers
  /\ TombstonesPresent(records)
  /\ \A ip \in Ips : windows[ip].minute <= minute
  /\ \A q \in Requests : /\ request[q].minute <= minute
                         /\ request[q].state = "done" => request[q].code # "none"

\* What an address's requests of minute m have used of the limit, with its
\* window at minute w, n requests counted there, and s that met a window late.
Held(limit, s, p, w, n, m, now) ==
  /\ m > now => p = 0
  /\ m = now /\ w # m => p <= limit * s
  /\ w = m => p <= limit * s + n
  /\ p <= limit * s + limit

\* A minute gets a second window only after a request of another minute met
\* the first, or when it is itself over.
RateInv ==
  scenario.limit > 0 => \A ip \in Ips : \A m \in Minutes :
    Held(scenario.limit, stray[ip], passed[ip][m], windows[ip].minute, windows[ip].count, m, minute)

\* A refused write that is looked up did not meet the revision it expected,
\* and its record has kept at least that revision unless it was removed.
ConflictInv ==
  \A q \in Requests :
    LET r == request[q]
        item == r.call.items[1]
    IN /\ r.state = "reread" =>
            /\ Prior(r.found) # item.expected
            /\ removals[item.slot] >= r.removals
            /\ removals[item.slot] > r.removals \/ records[item.slot].revision >= r.found
       /\ r.state = "done" /\ r.code = "CONFLICT" /\ {r.revision} = item.expected =>
            removals[item.slot] > r.removals \/ r.found < r.revision

\* While nothing of the vault is removed, what the reader must find stays in
\* the listing, and it has seen all of it that lies before its offset.
PagesInv ==
  LET vault == scenario.vault
  IN /\ \A id \in Ids : reader.removals[id] <= removals[<<vault, id>>]
     /\ reader.state = "read" => reader.offset > 0
     /\ reader.offset > 0 => reader.there \subseteq Listed(vault)
     /\ reader.state = "reading" /\ reader.offset > 0 /\ VaultRemovals = reader.removals =>
          \A id \in reader.there : Before(vault, id) < reader.offset => id \in reader.seen
     /\ PagesComplete

MigratorRecords == [state : {"check", "apply", "failed", "done"}, at : 1 .. 4]

\* A version is in the table only with its file's changes, and a migrator
\* is past a file only when its version is there.
SchemaInv ==
  /\ schema \in [has : SUBSET {"table", "scoped", "stamps"}, versions : SUBSET (1 .. 3)]
  /\ migrator \in [Migrators -> MigratorRecords]
  /\ api \in [state : {"down", "migrate", "verify", "serving"}, at : 1 .. 3, ddl : BOOLEAN]
  /\ \A i \in schema.versions : Files[i] \in schema.has
  /\ \A m \in Migrators :
       \/ migrator[m].state = "done" /\ schema.versions = 1 .. 3
       \/ /\ migrator[m].state # "done" /\ (migrator[m].state = "apply" => migrator[m].at <= 3)
          /\ \A i \in 1 .. (migrator[m].at - 1) : i \in schema.versions

\* What a scenario is.
LEMMA ScenarioOK ==
  ASSUME scenario \in Scenarios
  PROVE  /\ Ids \in SUBSET Nat /\ IsFiniteSet(Ids) /\ LastMinute \in Nat
         /\ scenario.limit \in Nat /\ scenario.ticks \in Minutes
         /\ scenario.pageSize \in Nat \ {0} /\ scenario.vault \in Vaults
         /\ scenario.records \in Contents /\ TombstonesPresent(scenario.records)
         /\ scenario.calls # {}
         /\ \A call \in scenario.calls : CallOK(call)
  BY ApiAssumption DEF CallOK, TombstonesPresent

\* The service starts with everything of its kind.
LEMMA InitTyped == Init => ServiceTyped
<1> SUFFICES ASSUME Init PROVE ServiceTyped
  OBVIOUS
<1>1. scenario \in Scenarios
  BY DEF Init
<1>2. 0 \in Minutes
  BY <1>1, ScenarioOK DEF Minutes
<1>3. (CHOOSE c \in scenario.calls : TRUE) \in scenario.calls
  BY <1>1, ScenarioOK
<1>4. request \in [Requests -> RequestRecords]
  BY <1>2, <1>3 DEF Init, RequestRecords, RequestStates
<1>5. reader \in Readers
  BY DEF Init, Readers
<1>6. windows \in [Ips -> [minute : Minutes, count : Nat]]
  BY <1>2 DEF Init
<1>7. passed \in [Ips -> [Minutes -> Nat]] /\ stray \in [Ips -> Nat] /\ removals \in [Slots -> Nat]
  BY DEF Init
<1>8. minute \in Minutes /\ records \in Contents /\ TombstonesPresent(records)
  BY <1>1, <1>2, ScenarioOK DEF Init
<1>9. \A ip \in Ips : windows[ip].minute <= minute
  BY DEF Init
<1>10. \A q \in Requests : request[q].minute <= minute /\ request[q].state # "done"
  BY DEF Init
<1> QED BY <1>1, <1>4, <1>5, <1>6, <1>7, <1>8, <1>9, <1>10 DEF ServiceTyped

\* No request has passed before the first minute.
LEMMA InitRate == Init => RateInv
<1> SUFFICES ASSUME Init, scenario.limit > 0, NEW ip \in Ips, NEW m \in Minutes
             PROVE  Held(scenario.limit, stray[ip], passed[ip][m], windows[ip].minute,
                         windows[ip].count, m, minute)
  BY DEF RateInv
<1>1. scenario.limit \in Nat
  BY ScenarioOK DEF Init
<1>2. stray[ip] = 0 /\ passed[ip][m] = 0 /\ windows[ip].minute = 0 /\ windows[ip].count = 0 /\ minute = 0
  BY DEF Init
<1> QED BY <1>1, <1>2 DEF Held

\* Nothing is looked up yet.
LEMMA InitConflict == Init => ConflictInv
  BY DEF Init, ConflictInv

\* No page is read yet.
LEMMA InitPages == Init => PagesInv
<1> SUFFICES ASSUME Init PROVE PagesInv
  OBVIOUS
<1>1. scenario.vault \in Vaults
  BY ScenarioOK DEF Init
<1>2. reader.offset = 0 /\ reader.state # "read"
  BY DEF Init
<1>3. \A id \in Ids : reader.removals[id] <= removals[<<scenario.vault, id>>]
  BY <1>1 DEF Init, Slots
<1> QED BY <1>2, <1>3 DEF PagesInv, PagesComplete

\* The files, by version.
LEMMA FilesAre ==
  /\ DOMAIN Files = 1 .. 3 /\ Len(Files) = 3
  /\ \A i \in 1 .. 3 : Files[i] \in {"table", "scoped", "stamps"}
<1>1. DOMAIN Files = 1 .. 3 /\ Len(Files) = 3
  BY DEF Files
<1>2. Files[1] = "table" /\ Files[2] = "scoped" /\ Files[3] = "stamps"
  BY DEF Files
<1>3. \A i \in 1 .. 3 : i = 1 \/ i = 2 \/ i = 3
  OBVIOUS
<1> QED BY <1>1, <1>2, <1>3

\* A new database has no versions, a finished one all of them.
LEMMA InitSchema == Init => SchemaInv
<1> SUFFICES ASSUME Init PROVE SchemaInv
  OBVIOUS
<1>1. {Files[i] : i \in DOMAIN Files} \in SUBSET {"table", "scoped", "stamps"}
  BY FilesAre
<1>2. CASE scenario.new
  <2>1. schema = [has |-> {}, versions |-> {}]
    BY <1>2 DEF Init, SchemaInit
  <2>2. migrator = [m \in Migrators |-> [state |-> "check", at |-> 1]]
    BY <1>2 DEF Init, SchemaInit
  <2>3. api \in [state : {"down", "migrate", "verify", "serving"}, at : 1 .. 3, ddl : BOOLEAN]
    BY <1>2 DEF Init, SchemaInit
  <2> QED BY <2>1, <2>2, <2>3 DEF SchemaInv, MigratorRecords
<1>3. CASE ~scenario.new
  <2>1. schema = [has |-> {Files[i] : i \in DOMAIN Files}, versions |-> 1 .. 3]
    BY <1>3, FilesAre DEF Init, SchemaInit
  <2>2. migrator = [m \in Migrators |-> [state |-> "done", at |-> 1]]
    BY <1>3 DEF Init, SchemaInit
  <2>3. api \in [state : {"down", "migrate", "verify", "serving"}, at : 1 .. 3, ddl : BOOLEAN]
    BY <1>3 DEF Init, SchemaInit
  <2>4. \A i \in 1 .. 3 : Files[i] \in {Files[k] : k \in DOMAIN Files}
    BY FilesAre
  <2>5. schema.has = {Files[i] : i \in DOMAIN Files} /\ schema.versions = 1 .. 3
    BY <2>1
  <2>6. schema \in [has : SUBSET {"table", "scoped", "stamps"}, versions : SUBSET (1 .. 3)]
    BY <1>1, <2>1
  <2>7. \A i \in schema.versions : Files[i] \in schema.has
    BY <2>4, <2>5
  <2> QED BY <2>2, <2>3, <2>5, <2>6, <2>7 DEF SchemaInv, MigratorRecords
<1> QED BY <1>2, <1>3

-----------------------------------------------------------------------------
(* What the actions do to the requests.                                    *)

\* A request that is answered without its store's conflict, or goes on to
\* the store: what passing or failing the limiter comes to.
Moved(q) ==
  \/ request' = [request EXCEPT ![q].state = "store"]
  \/ \E code \in Answers \ {"CONFLICT"} : Answer(q, code, 0)

\* The layers and the handler answer or let through.
LEMMA AdmitMoves ==
  ASSUME NEW q, NEW call, Admit(q, call)
  PROVE  Moved(q)
<1>1. CASE Refusal(call) # "none"
  <2>1. Refusal(call) \in Faults
    BY <1>1, RefusalIsFault
  <2>2. Refusal(call) \in Answers \ {"CONFLICT"}
    BY <2>1 DEF Answers, Faults
  <2>3. Answer(q, Refusal(call), 0)
    BY <1>1 DEF Admit
  <2> QED BY <2>2, <2>3 DEF Moved
<1>2. CASE Refusal(call) = "none" /\ call.op = "healthz"
  <2>1. Answer(q, "OK", 0)
    BY <1>2 DEF Admit
  <2>2. "OK" \in Answers \ {"CONFLICT"}
    BY DEF Answers
  <2> QED BY <2>1, <2>2 DEF Moved
<1>3. CASE Refusal(call) = "none" /\ call.op # "healthz"
  BY <1>3 DEF Admit, Moved
<1> QED BY <1>1, <1>2, <1>3

\* An answered request keeps its call and what it found.
LEMMA AnswerKeeps ==
  ASSUME request \in [Requests -> RequestRecords], NEW q \in Requests,
         NEW code \in Answers, NEW revision \in Nat, Answer(q, code, revision)
  PROVE  /\ request' \in [Requests -> RequestRecords]
         /\ \A p \in Requests \ {q} : request'[p] = request[p]
         /\ request'[q].state = "done" /\ request'[q].code = code
         /\ request'[q].revision = revision
         /\ request'[q].call = request[q].call /\ request'[q].minute = request[q].minute
         /\ request'[q].removals = request[q].removals /\ request'[q].found = request[q].found
<1> DEFINE r == request[q]
<1>1. r \in RequestRecords
  OBVIOUS
<1>2. PICK x : x = [r EXCEPT !.state = "done", !.code = code, !.revision = revision]
  OBVIOUS
<1>3. x \in RequestRecords
  BY <1>1, <1>2 DEF RequestRecords, RequestStates
<1>4. /\ x.state = "done" /\ x.code = code /\ x.revision = revision
      /\ x.call = r.call /\ x.minute = r.minute
      /\ x.removals = r.removals /\ x.found = r.found
  BY <1>1, <1>2 DEF RequestRecords
<1>5. request' = [request EXCEPT ![q] = x]
  BY <1>2 DEF Answer
<1>6. request'[q] = x /\ \A p \in Requests \ {q} : request'[p] = request[p]
  BY <1>5
<1>7. request' \in [Requests -> RequestRecords]
  BY <1>3, <1>5
<1> QED BY <1>4, <1>6, <1>7

\* So does one that goes on to the store.
LEMMA MovedKeeps ==
  ASSUME request \in [Requests -> RequestRecords], NEW q \in Requests, Moved(q)
  PROVE  /\ request' \in [Requests -> RequestRecords]
         /\ \A p \in Requests \ {q} : request'[p] = request[p]
         /\ request'[q].state \in {"store", "done"}
         /\ request'[q].state = "done" =>
              request'[q].code \in Answers \ {"CONFLICT"} /\ request'[q].revision = 0
         /\ request'[q].call = request[q].call /\ request'[q].minute = request[q].minute
<1>1. CASE request' = [request EXCEPT ![q].state = "store"]
  <2>1. request[q] \in RequestRecords
    OBVIOUS
  <2>2. PICK x : x = [request[q] EXCEPT !.state = "store"]
    OBVIOUS
  <2>3. x \in RequestRecords
    BY <2>1, <2>2 DEF RequestRecords, RequestStates
  <2>4. x.state = "store" /\ x.call = request[q].call /\ x.minute = request[q].minute
    BY <2>1, <2>2 DEF RequestRecords
  <2>5. request' = [request EXCEPT ![q] = x]
    BY <1>1, <2>2
  <2> QED BY <2>3, <2>4, <2>5
<1>2. CASE \E code \in Answers \ {"CONFLICT"} : Answer(q, code, 0)
  <2>1. PICK code \in Answers \ {"CONFLICT"} : Answer(q, code, 0)
    BY <1>2
  <2>2. 0 \in Nat
    OBVIOUS
  <2> QED BY <2>1, <2>2, AnswerKeeps
<1> QED BY <1>1, <1>2 DEF Moved

\* What Limit does to a request.
LEMMA LimitMoves ==
  ASSUME NEW q \in Requests, Limit(q)
  PROVE  Moved(q)
<1>1. "RATE_LIMITED" \in Answers \ {"CONFLICT"}
  BY DEF Answers
<1>2. Admit(q, request[q].call) \/ Answer(q, "RATE_LIMITED", 0)
  BY DEF Limit
<1> QED BY <1>1, <1>2, AdmitMoves DEF Moved

\* A request that arrives has its call and the clock's minute.
LEMMA ArriveKeeps ==
  ASSUME ServiceTyped, NEW q \in Requests, NEW call \in scenario.calls, Arrive(q, call)
  PROVE  /\ request' \in [Requests -> RequestRecords]
         /\ \A p \in Requests \ {q} : request'[p] = request[p]
         /\ request'[q].state = "limit" /\ request'[q].minute = minute
<1>1. request[q] \in RequestRecords /\ minute \in Minutes
  BY DEF ServiceTyped
<1>2. PICK x : x = [request[q] EXCEPT !.state = "limit", !.call = call, !.minute = minute]
  OBVIOUS
<1>3. x \in RequestRecords
  BY <1>1, <1>2 DEF RequestRecords, RequestStates
<1>4. x.state = "limit" /\ x.minute = minute
  BY <1>1, <1>2 DEF RequestRecords
<1>5. request' = [request EXCEPT ![q] = x]
  BY <1>2 DEF Arrive
<1>6. request \in [Requests -> RequestRecords]
  BY DEF ServiceTyped
<1> QED BY <1>3, <1>4, <1>5, <1>6

\* What the store's step does: it leaves records of their kind, counts those
\* it removes, and sends a refused put or delete to look its record up.
LEMMA StoreDoes ==
  ASSUME ServiceTyped, NEW q \in Requests, Store(q)
  PROVE  LET r == request[q]
             slot == r.call.items[1].slot
         IN /\ CallOK(r.call)
            /\ records' \in Contents /\ TombstonesPresent(records') /\ Raises(records, records')
            /\ removals' = [s \in Slots |-> removals[s] +
                 IF Present(records[s]) /\ ~Present(records'[s]) THEN 1 ELSE 0]
            /\ reader' = [reader EXCEPT !.there =
                 {id \in reader.there : Present(records'[<<scenario.vault, id>>])}]
            /\ \/ \E code \in Answers : Answer(q, code, 0)
               \/ /\ request' = [request EXCEPT ![q].state = "reread", ![q].removals = removals[slot],
                                                ![q].found = records[slot].revision]
                  /\ Prior(records[slot].revision) # r.call.items[1].expected
<1> DEFINE r == request[q]
           slot == r.call.items[1].slot
           undone == [code |-> "UNAVAILABLE", records |-> records]
           unheard == [Outcome(r.call) EXCEPT !.code = "UNAVAILABLE"]
<1>1. CallOK(r.call)
  <2>1. r.call \in scenario.calls
    BY DEF ServiceTyped, RequestRecords
  <2> QED BY <2>1, ScenarioOK DEF ServiceTyped
<1>2. records \in Contents /\ TombstonesPresent(records)
  BY DEF ServiceTyped
<1>3. /\ Outcome(r.call).code \in Answers /\ Outcome(r.call).records \in Contents
      /\ TombstonesPresent(Outcome(r.call).records) /\ Raises(records, Outcome(r.call).records)
      /\ r.call.op \in {"put", "delete"} /\ Outcome(r.call).code = "CONFLICT" =>
           Prior(records[slot].revision) # r.call.items[1].expected
  BY <1>1, <1>2, OutcomeSound
<1>4. PICK outcome \in {Outcome(r.call), undone, unheard} :
        /\ records' = outcome.records
        /\ removals' = [s \in Slots |-> removals[s] +
             IF s \in {z \in Slots : Present(records[z]) /\ ~Present(outcome.records[z])} THEN 1 ELSE 0]
        /\ reader' = [reader EXCEPT !.there = {id \in @ : Present(records'[<<scenario.vault, id>>])}]
        /\ IF Rereads(r.call, outcome.code)
           THEN request' = [request EXCEPT ![q].state = "reread", ![q].removals = removals[slot],
                                           ![q].found = records[slot].revision]
           ELSE Answer(q, outcome.code, 0)
  BY DEF Store
<1>5. /\ outcome.code \in Answers /\ outcome.records \in Contents
      /\ TombstonesPresent(outcome.records) /\ Raises(records, outcome.records)
      /\ r.call.op \in {"put", "delete"} /\ outcome.code = "CONFLICT" =>
           Prior(records[slot].revision) # r.call.items[1].expected
  <2>1. CASE outcome = Outcome(r.call)
    BY <1>3, <2>1
  <2>2. CASE outcome = undone
    <3>1. Raises(records, records)
      BY <1>2 DEF Raises, Contents
    <3> QED BY <1>2, <2>2, <3>1 DEF Answers
  <2>3. CASE outcome = unheard
    <3>1. outcome.code = "UNAVAILABLE" \/ outcome.code = Outcome(r.call).code
      BY <2>3
    <3>2. outcome.records = Outcome(r.call).records
      BY <2>3
    <3>3. "UNAVAILABLE" \in Answers
      BY DEF Answers
    <3> QED BY <1>3, <3>1, <3>2, <3>3
  <2> QED BY <2>1, <2>2, <2>3
<1>6. \A s \in Slots : s \in {z \in Slots : Present(records[z]) /\ ~Present(outcome.records[z])}
                         <=> Present(records[s]) /\ ~Present(records'[s])
  BY <1>4
<1>7. removals' = [s \in Slots |-> removals[s] +
        IF Present(records[s]) /\ ~Present(records'[s]) THEN 1 ELSE 0]
  BY <1>4, <1>6
<1>8. CASE Rereads(r.call, outcome.code)
  <2>1. r.call.op \in {"put", "delete"} /\ outcome.code = "CONFLICT"
    BY <1>8 DEF Rereads
  <2> QED BY <1>1, <1>4, <1>5, <1>7, <1>8, <2>1
<1>9. CASE ~Rereads(r.call, outcome.code)
  BY <1>1, <1>4, <1>5, <1>7, <1>9
<1> QED BY <1>8, <1>9

\* A record that leaves is counted, no count goes down.
LEMMA RemovalsGrow ==
  ASSUME ServiceTyped, NEW q \in Requests, Store(q)
  PROVE  /\ removals' \in [Slots -> Nat]
         /\ \A s \in Slots : removals'[s] >= removals[s]
         /\ \A s \in Slots : Present(records[s]) /\ ~Present(records'[s]) => removals'[s] > removals[s]
<1>1. removals' = [s \in Slots |-> removals[s] +
        IF Present(records[s]) /\ ~Present(records'[s]) THEN 1 ELSE 0]
  BY StoreDoes
<1>2. \A s \in Slots : removals[s] \in Nat
  BY DEF ServiceTyped
<1> QED BY <1>1, <1>2

\* What a page read does to the reader.
LEMMA ReaderTyped ==
  ASSUME ServiceTyped, ReadPage
  PROVE  reader' \in Readers
<1>1. reader \in Readers /\ scenario.pageSize \in Nat
  BY ScenarioOK DEF ServiceTyped
<1>2. Page(scenario.vault, scenario.pageSize, reader.offset) \subseteq Ids
      /\ Listed(scenario.vault) \subseteq Ids
  BY DEF Page, Listed
<1>3. VaultRemovals \in [Ids -> Nat]
  <2>1. scenario.vault \in Vaults /\ removals \in [Slots -> Nat]
    BY ScenarioOK DEF ServiceTyped
  <2> QED BY <2>1 DEF VaultRemovals, Slots
<1>4. PICK seen, there, taken, offset, state :
        /\ reader' = [reader EXCEPT !.seen = seen, !.there = there, !.removals = taken,
                                    !.offset = offset, !.state = state]
        /\ seen = reader.seen \cup Page(scenario.vault, scenario.pageSize, reader.offset)
        /\ there = IF reader.offset = 0 THEN Listed(scenario.vault) ELSE reader.there
        /\ taken = IF reader.offset = 0 THEN VaultRemovals ELSE reader.removals
        /\ offset = reader.offset + scenario.pageSize
        /\ state \in {"reading", "read"}
  BY DEF ReadPage
<1>5. /\ reader.seen \subseteq Ids /\ reader.there \subseteq Ids
      /\ reader.removals \in [Ids -> Nat] /\ reader.offset \in Nat
  BY <1>1 DEF Readers
<1>6. seen \subseteq Ids /\ there \subseteq Ids /\ taken \in [Ids -> Nat] /\ offset \in Nat
  BY <1>1, <1>2, <1>3, <1>4, <1>5
<1> QED BY <1>1, <1>4, <1>6 DEF Readers
\* The first item of a call names a slot and expects no revision 0.
LEMMA FirstItem ==
  ASSUME NEW call, CallOK(call)
  PROVE  call.items[1].slot \in Slots /\ call.items[1].expected \in SUBSET (Nat \ {0})
<1>1. call.items \in Seq(Items) /\ call.items # <<>>
  BY DEF CallOK
<1>2. call.items[1] \in Items
  BY <1>1
<1> QED BY <1>2 DEF Items

\* What a second call finds is a revision, or nothing.
LEMMA RereadAnswers ==
  ASSUME ServiceTyped, NEW q \in Requests, Reread(q)
  PROVE  LET revision == records[request[q].call.items[1].slot].revision
         IN /\ CallOK(request[q].call) /\ revision \in Nat
            /\ \E n \in Nat : (n = revision \/ n = 0) /\ Answer(q, "CONFLICT", n)
<1> DEFINE slot == request[q].call.items[1].slot
<1>1. CallOK(request[q].call)
  <2>1. request[q].call \in scenario.calls
    BY DEF ServiceTyped, RequestRecords
  <2> QED BY <2>1, ScenarioOK DEF ServiceTyped
<1>2. records[slot].revision \in Nat
  BY <1>1, FirstItem DEF ServiceTyped, Contents
<1>3. Answer(q, "CONFLICT", records[slot].revision) \/ Answer(q, "CONFLICT", 0)
  BY DEF Reread
<1> QED BY <1>1, <1>2, <1>3

-----------------------------------------------------------------------------
(* Every step keeps every value of its kind.                               *)

\* A step that changes only requests keeps the rest.
LEMMA TypedByRequests ==
  ASSUME ServiceTyped,
         UNCHANGED <<scenario, minute, records, removals, reader>>,
         windows' \in [Ips -> [minute : Minutes, count : Nat]],
         passed' \in [Ips -> [Minutes -> Nat]], stray' \in [Ips -> Nat],
         \A ip \in Ips : windows'[ip].minute <= minute,
         request' \in [Requests -> RequestRecords],
         \A q \in Requests : request'[q].minute <= minute
           /\ (request'[q].state = "done" => request'[q].code # "none")
  PROVE  ServiceTyped'
<1>1. RequestRecords' = RequestRecords
  BY DEF RequestRecords
<1>2. TombstonesPresent(records)' /\ records' \in Contents /\ removals' \in [Slots -> Nat]
  BY DEF ServiceTyped, TombstonesPresent
<1> QED BY <1>1, <1>2 DEF ServiceTyped

\* The clock goes on.
LEMMA TickTyped == ServiceTyped /\ Tick => ServiceTyped'
<1> SUFFICES ASSUME ServiceTyped, Tick PROVE ServiceTyped'
  OBVIOUS
<1>1. minute \in Nat /\ minute' = minute + 1 /\ minute' \in Minutes
  BY ScenarioOK DEF ServiceTyped, Tick, Minutes
<1>2. UNCHANGED <<scenario, windows, passed, stray, records, removals, request, reader>>
  BY DEF Tick
<1>3. RequestRecords' = RequestRecords
  BY <1>2 DEF RequestRecords
<1>4. TombstonesPresent(records)' /\ Readers' = Readers
  BY <1>2 DEF ServiceTyped, TombstonesPresent, Readers
<1>5. \A ip \in Ips : windows'[ip].minute <= minute'
  <2> TAKE ip \in Ips
  <2>1. windows[ip].minute \in Nat /\ windows[ip].minute <= minute
    BY DEF ServiceTyped, Minutes
  <2> QED BY <1>1, <1>2, <2>1
<1>6. \A q \in Requests : request'[q].minute <= minute'
  <2> TAKE q \in Requests
  <2>1. request[q].minute \in Nat /\ request[q].minute <= minute
    BY DEF ServiceTyped, RequestRecords, Minutes
  <2> QED BY <1>1, <1>2, <2>1
<1> QED BY <1>1, <1>2, <1>3, <1>4, <1>5, <1>6 DEF ServiceTyped

\* A request arrives.
LEMMA ArriveTyped ==
  ASSUME ServiceTyped, NEW q \in Requests, NEW call \in scenario.calls, Arrive(q, call)
  PROVE  ServiceTyped'
<1>1. /\ request' \in [Requests -> RequestRecords]
      /\ \A p \in Requests \ {q} : request'[p] = request[p]
      /\ request'[q].state = "limit" /\ request'[q].minute = minute
  BY ArriveKeeps
<1>2. UNCHANGED <<scenario, minute, windows, passed, stray, records, removals, reader>>
  BY DEF Arrive
<1>3. minute <= minute
  BY DEF ServiceTyped, Minutes
<1>4. \A p \in Requests : request'[p].minute <= minute
        /\ (request'[p].state = "done" => request'[p].code # "none")
  BY <1>1, <1>3 DEF ServiceTyped
<1>5. windows' = windows /\ passed' = passed /\ stray' = stray
  BY <1>2
<1>6. /\ windows \in [Ips -> [minute : Minutes, count : Nat]]
      /\ passed \in [Ips -> [Minutes -> Nat]] /\ stray \in [Ips -> Nat]
      /\ \A ip \in Ips : windows[ip].minute <= minute
  BY DEF ServiceTyped
<1> QED BY <1>1, <1>2, <1>4, <1>5, <1>6, TypedByRequests

\* What the limiter's step does to the counts of the request's address.
LEMMA LimitDoes ==
  ASSUME ServiceTyped, NEW q \in Requests, Limit(q)
  PROVE  LET ip == request[q].call.ip
             m == request[q].minute
             entered == Entered(windows[ip], m)
         IN /\ ip \in Ips /\ m \in Minutes /\ m <= minute
            /\ entered = [minute |-> m,
                          count |-> IF windows[ip].minute # m THEN 1 ELSE windows[ip].count + 1]
            /\ windows' = IF scenario.limit = 0 THEN windows ELSE [windows EXCEPT ![ip] = entered]
            /\ stray' = IF m = minute THEN stray ELSE [stray EXCEPT ![ip] = stray[ip] + 1]
            /\ passed' = IF scenario.limit > 0 /\ entered.count <= scenario.limit
                         THEN [passed EXCEPT ![ip] = [passed[ip] EXCEPT ![m] = passed[ip][m] + 1]]
                         ELSE passed
            /\ UNCHANGED <<scenario, minute, records, removals, reader, schemaVars>>
<1> DEFINE ip == request[q].call.ip
           m == request[q].minute
           entered == Entered(windows[ip], m)
<1>1. request[q].call \in scenario.calls /\ m \in Minutes /\ m <= minute
  BY DEF ServiceTyped, RequestRecords
<1>2. ip \in Ips
  BY <1>1, ScenarioOK DEF ServiceTyped, CallOK
<1>3. windows[ip] \in [minute : Minutes, count : Nat]
  BY <1>2 DEF ServiceTyped
<1>4. entered = [minute |-> m,
                 count |-> IF windows[ip].minute # m THEN 1 ELSE windows[ip].count + 1]
  BY <1>3 DEF Entered
<1>5. scenario.limit \in Nat
  BY ScenarioOK DEF ServiceTyped
<1>6. /\ windows' = IF scenario.limit = 0 THEN windows ELSE [windows EXCEPT ![ip] = entered]
      /\ stray' = IF m = minute THEN stray ELSE [stray EXCEPT ![ip] = stray[ip] + 1]
      /\ UNCHANGED <<scenario, minute, records, removals, reader, schemaVars>>
  BY DEF Limit
<1>7. passed' = IF scenario.limit > 0 /\ entered.count <= scenario.limit
                THEN [passed EXCEPT ![ip] = [passed[ip] EXCEPT ![m] = passed[ip][m] + 1]]
                ELSE passed
  <2>1. CASE scenario.limit = 0
    <3>1. passed' = passed
      BY <2>1 DEF Limit
    <3> QED BY <2>1, <3>1
  <2>2. CASE scenario.limit > 0 /\ entered.count <= scenario.limit
    <3>1. passed' = [passed EXCEPT ![ip][m] = @ + 1]
      BY <2>2 DEF Limit
    <3> QED BY <2>2, <3>1
  <2>3. CASE scenario.limit > 0 /\ ~(entered.count <= scenario.limit)
    <3>1. passed' = passed
      BY <2>3 DEF Limit
    <3> QED BY <2>3, <3>1
  <2> QED BY <1>5, <2>1, <2>2, <2>3
<1> QED BY <1>1, <1>2, <1>4, <1>6, <1>7

\* A request meets its window.
LEMMA LimitTyped ==
  ASSUME ServiceTyped, NEW q \in Requests, Limit(q)
  PROVE  ServiceTyped'
<1> DEFINE ip == request[q].call.ip
           m == request[q].minute
           entered == Entered(windows[ip], m)
<1>1. /\ ip \in Ips /\ m \in Minutes /\ m <= minute
      /\ entered = [minute |-> m,
                    count |-> IF windows[ip].minute # m THEN 1 ELSE windows[ip].count + 1]
      /\ windows' = IF scenario.limit = 0 THEN windows ELSE [windows EXCEPT ![ip] = entered]
      /\ stray' = IF m = minute THEN stray ELSE [stray EXCEPT ![ip] = stray[ip] + 1]
      /\ passed' = IF scenario.limit > 0 /\ entered.count <= scenario.limit
                   THEN [passed EXCEPT ![ip] = [passed[ip] EXCEPT ![m] = passed[ip][m] + 1]]
                   ELSE passed
      /\ UNCHANGED <<scenario, minute, records, removals, reader, schemaVars>>
  BY LimitDoes
<1>2. /\ windows \in [Ips -> [minute : Minutes, count : Nat]]
      /\ passed \in [Ips -> [Minutes -> Nat]] /\ stray \in [Ips -> Nat]
      /\ \A i \in Ips : windows[i].minute <= minute
      /\ request \in [Requests -> RequestRecords]
      /\ \A p \in Requests : /\ request[p].minute <= minute
                             /\ request[p].state = "done" => request[p].code # "none"
  BY DEF ServiceTyped
<1>3. /\ request' \in [Requests -> RequestRecords]
      /\ \A p \in Requests \ {q} : request'[p] = request[p]
      /\ request'[q].state = "done" => request'[q].code \in Answers \ {"CONFLICT"}
      /\ request'[q].minute = m
  BY <1>2, LimitMoves, MovedKeeps
<1>4. "none" \notin Answers
  BY DEF Answers, Faults
<1>5. \A p \in Requests : request'[p].minute <= minute
        /\ (request'[p].state = "done" => request'[p].code # "none")
  BY <1>1, <1>2, <1>3, <1>4
<1>6. entered \in [minute : Minutes, count : Nat] /\ entered.minute = m
  <2>1. windows[ip].count \in Nat
    BY <1>1, <1>2
  <2> QED BY <1>1, <2>1
<1> HIDE DEF ip, m, entered
<1>7. windows' \in [Ips -> [minute : Minutes, count : Nat]]
      /\ \A i \in Ips : windows'[i].minute <= minute
  BY <1>1, <1>2, <1>6
<1>8. stray' \in [Ips -> Nat]
  BY <1>1, <1>2
<1>9. passed' \in [Ips -> [Minutes -> Nat]]
  <2>1. passed[ip] \in [Minutes -> Nat] /\ passed[ip][m] + 1 \in Nat
    BY <1>1, <1>2
  <2>2. [passed[ip] EXCEPT ![m] = passed[ip][m] + 1] \in [Minutes -> Nat]
    BY <2>1
  <2> QED BY <1>1, <1>2, <2>2
<1>10. UNCHANGED <<scenario, minute, records, removals, reader>>
  BY <1>1
<1> QED BY <1>3, <1>5, <1>7, <1>8, <1>9, <1>10, TypedByRequests

\* The store answers.
LEMMA StoreTyped ==
  ASSUME ServiceTyped, NEW q \in Requests, Store(q)
  PROVE  ServiceTyped'
<1> DEFINE r == request[q]
           slot == r.call.items[1].slot
<1>1. UNCHANGED <<scenario, minute, windows, passed, stray>>
  BY DEF Store
<1>2. RequestRecords' = RequestRecords
  BY <1>1 DEF RequestRecords
<1>3. records' \in Contents /\ TombstonesPresent(records')
  BY StoreDoes
<1>4. removals' \in [Slots -> Nat]
  BY RemovalsGrow
<1>5. reader' \in Readers
  <2>1. reader \in Readers
    BY DEF ServiceTyped
  <2>2. PICK there \in SUBSET Ids : reader' = [reader EXCEPT !.there = there]
    <3>1. reader' = [reader EXCEPT !.there =
             {id \in reader.there : Present(records'[<<scenario.vault, id>>])}]
      BY StoreDoes
    <3>2. reader.there \subseteq Ids
      BY <2>1 DEF Readers
    <3> QED BY <3>1, <3>2
  <2> QED BY <2>1, <2>2 DEF Readers
<1>6. /\ request \in [Requests -> RequestRecords]
      /\ \A p \in Requests : /\ request[p].minute <= minute
                             /\ request[p].state = "done" => request[p].code # "none"
  BY DEF ServiceTyped
<1>7. /\ request' \in [Requests -> RequestRecords]
      /\ \A p \in Requests : request'[p].minute <= minute
           /\ (request'[p].state = "done" => request'[p].code # "none")
  <2>1. CASE \E code \in Answers : Answer(q, code, 0)
    <3>1. PICK code \in Answers : Answer(q, code, 0)
      BY <2>1
    <3>2. 0 \in Nat /\ code # "none"
      BY DEF Answers, Faults
    <3>3. /\ request' \in [Requests -> RequestRecords]
          /\ \A p \in Requests \ {q} : request'[p] = request[p]
          /\ request'[q].code = code /\ request'[q].minute = request[q].minute
      BY <1>6, <3>1, <3>2, AnswerKeeps
    <3> QED BY <1>6, <3>2, <3>3
  <2>2. CASE request' = [request EXCEPT ![q].state = "reread", ![q].removals = removals[slot],
                                        ![q].found = records[slot].revision]
    <3>1. PICK x : x = [r EXCEPT !.state = "reread", !.removals = removals[slot],
                                 !.found = records[slot].revision]
      OBVIOUS
    <3>2. removals[slot] \in Nat /\ records[slot].revision \in Nat
      <4>1. slot \in Slots
        <5>1. CallOK(r.call)
          BY StoreDoes
        <5> QED BY <5>1, FirstItem
      <4> QED BY <4>1 DEF ServiceTyped, Contents
    <3>3. r \in RequestRecords
      BY <1>6
    <3>4. x \in RequestRecords /\ x.state = "reread" /\ x.minute = r.minute
      BY <3>1, <3>2, <3>3 DEF RequestRecords, RequestStates
    <3>5. request' = [request EXCEPT ![q] = x]
      BY <2>2, <3>1
    <3> QED BY <1>6, <3>4, <3>5
  <2> QED BY <2>1, <2>2, StoreDoes
<1>8. /\ scenario' \in Scenarios /\ minute' \in Minutes
      /\ windows' \in [Ips -> [minute : Minutes, count : Nat]]
      /\ passed' \in [Ips -> [Minutes -> Nat]] /\ stray' \in [Ips -> Nat]
      /\ \A ip \in Ips : windows'[ip].minute <= minute'
  BY <1>1 DEF ServiceTyped
<1>9. Readers' = Readers /\ minute' = minute
  BY <1>1 DEF Readers
<1>10. TombstonesPresent(records)'
  BY <1>3 DEF TombstonesPresent
<1> QED BY <1>2, <1>3, <1>4, <1>5, <1>7, <1>8, <1>9, <1>10 DEF ServiceTyped

\* The record is looked up.
LEMMA RereadTyped ==
  ASSUME ServiceTyped, NEW q \in Requests, Reread(q)
  PROVE  ServiceTyped'
<1>1. UNCHANGED <<scenario, minute, windows, passed, stray, records, removals, reader>>
  BY DEF Reread
<1>2. PICK revision \in Nat : Answer(q, "CONFLICT", revision)
  BY RereadAnswers
<1>3. request \in [Requests -> RequestRecords] /\ "CONFLICT" \in Answers
  BY DEF ServiceTyped, Answers
<1>4. /\ request' \in [Requests -> RequestRecords]
      /\ \A p \in Requests \ {q} : request'[p] = request[p]
      /\ request'[q].code = "CONFLICT" /\ request'[q].minute = request[q].minute
  BY <1>2, <1>3, AnswerKeeps
<1>5. \A p \in Requests : request'[p].minute <= minute
        /\ (request'[p].state = "done" => request'[p].code # "none")
  BY <1>4 DEF ServiceTyped
<1>6. /\ windows' \in [Ips -> [minute : Minutes, count : Nat]]
      /\ passed' \in [Ips -> [Minutes -> Nat]] /\ stray' \in [Ips -> Nat]
      /\ \A ip \in Ips : windows'[ip].minute <= minute
      /\ UNCHANGED <<scenario, minute, records, removals, reader>>
  BY <1>1 DEF ServiceTyped
<1> QED BY <1>4, <1>5, <1>6, TypedByRequests

\* A page is read.
LEMMA ReadPageTyped == ServiceTyped /\ ReadPage => ServiceTyped'
<1> SUFFICES ASSUME ServiceTyped, ReadPage PROVE ServiceTyped'
  OBVIOUS
<1>1. reader' \in Readers
  BY ReaderTyped
<1>2. UNCHANGED <<scenario, minute, windows, passed, stray, records, removals, request>>
  BY DEF ReadPage
<1>3. Readers' = Readers /\ RequestRecords' = RequestRecords /\ TombstonesPresent(records)'
  BY <1>2 DEF Readers, RequestRecords, TombstonesPresent, ServiceTyped
<1> QED BY <1>1, <1>2, <1>3 DEF ServiceTyped

\* Whatever else happens changes nothing of the service.
LEMMA IdleTyped ==
  ASSUME ServiceTyped,
         UNCHANGED <<scenario, minute, windows, passed, stray, records, removals, request, reader>>
  PROVE  ServiceTyped'
<1>1. Readers' = Readers /\ RequestRecords' = RequestRecords /\ TombstonesPresent(records)'
  BY DEF Readers, RequestRecords, TombstonesPresent, ServiceTyped
<1> QED BY <1>1 DEF ServiceTyped

-----------------------------------------------------------------------------
(* The rate limit.                                                         *)

\* The clock's next minute has let nothing through.
LEMMA HeldByTick ==
  ASSUME NEW limit \in Nat, NEW s \in Nat, NEW p \in Nat, NEW w \in Nat, NEW n \in Nat,
         NEW m \in Nat, NEW now \in Nat, Held(limit, s, p, w, n, m, now), w <= now
  PROVE  Held(limit, s, p, w, n, m, now + 1)
<1>1. limit * s \in Nat
  OBVIOUS
<1> QED BY <1>1 DEF Held

\* A request of minute r that meets the window, for every minute m.
LEMMA HeldByLimit ==
  ASSUME NEW limit \in Nat, limit > 0,
         NEW s \in Nat, NEW p \in Nat, NEW w \in Nat, NEW n \in Nat, NEW m \in Nat,
         NEW now \in Nat, NEW r \in Nat, r <= now, Held(limit, s, p, w, n, m, now)
  PROVE  LET n1 == IF w # r THEN 1 ELSE n + 1
         IN Held(limit, IF r = now THEN s ELSE s + 1, IF m = r /\ n1 <= limit THEN p + 1 ELSE p,
                 r, n1, m, now)
<1> DEFINE used == limit * s
           s1 == IF r = now THEN s ELSE s + 1
           n1 == IF w # r THEN 1 ELSE n + 1
           p1 == IF m = r /\ n1 <= limit THEN p + 1 ELSE p
<1>1. used \in Nat /\ limit * (s + 1) = used + limit
  OBVIOUS
<1>2. limit * s1 = IF r = now THEN used ELSE used + limit
  BY <1>1
<1>3. /\ m > now => p = 0
      /\ m = now /\ w # m => p <= used
      /\ w = m => p <= used + n
      /\ p <= used + limit
  BY DEF Held
<1> HIDE DEF used
<1>4. n1 \in Nat /\ p1 \in Nat
  OBVIOUS
<1>5. m > now => p1 = 0
  BY <1>3
<1>6. m = now /\ r # m => p1 <= limit * s1
  BY <1>1, <1>2, <1>3
<1>7. r = m => p1 <= limit * s1 + n1
  <2>1. CASE r = m /\ w = r
    BY <1>1, <1>2, <1>3, <2>1
  <2>2. CASE r = m /\ w # r /\ r = now
    BY <1>1, <1>2, <1>3, <2>2
  <2>3. CASE r = m /\ w # r /\ r # now
    BY <1>1, <1>2, <1>3, <2>3
  <2> QED BY <2>1, <2>2, <2>3
<1>8. p1 <= limit * s1 + limit
  <2>1. CASE m = r /\ n1 <= limit
    <3>1. p1 <= limit * s1 + n1
      BY <1>7, <2>1
    <3>2. limit * s1 \in Nat
      BY <1>1, <1>2
    <3> QED BY <1>4, <2>1, <3>1, <3>2
  <2>2. CASE ~(m = r /\ n1 <= limit)
    BY <1>1, <1>2, <1>3, <2>2
  <2> QED BY <2>1, <2>2
<1> QED BY <1>5, <1>6, <1>7, <1>8 DEF Held

\* Another address's counts, or a step that touches none.
LEMMA RateFrame ==
  ASSUME RateInv, UNCHANGED <<scenario, minute, windows, passed, stray>>
  PROVE  RateInv'
  BY DEF RateInv

\* The clock's step keeps every minute's count within its bound.
LEMMA TickRate == ServiceTyped /\ RateInv /\ Tick => RateInv'
<1> SUFFICES ASSUME ServiceTyped, RateInv, Tick PROVE RateInv'
  OBVIOUS
<1>1. UNCHANGED <<scenario, windows, passed, stray>> /\ minute' = minute + 1
  BY DEF Tick
<1> SUFFICES ASSUME scenario.limit > 0, NEW ip \in Ips, NEW m \in Minutes
             PROVE  Held(scenario.limit, stray[ip], passed[ip][m], windows[ip].minute,
                         windows[ip].count, m, minute + 1)
  BY <1>1 DEF RateInv
<1>2. scenario.limit \in Nat /\ scenario.limit > 0
  BY ScenarioOK DEF ServiceTyped
<1>3. Held(scenario.limit, stray[ip], passed[ip][m], windows[ip].minute, windows[ip].count, m, minute)
  BY <1>2 DEF RateInv
<1>4. /\ stray[ip] \in Nat /\ passed[ip][m] \in Nat
      /\ windows[ip] \in [minute : Minutes, count : Nat] /\ windows[ip].minute <= minute
      /\ minute \in Minutes
  BY DEF ServiceTyped
<1>5. Minutes \subseteq Nat
  BY DEF Minutes
<1>6. windows[ip].minute \in Nat /\ windows[ip].count \in Nat /\ m \in Nat /\ minute \in Nat
  BY <1>4, <1>5
<1> QED BY <1>2, <1>3, <1>4, <1>6, HeldByTick

\* So does a request that meets its window.
LEMMA LimitRate ==
  ASSUME ServiceTyped, RateInv, NEW q \in Requests, Limit(q)
  PROVE  RateInv'
<1> DEFINE ip == request[q].call.ip
           r == request[q].minute
           entered == Entered(windows[ip], r)
<1>1. /\ ip \in Ips /\ r \in Minutes /\ r <= minute
      /\ entered = [minute |-> r,
                    count |-> IF windows[ip].minute # r THEN 1 ELSE windows[ip].count + 1]
      /\ windows' = IF scenario.limit = 0 THEN windows ELSE [windows EXCEPT ![ip] = entered]
      /\ stray' = IF r = minute THEN stray ELSE [stray EXCEPT ![ip] = stray[ip] + 1]
      /\ passed' = IF scenario.limit > 0 /\ entered.count <= scenario.limit
                   THEN [passed EXCEPT ![ip] = [passed[ip] EXCEPT ![r] = passed[ip][r] + 1]]
                   ELSE passed
      /\ UNCHANGED <<scenario, minute, records, removals, reader, schemaVars>>
  BY LimitDoes
<1>2. /\ windows \in [Ips -> [minute : Minutes, count : Nat]]
      /\ passed \in [Ips -> [Minutes -> Nat]] /\ stray \in [Ips -> Nat] /\ minute \in Minutes
  BY DEF ServiceTyped
<1>3. Minutes \subseteq Nat
  BY DEF Minutes
<1> HIDE DEF ip, r, entered
<1>4. scenario' = scenario /\ minute' = minute
  BY <1>1
<1> SUFFICES ASSUME scenario.limit > 0, NEW a \in Ips, NEW m \in Minutes
             PROVE  Held(scenario.limit, stray'[a], passed'[a][m], windows'[a].minute,
                         windows'[a].count, m, minute)
  BY <1>4 DEF RateInv
<1>5. windows' = [windows EXCEPT ![ip] = entered]
  BY <1>1
<1>6. entered.minute = r
       /\ entered.count = IF windows[ip].minute # r THEN 1 ELSE windows[ip].count + 1
  BY <1>1
<1>7. passed' = IF entered.count <= scenario.limit
                 THEN [passed EXCEPT ![ip] = [passed[ip] EXCEPT ![r] = passed[ip][r] + 1]]
                 ELSE passed
  BY <1>1
<1>8. ip \in Ips /\ r \in Minutes /\ r <= minute
  BY <1>1
<1>9. scenario.limit \in Nat
  BY ScenarioOK DEF ServiceTyped
<1>10. Held(scenario.limit, stray[a], passed[a][m], windows[a].minute, windows[a].count, m, minute)
  BY DEF RateInv
<1>11. CASE a # ip
  <2>1. stray'[a] = stray[a] /\ windows'[a] = windows[a] /\ passed'[a] = passed[a]
    BY <1>1, <1>2, <1>11
  <2> QED BY <1>10, <2>1
<1>12. CASE a = ip
  <2>1. stray'[ip] = IF r = minute THEN stray[ip] ELSE stray[ip] + 1
    BY <1>1, <1>2
  <2>2. windows'[ip] = entered
    BY <1>2, <1>5, <1>8
  <2>3. /\ windows'[ip].minute = r
        /\ windows'[ip].count = IF windows[ip].minute # r THEN 1 ELSE windows[ip].count + 1
        /\ entered.count = windows'[ip].count
    BY <1>6, <2>2
  <2>4. passed'[ip][m] = IF m = r /\ windows'[ip].count <= scenario.limit
                         THEN passed[ip][m] + 1 ELSE passed[ip][m]
    <3>1. passed[ip] \in [Minutes -> Nat]
      BY <1>1, <1>2
    <3>2. CASE windows'[ip].count <= scenario.limit
      <4>1. passed' = [passed EXCEPT ![ip] = [passed[ip] EXCEPT ![r] = passed[ip][r] + 1]]
        BY <1>7, <2>3, <3>2
      <4>2. passed'[ip] = [passed[ip] EXCEPT ![r] = passed[ip][r] + 1]
        BY <1>1, <1>2, <4>1
      <4> QED BY <3>1, <3>2, <4>2
    <3>3. CASE ~(windows'[ip].count <= scenario.limit)
      <4>1. passed' = passed
        BY <1>7, <2>3, <3>3
      <4> QED BY <3>3, <4>1
    <3> QED BY <3>2, <3>3
  <2>5. /\ stray[ip] \in Nat /\ passed[ip][m] \in Nat
        /\ windows[ip].minute \in Nat /\ windows[ip].count \in Nat
        /\ m \in Nat /\ r \in Nat /\ minute \in Nat
    <3>1. windows[ip] \in [minute : Minutes, count : Nat]
      BY <1>1, <1>2
    <3>2. windows[ip].minute \in Minutes /\ windows[ip].count \in Nat
      BY <3>1
    <3> QED BY <1>1, <1>2, <1>3, <3>2
  <2>6. Held(scenario.limit, stray[ip], passed[ip][m], windows[ip].minute, windows[ip].count, m, minute)
    BY <1>10, <1>12
  <2>7. PICK s, p, w, n : s = stray[ip] /\ p = passed[ip][m]
                          /\ w = windows[ip].minute /\ n = windows[ip].count
    OBVIOUS
  <2>8. /\ s \in Nat /\ p \in Nat /\ w \in Nat /\ n \in Nat
        /\ Held(scenario.limit, s, p, w, n, m, minute)
    BY <2>5, <2>6, <2>7
  <2>9. LET n1 == IF w # r THEN 1 ELSE n + 1
        IN Held(scenario.limit, IF r = minute THEN s ELSE s + 1,
                IF m = r /\ n1 <= scenario.limit THEN p + 1 ELSE p, r, n1, m, minute)
    BY <1>9, <1>8, <2>5, <2>8, HeldByLimit
  <2>10. Held(scenario.limit, stray'[ip], passed'[ip][m], r, windows'[ip].count, m, minute)
    BY <2>1, <2>3, <2>4, <2>7, <2>9
  <2> QED BY <1>12, <2>3, <2>10
<1> QED BY <1>11, <1>12

-----------------------------------------------------------------------------
(* Conflicts.                                                              *)

\* What ConflictInv says of one request, against the records and removals of
\* its first item's slot.
ConflictOf(r, removed, revision) ==
  /\ r.state = "reread" =>
       /\ Prior(r.found) # r.call.items[1].expected
       /\ removed >= r.removals
       /\ removed > r.removals \/ revision >= r.found
  /\ r.state = "done" /\ r.code = "CONFLICT" /\ {r.revision} = r.call.items[1].expected =>
       removed > r.removals \/ r.found < r.revision

\* The invariant is what it says of each request.
LEMMA ConflictByRequest ==
  ConflictInv <=> \A q \in Requests :
    ConflictOf(request[q], removals[request[q].call.items[1].slot],
               records[request[q].call.items[1].slot].revision)
  BY DEF ConflictInv, ConflictOf

\* A step that changes one request and no record.
LEMMA ConflictByOne ==
  ASSUME ConflictInv, NEW q \in Requests, UNCHANGED <<records, removals>>,
         \A p \in Requests \ {q} : request'[p] = request[p],
         ConflictOf(request'[q], removals[request'[q].call.items[1].slot],
                    records[request'[q].call.items[1].slot].revision)
  PROVE  ConflictInv'
<1>1. \A p \in Requests :
        ConflictOf(request'[p], removals[request'[p].call.items[1].slot],
                   records[request'[p].call.items[1].slot].revision)
  BY ConflictByRequest
<1> QED BY <1>1 DEF ConflictInv, ConflictOf

\* An arrived, admitted or refused request names no conflict.
LEMMA QuietConflict ==
  ASSUME NEW r, NEW removed, NEW revision, r.state # "reread", ~(r.state = "done" /\ r.code = "CONFLICT")
  PROVE  ConflictOf(r, removed, revision)
  BY DEF ConflictOf

\* Removals and revisions that grow keep what a request found below them.
LEMMA ConflictGrows ==
  ASSUME ServiceTyped, NEW p \in Requests, NEW n \in Nat, NEW n1 \in Nat, NEW v \in Nat, NEW v1 \in Nat,
         ConflictOf(request[p], n, v), n1 >= n,
         n1 > n \/ v1 >= v
  PROVE  ConflictOf(request[p], n1, v1)
<1>1. request[p].removals \in Nat /\ request[p].found \in Nat /\ request[p].revision \in Nat
  BY DEF ServiceTyped, RequestRecords
<1> QED BY <1>1 DEF ConflictOf

\* The store's step keeps it: what it removes is counted, what stays is not
\* lowered, and what it refuses is at the revision it found.
LEMMA StoreConflict ==
  ASSUME ServiceTyped, ConflictInv, NEW q \in Requests, Store(q)
  PROVE  ConflictInv'
<1> DEFINE r == request[q]
           slotOf(p) == request[p].call.items[1].slot
<1>1. \A p \in Requests : CallOK(request[p].call)
  <2>1. \A p \in Requests : request[p].call \in scenario.calls
    BY DEF ServiceTyped, RequestRecords
  <2> QED BY <2>1, ScenarioOK DEF ServiceTyped
<1>2. \A p \in Requests : slotOf(p) \in Slots
  BY <1>1, FirstItem
<1>3. records \in Contents /\ records' \in Contents /\ Raises(records, records')
      /\ removals \in [Slots -> Nat]
  BY StoreDoes DEF ServiceTyped
<1>4. /\ removals' \in [Slots -> Nat]
      /\ \A s \in Slots : removals'[s] >= removals[s]
      /\ \A s \in Slots : Present(records[s]) /\ ~Present(records'[s]) => removals'[s] > removals[s]
  BY RemovalsGrow
<1>5. ASSUME NEW s \in Slots
      PROVE  /\ records[s].revision \in Nat /\ records'[s].revision \in Nat
             /\ removals[s] \in Nat /\ removals'[s] \in Nat /\ removals'[s] >= removals[s]
             /\ removals'[s] > removals[s] \/ records'[s].revision >= records[s].revision
  <2>1. records[s].revision \in Nat /\ records'[s].revision \in Nat
    BY <1>3 DEF Contents
  <2>2. CASE Present(records[s]) /\ Present(records'[s])
    BY <1>3, <1>4, <2>1, <2>2 DEF Raises
  <2>3. CASE Present(records[s]) /\ ~Present(records'[s])
    BY <1>3, <1>4, <2>1, <2>3
  <2>4. CASE ~Present(records[s])
    BY <1>3, <1>4, <2>1, <2>4 DEF Present
  <2> QED BY <2>2, <2>3, <2>4
<1>6. \A p \in Requests :
        ConflictOf(request[p], removals'[slotOf(p)], records'[slotOf(p)].revision)
  <2> TAKE p \in Requests
  <2>1. ConflictOf(request[p], removals[slotOf(p)], records[slotOf(p)].revision)
    BY ConflictByRequest
  <2>2. slotOf(p) \in Slots
    BY <1>2
  <2> HIDE DEF slotOf
  <2>3. /\ records[slotOf(p)].revision \in Nat /\ records'[slotOf(p)].revision \in Nat
        /\ removals[slotOf(p)] \in Nat /\ removals'[slotOf(p)] \in Nat
        /\ removals'[slotOf(p)] >= removals[slotOf(p)]
        /\ removals'[slotOf(p)] > removals[slotOf(p)]
             \/ records'[slotOf(p)].revision >= records[slotOf(p)].revision
    BY <1>5, <2>2
  <2> QED BY <2>1, <2>3, ConflictGrows
<1>7. /\ \A p \in Requests \ {q} : request'[p] = request[p]
      /\ ConflictOf(request'[q], removals'[request'[q].call.items[1].slot],
                    records'[request'[q].call.items[1].slot].revision)
  <2>1. request \in [Requests -> RequestRecords] /\ r \in RequestRecords
    BY DEF ServiceTyped
  <2>2. CASE \E code \in Answers : Answer(q, code, 0)
    <3>1. PICK code \in Answers : Answer(q, code, 0)
      BY <2>2
    <3>2. 0 \in Nat
      OBVIOUS
    <3>3. /\ \A p \in Requests \ {q} : request'[p] = request[p]
          /\ request'[q].state = "done" /\ request'[q].revision = 0 /\ request'[q].call = r.call
      BY <2>1, <3>1, <3>2, AnswerKeeps
    <3>4. {0} # r.call.items[1].expected
      <4>1. r.call.items[1].expected \in SUBSET (Nat \ {0})
        BY <1>1, FirstItem
      <4> QED BY <4>1
    <3> QED BY <3>3, <3>4 DEF ConflictOf
  <2>3. CASE /\ request' = [request EXCEPT ![q].state = "reread", ![q].removals = removals[slotOf(q)],
                                           ![q].found = records[slotOf(q)].revision]
             /\ Prior(records[slotOf(q)].revision) # r.call.items[1].expected
    <3>1. PICK x : x = [r EXCEPT !.state = "reread", !.removals = removals[slotOf(q)],
                                 !.found = records[slotOf(q)].revision]
      OBVIOUS
    <3>2. /\ x.state = "reread" /\ x.removals = removals[slotOf(q)]
          /\ x.found = records[slotOf(q)].revision /\ x.call = r.call
      BY <2>1, <3>1 DEF RequestRecords
    <3>3. request' = [request EXCEPT ![q] = x]
      BY <2>3, <3>1
    <3>4. request'[q] = x /\ \A p \in Requests \ {q} : request'[p] = request[p]
      BY <2>1, <3>3
    <3>5. /\ records[slotOf(q)].revision \in Nat /\ records'[slotOf(q)].revision \in Nat
          /\ removals[slotOf(q)] \in Nat /\ removals'[slotOf(q)] \in Nat
          /\ removals'[slotOf(q)] >= removals[slotOf(q)]
          /\ removals'[slotOf(q)] > removals[slotOf(q)]
               \/ records'[slotOf(q)].revision >= records[slotOf(q)].revision
      BY <1>2, <1>5
    <3>6. x.call.items[1].slot = slotOf(q) /\ x.call.items[1].expected = r.call.items[1].expected
      BY <3>2
    <3> HIDE DEF slotOf
    <3>7. ConflictOf(x, removals'[slotOf(q)], records'[slotOf(q)].revision)
      BY <2>3, <3>2, <3>5, <3>6 DEF ConflictOf
    <3> QED BY <3>4, <3>6, <3>7
  <2> QED BY <2>2, <2>3, StoreDoes
<1> QED BY <1>6, <1>7 DEF ConflictInv, ConflictOf

\* The second call names what is there: another revision than the expected
\* one, unless the record was removed or reached it since.
LEMMA RereadConflict ==
  ASSUME ServiceTyped, ConflictInv, NEW q \in Requests, Reread(q)
  PROVE  ConflictInv'
<1> DEFINE r == request[q]
           slot == r.call.items[1].slot
<1>1. /\ CallOK(r.call) /\ records[slot].revision \in Nat
      /\ \E n \in Nat : (n = records[slot].revision \/ n = 0) /\ Answer(q, "CONFLICT", n)
  BY RereadAnswers
<1>2. PICK n \in Nat : (n = records[slot].revision \/ n = 0) /\ Answer(q, "CONFLICT", n)
  BY <1>1
<1>3. request \in [Requests -> RequestRecords] /\ "CONFLICT" \in Answers /\ r \in RequestRecords
  BY DEF ServiceTyped, Answers
<1>4. /\ \A p \in Requests \ {q} : request'[p] = request[p]
      /\ request'[q].state = "done" /\ request'[q].revision = n /\ request'[q].call = r.call
      /\ request'[q].removals = r.removals /\ request'[q].found = r.found
  BY <1>2, <1>3, AnswerKeeps
<1>5. r.state = "reread"
  BY DEF Reread
<1>6. /\ Prior(r.found) # r.call.items[1].expected
      /\ removals[slot] > r.removals \/ records[slot].revision >= r.found
  BY <1>5 DEF ConflictInv
<1>7. r.call.items[1].expected \in SUBSET (Nat \ {0})
  BY <1>1, FirstItem
<1>8. r.found \in Nat
  BY <1>3 DEF RequestRecords
<1>9. {n} = r.call.items[1].expected => removals[slot] > r.removals \/ r.found < n
  <2> SUFFICES ASSUME {n} = r.call.items[1].expected, ~(removals[slot] > r.removals)
               PROVE  r.found < n
    OBVIOUS
  <2>1. n # 0 /\ n > 0 /\ n = records[slot].revision
    BY <1>2, <1>7
  <2>2. r.found <= n
    BY <1>6, <1>8, <2>1
  <2>3. r.found # n
    BY <1>6, <2>1 DEF Prior
  <2> QED BY <1>8, <2>2, <2>3
<1>10. ConflictOf(request'[q], removals[request'[q].call.items[1].slot],
                  records[request'[q].call.items[1].slot].revision)
  BY <1>4, <1>9 DEF ConflictOf
<1>11. UNCHANGED <<records, removals>>
  BY DEF Reread
<1> QED BY <1>4, <1>10, <1>11, ConflictByOne

-----------------------------------------------------------------------------
(* The pages of a listing.                                                 *)

\* A listing is a finite set of naturals, and Before is the rank in it.
LEMMA ListingRanked ==
  ASSUME ServiceTyped, NEW vault
  PROVE  /\ Listed(vault) \in SUBSET Nat /\ IsFiniteSet(Listed(vault))
         /\ \A id \in Listed(vault) : Before(vault, id) = Rank(Listed(vault), id)
<1>1. Listed(vault) \in SUBSET Ids
  BY DEF Listed
<1>2. Ids \in SUBSET Nat /\ IsFiniteSet(Ids)
  BY ApiAssumption
<1>3. IsFiniteSet(Listed(vault))
  BY <1>1, <1>2, FS_Subset
<1>4. \A id \in Listed(vault) : Before(vault, id) = Rank(Listed(vault), id)
  BY DEF Before, Rank
<1> QED BY <1>1, <1>2, <1>3, <1>4

\* A step that leaves the records and the reader alone.
LEMMA PagesFrame ==
  ASSUME PagesInv, UNCHANGED <<scenario, records, removals, reader>>
  PROVE  PagesInv'
  BY DEF PagesInv, PagesComplete, VaultRemovals, Listed, Before

\* The store's step: if it removed nothing of the vault, the listing has only
\* grown, and what lay before the offset or was seen still is.
LEMMA StorePages ==
  ASSUME ServiceTyped, PagesInv, NEW q \in Requests, Store(q)
  PROVE  PagesInv'
<1> DEFINE vault == scenario.vault
           slot(id) == <<scenario.vault, id>>
           after == {id \in Ids : Present(records'[<<scenario.vault, id>>])}
<1>1. scenario' = scenario
  BY DEF Store
<1>2. vault \in Vaults /\ \A id \in Ids : slot(id) \in Slots
  BY ScenarioOK DEF ServiceTyped, Slots
<1>3. /\ removals' \in [Slots -> Nat] /\ removals \in [Slots -> Nat]
      /\ \A s \in Slots : removals'[s] >= removals[s]
      /\ \A s \in Slots : Present(records[s]) /\ ~Present(records'[s]) => removals'[s] > removals[s]
  BY RemovalsGrow DEF ServiceTyped
<1>4. reader \in Readers
  BY DEF ServiceTyped
<1>5. PICK there : /\ there = {id \in reader.there : Present(records'[<<scenario.vault, id>>])}
                   /\ reader' = [reader EXCEPT !.there = there]
  BY StoreDoes
<1>6. /\ reader'.there = there /\ reader'.state = reader.state /\ reader'.offset = reader.offset
      /\ reader'.seen = reader.seen /\ reader'.removals = reader.removals
  BY <1>4, <1>5 DEF Readers
<1>7. /\ reader.there \subseteq Ids /\ reader.removals \in [Ids -> Nat] /\ reader.offset \in Nat
  BY <1>4 DEF Readers
<1>8. Listed(vault)' = after
  BY <1>1 DEF Listed
<1>9. there \subseteq after /\ there \subseteq reader.there
  BY <1>5, <1>7
<1>10. /\ \A id \in Ids : reader.removals[id] <= removals[slot(id)]
       /\ reader.state = "read" => reader.offset > 0
       /\ reader.offset > 0 => reader.there \subseteq Listed(vault)
       /\ reader.state = "reading" /\ reader.offset > 0 /\ VaultRemovals = reader.removals =>
            \A id \in reader.there : Before(vault, id) < reader.offset => id \in reader.seen
       /\ reader.state = "read" /\ VaultRemovals = reader.removals => reader.there \subseteq reader.seen
  BY DEF PagesInv, PagesComplete
<1>11. \A id \in Ids : reader.removals[id] <= removals'[slot(id)]
  <2> TAKE id \in Ids
  <2>1. slot(id) \in Slots /\ reader.removals[id] <= removals[slot(id)]
    BY <1>2, <1>10
  <2> HIDE DEF slot
  <2>2. /\ removals[slot(id)] \in Nat /\ removals'[slot(id)] \in Nat
        /\ removals'[slot(id)] >= removals[slot(id)] /\ reader.removals[id] \in Nat
    BY <1>3, <1>7, <2>1
  <2> QED BY <2>1, <2>2
<1>12. ASSUME VaultRemovals' = reader.removals
       PROVE  VaultRemovals = reader.removals /\ Listed(vault) \subseteq after
  <2>1. \A id \in Ids : removals'[slot(id)] = reader.removals[id]
    <3>1. VaultRemovals' = [id \in Ids |-> removals'[slot(id)]]
      BY <1>1 DEF VaultRemovals
    <3> QED BY <1>12, <3>1
  <2>2. \A id \in Ids : removals[slot(id)] = reader.removals[id]
    <3> TAKE id \in Ids
    <3>1. /\ slot(id) \in Slots /\ reader.removals[id] <= removals[slot(id)]
          /\ removals'[slot(id)] = reader.removals[id]
      BY <1>2, <1>10, <2>1
    <3> HIDE DEF slot
    <3>2. /\ removals[slot(id)] \in Nat /\ removals'[slot(id)] >= removals[slot(id)]
          /\ reader.removals[id] \in Nat
      BY <1>3, <1>7, <3>1
    <3> QED BY <3>1, <3>2
  <2>3. VaultRemovals = reader.removals
    <3>1. VaultRemovals = [id \in Ids |-> removals[slot(id)]]
      BY DEF VaultRemovals
    <3> HIDE DEF slot
    <3> QED BY <1>7, <2>2, <3>1
  <2>4. ASSUME NEW id \in Listed(vault)
        PROVE  id \in after
    <3>1. id \in Ids /\ Present(records[slot(id)]) /\ slot(id) \in Slots
      BY <1>2, <2>4 DEF Listed
    <3>2. removals'[slot(id)] = removals[slot(id)]
      BY <2>1, <2>2, <3>1
    <3>3. ~(removals'[slot(id)] > removals[slot(id)])
      <4> HIDE DEF slot
      <4>1. removals[slot(id)] \in Nat
        BY <1>3, <3>1
      <4> QED BY <3>2, <4>1
    <3>4. Present(records'[slot(id)])
      BY <1>3, <3>1, <3>3
    <3> QED BY <3>1, <3>4
  <2> QED BY <2>3, <2>4
<1>13. ASSUME reader.state = "reading", reader.offset > 0, VaultRemovals' = reader.removals,
              NEW id \in there, Before(vault, id)' < reader.offset
       PROVE  id \in reader.seen
  <2>1. VaultRemovals = reader.removals /\ Listed(vault) \subseteq after
    BY <1>12, <1>13
  <2>2. id \in reader.there /\ id \in Listed(vault) /\ id \in after
    BY <1>9, <1>10, <1>13
  <2>3. Before(vault, id)' = Rank(after, id)
    BY <1>1, <1>8 DEF Before, Rank
  <2>4. after \in SUBSET Nat /\ IsFiniteSet(after)
    <3>1. after \in SUBSET Ids
      OBVIOUS
    <3> HIDE DEF after
    <3> QED BY <3>1, ApiAssumption, FS_Subset
  <2>5. Before(vault, id) = Rank(Listed(vault), id)
        /\ Listed(vault) \in SUBSET Nat /\ IsFiniteSet(Listed(vault))
    BY <2>2, ListingRanked
  <2> HIDE DEF after
  <2>6. Rank(Listed(vault), id) <= Rank(after, id)
    BY <2>1, <2>2, <2>4, RankGrows
  <2>7. /\ Rank(Listed(vault), id) \in 0 .. (Cardinality(Listed(vault)) - 1)
        /\ Rank(after, id) \in 0 .. (Cardinality(after) - 1)
    BY <2>2, <2>4, <2>5, RankBounds
  <2>8. Before(vault, id) < reader.offset
    BY <1>7, <1>13, <2>3, <2>5, <2>6, <2>7
  <2> QED BY <1>10, <1>13, <2>1, <2>2, <2>8
<1>14. reader.state = "read" /\ VaultRemovals' = reader.removals => there \subseteq reader.seen
  BY <1>9, <1>10, <1>12
<1> HIDE DEF after
<1>15. reader'.offset > 0 => reader'.there \subseteq Listed(scenario.vault)'
  BY <1>6, <1>8, <1>9
<1>16. \A id \in Ids : reader'.removals[id] <= removals'[<<scenario'.vault, id>>]
  BY <1>1, <1>6, <1>11
<1>17. reader'.state = "reading" /\ reader'.offset > 0 /\ VaultRemovals' = reader'.removals =>
         \A id \in reader'.there : Before(scenario.vault, id)' < reader'.offset => id \in reader'.seen
  BY <1>6, <1>13
<1>18. PagesComplete'
  BY <1>6, <1>14 DEF PagesComplete
<1>19. reader'.state = "read" => reader'.offset > 0
  BY <1>6, <1>10
<1> QED BY <1>15, <1>16, <1>17, <1>18, <1>19 DEF PagesInv

\* A page: what lies before its end is seen once it is read, and what lies
\* beyond it only when the page is full.
LEMMA ReadPages == ServiceTyped /\ PagesInv /\ ReadPage => PagesInv'
<1> SUFFICES ASSUME ServiceTyped, PagesInv, ReadPage PROVE PagesInv'
  OBVIOUS
<1> DEFINE vault == scenario.vault
           size == scenario.pageSize
           listed == Listed(scenario.vault)
           page == Page(scenario.vault, scenario.pageSize, reader.offset)
<1>1. UNCHANGED <<scenario, records, removals>> /\ reader.state = "reading"
  BY DEF ReadPage
<1>2. reader \in Readers /\ size \in Nat \ {0} /\ reader.offset \in Nat
  BY ScenarioOK DEF ServiceTyped, Readers
<1>3. PICK seen, there, taken, offset, state :
        /\ reader' = [reader EXCEPT !.seen = seen, !.there = there, !.removals = taken,
                                    !.offset = offset, !.state = state]
        /\ seen = reader.seen \cup page
        /\ there = IF reader.offset = 0 THEN listed ELSE reader.there
        /\ taken = IF reader.offset = 0 THEN VaultRemovals ELSE reader.removals
        /\ offset = reader.offset + size
        /\ state = IF Cardinality(page) = size THEN "reading" ELSE "read"
  BY DEF ReadPage, Truncated
<1>4. /\ reader'.seen = seen /\ reader'.there = there /\ reader'.removals = taken
      /\ reader'.offset = offset /\ reader'.state = state
  BY <1>2, <1>3 DEF Readers
<1>5. /\ listed \in SUBSET Nat /\ IsFiniteSet(listed)
      /\ \A id \in listed : Before(vault, id) = Rank(listed, id)
  BY ListingRanked
<1>6. page = {id \in listed : Rank(listed, id) \in reader.offset .. (reader.offset + size - 1)}
  BY <1>5 DEF Page
<1>7. /\ Listed(vault)' = listed /\ VaultRemovals' = VaultRemovals
      /\ \A id : Before(vault, id)' = Before(vault, id)
  BY <1>1 DEF Listed, VaultRemovals, Before
<1>8. /\ \A id \in Ids : reader.removals[id] <= removals[<<vault, id>>]
      /\ reader.offset > 0 => reader.there \subseteq listed
      /\ reader.offset > 0 /\ VaultRemovals = reader.removals =>
           \A id \in reader.there : Before(vault, id) < reader.offset => id \in reader.seen
  BY <1>1 DEF PagesInv
<1> HIDE DEF listed, page, size, vault
<1>9. offset \in Nat /\ offset > 0
  BY <1>2, <1>3
<1>10. there \subseteq listed
  BY <1>2, <1>3, <1>8
<1>11. ASSUME VaultRemovals = taken, NEW id \in there, Before(vault, id) < offset
       PROVE  id \in seen
  <2>1. id \in listed /\ Before(vault, id) = Rank(listed, id)
    BY <1>5, <1>10
  <2>2. Rank(listed, id) \in Nat
    <3>1. Rank(listed, id) \in 0 .. (Cardinality(listed) - 1)
      BY <1>5, <2>1, RankBounds
    <3> QED BY <3>1
  <2>3. CASE Rank(listed, id) >= reader.offset
    <3>1. Rank(listed, id) \in reader.offset .. (reader.offset + size - 1)
      BY <1>2, <1>3, <1>11, <2>1, <2>2, <2>3
    <3>2. id \in page
      BY <1>6, <2>1, <3>1
    <3> QED BY <1>3, <3>2
  <2>4. CASE Rank(listed, id) < reader.offset
    <3>1. reader.offset > 0
      BY <1>2, <2>2, <2>4
    <3>2. there = reader.there /\ taken = reader.removals
      BY <1>3, <3>1
    <3>3. VaultRemovals = reader.removals /\ id \in reader.there /\ Before(vault, id) < reader.offset
      BY <1>11, <2>1, <2>4, <3>2
    <3>4. id \in reader.seen
      BY <1>8, <3>1, <3>3
    <3> QED BY <1>3, <3>4
  <2> QED BY <1>2, <2>2, <2>3, <2>4
<1>12. ASSUME state = "read", NEW id \in there
       PROVE  Before(vault, id) < offset
  <2>1. id \in listed /\ Before(vault, id) = Rank(listed, id)
    BY <1>5, <1>10
  <2>2. Rank(listed, id) \in Nat
    <3>1. Rank(listed, id) \in 0 .. (Cardinality(listed) - 1)
      BY <1>5, <2>1, RankBounds
    <3> QED BY <3>1
  <2>3. Cardinality(page) # size
    BY <1>3, <1>12
  <2>4. ~(Rank(listed, id) >= reader.offset + size)
    BY <1>2, <1>5, <1>6, <2>1, <2>3, PageFull
  <2> QED BY <1>2, <1>3, <2>1, <2>2, <2>4
<1>13. \A id \in Ids : taken[id] <= removals[<<vault, id>>]
  <2> TAKE id \in Ids
  <2>1. CASE reader.offset = 0
    <3>1. taken = VaultRemovals
      BY <1>3, <2>1
    <3>2. VaultRemovals[id] = removals[<<vault, id>>]
      BY DEF VaultRemovals, vault
    <3>3. removals[<<vault, id>>] \in Nat
      BY ScenarioOK DEF ServiceTyped, vault, Slots
    <3> QED BY <3>1, <3>2, <3>3
  <2>2. CASE reader.offset # 0
    BY <1>3, <1>8, <2>2
  <2> QED BY <2>1, <2>2
<1>14. \A id \in Ids : reader'.removals[id] <= removals'[<<scenario'.vault, id>>]
  BY <1>1, <1>4, <1>13 DEF vault
<1>15. reader'.offset > 0 /\ reader'.there \subseteq Listed(scenario.vault)'
  BY <1>4, <1>7, <1>9, <1>10 DEF vault
<1>16. VaultRemovals' = reader'.removals =>
         \A id \in reader'.there : Before(scenario.vault, id)' < reader'.offset => id \in reader'.seen
  BY <1>4, <1>7, <1>11 DEF vault
<1>17. PagesComplete'
  <2> SUFFICES ASSUME state = "read", VaultRemovals = taken, NEW id \in there
               PROVE  id \in seen
    BY <1>4, <1>7 DEF PagesComplete
  <2> QED BY <1>11, <1>12
<1> QED BY <1>14, <1>15, <1>16, <1>17 DEF PagesInv

-----------------------------------------------------------------------------
(* The schema.                                                             *)

\* What SchemaInv says of one migrator, against the versions there are.
MigratorOK(m, versions) ==
  \/ m.state = "done" /\ versions = 1 .. 3
  \/ /\ m.state # "done" /\ (m.state = "apply" => m.at <= 3)
     /\ \A i \in 1 .. (m.at - 1) : i \in versions

\* More versions keep what a migrator relies on.
LEMMA MigratorKeeps ==
  ASSUME NEW m, NEW v, NEW w, MigratorOK(m, v), v \subseteq w, w \subseteq 1 .. 3
  PROVE  MigratorOK(m, w)
  BY DEF MigratorOK

\* A step of one migrator to m1, which may add a version with its file.
LEMMA MigratorStep ==
  ASSUME SchemaInv, NEW m \in Migrators, NEW m1 \in MigratorRecords,
         migrator' = [migrator EXCEPT ![m] = m1], UNCHANGED api,
         schema' \in [has : SUBSET {"table", "scoped", "stamps"}, versions : SUBSET (1 .. 3)],
         schema.versions \subseteq schema'.versions,
         \A i \in schema'.versions : Files[i] \in schema'.has,
         MigratorOK(m1, schema'.versions)
  PROVE  SchemaInv'
<1>1. \A p \in Migrators : MigratorOK(migrator[p], schema.versions)
  BY DEF SchemaInv, MigratorOK
<1>2. \A p \in Migrators : MigratorOK(migrator[p], schema'.versions)
  <2>1. schema'.versions \subseteq 1 .. 3
    OBVIOUS
  <2> QED BY <1>1, <2>1, MigratorKeeps
<1>3. migrator \in [Migrators -> MigratorRecords]
  BY DEF SchemaInv
<1>4. \A p \in Migrators : MigratorOK(migrator'[p], schema'.versions)
  BY <1>2, <1>3
<1>5. migrator' \in [Migrators -> MigratorRecords]
  BY <1>3
<1>6. api' \in [state : {"down", "migrate", "verify", "serving"}, at : 1 .. 3, ddl : BOOLEAN]
  BY DEF SchemaInv
<1> QED BY <1>4, <1>5, <1>6 DEF SchemaInv, MigratorOK

\* What a migrator that runs has behind it.
LEMMA MigratorBehind ==
  ASSUME SchemaInv, NEW m \in Migrators, migrator[m].state # "done"
  PROVE  /\ migrator[m].at \in 1 .. 4 /\ (migrator[m].state = "apply" => migrator[m].at <= 3)
         /\ \A i \in 1 .. (migrator[m].at - 1) : i \in schema.versions
  BY DEF SchemaInv, MigratorRecords

\* A migrator looks a version up.
LEMMA CheckSchema ==
  ASSUME SchemaInv, NEW m \in Migrators, Check(m)
  PROVE  SchemaInv'
<1> DEFINE at == migrator[m].at
<1>1. PICK x : /\ migrator' = [migrator EXCEPT ![m] = x]
               /\ x = CASE at > 3 -> [state |-> "done", at |-> at]
                        [] at <= 3 /\ at \in schema.versions -> [state |-> "check", at |-> at + 1]
                        [] OTHER -> [state |-> "apply", at |-> at]
  BY FilesAre DEF Check
<1>2. schema' = schema /\ api' = api /\ migrator[m].state = "check"
  BY DEF Check
<1>3. at \in 1 .. 4 /\ \A i \in 1 .. (at - 1) : i \in schema.versions
  BY <1>2, MigratorBehind
<1>4. schema.versions \subseteq 1 .. 3
  BY DEF SchemaInv
<1> HIDE DEF at
<1>5. x \in MigratorRecords /\ MigratorOK(x, schema.versions)
  <2>1. CASE at > 3
    <3>1. x = [state |-> "done", at |-> at]
      BY <1>1, <1>3, <2>1
    <3>2. at = 4
      BY <1>3, <2>1
    <3>3. \A i \in 1 .. 3 : i \in schema.versions
      BY <1>3, <3>2
    <3>4. schema.versions = 1 .. 3
      BY <1>4, <3>3
    <3> QED BY <1>3, <3>1, <3>4 DEF MigratorOK, MigratorRecords
  <2>2. CASE at <= 3 /\ at \in schema.versions
    <3>1. x = [state |-> "check", at |-> at + 1]
      BY <1>1, <1>3, <2>2
    <3>2. \A i \in 1 .. ((at + 1) - 1) : i \in schema.versions
      BY <1>3, <2>2
    <3>3. at + 1 \in 1 .. 4
      BY <1>3, <2>2
    <3>4. x.state # "done" /\ x.at = at + 1
      BY <3>1
    <3> QED BY <3>1, <3>2, <3>3, <3>4 DEF MigratorOK, MigratorRecords
  <2>3. CASE at <= 3 /\ at \notin schema.versions
    <3>1. x = [state |-> "apply", at |-> at]
      BY <1>1, <1>3, <2>3
    <3>2. x.state # "done" /\ x.at = at /\ at <= 3
      BY <2>3, <3>1
    <3> QED BY <1>3, <3>1, <3>2 DEF MigratorOK, MigratorRecords
  <2> QED BY <1>3, <2>1, <2>2, <2>3
<1>6. /\ schema' \in [has : SUBSET {"table", "scoped", "stamps"}, versions : SUBSET (1 .. 3)]
      /\ \A i \in schema'.versions : Files[i] \in schema'.has
      /\ schema.versions \subseteq schema'.versions /\ MigratorOK(x, schema'.versions)
  BY <1>2, <1>5 DEF SchemaInv
<1> QED BY <1>1, <1>2, <1>5, <1>6, MigratorStep

\* A migrator applies a file and records its version with it.
LEMMA ApplySchema ==
  ASSUME SchemaInv, NEW m \in Migrators, Apply(m)
  PROVE  SchemaInv'
<1> DEFINE at == migrator[m].at
           x == [state |-> "check", at |-> at + 1]
<1>1. /\ migrator' = [migrator EXCEPT ![m] = x] /\ api' = api
      /\ schema' = [Applied(schema, at) EXCEPT !.versions = @ \cup {at}]
      /\ migrator[m].state = "apply"
  BY DEF Apply
<1>2. at \in 1 .. 4 /\ \A i \in 1 .. (at - 1) : i \in schema.versions
  BY <1>1, MigratorBehind
<1>3. at <= 3
  BY <1>1, MigratorBehind
<1>4. at \in 1 .. 3 /\ at + 1 \in 1 .. 4
  BY <1>2, <1>3
<1>5. schema \in [has : SUBSET {"table", "scoped", "stamps"}, versions : SUBSET (1 .. 3)]
      /\ \A i \in schema.versions : Files[i] \in schema.has
  BY DEF SchemaInv
<1> HIDE DEF at
<1>6. schema' = [has |-> schema.has \cup {Files[at]}, versions |-> schema.versions \cup {at}]
  BY <1>1, <1>5 DEF Applied
<1>7. schema'.has = schema.has \cup {Files[at]} /\ schema'.versions = schema.versions \cup {at}
  BY <1>6
<1>8. schema' \in [has : SUBSET {"table", "scoped", "stamps"}, versions : SUBSET (1 .. 3)]
  <2>1. Files[at] \in {"table", "scoped", "stamps"}
    BY <1>4, FilesAre
  <2> QED BY <1>4, <1>5, <1>6, <2>1
<1>9. \A i \in schema'.versions : Files[i] \in schema'.has
  BY <1>5, <1>7
<1>10. x \in MigratorRecords /\ x.state # "done" /\ x.at = at + 1
  BY <1>4 DEF MigratorRecords
<1>11. \A i \in 1 .. ((at + 1) - 1) : i \in schema'.versions
  BY <1>2, <1>4, <1>7
<1>12. MigratorOK(x, schema'.versions)
  BY <1>10, <1>11 DEF MigratorOK
<1>13. schema.versions \subseteq schema'.versions
  BY <1>7
<1> HIDE DEF x
<1> QED BY <1>1, <1>8, <1>9, <1>10, <1>12, <1>13, MigratorStep
\* A migrator's transaction is rolled back and the run exits.
LEMMA FailsSchema ==
  ASSUME SchemaInv, NEW m \in Migrators, MigratorFails(m)
  PROVE  SchemaInv'
<1>1. migrator[m].state \in {"check", "apply"} /\ schema' = schema /\ api' = api
  BY DEF MigratorFails
<1>2. migrator[m] \in MigratorRecords
  BY DEF SchemaInv
<1>3. PICK x : x = [migrator[m] EXCEPT !.state = "failed"]
  OBVIOUS
<1>4. migrator' = [migrator EXCEPT ![m] = x]
  BY <1>3 DEF MigratorFails
<1>5. x \in MigratorRecords /\ x.state = "failed" /\ x.at = migrator[m].at
  BY <1>2, <1>3 DEF MigratorRecords
<1>6. \A i \in 1 .. (migrator[m].at - 1) : i \in schema.versions
  BY <1>1, MigratorBehind
<1>7. MigratorOK(x, schema'.versions)
  BY <1>1, <1>5, <1>6 DEF MigratorOK
<1>8. /\ schema' \in [has : SUBSET {"table", "scoped", "stamps"}, versions : SUBSET (1 .. 3)]
      /\ \A i \in schema'.versions : Files[i] \in schema'.has
      /\ schema.versions \subseteq schema'.versions
  BY <1>1 DEF SchemaInv
<1> QED BY <1>1, <1>4, <1>5, <1>7, <1>8, MigratorStep

\* A step of the API, which may apply a file but records no version.
LEMMA ApiStep ==
  ASSUME SchemaInv, UNCHANGED migrator,
         api' \in [state : {"down", "migrate", "verify", "serving"}, at : 1 .. 3, ddl : BOOLEAN],
         NEW has \in SUBSET {"table", "scoped", "stamps"}, schema.has \subseteq has,
         schema' = [schema EXCEPT !.has = has]
  PROVE  SchemaInv'
<1>1. schema \in [has : SUBSET {"table", "scoped", "stamps"}, versions : SUBSET (1 .. 3)]
  BY DEF SchemaInv
<1>2. /\ schema' \in [has : SUBSET {"table", "scoped", "stamps"}, versions : SUBSET (1 .. 3)]
      /\ schema'.has = has /\ schema'.versions = schema.versions
  BY <1>1
<1>3. \A i \in schema'.versions : Files[i] \in schema'.has
  BY <1>2 DEF SchemaInv
<1> QED BY <1>2, <1>3 DEF SchemaInv

\* The API starts, applies what is missing, is refused or verifies.
LEMMA ApiSchema ==
  ASSUME SchemaInv, Start \/ Migrate \/ MigrateRefused \/ Verify
  PROVE  SchemaInv'
<1>1. /\ schema \in [has : SUBSET {"table", "scoped", "stamps"}, versions : SUBSET (1 .. 3)]
      /\ api \in [state : {"down", "migrate", "verify", "serving"}, at : 1 .. 3, ddl : BOOLEAN]
  BY DEF SchemaInv
<1>2. schema.has \in SUBSET {"table", "scoped", "stamps"}
      /\ schema = [schema EXCEPT !.has = schema.has]
  BY <1>1
<1>3. CASE Start
  <2>1. schema' = schema /\ migrator' = migrator /\ api' = [api EXCEPT !.state = "migrate", !.at = 1]
    BY <1>3 DEF Start
  <2>2. api' \in [state : {"down", "migrate", "verify", "serving"}, at : 1 .. 3, ddl : BOOLEAN]
    <3>1. api' = [state |-> "migrate", at |-> 1, ddl |-> api.ddl]
      BY <1>1, <2>1
    <3>2. api.ddl \in BOOLEAN /\ 1 \in 1 .. 3
      BY <1>1
    <3> QED BY <3>1, <3>2
  <2> QED BY <1>2, <2>1, <2>2, ApiStep
<1>4. CASE Migrate
  <2>1. schema' = Applied(schema, api.at) /\ migrator' = migrator
        /\ api' = IF api.at = 3 THEN [api EXCEPT !.state = "serving"] ELSE [api EXCEPT !.at = @ + 1]
    BY <1>4, FilesAre DEF Migrate
  <2>2. api.at \in 1 .. 3
    BY <1>1
  <2>3. api' \in [state : {"down", "migrate", "verify", "serving"}, at : 1 .. 3, ddl : BOOLEAN]
    <3>1. CASE api.at = 3
      <4>1. api' = [api EXCEPT !.state = "serving"]
        BY <2>1, <3>1
      <4> QED BY <1>1, <4>1
    <3>2. CASE api.at # 3
      <4>1. api' = [api EXCEPT !.at = api.at + 1]
        BY <2>1, <3>2
      <4>2. api.at + 1 \in 1 .. 3
        BY <2>2, <3>2
      <4> QED BY <1>1, <4>1, <4>2
    <3> QED BY <3>1, <3>2
  <2>4. PICK has : has = schema.has \cup {Files[api.at]}
    OBVIOUS
  <2>5. has \in SUBSET {"table", "scoped", "stamps"} /\ schema.has \subseteq has
    BY <1>2, <2>2, <2>4, FilesAre
  <2>6. schema' = [schema EXCEPT !.has = has]
    BY <2>1, <2>4 DEF Applied
  <2> QED BY <2>1, <2>3, <2>5, <2>6, ApiStep
<1>5. CASE MigrateRefused
  <2>1. schema' = schema /\ migrator' = migrator /\ api' = [api EXCEPT !.state = "verify"]
    BY <1>5 DEF MigrateRefused
  <2>2. api' \in [state : {"down", "migrate", "verify", "serving"}, at : 1 .. 3, ddl : BOOLEAN]
    BY <1>1, <2>1
  <2> QED BY <1>2, <2>1, <2>2, ApiStep
<1>6. CASE Verify
  <2>1. schema' = schema /\ migrator' = migrator
        /\ \E s \in {"serving", "down"} : api' = [api EXCEPT !.state = s]
    BY <1>6 DEF Verify
  <2>2. api' \in [state : {"down", "migrate", "verify", "serving"}, at : 1 .. 3, ddl : BOOLEAN]
    <3>1. PICK s \in {"serving", "down"} : api' = [api EXCEPT !.state = s]
      BY <2>1
    <3> QED BY <1>1, <3>1
  <2> QED BY <1>2, <2>1, <2>2, ApiStep
<1> QED BY <1>3, <1>4, <1>5, <1>6

-----------------------------------------------------------------------------
(* The steps together.                                                     *)

ServiceInv == ServiceTyped /\ RateInv /\ ConflictInv /\ PagesInv /\ SchemaInv

\* A step that leaves the schema and its migrators alone.
LEMMA SchemaFrame == SchemaInv /\ UNCHANGED schemaVars => SchemaInv'
  BY DEF SchemaInv, schemaVars

\* A request that is not looked up or answered with a conflict keeps the
\* others' findings.
LEMMA MovedConflict ==
  ASSUME ServiceTyped, ConflictInv, NEW q \in Requests, Moved(q), UNCHANGED <<records, removals>>
  PROVE  ConflictInv'
<1>1. request \in [Requests -> RequestRecords]
  BY DEF ServiceTyped
<1>2. /\ \A p \in Requests \ {q} : request'[p] = request[p]
      /\ request'[q].state \in {"store", "done"}
      /\ request'[q].state = "done" => request'[q].code \in Answers \ {"CONFLICT"}
  BY <1>1, MovedKeeps
<1>3. request'[q].state # "reread" /\ ~(request'[q].state = "done" /\ request'[q].code = "CONFLICT")
  BY <1>2
<1>4. ConflictOf(request'[q], removals[request'[q].call.items[1].slot],
                 records[request'[q].call.items[1].slot].revision)
  BY <1>3, QuietConflict
<1> QED BY <1>2, <1>4, ConflictByOne

\* The service starts in the invariant.
LEMMA ServiceInit == Init => ServiceInv
  BY InitTyped, InitRate, InitConflict, InitPages, InitSchema DEF ServiceInv

\* Every step of the service keeps the invariant.
LEMMA ServiceStep == ServiceInv /\ [Next]_vars => ServiceInv'
<1> SUFFICES ASSUME ServiceTyped, RateInv, ConflictInv, PagesInv, SchemaInv, [Next]_vars
             PROVE  ServiceTyped' /\ RateInv' /\ ConflictInv' /\ PagesInv' /\ SchemaInv'
  BY DEF ServiceInv
<1>1. CASE Tick
  <2>1. UNCHANGED <<scenario, windows, passed, stray, records, removals, request, reader, schemaVars>>
    BY <1>1 DEF Tick
  <2>2. ConflictInv'
    BY <2>1 DEF ConflictInv
  <2>3. PagesInv' /\ SchemaInv'
    BY <2>1, PagesFrame, SchemaFrame
  <2> QED BY <1>1, <2>2, <2>3, TickTyped, TickRate
<1>2. CASE ReadPage
  <2>1. UNCHANGED <<scenario, minute, windows, passed, stray, records, removals, request, schemaVars>>
    BY <1>2 DEF ReadPage
  <2>2. ConflictInv'
    BY <2>1 DEF ConflictInv
  <2>3. RateInv' /\ SchemaInv'
    BY <2>1, RateFrame, SchemaFrame
  <2> QED BY <1>2, <2>2, <2>3, ReadPageTyped, ReadPages
<1>3. ASSUME NEW q \in Requests, NEW call \in scenario.calls, Arrive(q, call)
      PROVE  ServiceTyped' /\ RateInv' /\ ConflictInv' /\ PagesInv' /\ SchemaInv'
  <2>1. UNCHANGED <<scenario, minute, windows, passed, stray, records, removals, reader, schemaVars>>
    BY <1>3 DEF Arrive
  <2>2. /\ \A p \in Requests \ {q} : request'[p] = request[p]
        /\ request'[q].state = "limit"
    BY <1>3, ArriveKeeps
  <2>3. ConflictOf(request'[q], removals[request'[q].call.items[1].slot],
                   records[request'[q].call.items[1].slot].revision)
    BY <2>2, QuietConflict
  <2>4. ConflictInv'
    BY <2>1, <2>2, <2>3, ConflictByOne
  <2>5. RateInv' /\ PagesInv' /\ SchemaInv'
    BY <2>1, RateFrame, PagesFrame, SchemaFrame
  <2> QED BY <1>3, <2>4, <2>5, ArriveTyped
<1>4. ASSUME NEW q \in Requests, Limit(q)
      PROVE  ServiceTyped' /\ RateInv' /\ ConflictInv' /\ PagesInv' /\ SchemaInv'
  <2>1. UNCHANGED <<scenario, minute, records, removals, reader, schemaVars>>
    BY <1>4 DEF Limit
  <2>2. Moved(q)
    BY <1>4, LimitMoves
  <2>3. ConflictInv'
    BY <2>1, <2>2, MovedConflict
  <2>4. PagesInv' /\ SchemaInv'
    BY <2>1, PagesFrame, SchemaFrame
  <2> QED BY <1>4, <2>3, <2>4, LimitTyped, LimitRate
<1>5. ASSUME NEW q \in Requests, Store(q)
      PROVE  ServiceTyped' /\ RateInv' /\ ConflictInv' /\ PagesInv' /\ SchemaInv'
  <2>1. UNCHANGED <<scenario, minute, windows, passed, stray, schemaVars>>
    BY <1>5 DEF Store
  <2>2. RateInv' /\ SchemaInv'
    BY <2>1, RateFrame, SchemaFrame
  <2> QED BY <1>5, <2>2, StoreTyped, StoreConflict, StorePages
<1>6. ASSUME NEW q \in Requests, Reread(q)
      PROVE  ServiceTyped' /\ RateInv' /\ ConflictInv' /\ PagesInv' /\ SchemaInv'
  <2>1. UNCHANGED <<scenario, minute, windows, passed, stray, records, removals, reader, schemaVars>>
    BY <1>6 DEF Reread
  <2>2. RateInv' /\ PagesInv' /\ SchemaInv'
    BY <2>1, RateFrame, PagesFrame, SchemaFrame
  <2> QED BY <1>6, <2>2, RereadTyped, RereadConflict
<1>7. CASE SchemaNext /\ UNCHANGED <<scenario, minute, windows, passed, stray, records, removals, request, reader>>
  <2>1. ServiceTyped' /\ RateInv' /\ PagesInv'
    BY <1>7, IdleTyped, RateFrame, PagesFrame
  <2>2. ConflictInv'
    BY <1>7 DEF ConflictInv
  <2>3. SchemaInv'
    <3>1. CASE \E m \in Migrators : Check(m) \/ Apply(m) \/ MigratorFails(m)
      BY <3>1, CheckSchema, ApplySchema, FailsSchema
    <3>2. CASE Start \/ Migrate \/ MigrateRefused \/ Verify
      BY <3>2, ApiSchema
    <3> QED BY <1>7, <3>1, <3>2 DEF SchemaNext
  <2> QED BY <2>1, <2>2, <2>3
<1>8. CASE UNCHANGED vars
  <2>1. UNCHANGED <<scenario, minute, windows, passed, stray, records, removals, request, reader, schemaVars>>
    BY <1>8 DEF vars
  <2>2. ConflictInv'
    BY <2>1 DEF ConflictInv
  <2> QED BY <2>1, <2>2, IdleTyped, RateFrame, PagesFrame, SchemaFrame
<1> QED BY <1>1, <1>2, <1>3, <1>4, <1>5, <1>6, <1>7, <1>8 DEF Next

\* In every behaviour of the service, with any number of clients, addresses,
\* requests in flight, migrators and records.
THEOREM ServiceInvariant == Spec => []ServiceInv
  BY ServiceInit, ServiceStep, PTL DEF Spec

\* No error is answered with the status of a success, and no window counts
\* for a minute the clock has not shown (status_and_code, RateLimiter::allow).
THEOREM AnswersTyped == Spec => []TypeOK
<1>1. ServiceInv => TypeOK
  <2> SUFFICES ASSUME ServiceInv PROVE TypeOK
    OBVIOUS
  <2>1. records \in Contents /\ TombstonesPresent(records)
        /\ \A ip \in Ips : windows[ip].minute <= minute
    BY DEF ServiceInv, ServiceTyped
  <2>2. ASSUME NEW q \in Requests, request[q].state = "done"
        PROVE  Status(request[q].code) = 200 <=> request[q].code = "OK"
    <3>1. request[q] \in RequestRecords /\ request[q].code # "none"
      BY <2>2 DEF ServiceInv, ServiceTyped
    <3>2. request[q].code \in Answers
      BY <3>1 DEF RequestRecords
    <3> QED BY <3>2, StatusOfAnswers
  <2> QED BY <2>1, <2>2 DEF TypeOK, TombstonesPresent
<1> QED BY <1>1, ServiceInvariant, PTL

\* An address gets its limit in a minute, and once more for each of its
\* requests that entered the window after its minute was over
\* (RateLimiter::allow, which reads the clock before it locks the map).
THEOREM RateStaysHeld == Spec => []RateHeld
<1>1. ServiceInv => RateHeld
  <2> SUFFICES ASSUME ServiceInv, NEW ip \in Ips, NEW m \in Minutes, scenario.limit > 0
               PROVE  passed[ip][m] <= scenario.limit * (1 + stray[ip])
    BY DEF RateHeld
  <2>1. passed[ip][m] <= scenario.limit * stray[ip] + scenario.limit
    BY DEF ServiceInv, RateInv, Held
  <2>2. scenario.limit \in Nat /\ stray[ip] \in Nat
    BY ScenarioOK DEF ServiceInv, ServiceTyped
  <2>3. scenario.limit * (1 + stray[ip]) = scenario.limit * stray[ip] + scenario.limit
    BY <2>2
  <2> QED BY <2>1, <2>3
<1> QED BY <1>1, ServiceInvariant, PTL

\* A conflict names the expected revision only if the record was removed, or
\* reached it, between the store's refusal and the second call
\* (conflict_with_authoritative_revision).
THEOREM ConflictsNameOther == Spec => []ConflictNamesOther
<1>1. ServiceInv => ConflictNamesOther
  BY DEF ServiceInv, ConflictInv, ConflictNamesOther
<1> QED BY <1>1, ServiceInvariant, PTL

\* A client that pages to the end of a listing has seen every record that was
\* there throughout, whatever was written or buried meanwhile, unless a purge
\* or a rekey removed one (list_records).
THEOREM PagesStayComplete == Spec => []PagesComplete
<1>1. ServiceInv => PagesComplete
  BY DEF ServiceInv, PagesInv
<1> QED BY <1>1, ServiceInvariant, PTL

\* A migrator that is done has left the whole schema behind, whatever other
\* migrators and the API did (migrator main.rs).
THEOREM MigratedStaysCurrent == Spec => []MigratedMeansCurrent
<1>1. ServiceInv => MigratedMeansCurrent
  <2> SUFFICES ASSUME ServiceInv, NEW m \in Migrators, migrator[m].state = "done"
               PROVE  Current(schema)
    BY DEF MigratedMeansCurrent
  <2>1. schema.versions = 1 .. 3 /\ \A i \in schema.versions : Files[i] \in schema.has
    BY DEF ServiceInv, SchemaInv
  <2> QED BY <2>1, FilesAre DEF Current
<1> QED BY <1>1, ServiceInvariant, PTL

=============================================================================
