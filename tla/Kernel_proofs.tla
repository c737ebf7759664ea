----------------------------- MODULE Kernel_proofs -----------------------------
(* What the kernel's functions answer, for any arguments: nothing opens or verifies but what *)
(* was made, commitments fix their arguments, and the codecs are exact.                      *)
EXTENDS LibraryCalls, FiniteSetTheorems, SequenceTheorems, WellFoundedInduction, TLAPS

-----------------------------------------------------------------------------
(* Numbers and sequences.                                                  *)

\* Every nonempty set of naturals has a least element.
LEMMA LeastExists ==
  ASSUME NEW S \in SUBSET Nat, S # {}
  PROVE  \E i \in S : \A j \in S : i <= j
<1>1. PICK least \in S : \A other \in S : <<other, least>> \notin OpToRel(<, Nat)
  BY NatLessThanWellFounded, WFMin
<1>2. least \in Nat /\ \A other \in S : other \in Nat
  OBVIOUS
<1>3. \A other \in S : ~(other < least)
  BY <1>1, <1>2 DEF OpToRel
<1>4. \A other \in S : least <= other
  BY <1>2, <1>3
<1> QED BY <1>4

\* A set of numbers that holds zero and the successor of each has them all.
LEMMA Induction ==
  ASSUME NEW S, 0 \in S, \A n \in Nat : n \in S => n + 1 \in S
  PROVE  Nat \subseteq S
<1> SUFFICES ASSUME NEW x \in Nat \ S PROVE FALSE
  OBVIOUS
<1>1. PICK least \in Nat \ S : \A y \in Nat \ S : least <= y
  BY LeastExists
<1>2. least # 0 /\ least \in Nat /\ least \notin S
  BY <1>1
<1>3. least - 1 \in Nat /\ ~(least <= least - 1)
  BY <1>2
<1>4. least - 1 \in S
  BY <1>1, <1>3
<1>5. (least - 1) + 1 \in S
  BY <1>3, <1>4
<1> QED BY <1>2, <1>5

\* A sequence, whatever it is of.
IsSequence(v) == \E n \in Nat : v = [i \in 1..n |-> v[i]]

\* A sequence has a length, which is its domain.
LEMMA SequenceOf ==
  ASSUME NEW v, IsSequence(v)
  PROVE  v \in Seq(ToSet(v)) /\ Len(v) \in Nat /\ DOMAIN v = 1..Len(v) /\ v = [i \in 1..Len(v) |-> v[i]]
<1>1. PICK n \in Nat : v = [i \in 1..n |-> v[i]]
  BY DEF IsSequence
<1>2. ToSet(v) = {v[i] : i \in DOMAIN v}
  BY DEF ToSet
<1>3. DOMAIN v = 1..n
  BY <1>1
<1>4. v \in [1..n -> ToSet(v)]
  BY <1>1, <1>2, <1>3
<1>5. v \in Seq(ToSet(v))
  BY <1>4
<1> QED BY <1>1, <1>3, <1>5

\* Whatever lies in a set of sequences is one.
LEMMA SeqIsSequence == ASSUME NEW S, NEW v \in Seq(S) PROVE IsSequence(v)
  BY DEF IsSequence

\* Two sequences with the same elements are equal.
LEMMA SameSequence ==
  ASSUME NEW v, NEW w, IsSequence(v), IsSequence(w), Len(v) = Len(w), \A i \in 1..Len(v) : v[i] = w[i]
  PROVE  v = w
<1>1. v = [i \in 1..Len(v) |-> v[i]] /\ w = [i \in 1..Len(w) |-> w[i]]
  BY SequenceOf
<1> QED BY <1>1

\* One sequence after another.
LEMMA Concatenation ==
  ASSUME NEW v, NEW w, IsSequence(v), IsSequence(w)
  PROVE  /\ IsSequence(v \o w) /\ Len(v \o w) = Len(v) + Len(w)
         /\ \A i \in 1..Len(v) : (v \o w)[i] = v[i]
         /\ \A i \in 1..Len(w) : (v \o w)[Len(v) + i] = w[i]
<1> DEFINE S == ToSet(v) \cup ToSet(w)
<1>1. v \in Seq(ToSet(v)) /\ w \in Seq(ToSet(w))
  BY SequenceOf
<1> HIDE DEF S
<1>2. v \in Seq(S) /\ w \in Seq(S)
  BY <1>1 DEF S
<1>3. v \o w \in Seq(S)
  BY <1>2
<1>4. IsSequence(v \o w)
  BY <1>3, SeqIsSequence
<1> QED BY <1>2, <1>4

\* A sequence split in two.
Splits(z, v, x) == IsSequence(v) /\ IsSequence(x) /\ z = v \o x

\* Its parts.
LEMMA SplitParts ==
  ASSUME NEW z, NEW v, NEW x, Splits(z, v, x)
  PROVE  /\ IsSequence(z) /\ Len(z) = Len(v) + Len(x) /\ Len(v) \in Nat /\ Len(x) \in Nat
         /\ \A i \in 1..Len(v) : z[i] = v[i]
         /\ \A i \in 1..Len(x) : z[Len(v) + i] = x[i]
  BY Concatenation, SequenceOf DEF Splits

\* What precedes a sequence, and follows it, is fixed by its length.
LEMMA Cancellation ==
  ASSUME NEW v, NEW w, NEW x, NEW y, NEW z, Splits(z, v, x), Splits(z, w, y), Len(v) = Len(w)
  PROVE  v = w /\ x = y
<1>1. IsSequence(v) /\ IsSequence(w) /\ IsSequence(x) /\ IsSequence(y)
  BY DEF Splits
<1>2. Len(x) = Len(y) /\ Len(v) \in Nat /\ Len(x) \in Nat
  BY SplitParts
<1>3. \A i \in 1..Len(v) : v[i] = w[i]
  BY <1>2, SplitParts
<1>4. \A i \in 1..Len(x) : x[i] = y[i]
  BY <1>2, SplitParts
<1> QED BY <1>1, <1>2, <1>3, <1>4, SameSequence

\* A list is a sequence, with positions from one to its length.
LEMMA ListFacts ==
  ASSUME NEW s, IsList(s)
  PROVE  IsSequence(s) /\ Len(s) \in Nat /\ DOMAIN s = 1..Len(s)
  BY DEF IsList, IsSequence

-----------------------------------------------------------------------------
(* Arrays: what follows an item never changes where it ends.               *)

\* How many items a part announces.
Opened(part) == IF part.kind = "array" THEN part.n ELSE 0

IsPart(part) ==
  \/ part = [kind |-> "uint", n |-> part.n]
  \/ part = [kind |-> "bytes", bytes |-> part.bytes]
  \/ part = [kind |-> "bool", n |-> part.n]
  \/ part = [kind |-> "array", n |-> part.n] /\ part.n \in Nat

IsParts(v) == IsSequence(v) /\ \A i \in 1..Len(v) : IsPart(v[i])

\* After i parts of v, open[i] of the items still have to be read.
Counts(v, open) ==
  /\ open \in [0..Len(v) -> Nat]
  /\ \A i \in 1..Len(v) : open[i - 1] > 0 /\ open[i] = open[i - 1] - 1 + Opened(v[i])

\* The parts of n items.
AreItems(v, n) ==
  IsParts(v) /\ \E open : Counts(v, open) /\ open[0] = n /\ open[Len(v)] = 0
IsItem(v) == AreItems(v, 1)

\* A part announces a number of items.
LEMMA OpenedIsNat == ASSUME NEW part, IsPart(part) PROVE Opened(part) \in Nat
  BY DEF IsPart, Opened

\* A number, a byte string and a truth value are items of one part.
LEMMA LeafIsItem ==
  ASSUME NEW x
  PROVE  IsItem(Uint(x)) /\ IsItem(Bytes(x)) /\ (x \in BOOLEAN => IsItem(Bool(x)))
<1> SUFFICES ASSUME NEW part, IsPart(part), part.kind # "array" PROVE IsItem(<<part>>)
  <2> DEFINE u == [kind |-> "uint", n |-> x]
             b == [kind |-> "bytes", bytes |-> x]
             t == [kind |-> "bool", n |-> IF x THEN 1 ELSE 0]
  <2>1. IsPart(u) /\ u.kind # "array" /\ IsPart(b) /\ b.kind # "array" /\ IsPart(t) /\ t.kind # "array"
    BY DEF IsPart
  <2> QED BY <2>1 DEF Uint, Bytes, Bool
<1> DEFINE v == <<part>>  open == [i \in 0..1 |-> 1 - i]
<1>1. IsSequence(v) /\ Len(v) = 1 /\ v[1] = part
  BY DEF IsSequence
<1>2. open \in [0..1 -> Nat] /\ open[0] = 1 /\ open[1] = 0
  OBVIOUS
<1>3. Opened(part) = 0
  BY DEF Opened
<1> HIDE DEF v, open
<1>4. Counts(v, open)
  BY <1>1, <1>2, <1>3 DEF Counts
<1> QED BY <1>1, <1>2, <1>4 DEF IsItem, AreItems, IsParts, v

\* Where items end does not depend on what follows them.
LEMMA PrefixFree ==
  ASSUME NEW n, NEW v, NEW w, NEW x, NEW y, NEW z, AreItems(v, n), AreItems(w, n), Splits(z, v, x), Splits(z, w, y)
  PROVE  v = w /\ x = y
<1>1. PICK p : Counts(v, p) /\ p[0] = n /\ p[Len(v)] = 0
  BY DEF AreItems
<1>2. PICK q : Counts(w, q) /\ q[0] = n /\ q[Len(w)] = 0
  BY DEF AreItems
<1>3. IsSequence(v) /\ IsSequence(w) /\ Len(v) \in Nat /\ Len(w) \in Nat
  BY SequenceOf DEF AreItems, IsParts
<1> DEFINE S == {i \in Nat : i <= Len(v) /\ i <= Len(w) => p[i] = q[i]}
<1>4. 0 \in S
  BY <1>1, <1>2
<1>5. ASSUME NEW i \in Nat, i \in S PROVE i + 1 \in S
  <2> SUFFICES ASSUME i + 1 <= Len(v), i + 1 <= Len(w) PROVE p[i + 1] = q[i + 1]
    OBVIOUS
  <2>1. i + 1 \in 1..Len(v) /\ i + 1 \in 1..Len(w) /\ (i + 1) - 1 = i
    BY <1>3
  <2>2. v[i + 1] = w[i + 1]
    BY <1>3, <2>1, SplitParts
  <2>3. p[i] = q[i]
    BY <1>3, <1>5
  <2>4. p[i + 1] = p[i] - 1 + Opened(v[i + 1]) /\ q[i + 1] = q[i] - 1 + Opened(w[i + 1])
    BY <1>1, <1>2, <2>1 DEF Counts
  <2> QED BY <2>2, <2>3, <2>4
<1>6. \A i \in Nat : i <= Len(v) /\ i <= Len(w) => p[i] = q[i]
  <2> HIDE DEF S
  <2>1. Nat \subseteq S
    BY <1>4, <1>5, Induction
  <2> QED BY <2>1 DEF S
<1>7. ~(Len(v) < Len(w))
  <2> SUFFICES ASSUME Len(v) < Len(w) PROVE FALSE
    OBVIOUS
  <2>1. Len(v) + 1 \in 1..Len(w) /\ (Len(v) + 1) - 1 = Len(v)
    BY <1>3
  <2>2. q[Len(v)] > 0
    BY <1>2, <2>1 DEF Counts
  <2>3. q[Len(v)] = 0
    BY <1>1, <1>3, <1>6
  <2> QED BY <2>2, <2>3
<1>8. ~(Len(w) < Len(v))
  <2> SUFFICES ASSUME Len(w) < Len(v) PROVE FALSE
    OBVIOUS
  <2>1. Len(w) + 1 \in 1..Len(v) /\ (Len(w) + 1) - 1 = Len(w)
    BY <1>3
  <2>2. p[Len(w)] > 0
    BY <1>1, <2>1 DEF Counts
  <2>3. p[Len(w)] = 0
    BY <1>2, <1>3, <1>6
  <2> QED BY <2>2, <2>3
<1>9. Len(v) = Len(w)
  BY <1>3, <1>7, <1>8
<1> HIDE DEF S
<1> QED BY <1>3, <1>9, Cancellation

\* The function that FlattenSeq recurs on exists.
LEMMA JoinedExists ==
  ASSUME NEW s, NEW length \in Nat
  PROVE  \E f : f = [i \in 1..length |-> IF i = 1 THEN s[i] ELSE f[i - 1] \o s[i]]
<1> DEFINE Fits(f, n) == f = [i \in 1..n |-> IF i = 1 THEN s[i] ELSE f[i - 1] \o s[i]]
           S == {n \in Nat : \E f : Fits(f, n)}
<1>1. 0 \in S
  <2>1. Fits(<<>>, 0)
    OBVIOUS
  <2> QED BY <2>1
<1>2. ASSUME NEW n \in Nat, n \in S PROVE n + 1 \in S
  <2>1. PICK f : Fits(f, n)
    BY <1>2
  <2> DEFINE g == [i \in 1..n + 1 |-> IF i <= n THEN f[i] ELSE IF i = 1 THEN s[i] ELSE f[i - 1] \o s[i]]
  <2>2. \A i \in 1..n : g[i] = f[i]
    OBVIOUS
  <2>3. \A i \in 1..n : g[i] = IF i = 1 THEN s[i] ELSE g[i - 1] \o s[i]
    <3> SUFFICES ASSUME NEW i \in 1..n PROVE g[i] = IF i = 1 THEN s[i] ELSE g[i - 1] \o s[i]
      OBVIOUS
    <3>1. f[i] = IF i = 1 THEN s[i] ELSE f[i - 1] \o s[i]
      BY <2>1
    <3>2. i # 1 => i - 1 \in 1..n
      OBVIOUS
    <3> QED BY <2>2, <3>1, <3>2
  <2>4. g[n + 1] = IF n + 1 = 1 THEN s[n + 1] ELSE g[n] \o s[n + 1]
    <3>1. n + 1 # 1 => n \in 1..n /\ (n + 1) - 1 = n
      OBVIOUS
    <3>2. g[n + 1] = IF n + 1 = 1 THEN s[n + 1] ELSE f[(n + 1) - 1] \o s[n + 1]
      OBVIOUS
    <3> QED BY <2>2, <3>1, <3>2
  <2>5. g = [i \in 1..n + 1 |-> g[i]]
    OBVIOUS
  <2> HIDE DEF g
  <2>6. \A i \in 1..n + 1 : g[i] = IF i = 1 THEN s[i] ELSE g[i - 1] \o s[i]
    <3> SUFFICES ASSUME NEW i \in 1..n + 1, i \notin 1..n PROVE g[i] = IF i = 1 THEN s[i] ELSE g[i - 1] \o s[i]
      BY <2>3
    <3>1. i = n + 1 /\ i - 1 = n
      OBVIOUS
    <3> QED BY <2>4, <3>1
  <2>7. Fits(g, n + 1)
    BY <2>5, <2>6
  <2>8. \E h : Fits(h, n + 1)
    BY <2>7
  <2> HIDE DEF Fits
  <2> QED BY <2>8
<1>3. length \in S
  <2> HIDE DEF S
  <2> QED BY <1>1, <1>2, Induction
<1> QED BY <1>3

\* What a sequence of sequences is flattened to, one after another.
Flattens(f, s) ==
  /\ f[0] = <<>>
  /\ \A i \in 1..Len(s) : f[i] = f[i - 1] \o s[i]
  /\ \A i \in 0..Len(s) : IsSequence(f[i])
  /\ FlattenSeq(s) = f[Len(s)]

AreSequences(s) == IsSequence(s) /\ \A i \in 1..Len(s) : IsSequence(s[i])

\* A sequence of one element.
LEMMA OneIsSequence ==
  ASSUME NEW x
  PROVE  \A v : v = <<x>> => IsSequence(v) /\ Len(v) = 1 /\ v[1] = x
  BY DEF IsSequence

\* A sequence that starts with one element.
LEMMA StartsWith ==
  ASSUME NEW z, NEW x, NEW w, Splits(z, <<x>>, w)
  PROVE  /\ IsSequence(z) /\ Len(w) \in Nat /\ Len(z) = 1 + Len(w)
         /\ z[1] = x /\ \A i \in 1..Len(w) : z[1 + i] = w[i]
<1>1. PICK v : v = <<x>>
  OBVIOUS
<1>2. IsSequence(v) /\ Len(v) = 1 /\ v[1] = x
  BY <1>1, OneIsSequence
<1>3. Splits(z, v, w)
  BY <1>1
<1>4. /\ IsSequence(z) /\ Len(z) = Len(v) + Len(w) /\ Len(w) \in Nat
      /\ \A i \in 1..Len(v) : z[i] = v[i]
      /\ \A i \in 1..Len(w) : z[Len(v) + i] = w[i]
  BY <1>3, SplitParts
<1>5. 1 \in 1..Len(v)
  BY <1>2
<1> QED BY <1>2, <1>4, <1>5

\* Nothing before a sequence.
LEMMA NothingBefore == ASSUME NEW v, IsSequence(v) PROVE <<>> \o v = v
<1> DEFINE z == <<>> \o v
<1>1. IsSequence(<<>>) /\ Len(<<>>) = 0
  BY DEF IsSequence
<1>2. IsSequence(z) /\ Len(z) = 0 + Len(v) /\ \A i \in 1..Len(v) : z[0 + i] = v[i]
  BY <1>1, Concatenation
<1> HIDE DEF z
<1>3. Len(v) \in Nat
  BY SequenceOf
<1>4. Len(z) = Len(v) /\ \A i \in 1..Len(z) : z[i] = v[i]
  BY <1>2, <1>3
<1>5. z = v
  BY <1>2, <1>4, SameSequence
<1> QED BY <1>5 DEF z

\* FlattenSeq puts the sequences one after another.
LEMMA FlattenFacts ==
  ASSUME NEW s, AreSequences(s)
  PROVE  \E f : Flattens(f, s)
<1>1. IsSequence(s) /\ Len(s) \in Nat /\ \A i \in 1..Len(s) : IsSequence(s[i])
  BY SequenceOf DEF AreSequences
<1>2. CASE Len(s) = 0
  <2>1. s = <<>>
    <3>1. IsSequence(<<>>) /\ Len(<<>>) = 0
      BY DEF IsSequence
    <3> QED BY <1>1, <1>2, <3>1, SameSequence
  <2>2. FlattenSeq(s) = s
    BY <1>2 DEF FlattenSeq
  <2> DEFINE f == [i \in 0..0 |-> <<>>]
  <2>3. f[0] = <<>> /\ f[Len(s)] = <<>> /\ IsSequence(<<>>)
    BY <1>2 DEF IsSequence
  <2> HIDE DEF f
  <2>4. Flattens(f, s)
    BY <1>2, <2>1, <2>2, <2>3 DEF Flattens
  <2> QED BY <2>4
<1>3. CASE Len(s) # 0
  <2> DEFINE flatten[i \in 1..Len(s)] == IF i = 1 THEN s[i] ELSE flatten[i - 1] \o s[i]
  <2>1. \E g : g = [i \in 1..Len(s) |-> IF i = 1 THEN s[i] ELSE g[i - 1] \o s[i]]
    BY <1>1, JoinedExists
  <2>2. flatten = [i \in 1..Len(s) |-> IF i = 1 THEN s[i] ELSE flatten[i - 1] \o s[i]]
    BY <2>1
  <2>3. FlattenSeq(s) = flatten[Len(s)]
    BY <1>3 DEF FlattenSeq
  <2> HIDE DEF flatten
  <2> DEFINE f == [i \in 0..Len(s) |-> IF i = 0 THEN <<>> ELSE flatten[i]]
  <2>4. f[0] = <<>> /\ \A i \in 1..Len(s) : f[i] = flatten[i]
    BY <1>1
  <2> HIDE DEF f
  <2>5. \A i \in 1..Len(s) : f[i] = f[i - 1] \o s[i]
    <3> SUFFICES ASSUME NEW i \in 1..Len(s) PROVE f[i] = f[i - 1] \o s[i]
      OBVIOUS
    <3>1. CASE i = 1
      <4>1. f[1] = s[1]
        BY <2>2, <2>4, <3>1
      <4>2. f[1] = <<>> \o s[1]
        BY <1>1, <3>1, <4>1, NothingBefore
      <4>3. f[1] = f[0] \o s[1]
        BY <2>4, <4>2
      <4>4. i - 1 = 0
        BY <3>1
      <4> QED BY <3>1, <4>3, <4>4
    <3>2. CASE i # 1
      <4>1. i - 1 \in 1..Len(s)
        BY <1>1, <3>2
      <4>2. flatten[i] = flatten[i - 1] \o s[i]
        BY <2>2, <3>2
      <4> QED BY <2>4, <4>1, <4>2
    <3> QED BY <3>1, <3>2
  <2>6. \A i \in 0..Len(s) : IsSequence(f[i])
    <3> DEFINE S == {i \in Nat : i <= Len(s) => IsSequence(f[i])}
    <3>1. 0 \in S
      BY <2>4 DEF IsSequence
    <3>2. ASSUME NEW i \in Nat, i \in S PROVE i + 1 \in S
      <4> SUFFICES ASSUME i + 1 <= Len(s) PROVE IsSequence(f[i + 1])
        OBVIOUS
      <4>1. i + 1 \in 1..Len(s) /\ (i + 1) - 1 = i /\ i <= Len(s)
        BY <1>1
      <4>2. f[i + 1] = f[i] \o s[i + 1]
        BY <2>5, <4>1
      <4>3. IsSequence(f[i]) /\ IsSequence(s[i + 1])
        BY <1>1, <3>2, <4>1
      <4>4. IsSequence(f[i] \o s[i + 1])
        BY <4>3, Concatenation
      <4> QED BY <4>2, <4>4
    <3> HIDE DEF S
    <3>3. Nat \subseteq S
      BY <3>1, <3>2, Induction
    <3> QED BY <1>1, <3>3 DEF S
  <2>7. FlattenSeq(s) = f[Len(s)]
    BY <1>1, <1>3, <2>3, <2>4
  <2>8. Flattens(f, s)
    BY <2>4, <2>5, <2>6, <2>7 DEF Flattens
  <2> QED BY <2>8
<1> QED BY <1>2, <1>3

\* No items.
LEMMA NoItems == AreItems(<<>>, 0)
<1> DEFINE open == [i \in 0..0 |-> 0]
<1>1. IsSequence(<<>>) /\ Len(<<>>) = 0
  BY DEF IsSequence
<1>2. open \in [0..0 -> Nat] /\ open[0] = 0
  OBVIOUS
<1> HIDE DEF open
<1> QED BY <1>1, <1>2 DEF AreItems, IsParts, Counts

\* An item after some.
LEMMA ItemAfter ==
  ASSUME NEW n \in Nat, NEW v, NEW w, NEW z, AreItems(v, n), IsItem(w), z = v \o w
  PROVE  AreItems(z, n + 1)
<1>1. PICK p : Counts(v, p) /\ p[0] = n /\ p[Len(v)] = 0
  BY DEF AreItems
<1>2. PICK q : Counts(w, q) /\ q[0] = 1 /\ q[Len(w)] = 0
  BY DEF AreItems, IsItem
<1>3. IsSequence(v) /\ IsSequence(w) /\ Len(v) \in Nat /\ Len(w) \in Nat
  BY SequenceOf DEF AreItems, IsParts, IsItem
<1>4. Splits(z, v, w)
  BY <1>3 DEF Splits
<1>5. /\ IsSequence(z) /\ Len(z) = Len(v) + Len(w)
      /\ \A i \in 1..Len(v) : z[i] = v[i]
      /\ \A i \in 1..Len(w) : z[Len(v) + i] = w[i]
  BY <1>4, SplitParts
<1> DEFINE open == [i \in 0..Len(z) |-> IF i < Len(v) THEN p[i] + 1 ELSE q[i - Len(v)]]
<1>6. \A i \in 0..Len(v) : p[i] \in Nat
  BY <1>1 DEF Counts
<1>7. \A i \in 0..Len(w) : q[i] \in Nat
  BY <1>2 DEF Counts
<1>8. open \in [0..Len(z) -> Nat]
  <2> SUFFICES ASSUME NEW i \in 0..Len(z) PROVE (IF i < Len(v) THEN p[i] + 1 ELSE q[i - Len(v)]) \in Nat
    OBVIOUS
  <2>1. CASE i < Len(v)
    BY <1>3, <1>6, <2>1
  <2>2. CASE ~(i < Len(v))
    <3>1. i - Len(v) \in 0..Len(w)
      BY <1>3, <1>5, <2>2
    <3> QED BY <1>7, <2>2, <3>1
  <2> QED BY <2>1, <2>2
<1>9. \A i \in 0..Len(v) : open[i] = p[i] + 1
  <2> SUFFICES ASSUME NEW i \in 0..Len(v) PROVE open[i] = p[i] + 1
    OBVIOUS
  <2>1. i \in 0..Len(z)
    BY <1>3, <1>5
  <2>2. CASE i < Len(v)
    BY <2>1, <2>2
  <2>3. CASE i = Len(v)
    <3>1. i - Len(v) = 0 /\ ~(i < Len(v))
      BY <1>3, <2>3
    <3> QED BY <1>1, <1>2, <2>1, <2>3, <3>1
  <2> QED BY <1>3, <2>2, <2>3
<1>10. \A i \in 0..Len(w) : open[Len(v) + i] = q[i]
  <2> SUFFICES ASSUME NEW i \in 0..Len(w) PROVE open[Len(v) + i] = q[i]
    OBVIOUS
  <2>1. Len(v) + i \in 0..Len(z) /\ ~(Len(v) + i < Len(v)) /\ (Len(v) + i) - Len(v) = i
    BY <1>3, <1>5
  <2> QED BY <2>1
<1> HIDE DEF open
<1>11. \A i \in 1..Len(z) : open[i - 1] > 0 /\ open[i] = open[i - 1] - 1 + Opened(z[i]) /\ IsPart(z[i])
  <2> SUFFICES ASSUME NEW i \in 1..Len(z)
               PROVE  open[i - 1] > 0 /\ open[i] = open[i - 1] - 1 + Opened(z[i]) /\ IsPart(z[i])
    OBVIOUS
  <2>1. CASE i <= Len(v)
    <3>1. i \in 1..Len(v) /\ i \in 0..Len(v) /\ i - 1 \in 0..Len(v)
      BY <1>3, <2>1
    <3>2. p[i - 1] > 0 /\ p[i] = p[i - 1] - 1 + Opened(v[i]) /\ IsPart(v[i])
      BY <1>1, <3>1 DEF Counts, AreItems, IsParts
    <3>3. z[i] = v[i] /\ open[i] = p[i] + 1 /\ open[i - 1] = p[i - 1] + 1
      BY <1>5, <1>9, <3>1
    <3>4. Opened(v[i]) \in Nat
      BY <3>2, OpenedIsNat
    <3> QED BY <1>6, <3>1, <3>2, <3>3, <3>4
  <2>2. CASE ~(i <= Len(v))
    <3> DEFINE j == i - Len(v)
    <3>1. j \in 1..Len(w) /\ j \in 0..Len(w) /\ j - 1 \in 0..Len(w) /\ i = Len(v) + j /\ i - 1 = Len(v) + (j - 1)
      BY <1>3, <1>5, <2>2
    <3> HIDE DEF j
    <3>2. q[j - 1] > 0 /\ q[j] = q[j - 1] - 1 + Opened(w[j]) /\ IsPart(w[j])
      BY <1>2, <3>1 DEF Counts, IsItem, AreItems, IsParts
    <3>3. z[i] = w[j] /\ open[i] = q[j] /\ open[i - 1] = q[j - 1]
      BY <1>5, <1>10, <3>1
    <3> QED BY <3>2, <3>3
  <2> QED BY <2>1, <2>2
<1>12. open[0] = n + 1 /\ open[Len(z)] = 0
  <2>1. 0 \in 0..Len(v) /\ Len(w) \in 0..Len(w)
    BY <1>3
  <2> QED BY <1>1, <1>2, <1>5, <1>9, <1>10, <2>1
<1>13. Counts(z, open)
  BY <1>8, <1>11 DEF Counts
<1> QED BY <1>5, <1>11, <1>12, <1>13 DEF AreItems, IsParts

AllItems(s) == IsSequence(s) /\ \A i \in 1..Len(s) : IsItem(s[i])

\* The items of an array, flattened, up to each of them.
LEMMA FlattenedItems ==
  ASSUME NEW s, AllItems(s), NEW f, Flattens(f, s)
  PROVE  \A i \in 0..Len(s) : AreItems(f[i], i)
<1>1. IsSequence(s) /\ Len(s) \in Nat /\ \A i \in 1..Len(s) : IsItem(s[i])
  BY SequenceOf DEF AllItems
<1> DEFINE S == {i \in Nat : i <= Len(s) => AreItems(f[i], i)}
<1>2. 0 \in S
  BY NoItems DEF Flattens
<1>3. ASSUME NEW i \in Nat, i \in S PROVE i + 1 \in S
  <2> SUFFICES ASSUME i + 1 <= Len(s) PROVE AreItems(f[i + 1], i + 1)
    OBVIOUS
  <2>1. i + 1 \in 1..Len(s) /\ (i + 1) - 1 = i /\ i <= Len(s)
    BY <1>1
  <2>2. f[i + 1] = f[i] \o s[i + 1]
    BY <2>1 DEF Flattens
  <2>3. AreItems(f[i], i) /\ IsItem(s[i + 1])
    BY <1>1, <1>3, <2>1
  <2> QED BY <2>2, <2>3, ItemAfter
<1> HIDE DEF S
<1>4. Nat \subseteq S
  BY <1>2, <1>3, Induction
<1> QED BY <1>1, <1>4 DEF S

\* Sequences of items are sequences.
LEMMA ItemsAreSequences == ASSUME NEW s, AllItems(s) PROVE AreSequences(s)
  BY DEF AllItems, AreSequences, IsItem, AreItems, IsParts

\* An array starts with its length, and its items follow.
LEMMA ArrayParts ==
  ASSUME NEW s, AllItems(s)
  PROVE  /\ AreItems(FlattenSeq(s), Len(s))
         /\ Splits(Array(s), <<[kind |-> "array", n |-> Len(s)]>>, FlattenSeq(s))
<1>1. PICK f : Flattens(f, s)
  BY ItemsAreSequences, FlattenFacts
<1>2. FlattenSeq(s) = f[Len(s)] /\ Len(s) \in Nat
  BY <1>1, SequenceOf DEF Flattens, AllItems
<1>3. AreItems(FlattenSeq(s), Len(s))
  BY <1>1, <1>2, FlattenedItems
<1>4. IsSequence(FlattenSeq(s))
  BY <1>3 DEF AreItems, IsParts
<1>5. IsSequence(<<[kind |-> "array", n |-> Len(s)]>>)
  BY OneIsSequence
<1> QED BY <1>3, <1>4, <1>5 DEF Array, Splits

\* An array is one item.
LEMMA ArrayIsItem ==
  ASSUME NEW s, AllItems(s)
  PROVE  IsItem(Array(s))
<1> DEFINE head == [kind |-> "array", n |-> Len(s)]
<1>1. PICK w, z : w = FlattenSeq(s) /\ z = Array(s)
  OBVIOUS
<1>2. AreItems(w, Len(s)) /\ Splits(z, <<head>>, w) /\ Len(s) \in Nat
  BY <1>1, ArrayParts, SequenceOf DEF AllItems
<1>3. IsPart(head) /\ Opened(head) = Len(s)
  BY <1>2 DEF IsPart, Opened
<1> HIDE DEF head
<1>4. PICK q : Counts(w, q) /\ q[0] = Len(s) /\ q[Len(w)] = 0
  BY <1>2 DEF AreItems
<1>6. /\ IsSequence(z) /\ Len(w) \in Nat /\ Len(z) = 1 + Len(w)
      /\ z[1] = head /\ \A i \in 1..Len(w) : z[1 + i] = w[i]
  BY <1>2, StartsWith
<1> DEFINE open == [i \in 0..Len(z) |-> IF i = 0 THEN 1 ELSE q[i - 1]]
<1>7. \A i \in 0..Len(w) : q[i] \in Nat
  BY <1>4 DEF Counts
<1>8. open[0] = 1 /\ \A i \in 0..Len(w) : open[1 + i] = q[i]
  BY <1>6
<1>9. open \in [0..Len(z) -> Nat]
  <2> SUFFICES ASSUME NEW i \in 0..Len(z) PROVE (IF i = 0 THEN 1 ELSE q[i - 1]) \in Nat
    OBVIOUS
  <2>1. i # 0 => i - 1 \in 0..Len(w)
    BY <1>6
  <2> QED BY <1>7, <2>1
<1> HIDE DEF open
<1>10. \A i \in 1..Len(z) : open[i - 1] > 0 /\ open[i] = open[i - 1] - 1 + Opened(z[i]) /\ IsPart(z[i])
  <2> SUFFICES ASSUME NEW i \in 1..Len(z)
               PROVE  open[i - 1] > 0 /\ open[i] = open[i - 1] - 1 + Opened(z[i]) /\ IsPart(z[i])
    OBVIOUS
  <2>1. CASE i = 1
    <3>1. open[1] = Len(s)
      <4>1. 0 \in 0..Len(w) /\ 1 + 0 = 1
        BY <1>6
      <4> QED BY <1>4, <1>8, <4>1
    <3>2. i - 1 = 0
      BY <2>1
    <3> QED BY <1>2, <1>3, <1>6, <1>8, <2>1, <3>1, <3>2
  <2>2. CASE i # 1
    <3> DEFINE j == i - 1
    <3>1. j \in 1..Len(w) /\ j \in 0..Len(w) /\ j - 1 \in 0..Len(w) /\ i = 1 + j /\ i - 1 = 1 + (j - 1)
      BY <1>6, <2>2
    <3> HIDE DEF j
    <3>2. q[j - 1] > 0 /\ q[j] = q[j - 1] - 1 + Opened(w[j]) /\ IsPart(w[j])
      BY <1>2, <1>4, <3>1 DEF Counts, AreItems, IsParts
    <3>3. z[i] = w[j] /\ open[i] = q[j] /\ open[i - 1] = q[j - 1]
      BY <1>6, <1>8, <3>1
    <3> QED BY <3>2, <3>3
  <2> QED BY <2>1, <2>2
<1>11. open[Len(z)] = 0
  <2>1. Len(w) \in 0..Len(w)
    BY <1>6
  <2> QED BY <1>4, <1>6, <1>8, <2>1
<1>12. Counts(z, open)
  BY <1>9, <1>10 DEF Counts
<1>13. IsItem(z)
  BY <1>6, <1>8, <1>10, <1>11, <1>12 DEF IsItem, AreItems, IsParts
<1> QED BY <1>1, <1>13

\* Two arrays are equal only when their items are.
LEMMA ArrayInjective ==
  ASSUME NEW s, NEW t, AllItems(s), AllItems(t), Array(s) = Array(t)
  PROVE  s = t
<1>1. PICK z : z = Array(s)
  OBVIOUS
<1>2. PICK p : Flattens(p, s)
  BY ItemsAreSequences, FlattenFacts
<1>3. PICK q : Flattens(q, t)
  BY ItemsAreSequences, FlattenFacts
<1> DEFINE a == [kind |-> "array", n |-> Len(s)]  b == [kind |-> "array", n |-> Len(t)]
<1>4. Splits(z, <<a>>, p[Len(s)]) /\ Splits(z, <<b>>, q[Len(t)])
  BY <1>1, <1>2, <1>3, ArrayParts DEF Flattens
<1>5. a = b
  <2> HIDE DEF a, b
  <2>1. z[1] = a /\ z[1] = b
    BY <1>4, StartsWith
  <2> QED BY <2>1
<1>6. Len(s) = Len(t) /\ Len(s) \in Nat
  BY <1>5, SequenceOf DEF AllItems
<1> HIDE DEF a, b
<1>7. p[Len(s)] = q[Len(s)]
  <2>1. Len(<<a>>) = Len(<<b>>)
    OBVIOUS
  <2> QED BY <1>4, <1>6, <2>1, Cancellation
<1>8. ASSUME NEW i \in 1..Len(s), p[i] = q[i] PROVE s[i] = t[i] /\ p[i - 1] = q[i - 1]
  <2>1. i - 1 \in 0..Len(s)
    BY <1>6
  <2>2. AreItems(p[i - 1], i - 1) /\ AreItems(q[i - 1], i - 1)
    BY <1>2, <1>3, <1>6, <2>1, FlattenedItems
  <2>3. IsSequence(s[i]) /\ IsSequence(t[i])
    BY <1>6 DEF AllItems, IsItem, AreItems, IsParts
  <2>4. p[i] = p[i - 1] \o s[i] /\ q[i] = q[i - 1] \o t[i]
    BY <1>2, <1>3, <1>6 DEF Flattens
  <2>5. PICK y : y = p[i]
    OBVIOUS
  <2>6. Splits(y, p[i - 1], s[i])
    BY <2>2, <2>3, <2>4, <2>5 DEF Splits, AreItems, IsParts
  <2>7. Splits(y, q[i - 1], t[i])
    BY <1>8, <2>2, <2>3, <2>4, <2>5 DEF Splits, AreItems, IsParts
  <2> QED BY <2>2, <2>6, <2>7, PrefixFree
<1> DEFINE S == {i \in Nat : i <= Len(s) => p[Len(s) - i] = q[Len(s) - i]}
<1>9. 0 \in S
  BY <1>6, <1>7
<1>10. ASSUME NEW i \in Nat, i \in S PROVE i + 1 \in S
  <2> SUFFICES ASSUME i + 1 <= Len(s) PROVE p[Len(s) - (i + 1)] = q[Len(s) - (i + 1)]
    OBVIOUS
  <2>1. Len(s) - i \in 1..Len(s) /\ (Len(s) - i) - 1 = Len(s) - (i + 1) /\ i <= Len(s)
    BY <1>6
  <2>2. p[Len(s) - i] = q[Len(s) - i]
    BY <1>10, <2>1
  <2> QED BY <1>8, <2>1, <2>2
<1>11. \A i \in 1..Len(s) : s[i] = t[i]
  <2> HIDE DEF S
  <2>1. Nat \subseteq S
    BY <1>9, <1>10, Induction
  <2> SUFFICES ASSUME NEW i \in 1..Len(s) PROVE s[i] = t[i]
    OBVIOUS
  <2>2. Len(s) - i \in Nat /\ Len(s) - i <= Len(s) /\ Len(s) - (Len(s) - i) = i
    BY <1>6
  <2>3. p[i] = q[i]
    BY <2>1, <2>2 DEF S
  <2> QED BY <1>8, <2>3
<1> QED BY <1>6, <1>11, SameSequence DEF AllItems

-----------------------------------------------------------------------------
(* Encodings and preimages.                                                *)

\* A head is that of one part.
LEMMA HeadOfInjective ==
  ASSUME NEW p, NEW q, IsPart(p), IsPart(q), HeadOf(p) = HeadOf(q)
  PROVE  p = q
<1>1. ASSUME NEW r, r.kind \in {"uint", "array"}, r = [kind |-> r.kind, n |-> r.n]
      PROVE  HeadOf(r).major = r.kind /\ HeadOf(r).n = r.n
  BY <1>1 DEF HeadOf, CborHead
<1>2. ASSUME NEW r, r = [kind |-> "bool", n |-> r.n]
      PROVE  HeadOf(r).major = "bool" /\ HeadOf(r).n = r.n
  BY <1>2 DEF HeadOf, CborHead
<1>3. ASSUME NEW r, r = [kind |-> "bytes", bytes |-> r.bytes]
      PROVE  HeadOf(r).major = "bytes" /\ HeadOf(r).bytes = r.bytes
  BY <1>3 DEF HeadOf, CborHead
<1>4. CASE p = [kind |-> "bytes", bytes |-> p.bytes]
  BY <1>1, <1>2, <1>3, <1>4 DEF IsPart
<1>5. CASE p = [kind |-> "uint", n |-> p.n]
  BY <1>1, <1>2, <1>3, <1>5 DEF IsPart
<1>6. CASE p = [kind |-> "bool", n |-> p.n]
  BY <1>1, <1>2, <1>3, <1>6 DEF IsPart
<1>7. CASE p = [kind |-> "array", n |-> p.n]
  BY <1>1, <1>2, <1>3, <1>7 DEF IsPart
<1> QED BY <1>4, <1>5, <1>6, <1>7 DEF IsPart

\* The encoding of a value is a sequence.
LEMMA EncodingIsSequence ==
  ASSUME NEW v, IsParts(v)
  PROVE  /\ IsSequence(Encoding(v)) /\ Len(Encoding(v)) = Len(v)
         /\ \A i \in 1..Len(v) : Encoding(v)[i] = HeadOf(v[i])
<1>1. Len(v) \in Nat /\ DOMAIN v = 1..Len(v)
  BY SequenceOf DEF IsParts
<1>2. Encoding(v) = [i \in 1..Len(v) |-> HeadOf(v[i])]
  BY <1>1 DEF Encoding
<1>3. PICK e : e = [i \in 1..Len(v) |-> HeadOf(v[i])]
  OBVIOUS
<1>4. IsSequence(e) /\ DOMAIN e = 1..Len(v)
  BY <1>1, <1>3 DEF IsSequence
<1>5. Len(e) = Len(v)
  BY <1>1, <1>4, SequenceOf
<1> QED BY <1>2, <1>3, <1>4, <1>5

\* It is the encoding of no other value.
THEOREM EncodingInjective ==
  ASSUME NEW v, NEW w, IsParts(v), IsParts(w), Encoding(v) = Encoding(w)
  PROVE  v = w
<1>1. Len(v) = Len(w) /\ \A i \in 1..Len(v) : HeadOf(v[i]) = HeadOf(w[i])
  <2>1. /\ Len(Encoding(v)) = Len(v) /\ \A i \in 1..Len(v) : Encoding(v)[i] = HeadOf(v[i])
    BY EncodingIsSequence
  <2>2. /\ Len(Encoding(w)) = Len(w) /\ \A i \in 1..Len(w) : Encoding(w)[i] = HeadOf(w[i])
    BY EncodingIsSequence
  <2> QED BY <2>1, <2>2
<1>2. \A i \in 1..Len(v) : v[i] = w[i]
  BY <1>1, HeadOfInjective DEF IsParts
<1> QED BY <1>1, <1>2, SameSequence DEF IsParts

\* Evidence is refused, or it is the encoding.
LEMMA EvidenceFacts ==
  ASSUME NEW s, AllItems(s)
  PROVE  /\ IsSequence(Encoding(Array(s)))
         /\ Evidence(Array(s)) \in {Ok(Encoding(Array(s))), Err("LimitExceeded")}
<1>1. IsParts(Array(s))
  BY ArrayIsItem DEF IsItem, AreItems
<1> QED BY <1>1, EncodingIsSequence DEF Evidence

\* Two lists of items are encoded alike only when they are equal.
LEMMA EvidenceInjective ==
  ASSUME NEW s, NEW t, AllItems(s), AllItems(t), Encoding(Array(s)) = Encoding(Array(t))
  PROVE  s = t
<1>1. IsParts(Array(s)) /\ IsParts(Array(t))
  BY ArrayIsItem DEF IsItem, AreItems
<1>2. Array(s) = Array(t)
  BY <1>1, EncodingInjective
<1> QED BY <1>2, ArrayInjective

\* A name, the byte that ends it, and what is committed to.
Preimage(name, body) == Label(name) \o <<ZeroByte>> \o body

\* A preimage starts with its name, and ends with its body.
LEMMA PreimageParts ==
  ASSUME NEW name, NEW body, IsSequence(body)
  PROVE  /\ IsSequence(Preimage(name, body)) /\ Preimage(name, body)[1] = Text(name, 0)
         /\ \E start : Splits(Preimage(name, body), start, body) /\ Len(start) = 2
<1>1. PICK a, b : a = Label(name) /\ b = <<ZeroByte>>
  OBVIOUS
<1>2. IsSequence(a) /\ Len(a) = 1 /\ a[1] = Text(name, 0) /\ IsSequence(b) /\ Len(b) = 1
  BY <1>1, OneIsSequence DEF Label
<1>3. PICK start : start = a \o b
  OBVIOUS
<1>4. Splits(start, a, b)
  BY <1>2, <1>3 DEF Splits
<1>5. IsSequence(start) /\ Len(start) = 2 /\ start[1] = Text(name, 0)
  <2>1. 1 \in 1..Len(a)
    BY <1>2
  <2>2. IsSequence(start) /\ Len(start) = Len(a) + Len(b) /\ \A i \in 1..Len(a) : start[i] = a[i]
    BY <1>4, SplitParts
  <2> QED BY <1>2, <2>1, <2>2
<1>6. PICK z : z = start \o body
  OBVIOUS
<1>7. Splits(z, start, body)
  BY <1>5, <1>6 DEF Splits
<1>8. IsSequence(z) /\ z[1] = Text(name, 0)
  <2>1. 1 \in 1..Len(start)
    BY <1>5
  <2> QED BY <1>5, <1>7, <2>1, SplitParts
<1>9. Preimage(name, body) = z
  BY <1>1, <1>3, <1>6 DEF Preimage
<1> QED BY <1>5, <1>7, <1>8, <1>9

\* A preimage fixes both.
LEMMA PreimageInjective ==
  ASSUME NEW name, NEW body, NEW other, NEW second, IsSequence(body), IsSequence(second),
         Preimage(name, body) = Preimage(other, second)
  PROVE  name = other /\ body = second
<1>1. PICK z : z = Preimage(name, body) /\ z = Preimage(other, second)
  OBVIOUS
<1>2. z[1] = Text(name, 0) /\ \E start : Splits(z, start, body) /\ Len(start) = 2
  BY <1>1, PreimageParts
<1>3. z[1] = Text(other, 0) /\ \E start : Splits(z, start, second) /\ Len(start) = 2
  BY <1>1, PreimageParts
<1>4. body = second
  BY <1>2, <1>3, Cancellation
<1>5. Text(name, 0).bytes.leaf = name /\ Text(other, 0).bytes.leaf = other
  BY DEF Text, CborHead, Bin
<1> QED BY <1>2, <1>3, <1>4, <1>5

\* The byte that ends a label is in none.
LEMMA LabelHasNoZero ==
  ASSUME NEW name
  PROVE  Label(name) # <<>> /\ ZeroByte \notin ToSet(Label(name))
<1>1. Text(name, 0).major = "text" /\ ZeroByte.major = "uint"
  BY DEF Text, ZeroByte, CborHead
<1>2. Text(name, 0) # ZeroByte
  BY <1>1
<1>3. PICK label : label = <<Text(name, 0)>>
  OBVIOUS
<1>4. DOMAIN label = 1..1 /\ label[1] = Text(name, 0) /\ label # <<>>
  BY <1>3
<1>5. ToSet(label) = {Text(name, 0)}
  BY <1>4 DEF ToSet
<1> QED BY <1>2, <1>3, <1>4, <1>5 DEF Label

\* A key is derived from the name, the input key and the items together.
LEMMA DerivedFacts ==
  ASSUME NEW name, NEW ikm, NEW items, AllItems(items), Derived(name, ikm, items).ok
  PROVE  /\ IsSequence(Encoding(Array(items)))
         /\ Derived(name, ikm, items) =
              Ok([kdf |-> ikm, info |-> Preimage(name, Encoding(Array(items))), len |-> 32])
<1>1. /\ IsSequence(Encoding(Array(items)))
      /\ Evidence(Array(items)) \in {Ok(Encoding(Array(items))), Err("LimitExceeded")}
  BY EvidenceFacts
<1>2. Ok(Encoding(Array(items))).ok /\ Ok(Encoding(Array(items))).val = Encoding(Array(items)) /\ ~Err("LimitExceeded").ok
  BY DEF Ok, Err
<1>3. Evidence(Array(items)) = Ok(Encoding(Array(items)))
  BY <1>1, <1>2 DEF Derived
<1>4. Derived(name, ikm, items) = Kdf(Label(name), ikm, Encoding(Array(items)))
  BY <1>2, <1>3 DEF Derived
<1> QED BY <1>1, <1>4, LabelHasNoZero DEF Kdf, Preimage

\* A hash is that of the name and the body.
LEMMA HashOfFacts ==
  ASSUME NEW name, NEW body
  PROVE  HashOf(name, body) = Ok(Sha(Preimage(name, body)))
  BY LabelHasNoZero DEF HashOf, DomainPreimage, Preimage, Ok

\* A hash of items is that of the name and their encoding.
LEMMA HashedFacts ==
  ASSUME NEW name, NEW items, AllItems(items), Hashed(name, items).ok
  PROVE  /\ IsSequence(Encoding(Array(items)))
         /\ Hashed(name, items) = Ok(Sha(Preimage(name, Encoding(Array(items)))))
<1>1. /\ IsSequence(Encoding(Array(items)))
      /\ Evidence(Array(items)) \in {Ok(Encoding(Array(items))), Err("LimitExceeded")}
  BY EvidenceFacts
<1>2. Ok(Encoding(Array(items))).ok /\ Ok(Encoding(Array(items))).val = Encoding(Array(items)) /\ ~Err("LimitExceeded").ok
  BY DEF Ok, Err
<1>3. Evidence(Array(items)) = Ok(Encoding(Array(items)))
  BY <1>1, <1>2 DEF Hashed
<1> QED BY <1>1, <1>2, <1>3, HashOfFacts DEF Hashed

-----------------------------------------------------------------------------
(* The elements of sequences.                                              *)

\* The elements of two sequences, one after the other.
LEMMA ToSetConcatenated ==
  ASSUME NEW v, NEW w, IsSequence(v), IsSequence(w)
  PROVE  IsSequence(v \o w) /\ ToSet(v \o w) = ToSet(v) \cup ToSet(w)
<1>1. PICK z : z = v \o w
  OBVIOUS
<1>2. Splits(z, v, w)
  BY <1>1 DEF Splits
<1>3. /\ IsSequence(z) /\ Len(z) = Len(v) + Len(w) /\ Len(v) \in Nat /\ Len(w) \in Nat
      /\ \A i \in 1..Len(v) : z[i] = v[i]
      /\ \A i \in 1..Len(w) : z[Len(v) + i] = w[i]
  BY <1>2, SplitParts
<1>4. DOMAIN v = 1..Len(v) /\ DOMAIN w = 1..Len(w) /\ DOMAIN z = 1..Len(z)
  BY <1>3, SequenceOf
<1>5. \A x \in ToSet(v) \cup ToSet(w) : x \in ToSet(z)
  <2>1. ASSUME NEW i \in 1..Len(v) PROVE v[i] \in ToSet(z)
    <3>1. i \in 1..Len(z) /\ z[i] = v[i]
      BY <1>3
    <3> QED BY <1>4, <3>1 DEF ToSet
  <2>2. ASSUME NEW i \in 1..Len(w) PROVE w[i] \in ToSet(z)
    <3>1. Len(v) + i \in 1..Len(z) /\ z[Len(v) + i] = w[i]
      BY <1>3
    <3> QED BY <1>4, <3>1 DEF ToSet
  <2> QED BY <1>4, <2>1, <2>2 DEF ToSet
<1>6. ASSUME NEW i \in 1..Len(z) PROVE z[i] \in ToSet(v) \cup ToSet(w)
  <2>1. CASE i \in 1..Len(v)
    BY <1>3, <1>4, <2>1 DEF ToSet
  <2>2. CASE i \notin 1..Len(v)
    <3>1. i - Len(v) \in 1..Len(w) /\ Len(v) + (i - Len(v)) = i
      BY <1>3, <2>2
    <3>2. z[i] = w[i - Len(v)]
      BY <1>3, <3>1
    <3> QED BY <1>4, <3>1, <3>2 DEF ToSet
  <2> QED BY <2>1, <2>2
<1>7. ToSet(z) \subseteq ToSet(v) \cup ToSet(w)
  BY <1>4, <1>6 DEF ToSet
<1> QED BY <1>1, <1>3, <1>5, <1>7

\* A sequence with one more element.
LEMMA Appended ==
  ASSUME NEW v, NEW x, IsSequence(v)
  PROVE  /\ IsSequence(Append(v, x)) /\ Len(Append(v, x)) = Len(v) + 1 /\ Len(v) \in Nat
         /\ Append(v, x)[Len(v) + 1] = x
         /\ \A i \in 1..Len(v) : Append(v, x)[i] = v[i]
         /\ ToSet(Append(v, x)) = ToSet(v) \cup {x}
<1>1. PICK S : S = ToSet(v) \cup {x}
  OBVIOUS
<1>2. v \in Seq(ToSet(v)) /\ Len(v) \in Nat /\ DOMAIN v = 1..Len(v)
  BY SequenceOf
<1>3. v \in Seq(S) /\ x \in S
  BY <1>1, <1>2
<1>4. PICK z : z = Append(v, x)
  OBVIOUS
<1>5. z \in Seq(S) /\ Len(z) = Len(v) + 1 /\ z[Len(v) + 1] = x /\ \A i \in 1..Len(v) : z[i] = v[i]
  BY <1>2, <1>3, <1>4
<1>6. DOMAIN z = 1..Len(v) + 1
  BY <1>5
<1>7. \A i \in 1..Len(v) + 1 : z[i] \in S
  BY <1>5, <1>6
<1>8. \A i \in 1..Len(v) : i \in 1..Len(v) + 1
  BY <1>2
<1>9. Len(v) + 1 \in 1..Len(v) + 1
  BY <1>2
<1>10. ToSet(z) = S
  BY <1>1, <1>2, <1>5, <1>6, <1>7, <1>8, <1>9 DEF ToSet
<1> QED BY <1>1, <1>2, <1>4, <1>5, <1>10, SeqIsSequence

\* Sequences of one, two and five elements.
LEMMA OneListed == \A a, v : v = <<a>> => IsSequence(v) /\ ToSet(v) = {a}
<1> SUFFICES ASSUME NEW a, NEW v, v = <<a>> PROVE IsSequence(v) /\ ToSet(v) = {a}
  OBVIOUS
<1>1. v = [i \in 1..1 |-> v[i]] /\ DOMAIN v = {1} /\ v[1] = a
  OBVIOUS
<1> QED BY <1>1 DEF IsSequence, ToSet

\* Two.
LEMMA TwoListed == \A a, b, v : v = <<a, b>> => IsSequence(v) /\ ToSet(v) = {a, b}
<1> SUFFICES ASSUME NEW a, NEW b, NEW v, v = <<a, b>> PROVE IsSequence(v) /\ ToSet(v) = {a, b}
  OBVIOUS
<1>1. v = [i \in 1..2 |-> v[i]] /\ DOMAIN v = {1, 2} /\ v[1] = a /\ v[2] = b
  OBVIOUS
<1> QED BY <1>1 DEF IsSequence, ToSet

\* Five.
LEMMA FiveListed == \A a, b, c, d, e, v : v = <<a, b, c, d, e>> => IsSequence(v) /\ ToSet(v) = {a, b, c, d, e}
<1> SUFFICES ASSUME NEW a, NEW b, NEW c, NEW d, NEW e, NEW v, v = <<a, b, c, d, e>>
             PROVE  IsSequence(v) /\ ToSet(v) = {a, b, c, d, e}
  OBVIOUS
<1>1. v = [i \in 1..5 |-> v[i]] /\ DOMAIN v = {1, 2, 3, 4, 5}
      /\ v[1] = a /\ v[2] = b /\ v[3] = c /\ v[4] = d /\ v[5] = e
  OBVIOUS
<1> QED BY <1>1 DEF IsSequence, ToSet

\* The names of the roles, and of the steps of a bootstrap.
LEMMA NamesListed ==
  /\ IsSequence(Roles) /\ ToSet(Roles) = {"api", "worker", "migrator", "backup", "restore"}
  /\ IsSequence(VerifyActions)
  /\ ToSet(VerifyActions) = {"VerifyOwner", "VerifyRoleAttributes", "VerifyGrants", "VerifySearchPath", "VerifyDefaultPrivileges"}
  /\ IsSequence(InspectActions) /\ ToSet(InspectActions) = {"RequireExclusiveGuard", "InspectDestination"}
<1>1. IsSequence(Roles) /\ ToSet(Roles) = {"api", "worker", "migrator", "backup", "restore"}
  <2>1. \A v : v = <<"api", "worker", "migrator", "backup", "restore">> =>
              IsSequence(v) /\ ToSet(v) = {"api", "worker", "migrator", "backup", "restore"}
    BY FiveListed
  <2> QED BY <2>1 DEF Roles
<1>2. /\ IsSequence(VerifyActions)
      /\ ToSet(VerifyActions) = {"VerifyOwner", "VerifyRoleAttributes", "VerifyGrants", "VerifySearchPath", "VerifyDefaultPrivileges"}
  <2>1. \A v : v = <<"VerifyOwner", "VerifyRoleAttributes", "VerifyGrants", "VerifySearchPath", "VerifyDefaultPrivileges">> =>
              IsSequence(v) /\ ToSet(v) = {"VerifyOwner", "VerifyRoleAttributes", "VerifyGrants", "VerifySearchPath", "VerifyDefaultPrivileges"}
    BY FiveListed
  <2> QED BY <2>1 DEF VerifyActions
<1>3. IsSequence(InspectActions) /\ ToSet(InspectActions) = {"RequireExclusiveGuard", "InspectDestination"}
  BY TwoListed, Zenon DEF InspectActions
<1> QED BY <1>1, <1>2, <1>3

\* A call is the latest, and the calls stay a sequence.
LEMMA LatestCall ==
  ASSUME IsSequence(log), NEW fn, NEW arg, NEW ret, Called(fn, arg, ret)
  PROVE  /\ IsSequence(log') /\ Len(log') = Len(log) + 1 /\ Len(log) \in Nat /\ log' # <<>>
         /\ Latest' = [fn |-> fn, arg |-> arg, ret |-> ret]
         /\ \A i \in 1..Len(log) : log'[i] = log[i]
<1>1. PICK call : call = [fn |-> fn, arg |-> arg, ret |-> ret]
  OBVIOUS
<1>2. log' = Append(log, call)
  BY <1>1 DEF Called
<1>3. /\ IsSequence(log') /\ Len(log') = Len(log) + 1 /\ Len(log) \in Nat
      /\ log'[Len(log) + 1] = call
      /\ \A i \in 1..Len(log) : log'[i] = log[i]
  BY <1>2, Appended
<1>4. log' # <<>>
  <2>1. Len(<<>>) = 0
    OBVIOUS
  <2> QED BY <1>3, <2>1
<1>5. Latest' = call
  BY <1>3 DEF Latest
<1> QED BY <1>1, <1>3, <1>4, <1>5

-----------------------------------------------------------------------------
(* Sealed records.                                                         *)

\* The key of a record is that of the root key and the context.
LEMMA RecordKeyFacts ==
  ASSUME NEW root, NEW context, DeriveRecordKeyBytes(root, context).ok
  PROVE  DeriveRecordKeyBytes(root, context) =
           Ok([kdf |-> root, info |-> Preimage("pm-v1/record-key", context), len |-> 32])
<1>1. DeriveRecordKeyBytes(root, context) = Kdf(Label("pm-v1/record-key"), root, context)
  BY DEF DeriveRecordKeyBytes, OfLength, DeriveRecordKey, Err
<1> QED BY <1>1, LabelHasNoZero DEF Kdf, Preimage

\* It is that of no other.
LEMMA RecordKeyInjective ==
  ASSUME NEW root, NEW context, NEW root2, NEW context2, IsList(context), IsList(context2),
         DeriveRecordKeyBytes(root, context).ok, DeriveRecordKeyBytes(root2, context2).ok,
         DeriveRecordKeyBytes(root, context).val = DeriveRecordKeyBytes(root2, context2).val
  PROVE  root = root2 /\ context = context2
<1>1. PICK a, b : a = [kdf |-> root, info |-> Preimage("pm-v1/record-key", context), len |-> 32]
                  /\ b = [kdf |-> root2, info |-> Preimage("pm-v1/record-key", context2), len |-> 32]
  OBVIOUS
<1>2. DeriveRecordKeyBytes(root, context).val = a /\ DeriveRecordKeyBytes(root2, context2).val = b
  BY <1>1, RecordKeyFacts DEF Ok
<1>3. a.kdf = b.kdf /\ a.info = b.info
  BY <1>2
<1>4. root = root2 /\ Preimage("pm-v1/record-key", context) = Preimage("pm-v1/record-key", context2)
  BY <1>1, <1>3
<1> QED BY <1>4, ListFacts, PreimageInjective

\* The longest secret the first version seals.
LEMMA SecretCeiling == V1.secret = 1024
BY SMTT(60) DEF V1

\* What is sealed is a ciphertext of all that went in.
LEMMA SealingFacts ==
  ASSUME NEW r, NEW c, NEW n, NEW a, NEW s, s.len \in Nat, Sealing(r, c, n, a, s).ok
  PROVE  /\ DeriveRecordKeyBytes(r, c).ok /\ n.len = 24 /\ s.len \in 1..1024
         /\ Sealing(r, c, n, a, s) =
              Ok([aead |-> DeriveRecordKeyBytes(r, c).val, nonce |-> n, aad |-> a, msg |-> s, len |-> s.len + 16])
<1>1. DeriveRecordKeyBytes(r, c).ok
  BY DEF Sealing
<1>2. PICK k : k = DeriveRecordKeyBytes(r, c).val
  OBVIOUS
<1>3. k.len = 32
  BY <1>1, <1>2, RecordKeyFacts DEF Ok
<1>4. AeadKey(k) = Ok(k) /\ AeadKey(k).ok
  BY <1>3 DEF AeadKey, Ok
<1>5. Sealing(r, c, n, a, s) = OfLength(n, 24, "InvalidEncoding", SealRecord(k, n, a, s, V1))
  BY <1>1, <1>2, <1>4 DEF Sealing, SealRecordBytes
<1>6. n.len = 24 /\ Sealing(r, c, n, a, s) = SealRecord(k, n, a, s, V1) /\ SealRecord(k, n, a, s, V1).ok
  BY <1>5 DEF OfLength, Err
<1>7. ~(s.len = 0 \/ s.len > 1024)
  BY SMT, <1>6, SecretCeiling DEF SealRecord, Err
<1> QED BY <1>1, <1>2, <1>6, <1>7, SecretCeiling DEF SealRecord

\* A ciphertext opens under what it was sealed with, and under nothing else.
THEOREM OpensWhatWasSealed ==
  ASSUME NEW r, NEW c, NEW n, NEW a, NEW s, NEW r2, NEW c2, NEW n2, NEW a2, NEW sealed,
         IsList(c), IsList(c2), s.len \in Nat, Sealing(r, c, n, a, s).ok, DeriveRecordKeyBytes(r2, c2).ok,
         sealed \in {Sealing(r, c, n, a, s).val, Bin("damaged", 16), Bin("damaged", 17)}
  PROVE  /\ OpenRecordBytes(DeriveRecordKeyBytes(r2, c2).val, n2, a2, sealed).ok <=>
              sealed = Sealing(r, c, n, a, s).val /\ r2 = r /\ c2 = c /\ n2 = n /\ a2 = a
         /\ OpenRecordBytes(DeriveRecordKeyBytes(r2, c2).val, n2, a2, sealed).ok =>
              OpenRecordBytes(DeriveRecordKeyBytes(r2, c2).val, n2, a2, sealed).val = s
<1>1. PICK k, k2, ret : /\ k = DeriveRecordKeyBytes(r, c).val /\ k2 = DeriveRecordKeyBytes(r2, c2).val
                        /\ ret = OpenRecordBytes(k2, n2, a2, sealed)
  OBVIOUS
<1>2. /\ DeriveRecordKeyBytes(r, c).ok /\ n.len = 24 /\ s.len \in 1..1024
      /\ Sealing(r, c, n, a, s) = Ok([aead |-> k, nonce |-> n, aad |-> a, msg |-> s, len |-> s.len + 16])
  BY <1>1, SealingFacts
<1>3. PICK made : made = Sealing(r, c, n, a, s).val
  OBVIOUS
<1>4. made = [aead |-> k, nonce |-> n, aad |-> a, msg |-> s, len |-> s.len + 16]
  BY <1>2, <1>3 DEF Ok
<1>5. k2.len = 32
  BY <1>1, RecordKeyFacts DEF Ok
<1>6. AeadKey(k2).ok
  BY <1>5 DEF AeadKey, Ok
<1>7. ret = IF n2.len = 24 THEN OpenRecord(k2, n2, a2, sealed, V1) ELSE Err("InvalidEncoding")
  BY <1>1, <1>6 DEF OpenRecordBytes, OfLength
<1>8. k = k2 <=> r = r2 /\ c = c2
  BY <1>1, <1>2, RecordKeyInjective
<1>9. CASE sealed = made
  <2>1. "aead" \in DOMAIN sealed /\ sealed.msg = s /\ sealed.len = s.len + 16 /\ ~(sealed.len < 17)
    BY <1>2, <1>4, <1>9
  <2>2. sealed = [aead |-> k2, nonce |-> n2, aad |-> a2, msg |-> sealed.msg, len |-> sealed.len]
          <=> k = k2 /\ n = n2 /\ a = a2
    BY <1>4, <1>9, <2>1
  <2>3. ~(s.len = 0 \/ s.len > V1.secret)
    <3>1. s.len \in 1..1024
      BY <1>2
    <3> QED BY <3>1, SecretCeiling
  <2>4. CASE k = k2 /\ n = n2 /\ a = a2
    <3>1. OpenRecord(k2, n2, a2, sealed, V1) = Ok(s)
      BY <2>1, <2>2, <2>3, <2>4 DEF OpenRecord
    <3>2. ret = Ok(s)
      BY <1>2, <1>7, <2>4, <3>1
    <3>3. ret.ok /\ ret.val = s
      BY <3>2 DEF Ok
    <3> QED BY <1>1, <1>3, <1>8, <1>9, <2>4, <3>3
  <2>5. CASE ~(k = k2 /\ n = n2 /\ a = a2)
    <3>1. OpenRecord(k2, n2, a2, sealed, V1) = Err("CryptographicFailure")
      BY <2>1, <2>2, <2>5 DEF OpenRecord
    <3>2. ~ret.ok
      BY <1>7, <3>1 DEF Err
    <3> QED BY <1>1, <1>3, <1>8, <1>9, <2>5, <3>2
  <2> QED BY <2>4, <2>5
<1>10. CASE sealed # made
  <2>1. \E m \in {16, 17} : sealed = [leaf |-> "damaged", len |-> m]
    BY <1>3, <1>10 DEF Bin
  <2>2. "aead" \notin DOMAIN sealed
    BY <2>1
  <2>3. ~OpenRecord(k2, n2, a2, sealed, V1).ok
    BY <2>2 DEF OpenRecord, Err
  <2>4. ~ret.ok
    BY <1>7, <2>3 DEF Err
  <2> QED BY <1>1, <1>3, <1>10, <2>4
<1> QED BY <1>9, <1>10

-----------------------------------------------------------------------------
(* Signed and authenticated envelopes.                                     *)

\* The items still to skip after one more head.
StillToSkip(before, head) ==
  IF before = 0 THEN 0
  ELSE before - 1 + CASE head.major = "array" -> head.n
                      [] head.major = "map" -> 2 * head.n
                      [] OTHER -> 0

\* The items still to skip after each head of doc from at.
Skipping(open, doc, at, left) ==
  /\ open[0] = left
  /\ \A i \in 1..Len(doc) + 1 - at : open[i] = StillToSkip(open[i - 1], doc[at + i - 1])

\* The function of them that SkipItems recurs on.
SkipsOver(f, doc, at, left, length) ==
  f = [i \in 0..length |-> IF i = 0 THEN left ELSE StillToSkip(f[i - 1], doc[at + i - 1])]

\* It exists.
LEMMA SkippingExists ==
  ASSUME NEW doc, NEW at, NEW left, NEW length \in Nat
  PROVE  \E f : SkipsOver(f, doc, at, left, length)
<1> DEFINE Fits(f, n) == f = [i \in 0..n |-> IF i = 0 THEN left ELSE StillToSkip(f[i - 1], doc[at + i - 1])]
           S == {n \in Nat : \E f : Fits(f, n)}
<1>1. 0 \in S
  <2> DEFINE f == [i \in 0..0 |-> left]
  <2>1. Fits(f, 0)
    OBVIOUS
  <2> HIDE DEF f, Fits
  <2> QED BY <2>1
<1>2. ASSUME NEW n \in Nat, n \in S PROVE n + 1 \in S
  <2>1. PICK f : Fits(f, n)
    BY <1>2
  <2> DEFINE g == [i \in 0..n + 1 |-> IF i <= n THEN f[i] ELSE StillToSkip(f[i - 1], doc[at + i - 1])]
  <2>2. \A i \in 0..n : g[i] = f[i]
    OBVIOUS
  <2>3. g[n + 1] = StillToSkip(g[n], doc[at + (n + 1) - 1])
    <3>1. g[n + 1] = StillToSkip(f[(n + 1) - 1], doc[at + (n + 1) - 1])
      OBVIOUS
    <3>2. (n + 1) - 1 = n /\ n \in 0..n
      OBVIOUS
    <3> QED BY <2>2, <3>1, <3>2
  <2>4. g = [i \in 0..n + 1 |-> g[i]]
    OBVIOUS
  <2> HIDE DEF g
  <2>5. \A i \in 0..n + 1 : g[i] = IF i = 0 THEN left ELSE StillToSkip(g[i - 1], doc[at + i - 1])
    <3> SUFFICES ASSUME NEW i \in 0..n + 1
                 PROVE  g[i] = IF i = 0 THEN left ELSE StillToSkip(g[i - 1], doc[at + i - 1])
      OBVIOUS
    <3>1. CASE i = n + 1
      <4>1. i # 0 /\ i - 1 = n
        BY <3>1
      <4> QED BY <2>3, <3>1, <4>1
    <3>2. CASE i # n + 1
      <4>1. i \in 0..n
        BY <3>2
      <4>2. f[i] = IF i = 0 THEN left ELSE StillToSkip(f[i - 1], doc[at + i - 1])
        BY <2>1, <4>1
      <4>3. i # 0 => i - 1 \in 0..n
        BY <4>1
      <4> QED BY <2>2, <4>1, <4>2, <4>3
    <3> QED BY <3>1, <3>2
  <2>6. Fits(g, n + 1)
    BY <2>4, <2>5
  <2> HIDE DEF Fits
  <2> QED BY <2>6
<1>3. length \in S
  <2> HIDE DEF S
  <2> QED BY <1>1, <1>2, Induction
<1> QED BY <1>3 DEF SkipsOver

\* Skipping ends where nothing is left for the first time.
LEMMA SkipItemsFacts ==
  ASSUME NEW doc, NEW at \in Nat, NEW left, Len(doc) \in Nat, at <= Len(doc) + 1
  PROVE  \E open :
           /\ Skipping(open, doc, at, left)
           /\ LET ends == {i \in 0..Len(doc) + 1 - at : open[i] = 0}
              IN SkipItems(doc, at, left) =
                   IF ends = {} THEN 0 ELSE at + (CHOOSE i \in ends : \A j \in ends : i <= j)
<1>1. PICK length \in Nat : length = Len(doc) + 1 - at
  OBVIOUS
<1>2. PICK f : SkipsOver(f, doc, at, left, length)
  BY SkippingExists
<1> DEFINE open[i \in 0..Len(doc) + 1 - at] ==
             IF i = 0 THEN left
             ELSE LET before == open[i - 1]  head == doc[at + i - 1]
                  IN IF before = 0 THEN 0
                     ELSE before - 1 + CASE head.major = "array" -> head.n
                                         [] head.major = "map" -> 2 * head.n
                                         [] OTHER -> 0
<1>3. open = [i \in 0..Len(doc) + 1 - at |-> IF i = 0 THEN left ELSE StillToSkip(open[i - 1], doc[at + i - 1])]
  BY <1>1, <1>2 DEF SkipsOver, StillToSkip
<1>4. LET ends == {i \in DOMAIN open : open[i] = 0}
      IN SkipItems(doc, at, left) = IF ends = {} THEN 0 ELSE at + (CHOOSE i \in ends : \A j \in ends : i <= j)
  BY DEF SkipItems
<1> HIDE DEF open
<1>5. DOMAIN open = 0..Len(doc) + 1 - at
  BY <1>3
<1>6. open[0] = left
  BY <1>1, <1>3
<1>7. ASSUME NEW i \in 1..Len(doc) + 1 - at PROVE open[i] = StillToSkip(open[i - 1], doc[at + i - 1])
  <2>1. i \in 0..Len(doc) + 1 - at /\ i # 0
    OBVIOUS
  <2> QED BY <1>3, <2>1
<1>8. Skipping(open, doc, at, left)
  BY <1>6, <1>7 DEF Skipping
<1> QED BY <1>4, <1>5, <1>8
\* The items are over after i heads, and not before.
FirstOver(open, i) == open[i] = 0 /\ \A j \in 0..i - 1 : open[j] # 0

\* Skipping ends after the head that ends the last item, or nowhere.
LEMMA SkipsTo ==
  ASSUME NEW doc, NEW at \in Nat, NEW left, Len(doc) \in Nat, at <= Len(doc) + 1
  PROVE  \E open :
           /\ Skipping(open, doc, at, left)
           /\ \/ SkipItems(doc, at, left) = 0 /\ \A i \in 0..Len(doc) + 1 - at : open[i] # 0
              \/ \E i \in 0..Len(doc) + 1 - at : SkipItems(doc, at, left) = at + i /\ FirstOver(open, i)
<1>1. PICK open :
        /\ Skipping(open, doc, at, left)
        /\ LET ends == {i \in 0..Len(doc) + 1 - at : open[i] = 0}
           IN SkipItems(doc, at, left) = IF ends = {} THEN 0 ELSE at + (CHOOSE i \in ends : \A j \in ends : i <= j)
  BY SkipItemsFacts
<1>2. PICK ends : ends = {i \in 0..Len(doc) + 1 - at : open[i] = 0}
  OBVIOUS
<1>3. SkipItems(doc, at, left) = IF ends = {} THEN 0 ELSE at + (CHOOSE i \in ends : \A j \in ends : i <= j)
  BY <1>1, <1>2
<1>4. CASE ends = {}
  BY <1>1, <1>2, <1>3, <1>4
<1>5. CASE ends # {}
  <2>1. ends \in SUBSET Nat
    BY <1>2
  <2>2. PICK i : i = CHOOSE k \in ends : \A j \in ends : k <= j
    OBVIOUS
  <2>3. i \in ends /\ \A j \in ends : i <= j
    BY <1>5, <2>1, <2>2, LeastExists
  <2>4. i \in 0..Len(doc) + 1 - at /\ open[i] = 0
    BY <1>2, <2>3
  <2>5. ASSUME NEW j \in 0..i - 1 PROVE open[j] # 0
    <3>1. j \in 0..Len(doc) + 1 - at /\ ~(i <= j)
      BY <2>4
    <3> QED BY <1>2, <2>3, <3>1
  <2>6. SkipItems(doc, at, left) = at + i
    BY <1>3, <1>5, <2>2
  <2> QED BY <1>1, <2>4, <2>5, <2>6 DEF FirstOver
<1> QED BY <1>4, <1>5

\* A body is skipped in an envelope as it is alone.
LEMMA SkipAgain ==
  ASSUME NEW b, NEW doc, IsSequence(b), SkipItems(b, 1, 1) = Len(b) + 1,
         Len(doc) = Len(b) + 2, \A i \in 1..Len(b) : doc[1 + i] = b[i]
  PROVE  SkipItems(doc, 2, 1) = Len(b) + 2
<1>1. PICK n \in Nat : n = Len(b)
  BY SequenceOf
<1>2. Len(doc) = n + 2 /\ Len(doc) \in Nat
  BY <1>1
<1>3. PICK alone :
        /\ Skipping(alone, b, 1, 1)
        /\ \/ SkipItems(b, 1, 1) = 0 /\ \A i \in 0..Len(b) + 1 - 1 : alone[i] # 0
           \/ \E i \in 0..Len(b) + 1 - 1 : SkipItems(b, 1, 1) = 1 + i /\ FirstOver(alone, i)
  BY <1>1, SkipsTo
<1>4. FirstOver(alone, n)
  BY <1>1, <1>3
<1>5. PICK within :
        /\ Skipping(within, doc, 2, 1)
        /\ \/ SkipItems(doc, 2, 1) = 0 /\ \A i \in 0..Len(doc) + 1 - 2 : within[i] # 0
           \/ \E i \in 0..Len(doc) + 1 - 2 : SkipItems(doc, 2, 1) = 2 + i /\ FirstOver(within, i)
  BY <1>1, <1>2, SkipsTo
<1> DEFINE S == {i \in Nat : i <= n => within[i] = alone[i]}
<1>6. 0 \in S
  BY <1>3, <1>5 DEF Skipping
<1>7. ASSUME NEW i \in Nat, i \in S PROVE i + 1 \in S
  <2>1. CASE ~(i + 1 <= n)
    BY <2>1
  <2>2. CASE i + 1 <= n
    <3>1. within[i] = alone[i]
      BY <1>7, <2>2
    <3>2. i + 1 \in 1..Len(b) + 1 - 1 /\ i + 1 \in 1..Len(doc) + 1 - 2 /\ i + 1 \in 1..Len(b) /\ (i + 1) - 1 = i
      BY <1>1, <1>2, <2>2
    <3>3. alone[i + 1] = StillToSkip(alone[(i + 1) - 1], b[1 + (i + 1) - 1])
      BY <1>3, <3>2 DEF Skipping
    <3>4. within[i + 1] = StillToSkip(within[(i + 1) - 1], doc[2 + (i + 1) - 1])
      BY <1>5, <3>2 DEF Skipping
    <3>5. 1 + (i + 1) - 1 = i + 1 /\ 2 + (i + 1) - 1 = 1 + (i + 1)
      OBVIOUS
    <3>6. doc[1 + (i + 1)] = b[i + 1]
      BY <3>2
    <3>7. within[i + 1] = alone[i + 1]
      BY <3>1, <3>2, <3>3, <3>4, <3>5, <3>6
    <3> QED BY <3>7
  <2> QED BY <2>1, <2>2
<1>8. \A i \in 0..n : within[i] = alone[i]
  <2>1. Nat \subseteq S
    <3> HIDE DEF S
    <3> QED BY <1>6, <1>7, Induction
  <2> QED BY <2>1
<1>9. n \in 0..Len(doc) + 1 - 2 /\ within[n] = 0
  BY <1>2, <1>4, <1>8 DEF FirstOver
<1>10. PICK i \in 0..Len(doc) + 1 - 2 : SkipItems(doc, 2, 1) = 2 + i /\ FirstOver(within, i)
  BY <1>5, <1>9
<1>11. ~(n < i)
  BY <1>9, <1>10 DEF FirstOver
<1>12. ~(i < n)
  BY <1>4, <1>8, <1>10 DEF FirstOver
<1> QED BY <1>1, <1>2, <1>10, <1>11, <1>12
\* What lies between the first element and the last.
LEMMA Inside ==
  ASSUME NEW b, NEW doc, IsSequence(b), Len(doc) = Len(b) + 2, \A i \in 1..Len(b) : doc[1 + i] = b[i]
  PROVE SubSeq(doc, 2, Len(b) + 1) = b
<1>1. PICK n \in Nat : n = Len(b)
  BY SequenceOf
<1>2. \A i \in 2..n + 1 : doc[i] \in ToSet(b)
  <2> SUFFICES ASSUME NEW i \in 2..n + 1 PROVE doc[i] \in ToSet(b)
    OBVIOUS
  <2>1. i - 1 \in 1..Len(b) /\ 1 + (i - 1) = i
    BY <1>1
  <2>2. doc[i] = b[i - 1]
    BY <2>1
  <2>3. b \in Seq(ToSet(b))
    BY SequenceOf
  <2> QED BY <2>1, <2>2, <2>3
<1>3. PICK s : s = SubSeq(doc, 2, n + 1)
  OBVIOUS
<1>4. s \in Seq(ToSet(b)) /\ Len(s) = (IF 2 <= n + 1 THEN n + 1 - 2 + 1 ELSE 0) /\ \A i \in 1..(n + 1 - 2 + 1) : s[i] = doc[2 + i - 1]
  BY <1>1, <1>2, <1>3, SubSeqProperties
<1>5. IsSequence(s) /\ Len(s) = n
  BY <1>1, <1>4, SeqIsSequence
<1>6. ASSUME NEW i \in 1..n PROVE s[i] = b[i]
  <2>1. i \in 1..(n + 1 - 2 + 1) /\ 2 + i - 1 = 1 + i
    BY <1>1
  <2>2. s[i] = doc[1 + i]
    BY <1>4, <2>1
  <2> QED BY <1>1, <2>2
<1>7. s = b
  BY <1>1, <1>5, <1>6, SameSequence
<1> QED BY <1>1, <1>3, <1>7

\* A domain, the byte that ends it, and what is signed, fix both.
LEMMA DomainInjective ==
  ASSUME NEW d, NEW b, NEW e, NEW c, IsSequence(d), IsSequence(b), IsSequence(e), IsSequence(c),
         ZeroByte \notin ToSet(d), ZeroByte \notin ToSet(e), d \o <<ZeroByte>> \o b = e \o <<ZeroByte>> \o c
  PROVE  d = e /\ b = c
<1>1. PICK zero, first, second, z :
        zero = <<ZeroByte>> /\ first = d \o zero /\ second = e \o zero /\ z = first \o b
  OBVIOUS
<1>2. IsSequence(zero) /\ Len(zero) = 1 /\ zero[1] = ZeroByte
  BY <1>1, OneIsSequence
<1>3. Splits(first, d, zero) /\ Splits(second, e, zero)
  BY <1>1, <1>2 DEF Splits
<1>4. Splits(z, first, b) /\ Splits(z, second, c)
  <2>1. IsSequence(first) /\ IsSequence(second)
    BY <1>3, SplitParts
  <2>2. z = second \o c
    BY <1>1
  <2> QED BY <1>1, <2>1, <2>2 DEF Splits
<1>5. PICK m \in Nat, n \in Nat : m = Len(d) /\ n = Len(e)
  BY <1>3, SplitParts
<1>6. /\ Len(first) = m + 1 /\ first[m + 1] = ZeroByte /\ \A i \in 1..m : first[i] = d[i]
      /\ Len(second) = n + 1 /\ second[n + 1] = ZeroByte /\ \A i \in 1..n : second[i] = e[i]
  <2>1. 1 \in 1..Len(zero)
    BY <1>2
  <2>2. /\ Len(first) = Len(d) + Len(zero) /\ \A i \in 1..Len(d) : first[i] = d[i]
        /\ \A i \in 1..Len(zero) : first[Len(d) + i] = zero[i]
    BY <1>3, SplitParts
  <2>3. /\ Len(second) = Len(e) + Len(zero) /\ \A i \in 1..Len(e) : second[i] = e[i]
        /\ \A i \in 1..Len(zero) : second[Len(e) + i] = zero[i]
    BY <1>3, SplitParts
  <2> QED BY <1>2, <1>5, <2>1, <2>2, <2>3
<1>7. /\ z[m + 1] = ZeroByte /\ \A i \in 1..m : z[i] = d[i]
      /\ z[n + 1] = ZeroByte /\ \A i \in 1..n : z[i] = e[i]
  <2>0. \A i \in 1..Len(first) : z[i] = first[i]
    BY <1>4, SplitParts
  <2>1. (\A i \in 1..Len(first) : z[i] = first[i]) /\ \A i \in 1..Len(second) : z[i] = second[i]
    BY <1>4, <2>0, SplitParts
  <2>2. m + 1 \in 1..Len(first) /\ n + 1 \in 1..Len(second)
    BY <1>5, <1>6
  <2>3. (\A i \in 1..m : i \in 1..Len(first)) /\ \A i \in 1..n : i \in 1..Len(second)
    BY <1>5, <1>6
  <2> QED BY <1>6, <2>1, <2>2, <2>3
<1>8. (\A i \in 1..m : d[i] # ZeroByte) /\ \A i \in 1..n : e[i] # ZeroByte
  <2>1. DOMAIN d = 1..m /\ DOMAIN e = 1..n
    BY <1>5, SequenceOf
  <2> QED BY <2>1 DEF ToSet
<1>9. m = n
  <2>1. CASE m < n
    <3>1. m + 1 \in 1..n
      BY <1>5, <2>1
    <3> QED BY <1>7, <1>8, <3>1
  <2>2. CASE n < m
    <3>1. n + 1 \in 1..m
      BY <1>5, <2>2
    <3> QED BY <1>7, <1>8, <3>1
  <2> QED BY <1>5, <2>1, <2>2
<1>10. first = second /\ b = c
  BY <1>4, <1>6, <1>9, Cancellation
<1>11. d = e
  <2>1. Splits(first, d, zero) /\ Splits(first, e, zero)
    BY <1>3, <1>10
  <2> QED BY <1>5, <1>9, <2>1, Cancellation
<1> QED BY <1>10, <1>11

\* An array of two: a body, and a tag.
Enveloped(b, length, tag) == <<CborHead("array", 2, Nothing)>> \o b \o <<CborHead("bytes", length, tag)>>

\* An envelope is split into the body and the tag it was made of.
LEMMA SplitsBack ==
  ASSUME NEW b, NEW length, NEW tag, IsSequence(b), SkipItems(b, 1, 1) = Len(b) + 1, tag.len = length
  PROVE  SplitEnvelope(Enveloped(b, length, tag), length) = Ok([body |-> b, tag |-> tag])
<1>1. PICK x, y, head, tail, front, doc :
        /\ x = CborHead("array", 2, Nothing) /\ y = CborHead("bytes", length, tag)
        /\ head = <<x>> /\ tail = <<y>> /\ front = head \o b /\ doc = front \o tail
  OBVIOUS
<1>2. Enveloped(b, length, tag) = doc
  BY <1>1 DEF Enveloped
<1>3. IsSequence(head) /\ Len(head) = 1 /\ head[1] = x /\ IsSequence(tail) /\ Len(tail) = 1 /\ tail[1] = y
  BY <1>1, OneIsSequence
<1>4. Splits(front, head, b)
  BY <1>1, <1>3 DEF Splits
<1>5. PICK n \in Nat : n = Len(b)
  BY <1>4, SplitParts
<1>6. IsSequence(front) /\ Len(front) = n + 1 /\ front[1] = x /\ \A i \in 1..n : front[1 + i] = b[i]
  <2>1. 1 \in 1..Len(head)
    BY <1>3
  <2> QED BY <1>3, <1>4, <1>5, <2>1, SplitParts
<1>7. Splits(doc, front, tail)
  BY <1>1, <1>3, <1>6 DEF Splits
<1>8. IsSequence(doc) /\ Len(doc) = n + 2 /\ doc[n + 2] = y /\ \A i \in 1..n + 1 : doc[i] = front[i]
  <2>1. 1 \in 1..Len(tail) /\ (n + 1) + 1 = n + 2
    BY <1>3, <1>5
  <2>2. /\ IsSequence(doc) /\ Len(doc) = Len(front) + Len(tail)
        /\ \A i \in 1..Len(front) : doc[i] = front[i]
        /\ \A i \in 1..Len(tail) : doc[Len(front) + i] = tail[i]
    BY <1>7, SplitParts
  <2> QED BY <1>3, <1>6, <2>1, <2>2
<1>9. doc[1] = x /\ \A i \in 1..n : doc[1 + i] = b[i]
  <2>1. 1 \in 1..n + 1 /\ \A i \in 1..n : 1 + i \in 1..n + 1
    BY <1>5
  <2> QED BY <1>6, <1>8, <2>1
<1>10. SkipItems(doc, 2, 1) = n + 2
  BY <1>5, <1>8, <1>9, SkipAgain
<1>11. SubSeq(doc, 2, n + 1) = b
  BY <1>5, <1>8, <1>9, Inside
<1>12. x.major = "array" /\ x.n = 2 /\ y.major = "bytes" /\ y.bytes = tag
  BY <1>1 DEF CborHead
<1>13. doc # <<>> /\ doc[1].major = "array" /\ doc[1].n = 2
  <2>1. Len(<<>>) = 0
    OBVIOUS
  <2> QED BY <1>5, <1>8, <1>9, <1>12, <2>1
<1>14. PICK end : end = SkipItems(doc, 2, 1)
  OBVIOUS
<1>15. /\ ~(end = 0) /\ ~(end > Len(doc)) /\ doc[end].major = "bytes" /\ doc[end].bytes = tag
       /\ end = Len(doc) /\ end - 1 = n + 1
  BY <1>5, <1>8, <1>10, <1>12, <1>14
<1>16. SplitEnvelope(doc, length) = Ok([body |-> SubSeq(doc, 2, end - 1), tag |-> doc[end].bytes])
  BY <1>13, <1>14, <1>15 DEF SplitEnvelope
<1> QED BY <1>2, <1>11, <1>15, <1>16

\* A preimage is made of a domain without the byte that ends it.
LEMMA DomainFacts ==
  ASSUME NEW d, NEW b
  PROVE  /\ DomainPreimage(d, b).ok => ZeroByte \notin ToSet(d)
         /\ DomainPreimage(d, b).ok => DomainPreimage(d, b) = Ok(d \o <<ZeroByte>> \o b)
         /\ ~DomainPreimage(d, b).ok => DomainPreimage(d, b) = Err("CryptographicFailure")
BY DEF DomainPreimage, Ok, Err

\* Two domains and bodies have the same preimage only when they are the same.
LEMMA DomainPreimageInjective ==
  ASSUME NEW d, NEW b, NEW e, NEW c, IsSequence(d), IsSequence(b), IsSequence(e), IsSequence(c),
         DomainPreimage(d, b).ok, DomainPreimage(e, c).ok, DomainPreimage(d, b).val = DomainPreimage(e, c).val
  PROVE  d = e /\ b = c
<1>1. ZeroByte \notin ToSet(d) /\ ZeroByte \notin ToSet(e)
  BY DomainFacts
<1>2. DomainPreimage(d, b).val = d \o <<ZeroByte>> \o b /\ DomainPreimage(e, c).val = e \o <<ZeroByte>> \o c
  BY DomainFacts DEF Ok
<1>3. d \o <<ZeroByte>> \o b = e \o <<ZeroByte>> \o c
  BY <1>2
<1> QED BY ZenonT(60), <1>1, <1>3, DomainInjective

\* A body that a caller signs: one item.
IsBody(b) == IsSequence(b) /\ SkipItems(b, 1, 1) = Len(b) + 1

\* A signature verifies under its key, for its domain and over its body, and no other.
THEOREM VerifiesWhatWasSigned ==
  ASSUME NEW k, NEW d, NEW b, NEW k2, NEW d2, NEW b2, IsSequence(d), IsBody(b), IsSequence(d2), IsBody(b2),
         SignEnvelope(k, d, b).ok, NEW tag, tag = DecodeCanonicalEnvelope(SignEnvelope(k, d, b).val).val.tag
  PROVE  VerifyEnvelope(k2, d2, EncodeEnvelope(b2, tag)).ok <=> k2 = k /\ d2 = d /\ b2 = b
<1>1. DomainPreimage(d, b).ok
  BY DEF SignEnvelope
<1>2. PICK over : over = DomainPreimage(d, b).val
  OBVIOUS
<1>3. PICK signature : signature = [sig |-> k, over |-> over, len |-> 64]
  OBVIOUS
<1>4. signature.len = 64
  BY <1>3
<1>5. \A c, t : EncodeEnvelope(c, t) = Enveloped(c, 64, t)
  BY DEF EncodeEnvelope, Enveloped
<1>6. SignEnvelope(k, d, b).val = Enveloped(b, 64, signature)
  BY <1>1, <1>2, <1>3, <1>5 DEF SignEnvelope, Ok
<1>7. SplitEnvelope(Enveloped(b, 64, signature), 64) = Ok([body |-> b, tag |-> signature])
  BY <1>4, SplitsBack DEF IsBody
<1>8. tag = signature
  <2>1. PICK split : split = SplitEnvelope(Enveloped(b, 64, signature), 64)
    OBVIOUS
  <2>2. split.ok /\ split.val.body = b /\ split.val.tag = signature
    BY <1>7, <2>1 DEF Ok
  <2>3. EncodeEnvelope(split.val.body, split.val.tag) = Enveloped(b, 64, signature)
    BY <1>5, <2>2
  <2>4. DecodeCanonicalEnvelope(Enveloped(b, 64, signature)) = split
    BY <2>1, <2>3 DEF DecodeCanonicalEnvelope
  <2> QED BY <1>6, <2>2, <2>4
<1>9. PICK envelope, ret, preimage :
        /\ envelope = EncodeEnvelope(b2, tag) /\ ret = VerifyEnvelope(k2, d2, envelope)
        /\ preimage = DomainPreimage(d2, b2)
  OBVIOUS
<1>10. SplitEnvelope(envelope, 64) = Ok([body |-> b2, tag |-> signature])
  BY <1>4, <1>5, <1>8, <1>9, SplitsBack DEF IsBody
<1>11. PICK split : split = SplitEnvelope(envelope, 64)
  OBVIOUS
<1>12. split.ok /\ split.val.body = b2 /\ split.val.tag = signature
  BY <1>10, <1>11 DEF Ok
<1>13. DecodeCanonicalEnvelope(envelope) = split
  BY <1>8, <1>9, <1>11, <1>12 DEF DecodeCanonicalEnvelope
<1>14. ret = IF ~preimage.ok THEN preimage
             ELSE IF signature # [sig |-> k2, over |-> preimage.val, len |-> 64]
             THEN Err("CryptographicFailure") ELSE Ok(b2)
  BY <1>9, <1>12, <1>13 DEF VerifyEnvelope
<1>15. ret.ok <=> preimage.ok /\ signature = [sig |-> k2, over |-> preimage.val, len |-> 64]
  BY <1>14 DEF Ok, Err
<1>16. signature = [sig |-> k2, over |-> preimage.val, len |-> 64] <=> k = k2 /\ over = preimage.val
  BY <1>3
<1>17. preimage.ok /\ over = preimage.val <=> d2 = d /\ b2 = b
  <2>1. IsSequence(b) /\ IsSequence(b2)
    BY DEF IsBody
  <2> QED BY <1>1, <1>2, <1>9, <2>1, DomainPreimageInjective
<1> QED BY <1>9, <1>15, <1>16, <1>17

\* A tag verifies under its key, for its domain and over its body, and no other.
THEOREM VerifiesWhatWasTagged ==
  ASSUME NEW k, NEW d, NEW b, NEW k2, NEW d2, NEW b2, IsSequence(d), IsBody(b), IsSequence(d2), IsBody(b2),
         MacEnvelope(d, b, k).ok, NEW tag, tag = SplitEnvelope(MacEnvelope(d, b, k).val, 32).val.tag
  PROVE  VerifyMacEnvelope(d2, Enveloped(b2, 32, tag), k2).ok <=> k2 = k /\ d2 = d /\ b2 = b
<1>1. DomainPreimage(d, b).ok
  BY DEF MacEnvelope
<1>2. PICK over : over = DomainPreimage(d, b).val
  OBVIOUS
<1>3. PICK mac : mac = [mac |-> k, over |-> over, len |-> 32]
  OBVIOUS
<1>4. mac.len = 32
  BY <1>3
<1>5. MacEnvelope(d, b, k).val = Enveloped(b, 32, mac)
  BY <1>1, <1>2, <1>3 DEF MacEnvelope, Enveloped, Ok
<1>6. SplitEnvelope(Enveloped(b, 32, mac), 32) = Ok([body |-> b, tag |-> mac])
  BY <1>4, SplitsBack DEF IsBody
<1>7. tag = mac
  BY <1>5, <1>6 DEF Ok
<1>8. PICK envelope, ret, preimage :
        /\ envelope = Enveloped(b2, 32, tag) /\ ret = VerifyMacEnvelope(d2, envelope, k2)
        /\ preimage = DomainPreimage(d2, b2)
  OBVIOUS
<1>9. SplitEnvelope(envelope, 32) = Ok([body |-> b2, tag |-> mac])
  BY <1>4, <1>7, <1>8, SplitsBack DEF IsBody
<1>10. PICK split : split = SplitEnvelope(envelope, 32)
  OBVIOUS
<1>11. split.ok /\ split.val.body = b2 /\ split.val.tag = mac
  BY <1>9, <1>10 DEF Ok
<1>12. ret = IF ~preimage.ok THEN preimage
             ELSE IF mac # [mac |-> k2, over |-> preimage.val, len |-> 32]
             THEN Err("CryptographicFailure") ELSE Ok(b2)
  BY <1>8, <1>10, <1>11 DEF VerifyMacEnvelope
<1>13. ret.ok <=> preimage.ok /\ mac = [mac |-> k2, over |-> preimage.val, len |-> 32]
  BY <1>12 DEF Ok, Err
<1>14. mac = [mac |-> k2, over |-> preimage.val, len |-> 32] <=> k = k2 /\ over = preimage.val
  BY <1>3
<1>15. preimage.ok /\ over = preimage.val <=> d2 = d /\ b2 = b
  <2>1. IsSequence(b) /\ IsSequence(b2)
    BY DEF IsBody
  <2> QED BY <1>1, <1>2, <1>8, <2>1, DomainPreimageInjective
<1> QED BY <1>8, <1>13, <1>14, <1>15

-----------------------------------------------------------------------------
(* What is committed to: tuples of items.                                  *)

\* A tuple of two: its parts, which are items or not.
LEMMA TwoItems ==
  \A a, b, v : v = <<a, b>> =>
    /\ IsSequence(v) /\ Len(v) = 2 /\ v[1] = a /\ v[2] = b
    /\ IsItem(a) /\ IsItem(b) => AllItems(v)
<1> SUFFICES ASSUME NEW a, NEW b, NEW v, v = <<a, b>>
             PROVE  /\ IsSequence(v) /\ Len(v) = 2 /\ v[1] = a /\ v[2] = b
                    /\ IsItem(a) /\ IsItem(b) => AllItems(v)
  OBVIOUS
<1>1. v = [m \in 1..2 |-> v[m]] /\ Len(v) = 2 /\ v[1] = a /\ v[2] = b
  OBVIOUS
<1>2. \A m \in 1..2 : m \in {1, 2}
  OBVIOUS
<1>3. IsSequence(v)
  BY <1>1 DEF IsSequence
<1> QED BY <1>1, <1>2, <1>3 DEF AllItems

\* A tuple of three: its parts, which are items or not.
LEMMA ThreeItems ==
  \A a, b, c, v : v = <<a, b, c>> =>
    /\ IsSequence(v) /\ Len(v) = 3 /\ v[1] = a /\ v[2] = b /\ v[3] = c
    /\ IsItem(a) /\ IsItem(b) /\ IsItem(c) => AllItems(v)
<1> SUFFICES ASSUME NEW a, NEW b, NEW c, NEW v, v = <<a, b, c>>
             PROVE  /\ IsSequence(v) /\ Len(v) = 3 /\ v[1] = a /\ v[2] = b /\ v[3] = c
                    /\ IsItem(a) /\ IsItem(b) /\ IsItem(c) => AllItems(v)
  OBVIOUS
<1>1. v = [m \in 1..3 |-> v[m]] /\ Len(v) = 3 /\ v[1] = a /\ v[2] = b /\ v[3] = c
  OBVIOUS
<1>2. \A m \in 1..3 : m \in {1, 2, 3}
  OBVIOUS
<1>3. IsSequence(v)
  BY <1>1 DEF IsSequence
<1> QED BY <1>1, <1>2, <1>3 DEF AllItems

\* A tuple of four: its parts, which are items or not.
LEMMA FourItems ==
  \A a, b, c, d, v : v = <<a, b, c, d>> =>
    /\ IsSequence(v) /\ Len(v) = 4 /\ v[1] = a /\ v[2] = b /\ v[3] = c /\ v[4] = d
    /\ IsItem(a) /\ IsItem(b) /\ IsItem(c) /\ IsItem(d) => AllItems(v)
<1> SUFFICES ASSUME NEW a, NEW b, NEW c, NEW d, NEW v, v = <<a, b, c, d>>
             PROVE  /\ IsSequence(v) /\ Len(v) = 4 /\ v[1] = a /\ v[2] = b /\ v[3] = c /\ v[4] = d
                    /\ IsItem(a) /\ IsItem(b) /\ IsItem(c) /\ IsItem(d) => AllItems(v)
  OBVIOUS
<1>1. v = [m \in 1..4 |-> v[m]] /\ Len(v) = 4 /\ v[1] = a /\ v[2] = b /\ v[3] = c /\ v[4] = d
  OBVIOUS
<1>2. \A m \in 1..4 : m \in {1, 2, 3, 4}
  OBVIOUS
<1>3. IsSequence(v)
  BY <1>1 DEF IsSequence
<1> QED BY <1>1, <1>2, <1>3 DEF AllItems

\* A tuple of five: its parts, which are items or not.
LEMMA FiveItems ==
  \A a, b, c, d, e, v : v = <<a, b, c, d, e>> =>
    /\ IsSequence(v) /\ Len(v) = 5 /\ v[1] = a /\ v[2] = b /\ v[3] = c /\ v[4] = d /\ v[5] = e
    /\ IsItem(a) /\ IsItem(b) /\ IsItem(c) /\ IsItem(d) /\ IsItem(e) => AllItems(v)
<1> SUFFICES ASSUME NEW a, NEW b, NEW c, NEW d, NEW e, NEW v, v = <<a, b, c, d, e>>
             PROVE  /\ IsSequence(v) /\ Len(v) = 5 /\ v[1] = a /\ v[2] = b /\ v[3] = c /\ v[4] = d /\ v[5] = e
                    /\ IsItem(a) /\ IsItem(b) /\ IsItem(c) /\ IsItem(d) /\ IsItem(e) => AllItems(v)
  OBVIOUS
<1>1. v = [m \in 1..5 |-> v[m]] /\ Len(v) = 5 /\ v[1] = a /\ v[2] = b /\ v[3] = c /\ v[4] = d /\ v[5] = e
  OBVIOUS
<1>2. \A m \in 1..5 : m \in {1, 2, 3, 4, 5}
  OBVIOUS
<1>3. IsSequence(v)
  BY <1>1 DEF IsSequence
<1> QED BY <1>1, <1>2, <1>3 DEF AllItems

\* A tuple of seven: its parts, which are items or not.
LEMMA SevenItems ==
  \A a, b, c, d, e, f, g, v : v = <<a, b, c, d, e, f, g>> =>
    /\ IsSequence(v) /\ Len(v) = 7 /\ v[1] = a /\ v[2] = b /\ v[3] = c /\ v[4] = d /\ v[5] = e /\ v[6] = f /\ v[7] = g
    /\ IsItem(a) /\ IsItem(b) /\ IsItem(c) /\ IsItem(d) /\ IsItem(e) /\ IsItem(f) /\ IsItem(g) => AllItems(v)
<1> SUFFICES ASSUME NEW a, NEW b, NEW c, NEW d, NEW e, NEW f, NEW g, NEW v, v = <<a, b, c, d, e, f, g>>
             PROVE  /\ IsSequence(v) /\ Len(v) = 7 /\ v[1] = a /\ v[2] = b /\ v[3] = c /\ v[4] = d /\ v[5] = e /\ v[6] = f /\ v[7] = g
                    /\ IsItem(a) /\ IsItem(b) /\ IsItem(c) /\ IsItem(d) /\ IsItem(e) /\ IsItem(f) /\ IsItem(g) => AllItems(v)
  OBVIOUS
<1>1. v = [m \in 1..7 |-> v[m]] /\ Len(v) = 7 /\ v[1] = a /\ v[2] = b /\ v[3] = c /\ v[4] = d /\ v[5] = e /\ v[6] = f /\ v[7] = g
  OBVIOUS
<1>2. \A m \in 1..7 : m \in {1, 2, 3, 4, 5, 6, 7}
  OBVIOUS
<1>3. IsSequence(v)
  BY <1>1 DEF IsSequence
<1> QED BY <1>1, <1>2, <1>3 DEF AllItems

\* A tuple of ten: its parts, which are items or not.
LEMMA TenItems ==
  \A a, b, c, d, e, f, g, h, i, j, v : v = <<a, b, c, d, e, f, g, h, i, j>> =>
    /\ IsSequence(v) /\ Len(v) = 10 /\ v[1] = a /\ v[2] = b /\ v[3] = c /\ v[4] = d /\ v[5] = e /\ v[6] = f /\ v[7] = g /\ v[8] = h /\ v[9] = i /\ v[10] = j
    /\ IsItem(a) /\ IsItem(b) /\ IsItem(c) /\ IsItem(d) /\ IsItem(e) /\ IsItem(f) /\ IsItem(g) /\ IsItem(h) /\ IsItem(i) /\ IsItem(j) => AllItems(v)
<1> SUFFICES ASSUME NEW a, NEW b, NEW c, NEW d, NEW e, NEW f, NEW g, NEW h, NEW i, NEW j, NEW v, v = <<a, b, c, d, e, f, g, h, i, j>>
             PROVE  /\ IsSequence(v) /\ Len(v) = 10 /\ v[1] = a /\ v[2] = b /\ v[3] = c /\ v[4] = d /\ v[5] = e /\ v[6] = f /\ v[7] = g /\ v[8] = h /\ v[9] = i /\ v[10] = j
                    /\ IsItem(a) /\ IsItem(b) /\ IsItem(c) /\ IsItem(d) /\ IsItem(e) /\ IsItem(f) /\ IsItem(g) /\ IsItem(h) /\ IsItem(i) /\ IsItem(j) => AllItems(v)
  OBVIOUS
<1>1. v = [m \in 1..10 |-> v[m]] /\ Len(v) = 10 /\ v[1] = a /\ v[2] = b /\ v[3] = c /\ v[4] = d /\ v[5] = e /\ v[6] = f /\ v[7] = g /\ v[8] = h /\ v[9] = i /\ v[10] = j
  OBVIOUS
<1>2. \A m \in 1..10 : m \in {1, 2, 3, 4, 5, 6, 7, 8, 9, 10}
  OBVIOUS
<1>3. IsSequence(v)
  BY <1>1 DEF IsSequence
<1> QED BY <1>1, <1>2, <1>3 DEF AllItems
\* A part that holds one value holds no other.
LEMMA LeafInjective ==
  ASSUME NEW x, NEW y
  PROVE  /\ Uint(x) = Uint(y) => x = y
         /\ Bytes(x) = Bytes(y) => x = y
         /\ x \in BOOLEAN /\ y \in BOOLEAN /\ Bool(x) = Bool(y) => x = y
<1>1. \A p, q : <<p>> = <<q>> => p = q
  OBVIOUS
<1>2. Uint(x) = Uint(y) => [kind |-> "uint", n |-> x].n = [kind |-> "uint", n |-> y].n
  BY <1>1 DEF Uint
<1>3. Bytes(x) = Bytes(y) => [kind |-> "bytes", bytes |-> x].bytes = [kind |-> "bytes", bytes |-> y].bytes
  BY <1>1 DEF Bytes
<1>4. Bool(x) = Bool(y) => (IF x THEN 1 ELSE 0) = IF y THEN 1 ELSE 0
  <2>1. PICK p, q : p = [kind |-> "bool", n |-> IF x THEN 1 ELSE 0] /\ q = [kind |-> "bool", n |-> IF y THEN 1 ELSE 0]
    OBVIOUS
  <2>2. Bool(x) = Bool(y) => p = q
    BY <1>1, <2>1 DEF Bool
  <2>3. p = q => p.n = q.n
    OBVIOUS
  <2> QED BY <2>1, <2>2, <2>3
<1>5. Uint(x) = Uint(y) => x = y
  BY <1>2
<1>6. Bytes(x) = Bytes(y) => x = y
  BY <1>3
<1>7. ASSUME x \in BOOLEAN, y \in BOOLEAN, Bool(x) = Bool(y) PROVE x = y
  <2>1. x = TRUE \/ x = FALSE
    BY <1>7
  <2>2. y = TRUE \/ y = FALSE
    BY <1>7
  <2>3. ~(x = TRUE /\ y = FALSE) /\ ~(x = FALSE /\ y = TRUE)
    BY <1>4, <1>7
  <2> QED BY <2>1, <2>2, <2>3
<1> QED BY <1>5, <1>6, <1>7

\* Structures with the same fields are equal when each field is.
LEMMA SameFields ==
  ASSUME NEW fields, NEW a, NEW b, HasFields(a, fields), HasFields(b, fields), \A f \in fields : a[f] = b[f]
  PROVE  a = b
BY DEF HasFields

\* A derived key fixes its label, the key it came from and the items.
LEMMA DerivedInjective ==
  ASSUME NEW name, NEW ikm, NEW s, NEW name2, NEW ikm2, NEW t, AllItems(s), AllItems(t),
         Derived(name, ikm, s).ok, Derived(name2, ikm2, t).ok, Derived(name, ikm, s).val = Derived(name2, ikm2, t).val
  PROVE  name = name2 /\ ikm = ikm2 /\ s = t
<1>1. PICK v, w : v = Encoding(Array(s)) /\ w = Encoding(Array(t))
  OBVIOUS
<1>2. IsSequence(v) /\ IsSequence(w)
  BY <1>1, DerivedFacts
<1>3. PICK x, y : x = Derived(name, ikm, s).val /\ y = Derived(name2, ikm2, t).val
  OBVIOUS
<1>4. x = [kdf |-> ikm, info |-> Preimage(name, v), len |-> 32]
      /\ y = [kdf |-> ikm2, info |-> Preimage(name2, w), len |-> 32]
  BY <1>1, <1>3, DerivedFacts DEF Ok
<1>5. x.kdf = y.kdf /\ x.info = y.info
  BY <1>3
<1>6. ikm = ikm2 /\ Preimage(name, v) = Preimage(name2, w)
  BY <1>4, <1>5
<1>7. name = name2 /\ v = w
  BY <1>2, <1>6, PreimageInjective
<1> QED BY <1>1, <1>6, <1>7, EvidenceInjective

\* A hash of items fixes its label and the items.
LEMMA HashedInjective ==
  ASSUME NEW name, NEW s, NEW name2, NEW t, AllItems(s), AllItems(t),
         Hashed(name, s).ok, Hashed(name2, t).ok, Hashed(name, s).val = Hashed(name2, t).val
  PROVE  name = name2 /\ s = t
<1>1. PICK v, w : v = Encoding(Array(s)) /\ w = Encoding(Array(t))
  OBVIOUS
<1>2. IsSequence(v) /\ IsSequence(w)
  BY <1>1, HashedFacts
<1>3. PICK x, y : x = Hashed(name, s).val /\ y = Hashed(name2, t).val
  OBVIOUS
<1>4. x = [sha |-> Preimage(name, v), len |-> 32] /\ y = [sha |-> Preimage(name2, w), len |-> 32]
  BY <1>1, <1>3, HashedFacts DEF Ok, Sha
<1>5. x.sha = y.sha
  BY <1>3
<1>6. name = name2 /\ v = w
  BY <1>2, <1>4, <1>5, PreimageInjective
<1> QED BY <1>1, <1>6, EvidenceInjective

-----------------------------------------------------------------------------
(* What an answer shows of the function that made it.                      *)

\* The function of each label of a derived key, and of a hash.
KeyMaker(name) ==
  CASE name = "pm-v1/record-key" -> "record_key"
    [] name = "pm-v1/unlock-wrap-key" -> "unlock_key"
    [] name = "pm-v1/recovery-wrap-key" -> "recovery_wrap_key"
    [] name = "pm-v1/recovery-auth-seed" -> "recovery_auth_seed"
    [] name = "pm-v1/manifest-signing-seed" -> "manifest_seed"
    [] name = "pm-v1/bootstrap-key" -> "bootstrap_key"

HashMaker(name) ==
  CASE name = "pm-v1/auth-credential-id" -> "credential_id"
    [] name = "pm-v1/authorization-request" -> "request"
    [] name = "pm-v1/authorization-payload" -> "payload"
    [] name = "pm-v1/recovery-kit-core" -> "kit_core"
    [] name = "pm-v1/device-wrap-set" -> "device_wraps"
    [] name = "pm-v1/hpke-recipient" -> "recipient"
    [] name = "pm-v1/session-policy-result" -> "session"
    [] name = "pm-v1/account-state-core" -> "account"
    [] name \in {"pm-v1/manifest-empty", "pm-v1/manifest-chunk", "pm-v1/manifest-node"} -> "manifest"

\* The function that made a value: what it was made with, and how that starts.
Maker(val) ==
  IF "argon" \in DOMAIN val THEN "password_key"
  ELSE IF "kdf" \in DOMAIN val THEN KeyMaker(val.info[1].bytes.leaf)
  ELSE IF val.sha[1].major = "bytes" THEN "server"
  ELSE IF val.sha[1].major = "array" THEN "unlock_wrap"
  ELSE HashMaker(val.sha[1].bytes.leaf)

\* A text head shows its name.
LEMMA TextShows ==
  ASSUME NEW name
  PROVE  Text(name, 0).major = "text" /\ Text(name, 0).bytes.leaf = name
BY DEF Text, CborHead, Bin

\* A key shows its label.
LEMMA KeyShows ==
  ASSUME NEW name, NEW ikm, NEW body, IsSequence(body)
  PROVE  Maker([kdf |-> ikm, info |-> Preimage(name, body), len |-> 32]) = KeyMaker(name)
<1>1. PICK key : key = [kdf |-> ikm, info |-> Preimage(name, body), len |-> 32]
  OBVIOUS
<1>2. "argon" \notin DOMAIN key /\ "kdf" \in DOMAIN key /\ key.info = Preimage(name, body)
  BY <1>1
<1>3. key.info[1].bytes.leaf = name
  BY <1>2, PreimageParts, TextShows
<1> QED BY <1>1, <1>2, <1>3 DEF Maker

\* A hash shows its label.
LEMMA HashShows ==
  ASSUME NEW name, NEW z, z[1] = Text(name, 0)
  PROVE  Maker(Sha(z)) = HashMaker(name)
<1>1. PICK hash : hash = [sha |-> z, len |-> 32]
  OBVIOUS
<1>2. "argon" \notin DOMAIN hash /\ "kdf" \notin DOMAIN hash /\ hash.sha = z
  BY <1>1
<1>3. hash.sha[1].bytes.leaf = name /\ hash.sha[1].major = "text"
  BY <1>2, TextShows
<1>4. hash = Sha(z)
  BY <1>1 DEF Sha
<1> QED BY <1>2, <1>3, <1>4 DEF Maker

\* A derived key shows its label.
LEMMA DerivedShows ==
  ASSUME NEW name, NEW ikm, NEW items, AllItems(items), Derived(name, ikm, items).ok
  PROVE  Maker(Derived(name, ikm, items).val) = KeyMaker(name)
<1>1. Derived(name, ikm, items).val = [kdf |-> ikm, info |-> Preimage(name, Encoding(Array(items))), len |-> 32]
  BY DerivedFacts DEF Ok
<1> QED BY <1>1, DerivedFacts, KeyShows

\* A hash of items shows its label.
LEMMA HashedShows ==
  ASSUME NEW name, NEW items, AllItems(items), Hashed(name, items).ok
  PROVE  Maker(Hashed(name, items).val) = HashMaker(name)
<1>1. PICK body : body = Encoding(Array(items))
  OBVIOUS
<1>2. IsSequence(body) /\ Hashed(name, items).val = Sha(Preimage(name, body))
  BY <1>1, HashedFacts DEF Ok
<1>3. Preimage(name, body)[1] = Text(name, 0)
  BY <1>2, PreimageParts
<1> QED BY <1>2, <1>3, HashShows

-----------------------------------------------------------------------------
(* Each function: what it answers shows that it was it, and fixes its       *)
(* arguments.                                                              *)

Answered(fn, a) == HasArguments(fn, a) /\ Answer([fn |-> fn, arg |-> a]).ok
AnswerOf(fn, a) == Answer([fn |-> fn, arg |-> a]).val

Exact(fn) ==
  /\ \A a : Answered(fn, a) => Maker(AnswerOf(fn, a)) = fn
  /\ \A a, b : Answered(fn, a) /\ Answered(fn, b) /\ AnswerOf(fn, a) = AnswerOf(fn, b)
                 => Bound([fn |-> fn, arg |-> a]) = Bound([fn |-> fn, arg |-> b])

\* A key of the password and the salt.
LEMMA PasswordKeyExact == Exact("password_key")
<1>1. \A a : Answer([fn |-> "password_key", arg |-> a]) = DerivePasswordKeyBytes(a.password, a.salt)
  BY DEF Answer
<1>2. \A a : Bound([fn |-> "password_key", arg |-> a]) = a
  BY DEF Bound
<1>3. ASSUME NEW a, Answered("password_key", a)
      PROVE  /\ HasFields(a, {"password", "salt"})
             /\ AnswerOf("password_key", a) = [argon |-> a.password, salt |-> a.salt, len |-> 32]
  <2>1. HasFields(a, {"password", "salt"}) /\ DerivePasswordKeyBytes(a.password, a.salt).ok
    BY <1>1, <1>3 DEF Answered, HasArguments
  <2>2. DerivePasswordKeyBytes(a.password, a.salt) = DerivePasswordKey(a.password, a.salt)
    BY <2>1 DEF DerivePasswordKeyBytes, OfLength, Err
  <2>3. EncodeOpaqueSecret(a.password).ok
    BY <2>1, <2>2 DEF DerivePasswordKey
  <2>4. DerivePasswordKey(a.password, a.salt) = Ok([argon |-> a.password, salt |-> a.salt, len |-> 32])
    BY <2>3 DEF DerivePasswordKey
  <2> QED BY <1>1, <2>1, <2>2, <2>4 DEF AnswerOf, Ok
<1>4. \A a : Answered("password_key", a) => Maker(AnswerOf("password_key", a)) = "password_key"
  <2>1. \A x, y : Maker([argon |-> x, salt |-> y, len |-> 32]) = "password_key"
    BY DEF Maker
  <2> QED BY <1>3, <2>1
<1>5. ASSUME NEW a, NEW b, Answered("password_key", a), Answered("password_key", b),
             AnswerOf("password_key", a) = AnswerOf("password_key", b)
      PROVE  a = b
  <2>1. a.password = b.password /\ a.salt = b.salt
    BY <1>3, <1>5
  <2> QED BY <1>3, <1>5, <2>1, SameFields
<1> QED BY <1>2, <1>4, <1>5 DEF Exact

\* A key of the root key and the context of a record.
LEMMA RecordKeyExact == Exact("record_key")
<1>1. \A a : Answer([fn |-> "record_key", arg |-> a]) = DeriveRecordKeyBytes(a.root, a.context)
  BY DEF Answer
<1>2. \A a : Bound([fn |-> "record_key", arg |-> a]) = a
  BY DEF Bound
<1>3. \A a : Answered("record_key", a) =>
        HasFields(a, {"root", "context"}) /\ IsList(a.context) /\ DeriveRecordKeyBytes(a.root, a.context).ok
  BY <1>1 DEF Answered, HasArguments
<1>4. ASSUME NEW a, Answered("record_key", a)
      PROVE  Maker(AnswerOf("record_key", a)) = "record_key"
  <2>1. AnswerOf("record_key", a) = [kdf |-> a.root, info |-> Preimage("pm-v1/record-key", a.context), len |-> 32]
    BY <1>1, <1>3, <1>4, RecordKeyFacts DEF AnswerOf, Ok
  <2>2. IsSequence(a.context)
    BY <1>3, <1>4, ListFacts
  <2> QED BY <2>1, <2>2, KeyShows DEF KeyMaker
<1>5. ASSUME NEW a, NEW b, Answered("record_key", a), Answered("record_key", b),
             AnswerOf("record_key", a) = AnswerOf("record_key", b)
      PROVE  a = b
  <2>1. DeriveRecordKeyBytes(a.root, a.context).val = DeriveRecordKeyBytes(b.root, b.context).val
    BY <1>1, <1>5 DEF AnswerOf
  <2>2. a.root = b.root /\ a.context = b.context
    BY <1>3, <1>5, <2>1, RecordKeyInjective
  <2> QED BY <1>3, <1>5, <2>2, SameFields
<1> QED BY <1>2, <1>4, <1>5 DEF Exact

\* The items a key of the unlock wrap is derived for.
OwnerItems(c) == <<Bytes(c.deployment), Bytes(c.vault), Uint(c.generation)>>
OwnerFields == {"deployment", "vault", "generation"}

\* They fix the context.
LEMMA OwnerItemsExact ==
  /\ \A c : AllItems(OwnerItems(c))
  /\ \A c, d : OwnerItems(c) = OwnerItems(d) => \A f \in OwnerFields : c[f] = d[f]
<1>1. \A c : AllItems(OwnerItems(c))
  BY ThreeItems, LeafIsItem DEF OwnerItems
<1>2. ASSUME NEW c, NEW d, OwnerItems(c) = OwnerItems(d) PROVE \A f \in OwnerFields : c[f] = d[f]
  <2>1. PICK v : v = OwnerItems(c)
    OBVIOUS
  <2>2. v[1] = Bytes(c.deployment) /\ v[2] = Bytes(c.vault) /\ v[3] = Uint(c.generation)
    BY <2>1, ThreeItems DEF OwnerItems
  <2>3. v[1] = Bytes(d.deployment) /\ v[2] = Bytes(d.vault) /\ v[3] = Uint(d.generation)
    BY <1>2, <2>1, ThreeItems DEF OwnerItems
  <2>4. Bytes(c.deployment) = Bytes(d.deployment) /\ Bytes(c.vault) = Bytes(d.vault) /\ Uint(c.generation) = Uint(d.generation)
    BY <2>2, <2>3
  <2>5. c.deployment = d.deployment /\ c.vault = d.vault
    BY ZenonT(60), <2>4, LeafInjective
  <2>6. c.generation = d.generation
    BY ZenonT(60), <2>4, LeafInjective
  <2> QED BY <2>4, <2>5, <2>6 DEF OwnerFields
<1> QED BY <1>1, <1>2

\* A key of the password and the vault's generation.
LEMMA UnlockKeyExact == Exact("unlock_key")
<1>1. \A a : Answer([fn |-> "unlock_key", arg |-> a]) =
             Derived("pm-v1/unlock-wrap-key", a.password, OwnerItems(a.context))
  BY DEF Answer, DeriveUnlockKey, OwnerItems
<1>2. \A a : Bound([fn |-> "unlock_key", arg |-> a]) = a
  BY DEF Bound
<1>3. \A a : Answered("unlock_key", a) =>
        /\ HasFields(a, {"password", "context"}) /\ HasFields(a.context, OwnerFields)
        /\ Derived("pm-v1/unlock-wrap-key", a.password, OwnerItems(a.context)).ok
  BY <1>1 DEF Answered, HasArguments, OwnerFields
<1>4. ASSUME NEW a, Answered("unlock_key", a)
      PROVE  Maker(AnswerOf("unlock_key", a)) = "unlock_key"
  BY <1>1, <1>3, <1>4, OwnerItemsExact, DerivedShows DEF AnswerOf, KeyMaker
<1>5. ASSUME NEW a, NEW b, Answered("unlock_key", a), Answered("unlock_key", b),
             AnswerOf("unlock_key", a) = AnswerOf("unlock_key", b)
      PROVE  a = b
  <2>1. a.password = b.password /\ OwnerItems(a.context) = OwnerItems(b.context)
    BY <1>1, <1>3, <1>5, OwnerItemsExact, DerivedInjective DEF AnswerOf
  <2>2. a.context = b.context
    BY <1>3, <1>5, <2>1, OwnerItemsExact, SameFields
  <2> QED BY <1>3, <1>5, <2>1, <2>2, SameFields
<1> QED BY <1>2, <1>4, <1>5 DEF Exact

\* The fields of the context of a recovery key.
RecoveryFields == {"deployment", "vault", "generation", "recovery"}

\* Its items fix it.
LEMMA RecoveryContextExact ==
  /\ \A c : AllItems(RecoveryContext(c))
  /\ \A c, d : RecoveryContext(c) = RecoveryContext(d) => \A f \in RecoveryFields : c[f] = d[f]
<1>1. \A c : AllItems(RecoveryContext(c))
  BY FourItems, LeafIsItem DEF RecoveryContext
<1>2. ASSUME NEW c, NEW d, RecoveryContext(c) = RecoveryContext(d) PROVE \A f \in RecoveryFields : c[f] = d[f]
  <2>1. PICK v : v = RecoveryContext(c)
    OBVIOUS
  <2>2. v[1] = Bytes(c.deployment) /\ v[2] = Bytes(c.vault) /\ v[3] = Uint(c.generation) /\ v[4] = Bytes(c.recovery)
    BY <2>1, FourItems DEF RecoveryContext
  <2>3. v[1] = Bytes(d.deployment) /\ v[2] = Bytes(d.vault) /\ v[3] = Uint(d.generation) /\ v[4] = Bytes(d.recovery)
    BY <1>2, <2>1, FourItems DEF RecoveryContext
  <2>4. /\ Bytes(c.deployment) = Bytes(d.deployment) /\ Bytes(c.vault) = Bytes(d.vault)
        /\ Uint(c.generation) = Uint(d.generation) /\ Bytes(c.recovery) = Bytes(d.recovery)
    BY <2>2, <2>3
  <2>5. c.deployment = d.deployment /\ c.vault = d.vault
    BY <2>4, LeafInjective
  <2>6. c.generation = d.generation /\ c.recovery = d.recovery
    BY <2>4, LeafInjective
  <2> QED BY <2>5, <2>6 DEF RecoveryFields
<1> QED BY <1>1, <1>2

\* A key of the recovery material and the recovery context, to wrap the root key.
LEMMA RecoveryWrapKeyExact == Exact("recovery_wrap_key")
<1>1. \A a : Answer([fn |-> "recovery_wrap_key", arg |-> a]) = Derived("pm-v1/recovery-wrap-key", a.material, RecoveryContext(a.context))
  BY DEF Answer, DeriveRecoveryWrapKey
<1>2. \A a : Bound([fn |-> "recovery_wrap_key", arg |-> a]) = a
  BY DEF Bound
<1>3. \A a : Answered("recovery_wrap_key", a) =>
        /\ HasFields(a, {"material", "context"}) /\ HasFields(a.context, RecoveryFields)
        /\ Derived("pm-v1/recovery-wrap-key", a.material, RecoveryContext(a.context)).ok
  BY <1>1 DEF Answered, HasArguments, RecoveryFields
<1>4. ASSUME NEW a, Answered("recovery_wrap_key", a)
      PROVE  Maker(AnswerOf("recovery_wrap_key", a)) = "recovery_wrap_key"
  BY <1>1, <1>3, <1>4, RecoveryContextExact, DerivedShows DEF AnswerOf, KeyMaker
<1>5. ASSUME NEW a, NEW b, Answered("recovery_wrap_key", a), Answered("recovery_wrap_key", b),
             AnswerOf("recovery_wrap_key", a) = AnswerOf("recovery_wrap_key", b)
      PROVE  a = b
  <2>1. a.material = b.material /\ RecoveryContext(a.context) = RecoveryContext(b.context)
    BY <1>1, <1>3, <1>5, RecoveryContextExact, DerivedInjective DEF AnswerOf
  <2>2. a.context = b.context
    BY <1>3, <1>5, <2>1, RecoveryContextExact, SameFields
  <2> QED BY <1>3, <1>5, <2>1, <2>2, SameFields
<1> QED BY <1>2, <1>4, <1>5 DEF Exact

\* A seed of the same, to authenticate.
LEMMA RecoveryAuthSeedExact == Exact("recovery_auth_seed")
<1>1. \A a : Answer([fn |-> "recovery_auth_seed", arg |-> a]) = Derived("pm-v1/recovery-auth-seed", a.material, RecoveryContext(a.context))
  BY DEF Answer, DeriveRecoveryAuthSeed
<1>2. \A a : Bound([fn |-> "recovery_auth_seed", arg |-> a]) = a
  BY DEF Bound
<1>3. \A a : Answered("recovery_auth_seed", a) =>
        /\ HasFields(a, {"material", "context"}) /\ HasFields(a.context, RecoveryFields)
        /\ Derived("pm-v1/recovery-auth-seed", a.material, RecoveryContext(a.context)).ok
  BY <1>1 DEF Answered, HasArguments, RecoveryFields
<1>4. ASSUME NEW a, Answered("recovery_auth_seed", a)
      PROVE  Maker(AnswerOf("recovery_auth_seed", a)) = "recovery_auth_seed"
  BY <1>1, <1>3, <1>4, RecoveryContextExact, DerivedShows DEF AnswerOf, KeyMaker
<1>5. ASSUME NEW a, NEW b, Answered("recovery_auth_seed", a), Answered("recovery_auth_seed", b),
             AnswerOf("recovery_auth_seed", a) = AnswerOf("recovery_auth_seed", b)
      PROVE  a = b
  <2>1. a.material = b.material /\ RecoveryContext(a.context) = RecoveryContext(b.context)
    BY <1>1, <1>3, <1>5, RecoveryContextExact, DerivedInjective DEF AnswerOf
  <2>2. a.context = b.context
    BY <1>3, <1>5, <2>1, RecoveryContextExact, SameFields
  <2> QED BY <1>3, <1>5, <2>1, <2>2, SameFields
<1> QED BY <1>2, <1>4, <1>5 DEF Exact

\* A seed of the root key and the same context, to sign manifests.
LEMMA ManifestSeedExact == Exact("manifest_seed")
<1>1. \A a : Answer([fn |-> "manifest_seed", arg |-> a]) = Derived("pm-v1/manifest-signing-seed", a.material, RecoveryContext(a.context))
  BY DEF Answer, DeriveManifestSigningSeed, RecoveryContext
<1>2. \A a : Bound([fn |-> "manifest_seed", arg |-> a]) = a
  BY DEF Bound
<1>3. \A a : Answered("manifest_seed", a) =>
        /\ HasFields(a, {"material", "context"}) /\ HasFields(a.context, RecoveryFields)
        /\ Derived("pm-v1/manifest-signing-seed", a.material, RecoveryContext(a.context)).ok
  BY <1>1 DEF Answered, HasArguments, RecoveryFields
<1>4. ASSUME NEW a, Answered("manifest_seed", a)
      PROVE  Maker(AnswerOf("manifest_seed", a)) = "manifest_seed"
  BY <1>1, <1>3, <1>4, RecoveryContextExact, DerivedShows DEF AnswerOf, KeyMaker
<1>5. ASSUME NEW a, NEW b, Answered("manifest_seed", a), Answered("manifest_seed", b),
             AnswerOf("manifest_seed", a) = AnswerOf("manifest_seed", b)
      PROVE  a = b
  <2>1. a.material = b.material /\ RecoveryContext(a.context) = RecoveryContext(b.context)
    BY <1>1, <1>3, <1>5, RecoveryContextExact, DerivedInjective DEF AnswerOf
  <2>2. a.context = b.context
    BY <1>3, <1>5, <2>1, RecoveryContextExact, SameFields
  <2> QED BY <1>3, <1>5, <2>1, <2>2, SameFields
<1> QED BY <1>2, <1>4, <1>5 DEF Exact

\* The items a bootstrap key is derived for.
ServerItems(a) == <<Bytes(a.deployment), Bytes(a.server)>>

\* They fix the deployment and the server.
LEMMA ServerItemsExact ==
  /\ \A a : AllItems(ServerItems(a))
  /\ \A a, b : ServerItems(a) = ServerItems(b) => a.deployment = b.deployment /\ a.server = b.server
<1>1. \A a : AllItems(ServerItems(a))
  BY TwoItems, LeafIsItem DEF ServerItems
<1>2. ASSUME NEW a, NEW b, ServerItems(a) = ServerItems(b) PROVE a.deployment = b.deployment /\ a.server = b.server
  <2>1. PICK v : v = ServerItems(a)
    OBVIOUS
  <2>2. v[1] = Bytes(a.deployment) /\ v[2] = Bytes(a.server)
    BY <2>1, TwoItems DEF ServerItems
  <2>3. v[1] = Bytes(b.deployment) /\ v[2] = Bytes(b.server)
    BY <1>2, <2>1, TwoItems DEF ServerItems
  <2> QED BY <2>2, <2>3, LeafInjective
<1> QED BY <1>1, <1>2

\* A key of the bootstrap secret, for a deployment and a server.
LEMMA BootstrapKeyExact == Exact("bootstrap_key")
<1>1. \A a : Answer([fn |-> "bootstrap_key", arg |-> a]) = Derived("pm-v1/bootstrap-key", a.secret, ServerItems(a))
  BY DEF Answer, DeriveBootstrapKey, ServerItems
<1>2. \A a : Bound([fn |-> "bootstrap_key", arg |-> a]) = a
  BY DEF Bound
<1>3. \A a : Answered("bootstrap_key", a) =>
        /\ HasFields(a, {"secret", "deployment", "server"})
        /\ Derived("pm-v1/bootstrap-key", a.secret, ServerItems(a)).ok
  BY <1>1 DEF Answered, HasArguments
<1>4. ASSUME NEW a, Answered("bootstrap_key", a)
      PROVE  Maker(AnswerOf("bootstrap_key", a)) = "bootstrap_key"
  BY <1>1, <1>3, <1>4, ServerItemsExact, DerivedShows DEF AnswerOf, KeyMaker
<1>5. ASSUME NEW a, NEW b, Answered("bootstrap_key", a), Answered("bootstrap_key", b),
             AnswerOf("bootstrap_key", a) = AnswerOf("bootstrap_key", b)
      PROVE  a = b
  <2>1. a.secret = b.secret /\ ServerItems(a) = ServerItems(b)
    BY <1>1, <1>3, <1>5, ServerItemsExact, DerivedInjective DEF AnswerOf
  <2>2. \A f \in {"secret", "deployment", "server"} : a[f] = b[f]
    BY <2>1, ServerItemsExact
  <2> QED BY <1>3, <1>5, <2>2, SameFields
<1> QED BY <1>2, <1>4, <1>5 DEF Exact

\* What identifies a credential.
CredentialItems(a) == <<Uint(a.method), Uint(a.kind), Bytes(a.authority), Bytes(a.raw)>>

\* It is fixed by its items.
LEMMA CredentialItemsExact ==
  /\ \A a : AllItems(CredentialItems(a))
  /\ \A a, b : CredentialItems(a) = CredentialItems(b) => \A f \in {"method", "kind", "authority", "raw"} : a[f] = b[f]
<1>1. \A a : AllItems(CredentialItems(a))
  BY FourItems, LeafIsItem DEF CredentialItems
<1>2. ASSUME NEW a, NEW b, CredentialItems(a) = CredentialItems(b)
      PROVE  \A f \in {"method", "kind", "authority", "raw"} : a[f] = b[f]
  <2>1. PICK v : v = CredentialItems(a)
    OBVIOUS
  <2>2. /\ v[1] = Uint(a.method) /\ v[2] = Uint(a.kind)
        /\ v[3] = Bytes(a.authority) /\ v[4] = Bytes(a.raw)
    BY <2>1, FourItems DEF CredentialItems
  <2>3. /\ v[1] = Uint(b.method) /\ v[2] = Uint(b.kind)
        /\ v[3] = Bytes(b.authority) /\ v[4] = Bytes(b.raw)
    BY <1>2, <2>1, FourItems DEF CredentialItems
  <2>4. a.method = b.method /\ a.kind = b.kind
    <3>1. Uint(a.method) = Uint(b.method) /\ Uint(a.kind) = Uint(b.kind)
      BY <2>2, <2>3
    <3> QED BY <3>1, LeafInjective
  <2>5. a.authority = b.authority /\ a.raw = b.raw
    <3>1. Bytes(a.authority) = Bytes(b.authority) /\ Bytes(a.raw) = Bytes(b.raw)
      BY <2>2, <2>3
    <3> QED BY <3>1, LeafInjective
  <2> QED BY <2>4, <2>5
<1> QED BY <1>1, <1>2

\* A hash of what identifies a credential.
LEMMA CredentialIdExact == Exact("credential_id")
<1>1. \A a : Answer([fn |-> "credential_id", arg |-> a]) = Hashed("pm-v1/auth-credential-id", CredentialItems(a))
  BY DEF Answer, CredentialIdHash, CredentialItems
<1>2. \A a : Bound([fn |-> "credential_id", arg |-> a]) = a
  BY DEF Bound
<1>3. \A a : Answered("credential_id", a) => HasFields(a, {"method", "kind", "authority", "raw"}) /\ Hashed("pm-v1/auth-credential-id", CredentialItems(a)).ok
  BY <1>1 DEF Answered, HasArguments
<1>4. ASSUME NEW a, Answered("credential_id", a)
      PROVE  Maker(AnswerOf("credential_id", a)) = "credential_id"
  BY <1>1, <1>3, <1>4, CredentialItemsExact, HashedShows DEF AnswerOf, HashMaker
<1>5. ASSUME NEW a, NEW b, Answered("credential_id", a), Answered("credential_id", b),
             AnswerOf("credential_id", a) = AnswerOf("credential_id", b)
      PROVE  a = b
  <2>1. CredentialItems(a) = CredentialItems(b)
    BY <1>1, <1>3, <1>5, CredentialItemsExact, HashedInjective DEF AnswerOf
  <2>2. \A f \in {"method", "kind", "authority", "raw"} : a[f] = b[f]
    BY <2>1, CredentialItemsExact
  <2> QED BY <1>3, <1>5, <2>2, SameFields
<1> QED BY <1>2, <1>4, <1>5 DEF Exact

\* What describes a recipient.
RecipientItems(a) == <<Uint(a.kem), Uint(a.kdf), Uint(a.aead), Bytes(a.device), Bytes(a.public)>>

\* It is fixed by its items.
LEMMA RecipientItemsExact ==
  /\ \A a : AllItems(RecipientItems(a))
  /\ \A a, b : RecipientItems(a) = RecipientItems(b) => \A f \in {"kem", "kdf", "aead", "device", "public"} : a[f] = b[f]
<1>1. \A a : AllItems(RecipientItems(a))
  BY FiveItems, LeafIsItem DEF RecipientItems
<1>2. ASSUME NEW a, NEW b, RecipientItems(a) = RecipientItems(b)
      PROVE  \A f \in {"kem", "kdf", "aead", "device", "public"} : a[f] = b[f]
  <2>1. PICK v : v = RecipientItems(a)
    OBVIOUS
  <2>2. /\ v[1] = Uint(a.kem) /\ v[2] = Uint(a.kdf) /\ v[3] = Uint(a.aead)
        /\ v[4] = Bytes(a.device) /\ v[5] = Bytes(a.public)
    BY <2>1, FiveItems DEF RecipientItems
  <2>3. /\ v[1] = Uint(b.kem) /\ v[2] = Uint(b.kdf) /\ v[3] = Uint(b.aead)
        /\ v[4] = Bytes(b.device) /\ v[5] = Bytes(b.public)
    BY <1>2, <2>1, FiveItems DEF RecipientItems
  <2>4. a.kem = b.kem /\ a.kdf = b.kdf
    <3>1. Uint(a.kem) = Uint(b.kem) /\ Uint(a.kdf) = Uint(b.kdf)
      BY <2>2, <2>3
    <3> QED BY <3>1, LeafInjective
  <2>5. a.aead = b.aead /\ a.device = b.device
    <3>1. Uint(a.aead) = Uint(b.aead) /\ Bytes(a.device) = Bytes(b.device)
      BY <2>2, <2>3
    <3> QED BY <3>1, LeafInjective
  <2>6. a.public = b.public
    <3>1. Bytes(a.public) = Bytes(b.public)
      BY <2>2, <2>3
    <3> QED BY <3>1, LeafInjective
  <2> QED BY <2>4, <2>5, <2>6
<1> QED BY <1>1, <1>2

\* A hash of what describes a recipient.
LEMMA RecipientExact == Exact("recipient")
<1>1. \A a : Answer([fn |-> "recipient", arg |-> a]) = Hashed("pm-v1/hpke-recipient", RecipientItems(a))
  BY DEF Answer, HpkeRecipientDescriptorHash, RecipientItems
<1>2. \A a : Bound([fn |-> "recipient", arg |-> a]) = a
  BY DEF Bound
<1>3. \A a : Answered("recipient", a) => HasFields(a, {"kem", "kdf", "aead", "device", "public"}) /\ Hashed("pm-v1/hpke-recipient", RecipientItems(a)).ok
  BY <1>1 DEF Answered, HasArguments
<1>4. ASSUME NEW a, Answered("recipient", a)
      PROVE  Maker(AnswerOf("recipient", a)) = "recipient"
  BY <1>1, <1>3, <1>4, RecipientItemsExact, HashedShows DEF AnswerOf, HashMaker
<1>5. ASSUME NEW a, NEW b, Answered("recipient", a), Answered("recipient", b),
             AnswerOf("recipient", a) = AnswerOf("recipient", b)
      PROVE  a = b
  <2>1. RecipientItems(a) = RecipientItems(b)
    BY <1>1, <1>3, <1>5, RecipientItemsExact, HashedInjective DEF AnswerOf
  <2>2. \A f \in {"kem", "kdf", "aead", "device", "public"} : a[f] = b[f]
    BY <2>1, RecipientItemsExact
  <2> QED BY <1>3, <1>5, <2>2, SameFields
<1> QED BY <1>2, <1>4, <1>5 DEF Exact

\* A hash fixes what it is of.
LEMMA ShaInjective == ASSUME NEW x, NEW y, Sha(x) = Sha(y) PROVE x = y
<1>1. [sha |-> x, len |-> 32].sha = [sha |-> y, len |-> 32].sha
  BY DEF Sha
<1> QED BY <1>1

\* A hash of an authorization request.
LEMMA RequestExact == Exact("request")
<1>1. \A a : Answer([fn |-> "request", arg |-> a]) = Ok(Sha(Preimage("pm-v1/authorization-request", a)))
  BY HashOfFacts DEF Answer, AuthorizationRequestHash
<1>2. \A a : Bound([fn |-> "request", arg |-> a]) = a
  BY DEF Bound
<1>3. \A a : Answered("request", a) => IsSequence(a)
  BY ListFacts DEF Answered, HasArguments
<1>4. ASSUME NEW a PROVE AnswerOf("request", a) = Sha(Preimage("pm-v1/authorization-request", a))
  <2>1. Answer([fn |-> "request", arg |-> a]) = Ok(Sha(Preimage("pm-v1/authorization-request", a)))
    BY <1>1
  <2> QED BY <2>1 DEF AnswerOf, Ok
<1>5. ASSUME NEW a, Answered("request", a)
      PROVE  Maker(AnswerOf("request", a)) = "request"
  BY <1>3, <1>4, <1>5, PreimageParts, HashShows DEF HashMaker
<1>6. ASSUME NEW a, NEW b, Answered("request", a), Answered("request", b),
             AnswerOf("request", a) = AnswerOf("request", b)
      PROVE  a = b
  <2>1. Preimage("pm-v1/authorization-request", a) = Preimage("pm-v1/authorization-request", b)
    BY <1>4, <1>6, ShaInjective
  <2> QED BY <1>3, <1>6, <2>1, PreimageInjective
<1> QED BY <1>2, <1>5, <1>6 DEF Exact

\* A hash of the payload of one.
LEMMA PayloadExact == Exact("payload")
<1>1. \A a : Answer([fn |-> "payload", arg |-> a]) = Ok(Sha(Preimage("pm-v1/authorization-payload", a)))
  BY HashOfFacts DEF Answer, AuthorizationPayloadHash
<1>2. \A a : Bound([fn |-> "payload", arg |-> a]) = a
  BY DEF Bound
<1>3. \A a : Answered("payload", a) => IsSequence(a)
  BY ListFacts DEF Answered, HasArguments
<1>4. ASSUME NEW a PROVE AnswerOf("payload", a) = Sha(Preimage("pm-v1/authorization-payload", a))
  <2>1. Answer([fn |-> "payload", arg |-> a]) = Ok(Sha(Preimage("pm-v1/authorization-payload", a)))
    BY <1>1
  <2> QED BY <2>1 DEF AnswerOf, Ok
<1>5. ASSUME NEW a, Answered("payload", a)
      PROVE  Maker(AnswerOf("payload", a)) = "payload"
  BY <1>3, <1>4, <1>5, PreimageParts, HashShows DEF HashMaker
<1>6. ASSUME NEW a, NEW b, Answered("payload", a), Answered("payload", b),
             AnswerOf("payload", a) = AnswerOf("payload", b)
      PROVE  a = b
  <2>1. Preimage("pm-v1/authorization-payload", a) = Preimage("pm-v1/authorization-payload", b)
    BY <1>4, <1>6, ShaInjective
  <2> QED BY <1>3, <1>6, <2>1, PreimageInjective
<1> QED BY <1>2, <1>5, <1>6 DEF Exact

\* A hash of the core of a recovery kit.
LEMMA KitCoreExact == Exact("kit_core")
<1>1. \A a : Answer([fn |-> "kit_core", arg |-> a]) = Ok(Sha(Preimage("pm-v1/recovery-kit-core", a)))
  BY HashOfFacts DEF Answer, RecoveryKitCoreHash
<1>2. \A a : Bound([fn |-> "kit_core", arg |-> a]) = a
  BY DEF Bound
<1>3. \A a : Answered("kit_core", a) => IsSequence(a)
  BY ListFacts DEF Answered, HasArguments
<1>4. ASSUME NEW a PROVE AnswerOf("kit_core", a) = Sha(Preimage("pm-v1/recovery-kit-core", a))
  <2>1. Answer([fn |-> "kit_core", arg |-> a]) = Ok(Sha(Preimage("pm-v1/recovery-kit-core", a)))
    BY <1>1
  <2> QED BY <2>1 DEF AnswerOf, Ok
<1>5. ASSUME NEW a, Answered("kit_core", a)
      PROVE  Maker(AnswerOf("kit_core", a)) = "kit_core"
  BY <1>3, <1>4, <1>5, PreimageParts, HashShows DEF HashMaker
<1>6. ASSUME NEW a, NEW b, Answered("kit_core", a), Answered("kit_core", b),
             AnswerOf("kit_core", a) = AnswerOf("kit_core", b)
      PROVE  a = b
  <2>1. Preimage("pm-v1/recovery-kit-core", a) = Preimage("pm-v1/recovery-kit-core", b)
    BY <1>4, <1>6, ShaInjective
  <2> QED BY <1>3, <1>6, <2>1, PreimageInjective
<1> QED BY <1>2, <1>5, <1>6 DEF Exact

\* A hash of the public key of a server.
LEMMA ServerExact == Exact("server")
<1>1. \A a : Answer([fn |-> "server", arg |-> a]) = ServerIdentityHashBytes(a)
  BY DEF Answer
<1>2. \A a : Bound([fn |-> "server", arg |-> a]) = a
  BY DEF Bound
<1>3. ASSUME NEW a, Answered("server", a)
      PROVE  AnswerOf("server", a) = Sha(<<CborHead("bytes", 32, a)>>)
  <2>1. ServerIdentityHashBytes(a).ok
    BY <1>1, <1>3 DEF Answered
  <2>2. ServerIdentityHashBytes(a) = Ok(ServerIdentityHash(a))
    BY <2>1 DEF ServerIdentityHashBytes, OfLength, Err
  <2> QED BY <1>1, <2>2 DEF AnswerOf, Ok, ServerIdentityHash
<1>4. ASSUME NEW a PROVE CborHead("bytes", 32, a).major = "bytes" /\ CborHead("bytes", 32, a).bytes = a
  BY DEF CborHead
<1>5. ASSUME NEW a, Answered("server", a)
      PROVE  Maker(AnswerOf("server", a)) = "server"
  <2>1. PICK z : z = <<CborHead("bytes", 32, a)>>
    OBVIOUS
  <2>2. z[1].major = "bytes"
    BY <1>4, <2>1
  <2>3. PICK hash : hash = [sha |-> z, len |-> 32]
    OBVIOUS
  <2>4. "argon" \notin DOMAIN hash /\ "kdf" \notin DOMAIN hash /\ hash.sha = z
    BY <2>3
  <2>5. Maker(hash) = "server"
    BY <2>2, <2>4 DEF Maker
  <2> QED BY <1>3, <1>5, <2>1, <2>3, <2>5 DEF Sha
<1>6. ASSUME NEW a, NEW b, Answered("server", a), Answered("server", b), AnswerOf("server", a) = AnswerOf("server", b)
      PROVE  a = b
  <2>1. PICK x, y : x = CborHead("bytes", 32, a) /\ y = CborHead("bytes", 32, b)
    OBVIOUS
  <2>2. <<x>> = <<y>>
    BY <1>3, <1>6, <2>1, ShaInjective
  <2>3. x = y
    BY <2>2
  <2> QED BY <1>4, <2>1, <2>3
<1> QED BY <1>2, <1>5, <1>6 DEF Exact

\* Items after items are items.
LEMMA JoinedItems ==
  ASSUME NEW v, NEW w, AllItems(v), AllItems(w)
  PROVE  AllItems(v \o w)
<1>1. PICK z : z = v \o w
  OBVIOUS
<1>2. Splits(z, v, w)
  BY <1>1 DEF AllItems, Splits
<1>3. /\ IsSequence(z) /\ Len(z) = Len(v) + Len(w) /\ Len(v) \in Nat /\ Len(w) \in Nat
      /\ \A i \in 1..Len(v) : z[i] = v[i]
      /\ \A i \in 1..Len(w) : z[Len(v) + i] = w[i]
  BY <1>2, SplitParts
<1>4. ASSUME NEW i \in 1..Len(z) PROVE IsItem(z[i])
  <2>1. CASE i <= Len(v)
    <3>1. i \in 1..Len(v)
      BY <1>3, <2>1
    <3> QED BY <1>3, <3>1 DEF AllItems
  <2>2. CASE ~(i <= Len(v))
    <3>1. i - Len(v) \in 1..Len(w) /\ Len(v) + (i - Len(v)) = i
      BY <1>3, <2>2
    <3>2. z[i] = w[i - Len(v)]
      BY <1>3, <3>1
    <3> QED BY <3>1, <3>2 DEF AllItems
  <2> QED BY <2>1, <2>2
<1> QED BY <1>1, <1>3, <1>4 DEF AllItems

\* What is committed to of a wrap of a device.
WrapItems(e) == <<Bytes(e.device), Uint(e.status), Bytes(e.envelope)>>

\* It is fixed by its items.
LEMMA WrapItemsExact ==
  /\ \A e : AllItems(WrapItems(e))
  /\ \A e, d : WrapItems(e) = WrapItems(d) => \A f \in {"device", "status", "envelope"} : e[f] = d[f]
<1>1. \A e : AllItems(WrapItems(e))
  BY ThreeItems, LeafIsItem DEF WrapItems
<1>2. ASSUME NEW e, NEW d, WrapItems(e) = WrapItems(d)
      PROVE  \A f \in {"device", "status", "envelope"} : e[f] = d[f]
  <2>1. PICK v : v = WrapItems(e)
    OBVIOUS
  <2>2. /\ v[1] = Bytes(e.device) /\ v[2] = Uint(e.status)
        /\ v[3] = Bytes(e.envelope)
    BY <2>1, ThreeItems DEF WrapItems
  <2>3. /\ v[1] = Bytes(d.device) /\ v[2] = Uint(d.status)
        /\ v[3] = Bytes(d.envelope)
    BY <1>2, <2>1, ThreeItems DEF WrapItems
  <2>4. e.device = d.device /\ e.status = d.status
    <3>1. Bytes(e.device) = Bytes(d.device) /\ Uint(e.status) = Uint(d.status)
      BY <2>2, <2>3
    <3> QED BY <3>1, LeafInjective
  <2>5. e.envelope = d.envelope
    <3>1. Bytes(e.envelope) = Bytes(d.envelope)
      BY <2>2, <2>3
    <3> QED BY <3>1, LeafInjective
  <2> QED BY <2>4, <2>5
<1> QED BY <1>1, <1>2

\* A hash of the wraps of the devices, in their order.
LEMMA DeviceWrapsExact == Exact("device_wraps")
<1> DEFINE Listed(a) == [i \in DOMAIN a |-> Array(WrapItems(a[i]))]
<1>1. \A a : Answer([fn |-> "device_wraps", arg |-> a]) = Hashed("pm-v1/device-wrap-set", Listed(a))
  BY DEF Answer, DeviceWrapSetRoot, WrapItems
<1>2. \A a : Bound([fn |-> "device_wraps", arg |-> a]) = [i \in DOMAIN a |-> <<a[i].device, a[i].status, a[i].envelope>>]
  BY DEF Bound
<1>3. \A a : Answered("device_wraps", a) => IsList(a) /\ Hashed("pm-v1/device-wrap-set", Listed(a)).ok
  <2> HIDE DEF Listed
  <2> QED BY <1>1 DEF Answered, HasArguments
<1>4. ASSUME NEW a, IsList(a)
      PROVE  AllItems(Listed(a)) /\ DOMAIN Listed(a) = DOMAIN a /\ \A i \in DOMAIN a : Listed(a)[i] = Array(WrapItems(a[i]))
  <2>1. PICK n \in Nat : n = Len(a) /\ DOMAIN a = 1..n
    BY <1>4, ListFacts
  <2>2. PICK v : v = [i \in 1..n |-> Array(WrapItems(a[i]))]
    OBVIOUS
  <2>3. v = Listed(a)
    BY <2>1, <2>2
  <2>4. v \in Seq(ToSet(v)) /\ Len(v) = n
    BY <2>2 DEF ToSet
  <2>5. IsSequence(v)
    BY <2>4, SeqIsSequence
  <2>6. \A i \in 1..n : v[i] = Array(WrapItems(a[i]))
    BY <2>2
  <2>7. AllItems(v)
    BY <2>4, <2>5, <2>6, WrapItemsExact, ArrayIsItem DEF AllItems
  <2>8. DOMAIN v = 1..n
    BY <2>2
  <2> QED BY <2>1, <2>3, <2>6, <2>7, <2>8
<1> HIDE DEF Listed
<1>5. ASSUME NEW a, Answered("device_wraps", a)
      PROVE  Maker(AnswerOf("device_wraps", a)) = "device_wraps"
  BY <1>1, <1>3, <1>4, <1>5, HashedShows DEF AnswerOf, HashMaker
<1>6. ASSUME NEW a, NEW b, Answered("device_wraps", a), Answered("device_wraps", b),
             AnswerOf("device_wraps", a) = AnswerOf("device_wraps", b)
      PROVE  Bound([fn |-> "device_wraps", arg |-> a]) = Bound([fn |-> "device_wraps", arg |-> b])
  <2>1. Listed(a) = Listed(b)
    BY <1>1, <1>3, <1>4, <1>6, HashedInjective DEF AnswerOf
  <2>2. DOMAIN a = DOMAIN b /\ \A i \in DOMAIN a : Array(WrapItems(a[i])) = Array(WrapItems(b[i]))
    BY <1>3, <1>4, <1>6, <2>1
  <2>3. \A i \in DOMAIN a : WrapItems(a[i]) = WrapItems(b[i])
    BY <2>2, WrapItemsExact, ArrayInjective
  <2>4. ASSUME NEW i \in DOMAIN a
        PROVE  <<a[i].device, a[i].status, a[i].envelope>> = <<b[i].device, b[i].status, b[i].envelope>>
    <3>1. a[i].device = b[i].device /\ a[i].status = b[i].status /\ a[i].envelope = b[i].envelope
      BY <2>3, WrapItemsExact
    <3> QED BY <3>1
  <2> QED BY <1>2, <2>2, <2>4
<1> QED BY <1>5, <1>6 DEF Exact

\* The items of a session policy fix it.
LEMMA SessionBodyExact ==
  /\ \A p : AllItems(SessionBody(p)) /\ Len(SessionBody(p)) = 5
  /\ \A p, q : SessionBody(p) = SessionBody(q) =>
       \A f \in {"mask", "absolute", "idle", "sessions"} : p[f] = q[f]
<1>1. \A p : AllItems(SessionBody(p)) /\ Len(SessionBody(p)) = 5
  BY FiveItems, LeafIsItem DEF SessionBody
<1>2. ASSUME NEW p, NEW q, SessionBody(p) = SessionBody(q)
      PROVE  \A f \in {"mask", "absolute", "idle", "sessions"} : p[f] = q[f]
  <2>1. PICK v : v = SessionBody(p)
    OBVIOUS
  <2>2. v[2] = Uint(p.mask) /\ v[3] = Uint(p.absolute) /\ v[4] = Uint(p.idle) /\ v[5] = Uint(p.sessions)
    BY <2>1, FiveItems DEF SessionBody
  <2>3. v[2] = Uint(q.mask) /\ v[3] = Uint(q.absolute) /\ v[4] = Uint(q.idle) /\ v[5] = Uint(q.sessions)
    BY <1>2, <2>1, FiveItems DEF SessionBody
  <2>4. p.mask = q.mask /\ p.absolute = q.absolute
    <3>1. Uint(p.mask) = Uint(q.mask) /\ Uint(p.absolute) = Uint(q.absolute)
      BY <2>2, <2>3
    <3> QED BY <3>1, LeafInjective
  <2>5. p.idle = q.idle /\ p.sessions = q.sessions
    <3>1. Uint(p.idle) = Uint(q.idle) /\ Uint(p.sessions) = Uint(q.sessions)
      BY <2>2, <2>3
    <3> QED BY <3>1, LeafInjective
  <2> QED BY <2>4, <2>5
<1> QED BY <1>1, <1>2

\* What is committed to of a session: the hash of its policy, then the policy, then the times.
SessionItems(a) ==
  <<Uint(1), Bytes(PolicyHash(a.policy).val)>> \o Tail(SessionBody(a.policy))
    \o <<Uint(a.issued), Uint(a.issued + a.policy.absolute), Uint(a.issued + a.policy.idle)>>

\* The hash of the policy is its second item, and the time of issue its seventh.
LEMMA SessionItemsParts ==
  ASSUME NEW a
  PROVE  /\ AllItems(SessionItems(a))
         /\ SessionItems(a)[2] = Bytes(PolicyHash(a.policy).val) /\ SessionItems(a)[7] = Uint(a.issued)
<1>1. PICK x, y, z : x = Bytes(PolicyHash(a.policy).val) /\ y = Uint(a.issued + a.policy.absolute)
                     /\ z = Uint(a.issued + a.policy.idle)
  OBVIOUS
<1>2. PICK first, body, last : first = <<Uint(1), x>> /\ body = SessionBody(a.policy) /\ last = <<Uint(a.issued), y, z>>
  OBVIOUS
<1>3. AllItems(first) /\ Len(first) = 2 /\ first[2] = x
  BY <1>1, <1>2, TwoItems, LeafIsItem
<1>4. AllItems(last) /\ Len(last) = 3 /\ last[1] = Uint(a.issued)
  <2>1. IsItem(Uint(a.issued)) /\ IsItem(y) /\ IsItem(z)
    BY <1>1, LeafIsItem
  <2> QED BY <1>2, <2>1, ThreeItems
<1>5. AllItems(body) /\ Len(body) = 5
  BY <1>2, SessionBodyExact
<1>6. PICK rest : rest = Tail(body) /\ AllItems(rest) /\ Len(rest) = 4
  <2>1. body \in Seq(ToSet(body)) /\ body # <<>>
    <3>1. Len(<<>>) = 0 /\ Len(body) = 5
      BY <1>5
    <3>2. body # <<>>
      BY <3>1
    <3> QED BY <1>5, <3>2, SequenceOf DEF AllItems
  <2>2. PICK t, S : t = Tail(body) /\ S = ToSet(body)
    OBVIOUS
  <2>3. t \in Seq(S) /\ Len(t) = 4 /\ \A i \in 1..4 : t[i] = body[i + 1]
    <3>1. body \in Seq(S) /\ body # <<>> /\ t = Tail(body)
      BY <2>1, <2>2
    <3>2. t \in Seq(S) /\ Len(t) = Len(body) - 1 /\ \A i \in 1..Len(t) : t[i] = body[i + 1]
      BY <3>1, HeadTailProperties
    <3> QED BY <1>5, <3>2
  <2>4. IsSequence(t)
    BY <2>3, SeqIsSequence
  <2>5. \A i \in 1..4 : i + 1 \in 1..5
    OBVIOUS
  <2>6. \A i \in 1..4 : IsItem(t[i])
    BY <1>5, <2>3, <2>5 DEF AllItems
  <2> QED BY <2>2, <2>3, <2>4, <2>6 DEF AllItems
<1>7. PICK front, all : front = first \o rest /\ all = front \o last
  OBVIOUS
<1>8. Splits(front, first, rest) /\ AllItems(front)
  BY <1>3, <1>6, <1>7, JoinedItems DEF AllItems, Splits
<1>9. Splits(all, front, last) /\ AllItems(all)
  BY <1>4, <1>7, <1>8, JoinedItems DEF AllItems, Splits
<1>10. Len(front) = 6 /\ front[2] = x
  <2>1. 2 \in 1..Len(first)
    BY <1>3
  <2>2. Len(front) = Len(first) + Len(rest) /\ \A i \in 1..Len(first) : front[i] = first[i]
    BY <1>8, SplitParts
  <2>3. front[2] = first[2]
    BY <2>1, <2>2
  <2> QED BY <1>3, <1>6, <2>2, <2>3
<1>11. all[2] = x /\ all[7] = Uint(a.issued)
  <2>1. 2 \in 1..Len(front) /\ 1 \in 1..Len(last) /\ Len(front) + 1 = 7
    BY <1>4, <1>10
  <2>2. (\A i \in 1..Len(front) : all[i] = front[i]) /\ \A i \in 1..Len(last) : all[Len(front) + i] = last[i]
    BY <1>9, SplitParts
  <2>3. all[2] = front[2] /\ all[Len(front) + 1] = last[1]
    BY <2>1, <2>2
  <2> QED BY <1>4, <1>10, <2>1, <2>3
<1>12. all = SessionItems(a)
  BY <1>1, <1>2, <1>6, <1>7 DEF SessionItems
<1> QED BY <1>1, <1>9, <1>11, <1>12

\* A hash of what a session was granted.
LEMMA SessionExact == Exact("session")
<1>1. \A a : Answer([fn |-> "session", arg |-> a]) = DeriveSessionResult(a.policy, a.issued)
  BY DEF Answer
<1>2. \A a : Bound([fn |-> "session", arg |-> a]) = a
  BY DEF Bound
<1>3. ASSUME NEW a, Answered("session", a)
      PROVE  /\ HasFields(a, {"policy", "issued"}) /\ HasFields(a.policy, {"mask", "absolute", "idle", "sessions"})
             /\ PolicyHash(a.policy).ok
             /\ AnswerOf("session", a) = Hashed("pm-v1/session-policy-result", SessionItems(a)).val
             /\ Hashed("pm-v1/session-policy-result", SessionItems(a)).ok
  <2>1. PICK ret : ret = DeriveSessionResult(a.policy, a.issued)
    OBVIOUS
  <2>2. ret.ok /\ AnswerOf("session", a) = ret.val
    BY <1>1, <1>3, <2>1 DEF Answered, AnswerOf
  <2>3. PICK hash : hash = Hashed("pm-v1/session-policy-result", SessionItems(a))
    OBVIOUS
  <2>4. PolicyHash(a.policy).ok /\ ret = hash
    BY <2>1, <2>2, <2>3 DEF DeriveSessionResult, SessionItems, Err
  <2>5. HasFields(a, {"policy", "issued"}) /\ HasFields(a.policy, {"mask", "absolute", "idle", "sessions"})
    BY <1>3 DEF Answered, HasArguments
  <2> QED BY <2>2, <2>3, <2>4, <2>5
<1>4. ASSUME NEW a, Answered("session", a)
      PROVE  Maker(AnswerOf("session", a)) = "session"
  <2>1. PICK s : s = SessionItems(a)
    OBVIOUS
  <2>2. AllItems(s)
    BY <2>1, SessionItemsParts
  <2>3. /\ AnswerOf("session", a) = Hashed("pm-v1/session-policy-result", s).val
        /\ Hashed("pm-v1/session-policy-result", s).ok
    BY <1>3, <1>4, <2>1
  <2>4. Maker(AnswerOf("session", a)) = HashMaker("pm-v1/session-policy-result")
    BY <2>2, <2>3, HashedShows
  <2> QED BY <2>4 DEF HashMaker
<1>5. ASSUME NEW a, NEW b, Answered("session", a), Answered("session", b), AnswerOf("session", a) = AnswerOf("session", b)
      PROVE  a = b
  <2>1. PICK x, y : x = SessionItems(a) /\ y = SessionItems(b)
    OBVIOUS
  <2>2. x = y
    <3>1. AllItems(x) /\ AllItems(y)
      BY <2>1, SessionItemsParts
    <3>2. /\ Hashed("pm-v1/session-policy-result", x).ok /\ Hashed("pm-v1/session-policy-result", y).ok
          /\ Hashed("pm-v1/session-policy-result", x).val = Hashed("pm-v1/session-policy-result", y).val
      BY <1>3, <1>5, <2>1
    <3> QED BY <3>1, <3>2, HashedInjective
  <2>3. Bytes(PolicyHash(a.policy).val) = Bytes(PolicyHash(b.policy).val) /\ Uint(a.issued) = Uint(b.issued)
    BY <2>1, <2>2, SessionItemsParts
  <2>4. PolicyHash(a.policy).val = PolicyHash(b.policy).val /\ a.issued = b.issued
    BY <2>3, LeafInjective
  <2>5. SessionBody(a.policy) = SessionBody(b.policy)
    BY <1>3, <1>5, <2>4, SessionBodyExact, HashedInjective DEF PolicyHash
  <2>6. a.policy = b.policy
    BY <1>3, <1>5, <2>5, SessionBodyExact, SameFields
  <2> QED BY <1>3, <1>5, <2>4, <2>6, SameFields
<1> QED BY <1>2, <1>4, <1>5 DEF Exact

\* The fields of the context of an unlock wrap.
WrapContextFields == {"deployment", "vault", "generation", "salt", "memory", "iterations", "parallelism", "nonce"}

\* The fields of an unlock wrap are items, in their order.
LEMMA WrapFieldsParts ==
  ASSUME NEW c
  PROVE  \A v : v = WrapFields(c) =>
           /\ AllItems(v) /\ IsSequence(v) /\ Len(v) = 10
           /\ v[3] = Bytes(c.deployment) /\ v[4] = Bytes(c.vault) /\ v[5] = Uint(c.generation) /\ v[6] = Bytes(c.salt)
           /\ v[7] = Uint(c.memory) /\ v[8] = Uint(c.iterations) /\ v[9] = Uint(c.parallelism) /\ v[10] = Bytes(c.nonce)
<1> SUFFICES ASSUME NEW v, v = WrapFields(c)
             PROVE  /\ AllItems(v) /\ IsSequence(v) /\ Len(v) = 10
                    /\ v[3] = Bytes(c.deployment) /\ v[4] = Bytes(c.vault) /\ v[5] = Uint(c.generation)
                    /\ v[6] = Bytes(c.salt) /\ v[7] = Uint(c.memory) /\ v[8] = Uint(c.iterations)
                    /\ v[9] = Uint(c.parallelism) /\ v[10] = Bytes(c.nonce)
  OBVIOUS
<1>1. PICK one, d, w, g, s, m, i, p, n :
        /\ one = Uint(1) /\ d = Bytes(c.deployment) /\ w = Bytes(c.vault) /\ g = Uint(c.generation)
        /\ s = Bytes(c.salt) /\ m = Uint(c.memory) /\ i = Uint(c.iterations) /\ p = Uint(c.parallelism)
        /\ n = Bytes(c.nonce)
  OBVIOUS
<1>2. v = <<one, one, d, w, g, s, m, i, p, n>>
  BY <1>1 DEF WrapFields
<1>3. /\ IsItem(one) /\ IsItem(d) /\ IsItem(w) /\ IsItem(g) /\ IsItem(s) /\ IsItem(m) /\ IsItem(i) /\ IsItem(p)
      /\ IsItem(n)
  BY <1>1, LeafIsItem
<1>4. /\ IsSequence(v) /\ Len(v) = 10 /\ v[3] = d /\ v[4] = w /\ v[5] = g /\ v[6] = s
      /\ v[7] = m /\ v[8] = i /\ v[9] = p /\ v[10] = n
  BY <1>2, TenItems
<1>5. AllItems(v)
  BY <1>2, <1>3, TenItems
<1> QED BY <1>1, <1>4, <1>5

\* They fix it.
LEMMA WrapFieldsExact ==
  ASSUME NEW c, NEW d, NEW v, v = WrapFields(c), v = WrapFields(d)
  PROVE  \A f \in WrapContextFields : c[f] = d[f]
<1>1. /\ v[3] = Bytes(c.deployment) /\ v[4] = Bytes(c.vault) /\ v[5] = Uint(c.generation) /\ v[6] = Bytes(c.salt)
      /\ v[7] = Uint(c.memory) /\ v[8] = Uint(c.iterations) /\ v[9] = Uint(c.parallelism) /\ v[10] = Bytes(c.nonce)
  BY WrapFieldsParts
<1>2. /\ v[3] = Bytes(d.deployment) /\ v[4] = Bytes(d.vault) /\ v[5] = Uint(d.generation) /\ v[6] = Bytes(d.salt)
      /\ v[7] = Uint(d.memory) /\ v[8] = Uint(d.iterations) /\ v[9] = Uint(d.parallelism) /\ v[10] = Bytes(d.nonce)
  BY WrapFieldsParts
<1>3. c.deployment = d.deployment /\ c.vault = d.vault
  <2>1. Bytes(c.deployment) = Bytes(d.deployment) /\ Bytes(c.vault) = Bytes(d.vault)
    BY <1>1, <1>2
  <2> QED BY <2>1, LeafInjective
<1>4. c.generation = d.generation /\ c.salt = d.salt
  <2>1. Uint(c.generation) = Uint(d.generation) /\ Bytes(c.salt) = Bytes(d.salt)
    BY <1>1, <1>2
  <2> QED BY <2>1, LeafInjective
<1>5. c.memory = d.memory /\ c.iterations = d.iterations
  <2>1. Uint(c.memory) = Uint(d.memory) /\ Uint(c.iterations) = Uint(d.iterations)
    BY <1>1, <1>2
  <2> QED BY <2>1, LeafInjective
<1>6. c.parallelism = d.parallelism /\ c.nonce = d.nonce
  <2>1. Uint(c.parallelism) = Uint(d.parallelism) /\ Bytes(c.nonce) = Bytes(d.nonce)
    BY <1>1, <1>2
  <2> QED BY <2>1, LeafInjective
<1> QED BY <1>3, <1>4, <1>5, <1>6 DEF WrapContextFields

\* What is sealed into a wrap.
SealedRoot(a) ==
  SealRecord(DeriveUnlockKey(a.password, a.context).val, a.context.nonce, AadPreimage(a.context).val, a.root, V1)

\* The items of a wrap: its fields, and the root key sealed.
WrapItemsOf(a) == Append(WrapFields(a.context), Bytes(SealedRoot(a).val))

\* They are the fields, and then the ciphertext.
LEMMA WrapItemsOfParts ==
  ASSUME NEW a
  PROVE  /\ AllItems(WrapItemsOf(a)) /\ Len(WrapItemsOf(a)) = 11 /\ WrapItemsOf(a)[11] = Bytes(SealedRoot(a).val)
         /\ \A i \in 1..10 : WrapItemsOf(a)[i] = WrapFields(a.context)[i]
<1>1. PICK v, x, w : v = WrapFields(a.context) /\ x = Bytes(SealedRoot(a).val) /\ w = Append(v, x)
  OBVIOUS
<1>2. AllItems(v) /\ IsSequence(v) /\ Len(v) = 10
  BY <1>1, WrapFieldsParts
<1>3. /\ IsSequence(w) /\ Len(w) = Len(v) + 1 /\ w[Len(v) + 1] = x /\ \A i \in 1..Len(v) : w[i] = v[i]
  <2>1. w = Append(v, x) /\ IsSequence(v)
    BY <1>1, <1>2
  <2> QED BY <2>1, Appended
<1>4. IsSequence(w) /\ Len(w) = 11 /\ w[11] = x /\ \A i \in 1..10 : w[i] = v[i]
  BY <1>2, <1>3
<1>5. \A i \in 1..11 : i = 11 \/ i \in 1..10
  OBVIOUS
<1>6. IsItem(x)
  BY <1>1, LeafIsItem
<1>7. AllItems(w)
  BY <1>2, <1>4, <1>5, <1>6 DEF AllItems
<1> QED BY <1>1, <1>4, <1>7 DEF WrapItemsOf

\* A wrap that is made is the evidence of its items.
LEMMA UnlockWrapFacts ==
  ASSUME NEW a, Answer([fn |-> "unlock_wrap", arg |-> a]).ok
  PROVE  /\ DeriveUnlockKey(a.password, a.context).ok /\ SealedRoot(a).ok
         /\ Answer([fn |-> "unlock_wrap", arg |-> a]).val = Sha(Encoding(Array(WrapItemsOf(a))))
<1>1. PICK key, wrap : key = DeriveUnlockKey(a.password, a.context) /\ wrap = SealUnlockWrap(key.val, a.context, a.root)
  OBVIOUS
<1>2. Answer([fn |-> "unlock_wrap", arg |-> a]) =
        IF ~key.ok THEN key ELSE IF wrap.ok THEN Ok(UnlockWrapHash(wrap.val)) ELSE wrap
  BY <1>1 DEF Answer
<1>3. key.ok /\ wrap.ok /\ Answer([fn |-> "unlock_wrap", arg |-> a]).val = Sha(wrap.val)
  BY <1>2 DEF Ok, UnlockWrapHash
<1>4. PICK sealed, v, evidence : sealed = SealedRoot(a) /\ v = WrapItemsOf(a) /\ evidence = Evidence(Array(v))
  OBVIOUS
<1>5. sealed.ok /\ wrap = evidence
  BY <1>1, <1>3, <1>4 DEF SealUnlockWrap, SealedRoot, WrapItemsOf
<1>6. evidence \in {Ok(Encoding(Array(v))), Err("LimitExceeded")}
  BY <1>4, WrapItemsOfParts, EvidenceFacts
<1>7. evidence.val = Encoding(Array(v))
  BY <1>3, <1>5, <1>6 DEF Ok, Err
<1> QED BY <1>1, <1>3, <1>4, <1>5, <1>7

\* A hash of the wrap of the root key by the password's.
LEMMA UnlockWrapExact == Exact("unlock_wrap")
<1>1. \A a : Bound([fn |-> "unlock_wrap", arg |-> a]) = a
  BY DEF Bound
<1>2. ASSUME NEW a, Answered("unlock_wrap", a)
      PROVE  /\ HasFields(a, {"password", "root", "context"}) /\ HasFields(a.context, WrapContextFields)
             /\ DeriveUnlockKey(a.password, a.context).ok /\ SealedRoot(a).ok
             /\ AnswerOf("unlock_wrap", a) = Sha(Encoding(Array(WrapItemsOf(a))))
  <2>1. HasFields(a, {"password", "root", "context"}) /\ HasFields(a.context, WrapContextFields)
    BY <1>2 DEF Answered, HasArguments, WrapContextFields
  <2> QED BY <1>2, <2>1, UnlockWrapFacts DEF Answered, AnswerOf
<1>3. ASSUME NEW a, Answered("unlock_wrap", a)
      PROVE  Maker(AnswerOf("unlock_wrap", a)) = "unlock_wrap"
  <2>1. PICK v, doc : v = Array(WrapItemsOf(a)) /\ doc = Encoding(v)
    OBVIOUS
  <2>2. IsItem(v) /\ v[1].kind = "array" /\ 1 \in 1..Len(v)
    <3>1. PICK s : s = WrapItemsOf(a) /\ AllItems(s)
      BY WrapItemsOfParts
    <3>2. PICK first, rest : first = [kind |-> "array", n |-> Len(s)] /\ rest = FlattenSeq(s)
      OBVIOUS
    <3>3. Splits(v, <<first>>, rest)
      BY <2>1, <3>1, <3>2, ArrayParts
    <3>4. v[1] = first /\ Len(rest) \in Nat /\ Len(v) = 1 + Len(rest)
      BY <3>3, StartsWith
    <3>5. 1 \in 1..Len(v)
      BY <3>4
    <3>6. v[1].kind = "array"
      BY <3>2, <3>4
    <3>7. IsItem(v)
      BY <2>1, <3>1, ArrayIsItem
    <3> QED BY <3>5, <3>6, <3>7
  <2>3. doc[1] = HeadOf(v[1])
    BY <2>1, <2>2, EncodingIsSequence DEF IsItem, AreItems
  <2>4. doc[1].major = "array"
    BY <2>2, <2>3 DEF HeadOf, CborHead
  <2>5. PICK hash : hash = [sha |-> doc, len |-> 32]
    OBVIOUS
  <2>6. "argon" \notin DOMAIN hash /\ "kdf" \notin DOMAIN hash /\ hash.sha = doc
    BY <2>5
  <2>7. Maker(hash) = "unlock_wrap"
    BY <2>4, <2>6 DEF Maker
  <2> QED BY <1>2, <1>3, <2>1, <2>5, <2>7 DEF Sha
<1>4. ASSUME NEW a, NEW b, Answered("unlock_wrap", a), Answered("unlock_wrap", b),
             AnswerOf("unlock_wrap", a) = AnswerOf("unlock_wrap", b)
      PROVE  a = b
  <2>1. PICK v, w : v = WrapItemsOf(a) /\ w = WrapItemsOf(b)
    OBVIOUS
  <2>2. v = w
    <3>1. AllItems(v) /\ AllItems(w)
      <4>1. AllItems(WrapItemsOf(a)) /\ AllItems(WrapItemsOf(b))
        BY Zenon, WrapItemsOfParts
      <4> QED BY Zenon, <2>1, <4>1
    <3>2. Encoding(Array(v)) = Encoding(Array(w))
      BY <1>2, <1>4, <2>1, ShaInjective
    <3> QED BY <3>1, <3>2, EvidenceInjective
  <2>3. SealedRoot(a).val = SealedRoot(b).val
    <3>1. Bytes(SealedRoot(a).val) = Bytes(SealedRoot(b).val)
      BY ZenonT(60), <2>1, <2>2, WrapItemsOfParts
    <3> QED BY <3>1, LeafInjective
  <2>4. WrapFields(a.context) = WrapFields(b.context)
    <3>1. PICK x, y : x = WrapFields(a.context) /\ y = WrapFields(b.context)
      OBVIOUS
    <3>2. IsSequence(x) /\ Len(x) = 10 /\ IsSequence(y) /\ Len(y) = 10
      BY <3>1, WrapFieldsParts
    <3>3. ASSUME NEW i \in 1..10 PROVE x[i] = y[i]
      <4>1. v[i] = x[i]
        BY <2>1, <3>1, WrapItemsOfParts
      <4>2. w[i] = y[i]
        BY <2>1, <3>1, WrapItemsOfParts
      <4> QED BY <2>2, <4>1, <4>2
    <3> QED BY <3>1, <3>2, <3>3, SameSequence
  <2>5. a.context = b.context
    BY <1>2, <1>4, <2>4, WrapFieldsExact, SameFields
  <2>6. PICK k, l : k = DeriveUnlockKey(a.password, a.context) /\ l = DeriveUnlockKey(b.password, b.context)
    OBVIOUS
  <2>7. /\ SealedRoot(a).val = [aead |-> k.val, nonce |-> a.context.nonce, aad |-> AadPreimage(a.context).val,
                                msg |-> a.root, len |-> a.root.len + 16]
        /\ SealedRoot(b).val = [aead |-> l.val, nonce |-> b.context.nonce, aad |-> AadPreimage(b.context).val,
                                msg |-> b.root, len |-> b.root.len + 16]
    <3>1. SealedRoot(a).ok /\ SealedRoot(b).ok
      BY <1>2, <1>4
    <3> QED BY <2>6, <3>1 DEF SealedRoot, SealRecord, Ok, Err
  <2>8. k.val = l.val /\ a.root = b.root
    <3>1. SealedRoot(a).val.aead = SealedRoot(b).val.aead /\ SealedRoot(a).val.msg = SealedRoot(b).val.msg
      BY <2>3
    <3> QED BY <2>7, <3>1
  <2>9. k.ok /\ l.ok
    BY <1>2, <1>4, <2>6
  <2>10. a.password = b.password
    <3>1. k = Derived("pm-v1/unlock-wrap-key", a.password, OwnerItems(a.context))
          /\ l = Derived("pm-v1/unlock-wrap-key", b.password, OwnerItems(b.context))
      BY <2>6 DEF DeriveUnlockKey, OwnerItems
    <3> QED BY <2>8, <2>9, <3>1, OwnerItemsExact, DerivedInjective
  <2> QED BY <1>2, <1>4, <2>5, <2>8, <2>10, SameFields
<1> QED BY <1>1, <1>3, <1>4 DEF Exact

\* The items of a list are items of an array.
LEMMA ListedItems ==
  ASSUME NEW l, IsList(l), NEW v, v = [i \in DOMAIN l |-> v[i]], \A i \in DOMAIN l : IsItem(v[i])
  PROVE  AllItems(v) /\ DOMAIN v = DOMAIN l
<1>1. PICK n \in Nat : n = Len(l) /\ DOMAIN l = 1..n
  BY ListFacts
<1>2. v = [i \in 1..n |-> v[i]]
  BY <1>1
<1>3. IsSequence(v)
  BY <1>2 DEF IsSequence
<1>4. DOMAIN v = 1..Len(v)
  BY <1>3, SequenceOf
<1>5. DOMAIN v = DOMAIN l
  OBVIOUS
<1> QED BY <1>3, <1>4, <1>5 DEF AllItems

\* The fields of the core that have these names.
CoreFields(s, names) ==
  [i \in DOMAIN names |-> IF names[i] \in CoreNumbers THEN Uint(s[names[i]]) ELSE Bytes(s[names[i]])]

\* They are items, one for each name, and fix the fields.
LEMMA CoreFieldsExact ==
  ASSUME NEW names, IsSequence(names), NEW s, NEW t
  PROVE  /\ AllItems(CoreFields(s, names)) /\ Len(CoreFields(s, names)) = Len(names)
         /\ CoreFields(s, names) = CoreFields(t, names) => \A f \in ToSet(names) : s[f] = t[f]
<1>1. PICK n \in Nat : n = Len(names) /\ DOMAIN names = 1..n
  BY SequenceOf
<1>2. PICK v, w : v = CoreFields(s, names) /\ w = CoreFields(t, names)
  OBVIOUS
<1>3. /\ v = [i \in 1..n |-> v[i]]
      /\ \A i \in 1..n : v[i] = IF names[i] \in CoreNumbers THEN Uint(s[names[i]]) ELSE Bytes(s[names[i]])
      /\ \A i \in 1..n : w[i] = IF names[i] \in CoreNumbers THEN Uint(t[names[i]]) ELSE Bytes(t[names[i]])
  BY <1>1, <1>2 DEF CoreFields
<1>4. IsSequence(v)
  BY <1>3 DEF IsSequence
<1>5. DOMAIN v = 1..n
  BY <1>3
<1>6. Len(v) = n
  <2>1. DOMAIN v = 1..Len(v) /\ Len(v) \in Nat
    BY <1>4, SequenceOf
  <2> QED BY <1>5, <2>1
<1>7. AllItems(v)
  <2>1. ASSUME NEW i \in 1..n PROVE IsItem(v[i])
    BY <1>3, LeafIsItem
  <2> QED BY <1>4, <1>6, <2>1 DEF AllItems
<1>8. ASSUME v = w, NEW f \in ToSet(names) PROVE s[f] = t[f]
  <2>1. PICK i \in 1..n : f = names[i]
    BY <1>1 DEF ToSet
  <2>2. CASE f \in CoreNumbers
    <3>1. Uint(s[f]) = Uint(t[f])
      BY <1>3, <1>8, <2>1, <2>2
    <3> QED BY <3>1, LeafInjective
  <2>3. CASE f \notin CoreNumbers
    <3>1. Bytes(s[f]) = Bytes(t[f])
      BY <1>3, <1>8, <2>1, <2>3
    <3> QED BY <3>1, LeafInjective
  <2> QED BY <2>2, <2>3
<1> QED BY <1>1, <1>2, <1>6, <1>7, <1>8

\* An authentication method and its kind.
MethodItems(m) == <<Uint(m[1]), Uint(m[2])>>

\* It is fixed by its items.
LEMMA MethodItemsExact ==
  /\ \A m : AllItems(MethodItems(m))
  /\ \A m, n : MethodItems(m) = MethodItems(n) => m[1] = n[1] /\ m[2] = n[2]
<1>1. \A m : AllItems(MethodItems(m))
  BY TwoItems, LeafIsItem DEF MethodItems
<1>2. ASSUME NEW m, NEW n, MethodItems(m) = MethodItems(n) PROVE m[1] = n[1] /\ m[2] = n[2]
  <2>1. PICK v : v = MethodItems(m)
    OBVIOUS
  <2>2. v[1] = Uint(m[1]) /\ v[2] = Uint(m[2])
    BY <2>1, TwoItems DEF MethodItems
  <2>3. v[1] = Uint(n[1]) /\ v[2] = Uint(n[2])
    BY <1>2, <2>1, TwoItems DEF MethodItems
  <2>4. Uint(m[1]) = Uint(n[1]) /\ Uint(m[2]) = Uint(n[2])
    BY <2>2, <2>3
  <2> QED BY <2>4, LeafInjective
<1> QED BY <1>1, <1>2

\* The item of the methods, and of the devices.
MethodsItem(s) == Array([i \in DOMAIN s.methods |-> Array(MethodItems(s.methods[i]))])
DevicesItem(s) == Array([i \in DOMAIN s.devices |-> DeviceItem(s.devices[i])])

\* The methods are an item, that fixes them.
LEMMA MethodsItemExact ==
  ASSUME NEW s, IsList(s.methods), \A i \in DOMAIN s.methods : s.methods[i] = <<s.methods[i][1], s.methods[i][2]>>
  PROVE  /\ IsItem(MethodsItem(s))
         /\ \A t : /\ IsList(t.methods) /\ \A i \in DOMAIN t.methods : t.methods[i] = <<t.methods[i][1], t.methods[i][2]>>
                   /\ MethodsItem(s) = MethodsItem(t)
                   => s.methods = t.methods
<1> DEFINE Listed(l) == [i \in DOMAIN l |-> Array(MethodItems(l[i]))]
<1>1. ASSUME NEW l, IsList(l) PROVE AllItems(Listed(l)) /\ DOMAIN Listed(l) = DOMAIN l
  <2>1. PICK v : v = Listed(l)
    OBVIOUS
  <2>2. v = [i \in DOMAIN l |-> v[i]] /\ \A i \in DOMAIN l : v[i] = Array(MethodItems(l[i]))
    BY <2>1
  <2>3. \A i \in DOMAIN l : IsItem(v[i])
    BY <2>2, MethodItemsExact, ArrayIsItem
  <2>4. AllItems(v) /\ DOMAIN v = DOMAIN l
    BY <1>1, <2>2, <2>3, ListedItems
  <2> QED BY <2>1, <2>4
<1>2. ASSUME NEW l PROVE \A i \in DOMAIN l : Listed(l)[i] = Array(MethodItems(l[i]))
  OBVIOUS
<1>3. \A t : MethodsItem(t) = Array(Listed(t.methods))
  BY DEF MethodsItem
<1> HIDE DEF Listed
<1>4. IsItem(MethodsItem(s))
  BY <1>1, <1>3, ArrayIsItem
<1>5. ASSUME NEW t, IsList(t.methods), \A i \in DOMAIN t.methods : t.methods[i] = <<t.methods[i][1], t.methods[i][2]>>,
             MethodsItem(s) = MethodsItem(t)
      PROVE  s.methods = t.methods
  <2>1. PICK l, m : l = s.methods /\ m = t.methods
    OBVIOUS
  <2>2. Listed(l) = Listed(m)
    BY <1>1, <1>3, <1>5, <2>1, ArrayInjective
  <2>3. DOMAIN l = DOMAIN m
    BY <1>1, <1>5, <2>1, <2>2
  <2>4. ASSUME NEW i \in DOMAIN l PROVE l[i] = m[i]
    <3>1. Array(MethodItems(l[i])) = Array(MethodItems(m[i]))
      BY <1>2, <2>2, <2>3
    <3>2. MethodItems(l[i]) = MethodItems(m[i])
      BY <3>1, MethodItemsExact, ArrayInjective
    <3>3. l[i][1] = m[i][1] /\ l[i][2] = m[i][2]
      BY <3>2, MethodItemsExact
    <3>4. l[i] = <<l[i][1], l[i][2]>> /\ m[i] = <<m[i][1], m[i][2]>>
      BY <1>5, <2>1, <2>3
    <3> QED BY <3>3, <3>4
  <2>5. l = [i \in DOMAIN l |-> l[i]] /\ m = [i \in DOMAIN m |-> m[i]]
    BY <1>5, <2>1, ListFacts, SequenceOf
  <2> QED BY <2>1, <2>3, <2>4, <2>5
<1> QED BY <1>4, <1>5

IsDevice(d) == HasFields(d, DeviceFields) /\ {d.backupEligible, d.backupState} \subseteq BOOLEAN

\* The items of the credential of a device, and of the device.
CredentialOf(d) ==
  <<Uint(d.method), Bytes(d.credential), Bytes(d.x), Bytes(d.y), Uint(d.signCount), Bool(d.backupEligible), Bool(d.backupState)>>
DeviceItems(d) ==
  <<Bytes(d.device), Uint(d.status), Array(CredentialOf(d)), Bytes(d.wrapPublic), Uint(d.mask), Uint(d.revoked), Uint(d.enrolled)>>

\* A credential is items, in their order.
LEMMA CredentialOfParts ==
  ASSUME NEW d, IsDevice(d)
  PROVE  \A v : v = CredentialOf(d) =>
           /\ AllItems(v)
           /\ v[1] = Uint(d.method) /\ v[2] = Bytes(d.credential) /\ v[3] = Bytes(d.x) /\ v[4] = Bytes(d.y)
           /\ v[5] = Uint(d.signCount) /\ v[6] = Bool(d.backupEligible) /\ v[7] = Bool(d.backupState)
<1> SUFFICES ASSUME NEW v, v = CredentialOf(d)
             PROVE  /\ AllItems(v)
                    /\ v[1] = Uint(d.method) /\ v[2] = Bytes(d.credential) /\ v[3] = Bytes(d.x) /\ v[4] = Bytes(d.y)
                    /\ v[5] = Uint(d.signCount) /\ v[6] = Bool(d.backupEligible) /\ v[7] = Bool(d.backupState)
  OBVIOUS
<1>1. PICK a, b, c, e, f, g, h :
        /\ a = Uint(d.method) /\ b = Bytes(d.credential) /\ c = Bytes(d.x) /\ e = Bytes(d.y)
        /\ f = Uint(d.signCount) /\ g = Bool(d.backupEligible) /\ h = Bool(d.backupState)
  OBVIOUS
<1>2. v = <<a, b, c, e, f, g, h>>
  BY <1>1 DEF CredentialOf
<1>3. IsItem(a) /\ IsItem(b) /\ IsItem(c) /\ IsItem(e) /\ IsItem(f)
  BY <1>1, LeafIsItem
<1>4. IsItem(g) /\ IsItem(h)
  <2>1. d.backupEligible \in BOOLEAN /\ d.backupState \in BOOLEAN
    BY DEF IsDevice
  <2>2. IsItem(Bool(d.backupEligible)) /\ IsItem(Bool(d.backupState))
    BY <2>1, LeafIsItem
  <2> QED BY <1>1, <2>2
<1>5. v[1] = a /\ v[2] = b /\ v[3] = c /\ v[4] = e /\ v[5] = f /\ v[6] = g /\ v[7] = h
  BY <1>2, SevenItems
<1>6. AllItems(v)
  BY <1>2, <1>3, <1>4, SevenItems
<1> QED BY <1>1, <1>5, <1>6

\* A device is items, in their order.
LEMMA DeviceItemsParts ==
  ASSUME NEW d, IsDevice(d)
  PROVE  \A v : v = DeviceItems(d) =>
           /\ AllItems(v)
           /\ v[1] = Bytes(d.device) /\ v[2] = Uint(d.status) /\ v[3] = Array(CredentialOf(d)) /\ v[4] = Bytes(d.wrapPublic)
           /\ v[5] = Uint(d.mask) /\ v[6] = Uint(d.revoked) /\ v[7] = Uint(d.enrolled)
<1> SUFFICES ASSUME NEW v, v = DeviceItems(d)
             PROVE  /\ AllItems(v)
                    /\ v[1] = Bytes(d.device) /\ v[2] = Uint(d.status) /\ v[3] = Array(CredentialOf(d))
                    /\ v[4] = Bytes(d.wrapPublic) /\ v[5] = Uint(d.mask) /\ v[6] = Uint(d.revoked)
                    /\ v[7] = Uint(d.enrolled)
  OBVIOUS
<1>1. PICK a, b, c, e, f, g, h :
        /\ a = Bytes(d.device) /\ b = Uint(d.status) /\ c = Array(CredentialOf(d)) /\ e = Bytes(d.wrapPublic)
        /\ f = Uint(d.mask) /\ g = Uint(d.revoked) /\ h = Uint(d.enrolled)
  OBVIOUS
<1>2. v = <<a, b, c, e, f, g, h>>
  BY <1>1 DEF DeviceItems
<1>3. IsItem(a) /\ IsItem(b) /\ IsItem(e) /\ IsItem(f) /\ IsItem(g) /\ IsItem(h)
  BY <1>1, LeafIsItem
<1>4. IsItem(c)
  BY <1>1, CredentialOfParts, ArrayIsItem
<1>5. v[1] = a /\ v[2] = b /\ v[3] = c /\ v[4] = e /\ v[5] = f /\ v[6] = g /\ v[7] = h
  BY <1>2, SevenItems
<1>6. AllItems(v)
  BY <1>2, <1>3, <1>4, SevenItems
<1> QED BY <1>1, <1>5, <1>6

\* A device is an item, that fixes it.
LEMMA DeviceItemExact ==
  ASSUME NEW d, IsDevice(d)
  PROVE  /\ IsItem(DeviceItem(d))
         /\ \A e : IsDevice(e) /\ DeviceItem(d) = DeviceItem(e) => d = e
<1>1. \A e : DeviceItem(e) = Array(DeviceItems(e))
  BY DEF DeviceItem, DeviceItems, CredentialOf
<1>2. IsItem(DeviceItem(d))
  BY <1>1, DeviceItemsParts, ArrayIsItem
<1>3. ASSUME NEW e, IsDevice(e), DeviceItem(d) = DeviceItem(e) PROVE d = e
  <2>1. PICK v, w : v = DeviceItems(d) /\ w = DeviceItems(e)
    OBVIOUS
  <2>2. AllItems(v) /\ AllItems(w) /\ Array(v) = Array(w)
    BY <1>1, <1>3, <2>1, DeviceItemsParts
  <2>3. v = w
    BY <2>2, ArrayInjective
  <2>4. /\ v[1] = Bytes(d.device) /\ v[2] = Uint(d.status) /\ v[3] = Array(CredentialOf(d)) /\ v[4] = Bytes(d.wrapPublic)
        /\ v[5] = Uint(d.mask) /\ v[6] = Uint(d.revoked) /\ v[7] = Uint(d.enrolled)
    BY <2>1, DeviceItemsParts
  <2>5. /\ v[1] = Bytes(e.device) /\ v[2] = Uint(e.status) /\ v[3] = Array(CredentialOf(e)) /\ v[4] = Bytes(e.wrapPublic)
        /\ v[5] = Uint(e.mask) /\ v[6] = Uint(e.revoked) /\ v[7] = Uint(e.enrolled)
    BY <1>3, <2>1, <2>3, DeviceItemsParts
  <2>6. PICK x, y : x = CredentialOf(d) /\ y = CredentialOf(e)
    OBVIOUS
  <2>7. AllItems(x) /\ AllItems(y) /\ Array(x) = Array(y)
    BY <1>3, <2>4, <2>5, <2>6, CredentialOfParts
  <2>8. x = y
    BY <2>7, ArrayInjective
  <2>9. /\ x[1] = Uint(d.method) /\ x[2] = Bytes(d.credential) /\ x[3] = Bytes(d.x) /\ x[4] = Bytes(d.y)
        /\ x[5] = Uint(d.signCount) /\ x[6] = Bool(d.backupEligible) /\ x[7] = Bool(d.backupState)
    BY <2>6, CredentialOfParts
  <2>10. /\ x[1] = Uint(e.method) /\ x[2] = Bytes(e.credential) /\ x[3] = Bytes(e.x) /\ x[4] = Bytes(e.y)
         /\ x[5] = Uint(e.signCount) /\ x[6] = Bool(e.backupEligible) /\ x[7] = Bool(e.backupState)
    BY <1>3, <2>6, <2>8, CredentialOfParts
  <2>11. d.device = e.device /\ d.status = e.status
    <3>1. Bytes(d.device) = Bytes(e.device) /\ Uint(d.status) = Uint(e.status)
      BY <2>4, <2>5
    <3> QED BY <3>1, LeafInjective
  <2>12. d.wrapPublic = e.wrapPublic /\ d.mask = e.mask
    <3>1. Bytes(d.wrapPublic) = Bytes(e.wrapPublic) /\ Uint(d.mask) = Uint(e.mask)
      BY <2>4, <2>5
    <3> QED BY <3>1, LeafInjective
  <2>13. d.revoked = e.revoked /\ d.enrolled = e.enrolled
    <3>1. Uint(d.revoked) = Uint(e.revoked) /\ Uint(d.enrolled) = Uint(e.enrolled)
      BY <2>4, <2>5
    <3> QED BY <3>1, LeafInjective
  <2>14. d.method = e.method /\ d.credential = e.credential
    <3>1. Uint(d.method) = Uint(e.method) /\ Bytes(d.credential) = Bytes(e.credential)
      BY <2>9, <2>10
    <3> QED BY <3>1, LeafInjective
  <2>15. d.x = e.x /\ d.y = e.y
    <3>1. Bytes(d.x) = Bytes(e.x) /\ Bytes(d.y) = Bytes(e.y)
      BY <2>9, <2>10
    <3> QED BY <3>1, LeafInjective
  <2>16. d.signCount = e.signCount
    <3>1. Uint(d.signCount) = Uint(e.signCount)
      BY <2>9, <2>10
    <3> QED BY <3>1, LeafInjective
  <2>17. d.backupEligible = e.backupEligible /\ d.backupState = e.backupState
    <3>1. Bool(d.backupEligible) = Bool(e.backupEligible) /\ Bool(d.backupState) = Bool(e.backupState)
      BY <2>9, <2>10
    <3>2. d.backupEligible \in BOOLEAN /\ d.backupState \in BOOLEAN /\ e.backupEligible \in BOOLEAN /\ e.backupState \in BOOLEAN
      BY <1>3 DEF IsDevice
    <3>3. d.backupEligible = e.backupEligible
      BY <3>1, <3>2, LeafInjective
    <3>4. d.backupState = e.backupState
      BY <3>1, <3>2, LeafInjective
    <3> QED BY <3>3, <3>4
  <2>18. \A f \in DeviceFields : d[f] = e[f]
    BY <2>11, <2>12, <2>13, <2>14, <2>15, <2>16, <2>17 DEF DeviceFields
  <2> QED BY <1>3, <2>18, SameFields DEF IsDevice
<1> QED BY <1>2, <1>3

\* The devices are an item, that fixes them.
LEMMA DevicesItemExact ==
  ASSUME NEW s, IsList(s.devices), \A i \in DOMAIN s.devices : IsDevice(s.devices[i])
  PROVE  /\ IsItem(DevicesItem(s))
         /\ \A t : IsList(t.devices) /\ (\A i \in DOMAIN t.devices : IsDevice(t.devices[i])) /\ DevicesItem(s) = DevicesItem(t)
                   => s.devices = t.devices
<1> DEFINE Listed(l) == [i \in DOMAIN l |-> DeviceItem(l[i])]
           Right(l) == IsList(l) /\ \A i \in DOMAIN l : IsDevice(l[i])
<1>1. ASSUME NEW l, Right(l) PROVE AllItems(Listed(l)) /\ DOMAIN Listed(l) = DOMAIN l
  <2>1. PICK v : v = Listed(l)
    OBVIOUS
  <2>2. v = [i \in DOMAIN l |-> v[i]] /\ \A i \in DOMAIN l : v[i] = DeviceItem(l[i])
    BY <2>1
  <2>3. \A i \in DOMAIN l : IsItem(v[i])
    BY <1>1, <2>2, DeviceItemExact
  <2>4. AllItems(v) /\ DOMAIN v = DOMAIN l
    BY <1>1, <2>2, <2>3, ListedItems
  <2> QED BY <2>1, <2>4
<1>2. ASSUME NEW l PROVE \A i \in DOMAIN l : Listed(l)[i] = DeviceItem(l[i])
  OBVIOUS
<1>3. \A t : DevicesItem(t) = Array(Listed(t.devices))
  BY DEF DevicesItem
<1> HIDE DEF Listed
<1>4. Right(s.devices)
  OBVIOUS
<1>5. IsItem(DevicesItem(s))
  BY <1>1, <1>3, <1>4, ArrayIsItem
<1>6. ASSUME NEW t, Right(t.devices), DevicesItem(s) = DevicesItem(t)
      PROVE  s.devices = t.devices
  <2>1. PICK l, m : l = s.devices /\ m = t.devices
    OBVIOUS
  <2>2. Listed(l) = Listed(m)
    BY <1>1, <1>3, <1>4, <1>6, <2>1, ArrayInjective
  <2>3. DOMAIN l = DOMAIN m
    BY <1>1, <1>4, <1>6, <2>1, <2>2
  <2>4. ASSUME NEW i \in DOMAIN l PROVE l[i] = m[i]
    <3>1. DeviceItem(l[i]) = DeviceItem(m[i])
      BY <1>2, <2>2, <2>3
    <3>2. IsDevice(l[i]) /\ IsDevice(m[i])
      BY <1>4, <1>6, <2>1, <2>3
    <3> QED BY <3>1, <3>2, DeviceItemExact
  <2>5. l = [i \in DOMAIN l |-> l[i]] /\ m = [i \in DOMAIN m |-> m[i]]
    BY <1>4, <1>6, <2>1, ListFacts, SequenceOf
  <2> QED BY <2>1, <2>3, <2>4, <2>5
<1> QED BY <1>5, <1>6

\* A tuple of thirteen is a sequence.
LEMMA ThirteenListed ==
  \A v, a, b, c, d, e, f, g, h, i, j, k, l, m : v = <<a, b, c, d, e, f, g, h, i, j, k, l, m>> => IsSequence(v)
<1> SUFFICES ASSUME NEW v, NEW a, NEW b, NEW c, NEW d, NEW e, NEW f, NEW g, NEW h, NEW i, NEW j, NEW k, NEW l, NEW m,
                    v = <<a, b, c, d, e, f, g, h, i, j, k, l, m>>
             PROVE  IsSequence(v)
  OBVIOUS
<1>1. v = [x \in 1..13 |-> v[x]]
  OBVIOUS
<1> QED BY <1>1 DEF IsSequence

\* A tuple of twelve is.
LEMMA TwelveListed ==
  \A v, a, b, c, d, e, f, g, h, i, j, k, l : v = <<a, b, c, d, e, f, g, h, i, j, k, l>> => IsSequence(v)
<1> SUFFICES ASSUME NEW v, NEW a, NEW b, NEW c, NEW d, NEW e, NEW f, NEW g, NEW h, NEW i, NEW j, NEW k, NEW l,
                    v = <<a, b, c, d, e, f, g, h, i, j, k, l>>
             PROVE  IsSequence(v)
  OBVIOUS
<1>1. v = [x \in 1..12 |-> v[x]]
  OBVIOUS
<1> QED BY <1>1 DEF IsSequence

\* The names of the fields of the core are listed.
LEMMA CoreNames == IsSequence(CoreBefore) /\ IsSequence(CoreAfter)
<1>1. \A v : v = <<"deployment", "vault", "securityVersion", "priorRoot", "epoch", "manifestKeyId",
  "manifestKey", "recoveryGeneration", "recoveryId", "recoveryKey", "unlockGeneration", "unlockHash", "authPolicy">> => IsSequence(v)
  BY ThirteenListed
<1>2. \A v : v = <<"activeWriter", "activeSuite", "minimumReader", "minimumSuite", "migration", "serverKeyId",
  "serverKeyHash", "origin", "rpId", "pslHash", "receiptKeyId", "receiptKey">> => IsSequence(v)
  BY TwelveListed
<1> QED BY <1>1, <1>2 DEF CoreBefore, CoreAfter

IsAccount(s) == HasArguments("account", s)

\* What is committed to of an account: the plain fields, with the methods between them, and at
\* the end the devices and the root of their wraps.
AccountItems(s) ==
  <<Uint(1), Uint(1)>> \o CoreFields(s, CoreBefore) \o <<MethodsItem(s)>> \o CoreFields(s, CoreAfter)
    \o <<DevicesItem(s), Bytes(s.wrapSetRoot)>>

\* They are items.
LEMMA AccountItemsAreItems ==
  ASSUME NEW s, IsAccount(s)
  PROVE  /\ IsItem(MethodsItem(s)) /\ IsItem(DevicesItem(s))
         /\ AllItems(AccountItems(s))
<1>1. IsItem(MethodsItem(s)) /\ IsItem(DevicesItem(s))
  BY MethodsItemExact, DevicesItemExact DEF IsAccount, HasArguments, IsDevice
<1>2. AllItems(CoreFields(s, CoreBefore)) /\ AllItems(CoreFields(s, CoreAfter))
  BY CoreNames, CoreFieldsExact
<1>3. PICK a, b, c, d, e :
        /\ a = <<Uint(1), Uint(1)>> /\ b = CoreFields(s, CoreBefore) /\ c = <<MethodsItem(s)>>
        /\ d = CoreFields(s, CoreAfter) /\ e = <<DevicesItem(s), Bytes(s.wrapSetRoot)>>
  OBVIOUS
<1>4. AllItems(a) /\ AllItems(e)
  BY <1>1, <1>3, TwoItems, LeafIsItem
<1>5. AllItems(c)
  BY <1>1, <1>3, OneIsSequence DEF AllItems
<1>6. AllItems(a \o b)
  BY <1>2, <1>3, <1>4, JoinedItems
<1>7. AllItems(a \o b \o c)
  BY <1>5, <1>6, JoinedItems
<1>8. AllItems(a \o b \o c \o d)
  BY <1>2, <1>3, <1>7, JoinedItems
<1>9. AllItems(a \o b \o c \o d \o e)
  BY <1>4, <1>8, JoinedItems
<1> QED BY <1>1, <1>3, <1>9 DEF AccountItems

\* They fix the account.
LEMMA AccountItemsExact ==
  ASSUME NEW s, NEW t, IsAccount(s), IsAccount(t), AccountItems(s) = AccountItems(t)
  PROVE  s = t
<1>1. PICK a, b, c, d, e, b2, c2, d2, e2 :
        /\ a = <<Uint(1), Uint(1)>> /\ b = CoreFields(s, CoreBefore) /\ c = <<MethodsItem(s)>>
        /\ d = CoreFields(s, CoreAfter) /\ e = <<DevicesItem(s), Bytes(s.wrapSetRoot)>>
        /\ b2 = CoreFields(t, CoreBefore) /\ c2 = <<MethodsItem(t)>>
        /\ d2 = CoreFields(t, CoreAfter) /\ e2 = <<DevicesItem(t), Bytes(t.wrapSetRoot)>>
  OBVIOUS
<1>2. /\ IsSequence(b) /\ IsSequence(b2) /\ Len(b) = Len(b2)
      /\ IsSequence(d) /\ IsSequence(d2) /\ Len(d) = Len(d2)
  BY <1>1, CoreNames, CoreFieldsExact DEF AllItems
<1>3. IsSequence(a) /\ IsSequence(e) /\ IsSequence(e2) /\ Len(e) = 2 /\ Len(e2) = 2
  BY <1>1, TwoItems
<1>4. IsSequence(c) /\ IsSequence(c2) /\ Len(c) = 1 /\ Len(c2) = 1
  BY <1>1, OneIsSequence
<1>5. PICK u, v, w, z, u2, v2, w2 :
        /\ u = a \o b /\ v = u \o c /\ w = v \o d /\ z = w \o e
        /\ u2 = a \o b2 /\ v2 = u2 \o c2 /\ w2 = v2 \o d2
  OBVIOUS
<1>6. z = w2 \o e2
  BY <1>1, <1>5 DEF AccountItems
<1>7. Splits(u, a, b) /\ IsSequence(u) /\ Splits(u2, a, b2) /\ IsSequence(u2) /\ Len(u) = Len(u2)
  <2>1. Splits(u, a, b) /\ Splits(u2, a, b2)
    BY <1>2, <1>3, <1>5 DEF Splits
  <2>2. IsSequence(u) /\ Len(u) = Len(a) + Len(b) /\ IsSequence(u2) /\ Len(u2) = Len(a) + Len(b2)
    BY <2>1, SplitParts
  <2> QED BY <1>2, <2>1, <2>2
<1>8. Splits(v, u, c) /\ IsSequence(v) /\ Splits(v2, u2, c2) /\ IsSequence(v2) /\ Len(v) = Len(v2)
  <2>1. Splits(v, u, c) /\ Splits(v2, u2, c2)
    BY <1>4, <1>5, <1>7 DEF Splits
  <2>2. IsSequence(v) /\ Len(v) = Len(u) + Len(c) /\ IsSequence(v2) /\ Len(v2) = Len(u2) + Len(c2)
    BY <2>1, SplitParts
  <2> QED BY <1>4, <1>7, <2>1, <2>2
<1>9. Splits(w, v, d) /\ IsSequence(w) /\ Splits(w2, v2, d2) /\ IsSequence(w2) /\ Len(w) = Len(w2)
  <2>1. Splits(w, v, d) /\ Splits(w2, v2, d2)
    BY <1>2, <1>5, <1>8 DEF Splits
  <2>2. IsSequence(w) /\ Len(w) = Len(v) + Len(d) /\ IsSequence(w2) /\ Len(w2) = Len(v2) + Len(d2)
    BY <2>1, SplitParts
  <2> QED BY <1>2, <1>8, <2>1, <2>2
<1>10. w = w2 /\ e = e2
  <2>1. Splits(z, w, e) /\ Splits(z, w2, e2)
    BY <1>3, <1>5, <1>6, <1>9 DEF Splits
  <2> QED BY <1>9, <2>1, Cancellation
<1>11. v = v2 /\ d = d2
  <2>1. Splits(w, v, d) /\ Splits(w, v2, d2)
    BY <1>9, <1>10
  <2> QED BY <1>8, <2>1, Cancellation
<1>12. u = u2 /\ c = c2
  <2>1. Splits(v, u, c) /\ Splits(v, u2, c2)
    BY <1>8, <1>11
  <2> QED BY <1>7, <2>1, Cancellation
<1>13. b = b2
  <2>1. Splits(u, a, b) /\ Splits(u, a, b2)
    BY <1>7, <1>12
  <2> QED BY <2>1, Cancellation
<1>14. (\A f \in ToSet(CoreBefore) : s[f] = t[f]) /\ \A f \in ToSet(CoreAfter) : s[f] = t[f]
  <2>1. CoreFields(s, CoreBefore) = CoreFields(t, CoreBefore) /\ CoreFields(s, CoreAfter) = CoreFields(t, CoreAfter)
    BY <1>1, <1>11, <1>13
  <2>2. \A f \in ToSet(CoreBefore) : s[f] = t[f]
    BY <2>1, CoreNames, CoreFieldsExact
  <2>3. \A f \in ToSet(CoreAfter) : s[f] = t[f]
    BY <2>1, CoreNames, CoreFieldsExact
  <2> QED BY <2>2, <2>3
<1>15. s.methods = t.methods
  <2>1. MethodsItem(s) = MethodsItem(t)
    BY <1>1, <1>12, OneIsSequence
  <2> QED BY <2>1, MethodsItemExact DEF IsAccount, HasArguments
<1>16. DevicesItem(s) = DevicesItem(t) /\ Bytes(s.wrapSetRoot) = Bytes(t.wrapSetRoot)
  <2>1. e[1] = DevicesItem(s) /\ e[2] = Bytes(s.wrapSetRoot) /\ e[1] = DevicesItem(t) /\ e[2] = Bytes(t.wrapSetRoot)
    BY <1>1, <1>10, TwoItems
  <2> QED BY <2>1
<1>17. s.devices = t.devices
  BY <1>16, DevicesItemExact DEF IsAccount, HasArguments, IsDevice
<1>18. s.wrapSetRoot = t.wrapSetRoot
  BY <1>16, LeafInjective
<1>19. \A f \in AccountFields : s[f] = t[f]
  BY <1>14, <1>15, <1>17, <1>18 DEF AccountFields
<1>20. HasFields(s, AccountFields) /\ HasFields(t, AccountFields)
  BY DEF IsAccount, HasArguments
<1> QED BY <1>19, <1>20, SameFields

\* A hash of the account.
LEMMA AccountExact == Exact("account")
<1>1. \A a : Answer([fn |-> "account", arg |-> a]) = AccountCoreHash(a)
  BY DEF Answer
<1>2. \A a : AccountCoreHash(a) = Hashed("pm-v1/account-state-core", AccountItems(a))
  BY DEF AccountCoreHash, EncodeAccountState, AccountItems, CoreFields, MethodsItem, MethodItems, DevicesItem, Hashed
<1>3. \A a : Bound([fn |-> "account", arg |-> a]) = a
  BY DEF Bound
<1>4. \A a : Answered("account", a) => IsAccount(a) /\ Hashed("pm-v1/account-state-core", AccountItems(a)).ok
  BY <1>1, <1>2 DEF Answered, IsAccount
<1>5. ASSUME NEW a, Answered("account", a)
      PROVE  Maker(AnswerOf("account", a)) = "account"
  BY <1>1, <1>2, <1>4, <1>5, AccountItemsAreItems, HashedShows DEF AnswerOf, HashMaker
<1>6. ASSUME NEW a, NEW b, Answered("account", a), Answered("account", b), AnswerOf("account", a) = AnswerOf("account", b)
      PROVE  a = b
  <2>1. AccountItems(a) = AccountItems(b)
    BY <1>1, <1>2, <1>4, <1>6, AccountItemsAreItems, HashedInjective DEF AnswerOf
  <2> QED BY <1>4, <1>6, <2>1, AccountItemsExact
<1> QED BY <1>3, <1>5, <1>6 DEF Exact

-----------------------------------------------------------------------------
(* The tree of a manifest: what its root is over.                          *)

Node(left, right) == Sha(Label("pm-v1/manifest-node") \o <<ZeroByte, left, right>>)

\* A node fixes what is below it, and shows that it is one.
LEMMA NodeFacts ==
  ASSUME NEW left, NEW right
  PROVE  \E z : /\ Node(left, right) = Sha(z) /\ z[1] = Text("pm-v1/manifest-node", 0)
                /\ z[3] = left /\ z[4] = right
<1>1. PICK label, rest, z : label = Label("pm-v1/manifest-node") /\ rest = <<ZeroByte, left, right>> /\ z = label \o rest
  OBVIOUS
<1>2. IsSequence(label) /\ Len(label) = 1 /\ label[1] = Text("pm-v1/manifest-node", 0)
  BY <1>1, OneIsSequence DEF Label
<1>3. IsSequence(rest) /\ Len(rest) = 3 /\ rest[2] = left /\ rest[3] = right
  BY <1>1, ThreeItems
<1>4. Splits(z, label, rest)
  BY <1>1, <1>2, <1>3 DEF Splits
<1>5. (\A i \in 1..Len(label) : z[i] = label[i]) /\ \A i \in 1..Len(rest) : z[Len(label) + i] = rest[i]
  BY <1>4, SplitParts
<1>6. 1 \in 1..Len(label) /\ 2 \in 1..Len(rest) /\ 3 \in 1..Len(rest)
  BY <1>2, <1>3
<1>7. z[1] = label[1] /\ z[Len(label) + 2] = rest[2] /\ z[Len(label) + 3] = rest[3]
  BY <1>5, <1>6
<1>8. z[3] = left /\ z[4] = right
  BY <1>2, <1>3, <1>7
<1>9. Node(left, right) = Sha(z)
  BY <1>1 DEF Node
<1> QED BY <1>2, <1>7, <1>8, <1>9

\* The position below that the first i of a level of this length reach.
Reach(length, i) == IF length <= 1 THEN i ELSE IF 2 * i > length THEN 2 * i - 1 ELSE 2 * i

\* Half of a length, rounded up.
Half(length) == (length + 1) \div 2

\* It is less than the length, and no position of it reaches further.
LEMMA HalfFacts ==
  ASSUME NEW n \in Nat, n > 1
  PROVE  /\ Half(n) \in Nat /\ Half(n) >= 1 /\ Half(n) < n
         /\ Reach(n, 0) = 0 /\ Reach(n, Half(n)) = n
         /\ \A i \in 1..Half(n) :
              /\ Reach(n, i) \in 1..n /\ Reach(n, i - 1) = 2 * i - 2 /\ 2 * i - 1 \in 1..n
              /\ 2 * i > n => 2 * i - 1 = n
<1>1. PICK h : h = Half(n)
  OBVIOUS
<1>2. h \in Nat /\ 2 * h <= n + 1 /\ n + 1 < 2 * h + 2
  BY <1>1 DEF Half
<1>3. h >= 1 /\ h < n
  BY <1>2
<1>4. Reach(n, 0) = 0 /\ Reach(n, h) = n
  BY <1>2, <1>3 DEF Reach
<1>5. ASSUME NEW i \in 1..h
      PROVE  /\ Reach(n, i) \in 1..n /\ Reach(n, i - 1) = 2 * i - 2 /\ 2 * i - 1 \in 1..n
             /\ 2 * i > n => 2 * i - 1 = n
  BY <1>2, <1>3 DEF Reach
<1> QED BY <1>1, <1>2, <1>3, <1>4, <1>5

\* The level above has half as many, each a node over two or one that is carried.
LEMMA AboveFacts ==
  ASSUME NEW level, IsSequence(level), Len(level) > 1
  PROVE  /\ IsSequence(Above(level)) /\ Len(Above(level)) = Half(Len(level))
         /\ \A i \in 1..Half(Len(level)) :
              Above(level)[i] = IF 2 * i > Len(level) THEN level[2 * i - 1] ELSE Node(level[2 * i - 1], level[2 * i])
<1>1. PICK n \in Nat : n = Len(level) /\ n > 1
  BY SequenceOf
<1>2. PICK h \in Nat : h = Half(n)
  BY <1>1, HalfFacts
<1>3. PICK v : v = Above(level)
  OBVIOUS
<1>4. ASSUME NEW x, NEW y PROVE Node(x, y) = Sha(Label("pm-v1/manifest-node") \o <<ZeroByte, x, y>>)
  BY DEF Node
<1>5. v = [i \in 1..h |-> IF 2 * i > n THEN level[2 * i - 1] ELSE Node(level[2 * i - 1], level[2 * i])]
  BY <1>1, <1>2, <1>3, <1>4 DEF Above, Half
<1>6. v = [i \in 1..h |-> v[i]] /\ DOMAIN v = 1..h
  BY <1>5
<1>7. IsSequence(v)
  BY <1>6 DEF IsSequence
<1>8. Len(v) = h
  BY <1>6, <1>7, SequenceOf
<1>9. \A i \in 1..h : v[i] = IF 2 * i > n THEN level[2 * i - 1] ELSE Node(level[2 * i - 1], level[2 * i])
  BY <1>5
<1> QED BY <1>1, <1>2, <1>3, <1>7, <1>8, <1>9
\* The level that Reduce takes after one.
NextLevel(below) == IF Len(below) > 1 THEN Above(below) ELSE below

\* A row of the tree: a level, and the number of chunks its first i positions are over.
FirstRow(leaves) == [level |-> leaves, cut |-> [i \in 0..Len(leaves) |-> i]]
NextRow(row) ==
  [level |-> NextLevel(row.level),
   cut |-> [i \in 0..Len(NextLevel(row.level)) |-> row.cut[Reach(Len(row.level), i)]]]
AreRows(f, leaves, length) == f = [k \in 0..length |-> IF k = 0 THEN FirstRow(leaves) ELSE NextRow(f[k - 1])]

\* The rows of a tree exist.
LEMMA RowsExist ==
  ASSUME NEW leaves, NEW length \in Nat
  PROVE  \E f : AreRows(f, leaves, length)
<1> DEFINE S == {n \in Nat : \E f : AreRows(f, leaves, n)}
<1>1. 0 \in S
  <2> DEFINE f == [k \in 0..0 |-> FirstRow(leaves)]
  <2>1. AreRows(f, leaves, 0)
    BY DEF AreRows
  <2> HIDE DEF f
  <2> QED BY <2>1
<1>2. ASSUME NEW n \in Nat, n \in S PROVE n + 1 \in S
  <2>1. PICK f : AreRows(f, leaves, n)
    BY <1>2
  <2> DEFINE g == [k \in 0..n + 1 |-> IF k <= n THEN f[k] ELSE NextRow(f[k - 1])]
  <2>2. \A k \in 0..n : g[k] = f[k]
    OBVIOUS
  <2>3. g[n + 1] = NextRow(g[n])
    <3>1. g[n + 1] = NextRow(f[(n + 1) - 1])
      OBVIOUS
    <3>2. (n + 1) - 1 = n /\ n \in 0..n
      OBVIOUS
    <3> QED BY <2>2, <3>1, <3>2
  <2>4. g = [k \in 0..n + 1 |-> g[k]]
    OBVIOUS
  <2> HIDE DEF g
  <2>5. ASSUME NEW k \in 0..n + 1 PROVE g[k] = IF k = 0 THEN FirstRow(leaves) ELSE NextRow(g[k - 1])
    <3>1. CASE k = n + 1
      <4>1. k # 0 /\ k - 1 = n
        BY <3>1
      <4> QED BY <2>3, <3>1, <4>1
    <3>2. CASE k # n + 1
      <4>1. k \in 0..n
        BY <3>2
      <4>2. f[k] = IF k = 0 THEN FirstRow(leaves) ELSE NextRow(f[k - 1])
        BY <2>1, <4>1 DEF AreRows
      <4>3. k # 0 => k - 1 \in 0..n
        BY <4>1
      <4> QED BY <2>2, <4>1, <4>2, <4>3
    <3> QED BY <3>1, <3>2
  <2>6. AreRows(g, leaves, n + 1)
    BY <2>4, <2>5 DEF AreRows
  <2> QED BY <2>6
<1>3. length \in S
  <2> HIDE DEF S
  <2> QED BY <1>1, <1>2, Induction
<1> QED BY <1>3

\* The levels that Reduce takes are those of the rows.
LEMMA ReduceFacts ==
  ASSUME NEW leaves, NEW n \in Nat, n = Len(leaves), NEW rows, AreRows(rows, leaves, n)
  PROVE  Reduce(leaves) = rows[n].level[1]
<1> DEFINE level[k \in 0..Len(leaves)] ==
             IF k = 0 THEN leaves
             ELSE LET below == level[k - 1] IN IF Len(below) > 1 THEN Above(below) ELSE below
<1>1. Reduce(leaves) = level[n][1]
  BY DEF Reduce
<1>2. PICK f : f = [k \in 0..n |-> rows[k].level]
  OBVIOUS
<1>3. ASSUME NEW k \in 0..n PROVE f[k] = IF k = 0 THEN leaves ELSE NextLevel(f[k - 1])
  <2>1. rows[k] = IF k = 0 THEN FirstRow(leaves) ELSE NextRow(rows[k - 1])
    BY DEF AreRows
  <2>2. f[k] = rows[k].level
    BY <1>2
  <2>3. CASE k = 0
    <3>1. rows[k].level = leaves
      BY <2>1, <2>3 DEF FirstRow
    <3> QED BY <2>2, <2>3, <3>1
  <2>4. CASE k # 0
    <3>1. k - 1 \in 0..n
      BY <2>4
    <3>2. f[k - 1] = rows[k - 1].level
      BY <1>2, <3>1
    <3>3. rows[k].level = NextLevel(rows[k - 1].level)
      BY <2>1, <2>4 DEF NextRow
    <3> QED BY <2>2, <2>4, <3>2, <3>3
  <2> QED BY <2>3, <2>4
<1>4. f = [k \in 0..n |-> IF k = 0 THEN leaves ELSE NextLevel(f[k - 1])]
  BY <1>2, <1>3
<1>5. level = [k \in 0..n |-> IF k = 0 THEN leaves ELSE NextLevel(level[k - 1])]
  BY <1>4 DEF NextLevel
<1> HIDE DEF level
<1> DEFINE S == {k \in Nat : k <= n => level[k] = f[k]}
<1>6. 0 \in S
  <2>1. 0 \in 0..n
    OBVIOUS
  <2> QED BY <1>4, <1>5, <2>1
<1>7. ASSUME NEW k \in Nat, k \in S PROVE k + 1 \in S
  <2>1. CASE ~(k + 1 <= n)
    BY <2>1
  <2>2. CASE k + 1 <= n
    <3>1. k + 1 \in 0..n /\ k + 1 # 0 /\ (k + 1) - 1 = k /\ k <= n
      BY <2>2
    <3>2. level[k + 1] = NextLevel(level[(k + 1) - 1]) /\ f[k + 1] = NextLevel(f[(k + 1) - 1])
      BY <1>4, <1>5, <3>1
    <3>3. level[k] = f[k]
      BY <1>7, <3>1
    <3> QED BY <3>1, <3>2, <3>3
  <2> QED BY <2>1, <2>2
<1>8. level[n] = f[n]
  <2>1. n \in S
    <3> HIDE DEF S
    <3> QED BY <1>6, <1>7, Induction
  <2> QED BY <2>1
<1>9. f[n] = rows[n].level
  <2>1. n \in 0..n
    OBVIOUS
  <2> QED BY <1>2, <2>1
<1> QED BY <1>1, <1>8, <1>9

\* A row over n chunks, in round k of reducing them.
IsRow(row, n, k) ==
  /\ IsSequence(row.level) /\ Len(row.level) >= 1
  /\ Len(row.level) = 1 \/ Len(row.level) + k <= n
  /\ row.cut[0] = 0 /\ row.cut[Len(row.level)] = n
  /\ \A i \in 0..Len(row.level) : row.cut[i] \in Nat

\* Where a position of a row comes from: one position of the row below, or two.
Carried(below, row, i, f) ==
  /\ row.level[i] = below.level[f]
  /\ row.cut[i - 1] = below.cut[f - 1] /\ row.cut[i] = below.cut[f]
Paired(below, row, i, f) ==
  /\ f - 1 \in 1..Len(below.level)
  /\ row.level[i] = Node(below.level[f - 1], below.level[f])
  /\ row.cut[i - 1] = below.cut[f - 2] /\ row.cut[i] = below.cut[f]
Stacked(below, row) ==
  \A i \in 1..Len(row.level) : \E f \in 1..Len(below.level) : Carried(below, row, i, f) \/ Paired(below, row, i, f)

\* A row over a row is over the same chunks, and shorter until one position is left.
LEMMA NextRowFacts ==
  ASSUME NEW n \in Nat, NEW k \in Nat, NEW below, NEW row, IsRow(below, n, k), row = NextRow(below)
  PROVE  IsRow(row, n, k + 1) /\ Stacked(below, row)
<1>1. PICK m \in Nat : m = Len(below.level) /\ m >= 1
  BY SequenceOf DEF IsRow
<1>2. PICK v : v = NextLevel(below.level)
  OBVIOUS
<1>3. PICK c : c = row.cut
  OBVIOUS
<1>4. row.level = v /\ c = [i \in 0..Len(v) |-> below.cut[Reach(m, i)]]
  BY <1>1, <1>2, <1>3 DEF NextRow
<1>5. CASE m = 1
  <2>1. v = below.level /\ Len(v) = 1
    <3>1. ~(Len(below.level) > 1) /\ Len(below.level) = 1
      BY <1>1, <1>5
    <3>2. v = below.level
      BY <1>2, <3>1 DEF NextLevel
    <3> QED BY <3>1, <3>2
  <2>2. \A i \in 0..1 : c[i] = below.cut[i]
    BY <1>4, <1>5, <2>1 DEF Reach
  <2>3. c[0] = below.cut[0] /\ c[1] = below.cut[1]
    BY <2>2
  <2>4. IsRow(row, n, k + 1)
    BY <1>1, <1>3, <1>4, <1>5, <2>1, <2>2 DEF IsRow
  <2>5. Carried(below, row, 1, 1)
    BY <1>3, <1>4, <2>1, <2>3 DEF Carried
  <2>6. Stacked(below, row)
    BY <1>1, <1>4, <1>5, <2>1, <2>5 DEF Stacked
  <2> QED BY <2>4, <2>6
<1>6. CASE m > 1
  <2>1. PICK h \in Nat : h = Half(m) /\ h >= 1 /\ h < m
    BY <1>6, HalfFacts
  <2>2. /\ Reach(m, 0) = 0 /\ Reach(m, h) = m
        /\ \A i \in 1..h : /\ Reach(m, i) \in 1..m /\ Reach(m, i - 1) = 2 * i - 2 /\ 2 * i - 1 \in 1..m
                           /\ 2 * i > m => 2 * i - 1 = m
    BY <1>6, <2>1, HalfFacts
  <2>3. v = Above(below.level)
    BY <1>1, <1>2, <1>6 DEF NextLevel
  <2>4. IsSequence(below.level)
    BY DEF IsRow
  <2>5. /\ IsSequence(v) /\ Len(v) = h
        /\ \A i \in 1..h : v[i] = IF 2 * i > m THEN below.level[2 * i - 1] ELSE Node(below.level[2 * i - 1], below.level[2 * i])
    BY <1>1, <1>6, <2>1, <2>3, <2>4, AboveFacts
  <2>6. \A i \in 0..h : c[i] = below.cut[Reach(m, i)]
    BY <1>4, <2>5
  <2>7. IsRow(row, n, k + 1)
    <3>1. c[0] = 0 /\ c[h] = n
      <4>1. c[0] = below.cut[0] /\ c[h] = below.cut[m]
        BY <2>1, <2>2, <2>6
      <4> QED BY <1>1, <4>1 DEF IsRow
    <3>2. ASSUME NEW i \in 0..h PROVE c[i] \in Nat
      <4>1. Reach(m, i) \in 0..m
        BY <2>1, <2>2
      <4> QED BY <1>1, <2>6, <4>1 DEF IsRow
    <3>3. h = 1 \/ h + (k + 1) <= n
      <4>1. m + k <= n
        <5>1. Len(below.level) = 1 \/ Len(below.level) + k <= n
          BY DEF IsRow
        <5>2. Len(below.level) = m
          BY <1>1
        <5> QED BY <1>6, <5>1, <5>2
      <4> QED BY <1>6, <2>1, <4>1
    <3> QED BY <1>3, <1>4, <2>1, <2>5, <3>1, <3>2, <3>3 DEF IsRow
  <2>8. ASSUME NEW i \in 1..h PROVE \E f \in 1..m : Carried(below, row, i, f) \/ Paired(below, row, i, f)
    <3>1. c[i] = below.cut[Reach(m, i)] /\ c[i - 1] = below.cut[2 * i - 2]
      BY <2>2, <2>6
    <3>2. CASE 2 * i > m
      <4>1. PICK f \in 1..m : f = 2 * i - 1
        BY <2>2
      <4>2. Reach(m, i) = f /\ f - 1 = 2 * i - 2
        BY <1>6, <3>2, <4>1 DEF Reach
      <4>3. v[i] = below.level[f]
        BY <2>5, <3>2, <4>1
      <4>4. Carried(below, row, i, f)
        BY <1>3, <1>4, <3>1, <4>2, <4>3 DEF Carried
      <4> QED BY <4>4
    <3>3. CASE 2 * i <= m
      <4>1. PICK f \in 1..m : f = 2 * i
        BY <3>3
      <4>2. Reach(m, i) = f /\ f - 1 = 2 * i - 1 /\ f - 2 = 2 * i - 2 /\ f - 1 \in 1..m
        BY <1>6, <3>3, <4>1 DEF Reach
      <4>3. v[i] = Node(below.level[f - 1], below.level[f])
        BY <2>5, <3>3, <4>1, <4>2
      <4>4. Paired(below, row, i, f)
        BY <1>1, <1>3, <1>4, <3>1, <4>2, <4>3 DEF Paired
      <4> QED BY <4>4
    <3> QED BY <3>2, <3>3
  <2>9. Stacked(below, row)
    BY <1>1, <1>4, <2>5, <2>8 DEF Stacked
  <2> QED BY <2>7, <2>9
<1>7. m = 1 \/ m > 1
  <2>1. m \in Nat /\ m >= 1
    BY <1>1
  <2> QED BY <2>1
<1> QED BY <1>5, <1>6, <1>7

\* The rows over some chunks, from the chunks to the root.
IsTower(rows, leaves, n) ==
  /\ IsSequence(leaves) /\ Len(leaves) = n
  /\ rows[0].level = leaves /\ \A i \in 0..n : rows[0].cut[i] = i
  /\ \A k \in 0..n : IsRow(rows[k], n, k)
  /\ \A k \in 1..n : Stacked(rows[k - 1], rows[k])
  /\ Len(rows[n].level) = 1

\* Reducing builds such rows, and its root is the last.
LEMMA TowerExists ==
  ASSUME NEW leaves, IsSequence(leaves), NEW n \in Nat, n = Len(leaves), n >= 1
  PROVE  \E rows : IsTower(rows, leaves, n) /\ Reduce(leaves) = rows[n].level[1]
<1>1. PICK rows : AreRows(rows, leaves, n)
  BY RowsExist
<1>2. Reduce(leaves) = rows[n].level[1]
  BY <1>1, ReduceFacts
<1>3. ASSUME NEW k \in 0..n PROVE rows[k] = IF k = 0 THEN FirstRow(leaves) ELSE NextRow(rows[k - 1])
  BY <1>1 DEF AreRows
<1>4. rows[0].level = leaves /\ \A i \in 0..n : rows[0].cut[i] = i
  <2>1. rows[0] = FirstRow(leaves)
    BY <1>3
  <2> QED BY <2>1 DEF FirstRow
<1> DEFINE S == {k \in Nat : k <= n => IsRow(rows[k], n, k)}
<1>5. 0 \in S
  <2>1. IsRow(rows[0], n, 0)
    BY <1>4 DEF IsRow
  <2> QED BY <2>1
<1>6. ASSUME NEW k \in Nat, k + 1 <= n, IsRow(rows[k], n, k)
      PROVE  IsRow(rows[k + 1], n, k + 1) /\ Stacked(rows[k], rows[k + 1])
  <2>1. k + 1 \in 0..n /\ k + 1 # 0 /\ (k + 1) - 1 = k
    BY <1>6
  <2>2. rows[k + 1] = NextRow(rows[(k + 1) - 1])
    BY <1>3, <2>1
  <2> QED BY <1>6, <2>1, <2>2, NextRowFacts
<1>7. ASSUME NEW k \in Nat, k \in S PROVE k + 1 \in S
  BY <1>6, <1>7
<1>8. \A k \in 0..n : IsRow(rows[k], n, k)
  <2>1. Nat \subseteq S
    <3> HIDE DEF S
    <3> QED BY <1>5, <1>7, Induction
  <2> QED BY <2>1
<1>9. ASSUME NEW k \in 1..n PROVE Stacked(rows[k - 1], rows[k])
  <2>1. k - 1 \in Nat /\ (k - 1) + 1 <= n /\ k - 1 \in 0..n /\ (k - 1) + 1 = k
    OBVIOUS
  <2>2. IsRow(rows[k - 1], n, k - 1)
    BY <1>8, <2>1
  <2>3. Stacked(rows[k - 1], rows[(k - 1) + 1])
    BY <1>6, <2>1, <2>2
  <2> QED BY <2>1, <2>3
<1>10. Len(rows[n].level) = 1
  <2>1. IsRow(rows[n], n, n)
    BY <1>8
  <2>2. Len(rows[n].level) \in Nat
    BY <2>1, SequenceOf DEF IsRow
  <2> QED BY <2>1, <2>2 DEF IsRow
<1> QED BY <1>2, <1>4, <1>8, <1>9, <1>10 DEF IsTower

\* Two stretches that hold the same.
Same(c, lo, hi, d, lo2, hi2) == hi - lo = hi2 - lo2 /\ \A x \in 1..hi - lo : c[lo + x] = d[lo2 + x]

\* Stretches that follow each other.
LEMMA SameJoined ==
  ASSUME NEW c, NEW d, NEW lo \in Nat, NEW mid \in Nat, NEW hi \in Nat,
         NEW lo2 \in Nat, NEW mid2 \in Nat, NEW hi2 \in Nat,
         Same(c, lo, mid, d, lo2, mid2), Same(c, mid, hi, d, mid2, hi2)
  PROVE  Same(c, lo, hi, d, lo2, hi2)
<1>1. mid - lo = mid2 - lo2 /\ hi - mid = hi2 - mid2
  BY DEF Same
<1>2. ASSUME NEW x \in 1..hi - lo PROVE c[lo + x] = d[lo2 + x]
  <2>1. CASE x <= mid - lo
    BY <2>1 DEF Same
  <2>2. CASE x > mid - lo
    <3>1. PICK y \in Int : y = x - (mid - lo)
      OBVIOUS
    <3>2. y \in 1..hi - mid
      BY <2>2, <3>1
    <3>3. c[mid + y] = d[mid2 + y]
      BY <3>2 DEF Same
    <3>4. mid + y = lo + x /\ mid2 + y = lo2 + x
      BY <1>1, <3>1
    <3> QED BY <3>3, <3>4
  <2> QED BY <2>1, <2>2
<1>3. hi - lo = hi2 - lo2
  BY <1>1
<1> QED BY <1>2, <1>3 DEF Same

\* The hash of a chunk says that it is one, so that no node is equal to it.
IsChunk(val) == \E z : val = Sha(z) /\ z[1] = Text("pm-v1/manifest-chunk", 0)

\* No chunk is a node.
LEMMA ChunkIsNoNode == ASSUME NEW val, IsChunk(val), NEW left, NEW right PROVE val # Node(left, right)
<1>1. PICK z : val = Sha(z) /\ z[1] = Text("pm-v1/manifest-chunk", 0)
  BY DEF IsChunk
<1>2. PICK y : Node(left, right) = Sha(y) /\ y[1] = Text("pm-v1/manifest-node", 0)
  BY NodeFacts
<1>3. Text("pm-v1/manifest-chunk", 0) # Text("pm-v1/manifest-node", 0)
  BY TextShows
<1> QED BY <1>1, <1>2, <1>3, ShaInjective

\* Equal nodes are over the same two.
LEMMA NodeInjective ==
  ASSUME NEW a, NEW b, NEW c, NEW d, Node(a, b) = Node(c, d)
  PROVE  a = c /\ b = d
<1>1. PICK z : Node(a, b) = Sha(z) /\ z[3] = a /\ z[4] = b
  BY NodeFacts
<1>2. PICK y : Node(c, d) = Sha(y) /\ y[3] = c /\ y[4] = d
  BY NodeFacts
<1>3. z = y
  BY <1>1, <1>2, ShaInjective
<1> QED BY <1>1, <1>2, <1>3

\* A position of one tree and a position of another hold the same only over the same chunks.
SameBelow(rows, c, k, i, rows2, d, l, j) ==
  rows[k].level[i] = rows2[l].level[j] =>
    Same(c, rows[k].cut[i - 1], rows[k].cut[i], d, rows2[l].cut[j - 1], rows2[l].cut[j])
ReadsBack(rows, c, n, rows2, d, m, bound) ==
  \A k \in 0..n, l \in 0..m : k + l <= bound =>
    \A i \in 1..Len(rows[k].level), j \in 1..Len(rows2[l].level) : SameBelow(rows, c, k, i, rows2, d, l, j)

\* The chunks that a position is over begin and end at some of them.
LEMMA CutsAreNat ==
  ASSUME NEW rows, NEW c, NEW n \in Nat, IsTower(rows, c, n), NEW k \in 0..n, NEW i \in 1..Len(rows[k].level)
  PROVE  rows[k].cut[i - 1] \in Nat /\ rows[k].cut[i] \in Nat /\ i \in Nat
<1>1. IsRow(rows[k], n, k)
  BY DEF IsTower
<1>2. Len(rows[k].level) \in Nat
  BY <1>1, SequenceOf DEF IsRow
<1>3. i - 1 \in 0..Len(rows[k].level) /\ i \in 0..Len(rows[k].level)
  BY <1>2
<1> QED BY <1>1, <1>2, <1>3 DEF IsRow

\* Where a position of a tree comes from: a chunk, or the row below.
IsFirst(rows, c, k, i) ==
  /\ k = 0 /\ i \in 1..Len(c)
  /\ rows[k].level[i] = c[i] /\ rows[k].cut[i - 1] = i - 1 /\ rows[k].cut[i] = i
IsAbove(rows, n, k, i) ==
  /\ k - 1 \in 0..n
  /\ \E f \in 1..Len(rows[k - 1].level) :
       Carried(rows[k - 1], rows[k], i, f) \/ Paired(rows[k - 1], rows[k], i, f)

\* A position of a row is a chunk, or comes from the row below.
LEMMA Below ==
  ASSUME NEW rows, NEW c, NEW n \in Nat, IsTower(rows, c, n), NEW k \in 0..n, NEW i \in 1..Len(rows[k].level)
  PROVE  IsFirst(rows, c, k, i) \/ IsAbove(rows, n, k, i)
<1>1. CASE k = 0
  <2>1. rows[0].level = c /\ Len(c) = n /\ \A x \in 0..n : rows[0].cut[x] = x
    BY DEF IsTower
  <2>2. i \in 1..n /\ i \in 0..n /\ i - 1 \in 0..n
    BY <1>1, <2>1
  <2> QED BY <1>1, <2>1, <2>2 DEF IsFirst
<1>2. CASE k # 0
  <2>1. k \in 1..n /\ k - 1 \in 0..n
    BY <1>2
  <2>2. Stacked(rows[k - 1], rows[k])
    BY <2>1 DEF IsTower
  <2> QED BY <2>1, <2>2 DEF Stacked, IsAbove
<1> QED BY <1>1, <1>2

\* Two trees are read back from what they have in common, from the top down.
LEMMA TreesReadBack ==
  ASSUME NEW rows, NEW c, NEW n \in Nat, IsTower(rows, c, n), NEW rows2, NEW d, NEW m \in Nat, IsTower(rows2, d, m),
         \A i \in 1..Len(c) : IsChunk(c[i]), \A j \in 1..Len(d) : IsChunk(d[j]),
         NEW bound \in Nat
  PROVE  ReadsBack(rows, c, n, rows2, d, m, bound)
<1> DEFINE S == {b \in Nat : ReadsBack(rows, c, n, rows2, d, m, b)}
<1>1. ASSUME NEW b \in Nat, b = 0 \/ (b - 1 \in Nat /\ ReadsBack(rows, c, n, rows2, d, m, b - 1))
      PROVE  ReadsBack(rows, c, n, rows2, d, m, b)
  <2>1. SUFFICES ASSUME NEW k \in 0..n, NEW l \in 0..m, k + l <= b,
                        NEW i \in 1..Len(rows[k].level), NEW j \in 1..Len(rows2[l].level),
                        rows[k].level[i] = rows2[l].level[j]
                 PROVE  Same(c, rows[k].cut[i - 1], rows[k].cut[i], d, rows2[l].cut[j - 1], rows2[l].cut[j])
    BY DEF ReadsBack, SameBelow
  <2>2. PICK lo, hi, lo2, hi2 : /\ lo = rows[k].cut[i - 1] /\ hi = rows[k].cut[i]
                                /\ lo2 = rows2[l].cut[j - 1] /\ hi2 = rows2[l].cut[j]
    OBVIOUS
  <2>3. IsFirst(rows, c, k, i) \/ IsAbove(rows, n, k, i)
    BY Below
  <2>4. IsFirst(rows2, d, l, j) \/ IsAbove(rows2, m, l, j)
    BY Below
  <2>5. CASE IsFirst(rows, c, k, i) /\ IsFirst(rows2, d, l, j)
    <3>1. lo = i - 1 /\ hi = i /\ lo2 = j - 1 /\ hi2 = j /\ c[i] = d[j] /\ i \in Nat /\ j \in Nat
      BY <2>1, <2>2, <2>5, CutsAreNat DEF IsFirst
    <3>2. Same(c, lo, hi, d, lo2, hi2)
      BY <3>1 DEF Same
    <3> QED BY <2>2, <3>2
  <2>6. ASSUME NEW f \in 1..Len(rows[k - 1].level), k - 1 \in 0..n, Carried(rows[k - 1], rows[k], i, f)
        PROVE  Same(c, lo, hi, d, lo2, hi2)
    <3>1. b - 1 \in Nat /\ ReadsBack(rows, c, n, rows2, d, m, b - 1) /\ (k - 1) + l <= b - 1
      BY <1>1, <2>1, <2>6
    <3>2. SameBelow(rows, c, k - 1, f, rows2, d, l, j)
      BY <2>6, <3>1 DEF ReadsBack
    <3> QED BY <2>1, <2>2, <2>6, <3>2 DEF SameBelow, Carried
  <2>7. ASSUME NEW g \in 1..Len(rows2[l - 1].level), l - 1 \in 0..m, Carried(rows2[l - 1], rows2[l], j, g)
        PROVE  Same(c, lo, hi, d, lo2, hi2)
    <3>1. b - 1 \in Nat /\ ReadsBack(rows, c, n, rows2, d, m, b - 1) /\ k + (l - 1) <= b - 1
      BY <1>1, <2>1, <2>7
    <3>2. SameBelow(rows, c, k, i, rows2, d, l - 1, g)
      BY <2>7, <3>1 DEF ReadsBack
    <3> QED BY <2>1, <2>2, <2>7, <3>2 DEF SameBelow, Carried
  <2>8. ASSUME NEW f \in 1..Len(rows[k - 1].level), k - 1 \in 0..n, Paired(rows[k - 1], rows[k], i, f),
               NEW g \in 1..Len(rows2[l - 1].level), l - 1 \in 0..m, Paired(rows2[l - 1], rows2[l], j, g)
        PROVE  Same(c, lo, hi, d, lo2, hi2)
    <3>1. b - 1 \in Nat /\ ReadsBack(rows, c, n, rows2, d, m, b - 1) /\ (k - 1) + (l - 1) <= b - 1
      BY <1>1, <2>1, <2>8
    <3>2. f - 1 \in 1..Len(rows[k - 1].level) /\ g - 1 \in 1..Len(rows2[l - 1].level)
      BY <2>8 DEF Paired
    <3>3. SameBelow(rows, c, k - 1, f, rows2, d, l - 1, g) /\ SameBelow(rows, c, k - 1, f - 1, rows2, d, l - 1, g - 1)
      BY <2>8, <3>1, <3>2 DEF ReadsBack
    <3>4. /\ Node(rows[k - 1].level[f - 1], rows[k - 1].level[f]) = Node(rows2[l - 1].level[g - 1], rows2[l - 1].level[g])
          /\ lo = rows[k - 1].cut[f - 2] /\ hi = rows[k - 1].cut[f]
          /\ lo2 = rows2[l - 1].cut[g - 2] /\ hi2 = rows2[l - 1].cut[g]
      BY <2>1, <2>2, <2>8 DEF Paired
    <3>5. rows[k - 1].level[f - 1] = rows2[l - 1].level[g - 1] /\ rows[k - 1].level[f] = rows2[l - 1].level[g]
      BY <3>4, NodeInjective
    <3>6. PICK mid, mid2 : mid = rows[k - 1].cut[f - 1] /\ mid2 = rows2[l - 1].cut[g - 1]
      OBVIOUS
    <3>7. (f - 1) - 1 = f - 2 /\ (g - 1) - 1 = g - 2
      BY <2>8
    <3>8. Same(c, mid, hi, d, mid2, hi2)
      BY <3>3, <3>4, <3>5, <3>6 DEF SameBelow
    <3>9. Same(c, lo, mid, d, lo2, mid2)
      BY <3>3, <3>4, <3>5, <3>6, <3>7 DEF SameBelow
    <3>10. lo \in Nat /\ mid \in Nat /\ hi \in Nat
      BY <2>2, <2>8, <3>6, CutsAreNat
    <3>11. lo2 \in Nat /\ mid2 \in Nat /\ hi2 \in Nat
      BY <2>2, <2>8, <3>6, CutsAreNat
    <3> QED BY <3>8, <3>9, <3>10, <3>11, SameJoined
  <2>9. ASSUME IsFirst(rows2, d, l, j), NEW f \in 1..Len(rows[k - 1].level), Paired(rows[k - 1], rows[k], i, f)
        PROVE  FALSE
    BY <2>1, <2>9, ChunkIsNoNode DEF IsFirst, Paired
  <2>10. ASSUME IsFirst(rows, c, k, i), NEW g \in 1..Len(rows2[l - 1].level), Paired(rows2[l - 1], rows2[l], j, g)
         PROVE  FALSE
    BY <2>1, <2>10, ChunkIsNoNode DEF IsFirst, Paired
  <2>11. Same(c, lo, hi, d, lo2, hi2)
    <3>1. CASE IsFirst(rows, c, k, i) /\ IsAbove(rows2, m, l, j)
      BY <2>7, <2>10, <3>1 DEF IsAbove
    <3>2. CASE IsAbove(rows, n, k, i) /\ IsFirst(rows2, d, l, j)
      BY <2>6, <2>9, <3>2 DEF IsAbove
    <3>3. CASE IsAbove(rows, n, k, i) /\ IsAbove(rows2, m, l, j)
      BY <2>6, <2>7, <2>8, <3>3 DEF IsAbove
    <3> QED BY <2>2, <2>3, <2>4, <2>5, <3>1, <3>2, <3>3
  <2> QED BY <2>2, <2>11
<1>2. 0 \in S
  BY <1>1
<1>3. ASSUME NEW b \in Nat, b \in S PROVE b + 1 \in S
  <2>1. (b + 1) - 1 = b /\ b + 1 \in Nat
    OBVIOUS
  <2>2. ReadsBack(rows, c, n, rows2, d, m, b + 1)
    BY <1>1, <1>3, <2>1
  <2> QED BY <2>1, <2>2
<1>4. bound \in S
  <2> HIDE DEF S
  <2> QED BY <1>2, <1>3, Induction
<1> QED BY <1>4

\* Chunks that reduce to the same root are the same, and as many.
LEMMA ReduceInjective ==
  ASSUME NEW c, NEW d, IsSequence(c), IsSequence(d), Len(c) >= 1, Len(d) >= 1,
         \A i \in 1..Len(c) : IsChunk(c[i]), \A j \in 1..Len(d) : IsChunk(d[j]), Reduce(c) = Reduce(d)
  PROVE  c = d
<1>1. PICK n \in Nat : n = Len(c) /\ n >= 1
  BY SequenceOf
<1>2. PICK m \in Nat : m = Len(d) /\ m >= 1
  BY SequenceOf
<1>3. PICK rows : IsTower(rows, c, n) /\ Reduce(c) = rows[n].level[1]
  BY <1>1, TowerExists
<1>4. PICK rows2 : IsTower(rows2, d, m) /\ Reduce(d) = rows2[m].level[1]
  BY <1>2, TowerExists
<1>5. ReadsBack(rows, c, n, rows2, d, m, n + m)
  BY <1>1, <1>2, <1>3, <1>4, TreesReadBack
<1>6. n \in 0..n /\ m \in 0..m /\ n + m <= n + m /\ 1 \in 1..1 /\ 1 - 1 = 0
  BY <1>1, <1>2
<1>7. Len(rows[n].level) = 1 /\ Len(rows2[m].level) = 1
  BY <1>3, <1>4 DEF IsTower
<1>8. SameBelow(rows, c, n, 1, rows2, d, m, 1)
  BY <1>5, <1>6, <1>7 DEF ReadsBack
<1>9. Same(c, rows[n].cut[0], rows[n].cut[1], d, rows2[m].cut[0], rows2[m].cut[1])
  BY <1>3, <1>4, <1>6, <1>8 DEF SameBelow
<1>10. rows[n].cut[0] = 0 /\ rows[n].cut[1] = n
  <2>1. IsRow(rows[n], n, n)
    BY <1>3, <1>6 DEF IsTower
  <2> QED BY <1>7, <2>1 DEF IsRow
<1>11. rows2[m].cut[0] = 0 /\ rows2[m].cut[1] = m
  <2>1. IsRow(rows2[m], m, m)
    BY <1>4, <1>6 DEF IsTower
  <2> QED BY <1>7, <2>1 DEF IsRow
<1>12. Same(c, 0, n, d, 0, m)
  BY <1>9, <1>10, <1>11
<1>13. n = m /\ \A x \in 1..n : c[x] = d[x]
  <2>1. n - 0 = m - 0 /\ \A x \in 1..n - 0 : c[0 + x] = d[0 + x]
    BY <1>12 DEF Same
  <2> QED BY <1>1, <1>2, <2>1
<1> QED BY <1>1, <1>2, <1>13, SameSequence

-----------------------------------------------------------------------------
(* The pages of a manifest.                                                *)

\* Where a page ends, and how many there are.
End(n, page, i) == IF i * page < n THEN i * page ELSE n
Pages(n, page) == (n + page - 1) \div page

\* The product of two natural numbers is one, and grows with the first.
LEMMA Products ==
  ASSUME NEW a \in Nat, NEW b \in Nat, NEW p \in Nat, a <= b
  PROVE  a * p \in Nat /\ a * p <= b * p /\ (a + 1) * p = a * p + p
<1>1. PICK c \in Nat : b = a + c
  <2>1. b - a \in Nat /\ b = a + (b - a)
    OBVIOUS
  <2> QED BY <2>1
<1>2. c * p \in Nat /\ a * p \in Nat
  OBVIOUS
<1>3. b * p = a * p + c * p
  BY <1>1
<1>4. (a + 1) * p = a * p + p
  OBVIOUS
<1> QED BY <1>2, <1>3, <1>4

\* Every page but the last is full, and the last is not empty.
LEMMA PagesFacts ==
  ASSUME NEW n \in Nat, NEW page \in Nat, n >= 1, page >= 1
  PROVE  /\ Pages(n, page) \in Nat /\ Pages(n, page) >= 1
         /\ Pages(n, page) * page >= n /\ (Pages(n, page) - 1) * page < n
<1>1. PICK m : m = Pages(n, page)
  OBVIOUS
<1>2. PICK t \in Nat : t = n + page - 1
  OBVIOUS
<1>3. m = t \div page
  BY <1>1, <1>2 DEF Pages
<1>4. m \in Int
  BY <1>2, <1>3
<1>5. page * m <= t /\ t < page * m + page
  BY <1>2, <1>3, Z3
<1>6. m >= 1
  BY <1>2, <1>4, <1>5
<1>7. m * page = page * m /\ (m - 1) * page = page * m - page
  BY <1>4
<1> QED BY <1>1, <1>2, <1>4, <1>5, <1>6, <1>7

\* A page begins after the end of the one before it.
LEMMA Ends ==
  ASSUME NEW n \in Nat, NEW page \in Nat, n >= 1, page >= 1
  PROVE  /\ End(n, page, 0) = 0 /\ End(n, page, Pages(n, page)) = n
         /\ \A i \in 0..Pages(n, page) : End(n, page, i) \in Nat
         /\ \A i \in 1..Pages(n, page) : End(n, page, i - 1) = (i - 1) * page
         /\ \A i \in 1..Pages(n, page) : End(n, page, i - 1) <= End(n, page, i) /\ End(n, page, i) <= n
<1>1. PICK m \in Nat : m = Pages(n, page) /\ m >= 1 /\ m * page >= n /\ (m - 1) * page < n
  BY PagesFacts
<1>2. 0 * page = 0
  OBVIOUS
<1>3. End(n, page, 0) = 0 /\ End(n, page, m) = n
  BY <1>1, <1>2 DEF End
<1>4. ASSUME NEW i \in 0..m PROVE End(n, page, i) \in Nat
  BY Products DEF End
<1>5. ASSUME NEW i \in 1..m PROVE End(n, page, i - 1) = (i - 1) * page
  <2>1. i - 1 \in Nat /\ m - 1 \in Nat /\ i - 1 <= m - 1
    BY <1>1
  <2>2. PICK x \in Nat, y \in Nat : x = (i - 1) * page /\ y = (m - 1) * page /\ x <= y
    BY <2>1, Products
  <2>3. x < n
    BY <1>1, <2>2
  <2> QED BY <2>2, <2>3 DEF End
<1>6. ASSUME NEW i \in 1..m PROVE End(n, page, i - 1) <= End(n, page, i) /\ End(n, page, i) <= n
  <2>1. i - 1 \in Nat /\ m - 1 \in Nat /\ i - 1 <= m - 1 /\ (i - 1) + 1 = i /\ i \in Nat
    BY <1>1
  <2>2. PICK x \in Nat, y \in Nat : x = (i - 1) * page /\ y = (m - 1) * page /\ x <= y /\ ((i - 1) + 1) * page = x + page
    BY <2>1, Products
  <2>3. x < n /\ i * page = x + page
    BY <1>1, <2>1, <2>2
  <2>4. End(n, page, i - 1) = x
    BY <2>2, <2>3 DEF End
  <2> QED BY <2>2, <2>3, <2>4 DEF End
<1> QED BY <1>1, <1>3, <1>4, <1>5, <1>6

\* Leaves that are cut into pages.
Paged(leaves, page, n) == page \in Nat /\ page >= 1 /\ n \in Nat /\ n >= 1 /\ n = Len(leaves)
IsPage(page, n, i) == i \in 1..Pages(n, page)

\* Where a page begins and ends.
LEMMA PageEnds ==
  ASSUME NEW leaves, NEW page, NEW n, Paged(leaves, page, n), NEW i, IsPage(page, n, i)
  PROVE  /\ End(n, page, i - 1) \in Nat /\ End(n, page, i) \in Nat
         /\ End(n, page, i - 1) = (i - 1) * page
         /\ End(n, page, i - 1) <= End(n, page, i) /\ End(n, page, i) <= n
<1>1. page \in Nat /\ page >= 1 /\ n \in Nat /\ n >= 1 /\ i \in 1..Pages(n, page)
  BY DEF Paged, IsPage
<1>2. PICK m \in Nat : m = Pages(n, page)
  BY <1>1, PagesFacts
<1>3. i - 1 \in 0..m /\ i \in 0..m /\ i \in 1..m
  BY <1>1, <1>2
<1> QED BY <1>1, <1>2, <1>3, Ends

\* What a chunk is made of, and the leaves of it.
PageItems(leaves, page, i) ==
  [j \in 1..End(Len(leaves), page, i) - ((i - 1) * page + 1) + 1 |-> Bytes(leaves[((i - 1) * page + 1) + j - 1].hash)]
ChunkItems(leaves, page, i) ==
  <<Uint(i - 1), Bytes(leaves[(i - 1) * page + 1].id), Bytes(leaves[End(Len(leaves), page, i)].id),
    Array(PageItems(leaves, page, i))>>
Chunk(leaves, page, i) == Hashed("pm-v1/manifest-chunk", ChunkItems(leaves, page, i))

\* The hashes of a page are a list of items, and those of the leaves between its ends.
LEMMA PageItemsFacts ==
  ASSUME NEW leaves, NEW page, NEW n, Paged(leaves, page, n), NEW i, IsPage(page, n, i)
  PROVE  \A v : v = PageItems(leaves, page, i) =>
           /\ \A lo, hi : lo = End(n, page, i - 1) /\ hi = End(n, page, i) =>
                v = [j \in 1..hi - lo |-> Bytes(leaves[lo + j].hash)]
           /\ AllItems(v)
<1> SUFFICES ASSUME NEW v, v = PageItems(leaves, page, i)
             PROVE  /\ \A lo, hi : lo = End(n, page, i - 1) /\ hi = End(n, page, i) =>
                         v = [j \in 1..hi - lo |-> Bytes(leaves[lo + j].hash)]
                    /\ AllItems(v)
  OBVIOUS
<1>0. page \in Nat /\ page >= 1 /\ n \in Nat /\ n >= 1 /\ n = Len(leaves) /\ i \in 1..Pages(n, page)
  BY DEF Paged, IsPage
<1>1. PICK m \in Nat : m = Pages(n, page)
  BY <1>0, PagesFacts
<1>2. PICK lo \in Nat : lo = End(n, page, i - 1) /\ lo = (i - 1) * page
  <2>1. i - 1 \in 0..m /\ i \in 1..m
    BY <1>0, <1>1
  <2> QED BY <1>0, <1>1, <2>1, Ends
<1>3. PICK hi \in Nat : hi = End(n, page, i)
  <2>1. i \in 0..m
    BY <1>0, <1>1
  <2> QED BY <1>0, <1>1, <2>1, Ends
<1>4. v = [j \in 1..hi - (lo + 1) + 1 |-> Bytes(leaves[(lo + 1) + j - 1].hash)]
  BY <1>0, <1>2, <1>3 DEF PageItems
<1>5. hi - (lo + 1) + 1 = hi - lo /\ \A j \in 1..hi - lo : (lo + 1) + j - 1 = lo + j
  OBVIOUS
<1>6. v = [j \in 1..hi - lo |-> Bytes(leaves[lo + j].hash)]
  BY <1>4, <1>5
<1>7. AllItems(v)
  <2>1. PICK l \in Nat : 1..hi - lo = 1..l
    <3>1. CASE hi >= lo
      <4>1. hi - lo \in Nat
        BY <3>1
      <4> QED BY <4>1
    <3>2. CASE hi < lo
      <4>1. 1..hi - lo = 1..0
        BY <3>2
      <4> QED BY <4>1
    <3> QED BY <3>1, <3>2
  <2>2. v = [j \in 1..l |-> v[j]] /\ \A j \in 1..l : v[j] = Bytes(leaves[lo + j].hash)
    BY <1>6, <2>1
  <2>3. IsSequence(v)
    BY <2>2 DEF IsSequence
  <2>4. DOMAIN v = 1..l /\ DOMAIN v = 1..Len(v)
    BY <2>2, <2>3, SequenceOf
  <2> QED BY <2>2, <2>3, <2>4, LeafIsItem DEF AllItems
<1> QED BY <1>2, <1>3, <1>6, <1>7

\* A chunk is a list of items, and says that it is a chunk.
LEMMA ChunkFacts ==
  ASSUME NEW leaves, NEW page, NEW n, Paged(leaves, page, n), NEW i, IsPage(page, n, i)
  PROVE  /\ AllItems(ChunkItems(leaves, page, i))
         /\ ChunkItems(leaves, page, i)[4] = Array(PageItems(leaves, page, i))
         /\ Chunk(leaves, page, i).ok => IsChunk(Chunk(leaves, page, i).val)
<1>1. PICK v : v = PageItems(leaves, page, i) /\ AllItems(v)
  BY PageItemsFacts
<1>2. IsItem(Array(v))
  BY <1>1, ArrayIsItem
<1>3. PICK a, b, c, x : /\ a = Uint(i - 1) /\ b = Bytes(leaves[(i - 1) * page + 1].id)
                        /\ c = Bytes(leaves[End(Len(leaves), page, i)].id) /\ x = <<a, b, c, Array(v)>>
  OBVIOUS
<1>4. x = ChunkItems(leaves, page, i)
  BY <1>1, <1>3 DEF ChunkItems
<1>5. AllItems(x) /\ x[4] = Array(v)
  BY <1>2, <1>3, FourItems, LeafIsItem
<1>6. ASSUME Chunk(leaves, page, i).ok PROVE IsChunk(Chunk(leaves, page, i).val)
  <2>1. PICK body : body = Encoding(Array(x))
    OBVIOUS
  <2>2. IsSequence(body) /\ Hashed("pm-v1/manifest-chunk", x) = Ok(Sha(Preimage("pm-v1/manifest-chunk", body)))
    BY <1>4, <1>5, <1>6, <2>1, HashedFacts DEF Chunk
  <2>3. Preimage("pm-v1/manifest-chunk", body)[1] = Text("pm-v1/manifest-chunk", 0)
    BY <2>2, PreimageParts
  <2>4. Chunk(leaves, page, i).val = Sha(Preimage("pm-v1/manifest-chunk", body))
    BY <1>4, <2>2 DEF Chunk, Ok
  <2> QED BY <2>3, <2>4 DEF IsChunk
<1> QED BY <1>1, <1>4, <1>5, <1>6

\* Equal chunks hold the same leaves.
LEMMA ChunkInjective ==
  ASSUME NEW q, NEW p, NEW n, Paged(q, p, n), NEW r, NEW p2, NEW m, Paged(r, p2, m),
         NEW i, IsPage(p, n, i), IsPage(p2, m, i),
         Chunk(q, p, i).ok, Chunk(r, p2, i).ok, Chunk(q, p, i).val = Chunk(r, p2, i).val,
         NEW c, c = [x \in 1..n |-> q[x].hash], NEW d, d = [x \in 1..m |-> r[x].hash]
  PROVE  Same(c, End(n, p, i - 1), End(n, p, i), d, End(m, p2, i - 1), End(m, p2, i))
<1>1. PICK lo \in Nat, hi \in Nat : lo = End(n, p, i - 1) /\ hi = End(n, p, i) /\ lo <= hi /\ hi <= n
  BY PageEnds
<1>2. PICK lo2 \in Nat, hi2 \in Nat : lo2 = End(m, p2, i - 1) /\ hi2 = End(m, p2, i) /\ lo2 <= hi2 /\ hi2 <= m
  BY PageEnds
<1>3. PICK v : v = PageItems(q, p, i)
  OBVIOUS
<1>4. PICK w : w = PageItems(r, p2, i)
  OBVIOUS
<1>5. AllItems(v) /\ v = [j \in 1..hi - lo |-> Bytes(q[lo + j].hash)]
  BY <1>1, <1>3, PageItemsFacts
<1>6. AllItems(w) /\ w = [j \in 1..hi2 - lo2 |-> Bytes(r[lo2 + j].hash)]
  BY <1>2, <1>4, PageItemsFacts
<1>8. AllItems(ChunkItems(q, p, i)) /\ ChunkItems(q, p, i)[4] = Array(v)
  BY <1>3, ChunkFacts
<1>9. AllItems(ChunkItems(r, p2, i)) /\ ChunkItems(r, p2, i)[4] = Array(w)
  BY <1>4, ChunkFacts
<1>10. ChunkItems(q, p, i) = ChunkItems(r, p2, i)
  BY <1>8, <1>9, HashedInjective DEF Chunk
<1>11. v = w
  BY <1>5, <1>6, <1>8, <1>9, <1>10, ArrayInjective
<1>12. PICK s \in Nat, t \in Nat : s = hi - lo /\ t = hi2 - lo2
  BY <1>1, <1>2
<1>13. DOMAIN v = 1..s /\ DOMAIN w = 1..t
  BY <1>5, <1>6, <1>12
<1>14. 1..s = 1..t
  BY <1>11, <1>13
<1>15. s = t
  <2>1. s <= t
    <3>1. s # 0 => s \in 1..s
      OBVIOUS
    <3> QED BY <1>14, <3>1
  <2>2. t <= s
    <3>1. t # 0 => t \in 1..t
      OBVIOUS
    <3> QED BY <1>14, <3>1
  <2> QED BY <2>1, <2>2
<1>16. ASSUME NEW x \in 1..s PROVE c[lo + x] = d[lo2 + x]
  <2>1. lo + x \in 1..n /\ lo2 + x \in 1..m
    <3>1. n \in Nat /\ m \in Nat
      BY DEF Paged
    <3>2. x \in Nat /\ x >= 1 /\ x <= hi - lo /\ x <= hi2 - lo2
      BY <1>12, <1>15
    <3>3. lo + x <= n /\ lo2 + x <= m
      <4>1. hi <= n /\ hi2 <= m
        BY <1>1, <1>2
      <4> QED BY <3>1, <3>2, <4>1
    <3> QED BY <3>1, <3>2, <3>3
  <2>2. c[lo + x] = q[lo + x].hash /\ d[lo2 + x] = r[lo2 + x].hash
    BY <2>1
  <2>3. v[x] = Bytes(q[lo + x].hash) /\ w[x] = Bytes(r[lo2 + x].hash)
    BY <1>5, <1>6, <1>12, <1>15
  <2> QED BY <1>11, <2>2, <2>3, LeafInjective
<1>17. Same(c, lo, hi, d, lo2, hi2)
  BY <1>12, <1>15, <1>16 DEF Same
<1> QED BY <1>1, <1>2, <1>17

\* Two lists of pages that are equal one by one, and the hashes of some leaves.
SamePages(q, p, n, r, p2, m) ==
  /\ Pages(n, p) = Pages(m, p2)
  /\ \A i : IsPage(p, n, i) => /\ Chunk(q, p, i).ok /\ Chunk(r, p2, i).ok
                                /\ Chunk(q, p, i).val = Chunk(r, p2, i).val

HashesOf(leaves, n) == [x \in 1..n |-> leaves[x].hash]

\* Such pages hold the same leaves.
LEMMA PagesInjective ==
  ASSUME NEW q, NEW p, NEW n, Paged(q, p, n), NEW r, NEW p2, NEW m, Paged(r, p2, m), SamePages(q, p, n, r, p2, m)
  PROVE  HashesOf(q, n) = HashesOf(r, m)
<1>0. PICK c, d : c = [x \in 1..n |-> q[x].hash] /\ d = [x \in 1..m |-> r[x].hash]
  OBVIOUS
<1>1. PICK k \in Nat : k = Pages(n, p) /\ k = Pages(m, p2)
  BY PagesFacts DEF Paged, SamePages
<1> DEFINE S == {i \in Nat : i <= k => Same(c, 0, End(n, p, i), d, 0, End(m, p2, i))}
<1>2. 0 \in S
  <2>1. End(n, p, 0) = 0 /\ End(m, p2, 0) = 0
    BY Ends DEF Paged
  <2>2. Same(c, 0, 0, d, 0, 0)
    BY DEF Same
  <2> QED BY <2>1, <2>2
<1>3. ASSUME NEW i \in Nat, i \in S PROVE i + 1 \in S
  <2>1. SUFFICES ASSUME i + 1 <= k PROVE Same(c, 0, End(n, p, i + 1), d, 0, End(m, p2, i + 1))
    OBVIOUS
  <2>2. PICK j \in 1..k : j = i + 1 /\ j - 1 = i
    BY <1>1, <2>1
  <2>3. IsPage(p, n, j) /\ IsPage(p2, m, j)
    BY <1>1, <2>2 DEF IsPage
  <2>4. PICK mid \in Nat, hi \in Nat : mid = End(n, p, i) /\ hi = End(n, p, j)
    BY <2>2, <2>3, PageEnds
  <2>5. PICK mid2 \in Nat, hi2 \in Nat : mid2 = End(m, p2, i) /\ hi2 = End(m, p2, j)
    BY <2>2, <2>3, PageEnds
  <2>6. Same(c, End(n, p, j - 1), End(n, p, j), d, End(m, p2, j - 1), End(m, p2, j))
    BY <1>0, <2>3, ChunkInjective DEF SamePages
  <2>7. Same(c, mid, hi, d, mid2, hi2)
    BY <2>2, <2>4, <2>5, <2>6
  <2>8. Same(c, 0, mid, d, 0, mid2)
    BY <1>3, <2>1, <2>4, <2>5
  <2>9. Same(c, 0, hi, d, 0, hi2)
    BY <2>7, <2>8, SameJoined
  <2> QED BY <2>2, <2>4, <2>5, <2>9
<1>4. Same(c, 0, n, d, 0, m)
  <2>1. k \in S
    <3> HIDE DEF S
    <3> QED BY <1>2, <1>3, Induction
  <2>2. End(n, p, k) = n /\ End(m, p2, k) = m
    BY <1>1, Ends DEF Paged
  <2> QED BY <1>1, <2>1, <2>2
<1>5. n = m /\ \A x \in 1..n : c[x] = d[x]
  <2>1. n \in Nat /\ m \in Nat
    BY DEF Paged
  <2>2. n - 0 = m - 0 /\ \A x \in 1..n - 0 : c[0 + x] = d[0 + x]
    BY <1>4 DEF Same
  <2>3. n - 0 = n /\ m - 0 = m /\ \A x \in 1..n : 0 + x = x
    BY <2>1
  <2> QED BY <2>2, <2>3
<1>6. c = d
  BY <1>0, <1>5
<1> QED BY <1>0, <1>6 DEF HashesOf

\* What a hash says it is of.
Says(val, name) == \E z : val = Sha(z) /\ z[1] = Text(name, 0)

\* It says one thing only.
LEMMA SaysOne ==
  ASSUME NEW val, NEW name, NEW other, Says(val, name), Says(val, other)
  PROVE  name = other
<1>1. PICK z : val = Sha(z) /\ z[1] = Text(name, 0)
  BY DEF Says
<1>2. PICK y : val = Sha(y) /\ y[1] = Text(other, 0)
  BY DEF Says
<1>3. Text(name, 0) = Text(other, 0)
  BY <1>1, <1>2, ShaInjective
<1> QED BY <1>3, TextShows

\* What it says is who made it.
LEMMA SaysMaker == ASSUME NEW val, NEW name, Says(val, name) PROVE Maker(val) = HashMaker(name)
BY HashShows DEF Says

\* The root of an empty manifest says so.
LEMMA EmptySays == Says(EmptyRoot, "pm-v1/manifest-empty")
<1>1. PICK label, rest, z : label = Label("pm-v1/manifest-empty") /\ rest = <<ZeroByte>> /\ z = label \o rest
  OBVIOUS
<1>2. IsSequence(label) /\ Len(label) = 1 /\ label[1] = Text("pm-v1/manifest-empty", 0)
  BY <1>1, OneIsSequence DEF Label
<1>3. IsSequence(rest)
  BY <1>1, OneIsSequence
<1>4. Splits(z, label, rest)
  BY <1>1, <1>2, <1>3 DEF Splits
<1>5. \A i \in 1..Len(label) : z[i] = label[i]
  BY <1>4, SplitParts
<1>6. 1 \in 1..Len(label)
  BY <1>2
<1>7. z[1] = label[1]
  BY <1>5, <1>6
<1>8. EmptyRoot = Sha(z)
  BY <1>1 DEF EmptyRoot
<1> QED BY <1>2, <1>7, <1>8 DEF Says

\* Every position of a tree is a chunk or a node.
InTree(val) == Says(val, "pm-v1/manifest-chunk") \/ Says(val, "pm-v1/manifest-node")

\* A tree has nothing else.
LEMMA TreeSays ==
  ASSUME NEW rows, NEW c, NEW n \in Nat, IsTower(rows, c, n), \A i \in 1..Len(c) : IsChunk(c[i])
  PROVE  \A k \in 0..n : \A i \in 1..Len(rows[k].level) : InTree(rows[k].level[i])
<1> DEFINE S == {k \in Nat : k \in 0..n => \A i \in 1..Len(rows[k].level) : InTree(rows[k].level[i])}
<1>1. ASSUME NEW k \in 0..n, k = 0 \/ (k - 1 \in Nat /\ k - 1 \in S), NEW i \in 1..Len(rows[k].level)
      PROVE  InTree(rows[k].level[i])
  <2>1. CASE IsFirst(rows, c, k, i)
    BY <2>1 DEF IsFirst, InTree, IsChunk, Says
  <2>2. CASE IsAbove(rows, n, k, i)
    <3>1. PICK f \in 1..Len(rows[k - 1].level) : Carried(rows[k - 1], rows[k], i, f) \/ Paired(rows[k - 1], rows[k], i, f)
      BY <2>2 DEF IsAbove
    <3>2. CASE Carried(rows[k - 1], rows[k], i, f)
      <4>1. k - 1 \in 0..n
        BY <2>2 DEF IsAbove
      <4>2. InTree(rows[k - 1].level[f])
        BY <1>1, <3>1, <4>1
      <4> QED BY <3>2, <4>2 DEF Carried
    <3>3. CASE Paired(rows[k - 1], rows[k], i, f)
      BY <3>3, NodeFacts DEF Paired, InTree, Says
    <3> QED BY <3>1, <3>2, <3>3
  <2> QED BY <2>1, <2>2, Below
<1>2. 0 \in S
  BY <1>1
<1>3. ASSUME NEW k \in Nat, k \in S PROVE k + 1 \in S
  <2>1. (k + 1) - 1 = k /\ k + 1 \in Nat
    OBVIOUS
  <2>2. (k + 1) - 1 \in Nat /\ (k + 1) - 1 \in S
    <3> HIDE DEF S
    <3> QED BY <1>3, <2>1
  <2>3. k + 1 \in 0..n => \A i \in 1..Len(rows[k + 1].level) : InTree(rows[k + 1].level[i])
    <3> HIDE DEF S
    <3> QED BY <1>1, <2>2
  <2> QED BY <2>1, <2>3
<1>4. Nat \subseteq S
  <2> HIDE DEF S
  <2> QED BY <1>2, <1>3, Induction
<1> QED BY <1>4

\* So is the root.
LEMMA RootSays ==
  ASSUME NEW c, IsSequence(c), Len(c) >= 1, \A i \in 1..Len(c) : IsChunk(c[i])
  PROVE  InTree(Reduce(c))
<1>1. PICK n \in Nat : n = Len(c) /\ n >= 1
  BY SequenceOf
<1>2. PICK rows : IsTower(rows, c, n) /\ Reduce(c) = rows[n].level[1]
  BY <1>1, TowerExists
<1>3. Len(rows[n].level) = 1 /\ n \in 0..n /\ 1 \in 1..1
  BY <1>1, <1>2 DEF IsTower
<1> QED BY <1>2, <1>3, TreeSays

\* The hash of a record.
LeafItems(r) == <<Bytes(r.id), Uint(r.revision), Uint(r.epoch), Bytes(r.envelope), Bool(r.tombstone)>>
RecordFields == {"id", "revision", "epoch", "envelope", "tombstone"}
IsRecord(r) == HasFields(r, RecordFields) /\ r.tombstone \in BOOLEAN

\* It fixes the record.
LEMMA LeafHashExact ==
  ASSUME NEW r, NEW s, IsRecord(r), IsRecord(s), LeafHash(r).ok, LeafHash(s).ok, LeafHash(r).val = LeafHash(s).val
  PROVE  r = s
<1>1. ASSUME NEW x, IsRecord(x)
      PROVE \A v : v = LeafItems(x) =>
              /\ AllItems(v) /\ v[1] = Bytes(x.id) /\ v[2] = Uint(x.revision) /\ v[3] = Uint(x.epoch)
              /\ v[4] = Bytes(x.envelope) /\ v[5] = Bool(x.tombstone)
  <2>1. PICK a, b, c, d, e : /\ a = Bytes(x.id) /\ b = Uint(x.revision) /\ c = Uint(x.epoch)
                             /\ d = Bytes(x.envelope) /\ e = Bool(x.tombstone)
    OBVIOUS
  <2>2. PICK w : w = <<a, b, c, d, e>>
    OBVIOUS
  <2>3. w = LeafItems(x)
    BY <2>1, <2>2 DEF LeafItems
  <2>4. IsItem(a) /\ IsItem(b) /\ IsItem(c) /\ IsItem(d) /\ IsItem(e)
    BY <1>1, <2>1, LeafIsItem DEF IsRecord
  <2>5. AllItems(w) /\ w[1] = a /\ w[2] = b /\ w[3] = c /\ w[4] = d /\ w[5] = e
    BY <2>2, <2>4, FiveItems
  <2> QED BY <2>1, <2>3, <2>5
<1>2. PICK v, w : v = LeafItems(r) /\ w = LeafItems(s)
  OBVIOUS
<1>3. AllItems(v) /\ AllItems(w)
  BY <1>1, <1>2
<1>4. LeafHash(r) = Hashed("pm-v1/manifest-leaf", v) /\ LeafHash(s) = Hashed("pm-v1/manifest-leaf", w)
  BY <1>2 DEF LeafHash, LeafItems
<1>5. v = w
  BY <1>3, <1>4, HashedInjective
<1>6. /\ v[1] = Bytes(r.id) /\ v[2] = Uint(r.revision) /\ v[3] = Uint(r.epoch)
      /\ v[4] = Bytes(r.envelope) /\ v[5] = Bool(r.tombstone)
  BY <1>1, <1>2
<1>7. /\ v[1] = Bytes(s.id) /\ v[2] = Uint(s.revision) /\ v[3] = Uint(s.epoch)
      /\ v[4] = Bytes(s.envelope) /\ v[5] = Bool(s.tombstone)
  BY <1>1, <1>2, <1>5
<1>8. r.id = s.id /\ r.envelope = s.envelope
  <2>1. Bytes(r.id) = Bytes(s.id) /\ Bytes(r.envelope) = Bytes(s.envelope)
    BY <1>6, <1>7
  <2> QED BY <2>1, LeafInjective
<1>9. r.revision = s.revision /\ r.epoch = s.epoch
  <2>1. Uint(r.revision) = Uint(s.revision) /\ Uint(r.epoch) = Uint(s.epoch)
    BY <1>6, <1>7
  <2> QED BY <2>1, LeafInjective
<1>10. r.tombstone = s.tombstone
  <2>1. Bool(r.tombstone) = Bool(s.tombstone) /\ r.tombstone \in BOOLEAN /\ s.tombstone \in BOOLEAN
    BY <1>6, <1>7 DEF IsRecord
  <2> QED BY <2>1, LeafInjective
<1>11. \A f \in RecordFields : r[f] = s[f]
  BY <1>8, <1>9, <1>10 DEF RecordFields
<1> QED BY <1>11, SameFields DEF IsRecord

\* The root of some leaves: that of nothing, or the reduction of their pages.
IsRootOf(c, leaves, page, n) ==
  /\ Paged(leaves, page, n) /\ IsSequence(c) /\ Len(c) = Pages(n, page)
  /\ \A i : IsPage(page, n, i) => Chunk(leaves, page, i).ok /\ c[i] = Chunk(leaves, page, i).val

\* What a root that is answered is of.
LEMMA RootFacts ==
  ASSUME NEW leaves, IsSequence(leaves), NEW page \in Nat, RootFromLeaves(leaves, page).ok
  PROVE  \/ leaves = <<>> /\ RootFromLeaves(leaves, page).val = EmptyRoot
         \/ \E n, c : IsRootOf(c, leaves, page, n) /\ RootFromLeaves(leaves, page).val = Reduce(c)
<1> DEFINE last(i) == IF i * page < Len(leaves) THEN i * page ELSE Len(leaves)
           first(i) == (i - 1) * page + 1
           chunk(i) == Hashed("pm-v1/manifest-chunk",
             <<Uint(i - 1), Bytes(leaves[first(i)].id), Bytes(leaves[last(i)].id),
               Array([j \in 1..last(i) - first(i) + 1 |-> Bytes(leaves[first(i) + j - 1].hash)])>>)
           chunks == 1..(Len(leaves) + page - 1) \div page
<1>1. RootFromLeaves(leaves, page) =
        IF page = 0 THEN Err("LimitExceeded")
        ELSE IF leaves = <<>> THEN Ok(EmptyRoot)
        ELSE IF \E i \in chunks : ~chunk(i).ok THEN Err("LimitExceeded")
        ELSE Ok(Reduce([i \in chunks |-> chunk(i).val]))
  BY DEF RootFromLeaves
<1>2. ASSUME NEW i PROVE chunk(i) = Chunk(leaves, page, i)
  BY DEF Chunk, ChunkItems, PageItems, End
<1>3. chunks = 1..Pages(Len(leaves), page)
  BY DEF Pages
<1> HIDE DEF chunk, chunks
<1>4. page # 0
  BY <1>1 DEF Err
<1>5. CASE leaves = <<>>
  BY <1>1, <1>4, <1>5 DEF Ok
<1>6. CASE leaves # <<>>
  <2>1. PICK n \in Nat : n = Len(leaves)
    BY SequenceOf
  <2>2. n # 0
    <3>1. leaves \in Seq(ToSet(leaves))
      BY SequenceOf
    <3> QED BY <1>6, <2>1, <3>1, EmptySeq
  <2>3. Paged(leaves, page, n)
    BY <1>4, <2>1, <2>2 DEF Paged
  <2>4. PICK k \in Nat : k = Pages(n, page) /\ chunks = 1..k
    BY <1>3, <2>1, <2>3, PagesFacts DEF Paged
  <2>5. ~(\E i \in chunks : ~chunk(i).ok) /\ RootFromLeaves(leaves, page).val = Reduce([i \in chunks |-> chunk(i).val])
    <3>1. CASE \E i \in chunks : ~chunk(i).ok
      BY <1>1, <1>4, <1>6, <3>1 DEF Err
    <3>2. CASE ~(\E i \in chunks : ~chunk(i).ok)
      BY <1>1, <1>4, <1>6, <3>2 DEF Ok
    <3> QED BY <3>1, <3>2
  <2>6. PICK c : c = [i \in 1..k |-> chunk(i).val]
    OBVIOUS
  <2>7. c = [i \in 1..k |-> c[i]] /\ DOMAIN c = 1..k
    BY <2>6
  <2>8. IsSequence(c)
    BY <2>7 DEF IsSequence
  <2>9. Len(c) = k
    BY <2>7, <2>8, SequenceOf
  <2>10. ASSUME NEW i, IsPage(page, n, i) PROVE Chunk(leaves, page, i).ok /\ c[i] = Chunk(leaves, page, i).val
    <3>1. i \in 1..k
      BY <2>4, <2>10 DEF IsPage
    <3> QED BY <1>2, <2>4, <2>5, <2>6, <3>1
  <2>11. IsRootOf(c, leaves, page, n)
    BY <2>3, <2>4, <2>8, <2>9, <2>10 DEF IsRootOf
  <2> QED BY <2>4, <2>5, <2>6, <2>11
<1> QED BY <1>5, <1>6

\* The pages of a root are chunks, and there is one.
LEMMA RootOfChunks ==
  ASSUME NEW c, NEW leaves, NEW page, NEW n, IsRootOf(c, leaves, page, n)
  PROVE  IsSequence(c) /\ Len(c) >= 1 /\ \A i \in 1..Len(c) : IsChunk(c[i])
<1>1. Pages(n, page) \in Nat /\ Pages(n, page) >= 1
  BY PagesFacts DEF IsRootOf, Paged
<1>2. ASSUME NEW i \in 1..Len(c) PROVE IsChunk(c[i])
  <2>1. IsPage(page, n, i)
    BY DEF IsRootOf, IsPage
  <2> QED BY <2>1, ChunkFacts DEF IsRootOf
<1> QED BY <1>1, <1>2 DEF IsRootOf

\* Equal roots are of the same hashes.
LEMMA RootInjective ==
  ASSUME NEW q, NEW p, NEW n, NEW c, IsRootOf(c, q, p, n), NEW r, NEW p2, NEW m, NEW d, IsRootOf(d, r, p2, m),
         Reduce(c) = Reduce(d)
  PROVE  HashesOf(q, n) = HashesOf(r, m)
<1>1. c = d
  BY RootOfChunks, ReduceInjective
<1>2. Pages(n, p) = Pages(m, p2)
  BY <1>1 DEF IsRootOf
<1>3. ASSUME NEW i, IsPage(p, n, i)
      PROVE  Chunk(q, p, i).ok /\ Chunk(r, p2, i).ok /\ Chunk(q, p, i).val = Chunk(r, p2, i).val
  <2>1. IsPage(p2, m, i)
    BY <1>2, <1>3 DEF IsPage
  <2> QED BY <1>1, <1>3, <2>1 DEF IsRootOf
<1>4. Paged(q, p, n) /\ Paged(r, p2, m)
  BY DEF IsRootOf
<1>5. SamePages(q, p, n, r, p2, m)
  BY <1>2, <1>3 DEF SamePages
<1> QED BY <1>4, <1>5, PagesInjective

\* What the records of a manifest are hashed to.
LeavesOf(written) == [i \in DOMAIN written |-> [id |-> written[i].id, hash |-> LeafHash(written[i]).val]]
AreRecords(written) == IsList(written) /\ \A i \in DOMAIN written : IsRecord(written[i])

\* There is a hash for each record.
LEMMA LeavesOfFacts ==
  ASSUME NEW written, AreRecords(written), NEW q, q = LeavesOf(written)
  PROVE  /\ IsSequence(q) /\ Len(q) = Len(written) /\ Len(written) \in Nat
         /\ \A i \in 1..Len(written) : q[i].hash = LeafHash(written[i]).val
<1>1. PICK n \in Nat : n = Len(written) /\ DOMAIN written = 1..n
  BY ListFacts DEF AreRecords
<1>2. q = [i \in 1..n |-> [id |-> written[i].id, hash |-> LeafHash(written[i]).val]]
  BY <1>1 DEF LeavesOf
<1>3. q = [i \in 1..n |-> q[i]] /\ DOMAIN q = 1..n
  BY <1>2
<1>4. IsSequence(q)
  BY <1>3 DEF IsSequence
<1>5. Len(q) = n
  BY <1>3, <1>4, SequenceOf
<1>6. \A i \in 1..n : q[i].hash = LeafHash(written[i]).val
  BY <1>2
<1> QED BY <1>1, <1>4, <1>5, <1>6

\* Equal hashes are of the same records.
LEMMA SameRecords ==
  ASSUME NEW v, NEW w, AreRecords(v), AreRecords(w), \A i \in DOMAIN v : LeafHash(v[i]).ok, \A i \in DOMAIN w : LeafHash(w[i]).ok,
         NEW n, n = Len(v), NEW m, m = Len(w),
         HashesOf(LeavesOf(v), n) = HashesOf(LeavesOf(w), m)
  PROVE  v = w
<1>1. PICK q, r : q = LeavesOf(v) /\ r = LeavesOf(w)
  OBVIOUS
<1>2. n \in Nat /\ \A i \in 1..n : q[i].hash = LeafHash(v[i]).val
  BY <1>1, LeavesOfFacts
<1>3. m \in Nat /\ \A i \in 1..m : r[i].hash = LeafHash(w[i]).val
  BY <1>1, LeavesOfFacts
<1>4. PICK a, b : a = [x \in 1..n |-> q[x].hash] /\ b = [x \in 1..m |-> r[x].hash]
  OBVIOUS
<1>5. a = b
  BY <1>1, <1>4 DEF HashesOf
<1>6. 1..n = 1..m
  BY <1>4, <1>5
<1>7. n = m
  <2>1. n <= m
    <3>1. n # 0 => n \in 1..n
      BY <1>2
    <3> QED BY <1>2, <1>3, <1>6, <3>1
  <2>2. m <= n
    <3>1. m # 0 => m \in 1..m
      BY <1>3
    <3> QED BY <1>2, <1>3, <1>6, <3>1
  <2> QED BY <1>2, <1>3, <2>1, <2>2
<1>8. IsSequence(v) /\ IsSequence(w) /\ DOMAIN v = 1..n /\ DOMAIN w = 1..m
  BY ListFacts DEF AreRecords
<1>9. ASSUME NEW i \in 1..n PROVE v[i] = w[i]
  <2>1. LeafHash(v[i]).val = LeafHash(w[i]).val
    BY <1>2, <1>3, <1>4, <1>5, <1>7
  <2>2. IsRecord(v[i]) /\ IsRecord(w[i]) /\ LeafHash(v[i]).ok /\ LeafHash(w[i]).ok
    BY <1>7, <1>8 DEF AreRecords
  <2> QED BY <2>1, <2>2, LeafHashExact
<1> QED BY <1>7, <1>8, <1>9, SameSequence

\* What the root of a manifest is computed from.
LEMMA ManifestAnswer ==
  ASSUME NEW a, Answered("manifest", a)
  PROVE  /\ AreRecords(a.records) /\ a.page \in Nat
         /\ \A i \in DOMAIN a.records : LeafHash(a.records[i]).ok
         /\ RootFromLeaves(LeavesOf(a.records), a.page).ok
         /\ AnswerOf("manifest", a) = RootFromLeaves(LeavesOf(a.records), a.page).val
<1>1. AreRecords(a.records) /\ a.page \in Nat
  BY DEF Answered, HasArguments, AreRecords, IsRecord, RecordFields
<1> DEFINE hashes == [i \in DOMAIN a.records |-> LeafHash(a.records[i])]
<1>2. Answer([fn |-> "manifest", arg |-> a]) =
        IF \E i \in DOMAIN hashes : ~hashes[i].ok THEN Err("panic")
        ELSE RootFromLeaves([i \in DOMAIN hashes |-> [id |-> a.records[i].id, hash |-> hashes[i].val]], a.page)
  BY DEF Answer
<1>3. DOMAIN hashes = DOMAIN a.records /\ \A i \in DOMAIN a.records : hashes[i] = LeafHash(a.records[i])
  OBVIOUS
<1> HIDE DEF hashes
<1>4. Answer([fn |-> "manifest", arg |-> a]).ok
  BY DEF Answered
<1>5. ~(\E i \in DOMAIN hashes : ~hashes[i].ok)
  BY <1>2, <1>4 DEF Err
<1>6. [i \in DOMAIN hashes |-> [id |-> a.records[i].id, hash |-> hashes[i].val]] = LeavesOf(a.records)
  BY <1>3 DEF LeavesOf
<1>7. Answer([fn |-> "manifest", arg |-> a]) = RootFromLeaves(LeavesOf(a.records), a.page)
  BY <1>2, <1>5, <1>6
<1> QED BY <1>1, <1>3, <1>4, <1>5, <1>7 DEF AnswerOf

\* The root of a manifest fixes its records, whatever the pages.
THEOREM ManifestExact == Exact("manifest")
<1>1. ASSUME NEW a, Answered("manifest", a)
      PROVE  \/ a.records = <<>> /\ AnswerOf("manifest", a) = EmptyRoot
             \/ \E n, c : IsRootOf(c, LeavesOf(a.records), a.page, n) /\ AnswerOf("manifest", a) = Reduce(c)
  <2>1. PICK q : q = LeavesOf(a.records)
    OBVIOUS
  <2>2. IsSequence(q) /\ Len(q) = Len(a.records)
    BY <1>1, <2>1, ManifestAnswer, LeavesOfFacts
  <2>3. RootFromLeaves(q, a.page).ok /\ AnswerOf("manifest", a) = RootFromLeaves(q, a.page).val /\ a.page \in Nat
    BY <1>1, <2>1, ManifestAnswer
  <2>4. CASE q = <<>>
    <3>1. Len(a.records) = 0
      BY <2>2, <2>4
    <3>2. a.records \in Seq(ToSet(a.records))
      BY <1>1, ManifestAnswer, ListFacts, SequenceOf DEF AreRecords
    <3>3. a.records = <<>>
      BY <3>1, <3>2, EmptySeq
    <3>4. AnswerOf("manifest", a) = EmptyRoot \/ \E n, c : IsRootOf(c, q, a.page, n)
      BY <2>2, <2>3, RootFacts
    <3>5. \A n, c : ~IsRootOf(c, q, a.page, n)
      BY <2>2, <3>1 DEF IsRootOf, Paged
    <3> QED BY <3>3, <3>4, <3>5
  <2>5. CASE q # <<>>
    BY <2>1, <2>2, <2>3, <2>5, RootFacts
  <2> QED BY <2>4, <2>5
<1>2. Says(EmptyRoot, "pm-v1/manifest-empty")
  BY EmptySays
<1>3. ASSUME NEW c, NEW q, NEW p, NEW n, IsRootOf(c, q, p, n) PROVE InTree(Reduce(c))
  BY <1>3, RootOfChunks, RootSays
<1>4. ASSUME NEW c, NEW q, NEW p, NEW n, IsRootOf(c, q, p, n) PROVE EmptyRoot # Reduce(c)
  BY <1>2, <1>3, <1>4, SaysOne DEF InTree
<1>5. ASSUME NEW a, Answered("manifest", a) PROVE Maker(AnswerOf("manifest", a)) = "manifest"
  <2>1. Says(AnswerOf("manifest", a), "pm-v1/manifest-empty") \/ InTree(AnswerOf("manifest", a))
    BY <1>1, <1>2, <1>3, <1>5
  <2> QED BY <2>1, SaysMaker DEF InTree, HashMaker
<1>6. ASSUME NEW a, NEW b, Answered("manifest", a), Answered("manifest", b),
             AnswerOf("manifest", a) = AnswerOf("manifest", b)
      PROVE  a.records = b.records
  <2>1. CASE \E n, c : IsRootOf(c, LeavesOf(a.records), a.page, n) /\ AnswerOf("manifest", a) = Reduce(c)
    <3>1. PICK n, c : IsRootOf(c, LeavesOf(a.records), a.page, n) /\ AnswerOf("manifest", a) = Reduce(c)
      BY <2>1
    <3>2. PICK m, d : IsRootOf(d, LeavesOf(b.records), b.page, m) /\ AnswerOf("manifest", b) = Reduce(d)
      BY <1>1, <1>4, <1>6, <3>1
    <3>3. HashesOf(LeavesOf(a.records), n) = HashesOf(LeavesOf(b.records), m)
      BY <1>6, <3>1, <3>2, RootInjective
    <3>4. AreRecords(a.records) /\ AreRecords(b.records)
      BY <1>6, ManifestAnswer
    <3>5. n = Len(a.records) /\ m = Len(b.records)
      <4>1. n = Len(LeavesOf(a.records)) /\ m = Len(LeavesOf(b.records))
        BY <3>1, <3>2 DEF IsRootOf, Paged
      <4> QED BY <3>4, <4>1, LeavesOfFacts
    <3>6. (\A i \in DOMAIN a.records : LeafHash(a.records[i]).ok) /\ \A i \in DOMAIN b.records : LeafHash(b.records[i]).ok
      BY <1>6, ManifestAnswer
    <3>7. PICK v, w : v = a.records /\ w = b.records
      OBVIOUS
    <3>8. v = w
      BY <3>3, <3>4, <3>5, <3>6, <3>7, SameRecords
    <3> QED BY <3>7, <3>8
  <2>2. CASE a.records = <<>> /\ AnswerOf("manifest", a) = EmptyRoot
    BY <1>1, <1>4, <1>6, <2>2
  <2> QED BY <1>1, <1>6, <2>1, <2>2
<1>7. \A a : Bound([fn |-> "manifest", arg |-> a]) = a.records
  BY DEF Bound
<1> QED BY <1>5, <1>6, <1>7 DEF Exact

-----------------------------------------------------------------------------
(* What was made, and what it opens.                                       *)

\* Every answer of a request is exact.
LEMMA AllExact == ASSUME NEW fn, NEW a, HasArguments(fn, a) PROVE Exact(fn)
<1>1. \/ fn \in {"password_key", "record_key", "unlock_key", "unlock_wrap", "recovery_wrap_key", "recovery_auth_seed"}
      \/ fn \in {"manifest_seed", "bootstrap_key", "credential_id", "server", "request", "payload", "kit_core"}
      \/ fn \in {"device_wraps", "recipient", "session", "account", "manifest"}
  BY DEF HasArguments
<1>2. CASE fn \in {"password_key", "record_key", "unlock_key", "unlock_wrap", "recovery_wrap_key", "recovery_auth_seed"}
  BY <1>2, PasswordKeyExact, RecordKeyExact, UnlockKeyExact, UnlockWrapExact, RecoveryWrapKeyExact, RecoveryAuthSeedExact
<1>3. CASE fn \in {"manifest_seed", "bootstrap_key", "credential_id", "server", "request", "payload", "kit_core"}
  BY <1>3, ManifestSeedExact, BootstrapKeyExact, CredentialIdExact, ServerExact, RequestExact, PayloadExact, KitCoreExact
<1>4. CASE fn \in {"device_wraps", "recipient", "session", "account", "manifest"}
  BY <1>4, DeviceWrapsExact, RecipientExact, SessionExact, AccountExact, ManifestExact
<1> QED BY <1>1, <1>2, <1>3, <1>4

\* Equal answers are of the same function, and of the same arguments as far as it commits to them.
THEOREM SameCommitment ==
  ASSUME NEW fn, NEW a, NEW other, NEW b, HasArguments(fn, a), HasArguments(other, b),
         NEW one, one = [fn |-> fn, arg |-> a], NEW two, two = [fn |-> other, arg |-> b],
         Answer(one).ok, Answer(two).ok, Answer(one).val = Answer(two).val
  PROVE  fn = other /\ Bound(one) = Bound(two)
<1>1. Answered(fn, a) /\ Answered(other, b) /\ AnswerOf(fn, a) = AnswerOf(other, b)
  BY DEF Answered, AnswerOf
<1>2. Exact(fn) /\ Exact(other)
  BY AllExact
<1>3. fn = other
  BY <1>1, <1>2 DEF Exact
<1> QED BY <1>1, <1>2, <1>3 DEF Exact

\* A call that others depend on answered what its function does of its arguments.
IsSeal(call) ==
  call.fn = "seal" => \E r \in Roots, c \in KeyContexts, n \in Nonces, a \in Aads, s \in Secrets :
    /\ call.arg = [root |-> r, context |-> c, nonce |-> n, aad |-> a, secret |-> s]
    /\ call.ret = Sealing(r, c, n, a, s)
IsSign(call) ==
  call.fn = "sign" => \E k \in SigningKeys, d \in Domains, b \in Bodies :
    call.arg = [key |-> k, domain |-> d, body |-> b] /\ call.ret = SignEnvelope(k, d, b)
IsMac(call) ==
  call.fn = "mac" => \E k \in SigningKeys, d \in Domains, b \in Bodies :
    call.arg = [key |-> k, domain |-> d, body |-> b] /\ call.ret = MacEnvelope(d, b, k)
IsCommit(call) ==
  call.fn = "commit" => \E fn \in DOMAIN Requests : \E a \in Requests[fn] :
    call.arg = [fn |-> fn, arg |-> a] /\ call.ret = Answer([fn |-> fn, arg |-> a])
IsMade(call) == IsSeal(call) /\ IsSign(call) /\ IsMac(call) /\ IsCommit(call)

CallsInv ==
  /\ IsSequence(log) /\ Len(log) <= 2
  /\ Len(log) >= 1 => IsMade(log[1])
  /\ OpensOnlyWhatWasMade

\* The calls that the property is about.
Judged == {"open", "verify", "commit"}

\* A first call.
LEMMA FirstCall ==
  ASSUME CallsInv, First, NEW fn, NEW arg, NEW ret, Called(fn, arg, ret), fn \notin {"open", "verify"},
         NEW call, call = [fn |-> fn, arg |-> arg, ret |-> ret], IsMade(call)
  PROVE  CallsInv'
<1>1. IsSequence(log) /\ Len(log) = 0
  BY DEF CallsInv, First
<1>2. /\ IsSequence(log') /\ Len(log') = Len(log) + 1 /\ Latest' = call
  BY <1>1, LatestCall
<1>3. Len(log') = 1
  BY <1>1, <1>2
<1>4. log'[1] = call
  BY <1>2, <1>3 DEF Latest
<1>5. call.fn = fn
  OBVIOUS
<1>6. OpensOnlyWhatWasMade'
  BY <1>2, <1>3, <1>5 DEF OpensOnlyWhatWasMade
<1>7. Len(log') <= 2 /\ IsMade(log'[1])
  BY <1>3, <1>4
<1> QED BY <1>2, <1>6, <1>7 DEF CallsInv

\* A second one: the first stays.
LEMMA SecondCall ==
  ASSUME CallsInv, NEW before, After(before), NEW fn, NEW arg, NEW ret, Called(fn, arg, ret),
         NEW call, call = [fn |-> fn, arg |-> arg, ret |-> ret]
  PROVE  /\ IsSequence(log') /\ Len(log') = 2 /\ Latest' = call /\ log'[1] = log[1] /\ log'[2] = call
         /\ log' # <<>> /\ IsMade(log[1]) /\ log[1].fn = before /\ log[1].ret.ok
<1>1. IsSequence(log) /\ Len(log) = 1 /\ log[1].fn = before /\ log[1].ret.ok
  BY DEF CallsInv, After
<1>2. /\ IsSequence(log') /\ Len(log') = Len(log) + 1 /\ Latest' = call /\ log' # <<>>
      /\ \A i \in 1..Len(log) : log'[i] = log[i]
  BY <1>1, LatestCall
<1>3. Len(log') = 2 /\ 1 \in 1..Len(log)
  BY <1>1, <1>2
<1>4. log'[1] = log[1] /\ log'[2] = call
  BY <1>2, <1>3 DEF Latest
<1>5. IsMade(log[1])
  BY <1>1 DEF CallsInv
<1> QED BY <1>1, <1>2, <1>3, <1>4, <1>5

\* One of the functions that the property says nothing of.
LEMMA OtherSecond ==
  ASSUME CallsInv, NEW before, After(before), NEW fn, NEW arg, NEW ret, Called(fn, arg, ret), fn \notin Judged
  PROVE  CallsInv'
<1>1. PICK call : call = [fn |-> fn, arg |-> arg, ret |-> ret]
  OBVIOUS
<1>2. call.fn = fn
  BY <1>1
<1>3. IsSequence(log') /\ Len(log') = 2 /\ Latest' = call /\ log'[1] = log[1] /\ IsMade(log[1])
  BY <1>1, SecondCall
<1>4. OpensOnlyWhatWasMade'
  BY <1>2, <1>3 DEF OpensOnlyWhatWasMade, Returned, Judged
<1> QED BY <1>3, <1>4 DEF CallsInv

\* An opening after a sealing.
LEMMA OpenKeeps ==
  ASSUME CallsInv, Open
  PROVE  CallsInv'
<1>1. PICK r \in Roots, c \in KeyContexts, n \in Nonces, a \in Aads :
        \E sealed \in {log[1].ret.val, Bin("damaged", 16), Bin("damaged", 17)} :
          /\ DeriveRecordKeyBytes(r, c).ok
          /\ Called("open", [root |-> r, context |-> c, nonce |-> n, aad |-> a, sealed |-> sealed],
                    OpenRecordBytes(DeriveRecordKeyBytes(r, c).val, n, a, sealed))
  BY DEF Open
<1>2. PICK sealed \in {log[1].ret.val, Bin("damaged", 16), Bin("damaged", 17)} :
        /\ DeriveRecordKeyBytes(r, c).ok
        /\ Called("open", [root |-> r, context |-> c, nonce |-> n, aad |-> a, sealed |-> sealed],
                  OpenRecordBytes(DeriveRecordKeyBytes(r, c).val, n, a, sealed))
  BY <1>1
<1>3. PICK arg, ret, call : /\ arg = [root |-> r, context |-> c, nonce |-> n, aad |-> a, sealed |-> sealed]
                            /\ ret = OpenRecordBytes(DeriveRecordKeyBytes(r, c).val, n, a, sealed)
                            /\ call = [fn |-> "open", arg |-> arg, ret |-> ret]
  OBVIOUS
<1>4. After("seal")
  BY DEF Open
<1>5. /\ IsSequence(log') /\ Len(log') = 2 /\ Latest' = call /\ log'[1] = log[1] /\ IsMade(log[1])
      /\ log[1].fn = "seal" /\ log[1].ret.ok
  BY <1>2, <1>3, <1>4, SecondCall
<1>6. PICK r0 \in Roots, c0 \in KeyContexts, n0 \in Nonces, a0 \in Aads, s0 \in Secrets :
        /\ log[1].arg = [root |-> r0, context |-> c0, nonce |-> n0, aad |-> a0, secret |-> s0]
        /\ log[1].ret = Sealing(r0, c0, n0, a0, s0)
  BY <1>5 DEF IsMade, IsSeal
<1>7. IsList(c) /\ IsList(c0) /\ s0.len \in Nat
  BY KernelInputsAssumption
<1>8. Sealing(r0, c0, n0, a0, s0).ok /\ sealed \in {Sealing(r0, c0, n0, a0, s0).val, Bin("damaged", 16), Bin("damaged", 17)}
  BY <1>5, <1>6
<1>9. /\ ret.ok <=> sealed = Sealing(r0, c0, n0, a0, s0).val /\ r = r0 /\ c = c0 /\ n = n0 /\ a = a0
      /\ ret.ok => ret.val = s0
  BY <1>2, <1>3, <1>7, <1>8, OpensWhatWasSealed
<1>10. call.fn = "open" /\ call.arg = arg /\ call.ret = ret
  BY <1>3
<1>11. /\ arg.sealed = sealed /\ arg["root"] = r /\ arg["context"] = c /\ arg["nonce"] = n /\ arg["aad"] = a
  BY <1>3
<1>12. PICK made : made = log[1].arg
  OBVIOUS
<1>13. made["root"] = r0 /\ made["context"] = c0 /\ made["nonce"] = n0 /\ made["aad"] = a0 /\ made.secret = s0
  BY <1>6, <1>12
<1>14. (\A f \in {"root", "context", "nonce", "aad"} : arg[f] = made[f]) <=> r = r0 /\ c = c0 /\ n = n0 /\ a = a0
  BY <1>11, <1>13
<1>15. (ret.ok <=> arg.sealed = log[1].ret.val /\ \A f \in {"root", "context", "nonce", "aad"} : arg[f] = made[f])
       /\ (ret.ok => ret.val = made.secret)
  BY <1>6, <1>9, <1>11, <1>13, <1>14
<1>16. OpensOnlyWhatWasMade'
  <2>1. /\ call.ret.ok <=> /\ call.arg.sealed = log'[1].ret.val
                           /\ \A f \in {"root", "context", "nonce", "aad"} : call.arg[f] = log'[1].arg[f]
        /\ call.ret.ok => call.ret.val = log'[1].arg.secret
    BY <1>5, <1>10, <1>12, <1>15
  <2> QED BY <1>5, <1>10, <2>1 DEF OpensOnlyWhatWasMade, Returned
<1> QED BY <1>5, <1>16 DEF CallsInv

\* A verification after a signature or a tag.
LEMMA VerifyKeeps ==
  ASSUME CallsInv, Verify
  PROVE  CallsInv'
<1>1. PICK k \in SigningKeys, d \in Domains, b \in Bodies :
        \/ /\ After("sign")
           /\ Called("verify", [key |-> k, domain |-> d, body |-> b],
                VerifyEnvelope(k, d, EncodeEnvelope(b, DecodeCanonicalEnvelope(log[1].ret.val).val.tag)))
        \/ /\ After("mac")
           /\ Called("verify", [key |-> k, domain |-> d, body |-> b],
                VerifyMacEnvelope(d, Enveloped(b, 32, SplitEnvelope(log[1].ret.val, 32).val.tag), k))
  BY DEF Verify, Enveloped
<1>2. IsSequence(d) /\ IsBody(b)
  BY KernelInputsAssumption, ListFacts DEF IsBody
<1>3. PICK arg : arg = [key |-> k, domain |-> d, body |-> b]
  OBVIOUS
<1>4. ASSUME NEW before, After(before), before = "sign" \/ before = "mac", NEW ret, Called("verify", arg, ret),
             ret.ok <=> arg = log[1].arg
      PROVE  CallsInv'
  <2>1. PICK call : call = [fn |-> "verify", arg |-> arg, ret |-> ret]
    OBVIOUS
  <2>2. call.fn = "verify" /\ call.arg = arg /\ call.ret = ret
    BY <2>1
  <2>3. IsSequence(log') /\ Len(log') = 2 /\ Latest' = call /\ log'[1] = log[1] /\ IsMade(log[1])
    BY <1>4, <2>1, SecondCall
  <2>4. OpensOnlyWhatWasMade'
    BY <1>4, <2>2, <2>3 DEF OpensOnlyWhatWasMade, Returned
  <2> QED BY <2>3, <2>4 DEF CallsInv
<1>5. ASSUME After("sign"),
             Called("verify", arg, VerifyEnvelope(k, d, EncodeEnvelope(b, DecodeCanonicalEnvelope(log[1].ret.val).val.tag)))
      PROVE  CallsInv'
  <2>1. IsMade(log[1]) /\ log[1].fn = "sign" /\ log[1].ret.ok
    BY <1>5 DEF CallsInv, After
  <2>2. PICK k0 \in SigningKeys, d0 \in Domains, b0 \in Bodies :
          log[1].arg = [key |-> k0, domain |-> d0, body |-> b0] /\ log[1].ret = SignEnvelope(k0, d0, b0)
    BY <2>1 DEF IsMade, IsSign
  <2>3. IsSequence(d0) /\ IsBody(b0)
    BY KernelInputsAssumption, ListFacts DEF IsBody
  <2>4. PICK tag : tag = DecodeCanonicalEnvelope(SignEnvelope(k0, d0, b0).val).val.tag
    OBVIOUS
  <2>5. PICK ret : ret = VerifyEnvelope(k, d, EncodeEnvelope(b, tag))
    OBVIOUS
  <2>6. ret.ok <=> k = k0 /\ d = d0 /\ b = b0
    BY <1>2, <2>1, <2>2, <2>3, <2>4, <2>5, VerifiesWhatWasSigned
  <2>7. arg = log[1].arg <=> k = k0 /\ d = d0 /\ b = b0
    BY <1>3, <2>2
  <2>8. Called("verify", arg, ret)
    BY <1>5, <2>2, <2>4, <2>5
  <2> QED BY <1>4, <1>5, <2>6, <2>7, <2>8
<1>6. ASSUME After("mac"),
             Called("verify", arg, VerifyMacEnvelope(d, Enveloped(b, 32, SplitEnvelope(log[1].ret.val, 32).val.tag), k))
      PROVE  CallsInv'
  <2>1. IsMade(log[1]) /\ log[1].fn = "mac" /\ log[1].ret.ok
    BY <1>6 DEF CallsInv, After
  <2>2. PICK k0 \in SigningKeys, d0 \in Domains, b0 \in Bodies :
          log[1].arg = [key |-> k0, domain |-> d0, body |-> b0] /\ log[1].ret = MacEnvelope(d0, b0, k0)
    BY <2>1 DEF IsMade, IsMac
  <2>3. IsSequence(d0) /\ IsBody(b0)
    BY KernelInputsAssumption, ListFacts DEF IsBody
  <2>4. PICK tag : tag = SplitEnvelope(MacEnvelope(d0, b0, k0).val, 32).val.tag
    OBVIOUS
  <2>5. PICK ret : ret = VerifyMacEnvelope(d, Enveloped(b, 32, tag), k)
    OBVIOUS
  <2>6. ret.ok <=> k = k0 /\ d = d0 /\ b = b0
    BY <1>2, <2>1, <2>2, <2>3, <2>4, <2>5, VerifiesWhatWasTagged
  <2>7. arg = log[1].arg <=> k = k0 /\ d = d0 /\ b = b0
    BY <1>3, <2>2
  <2>8. Called("verify", arg, ret)
    BY <1>6, <2>2, <2>4, <2>5
  <2> QED BY <1>4, <1>6, <2>6, <2>7, <2>8
<1> QED BY <1>1, <1>3, <1>5, <1>6

\* A commitment, the first or after one.
LEMMA CommitKeeps ==
  ASSUME CallsInv, Commit
  PROVE  CallsInv'
<1>1. PICK fn \in DOMAIN Requests : \E a \in Requests[fn] :
        Called("commit", [fn |-> fn, arg |-> a], Answer([fn |-> fn, arg |-> a]))
  BY DEF Commit
<1>2. PICK a \in Requests[fn] : Called("commit", [fn |-> fn, arg |-> a], Answer([fn |-> fn, arg |-> a]))
  BY <1>1
<1>3. PICK two, call : two = [fn |-> fn, arg |-> a] /\ call = [fn |-> "commit", arg |-> two, ret |-> Answer(two)]
  OBVIOUS
<1>4. call.fn = "commit" /\ call.arg = two /\ call.ret = Answer(two)
  BY <1>3
<1>5. CASE First
  <2>1. IsCommit(call)
    BY <1>3, <1>4 DEF IsCommit
  <2>2. IsMade(call)
    BY <1>4, <2>1 DEF IsMade, IsSeal, IsSign, IsMac
  <2> QED BY <1>2, <1>3, <1>5, <2>2, FirstCall
<1>6. CASE After("commit")
  <2>1. /\ IsSequence(log') /\ Len(log') = 2 /\ Latest' = call /\ log'[1] = log[1] /\ log'[2] = call
        /\ IsMade(log[1]) /\ log[1].fn = "commit" /\ log[1].ret.ok
    BY <1>2, <1>3, <1>6, SecondCall
  <2>2. PICK other \in DOMAIN Requests : \E b \in Requests[other] :
          log[1].arg = [fn |-> other, arg |-> b] /\ log[1].ret = Answer([fn |-> other, arg |-> b])
    BY <2>1 DEF IsMade, IsCommit
  <2>9. PICK b \in Requests[other] :
          log[1].arg = [fn |-> other, arg |-> b] /\ log[1].ret = Answer([fn |-> other, arg |-> b])
    BY <2>2
  <2>3. PICK one : one = [fn |-> other, arg |-> b]
    OBVIOUS
  <2>4. log[1].arg = one /\ log[1].ret = Answer(one) /\ Answer(one).ok
    BY <2>1, <2>3, <2>9
  <2>5. HasArguments(fn, a) /\ HasArguments(other, b)
    BY RequestsAssumption
  <2>6. one.fn = other /\ two.fn = fn
    BY <1>3, <2>3
  <2>7. Answer(two).ok /\ Answer(one).val = Answer(two).val => other = fn /\ Bound(one) = Bound(two)
    BY <1>3, <2>3, <2>4, <2>5, SameCommitment
  <2>8. OpensOnlyWhatWasMade'
    BY <1>4, <2>1, <2>4, <2>6, <2>7 DEF OpensOnlyWhatWasMade, Returned
  <2> QED BY <2>1, <2>8 DEF CallsInv
<1> QED BY <1>5, <1>6 DEF Commit

\* A sealing, a signature or a tag.
LEMMA MakingKeeps ==
  ASSUME CallsInv, Seal \/ Sign
  PROVE  CallsInv'
<1>1. CASE Seal
  <2>1. PICK r \in Roots, c \in KeyContexts, n \in Nonces, a \in Aads, s \in Secrets :
          Called("seal", [root |-> r, context |-> c, nonce |-> n, aad |-> a, secret |-> s], Sealing(r, c, n, a, s))
    BY <1>1 DEF Seal
  <2>2. PICK arg, ret, call : /\ arg = [root |-> r, context |-> c, nonce |-> n, aad |-> a, secret |-> s]
                              /\ ret = Sealing(r, c, n, a, s) /\ call = [fn |-> "seal", arg |-> arg, ret |-> ret]
    OBVIOUS
  <2>3. call.fn = "seal" /\ call.arg = arg /\ call.ret = ret
    BY <2>2
  <2>4. IsSeal(call)
    BY <2>2, <2>3 DEF IsSeal
  <2>5. IsMade(call)
    BY <2>3, <2>4 DEF IsMade, IsSign, IsMac, IsCommit
  <2>6. First
    BY <1>1 DEF Seal
  <2> QED BY <2>1, <2>2, <2>5, <2>6, FirstCall
<1>2. CASE Sign
  <2>1. PICK k \in SigningKeys, d \in Domains, b \in Bodies :
          \/ Called("sign", [key |-> k, domain |-> d, body |-> b], SignEnvelope(k, d, b))
          \/ Called("mac", [key |-> k, domain |-> d, body |-> b], MacEnvelope(d, b, k))
    BY <1>2 DEF Sign
  <2>2. First
    BY <1>2 DEF Sign
  <2>3. PICK arg : arg = [key |-> k, domain |-> d, body |-> b]
    OBVIOUS
  <2>4. ASSUME NEW fn, NEW ret, \/ fn = "sign" /\ ret = SignEnvelope(k, d, b)
                                \/ fn = "mac" /\ ret = MacEnvelope(d, b, k), Called(fn, arg, ret)
        PROVE  CallsInv'
    <3>1. PICK call : call = [fn |-> fn, arg |-> arg, ret |-> ret]
      OBVIOUS
    <3>2. call.fn = fn /\ call.arg = arg /\ call.ret = ret
      BY <3>1
    <3>3. IsSign(call) /\ IsMac(call)
      BY <2>3, <2>4, <3>2 DEF IsSign, IsMac
    <3>4. IsMade(call) /\ fn \notin {"open", "verify"}
      BY <2>4, <3>2, <3>3 DEF IsMade, IsSeal, IsCommit
    <3> QED BY <2>2, <2>4, <3>1, <3>4, FirstCall
  <2> QED BY <2>1, <2>3, <2>4
<1> QED BY <1>1, <1>2

\* Every other step is a first call, or the decoding of a kit.
LEMMA OtherSteps ==
  ASSUME DecodeDocument \/ AskStatus \/ DecodeCredential \/ EncodeKit \/ DecodeKit \/ DrawPasswords \/ StoreRecord
           \/ LoadSettings \/ CompileRoles \/ Bootstrap \/ Sweep \/ StartApi \/ Connect \/ ValidateInput
  PROVE  /\ First \/ After("kit")
         /\ \E fn, arg, ret : fn \notin Judged \cup {"seal", "sign", "mac"} /\ Called(fn, arg, ret)
<1> DEFINE Apart(fn) == fn \notin Judged \cup {"seal", "sign", "mac"}
<1>1. \A fn \in {"document", "status", "credential", "kit", "typed", "password", "record", "load", "compile",
                 "bootstrap", "sweep", "api", "connect", "validate"} : Apart(fn)
  BY DEF Judged
<1> DEFINE Apt == (First \/ After("kit")) /\ \E fn, arg, ret : Apart(fn) /\ Called(fn, arg, ret)
<1> HIDE DEF Apart
<1>2. ASSUME DecodeDocument PROVE Apt
  BY <1>1, <1>2 DEF DecodeDocument
<1>3. ASSUME AskStatus PROVE Apt
  BY <1>1, <1>3 DEF AskStatus
<1>4. ASSUME DecodeCredential PROVE Apt
  BY <1>1, <1>4 DEF DecodeCredential
<1>5. ASSUME EncodeKit PROVE Apt
  BY <1>1, <1>5 DEF EncodeKit
<1>6. ASSUME DecodeKit PROVE Apt
  BY <1>1, <1>6 DEF DecodeKit
<1>7. ASSUME DrawPasswords PROVE Apt
  BY <1>1, <1>7 DEF DrawPasswords
<1>8. ASSUME StoreRecord PROVE Apt
  BY <1>1, <1>8 DEF StoreRecord
<1>9. ASSUME LoadSettings PROVE Apt
  BY <1>1, <1>9 DEF LoadSettings
<1>10. ASSUME CompileRoles PROVE Apt
  BY <1>1, <1>10 DEF CompileRoles
<1>11. ASSUME Bootstrap PROVE Apt
  BY <1>1, <1>11 DEF Bootstrap
<1>12. ASSUME Sweep PROVE Apt
  BY <1>1, <1>12 DEF Sweep
<1>13. ASSUME StartApi PROVE Apt
  BY <1>1, <1>13 DEF StartApi
<1>14. ASSUME Connect PROVE Apt
  BY <1>1, <1>14 DEF Connect
<1>15. ASSUME ValidateInput PROVE Apt
  BY <1>1, <1>15 DEF ValidateInput
<1>16. Apt
  <2> HIDE DEF Apt
  <2> QED BY <1>2, <1>3, <1>4, <1>5, <1>6, <1>7, <1>8, <1>9, <1>10, <1>11, <1>12, <1>13, <1>14, <1>15
<1> QED BY <1>16 DEF Apart

\* A ciphertext opens only under what it was sealed with, and to what was sealed; a signature or
\* a tag verifies only under its key, for its domain and over its body; and two derived keys or
\* commitments are equal only when the same function made them of the same arguments, whatever
\* the keys, the contexts, the records of a manifest and the pages they are cut into.
THEOREM CallsOpenOnlyWhatWasMade == CallsSpec => []OpensOnlyWhatWasMade
<1>1. CallsInit => CallsInv
  <2> SUFFICES ASSUME log = <<>> PROVE CallsInv
    BY DEF CallsInit
  <2>1. IsSequence(log) /\ Len(log) = 0
    BY DEF IsSequence
  <2> QED BY <2>1 DEF CallsInv, OpensOnlyWhatWasMade
<1>2. CallsInv /\ [CallsNext]_log => CallsInv'
  <2> SUFFICES ASSUME CallsInv, [CallsNext]_log PROVE CallsInv'
    OBVIOUS
  <2>1. CASE Seal \/ Sign
    BY <2>1, MakingKeeps
  <2>2. CASE Open
    BY <2>2, OpenKeeps
  <2>3. CASE Verify
    BY <2>3, VerifyKeeps
  <2>4. CASE Commit
    BY <2>4, CommitKeeps
  <2>5. CASE DecodeDocument \/ AskStatus \/ DecodeCredential \/ EncodeKit \/ DecodeKit \/ DrawPasswords \/ StoreRecord
               \/ LoadSettings \/ CompileRoles \/ Bootstrap \/ Sweep \/ StartApi \/ Connect \/ ValidateInput
    <3>1. PICK fn, arg, ret : fn \notin Judged \cup {"seal", "sign", "mac"} /\ Called(fn, arg, ret)
      BY <2>5, OtherSteps
    <3>2. fn \notin Judged /\ fn \notin {"seal", "sign", "mac", "commit", "open", "verify"}
      BY <3>1 DEF Judged
    <3>3. First \/ After("kit")
      BY <2>5, OtherSteps
    <3>4. CASE First
      <4>1. PICK call : call = [fn |-> fn, arg |-> arg, ret |-> ret]
        OBVIOUS
      <4>2. IsMade(call)
        BY <3>2, <4>1 DEF IsMade, IsSeal, IsSign, IsMac, IsCommit
      <4> QED BY <3>1, <3>2, <3>4, <4>1, <4>2, FirstCall
    <3>5. CASE After("kit")
      BY <3>1, <3>2, <3>5, OtherSecond
    <3> QED BY <3>3, <3>4, <3>5
  <2>6. CASE UNCHANGED log
    BY <2>6 DEF CallsInv, OpensOnlyWhatWasMade, Returned, Latest
  <2> QED BY <2>1, <2>2, <2>3, <2>4, <2>5, <2>6 DEF CallsNext
<1>3. CallsInv => OpensOnlyWhatWasMade
  BY DEF CallsInv
<1> QED BY <1>1, <1>2, <1>3, PTL DEF CallsSpec

-----------------------------------------------------------------------------
(* What is decoded, and how else it could be written.                      *)

\* A document is read as its encoding.
LEMMA DecodedAsWritten ==
  ASSUME NEW doc, NEW l, ProtocolDecode(doc, l).ok
  PROVE  Encoding(ProtocolDecode(doc, l).val) = doc
  BY DEF ProtocolDecode, IsShortest, Ok, Err

\* And a credential as its own.
LEMMA CredentialAsWritten ==
  ASSUME NEW doc, NEW l, WebAuthnDecode(doc, l).ok
  PROVE  EncodeWebAuthn(WebAuthnDecode(doc, l).val) = doc
  BY DEF WebAuthnDecode, IsShortest, Ok, Err

-----------------------------------------------------------------------------
(* Folds.                                                                  *)

\* The table that FoldLeft of f over s keeps: its value on every set of positions.
IsTable(F, f, base, s, n) ==
  F = [p \in SUBSET (1..n) |-> IF p = {} THEN base ELSE f[<<F[p \ {Max(p)}], s[Max(p)]>>]]

\* A set of positions has a last one.
LEMMA LastPosition ==
  ASSUME NEW n \in Nat, NEW p \in SUBSET (1..n), p # {}
  PROVE  /\ Max(p) \in p /\ Max(p) \in 1..n /\ \A i \in p : i <= Max(p)
         /\ \A m \in p : (\A i \in p : i <= m) => Max(p) = m
<1>2. PICK top \in p : \A i \in p : i <= top
  <2>1. {n - i : i \in p} \in SUBSET Nat /\ {n - i : i \in p} # {}
    <3>1. \A i \in p : n - i \in Nat
      OBVIOUS
    <3> QED BY <3>1
  <2>2. PICK least \in {n - i : i \in p} : \A j \in {n - i : i \in p} : least <= j
    BY <2>1, LeastExists
  <2>3. PICK top \in p : least = n - top
    OBVIOUS
  <2>4. \A i \in p : n - top <= n - i
    BY <2>2, <2>3
  <2>5. \A i \in p : i \in Int
    OBVIOUS
  <2>6. \A i \in p : i <= top
    BY <2>4, <2>5
  <2> QED BY <2>6
<1>3. Max(p) \in p /\ \A i \in p : Max(p) >= i
  BY <1>2 DEF Max
<1>4. PICK last \in p : last = Max(p)
  BY <1>3
<1>5. \A i \in p : i \in 1..n /\ last >= i
  BY <1>3, <1>4
<1>6. \A m \in p : (\A i \in p : i <= m) => last = m
  BY <1>5
<1>7. last \in 1..n /\ \A i \in p : i <= last
  BY <1>5
<1> QED BY <1>4, <1>6, <1>7

\* It exists for every sequence, and holds only values of the fold.
LEMMA TableExists ==
  ASSUME NEW V, NEW X, NEW f, NEW base \in V, NEW s, NEW n \in Nat,
         \A v \in V, x \in X : f[<<v, x>>] \in V, \A i \in 1..n : s[i] \in X
  PROVE  \E F : IsTable(F, f, base, s, n) /\ \A p \in SUBSET (1..n) : F[p] \in V
<1> DEFINE S == {m \in Nat : m <= n => \E F : IsTable(F, f, base, s, m) /\ \A p \in SUBSET (1..m) : F[p] \in V}
<1>1. 0 \in S
  <2>1. PICK F : F = [p \in SUBSET (1..0) |-> base]
    OBVIOUS
  <2>2. \A p \in SUBSET (1..0) : p = {}
    OBVIOUS
  <2>3. F = [p \in SUBSET (1..0) |-> IF p = {} THEN base ELSE f[<<F[p \ {Max(p)}], s[Max(p)]>>]]
    BY <2>1, <2>2
  <2>4. IsTable(F, f, base, s, 0) /\ \A p \in SUBSET (1..0) : F[p] \in V
    BY <2>1, <2>3 DEF IsTable
  <2> QED BY <2>4
<1>2. ASSUME NEW m \in Nat, m \in S PROVE m + 1 \in S
  <2> SUFFICES ASSUME m + 1 <= n
               PROVE  \E F : IsTable(F, f, base, s, m + 1) /\ \A p \in SUBSET (1..m + 1) : F[p] \in V
    OBVIOUS
  <2>1. PICK F : IsTable(F, f, base, s, m) /\ \A p \in SUBSET (1..m) : F[p] \in V
    BY <1>2
  <2>2. PICK G : G = [p \in SUBSET (1..m + 1) |-> IF m + 1 \in p THEN f[<<F[p \ {m + 1}], s[m + 1]>>] ELSE F[p]]
    OBVIOUS
  <2>3. ASSUME NEW p \in SUBSET (1..m + 1)
        PROVE  /\ p \ {m + 1} \in SUBSET (1..m)
               /\ m + 1 \in p => p # {} /\ Max(p) = m + 1
               /\ m + 1 \notin p => p \in SUBSET (1..m)
    <3>1. m + 1 \in p => Max(p) = m + 1
      <4> SUFFICES ASSUME m + 1 \in p PROVE Max(p) = m + 1
        OBVIOUS
      <4>1. m + 1 \in Nat /\ \A i \in p : i <= m + 1
        OBVIOUS
      <4> QED BY <4>1, LastPosition
    <3> QED BY <3>1
  <2>4. ASSUME NEW p \in SUBSET (1..m + 1)
        PROVE  /\ G[p] = IF p = {} THEN base ELSE f[<<G[p \ {Max(p)}], s[Max(p)]>>]
               /\ G[p] \in V
    <3>1. CASE m + 1 \in p
      <4>1. PICK q : q = p \ {m + 1}
        OBVIOUS
      <4>2. q \in SUBSET (1..m) /\ q \in SUBSET (1..m + 1) /\ m + 1 \notin q /\ Max(p) = m + 1
        BY <2>3, <3>1, <4>1
      <4>3. G[q] = F[q] /\ G[p] = f[<<F[q], s[m + 1]>>]
        BY <2>2, <3>1, <4>1, <4>2
      <4>4. F[q] \in V /\ s[m + 1] \in X
        BY <2>1, <4>2
      <4> QED BY <3>1, <4>1, <4>2, <4>3, <4>4
    <3>2. CASE m + 1 \notin p
      <4>1. p \in SUBSET (1..m) /\ G[p] = F[p] /\ F[p] \in V
        BY <2>1, <2>2, <2>3, <3>2
      <4>2. F[p] = IF p = {} THEN base ELSE f[<<F[p \ {Max(p)}], s[Max(p)]>>]
        BY <2>1, <4>1 DEF IsTable
      <4>3. PICK q : q = p \ {Max(p)}
        OBVIOUS
      <4>4. q \in SUBSET (1..m + 1) /\ m + 1 \notin q
        BY <3>2, <4>3
      <4>5. G[q] = F[q]
        BY <2>2, <4>4
      <4> QED BY <4>1, <4>2, <4>3, <4>5
    <3> QED BY <3>1, <3>2
  <2>5. IsTable(G, f, base, s, m + 1)
    <3>1. \A p \in SUBSET (1..m + 1) : G[p] = IF p = {} THEN base ELSE f[<<G[p \ {Max(p)}], s[Max(p)]>>]
      BY <2>4
    <3>2. G = [p \in SUBSET (1..m + 1) |-> G[p]]
      BY <2>2
    <3> QED BY <3>1, <3>2 DEF IsTable
  <2> QED BY <2>4, <2>5
<1>3. n \in S
  <2> HIDE DEF S
  <2> QED BY <1>1, <1>2, Induction
<1> QED BY <1>3

\* Read along the prefixes, a table is the fold step by step.
LEMMA TableSteps ==
  ASSUME NEW n \in Nat, NEW i \in 1..n
  PROVE  1..i \in SUBSET (1..n) /\ 1..i # {} /\ Max(1..i) = i /\ (1..i) \ {i} = 1..i - 1
<1>1. 1..i \in SUBSET (1..n) /\ i \in 1..i /\ \A j \in 1..i : j <= i
  OBVIOUS
<1>2. Max(1..i) = i
  BY <1>1, LastPosition
<1>3. (1..i) \ {i} = 1..i - 1
  OBVIOUS
<1> QED BY <1>1, <1>2, <1>3

-----------------------------------------------------------------------------
(* Passwords.                                                              *)

\* A character has its own bytes; ASCII takes one.
LEMMA CharacterBytes ==
  ASSUME NEW char \in Nat
  PROVE  Utf8Len(char) \in Nat \ {0} /\ (char < 128 => Utf8Len(char) = 1)
  BY DEF Utf8Len

\* What a byte adds to the password.
Drawn(text, byte, n) ==
  IF text.len >= 8 \/ byte >= Threshold(n) THEN text
  ELSE [chars |-> Append(text.chars, (byte % n) + 1), len |-> text.len + Utf8Len((byte % n) + 1)]

Blank == [chars |-> <<>>, len |-> 0]

\* The password after the bytes of a sequence is the fold's last step.
LEMMA PasswordSteps ==
  ASSUME NEW n \in Nat \ {0}, NEW byte \in 0..255
  PROVE  \E g : /\ g[0] = Blank /\ \A i \in 1..8 : g[i] = Drawn(g[i - 1], byte, n)
                /\ GeneratePassword([i \in 1..8 |-> byte], [c \in 1..n |-> c], 8) =
                     IF g[8].len < 8 THEN Err("drawing") ELSE Ok(g[8].chars)
<1>1. PICK alphabet : alphabet = [c \in 1..n |-> c]
  OBVIOUS
<1>2. alphabet # <<>> /\ Len(alphabet) = n
  <2>1. IsSequence(alphabet) /\ Len(alphabet) = n
    BY <1>1 DEF IsSequence
  <2>2. Len(<<>>) = 0
    OBVIOUS
  <2> QED BY <2>1, <2>2
<1>3. PICK draws : draws = [i \in 1..8 |-> byte]
  OBVIOUS
<1>4. DOMAIN draws = 1..8 /\ \A i \in 1..8 : draws[i] = byte
  BY <1>3
<1> DEFINE next(text, b) ==
             LET char == alphabet[(b % Len(alphabet)) + 1]
             IN IF text.len >= 8 \/ b >= Threshold(Len(alphabet)) THEN text
                ELSE [chars |-> Append(text.chars, char), len |-> text.len + Utf8Len(char)]
           V == [chars : Seq(Nat), len : Nat]
           f == [p \in V \X Nat |-> next(p[1], p[2])]
           Good(F) == F = [p \in SUBSET (1..8) |-> IF p = {} THEN Blank ELSE next(F[p \ {Max(p)}], draws[Max(p)])]
<1>5. \A v \in V, b \in Nat : next(v, b) \in V /\ f[<<v, b>>] = next(v, b)
  <2>1. \A b \in Nat : (b % n) + 1 \in 1..n
    OBVIOUS
  <2>2. \A b \in Nat : alphabet[(b % n) + 1] \in Nat
    BY <1>1, <2>1
  <2>3. ASSUME NEW v \in V, NEW b \in Nat PROVE next(v, b) \in V
    <3>1. PICK char : char = alphabet[(b % Len(alphabet)) + 1]
      OBVIOUS
    <3>2. char \in Nat /\ Utf8Len(char) \in Nat
      BY <1>2, <2>2, <3>1, CharacterBytes
    <3>3. PICK chars, len : chars = v.chars /\ len = v.len
      OBVIOUS
    <3>4. chars \in Seq(Nat) /\ len \in Nat
      BY <2>3, <3>3
    <3>5. Append(chars, char) \in Seq(Nat) /\ len + Utf8Len(char) \in Nat
      BY <3>2, <3>4
    <3> QED BY <2>3, <3>1, <3>3, <3>5
  <2> HIDE DEF next
  <2> QED BY <2>3
<1>6. Blank \in V
  BY DEF Blank
<1>7. PICK F : Good(F)
  <2>1. 8 \in Nat /\ \A i \in 1..8 : draws[i] \in Nat
    BY <1>4
  <2>2. \A v \in V, b \in Nat : f[<<v, b>>] \in V
    BY <1>5
  <2> HIDE DEF f, V
  <2>3. PICK F : IsTable(F, f, Blank, draws, 8) /\ \A p \in SUBSET (1..8) : F[p] \in V
    BY <1>6, <2>1, <2>2, TableExists
  <2>4. ASSUME NEW p \in SUBSET (1..8), p # {}
        PROVE  f[<<F[p \ {Max(p)}], draws[Max(p)]>>] = next(F[p \ {Max(p)}], draws[Max(p)])
    <3>1. Max(p) \in 1..8
      BY <2>4, LastPosition
    <3>2. F[p \ {Max(p)}] \in V /\ draws[Max(p)] \in Nat
      BY <2>1, <2>3, <3>1
    <3> QED BY <1>5, <3>2
  <2>5. F = [p \in SUBSET (1..8) |-> IF p = {} THEN Blank ELSE f[<<F[p \ {Max(p)}], draws[Max(p)]>>]]
    BY <2>3 DEF IsTable
  <2> HIDE DEF next
  <2>6. Good(F)
    BY <2>4, <2>5
  <2> QED BY <2>6
<1>8. PICK G : Good(G) /\ FoldLeft(next, Blank, draws) = G[1..8]
  <2>1. FoldLeft(next, Blank, draws) = (CHOOSE G : Good(G))[1..8]
    BY <1>4 DEF FoldLeft, MapThenFoldSet
  <2>2. Good(CHOOSE G : Good(G))
    <3> HIDE DEF Good
    <3> QED BY <1>7
  <2> HIDE DEF Good
  <2> QED BY <2>1, <2>2
<1>9. PICK g : g = [i \in 0..8 |-> G[1..i]]
  OBVIOUS
<1>10. g[0] = Blank
  <2>1. 1..0 = {} /\ {} \in SUBSET (1..8)
    OBVIOUS
  <2>2. g[0] = G[{}]
    BY <1>9, <2>1
  <2> QED BY <1>8, <2>1, <2>2
<1>11. ASSUME NEW i \in 1..8 PROVE g[i] = Drawn(g[i - 1], byte, n)
  <2>1. 1..i \in SUBSET (1..8) /\ 1..i # {} /\ Max(1..i) = i /\ (1..i) \ {i} = 1..i - 1
    BY TableSteps
  <2>2. G[1..i] = next(G[1..i - 1], draws[i])
    <3> HIDE DEF next
    <3> QED BY <1>8, <2>1
  <2>3. g[i] = G[1..i] /\ g[i - 1] = G[1..i - 1] /\ draws[i] = byte
    BY <1>4, <1>9
  <2>4. (byte % n) + 1 \in 1..n
    OBVIOUS
  <2>5. next(g[i - 1], byte) = Drawn(g[i - 1], byte, n)
    BY <1>1, <1>2, <2>4 DEF Drawn
  <2> QED BY <2>2, <2>3, <2>5
<1>12. GeneratePassword(draws, alphabet, 8) = IF g[8].len < 8 THEN Err("drawing") ELSE Ok(g[8].chars)
  <2>1. GeneratePassword(draws, alphabet, 8) =
          LET text == FoldLeft(next, Blank, draws)
          IN IF text.len < 8 THEN Err("drawing") ELSE Ok(text.chars)
    <3>1. 8 \in 8..128
      OBVIOUS
    <3> QED BY <1>2, <3>1 DEF GeneratePassword, Blank
  <2>2. FoldLeft(next, Blank, draws) = g[8]
    <3> HIDE DEF next, Good
    <3>1. 8 \in 0..8
      OBVIOUS
    <3> QED BY <1>8, <1>9, <3>1
  <2> HIDE DEF next
  <2> QED BY <2>1, <2>2
<1> QED BY <1>1, <1>3, <1>10, <1>11, <1>12

-----------------------------------------------------------------------------
(* Stored records: the lengths of the buckets.                             *)

\* The powers of two up to the largest bucket.
IsPowers(p) == \A k \in 0..24 : p[k] = 2^k
AreValues(p) ==
  /\ p[0] = 1 /\ p[1] = 2 /\ p[2] = 4 /\ p[3] = 8 /\ p[4] = 16 /\ p[5] = 32 /\ p[6] = 64
  /\ p[7] = 128 /\ p[8] = 256 /\ p[9] = 512 /\ p[10] = 1024 /\ p[11] = 2048 /\ p[12] = 4096
  /\ p[13] = 8192 /\ p[14] = 16384 /\ p[15] = 32768 /\ p[16] = 65536 /\ p[17] = 131072 /\ p[18] = 262144
  /\ p[19] = 524288 /\ p[20] = 1048576 /\ p[21] = 2097152 /\ p[22] = 4194304 /\ p[23] = 8388608 /\ p[24] = 16777216

\* They have a table.
LEMMA Powers == \E p : IsPowers(p) /\ AreValues(p)
<1> DEFINE p == [k \in 0..24 |-> 2^k]
<1>1. p[0] = 1 /\ p[1] = 2 /\ p[2] = 4 /\ p[3] = 8 /\ p[4] = 16 /\ p[5] = 32 /\ p[6] = 64
  BY SMT
<1>2. p[7] = 128 /\ p[8] = 256 /\ p[9] = 512 /\ p[10] = 1024 /\ p[11] = 2048 /\ p[12] = 4096
  BY SMT
<1>3. p[13] = 8192 /\ p[14] = 16384 /\ p[15] = 32768 /\ p[16] = 65536 /\ p[17] = 131072 /\ p[18] = 262144
  BY SMT
<1>4. p[19] = 524288 /\ p[20] = 1048576 /\ p[21] = 2097152 /\ p[22] = 4194304 /\ p[23] = 8388608 /\ p[24] = 16777216
  BY SMT
<1>5. AreValues(p)
  BY SMT, <1>1, <1>2, <1>3, <1>4 DEF AreValues
<1>6. IsPowers(p)
  BY SMT DEF IsPowers
<1> HIDE DEF p
<1> QED BY Zenon, <1>5, <1>6

\* The lengths of the large buckets lie between two bounds.
Between(n) == n \in Int /\ n > 65536 /\ n <= 16777216

\* The large buckets are the powers of two above 2^16.
LEMMA LargeBuckets == \A k \in 17..24 : Between(2^k)
<1>1. PICK p : IsPowers(p) /\ AreValues(p)
  BY Zenon, Powers
<1>2. \A k \in 0..24 : p[k] = 2^k
  BY Zenon, <1>1 DEF IsPowers
<1>3. \A k \in 17..24 : k \in 0..24
  BY SMT
<1>4. \A k \in 17..24 : p[k] = 2^k
  BY Zenon, <1>2, <1>3
<1>5. ASSUME NEW k \in 17..24 PROVE Between(p[k])
  <2>1. k = 17 \/ k = 18 \/ k = 19 \/ k = 20 \/ k = 21 \/ k = 22 \/ k = 23 \/ k = 24
    BY SMT
  <2> QED BY SMT, <1>1, <2>1 DEF AreValues, Between
<1> QED BY Zenon, <1>4, <1>5

\* A larger number is a power of two just when it is one of theirs.
LEMMA LargePowers ==
  ASSUME NEW m \in Int
  PROVE  m > 65536 => (IsPowerOfTwo(m) <=> \E k \in 17..24 : m = 2^k)
<1>1. PICK p : IsPowers(p) /\ AreValues(p)
  BY Zenon, Powers
<1>2. \A k \in 0..16 : p[k] <= 65536
  BY SMT, <1>1 DEF AreValues
<1>3. \A k \in 0..24 : p[k] = 2^k
  BY Zenon, <1>1 DEF IsPowers
<1>4. IsPowerOfTwo(m) <=> \E k \in 0..24 : m = p[k]
  BY SMT, <1>3 DEF IsPowerOfTwo
<1>5. 0..24 = (0..16) \cup (17..24) /\ \A k \in 17..24 : k \in 0..24
  BY SMT
<1>6. \A k \in 17..24 : p[k] = 2^k
  BY Zenon, <1>3, <1>5
<1>7. m > 65536 => (IsPowerOfTwo(m) <=> \E k \in 17..24 : m = p[k])
  BY SMT, <1>2, <1>4, <1>5
<1> QED BY SMT, <1>6, <1>7

\* A length is accepted just when it is that of a bucket and a tag.
LEMMA BucketLengths ==
  ASSUME NEW n \in Int
  PROVE  IsValidRecordCiphertextLength(n) <=> n - 16 \in Buckets
<1>1. PICK m \in Int : m = n - 16
  BY SMT
<1>2. PICK large : large = {2^k : k \in 17..24}
  BY Zenon
<1>3. m \in Buckets <=> (\E k \in 1..4 : m = 1024 * k) \/ (\E k \in 2..16 : m = 4096 * k) \/ m \in large
  BY SMT, <1>2 DEF Buckets
<1>4. \A k \in 1..4 : 1024 * k \in 1024..4096 /\ (1024 * k) % 1024 = 0
  BY SMT
<1>5. \A k \in 2..16 : 4096 * k >= 8192 /\ 4096 * k <= 65536 /\ (4096 * k) % 4096 = 0
  BY SMTT(60)
<1>6. \A x \in large : x \in Int /\ x > 65536 /\ x <= 16777216
  <2>1. \A x \in large : Between(x)
    <3>1. \A k \in 17..24 : Between(2^k)
      BY Zenon, LargeBuckets
    <3>2. \A x \in large : \E k \in 17..24 : x = 2^k
      BY Zenon, <1>2
    <3> QED BY Zenon, <3>1, <3>2
  <2> QED BY SMT, <2>1 DEF Between
<1>7. m > 65536 => (IsPowerOfTwo(m) <=> m \in large)
  <2>1. m \in large <=> \E k \in 17..24 : m = 2^k
    BY SMT, <1>2
  <2> QED BY SMT, <2>1, LargePowers
<1>8. CASE m <= 4096
  <2>1. m \in Buckets <=> \E k \in 1..4 : m = 1024 * k
    BY SMT, <1>3, <1>5, <1>6, <1>8
  <2>2. IsValidRecordCiphertextLength(n) <=> m >= 1024 /\ m % 1024 = 0
    BY SMT, <1>1, <1>8 DEF IsValidRecordCiphertextLength
  <2>3. ASSUME m >= 1024, m % 1024 = 0 PROVE \E k \in 1..4 : m = 1024 * k
    <3>1. m = 1024 * (m \div 1024) /\ m \div 1024 \in 1..4
      BY SMT, <1>8, <2>3
    <3> QED BY SMT, <3>1
  <2> QED BY SMT, <1>1, <1>4, <2>1, <2>2, <2>3
<1>9. CASE m > 4096 /\ m <= 65536
  <2>1. m \in Buckets <=> \E k \in 2..16 : m = 4096 * k
    BY SMT, <1>3, <1>4, <1>6, <1>9
  <2>2. IsValidRecordCiphertextLength(n) <=> m % 4096 = 0
    BY SMT, <1>1, <1>9 DEF IsValidRecordCiphertextLength
  <2>3. ASSUME m % 4096 = 0 PROVE \E k \in 2..16 : m = 4096 * k
    <3>1. m = 4096 * (m \div 4096) /\ m \div 4096 \in 2..16
      BY SMT, <1>9, <2>3
    <3> QED BY SMT, <3>1
  <2> QED BY SMT, <1>1, <1>5, <2>1, <2>2, <2>3
<1>10. CASE m > 65536
  <2>1. m \in Buckets <=> m \in large
    BY SMT, <1>3, <1>4, <1>5, <1>10
  <2>2. IsValidRecordCiphertextLength(n) <=> m <= 16777216 /\ IsPowerOfTwo(m)
    BY SMT, <1>1, <1>10 DEF IsValidRecordCiphertextLength
  <2> QED BY SMT, <1>1, <1>6, <1>7, <1>10, <2>1, <2>2
<1> QED BY SMT, <1>8, <1>9, <1>10

\* What a caller stores of n bytes.
Stored(n) ==
  LET body == Bin("ciphertext", n)
      hex(k) == [len |-> k, lowerHex |-> TRUE]
  IN ValidateGenericRecord(
       [protocol |-> 1, suite |-> 1, revision |-> 1, ciphertext |-> body, declared |-> n,
        deployment |-> hex(32), vault |-> hex(32), record |-> hex(32),
        ciphertextHash |-> hex(64), templateHash |-> hex(64), manifestBinding |-> hex(64)])

\* A record is stored just when its ciphertext has the length of a bucket and a tag.
THEOREM RecordsInBuckets ==
  ASSUME NEW n \in Nat
  PROVE  Stored(n).ok <=> n - 16 \in Buckets
<1> DEFINE hex(k) == [len |-> k, lowerHex |-> TRUE]
           r == [protocol |-> 1, suite |-> 1, revision |-> 1, ciphertext |-> Bin("ciphertext", n), declared |-> n,
                 deployment |-> hex(32), vault |-> hex(32), record |-> hex(32),
                 ciphertextHash |-> hex(64), templateHash |-> hex(64), manifestBinding |-> hex(64)]
<1>1. Stored(n) = ValidateGenericRecord(r)
  BY DEF Stored
<1>2. /\ r.protocol = 1 /\ r.suite = 1 /\ r.revision = 1 /\ r.ciphertext.len = n /\ r.declared = n
      /\ \A f \in {"deployment", "vault", "record"} : r[f] = hex(32)
      /\ \A f \in {"ciphertextHash", "templateHash", "manifestBinding"} : r[f] = hex(64)
  BY DEF Bin
<1> HIDE DEF r
<1>3. IsLowerHex(hex(32), 32) /\ IsLowerHex(hex(64), 64)
  BY DEF IsLowerHex
<1>4. IsValidRecordCiphertextLength(n) => n # 0
  BY SMT DEF IsValidRecordCiphertextLength
<1>5. ValidateGenericRecord(r).ok <=> IsValidRecordCiphertextLength(n)
  <2>1. ValidateGenericRecord(r) = IF n # 0 /\ IsValidRecordCiphertextLength(n) THEN Ok(r) ELSE Err("InvalidRecord")
    BY <1>2, <1>3 DEF ValidateGenericRecord
  <2> QED BY <1>4, <2>1 DEF Ok, Err
<1> QED BY <1>1, <1>5, BucketLengths

-----------------------------------------------------------------------------
(* Passwords: as many bytes for one character as for another.              *)

\* Division by an alphabet's length.
LEMMA Division ==
  ASSUME NEW n \in Nat, n >= 1, NEW a \in Nat
  PROVE  a \div n \in Nat /\ a % n \in 0..n - 1 /\ a = n * (a \div n) + (a % n)
  OBVIOUS

\* And back.
LEMMA Multiple ==
  ASSUME NEW n \in Nat, n >= 1, NEW k \in Nat, NEW r \in 0..n - 1
  PROVE  n * k + r \in Nat /\ (n * k + r) % n = r /\ (n * k + r) \div n = k
  OBVIOUS

\* Multiples keep their order.
LEMMA MultiplesOrdered ==
  ASSUME NEW n \in Nat, NEW k \in Nat, NEW j \in Nat, k < j
  PROVE  n * k + n <= n * j
<1>1. j - k - 1 \in Nat
  OBVIOUS
<1>2. n * (j - k - 1) \in Nat
  BY <1>1
<1>3. n * (j - k - 1) = n * j - n * k - n
  OBVIOUS
<1>4. n * j \in Int /\ n * k \in Int
  OBVIOUS
<1> QED BY <1>2, <1>3, <1>4

\* What the generator makes of one byte, drawn eight times from an alphabet of n.
Made(byte, n) == GeneratePassword([i \in 1..8 |-> byte], [c \in 1..n |-> c], 8)

\* A byte below the threshold stands for one character, eight of which end an ASCII
\* password; another is drawn again.
LEMMA MadeOf ==
  ASSUME NEW n \in Nat \ {0}, NEW byte \in 0..255
  PROVE  /\ byte < Threshold(n) => /\ Made(byte, n).ok /\ Made(byte, n).val[1] = (byte % n) + 1
                                   /\ n < 128 => Len(Made(byte, n).val) = 8
         /\ byte >= Threshold(n) => ~Made(byte, n).ok
<1>1. PICK g : /\ g[0] = Blank /\ \A i \in 1..8 : g[i] = Drawn(g[i - 1], byte, n)
               /\ Made(byte, n) = IF g[8].len < 8 THEN Err("drawing") ELSE Ok(g[8].chars)
  BY PasswordSteps DEF Made
<1>2. 256 % n \in Nat /\ Threshold(n) \in Int
  BY DEF Threshold
<1>3. CASE byte >= Threshold(n)
  <2> DEFINE S == {i \in Nat : i <= 8 => g[i] = Blank}
  <2>1. 0 \in S
    BY <1>1
  <2>2. ASSUME NEW i \in Nat, i \in S PROVE i + 1 \in S
    <3> SUFFICES ASSUME i + 1 <= 8 PROVE g[i + 1] = Blank
      OBVIOUS
    <3>1. g[i] = Blank /\ i + 1 \in 1..8 /\ (i + 1) - 1 = i
      BY <2>2
    <3>2. g[i + 1] = Drawn(g[i], byte, n)
      BY <1>1, <3>1
    <3> QED BY <1>3, <3>1, <3>2 DEF Drawn
  <2>3. 8 \in S
    <3> HIDE DEF S
    <3> QED BY <2>1, <2>2, Induction
  <2>4. g[8] = Blank
    BY <2>3
  <2>5. g[8].len < 8
    BY <2>4 DEF Blank
  <2>6. ~Made(byte, n).ok
    BY <1>1, <2>5 DEF Err
  <2> QED BY <1>2, <1>3, <2>6
<1>4. CASE byte < Threshold(n)
  <2>1. PICK char : char = (byte % n) + 1
    OBVIOUS
  <2>2. char \in Nat /\ char \in 1..n /\ Utf8Len(char) \in Nat \ {0} /\ (n < 128 => Utf8Len(char) = 1)
    <3>1. char \in 1..n
      BY <2>1
    <3> QED BY <3>1, CharacterBytes
  <2> DEFINE Drew(text, i) ==
               /\ IsSequence(text.chars) /\ text.len \in Nat /\ text.len >= i /\ (i = 0 => text.len = 0 /\ Len(text.chars) = 0)
               /\ Len(text.chars) \in Nat /\ (i >= 1 => Len(text.chars) >= 1 /\ text.chars[1] = char)
               /\ n < 128 => text.len = i /\ Len(text.chars) = i
             S == {i \in Nat : i <= 8 => Drew(g[i], i)}
  <2>3. 0 \in S
    <3>1. IsSequence(<<>>) /\ Len(<<>>) = 0
      BY DEF IsSequence
    <3> QED BY <1>1, <3>1 DEF Blank
  <2>4. ASSUME NEW i \in Nat, i \in S PROVE i + 1 \in S
    <3> SUFFICES ASSUME i + 1 <= 8 PROVE Drew(g[i + 1], i + 1)
      OBVIOUS
    <3>1. Drew(g[i], i) /\ i + 1 \in 1..8 /\ (i + 1) - 1 = i
      BY <2>4
    <3>2. ~(byte >= Threshold(n))
      <4>1. byte \in Int
        OBVIOUS
      <4> QED BY <1>2, <1>4, <4>1
    <3>3. PICK old, text : old = g[i] /\ text = g[i + 1]
      OBVIOUS
    <3>4. text = IF old.len >= 8 THEN old
                 ELSE [chars |-> Append(old.chars, char), len |-> old.len + Utf8Len(char)]
      BY <1>1, <2>1, <3>1, <3>2, <3>3 DEF Drawn
    <3>5. Drew(old, i)
      BY <3>1, <3>3
    <3>6. CASE old.len >= 8
      BY <3>3, <3>4, <3>5, <3>6
    <3>7. CASE ~(old.len >= 8)
      <4>1. PICK was : was = old.chars
        OBVIOUS
      <4>2. PICK chars : chars = Append(was, char)
        OBVIOUS
      <4>3. /\ IsSequence(chars) /\ Len(chars) = Len(was) + 1 /\ chars[Len(was) + 1] = char
            /\ \A k \in 1..Len(was) : chars[k] = was[k]
        BY <3>5, <4>1, <4>2, Appended
      <4>4. text.chars = chars /\ text.len = old.len + Utf8Len(char)
        BY <3>4, <3>7, <4>1, <4>2
      <4>5. /\ text.len \in Nat /\ text.len >= i + 1
            /\ n < 128 => text.len = i + 1
        BY <2>2, <3>5, <4>4
      <4>6. Len(was) \in Nat /\ (n < 128 => Len(was) = i)
        BY <3>5, <4>1
      <4>7. chars[1] = char
        <5>1. CASE i = 0
          <6>1. Len(was) = 0
            BY <3>5, <4>1, <5>1
          <6> QED BY <4>3, <6>1
        <5>2. CASE i >= 1
          <6>1. 1 \in 1..Len(was) /\ was[1] = char
            BY <3>5, <4>1, <4>6, <5>2
          <6> QED BY <4>3, <6>1
        <5> QED BY <5>1, <5>2
      <4>8. Drew(text, i + 1)
        BY <4>3, <4>4, <4>5, <4>6, <4>7
      <4> QED BY <3>3, <4>8
    <3> QED BY <3>6, <3>7
  <2>5. 8 \in S
    <3> HIDE DEF S
    <3> QED BY <2>3, <2>4, Induction
  <2>6. Drew(g[8], 8)
    BY <2>5
  <2>7. ~(g[8].len < 8)
    BY <2>6
  <2>8. Made(byte, n) = Ok(g[8].chars)
    BY <1>1, <2>7
  <2>9. Made(byte, n).ok /\ Made(byte, n).val = g[8].chars
    BY <2>8 DEF Ok
  <2> QED BY <1>2, <1>4, <2>1, <2>6, <2>9
<1> QED BY <1>2, <1>3, <1>4

\* Every character of an alphabet has as many bytes as every other.
THEOREM CharactersUniform ==
  ASSUME NEW n \in Nat \ {0}, NEW c \in 1..n
  PROVE  256 \div n = Cardinality({byte \in 0..255 : Made(byte, n).ok /\ Made(byte, n).val[1] = c})
<1>1. PICK q \in Nat : q = 256 \div n
  BY Division
<1>2. n \in Nat /\ n >= 1 /\ c - 1 \in 0..n - 1 /\ c \in Nat
  OBVIOUS
<1>3. Threshold(n) = n * q /\ n * q \in Nat /\ n * q <= 256
  <2>1. 256 % n \in 0..n - 1 /\ 256 = n * q + (256 % n)
    BY <1>1, <1>2, Division
  <2>2. n * q \in Nat
    BY <1>2
  <2> QED BY <2>1, <2>2 DEF Threshold
<1>4. PICK B : B = {byte \in 0..255 : Made(byte, n).ok /\ Made(byte, n).val[1] = c}
  OBVIOUS
<1>5. \A byte : byte \in B <=> byte \in 0..255 /\ byte < n * q /\ byte % n = c - 1
  <2>1. ASSUME NEW byte \in 0..255
        PROVE  Made(byte, n).ok /\ Made(byte, n).val[1] = c <=> byte < n * q /\ byte % n = c - 1
    <3>1. byte % n \in Int
      BY <1>2, Division
    <3>2. CASE byte < n * q
      <4>1. Made(byte, n).ok /\ Made(byte, n).val[1] = (byte % n) + 1
        BY <1>3, <3>2, MadeOf
      <4> QED BY <1>2, <3>1, <3>2, <4>1
    <3>3. CASE byte >= n * q
      <4>1. PICK bound : bound = Threshold(n) /\ bound = n * q
        BY <1>3
      <4>2. byte >= bound
        BY <3>3, <4>1
      <4>3. ~Made(byte, n).ok
        BY ONLY n \in Nat \ {0}, byte \in 0..255, <4>1, <4>2, MadeOf
      <4> QED BY <1>3, <3>3, <4>3
    <3> QED BY <1>3, <3>2, <3>3
  <2> QED BY <1>4, <2>1
<1>6. PICK h : h = [k \in 0..q - 1 |-> n * k + (c - 1)]
  OBVIOUS
<1>7. \A k \in 0..q - 1 : h[k] \in B /\ h[k] \div n = k
  <2> SUFFICES ASSUME NEW k \in 0..q - 1 PROVE h[k] \in B /\ h[k] \div n = k
    OBVIOUS
  <2>1. h[k] = n * k + (c - 1) /\ k \in Nat /\ k < q
    BY <1>6
  <2>2. h[k] \in Nat /\ h[k] % n = c - 1 /\ h[k] \div n = k
    <3>1. PICK r \in 0..n - 1 : r = c - 1
      BY <1>2
    <3>2. n * k + r \in Nat /\ (n * k + r) % n = r /\ (n * k + r) \div n = k
      BY <1>2, <2>1, Multiple
    <3> QED BY <2>1, <3>1, <3>2
  <2>3. n * k + n <= n * q /\ n * k \in Nat
    BY <1>2, <2>1, MultiplesOrdered
  <2>4. h[k] < n * q
    BY <1>2, <1>3, <2>1, <2>3
  <2>5. PICK m \in Nat : m = n * q
    BY <1>3
  <2>6. PICK x \in Nat : x = h[k]
    BY <2>2
  <2>7. x \in 0..255
    BY <1>3, <2>4, <2>5, <2>6
  <2> QED BY Zenon, <1>5, <2>2, <2>4, <2>6, <2>7
<1>8. ASSUME NEW byte \in B PROVE \E k \in 0..q - 1 : h[k] = byte
  <2>1. byte \in Nat /\ byte < n * q /\ byte % n = c - 1
    BY <1>5
  <2>2. byte \div n \in Nat /\ byte = n * (byte \div n) + (c - 1)
    BY <1>2, <2>1, Division
  <2>3. byte \div n < q
    <3>1. CASE q <= byte \div n
      <4>1. PICK k \in Nat : k = byte \div n
        BY <2>2
      <4>2. n * q <= n * k
        <5>1. CASE q = k
          BY <1>3, <5>1
        <5>2. CASE q < k
          BY <1>2, <1>3, <4>1, <5>2, MultiplesOrdered
        <5> QED BY <3>1, <4>1, <5>1, <5>2
      <4>3. n * k <= byte
        BY <1>2, <2>1, <2>2, <4>1
      <4> QED BY <1>2, <1>3, <2>1, <4>1, <4>2, <4>3
    <3> QED BY <2>2, <3>1
  <2>4. PICK k \in Nat : k = byte \div n
    BY <2>2
  <2>5. k \in 0..q - 1
    BY <2>3, <2>4
  <2>6. h[k] = n * k + (c - 1)
    BY <1>6, <2>5
  <2> QED BY <2>2, <2>4, <2>5, <2>6
<1>9. h \in Bijection(0..q - 1, B)
  <2>1. h \in [0..q - 1 -> B]
    BY <1>6, <1>7
  <2>2. \A i, j \in 0..q - 1 : h[i] = h[j] => i = j
    BY <1>7
  <2> QED BY <1>8, <2>1, <2>2 DEF Bijection, Injection, Surjection, IsInjective
<1>10. IsFiniteSet(0..q - 1) /\ Cardinality(0..q - 1) = q
  <2>1. 0 \in Int /\ q - 1 \in Int
    OBVIOUS
  <2> QED BY <2>1, FS_Interval
<1>11. Cardinality(B) = q
  BY <1>9, <1>10, FS_Bijection DEF ExistsBijection
<1> QED BY <1>1, <1>4, <1>11

-----------------------------------------------------------------------------
(* Recovery kits: letters and bytes are the same bits.                     *)

\* The bits of a letter, and of a byte.
Widths == {5, 8}

\* A bit of a value, counted from its highest.
BitOf(v, width, j) == (v \div 2^(width - j)) % 2

\* The places of bits in groups.
LEMMA Places ==
  ASSUME NEW w \in Widths, NEW n \in Nat
  PROVE  /\ w * n \in Nat /\ w * (n + 1) = w * n + w
         /\ \A i \in 1..n, j \in 1..w : w * (i - 1) + j \in 1..w * n
         /\ \A k \in 1..w * n : \E i \in 1..n, j \in 1..w : k = w * (i - 1) + j
<1>1. CASE w = 5
  <2>1. \A k \in 1..5 * n : (k - 1) \div 5 + 1 \in 1..n /\ ((k - 1) % 5) + 1 \in 1..5
                            /\ k = 5 * ((k - 1) \div 5 + 1 - 1) + (((k - 1) % 5) + 1)
    OBVIOUS
  <2>2. ASSUME NEW k \in 1..5 * n PROVE \E i \in 1..n, j \in 1..5 : k = 5 * (i - 1) + j
    <3>1. PICK i, j : i = (k - 1) \div 5 + 1 /\ j = ((k - 1) % 5) + 1
      OBVIOUS
    <3>2. i \in 1..n /\ j \in 1..5 /\ k = 5 * (i - 1) + j
      BY <2>1, <3>1
    <3> QED BY <3>2
  <2> QED BY <1>1, <2>2
<1>2. CASE w = 8
  <2>1. \A k \in 1..8 * n : (k - 1) \div 8 + 1 \in 1..n /\ ((k - 1) % 8) + 1 \in 1..8
                            /\ k = 8 * ((k - 1) \div 8 + 1 - 1) + (((k - 1) % 8) + 1)
    OBVIOUS
  <2>2. ASSUME NEW k \in 1..8 * n PROVE \E i \in 1..n, j \in 1..8 : k = 8 * (i - 1) + j
    <3>1. PICK i, j : i = (k - 1) \div 8 + 1 /\ j = ((k - 1) % 8) + 1
      OBVIOUS
    <3>2. i \in 1..n /\ j \in 1..8 /\ k = 8 * (i - 1) + j
      BY <2>1, <3>1
    <3> QED BY <3>2
  <2> QED BY <1>2, <2>2
<1> QED BY <1>1, <1>2 DEF Widths

\* The bits of a sequence of values, in groups.
Grouped(x, bits, w) == \A i \in 1..Len(x), j \in 1..w : bits[w * (i - 1) + j] = BitOf(x[i], w, j)

\* That is what Bits makes of it.
LEMMA BitsOf ==
  ASSUME NEW w \in Widths, NEW s, IsSequence(s)
  PROVE  /\ IsSequence(Bits(s, w)) /\ Len(s) \in Nat /\ Len(Bits(s, w)) = w * Len(s)
         /\ Grouped(s, Bits(s, w), w)
<1>1. Len(s) \in Nat /\ DOMAIN s = 1..Len(s) /\ w \in Nat
  BY SequenceOf DEF Widths
<1>2. PICK t : t = [i \in DOMAIN s |-> [j \in 1..w |-> BitOf(s[i], w, j)]]
  OBVIOUS
<1>3. IsSequence(t) /\ Len(t) = Len(s)
  BY <1>1, <1>2 DEF IsSequence
<1>4. ASSUME NEW i \in 1..Len(s)
      PROVE  IsSequence(t[i]) /\ Len(t[i]) = w /\ \A j \in 1..w : t[i][j] = BitOf(s[i], w, j)
  <2>1. PICK g : g = [j \in 1..w |-> BitOf(s[i], w, j)]
    OBVIOUS
  <2>2. t[i] = g
    BY <1>1, <1>2, <2>1
  <2>3. IsSequence(g) /\ Len(g) = w /\ \A j \in 1..w : g[j] = BitOf(s[i], w, j)
    BY <1>1, <2>1 DEF IsSequence
  <2> QED BY <2>2, <2>3
<1>5. Bits(s, w) = FlattenSeq(t)
  BY <1>2 DEF Bits, BitOf
<1>6. PICK f : Flattens(f, t)
  BY <1>3, <1>4, FlattenFacts DEF AreSequences
<1> DEFINE S == {n \in Nat : n <= Len(s) =>
                   /\ Len(f[n]) = w * n
                   /\ \A i \in 1..n, j \in 1..w : f[n][w * (i - 1) + j] = BitOf(s[i], w, j)}
<1>7. 0 \in S
  BY <1>1, <1>6 DEF Flattens
<1>8. ASSUME NEW n \in Nat, n \in S PROVE n + 1 \in S
  <2> SUFFICES ASSUME n + 1 <= Len(s)
               PROVE  /\ Len(f[n + 1]) = w * (n + 1)
                      /\ \A i \in 1..n + 1, j \in 1..w : f[n + 1][w * (i - 1) + j] = BitOf(s[i], w, j)
    OBVIOUS
  <2>1. /\ Len(f[n]) = w * n
        /\ \A i \in 1..n, j \in 1..w : f[n][w * (i - 1) + j] = BitOf(s[i], w, j)
    BY <1>1, <1>8
  <2>2. n + 1 \in 1..Len(s) /\ n + 1 \in 1..Len(t) /\ n \in 0..Len(t) /\ (n + 1) - 1 = n
    BY <1>1, <1>3
  <2>3. f[n + 1] = f[n] \o t[n + 1] /\ IsSequence(f[n])
    BY <1>6, <2>2 DEF Flattens
  <2>4. IsSequence(t[n + 1]) /\ Len(t[n + 1]) = w /\ \A j \in 1..w : t[n + 1][j] = BitOf(s[n + 1], w, j)
    BY <1>4, <2>2
  <2>5. /\ Len(f[n + 1]) = w * n + w
        /\ \A k \in 1..w * n : f[n + 1][k] = f[n][k]
        /\ \A j \in 1..w : f[n + 1][w * n + j] = t[n + 1][j]
    <3>1. PICK m \in Nat : m = w * n
      BY Places
    <3>2. /\ Len(f[n + 1]) = Len(f[n]) + Len(t[n + 1])
          /\ \A k \in 1..Len(f[n]) : f[n + 1][k] = f[n][k]
          /\ \A j \in 1..Len(t[n + 1]) : f[n + 1][Len(f[n]) + j] = t[n + 1][j]
      <4>1. PICK x, y, z : x = f[n] /\ y = t[n + 1] /\ z = f[n + 1]
        OBVIOUS
      <4>2. Splits(z, x, y)
        BY <2>3, <2>4, <4>1 DEF Splits
      <4>3. /\ Len(z) = Len(x) + Len(y)
            /\ \A i \in 1..Len(x) : z[i] = x[i]
            /\ \A i \in 1..Len(y) : z[Len(x) + i] = y[i]
        BY <4>2, SplitParts
      <4> QED BY <4>1, <4>3
    <3> QED BY <2>1, <2>4, <3>1, <3>2
  <2>6. /\ w * (n + 1) = w * n + w
        /\ \A i \in 1..n, j \in 1..w : w * (i - 1) + j \in 1..w * n
    BY Places
  <2>7. ASSUME NEW i \in 1..n + 1, NEW j \in 1..w PROVE f[n + 1][w * (i - 1) + j] = BitOf(s[i], w, j)
    <3>1. CASE i = n + 1
      BY <2>2, <2>4, <2>5, <3>1
    <3>2. CASE i # n + 1
      <4>1. i \in 1..n
        BY <3>2
      <4> QED BY <2>1, <2>5, <2>6, <4>1
    <3> QED BY <3>1, <3>2
  <2> QED BY <2>5, <2>6, <2>7
<1>9. Len(s) \in S
  <2> HIDE DEF S
  <2> QED BY <1>1, <1>7, <1>8, Induction
<1>10. Bits(s, w) = f[Len(s)] /\ IsSequence(f[Len(s)])
  BY <1>1, <1>3, <1>5, <1>6 DEF Flattens
<1> QED BY <1>1, <1>9, <1>10 DEF Grouped

\* The value of some bits is the fold's last step.
LEMMA ValueSteps ==
  ASSUME NEW s, IsSequence(s), \A i \in 1..Len(s) : s[i] \in {0, 1}
  PROVE  \E g : /\ g[0] = 0 /\ \A i \in 1..Len(s) : g[i] = 2 * g[i - 1] + s[i]
                /\ ValueOf(s) = g[Len(s)]
<1> DEFINE next(v, bit) == 2 * v + bit
           f == [p \in Nat \X {0, 1} |-> next(p[1], p[2])]
<1>1. PICK n \in Nat : n = Len(s) /\ DOMAIN s = 1..n
  BY SequenceOf
<1> DEFINE Good(F) == F = [p \in SUBSET (1..n) |-> IF p = {} THEN 0 ELSE next(F[p \ {Max(p)}], s[Max(p)])]
<1>2. \A v \in Nat, b \in {0, 1} : f[<<v, b>>] = next(v, b) /\ f[<<v, b>>] \in Nat
  <2>1. ASSUME NEW v \in Nat, NEW b \in {0, 1} PROVE f[<<v, b>>] = next(v, b)
    <3> HIDE DEF next
    <3> QED OBVIOUS
  <2>2. ASSUME NEW v \in Nat, NEW b \in {0, 1} PROVE next(v, b) \in Nat
    OBVIOUS
  <2> HIDE DEF next, f
  <2> QED BY <2>1, <2>2
<1>3. \A i \in 1..n : s[i] \in {0, 1}
  BY <1>1
<1>4. PICK F : Good(F)
  <2>1. 0 \in Nat /\ \A v \in Nat, b \in {0, 1} : f[<<v, b>>] \in Nat
    BY <1>2
  <2>2. PICK F : IsTable(F, f, 0, s, n) /\ \A p \in SUBSET (1..n) : F[p] \in Nat
    <3> DEFINE V == Nat
               X == {0, 1}
    <3>1. 0 \in V /\ (\A v \in V, x \in X : f[<<v, x>>] \in V) /\ \A i \in 1..n : s[i] \in X
      BY <1>3, <2>1
    <3> HIDE DEF V, X, f
    <3>2. \E F : IsTable(F, f, 0, s, n) /\ \A p \in SUBSET (1..n) : F[p] \in V
      BY <3>1, TableExists
    <3> QED BY <3>2 DEF V
  <2>3. ASSUME NEW p \in SUBSET (1..n), p # {}
        PROVE  f[<<F[p \ {Max(p)}], s[Max(p)]>>] = next(F[p \ {Max(p)}], s[Max(p)])
    <3>1. Max(p) \in 1..n
      BY <2>3, LastPosition
    <3>2. F[p \ {Max(p)}] \in Nat /\ s[Max(p)] \in {0, 1}
      BY <1>3, <2>2, <3>1
    <3> HIDE DEF next
    <3> QED BY <1>2, <3>2
  <2>4. F = [p \in SUBSET (1..n) |-> IF p = {} THEN 0 ELSE f[<<F[p \ {Max(p)}], s[Max(p)]>>]]
    BY <2>2 DEF IsTable
  <2> HIDE DEF next
  <2>5. Good(F)
    BY <2>3, <2>4
  <2> QED BY <2>5
<1>5. PICK G : Good(G) /\ ValueOf(s) = G[1..n]
  <2>1. ValueOf(s) = (CHOOSE G : Good(G))[1..n]
    BY <1>1 DEF ValueOf, FoldLeft, MapThenFoldSet
  <2>2. Good(CHOOSE G : Good(G))
    <3> HIDE DEF Good
    <3> QED BY <1>4
  <2> HIDE DEF Good
  <2> QED BY <2>1, <2>2
<1>6. PICK g : g = [i \in 0..n |-> G[1..i]]
  OBVIOUS
<1>7. g[0] = 0
  <2>1. 1..0 = {} /\ {} \in SUBSET (1..n)
    OBVIOUS
  <2>2. g[0] = G[{}]
    BY <1>6, <2>1
  <2> QED BY <1>5, <2>1, <2>2
<1>8. ASSUME NEW i \in 1..n PROVE g[i] = 2 * g[i - 1] + s[i]
  <2>1. 1..i \in SUBSET (1..n) /\ 1..i # {} /\ Max(1..i) = i /\ (1..i) \ {i} = 1..i - 1
    BY TableSteps
  <2>2. G[1..i] = next(G[1..i - 1], s[i])
    <3> HIDE DEF next
    <3> QED BY <1>5, <2>1
  <2>3. g[i] = G[1..i] /\ g[i - 1] = G[1..i - 1]
    BY <1>6
  <2> QED BY <2>2, <2>3
<1>9. ValueOf(s) = g[n]
  <2> HIDE DEF Good
  <2> QED BY <1>5, <1>6
<1> QED BY <1>1, <1>7, <1>8, <1>9

\* The bits of a letter and of a byte.
LEMMA BitsByPlace ==
  ASSUME NEW v \in Nat
  PROVE  /\ BitOf(v, 5, 1) = (v \div 16) % 2 /\ BitOf(v, 5, 2) = (v \div 8) % 2 /\ BitOf(v, 5, 3) = (v \div 4) % 2
         /\ BitOf(v, 5, 4) = (v \div 2) % 2 /\ BitOf(v, 5, 5) = v % 2
         /\ BitOf(v, 8, 1) = (v \div 128) % 2 /\ BitOf(v, 8, 2) = (v \div 64) % 2 /\ BitOf(v, 8, 3) = (v \div 32) % 2
         /\ BitOf(v, 8, 4) = (v \div 16) % 2 /\ BitOf(v, 8, 5) = (v \div 8) % 2 /\ BitOf(v, 8, 6) = (v \div 4) % 2
         /\ BitOf(v, 8, 7) = (v \div 2) % 2 /\ BitOf(v, 8, 8) = v % 2
  BY SMT DEF BitOf

\* The values of five bits, and of eight.
Digits(width) == IF width = 5 THEN 0..31 ELSE 0..255

\* The value of a group has its bits.
LEMMA ValueBits ==
  ASSUME NEW w \in Widths, NEW s, IsSequence(s), Len(s) = w, \A i \in 1..w : s[i] \in {0, 1}
  PROVE  ValueOf(s) \in Digits(w) /\ \A j \in 1..w : BitOf(ValueOf(s), w, j) = s[j]
<1>1. PICK g : g[0] = 0 /\ (\A i \in 1..w : g[i] = 2 * g[i - 1] + s[i]) /\ ValueOf(s) = g[w]
  BY ValueSteps
<1>2. CASE w = 5
  <2>1. /\ g[1] = s[1] /\ g[2] = 2 * g[1] + s[2] /\ g[3] = 2 * g[2] + s[3]
        /\ g[4] = 2 * g[3] + s[4] /\ g[5] = 2 * g[4] + s[5]
    BY <1>1, <1>2
  <2>2. ValueOf(s) = 16 * s[1] + 8 * s[2] + 4 * s[3] + 2 * s[4] + s[5]
    BY <1>1, <1>2, <2>1
  <2>3. PICK v : v = ValueOf(s)
    OBVIOUS
  <2>4. v \in 0..31 /\ v \in Int
    BY <1>2, <2>2, <2>3
  <2>5. /\ (v \div 16) % 2 = s[1] /\ (v \div 8) % 2 = s[2] /\ (v \div 4) % 2 = s[3]
        /\ (v \div 2) % 2 = s[4] /\ v % 2 = s[5]
    BY <1>2, <2>2, <2>3
  <2>6. \A j \in 1..5 : BitOf(v, 5, j) = s[j]
    <3>1. \A j \in 1..5 : j = 1 \/ j = 2 \/ j = 3 \/ j = 4 \/ j = 5
      OBVIOUS
    <3>2. v \in Nat
      BY <2>4
    <3>3. BitOf(v, 5, 1) = s[1] /\ BitOf(v, 5, 2) = s[2] /\ BitOf(v, 5, 3) = s[3] /\ BitOf(v, 5, 4) = s[4] /\ BitOf(v, 5, 5) = s[5]
      BY Zenon, <2>5, <3>2, BitsByPlace
    <3> QED BY <3>1, <3>3
  <2> QED BY <1>2, <2>3, <2>4, <2>6 DEF Digits
<1>3. CASE w = 8
  <2>1. /\ g[1] = s[1] /\ g[2] = 2 * g[1] + s[2] /\ g[3] = 2 * g[2] + s[3]
        /\ g[4] = 2 * g[3] + s[4] /\ g[5] = 2 * g[4] + s[5] /\ g[6] = 2 * g[5] + s[6]
        /\ g[7] = 2 * g[6] + s[7] /\ g[8] = 2 * g[7] + s[8]
    BY <1>1, <1>3
  <2>2. ValueOf(s) = 128 * s[1] + 64 * s[2] + 32 * s[3] + 16 * s[4] + 8 * s[5] + 4 * s[6] + 2 * s[7] + s[8]
    BY <1>1, <1>3, <2>1
  <2>3. PICK v : v = ValueOf(s)
    OBVIOUS
  <2>4. v \in 0..255 /\ v \in Int
    BY <1>3, <2>2, <2>3
  <2>5. /\ (v \div 128) % 2 = s[1] /\ (v \div 64) % 2 = s[2] /\ (v \div 32) % 2 = s[3]
        /\ (v \div 16) % 2 = s[4] /\ (v \div 8) % 2 = s[5] /\ (v \div 4) % 2 = s[6]
        /\ (v \div 2) % 2 = s[7] /\ v % 2 = s[8]
    BY <1>3, <2>2, <2>3
  <2>6. \A j \in 1..8 : BitOf(v, 8, j) = s[j]
    <3>1. \A j \in 1..8 : j = 1 \/ j = 2 \/ j = 3 \/ j = 4 \/ j = 5 \/ j = 6 \/ j = 7 \/ j = 8
      OBVIOUS
    <3>2. v \in Nat
      BY <2>4
    <3>3. /\ BitOf(v, 8, 1) = s[1] /\ BitOf(v, 8, 2) = s[2] /\ BitOf(v, 8, 3) = s[3] /\ BitOf(v, 8, 4) = s[4]
          /\ BitOf(v, 8, 5) = s[5] /\ BitOf(v, 8, 6) = s[6] /\ BitOf(v, 8, 7) = s[7] /\ BitOf(v, 8, 8) = s[8]
      BY Zenon, <2>5, <3>2, BitsByPlace
    <3> QED BY <3>1, <3>3
  <2> QED BY <1>3, <2>3, <2>4, <2>6 DEF Digits
<1> QED BY <1>2, <1>3 DEF Widths

\* A value is the only one with its bits.
LEMMA BitsFixValue ==
  ASSUME NEW w \in Widths, NEW u \in Digits(w), NEW v \in Digits(w), \A j \in 1..w : BitOf(u, w, j) = BitOf(v, w, j)
  PROVE  u = v
<1>1. CASE w = 5
  <2>1. u \in 0..31 /\ v \in 0..31
    BY <1>1 DEF Digits
  <2>2. ASSUME NEW x \in 0..31
        PROVE  x = 16 * BitOf(x, 5, 1) + 8 * BitOf(x, 5, 2) + 4 * BitOf(x, 5, 3) + 2 * BitOf(x, 5, 4) + BitOf(x, 5, 5)
    <3>1. x \in Nat
      OBVIOUS
    <3>2. x = 16 * ((x \div 16) % 2) + 8 * ((x \div 8) % 2) + 4 * ((x \div 4) % 2) + 2 * ((x \div 2) % 2) + (x % 2)
      BY SMT
    <3> QED BY ZenonT(40), <3>1, <3>2, BitsByPlace
  <2>3. \A j \in 1..5 : BitOf(u, 5, j) = BitOf(v, 5, j)
    BY <1>1
  <2>4. /\ BitOf(u, 5, 1) = BitOf(v, 5, 1) /\ BitOf(u, 5, 2) = BitOf(v, 5, 2) /\ BitOf(u, 5, 3) = BitOf(v, 5, 3)
        /\ BitOf(u, 5, 4) = BitOf(v, 5, 4) /\ BitOf(u, 5, 5) = BitOf(v, 5, 5)
    BY <2>3
  <2> QED BY <2>1, <2>2, <2>4
<1>2. CASE w = 8
  <2>1. u \in 0..255 /\ v \in 0..255
    BY <1>2 DEF Digits
  <2>2. ASSUME NEW x \in 0..255
        PROVE  x = 128 * BitOf(x, 8, 1) + 64 * BitOf(x, 8, 2) + 32 * BitOf(x, 8, 3) + 16 * BitOf(x, 8, 4)
                     + 8 * BitOf(x, 8, 5) + 4 * BitOf(x, 8, 6) + 2 * BitOf(x, 8, 7) + BitOf(x, 8, 8)
    <3>1. x \in Nat
      OBVIOUS
    <3>2. x = 128 * ((x \div 128) % 2) + 64 * ((x \div 64) % 2) + 32 * ((x \div 32) % 2) + 16 * ((x \div 16) % 2)
                + 8 * ((x \div 8) % 2) + 4 * ((x \div 4) % 2) + 2 * ((x \div 2) % 2) + (x % 2)
      BY SMT
    <3> QED BY ZenonT(60), <3>1, <3>2, BitsByPlace
  <2>3. \A j \in 1..8 : BitOf(u, 8, j) = BitOf(v, 8, j)
    BY <1>2
  <2>4. /\ BitOf(u, 8, 1) = BitOf(v, 8, 1) /\ BitOf(u, 8, 2) = BitOf(v, 8, 2) /\ BitOf(u, 8, 3) = BitOf(v, 8, 3)
        /\ BitOf(u, 8, 4) = BitOf(v, 8, 4) /\ BitOf(u, 8, 5) = BitOf(v, 8, 5) /\ BitOf(u, 8, 6) = BitOf(v, 8, 6)
        /\ BitOf(u, 8, 7) = BitOf(v, 8, 7) /\ BitOf(u, 8, 8) = BitOf(v, 8, 8)
    BY <2>3
  <2> DEFINE sum(a, b, c, d, e, f, g, h) == 128 * a + 64 * b + 32 * c + 16 * d + 8 * e + 4 * f + 2 * g + h
             of(x) == sum(BitOf(x, 8, 1), BitOf(x, 8, 2), BitOf(x, 8, 3), BitOf(x, 8, 4),
                          BitOf(x, 8, 5), BitOf(x, 8, 6), BitOf(x, 8, 7), BitOf(x, 8, 8))
  <2>5. u = of(u) /\ v = of(v)
    BY Zenon, <2>1, <2>2
  <2>6. of(u) = of(v)
    <3> HIDE DEF sum
    <3> QED BY Zenon, <2>4
  <2> QED BY Zenon, <2>5, <2>6
<1> QED BY <1>1, <1>2 DEF Widths

-----------------------------------------------------------------------------
(* Values cut from bits, and the padding after them.                       *)

\* Bits that make m whole values.
AreBits(bits, w, m) ==
  /\ IsSequence(bits) /\ \A k \in 1..Len(bits) : bits[k] \in {0, 1}
  /\ w * m <= Len(bits) /\ Len(bits) < w * m + w

\* Every value of a sequence has the width.
AllDigits(x, w) == \A i \in 1..Len(x) : x[i] \in Digits(w)

\* The first n of two sequences are the same.
Agree(a, b, n) == \A k \in 1..n : a[k] = b[k]

\* The values of bits.
LEMMA ValuesOf ==
  ASSUME NEW w \in Widths, NEW m \in Nat, NEW bits, AreBits(bits, w, m)
  PROVE  /\ IsSequence(Values(bits, w)) /\ Len(Values(bits, w)) = m
         /\ AllDigits(Values(bits, w), w) /\ Grouped(Values(bits, w), bits, w)
<1>1. PICK n \in Nat : n = Len(bits)
  BY SequenceOf DEF AreBits
<1>2. n \div w = m
  <2>1. w * m <= n /\ n < w * m + w
    BY <1>1 DEF AreBits
  <2>2. CASE w = 5
    BY <2>1, <2>2
  <2>3. CASE w = 8
    BY <2>1, <2>3
  <2> QED BY <2>2, <2>3 DEF Widths
<1>3. PICK v : v = Values(bits, w)
  OBVIOUS
<1>4. v = [i \in 1..m |-> ValueOf(SubSeq(bits, (i - 1) * w + 1, i * w))]
  BY <1>1, <1>2, <1>3 DEF Values
<1>5. IsSequence(v) /\ Len(v) = m
  <2> DEFINE value(i) == ValueOf(SubSeq(bits, (i - 1) * w + 1, i * w))
  <2>1. v = [i \in 1..m |-> value(i)]
    BY <1>4
  <2> HIDE DEF value
  <2> QED BY <2>1 DEF IsSequence
<1>6. ASSUME NEW i \in 1..m
      PROVE  v[i] \in Digits(w) /\ \A j \in 1..w : BitOf(v[i], w, j) = bits[w * (i - 1) + j]
  <2>1. PICK first, last \in Nat : first = (i - 1) * w + 1 /\ last = i * w
    <3>1. (i - 1) * w + 1 \in Nat /\ i * w \in Nat
      BY DEF Widths
    <3> QED BY <3>1
  <2>2. w * m \in Nat /\ \A j \in 1..w : w * (i - 1) + j \in 1..w * m
    BY Places
  <2>3. last - first + 1 = w /\ first <= last /\ \A j \in 1..w : first + j - 1 = w * (i - 1) + j
    <3>1. CASE w = 5
      BY <2>1, <3>1
    <3>2. CASE w = 8
      BY <2>1, <3>2
    <3> QED BY <3>1, <3>2 DEF Widths
  <2>w. w \in Nat
    BY DEF Widths
  <2>4. \A k \in first..last : bits[k] \in {0, 1}
    <3> SUFFICES ASSUME NEW k \in first..last PROVE bits[k] \in {0, 1}
      OBVIOUS
    <3>1. PICK j : j = k - first + 1
      OBVIOUS
    <3>2. j \in 1..w /\ k = w * (i - 1) + j
      BY <2>1, <2>3, <2>w, <3>1
    <3>3. PICK top \in Nat : top = w * m
      BY <2>2
    <3>4. k \in 1..top /\ top <= n
      BY <1>1, <2>2, <3>2, <3>3 DEF AreBits
    <3>5. k \in 1..Len(bits)
      BY <1>1, <3>4
    <3> QED BY <3>5 DEF AreBits
  <2>5. PICK s : s = SubSeq(bits, first, last)
    OBVIOUS
  <2>6. /\ s \in Seq({0, 1}) /\ Len(s) = last - first + 1
        /\ \A j \in 1..last - first + 1 : s[j] = bits[first + j - 1]
    BY <2>1, <2>3, <2>4, <2>5, <2>w, SubSeqProperties
  <2>7. IsSequence(s) /\ Len(s) = w /\ \A j \in 1..w : s[j] \in {0, 1} /\ s[j] = bits[w * (i - 1) + j]
    <3>1. \A j \in 1..w : s[j] = bits[w * (i - 1) + j]
      BY <2>3, <2>6
    <3> QED BY <2>3, <2>6, <3>1, SeqIsSequence
  <2>8. v[i] = ValueOf(s)
    BY <1>4, <2>1, <2>5
  <2>9. ValueOf(s) \in Digits(w) /\ \A j \in 1..w : BitOf(ValueOf(s), w, j) = s[j]
    BY <2>7, ValueBits
  <2> QED BY <2>7, <2>8, <2>9
<1> QED BY <1>3, <1>5, <1>6 DEF AllDigits, Grouped

\* The bits of the values of bits are those bits.
LEMMA BitsOfValues ==
  ASSUME NEW w \in Widths, NEW m \in Nat, NEW bits, AreBits(bits, w, m)
  PROVE  Agree(Bits(Values(bits, w), w), bits, w * m)
<1>1. PICK v : v = Values(bits, w)
  OBVIOUS
<1>2. IsSequence(v) /\ Len(v) = m /\ Grouped(v, bits, w)
  BY <1>1, ValuesOf
<1>3. Grouped(v, Bits(v, w), w)
  BY <1>2, BitsOf
<1>4. ASSUME NEW k \in 1..w * m PROVE Bits(v, w)[k] = bits[k]
  <2>1. PICK i \in 1..m, j \in 1..w : k = w * (i - 1) + j
    BY Places
  <2> QED BY <1>2, <1>3, <2>1 DEF Grouped
<1> QED BY <1>1, <1>4 DEF Agree

\* The values of the bits of some values are those values.
LEMMA ValuesOfBits ==
  ASSUME NEW w \in Widths, NEW m \in Nat, NEW bits, AreBits(bits, w, m),
         NEW x, IsSequence(x), Len(x) = m, AllDigits(x, w), Agree(bits, Bits(x, w), w * m)
  PROVE  Values(bits, w) = x
<1>1. PICK v : v = Values(bits, w)
  OBVIOUS
<1>2. IsSequence(v) /\ Len(v) = m /\ AllDigits(v, w) /\ Grouped(v, bits, w)
  BY <1>1, ValuesOf
<1>3. Grouped(x, Bits(x, w), w)
  BY BitsOf
<1>4. ASSUME NEW i \in 1..m PROVE v[i] = x[i]
  <2>1. ASSUME NEW j \in 1..w PROVE BitOf(v[i], w, j) = BitOf(x[i], w, j)
    <3>1. PICK k \in 1..w * m : k = w * (i - 1) + j
      BY Places
    <3>2. bits[k] = Bits(x, w)[k]
      BY DEF Agree
    <3> QED BY <1>2, <1>3, <3>1, <3>2 DEF Grouped
  <2>2. v[i] \in Digits(w) /\ x[i] \in Digits(w)
    BY <1>2 DEF AllDigits
  <2> QED BY <2>1, <2>2, BitsFixValue
<1> QED BY <1>1, <1>2, <1>4, SameSequence

\* The bytes of a recovery key and its checksum, and the letters they are printed in.
IsPayload(p) == IsSequence(p) /\ Len(p) = 37 /\ \A i \in 1..37 : p[i] \in 0..255
AreLetters(x) == IsSequence(x) /\ Len(x) = 60 /\ \A i \in 1..60 : x[i] \in 0..31

\* The first n of a sequence are zeros and ones.
ZeroOne(bits, n) == \A k \in 1..n : bits[k] \in {0, 1}

\* The bits of values are bits.
LEMMA BitsAreBits ==
  ASSUME NEW w \in Widths, NEW s, IsSequence(s), \A i \in 1..Len(s) : s[i] \in Nat
  PROVE  ZeroOne(Bits(s, w), w * Len(s))
<1>1. /\ Len(s) \in Nat
      /\ \A i \in 1..Len(s), j \in 1..w : Bits(s, w)[w * (i - 1) + j] = BitOf(s[i], w, j)
  BY BitsOf DEF Grouped
<1>2. ASSUME NEW v \in Nat, NEW j \in 1..w PROVE BitOf(v, w, j) \in {0, 1}
  <2>1. CASE w = 5
    <3>1. j = 1 \/ j = 2 \/ j = 3 \/ j = 4 \/ j = 5
      BY <2>1
    <3>2. /\ BitOf(v, 5, 1) \in {0, 1}
          /\ BitOf(v, 5, 2) \in {0, 1}
          /\ BitOf(v, 5, 3) \in {0, 1}
          /\ BitOf(v, 5, 4) \in {0, 1}
          /\ BitOf(v, 5, 5) \in {0, 1}
      <4>1. (v \div 16) % 2 \in {0, 1} /\ (v \div 8) % 2 \in {0, 1} /\ (v \div 4) % 2 \in {0, 1} /\ (v \div 2) % 2 \in {0, 1}
        BY SMT
      <4>3. v % 2 \in {0, 1}
        BY SMT
      <4> QED BY <4>1, <4>3, BitsByPlace
    <3> QED BY <2>1, <3>1, <3>2
  <2>2. CASE w = 8
    <3>1. j = 1 \/ j = 2 \/ j = 3 \/ j = 4 \/ j = 5 \/ j = 6 \/ j = 7 \/ j = 8
      BY <2>2
    <3>2. /\ BitOf(v, 8, 1) \in {0, 1}
          /\ BitOf(v, 8, 2) \in {0, 1}
          /\ BitOf(v, 8, 3) \in {0, 1}
          /\ BitOf(v, 8, 4) \in {0, 1}
          /\ BitOf(v, 8, 5) \in {0, 1}
          /\ BitOf(v, 8, 6) \in {0, 1}
          /\ BitOf(v, 8, 7) \in {0, 1}
          /\ BitOf(v, 8, 8) \in {0, 1}
      <4>1. (v \div 128) % 2 \in {0, 1} /\ (v \div 64) % 2 \in {0, 1} /\ (v \div 32) % 2 \in {0, 1} /\ (v \div 16) % 2 \in {0, 1}
        BY SMT
      <4>2. (v \div 8) % 2 \in {0, 1} /\ (v \div 4) % 2 \in {0, 1} /\ (v \div 2) % 2 \in {0, 1}
        BY SMT
      <4>3. v % 2 \in {0, 1}
        BY SMT
      <4> QED BY <4>1, <4>2, <4>3, BitsByPlace
    <3> QED BY <2>2, <3>1, <3>2
  <2> QED BY <2>1, <2>2 DEF Widths
<1> SUFFICES ASSUME NEW k \in 1..w * Len(s) PROVE Bits(s, w)[k] \in {0, 1}
  BY DEF ZeroOne
<1>3. PICK i \in 1..Len(s), j \in 1..w : k = w * (i - 1) + j
  BY <1>1, Places
<1> QED BY <1>1, <1>2, <1>3

\* The letters of a payload: its bits and four zeros, in groups of five.
LEMMA LettersOf ==
  ASSUME NEW p, IsPayload(p)
  PROVE  \E padded : /\ AreBits(padded, 5, 60) /\ Len(padded) = 300
                     /\ \A k \in 1..296 : padded[k] = Bits(p, 8)[k]
                     /\ \A k \in 297..300 : padded[k] = 0
                     /\ Base32Encode(p) = Values(padded, 5)
<1>1. PICK bits : bits = Bits(p, 8)
  OBVIOUS
<1>2. IsSequence(bits) /\ Len(bits) = 296 /\ \A k \in 1..296 : bits[k] \in {0, 1}
  <2>1. IsSequence(p) /\ Len(p) = 37 /\ \A i \in 1..Len(p) : p[i] \in Nat
    <3>1. \A n \in 0..255 : n \in Nat
      OBVIOUS
    <3> QED BY <3>1 DEF IsPayload
  <2>2. IsSequence(bits) /\ Len(bits) = 8 * Len(p) /\ ZeroOne(bits, 8 * Len(p))
    <3>1. 8 \in Widths
      BY DEF Widths
    <3> QED BY <1>1, <2>1, <3>1, BitsOf, BitsAreBits
  <2> QED BY <2>1, <2>2 DEF ZeroOne
<1>3. PICK zeros : zeros = [i \in 1..4 |-> 0]
  OBVIOUS
<1>4. IsSequence(zeros) /\ Len(zeros) = 4 /\ \A i \in 1..4 : zeros[i] = 0
  BY <1>3 DEF IsSequence
<1>5. PICK padded : padded = bits \o zeros
  OBVIOUS
<1>6. Splits(padded, bits, zeros)
  BY <1>2, <1>4, <1>5 DEF Splits
<1>7. /\ IsSequence(padded) /\ Len(padded) = 300
      /\ \A k \in 1..296 : padded[k] = bits[k]
      /\ \A k \in 1..4 : padded[296 + k] = 0
  <2>1. /\ IsSequence(padded) /\ Len(padded) = Len(bits) + Len(zeros)
        /\ \A k \in 1..Len(bits) : padded[k] = bits[k]
        /\ \A k \in 1..Len(zeros) : padded[Len(bits) + k] = zeros[k]
    BY <1>6, SplitParts
  <2> QED BY <1>2, <1>4, <2>1
<1>8. \A k \in 297..300 : padded[k] = 0
  <2>1. \A k \in 297..300 : k - 296 \in 1..4 /\ 296 + (k - 296) = k
    OBVIOUS
  <2> QED BY <1>7, <2>1
<1>9. AreBits(padded, 5, 60)
  <2>1. \A k \in 1..300 : k \in 1..296 \/ k \in 297..300
    OBVIOUS
  <2> QED BY <1>2, <1>7, <1>8, <2>1 DEF AreBits
<1>10. Base32Encode(p) = Values(padded, 5)
  <2>1. (5 - (296 % 5)) % 5 = 4
    OBVIOUS
  <2>2. (5 - (Len(bits) % 5)) % 5 = 4
    BY <1>2, <2>1
  <2> QED BY <1>1, <1>3, <1>5, <2>2 DEF Base32Encode
<1> QED BY <1>1, <1>7, <1>8, <1>9, <1>10

\* What letters are read as: their bits in groups of eight, when the last four are zeros.
LEMMA PayloadOf ==
  ASSUME NEW x, AreLetters(x)
  PROVE  /\ AreBits(Bits(x, 5), 5, 60) /\ AreBits(Bits(x, 5), 8, 37) /\ Len(Bits(x, 5)) = 300
         /\ Base32Decode(x) = IF \E k \in 297..300 : Bits(x, 5)[k] = 1 THEN Err("InvalidEncoding")
                              ELSE Ok(Values(Bits(x, 5), 8))
<1>1. PICK bits : bits = Bits(x, 5)
  OBVIOUS
<1>2. IsSequence(bits) /\ Len(bits) = 300 /\ \A k \in 1..300 : bits[k] \in {0, 1}
  <2>1. IsSequence(x) /\ Len(x) = 60 /\ \A i \in 1..Len(x) : x[i] \in Nat
    <3>1. \A n \in 0..31 : n \in Nat
      OBVIOUS
    <3> QED BY <3>1 DEF AreLetters
  <2>2. IsSequence(bits) /\ Len(bits) = 5 * Len(x) /\ ZeroOne(bits, 5 * Len(x))
    <3>1. 5 \in Widths
      BY DEF Widths
    <3> QED BY <1>1, <2>1, <3>1, BitsOf, BitsAreBits
  <2> QED BY <2>1, <2>2 DEF ZeroOne
<1>3. AreBits(bits, 5, 60) /\ AreBits(bits, 8, 37)
  BY <1>2 DEF AreBits
<1>4. PICK unused : unused = SubSeq(bits, 297, 300)
  OBVIOUS
<1>5. /\ unused \in Seq({0, 1}) /\ Len(unused) = 4
      /\ \A i \in 1..4 : unused[i] = bits[297 + i - 1]
  <2>1. \A k \in 297..300 : bits[k] \in {0, 1}
    BY <1>2
  <2>2. 297 \in Int /\ 300 \in Int /\ 300 - 297 + 1 = 4
    OBVIOUS
  <2> QED BY <1>4, <2>1, <2>2, SubSeqProperties
<1>6. 1 \in ToSet(unused) <=> \E k \in 297..300 : bits[k] = 1
  <2>1. ToSet(unused) = {unused[i] : i \in 1..4}
    BY <1>5 DEF ToSet
  <2>2. \A k \in 297..300 : k - 296 \in 1..4 /\ 297 + (k - 296) - 1 = k
    OBVIOUS
  <2>3. \A i \in 1..4 : 297 + i - 1 \in 297..300
    OBVIOUS
  <2> QED BY <1>5, <2>1, <2>2, <2>3
<1>7. Base32Decode(x) = IF 1 \in ToSet(unused) THEN Err("InvalidEncoding") ELSE Ok(Values(bits, 8))
  <2>1. 300 - (300 % 8) + 1 = 297
    OBVIOUS
  <2>2. Len(bits) - (Len(bits) % 8) + 1 = 297
    BY <1>2, <2>1
  <2> QED BY <1>1, <1>2, <1>4, <2>2 DEF Base32Decode
<1> QED BY <1>1, <1>2, <1>3, <1>6, <1>7

\* What a payload is printed as reads back as the payload.
LEMMA LettersReadBack ==
  ASSUME NEW p, IsPayload(p)
  PROVE  AreLetters(Base32Encode(p)) /\ Base32Decode(Base32Encode(p)) = Ok(p)
<1>1. PICK padded : /\ AreBits(padded, 5, 60) /\ Len(padded) = 300
                    /\ \A k \in 1..296 : padded[k] = Bits(p, 8)[k]
                    /\ \A k \in 297..300 : padded[k] = 0
                    /\ Base32Encode(p) = Values(padded, 5)
  BY LettersOf
<1>2. PICK x : x = Base32Encode(p)
  OBVIOUS
<1>3. AreLetters(x)
  <2>1. IsSequence(x) /\ Len(x) = 60 /\ AllDigits(x, 5)
    <3>1. 60 \in Nat /\ 5 \in Widths
      BY DEF Widths
    <3>2. AreBits(padded, 5, 60) /\ x = Values(padded, 5)
      BY <1>1, <1>2
    <3> QED BY <3>1, <3>2, ValuesOf
  <2> QED BY <2>1 DEF AreLetters, AllDigits, Digits
<1>4. PICK bits : bits = Bits(x, 5)
  OBVIOUS
<1>5. \A k \in 1..300 : bits[k] = padded[k]
  <2>1. 5 * 60 = 300 /\ 60 \in Nat /\ 5 \in Widths
    BY DEF Widths
  <2>2. Agree(bits, padded, 5 * 60)
    BY <1>1, <1>2, <1>4, <2>1, BitsOfValues
  <2> QED BY <2>1, <2>2 DEF Agree
<1>6. ~\E k \in 297..300 : bits[k] = 1
  BY <1>1, <1>5
<1>7. AreBits(bits, 8, 37)
  BY <1>3, <1>4, PayloadOf
<1>8. Values(bits, 8) = p
  <2>1. \A k \in 1..296 : bits[k] = Bits(p, 8)[k]
    BY <1>1, <1>5
  <2>2. 8 * 37 = 296
    OBVIOUS
  <2>3. IsSequence(p) /\ Len(p) = 37 /\ AllDigits(p, 8)
    BY DEF IsPayload, AllDigits, Digits
  <2>4. Agree(bits, Bits(p, 8), 8 * 37)
    BY <2>1, <2>2 DEF Agree
  <2>5. 37 \in Nat /\ 8 \in Widths
    BY DEF Widths
  <2> QED BY <1>7, <2>3, <2>4, <2>5, ValuesOfBits
<1> QED BY <1>2, <1>3, <1>4, <1>6, <1>8, PayloadOf

\* Letters that can be read are what a payload is printed as.
LEMMA ReadLetters ==
  ASSUME NEW x, AreLetters(x), Base32Decode(x).ok
  PROVE  \E p : IsPayload(p) /\ Base32Decode(x) = Ok(p) /\ Base32Encode(p) = x
<1>1. PICK bits : bits = Bits(x, 5)
  OBVIOUS
<1>2. /\ AreBits(bits, 5, 60) /\ AreBits(bits, 8, 37) /\ Len(bits) = 300
      /\ Base32Decode(x) = IF \E k \in 297..300 : bits[k] = 1 THEN Err("InvalidEncoding") ELSE Ok(Values(bits, 8))
  BY <1>1, PayloadOf
<1>3. /\ ~\E k \in 297..300 : bits[k] = 1
      /\ Base32Decode(x) = Ok(Values(bits, 8))
  BY <1>2 DEF Err
<1>4. PICK p : p = Values(bits, 8)
  OBVIOUS
<1>5. IsPayload(p)
  <2>1. IsSequence(p) /\ Len(p) = 37 /\ AllDigits(p, 8)
    <3>1. 37 \in Nat /\ 8 \in Widths
      BY DEF Widths
    <3>2. AreBits(bits, 8, 37)
      BY <1>2
    <3> QED BY <1>4, <3>1, <3>2, ValuesOf
  <2>2. \A i \in 1..37 : p[i] \in 0..255
    BY <2>1 DEF AllDigits, Digits
  <2> QED BY <2>1, <2>2 DEF IsPayload
<1>6. PICK padded : /\ AreBits(padded, 5, 60) /\ Len(padded) = 300
                    /\ \A k \in 1..296 : padded[k] = Bits(p, 8)[k]
                    /\ \A k \in 297..300 : padded[k] = 0
                    /\ Base32Encode(p) = Values(padded, 5)
  BY <1>5, LettersOf
<1>7. \A k \in 1..300 : padded[k] = bits[k]
  <2>1. \A k \in 1..296 : Bits(p, 8)[k] = bits[k]
    <3>1. 8 * 37 = 296 /\ 37 \in Nat /\ 8 \in Widths
      BY DEF Widths
    <3>2. Agree(Bits(p, 8), bits, 8 * 37)
      BY <1>2, <1>4, <3>1, BitsOfValues
    <3> QED BY <3>1, <3>2 DEF Agree
  <2>2. \A k \in 297..300 : bits[k] = 0
    <3>1. \A k \in 297..300 : k \in 1..300
      OBVIOUS
    <3>2. \A k \in 1..300 : bits[k] \in {0, 1}
      BY <1>2 DEF AreBits
    <3> QED BY <1>3, <3>1, <3>2
  <2>3. \A k \in 1..300 : k \in 1..296 \/ k \in 297..300
    OBVIOUS
  <2> QED BY <1>6, <2>1, <2>2, <2>3
<1>8. Values(padded, 5) = x
  <2>1. 5 * 60 = 300
    OBVIOUS
  <2>2. IsSequence(x) /\ Len(x) = 60 /\ AllDigits(x, 5)
    BY DEF AreLetters, AllDigits, Digits
  <2>3. Agree(padded, Bits(x, 5), 5 * 60)
    BY <1>1, <1>7, <2>1 DEF Agree
  <2>4. 60 \in Nat /\ 5 \in Widths
    BY DEF Widths
  <2>5. AreBits(padded, 5, 60)
    BY <1>6
  <2>6. PICK w, n : w = 5 /\ n = 60
    OBVIOUS
  <2>7. /\ w \in Widths /\ n \in Nat /\ AreBits(padded, w, n) /\ IsSequence(x) /\ Len(x) = n
        /\ AllDigits(x, w) /\ Agree(padded, Bits(x, w), w * n)
    BY <2>2, <2>3, <2>4, <2>5, <2>6
  <2>8. Values(padded, w) = x
    BY Zenon, <2>7, ValuesOfBits
  <2> QED BY <2>6, <2>8
<1> QED BY <1>3, <1>4, <1>5, <1>6, <1>8

-----------------------------------------------------------------------------
(* The form of a key: letters, hyphens and the checksum.                   *)

\* The places of letters in a form, and of the hyphens between.
LEMMA LetterPlaces ==
  /\ \A i \in 1..60 : LET k == i + (i - 1) \div 5
                      IN k \in 1..71 /\ k % 6 # 0 /\ k - k \div 6 = i
  /\ \A k \in 1..71 : k % 6 # 0 => LET i == k - k \div 6
                                   IN i \in 1..60 /\ i + (i - 1) \div 5 = k
  OBVIOUS

\* What is defined from 1 to n is a sequence of n.
LEMMA MadeSequence ==
  ASSUME NEW n \in Nat, NEW v, v = [i \in 1..n |-> v[i]]
  PROVE  IsSequence(v) /\ Len(v) = n
  BY DEF IsSequence

\* The k elements of v from m + 1 to n, cut out.
Spans(m, n, k) == m \in Nat /\ k \in Nat \ {0} /\ n = m + k
CutsOut(s, v, m, n) == s = SubSeq(v, m + 1, n)
IsCut(s, v, m, k) == IsSequence(s) /\ Len(s) = k /\ \A i \in 1..k : s[i] = v[m + i]

\* They are what the cut has.
LEMMA CutOut ==
  ASSUME NEW v, NEW m, NEW n, NEW k, Spans(m, n, k), NEW s, CutsOut(s, v, m, n)
  PROVE  IsCut(s, v, m, k)
<1>1. PICK a \in Int, b \in Int : a = m + 1 /\ b = n
  BY DEF Spans
<1>2. a <= b /\ b - a + 1 = k /\ \A i \in 1..k : a + i - 1 = m + i
  BY <1>1 DEF Spans
<1>3. PICK S : \A i \in a..b : v[i] \in S
  <2>1. \A i \in a..b : v[i] \in {v[j] : j \in a..b}
    OBVIOUS
  <2> QED BY <2>1
<1>4. s = SubSeq(v, a, b)
  BY <1>1 DEF CutsOut
<1>5. /\ s \in Seq(S) /\ Len(s) = IF a <= b THEN b - a + 1 ELSE 0
      /\ \A i \in 1..b - a + 1 : s[i] = v[a + i - 1]
  BY <1>3, <1>4, SubSeqProperties
<1>6. Len(s) = k /\ \A i \in 1..k : s[i] = v[a + i - 1]
  BY <1>2, <1>5
<1>7. \A i \in 1..k : s[i] = v[m + i]
  BY Zenon, <1>2, <1>6
<1>8. IsSequence(s)
  BY Zenon, <1>5, SeqIsSequence
<1> QED BY Zenon, <1>6, <1>7, <1>8 DEF IsCut

\* The key of a payload and its checksum.
AreKeyAndSum(p, s, t) == s = SubSeq(p, 1, 32) /\ t = SubSeq(p, 33, 37)

\* They are its bytes.
LEMMA PayloadCut ==
  ASSUME NEW p, NEW s, NEW t, AreKeyAndSum(p, s, t)
  PROVE  IsCut(s, p, 0, 32) /\ IsCut(t, p, 32, 5)
<1>1. Spans(0, 32, 32) /\ Spans(32, 37, 5)
  BY DEF Spans
<1>2. CutsOut(s, p, 0, 32) /\ CutsOut(t, p, 32, 37)
  BY DEF AreKeyAndSum, CutsOut
<1> QED BY <1>1, <1>2, CutOut

\* The letters of a form.
LettersIn(form) == [i \in 1..60 |-> form[i + (i - 1) \div 5]]

\* What is in the place of a letter is a letter, and in that of a hyphen a hyphen.
IsForm(form) ==
  Len(form) = 71 /\ \A i \in 1..71 : IF i % 6 = 0 THEN form[i] = Hyphen ELSE form[i] \in 0..31

\* A form that decodes has its hyphens in place, and letters whose payload has its checksum.
LEMMA DecodedForm ==
  ASSUME NEW form
  PROVE  LET payload == Base32Decode(LettersIn(form))
             entropy == SubSeq(payload.val, 1, 32)
         IN DecodeRecovery(form) =
              IF ~IsForm(form) THEN Err("InvalidEncoding")
              ELSE IF ~payload.ok THEN payload
              ELSE IF RecoveryChecksum(entropy) # SubSeq(payload.val, 33, 37) THEN Err("InvalidEncoding")
              ELSE Ok(entropy)
<1> DEFINE payload == Base32Decode(LettersIn(form))
           entropy == SubSeq(payload.val, 1, 32)
           bad == \/ Len(form) # 71
                  \/ \E i \in 1..71 : IF i % 6 = 0 THEN form[i] # Hyphen ELSE form[i] \notin 0..31
<1>1. DecodeRecovery(form) =
        IF bad THEN Err("InvalidEncoding")
        ELSE IF ~payload.ok THEN payload
        ELSE IF RecoveryChecksum(entropy) # SubSeq(payload.val, 33, 37) THEN Err("InvalidEncoding")
        ELSE Ok(entropy)
  BY DEF DecodeRecovery, LettersIn
<1>2. bad <=> ~IsForm(form)
  BY DEF IsForm
<1> HIDE DEF bad, payload
<1> QED BY <1>1, <1>2 DEF payload

\* The form of a payload's letters holds them.
LEMMA FormOfLetters ==
  ASSUME NEW x, AreLetters(x),
         NEW form, form = [i \in 1..71 |-> IF i % 6 = 0 THEN Hyphen ELSE x[i - i \div 6]]
  PROVE  IsForm(form) /\ LettersIn(form) = x
<1>1. IsSequence(form) /\ Len(form) = 71
  <2>1. form = [i \in 1..71 |-> form[i]] /\ 71 \in Nat
    OBVIOUS
  <2> QED BY ZenonT(60), <2>1, MadeSequence
<1>2. ASSUME NEW i \in 1..71 PROVE IF i % 6 = 0 THEN form[i] = Hyphen ELSE form[i] \in 0..31
  <2>1. CASE i % 6 = 0
    BY <2>1
  <2>2. CASE i % 6 # 0
    <3>1. i - i \div 6 \in 1..60
      BY <2>2, LetterPlaces
    <3> QED BY <2>2, <3>1 DEF AreLetters
  <2> QED BY <2>1, <2>2
<1>3. ASSUME NEW i \in 1..60 PROVE form[i + (i - 1) \div 5] = x[i]
  <2>1. PICK k : k = i + (i - 1) \div 5
    OBVIOUS
  <2>2. k \in 1..71 /\ k % 6 # 0 /\ k - k \div 6 = i
    BY <2>1, LetterPlaces
  <2> QED BY <2>1, <2>2
<1>4. PICK y : y = LettersIn(form)
  OBVIOUS
<1>5. IsSequence(y) /\ Len(y) = 60 /\ \A i \in 1..60 : y[i] = x[i]
  <2> DEFINE letter(i) == form[i + (i - 1) \div 5]
  <2>1. y = [i \in 1..60 |-> letter(i)] /\ \A i \in 1..60 : letter(i) = x[i]
    BY <1>3, <1>4 DEF LettersIn
  <2> HIDE DEF letter
  <2>2. y = [i \in 1..60 |-> y[i]] /\ \A i \in 1..60 : y[i] = x[i]
    BY <2>1
  <2>3. IsSequence(y) /\ Len(y) = 60
    BY <2>2, 60 \in Nat, MadeSequence
  <2> QED BY <2>2, <2>3
<1>6. y = x
  BY <1>5, SameSequence DEF AreLetters
<1> QED BY <1>1, <1>2, <1>4, <1>6 DEF IsForm

\* The bytes of a key, and after them those of its checksum.
IsKeyAndChecksum(p, e, c) == Splits(p, e, c) /\ Len(e) = 32 /\ Len(c) = 5

\* Where they are.
LEMMA KeyAndChecksum ==
  ASSUME NEW e, NEW c, NEW p, IsKeyAndChecksum(p, e, c)
  PROVE  /\ IsSequence(p) /\ Len(p) = 37
         /\ \A i \in 1..32 : p[i] = e[i]
         /\ \A i \in 1..5 : p[32 + i] = c[i]
<1>1. Splits(p, e, c)
  BY DEF IsKeyAndChecksum
<1>2. /\ IsSequence(p) /\ Len(p) = Len(e) + Len(c)
      /\ \A i \in 1..Len(e) : p[i] = e[i]
      /\ \A i \in 1..Len(c) : p[Len(e) + i] = c[i]
  BY <1>1, SplitParts
<1> QED BY <1>2 DEF IsKeyAndChecksum

\* Of bytes.
OfBytes(e) == \A i \in 1..Len(e) : e[i] \in 0..255

\* A printed key comes back with its checksum.
LEMMA KeyReadBack ==
  ASSUME NEW e, NEW c, NEW p, IsKeyAndChecksum(p, e, c), OfBytes(e), OfBytes(c), c = RecoveryChecksum(e)
  PROVE  DecodeRecovery(EncodeRecovery(e)) = Ok(e)
<1>2. p = e \o c
  BY DEF IsKeyAndChecksum, Splits
<1>3. IsSequence(e) /\ Len(e) = 32 /\ IsSequence(c) /\ Len(c) = 5
  BY DEF IsKeyAndChecksum, Splits
<1>4. /\ IsSequence(p) /\ Len(p) = 37
      /\ \A i \in 1..32 : p[i] = e[i]
      /\ \A i \in 1..5 : p[32 + i] = c[i]
  BY KeyAndChecksum
<1>5. IsPayload(p)
  <2>1. ASSUME NEW i \in 1..37 PROVE p[i] \in 0..255
    <3>1. CASE i <= 32
      BY <1>3, <1>4, <3>1 DEF OfBytes
    <3>2. CASE i > 32
      <4>1. i - 32 \in 1..5 /\ 32 + (i - 32) = i
        BY <3>2
      <4> QED BY <1>3, <1>4, <4>1 DEF OfBytes
    <3> QED BY <3>1, <3>2
  <2> QED BY <1>4, <2>1 DEF IsPayload
<1>6. PICK x : x = Base32Encode(p)
  OBVIOUS
<1>7. AreLetters(x) /\ Base32Decode(x) = Ok(p)
  BY <1>5, <1>6, LettersReadBack
<1>8. PICK form : form = EncodeRecovery(e)
  OBVIOUS
<1>9. form = [i \in 1..71 |-> IF i % 6 = 0 THEN Hyphen ELSE x[i - i \div 6]]
  BY <1>2, <1>6, <1>8 DEF EncodeRecovery
<1>10. IsForm(form) /\ LettersIn(form) = x
  BY <1>7, <1>9, FormOfLetters
<1>11. SubSeq(p, 1, 32) = e /\ SubSeq(p, 33, 37) = c
  <2>1. PICK s, t : s = SubSeq(p, 1, 32) /\ t = SubSeq(p, 33, 37)
    OBVIOUS
  <2>2. IsCut(s, p, 0, 32) /\ IsCut(t, p, 32, 5)
    BY <2>1, PayloadCut DEF AreKeyAndSum
  <2>3. IsSequence(s) /\ Len(s) = 32 /\ \A i \in 1..32 : s[i] = e[i]
    BY <1>4, <2>2 DEF IsCut
  <2>4. IsSequence(t) /\ Len(t) = 5 /\ \A i \in 1..5 : t[i] = c[i]
    BY <1>4, <2>2 DEF IsCut
  <2>5. s = e
    BY <1>3, <2>3, SameSequence
  <2>6. t = c
    BY <1>3, <2>4, SameSequence
  <2> QED BY <2>1, <2>5, <2>6
<1>13. Ok(p).ok /\ Ok(p).val = p
  BY DEF Ok
<1>14. DecodeRecovery(form) = Ok(e)
  BY <1>7, <1>10, <1>11, <1>13, DecodedForm
<1> QED BY <1>8, <1>14

\* A printed recovery key comes back whole, whatever its bytes and its checksum.
THEOREM RecoveryComesBack ==
  ASSUME NEW e \in [1..32 -> 0..255], RecoveryChecksum(e) \in [1..5 -> 0..255]
  PROVE  DecodeRecovery(EncodeRecovery(e)) = Ok(e)
<1>1. PICK c \in [1..5 -> 0..255] : c = RecoveryChecksum(e)
  OBVIOUS
<1>2. IsSequence(e) /\ Len(e) = 32 /\ IsSequence(c) /\ Len(c) = 5
  <2>1. e = [i \in 1..32 |-> e[i]] /\ c = [i \in 1..5 |-> c[i]] /\ 32 \in Nat /\ 5 \in Nat
    OBVIOUS
  <2> QED BY <2>1, MadeSequence
<1>3. IsKeyAndChecksum(e \o c, e, c)
  BY <1>2 DEF IsKeyAndChecksum, Splits
<1>4. OfBytes(e) /\ OfBytes(c)
  BY <1>2 DEF OfBytes
<1> QED BY <1>1, <1>3, <1>4, KeyReadBack

\* No recovery key has a second form: what is accepted is what was printed of the key it decodes to.
THEOREM RecoveryOneForm ==
  ASSUME NEW form, IsSequence(form), DecodeRecovery(form).ok
  PROVE  EncodeRecovery(DecodeRecovery(form).val) = form
<1>1. PICK x, payload, e : x = LettersIn(form) /\ payload = Base32Decode(x) /\ e = SubSeq(payload.val, 1, 32)
  OBVIOUS
<1>2. DecodeRecovery(form) =
        IF ~IsForm(form) THEN Err("InvalidEncoding")
        ELSE IF ~payload.ok THEN payload
        ELSE IF RecoveryChecksum(e) # SubSeq(payload.val, 33, 37) THEN Err("InvalidEncoding")
        ELSE Ok(e)
  BY <1>1, DecodedForm
<1>3. /\ IsForm(form) /\ payload.ok /\ RecoveryChecksum(e) = SubSeq(payload.val, 33, 37)
      /\ DecodeRecovery(form).val = e
  BY <1>2 DEF Err, Ok
<1>4. AreLetters(x)
  <2> DEFINE letter(i) == form[i + (i - 1) \div 5]
  <2>1. ASSUME NEW i \in 1..60 PROVE letter(i) \in 0..31
    <3>1. PICK k : k = i + (i - 1) \div 5
      OBVIOUS
    <3>2. k \in 1..71 /\ k % 6 # 0
      BY <3>1, LetterPlaces
    <3> QED BY <1>3, <3>1, <3>2 DEF IsForm
  <2>2. x = [i \in 1..60 |-> letter(i)]
    BY <1>1 DEF LettersIn
  <2> HIDE DEF letter
  <2>3. x = [i \in 1..60 |-> x[i]] /\ 60 \in Nat /\ \A i \in 1..60 : x[i] \in 0..31
    BY <2>1, <2>2
  <2> QED BY <2>3, MadeSequence DEF AreLetters
<1>5. PICK p : IsPayload(p) /\ payload = Ok(p) /\ Base32Encode(p) = x
  BY <1>1, <1>3, <1>4, ReadLetters
<1>6. payload.val = p
  BY <1>5 DEF Ok
<1>7. PICK c : c = SubSeq(p, 33, 37) /\ c = RecoveryChecksum(e)
  BY <1>3, <1>6
<1>8. /\ IsSequence(e) /\ Len(e) = 32 /\ \A i \in 1..32 : e[i] = p[i]
      /\ IsSequence(c) /\ Len(c) = 5 /\ \A i \in 1..5 : c[i] = p[32 + i]
  <2>1. e = SubSeq(p, 1, 32) /\ c = SubSeq(p, 33, 37)
    BY Zenon, <1>1, <1>6, <1>7
  <2>2. IsCut(e, p, 0, 32) /\ IsCut(c, p, 32, 5)
    BY <2>1, PayloadCut DEF AreKeyAndSum
  <2> QED BY <2>2 DEF IsCut
<1>10. e \o c = p
  <2>1. PICK q : q = e \o c
    OBVIOUS
  <2>2. /\ IsSequence(q) /\ Len(q) = 37
        /\ \A i \in 1..32 : q[i] = e[i]
        /\ \A i \in 1..5 : q[32 + i] = c[i]
    <3>1. IsKeyAndChecksum(q, e, c)
      BY <1>8, <2>1 DEF IsKeyAndChecksum, Splits
    <3> QED BY <3>1, KeyAndChecksum
  <2>3. ASSUME NEW i \in 1..37 PROVE q[i] = p[i]
    <3>1. CASE i <= 32
      BY <1>8, <2>2, <3>1
    <3>2. CASE i > 32
      <4>1. i - 32 \in 1..5 /\ 32 + (i - 32) = i
        BY <3>2
      <4> QED BY <1>8, <2>2, <4>1
    <3> QED BY <3>1, <3>2
  <2>4. IsSequence(p) /\ Len(q) = Len(p) /\ \A i \in 1..Len(q) : q[i] = p[i]
    BY <1>5, <2>2, <2>3 DEF IsPayload
  <2> QED BY <2>1, <2>2, <2>4, SameSequence
<1>11. PICK printed : printed = EncodeRecovery(e)
  OBVIOUS
<1>12. printed = [i \in 1..71 |-> IF i % 6 = 0 THEN Hyphen ELSE x[i - i \div 6]]
  BY <1>5, <1>7, <1>10, <1>11 DEF EncodeRecovery
<1>13. IsSequence(printed) /\ Len(printed) = 71
  <2>1. printed = [i \in 1..71 |-> printed[i]] /\ 71 \in Nat
    BY <1>12
  <2> QED BY <2>1, MadeSequence
<1>14. ASSUME NEW k \in 1..71 PROVE printed[k] = form[k]
  <2>1. CASE k % 6 = 0
    BY <1>3, <1>12, <2>1 DEF IsForm
  <2>2. CASE k % 6 # 0
    <3>1. PICK i : i = k - k \div 6
      OBVIOUS
    <3>2. i \in 1..60 /\ i + (i - 1) \div 5 = k
      BY <2>2, <3>1, LetterPlaces
    <3>3. x[i] = form[k]
      BY <1>1, <3>2 DEF LettersIn
    <3> QED BY <1>12, <2>2, <3>1, <3>3
  <2> QED BY <2>1, <2>2
<1>15. printed = form
  <2>1. Len(printed) = Len(form) /\ \A i \in 1..Len(printed) : printed[i] = form[i]
    BY <1>3, <1>13, <1>14 DEF IsForm
  <2> QED BY <1>13, <2>1, SameSequence
<1> QED BY <1>3, <1>11, <1>15

-----------------------------------------------------------------------------
(* Documents: what the decoder reads, and what the heads alone say.        *)

\* A head with its numbers.
IsNumbered(h) == h.n \in Nat /\ h.width \in Nat /\ h.bytes.len \in Nat
AreHeads(doc) == IsSequence(doc) /\ \A i \in 1..Len(doc) : IsNumbered(doc[i])

\* Where the decoder can be, and its answer for the items left there, when it asks F for the others.
Keys == (Nat \ {0}) \X Nat \X Nat
ItemAt(doc, l, F, at, depth) ==
  LET head == doc[at]
  IN CASE head.major = "uint" /\ head.n <= LongMax -> Ok(at + 1)
       [] head.major = "bytes" ->
            IF head.bytes.len > l.string THEN Err("LimitExceeded") ELSE Ok(at + 1)
       [] head.major = "bool" -> Ok(at + 1)
       [] head.major = "array" ->
            IF head.n > SizeOf(SubSeq(doc, at + 1, Len(doc))) THEN Err("InvalidEncoding")
            ELSE IF head.n > l.items - at THEN Err("LimitExceeded")
            ELSE F[<<at + 1, depth + 1, head.n>>]
       [] OTHER -> Err("InvalidEncoding")
ItemsAt(doc, l, F, at, depth, left) ==
  IF left = 0 THEN Ok(at)
  ELSE IF depth > l.depth \/ at > l.items THEN Err("LimitExceeded")
  ELSE IF at > Len(doc) THEN Err("InvalidEncoding")
  ELSE LET item == ItemAt(doc, l, F, at, depth)
       IN IF item.ok THEN F[<<item.val, depth, left - 1>>] ELSE item

\* An answer that is a position not before the one it was asked for.
Answers(answer, at) == answer.ok => answer.val \in Nat /\ answer.val >= at

\* Two tables that agree after a position, where both move on.
AgreeAfter(F, G, at) ==
  \A q \in Keys : q[1] > at => G[q] = F[q] /\ Answers(F[q], q[1])

\* A key is its three numbers.
LEMMA KeyOf ==
  ASSUME NEW at \in Nat \ {0}, NEW depth \in Nat, NEW left \in Nat, NEW q, q = <<at, depth, left>>
  PROVE  q \in Keys /\ q[1] = at /\ q[2] = depth /\ q[3] = left
  BY DEF Keys

\* And every key is one.
LEMMA KeyParts ==
  ASSUME NEW q \in Keys
  PROVE  q[1] \in Nat \ {0} /\ q[2] \in Nat /\ q[3] \in Nat /\ q = <<q[1], q[2], q[3]>>
  BY DEF Keys

\* The item at a position is read alike from both, and ends after it.
LEMMA ItemAgrees ==
  ASSUME NEW doc, AreHeads(doc), NEW l, NEW F, NEW G, NEW at \in Nat \ {0}, NEW depth \in Nat, at <= Len(doc),
         AgreeAfter(F, G, at)
  PROVE  /\ ItemAt(doc, l, G, at, depth) = ItemAt(doc, l, F, at, depth)
         /\ Answers(ItemAt(doc, l, F, at, depth), at + 1)
<1>1. PICK head : head = doc[at]
  OBVIOUS
<1>2. head.n \in Nat
  <2>1. at \in 1..Len(doc)
    BY SequenceOf DEF AreHeads
  <2> QED BY <1>1, <2>1 DEF AreHeads, IsNumbered
<1>3. PICK q : q = <<at + 1, depth + 1, head.n>>
  OBVIOUS
<1>4. at + 1 \in Nat \ {0} /\ depth + 1 \in Nat
  OBVIOUS
<1>5. q \in Keys /\ q[1] = at + 1
  BY <1>2, <1>3, <1>4, KeyOf
<1>6. G[q] = F[q] /\ Answers(F[q], at + 1)
  BY <1>5 DEF AgreeAfter
<1>7. Answers(Ok(at + 1), at + 1) /\ Answers(Err("InvalidEncoding"), at + 1) /\ Answers(Err("LimitExceeded"), at + 1)
  BY DEF Answers, Ok, Err
<1>8. CASE head.major = "uint" /\ head.n <= LongMax
  <2>1. ItemAt(doc, l, G, at, depth) = Ok(at + 1) /\ ItemAt(doc, l, F, at, depth) = Ok(at + 1)
    BY <1>1, <1>8 DEF ItemAt
  <2> QED BY <1>7, <2>1
<1>9. CASE head.major = "bytes"
  <2>1. \A H : ItemAt(doc, l, H, at, depth) = IF head.bytes.len > l.string THEN Err("LimitExceeded") ELSE Ok(at + 1)
    BY <1>1, <1>9 DEF ItemAt
  <2> QED BY <1>7, <2>1
<1>10. CASE head.major = "bool"
  <2>1. \A H : ItemAt(doc, l, H, at, depth) = Ok(at + 1)
    BY <1>1, <1>10 DEF ItemAt
  <2> QED BY <1>7, <2>1
<1>11. CASE head.major = "array"
  <2>1. \A H : ItemAt(doc, l, H, at, depth) =
                 IF head.n > SizeOf(SubSeq(doc, at + 1, Len(doc))) THEN Err("InvalidEncoding")
                 ELSE IF head.n > l.items - at THEN Err("LimitExceeded") ELSE H[q]
    BY <1>1, <1>3, <1>11 DEF ItemAt
  <2> QED BY <1>6, <1>7, <2>1
<1>12. CASE /\ head.major \notin {"bytes", "bool", "array"}
            /\ ~(head.major = "uint" /\ head.n <= LongMax)
  <2>1. \A H : ItemAt(doc, l, H, at, depth) = Err("InvalidEncoding")
    BY <1>1, <1>12 DEF ItemAt
  <2> QED BY <1>7, <2>1
<1> QED BY <1>8, <1>9, <1>10, <1>11, <1>12

\* So are the items left there.
LEMMA ItemsAgree ==
  ASSUME NEW doc, AreHeads(doc), NEW l, NEW F, NEW G, NEW at \in Nat \ {0}, NEW depth \in Nat, NEW left \in Nat,
         AgreeAfter(F, G, at)
  PROVE  /\ ItemsAt(doc, l, G, at, depth, left) = ItemsAt(doc, l, F, at, depth, left)
         /\ Answers(ItemsAt(doc, l, F, at, depth, left), at)
<1>1. Answers(Ok(at), at) /\ Answers(Err("InvalidEncoding"), at) /\ Answers(Err("LimitExceeded"), at)
  BY DEF Answers, Ok, Err
<1>2. CASE left = 0 \/ depth > l.depth \/ at > l.items \/ at > Len(doc)
  BY <1>1, <1>2 DEF ItemsAt
<1>3. CASE left # 0 /\ ~(depth > l.depth \/ at > l.items) /\ ~(at > Len(doc))
  <2>1. at <= Len(doc)
    BY <1>3, SequenceOf DEF AreHeads
  <2>2. PICK item : item = ItemAt(doc, l, F, at, depth)
    OBVIOUS
  <2>3. ItemAt(doc, l, G, at, depth) = item /\ Answers(item, at + 1)
    BY <2>1, <2>2, ItemAgrees
  <2>4. \A H : ItemAt(doc, l, H, at, depth) = item =>
          ItemsAt(doc, l, H, at, depth, left) = IF item.ok THEN H[<<item.val, depth, left - 1>>] ELSE item
    BY <1>3 DEF ItemsAt
  <2>5. CASE item.ok
    <3>1. item.val \in Nat \ {0} /\ item.val > at
      BY <2>3, <2>5 DEF Answers
    <3>2. left - 1 \in Nat
      BY <1>3
    <3>3. PICK q : q = <<item.val, depth, left - 1>>
      OBVIOUS
    <3>4. q \in Keys /\ q[1] = item.val
      BY <3>1, <3>2, <3>3, KeyOf
    <3>5. G[q] = F[q] /\ Answers(F[q], item.val)
      BY <3>1, <3>4 DEF AgreeAfter
    <3>6. Answers(F[q], at)
      BY <3>1, <3>5 DEF Answers
    <3> QED BY <2>2, <2>3, <2>4, <2>5, <3>3, <3>5, <3>6
  <2>6. CASE ~item.ok
    <3>1. Answers(item, at)
      BY <2>6 DEF Answers
    <3> QED BY <2>2, <2>3, <2>4, <2>6, <3>1
  <2> QED BY <2>5, <2>6
<1> QED BY <1>2, <1>3

\* What the decoder recurs on.
IsDecoder(F, doc, l) == F = [p \in Keys |-> ItemsAt(doc, l, F, p[1], p[2], p[3])]

\* It exists: no item is read before one that precedes it.
LEMMA DecoderExists ==
  ASSUME NEW doc, AreHeads(doc), NEW l
  PROVE  \E F : IsDecoder(F, doc, l) /\ \A q \in Keys : Answers(F[q], q[1])
<1>1. PICK N \in Nat : N = Len(doc)
  BY SequenceOf DEF AreHeads
<1> DEFINE Reads(F, p) == ItemsAt(doc, l, F, p[1], p[2], p[3])
           Right(F, after) == /\ F = [p \in Keys |-> F[p]]
                              /\ \A p \in Keys : p[1] > after => F[p] = Reads(F, p) /\ Answers(F[p], p[1])
           S == {k \in Nat : k <= N => \E F : Right(F, N - k)}
<1>2. 0 \in S
  <2>1. PICK F : F = [p \in Keys |-> IF p[3] = 0 THEN Ok(p[1])
                                     ELSE IF p[2] > l.depth \/ p[1] > l.items THEN Err("LimitExceeded")
                                     ELSE Err("InvalidEncoding")]
    OBVIOUS
  <2>2. ASSUME NEW p \in Keys, p[1] > N PROVE F[p] = Reads(F, p) /\ Answers(F[p], p[1])
    <3>1. F[p] = Reads(F, p)
      BY <1>1, <2>1, <2>2 DEF ItemsAt
    <3>2. Answers(F[p], p[1])
      BY <2>1, KeyParts DEF Answers, Ok, Err
    <3> QED BY <3>1, <3>2
  <2>3. F = [p \in Keys |-> F[p]]
    BY <2>1
  <2>4. Right(F, N - 0)
    <3> HIDE DEF Reads
    <3> QED BY <2>2, <2>3
  <2> HIDE DEF Right
  <2> QED BY <2>4
<1>3. ASSUME NEW k \in Nat, k \in S PROVE k + 1 \in S
  <2> SUFFICES ASSUME k + 1 <= N PROVE \E F : Right(F, N - (k + 1))
    <3> HIDE DEF Right
    <3> QED OBVIOUS
  <2>1. PICK F : Right(F, N - k)
    <3> HIDE DEF Right
    <3> QED BY <1>3
  <2>2. PICK at0 \in Nat \ {0} : at0 = N - k /\ N - (k + 1) = at0 - 1
    OBVIOUS
  <2>3. PICK G : G = [p \in Keys |-> IF p[1] = at0 THEN Reads(F, p) ELSE F[p]]
    OBVIOUS
  <2>4. G = [p \in Keys |-> G[p]]
    <3> HIDE DEF Reads
    <3> QED BY <2>3
  <2>5. AgreeAfter(F, G, at0)
    <3> HIDE DEF Reads
    <3> QED BY <2>1, <2>2, <2>3, KeyParts DEF AgreeAfter
  <2>6. ASSUME NEW p \in Keys, p[1] >= at0
        PROVE  Reads(G, p) = Reads(F, p) /\ Answers(Reads(F, p), p[1])
    <3>1. p[1] \in Nat \ {0} /\ p[2] \in Nat /\ p[3] \in Nat
      BY KeyParts
    <3>2. AgreeAfter(F, G, p[1])
      <4>1. \A q \in Keys : q[1] > p[1] => q[1] > at0
        BY <2>6, <3>1, KeyParts
      <4> QED BY <2>5, <4>1 DEF AgreeAfter
    <3> QED BY <3>1, <3>2, ItemsAgree
  <2>7. ASSUME NEW p \in Keys, p[1] > at0 - 1 PROVE G[p] = Reads(G, p) /\ Answers(G[p], p[1])
    <3>1. p[1] >= at0 /\ p[1] \in Nat
      BY <2>7, KeyParts
    <3>2. Reads(G, p) = Reads(F, p) /\ Answers(Reads(F, p), p[1])
      BY <2>6, <3>1
    <3> HIDE DEF Reads
    <3>3. CASE p[1] = at0
      BY <2>3, <3>2, <3>3
    <3>4. CASE p[1] # at0
      <4>1. p[1] > at0
        BY <3>1, <3>4
      <4>2. F[p] = Reads(F, p)
        BY <2>1, <2>2, <4>1
      <4> QED BY <2>3, <3>2, <3>4, <4>2
    <3> QED BY <3>3, <3>4
  <2>8. Right(G, at0 - 1)
    <3> HIDE DEF Reads
    <3> QED BY <2>4, <2>7
  <2> HIDE DEF Right
  <2> QED BY <2>2, <2>8
<1>4. N \in S
  <2> HIDE DEF S
  <2> QED BY <1>2, <1>3, Induction
<1>5. PICK F : Right(F, 0)
  <2>1. N - N = 0
    OBVIOUS
  <2> HIDE DEF Right
  <2> QED BY <1>4, <2>1
<1>6. \A p \in Keys : F[p] = Reads(F, p) /\ Answers(F[p], p[1])
  <2>1. \A p \in Keys : p[1] > 0
    BY KeyParts
  <2> HIDE DEF Reads
  <2> QED BY <1>5, <2>1
<1>7. F = [p \in Keys |-> Reads(F, p)]
  <2>1. F = [p \in Keys |-> F[p]]
    BY <1>5
  <2> HIDE DEF Reads, Right
  <2> QED BY <1>6, <2>1
<1> QED BY <1>6, <1>7 DEF IsDecoder

\* So the decoder answers what it recurs on.
LEMMA DecoderOf ==
  ASSUME NEW doc, AreHeads(doc), NEW l
  PROVE  \E F : IsDecoder(F, doc, l) /\ DecodeItem(doc, l) = F[<<1, 1, 1>>]
<1> DEFINE D == CHOOSE F : IsDecoder(F, doc, l)
<1>1. IsDecoder(D, doc, l)
  BY DecoderExists
<1>2. DecodeItem(doc, l) = D[<<1, 1, 1>>]
  BY DEF DecodeItem, IsDecoder, ItemsAt, ItemAt, Keys
<1> HIDE DEF D
<1> QED BY <1>1, <1>2

-----------------------------------------------------------------------------
(* The count of the items still to come.                                   *)

\* How many items a head announces.
Op(h) == IF h.major = "array" THEN h.n ELSE 0

\* b[i] items are still to come after i heads.
Counted(doc, b) ==
  /\ b[0] = 1 /\ \A i \in 0..Len(doc) : b[i] \in Int
  /\ \A i \in 1..Len(doc) : b[i] = b[i - 1] - 1 + Op(doc[i])

\* The count of some heads is the fold's last step.
LEMMA CountSteps ==
  ASSUME NEW s, AreHeads(s)
  PROVE  \E b : Counted(s, b) /\ StillOpen(s) = b[Len(s)]
<1>1. PICK n \in Nat : n = Len(s) /\ DOMAIN s = 1..n
  BY SequenceOf DEF AreHeads
<1> DEFINE X == {s[i] : i \in 1..n}
           next(m, h) == m - 1 + (IF h.major = "array" THEN h.n ELSE 0)
           f == [p \in Int \X X |-> next(p[1], p[2])]
           Good(F) == F = [p \in SUBSET (1..n) |-> IF p = {} THEN 1 ELSE next(F[p \ {Max(p)}], s[Max(p)])]
<1>2. \A m \in Int, h \in X : f[<<m, h>>] = next(m, h) /\ next(m, h) \in Int
  <2>1. ASSUME NEW m \in Int, NEW h \in X PROVE f[<<m, h>>] = next(m, h)
    <3> HIDE DEF next, X
    <3> QED OBVIOUS
  <2>2. ASSUME NEW m \in Int, NEW h \in X PROVE next(m, h) \in Int
    <3>1. h.n \in Nat
      BY <1>1 DEF AreHeads, IsNumbered
    <3> QED BY <3>1
  <2> HIDE DEF next, f, X
  <2> QED BY <2>1, <2>2
<1>3. \A i \in 1..n : s[i] \in X
  OBVIOUS
<1>4. PICK F : Good(F) /\ \A p \in SUBSET (1..n) : F[p] \in Int
  <2> HIDE DEF X, f
  <2>1. 1 \in Int /\ \A m \in Int, h \in X : f[<<m, h>>] \in Int
    <3> HIDE DEF next
    <3> QED BY <1>2
  <2>2. PICK F : IsTable(F, f, 1, s, n) /\ \A p \in SUBSET (1..n) : F[p] \in Int
    BY <1>3, <2>1, TableExists
  <2> HIDE DEF next
  <2>3. ASSUME NEW p \in SUBSET (1..n), p # {}
        PROVE  f[<<F[p \ {Max(p)}], s[Max(p)]>>] = next(F[p \ {Max(p)}], s[Max(p)])
    <3>1. Max(p) \in 1..n
      BY <2>3, LastPosition
    <3>2. F[p \ {Max(p)}] \in Int /\ s[Max(p)] \in X
      BY <1>3, <2>2, <3>1
    <3> QED BY <1>2, <3>2
  <2>4. F = [p \in SUBSET (1..n) |-> IF p = {} THEN 1 ELSE f[<<F[p \ {Max(p)}], s[Max(p)]>>]]
    BY <2>2 DEF IsTable
  <2>5. Good(F)
    BY <2>3, <2>4
  <2> QED BY <2>2, <2>5
<1>5. PICK G : Good(G) /\ StillOpen(s) = G[1..n]
  <2>1. StillOpen(s) = (CHOOSE G : Good(G))[1..n]
    BY <1>1 DEF StillOpen, FoldLeft, MapThenFoldSet
  <2>2. Good(CHOOSE G : Good(G))
    <3> HIDE DEF Good
    <3> QED BY <1>4
  <2> HIDE DEF Good
  <2> QED BY <2>1, <2>2
<1>6. PICK b : b = [i \in 0..n |-> G[1..i]]
  OBVIOUS
<1>7. b[0] = 1
  <2>1. 1..0 = {} /\ {} \in SUBSET (1..n)
    OBVIOUS
  <2>2. b[0] = G[{}]
    BY <1>6, <2>1
  <2> QED BY <1>5, <2>1, <2>2
<1>8. ASSUME NEW i \in 1..n PROVE b[i] = b[i - 1] - 1 + Op(s[i])
  <2>1. 1..i \in SUBSET (1..n) /\ 1..i # {} /\ Max(1..i) = i /\ (1..i) \ {i} = 1..i - 1
    BY TableSteps
  <2>2. G[1..i] = next(G[1..i - 1], s[i])
    <3> HIDE DEF next
    <3> QED BY <1>5, <2>1
  <2>3. b[i] = G[1..i] /\ b[i - 1] = G[1..i - 1]
    BY <1>6
  <2> QED BY <2>2, <2>3 DEF Op
<1>9. StillOpen(s) = b[n]
  <2> HIDE DEF Good
  <2> QED BY <1>5, <1>6
<1>10. \A i \in 0..n : b[i] \in Int
  <2> DEFINE S == {i \in Nat : i <= n => b[i] \in Int}
  <2>1. 0 \in S
    BY <1>7
  <2>2. ASSUME NEW i \in Nat, i \in S PROVE i + 1 \in S
    <3> SUFFICES ASSUME i + 1 <= n PROVE b[i + 1] \in Int
      OBVIOUS
    <3>1. b[i] \in Int /\ i + 1 \in 1..n /\ (i + 1) - 1 = i
      BY <2>2
    <3>2. Op(s[i + 1]) \in Int
      BY <1>1, <3>1 DEF AreHeads, IsNumbered, Op
    <3>3. b[i + 1] = b[i] - 1 + Op(s[i + 1])
      BY <1>8, <3>1
    <3> QED BY <3>1, <3>2, <3>3
  <2> HIDE DEF S
  <2>3. Nat \subseteq S
    BY <2>1, <2>2, Induction
  <2> QED BY <2>3 DEF S
<1> QED BY <1>1, <1>7, <1>8, <1>9, <1>10 DEF Counted

\* Heads have no second count.
LEMMA CountIsOne ==
  ASSUME NEW doc, AreHeads(doc), NEW b, Counted(doc, b), NEW s, AreHeads(s), NEW c, Counted(s, c),
         Len(s) <= Len(doc), \A i \in 1..Len(s) : s[i] = doc[i]
  PROVE  \A i \in 0..Len(s) : c[i] = b[i]
<1>1. PICK n, m \in Nat : n = Len(s) /\ m = Len(doc) /\ n <= m
  BY SequenceOf DEF AreHeads
<1> DEFINE S == {i \in Nat : i <= n => c[i] = b[i]}
<1>2. 0 \in S
  BY DEF Counted
<1>3. ASSUME NEW i \in Nat, i \in S PROVE i + 1 \in S
  <2> SUFFICES ASSUME i + 1 <= n PROVE c[i + 1] = b[i + 1]
    OBVIOUS
  <2>1. c[i] = b[i] /\ i + 1 \in 1..n /\ i + 1 \in 1..m /\ (i + 1) - 1 = i
    BY <1>1, <1>3
  <2>2. c[i + 1] = c[i] - 1 + Op(s[i + 1]) /\ b[i + 1] = b[i] - 1 + Op(doc[i + 1])
    BY <1>1, <2>1 DEF Counted
  <2> QED BY <1>1, <2>1, <2>2
<1> HIDE DEF S
<1>4. Nat \subseteq S
  BY <1>2, <1>3, Induction
<1> QED BY <1>1, <1>4 DEF S

\* Some heads of a document, from one place to another.
IsRange(doc, m, n) == m \in Nat /\ n \in Nat /\ m >= 1 /\ n <= Len(doc) /\ m <= n + 1
AreCut(s, doc, m, n) ==
  AreHeads(s) /\ Len(s) = n - m + 1 /\ \A i \in 1..n - m + 1 : s[i] = doc[m + i - 1]

\* They are what is cut there.
LEMMA SomeHeads ==
  ASSUME NEW doc, AreHeads(doc), NEW m, NEW n, IsRange(doc, m, n), NEW s, s = SubSeq(doc, m, n)
  PROVE  AreCut(s, doc, m, n)
<1>1. PICK N \in Nat : N = Len(doc)
  BY SequenceOf DEF AreHeads
<1> m \in Nat /\ n \in Nat /\ m >= 1 /\ n <= N /\ m <= n + 1
  BY <1>1 DEF IsRange
<1>2. \A i \in m..n : i \in 1..N /\ doc[i] \in {doc[j] : j \in 1..N}
  BY <1>1
<1>3. PICK S : S = {doc[j] : j \in 1..N}
  OBVIOUS
<1>4. /\ s \in Seq(S) /\ Len(s) = IF m <= n THEN n - m + 1 ELSE 0
      /\ \A i \in 1..n - m + 1 : s[i] = doc[m + i - 1]
  BY <1>2, <1>3, SubSeqProperties
<1>5. Len(s) = n - m + 1
  BY <1>4
<1>6. ASSUME NEW i \in 1..Len(s) PROVE IsNumbered(s[i])
  <2>1. s[i] = doc[m + i - 1] /\ m + i - 1 \in 1..N
    BY <1>1, <1>4, <1>5
  <2> QED BY <1>1, <2>1 DEF AreHeads
<1>7. IsSequence(s)
  BY <1>4, SeqIsSequence
<1> QED BY <1>4, <1>5, <1>6, <1>7 DEF AreHeads, AreCut

\* The count after the first heads of a document.
LEMMA CountOfFirst ==
  ASSUME NEW doc, AreHeads(doc), NEW b, Counted(doc, b), NEW i \in 0..Len(doc)
  PROVE  StillOpen(SubSeq(doc, 1, i)) = b[i]
<1>1. PICK s : s = SubSeq(doc, 1, i)
  OBVIOUS
<1>2. Len(doc) \in Nat /\ i \in Nat /\ i <= Len(doc)
  BY SequenceOf DEF AreHeads
<1>3. AreHeads(s) /\ Len(s) = i /\ \A k \in 1..i : s[k] = doc[k]
  <2>1. IsRange(doc, 1, i)
    BY <1>2 DEF IsRange
  <2>2. AreCut(s, doc, 1, i)
    BY <1>1, <2>1, SomeHeads
  <2> QED BY <1>2, <2>2 DEF AreCut
<1>4. PICK c : Counted(s, c) /\ StillOpen(s) = c[Len(s)]
  BY <1>3, CountSteps
<1>5. \A k \in 0..Len(s) : c[k] = b[k]
  BY <1>2, <1>3, <1>4, CountIsOne
<1> QED BY <1>1, <1>2, <1>3, <1>4, <1>5

\* A document has as many bytes as heads, or more.
LEMMA SizeAtLeast ==
  ASSUME NEW s, AreHeads(s)
  PROVE  SizeOf(s) \in Nat /\ SizeOf(s) >= Len(s)
<1>1. PICK n \in Nat : n = Len(s) /\ DOMAIN s = 1..n
  BY SequenceOf DEF AreHeads
<1> DEFINE X == {s[i] : i \in 1..n}
           next(m, h) == m + 1 + h.width + h.bytes.len
           f == [p \in Nat \X X |-> next(p[1], p[2])]
           Good(F) == F = [p \in SUBSET (1..n) |-> IF p = {} THEN 0 ELSE next(F[p \ {Max(p)}], s[Max(p)])]
<1>2. \A m \in Nat, h \in X : f[<<m, h>>] = next(m, h) /\ next(m, h) \in Nat /\ next(m, h) >= m + 1
  <2>1. ASSUME NEW m \in Nat, NEW h \in X PROVE f[<<m, h>>] = next(m, h)
    <3> HIDE DEF next, X
    <3> QED OBVIOUS
  <2>2. ASSUME NEW m \in Nat, NEW h \in X PROVE next(m, h) \in Nat /\ next(m, h) >= m + 1
    <3>1. h.width \in Nat /\ h.bytes.len \in Nat
      BY <1>1 DEF AreHeads, IsNumbered
    <3> QED BY <3>1
  <2> HIDE DEF next, f, X
  <2> QED BY <2>1, <2>2
<1>3. \A i \in 1..n : s[i] \in X
  OBVIOUS
<1>4. PICK F : Good(F) /\ \A p \in SUBSET (1..n) : F[p] \in Nat
  <2> HIDE DEF X, f
  <2>1. 0 \in Nat /\ \A m \in Nat, h \in X : f[<<m, h>>] \in Nat
    <3> HIDE DEF next
    <3> QED BY <1>2
  <2>2. PICK F : IsTable(F, f, 0, s, n) /\ \A p \in SUBSET (1..n) : F[p] \in Nat
    BY <1>3, <2>1, TableExists
  <2> HIDE DEF next
  <2>3. ASSUME NEW p \in SUBSET (1..n), p # {}
        PROVE  f[<<F[p \ {Max(p)}], s[Max(p)]>>] = next(F[p \ {Max(p)}], s[Max(p)])
    <3>1. Max(p) \in 1..n
      BY <2>3, LastPosition
    <3>2. F[p \ {Max(p)}] \in Nat /\ s[Max(p)] \in X
      BY <1>3, <2>2, <3>1
    <3> QED BY <1>2, <3>2
  <2>4. F = [p \in SUBSET (1..n) |-> IF p = {} THEN 0 ELSE f[<<F[p \ {Max(p)}], s[Max(p)]>>]]
    BY <2>2 DEF IsTable
  <2>5. Good(F)
    BY <2>3, <2>4
  <2> QED BY <2>2, <2>5
<1>5. PICK G : Good(G) /\ SizeOf(s) = G[1..n]
  <2>1. SizeOf(s) = (CHOOSE G : Good(G))[1..n]
    BY <1>1 DEF SizeOf, FoldLeft, MapThenFoldSet
  <2>2. Good(CHOOSE G : Good(G))
    <3> HIDE DEF Good
    <3> QED BY <1>4
  <2> HIDE DEF Good
  <2> QED BY <2>1, <2>2
<1> DEFINE S == {i \in Nat : i <= n => G[1..i] \in Nat /\ G[1..i] >= i}
<1>6. 0 \in S
  <2>1. 1..0 = {} /\ {} \in SUBSET (1..n)
    OBVIOUS
  <2>2. G[1..0] = 0
    <3> HIDE DEF next
    <3> QED BY <1>5, <2>1
  <2> HIDE DEF Good
  <2> QED BY <2>2
<1>7. ASSUME NEW i \in Nat, i \in S PROVE i + 1 \in S
  <2> SUFFICES ASSUME i + 1 <= n PROVE G[1..i + 1] \in Nat /\ G[1..i + 1] >= i + 1
    OBVIOUS
  <2>1. G[1..i] \in Nat /\ G[1..i] >= i /\ i + 1 \in 1..n /\ (i + 1) - 1 = i
    <3> HIDE DEF Good
    <3> QED BY <1>7
  <2>2. PICK k \in 1..n : k = i + 1
    BY <2>1
  <2>3. 1..k \in SUBSET (1..n) /\ 1..k # {} /\ Max(1..k) = k /\ (1..k) \ {k} = 1..k - 1
    BY TableSteps
  <2>4. G[1..k] = next(G[1..k - 1], s[k])
    <3> HIDE DEF next
    <3> QED BY <1>5, <2>3
  <2>5. s[k] \in X /\ k - 1 = i
    BY <1>3, <2>1, <2>2
  <2> HIDE DEF next, X, Good, f
  <2>6. G[1..k] \in Nat /\ G[1..k] >= G[1..i] + 1
    BY <1>2, <2>1, <2>4, <2>5
  <2> QED BY <2>1, <2>2, <2>6
<1> HIDE DEF S, Good
<1>8. n \in S
  BY <1>6, <1>7, Induction
<1> QED BY <1>1, <1>5, <1>8 DEF S

-----------------------------------------------------------------------------
(* Where the count has fallen: the ends of items.                          *)

\* A count that falls by at most one at a time.
Falls(b, N) == N \in Nat /\ (\A i \in 0..N : b[i] \in Int) /\ \A i \in 1..N : b[i] >= b[i - 1] - 1

\* z is where the count has first fallen by left since a.
Reaches(b, a, left, z) ==
  /\ a \in Nat /\ left \in Nat /\ z \in Nat /\ a <= z /\ b[z] = b[a] - left
  /\ \A i \in a..z - 1 : b[i] > b[a] - left

\* The count of a document falls so.
LEMMA CountFalls ==
  ASSUME NEW doc, AreHeads(doc), NEW b, Counted(doc, b)
  PROVE  Falls(b, Len(doc))
<1>1. PICK N \in Nat : N = Len(doc)
  BY SequenceOf DEF AreHeads
<1>2. ASSUME NEW i \in 1..N PROVE b[i] >= b[i - 1] - 1
  <2>1. Op(doc[i]) \in Nat
    BY <1>1 DEF AreHeads, IsNumbered, Op
  <2>2. b[i] = b[i - 1] - 1 + Op(doc[i]) /\ b[i - 1] \in Int
    BY <1>1 DEF Counted
  <2> QED BY <2>1, <2>2
<1> QED BY <1>1, <1>2 DEF Falls, Counted

\* It has fallen by nothing where it is.
LEMMA ReachesNow ==
  ASSUME NEW b, NEW N, Falls(b, N), NEW a \in 0..N, NEW z \in 0..N
  PROVE  Reaches(b, a, 0, z) <=> z = a
<1>1. b[a] \in Int
  BY DEF Falls
<1>2. Reaches(b, a, 0, a)
  BY <1>1 DEF Falls, Reaches
<1>3. ASSUME Reaches(b, a, 0, z), z # a PROVE FALSE
  <2>1. a \in a..z - 1
    BY <1>3 DEF Reaches
  <2> QED BY <1>1, <1>3, <2>1 DEF Reaches
<1> QED BY <1>2, <1>3

\* By one, and then by the rest.
LEMMA ReachesJoined ==
  ASSUME NEW b, NEW N, Falls(b, N), NEW a \in 0..N, NEW y \in 0..N, NEW z \in 0..N, NEW left \in Nat, left # 0,
         Reaches(b, a, 1, y), Reaches(b, y, left - 1, z)
  PROVE  Reaches(b, a, left, z)
<1>1. b[a] \in Int /\ b[y] \in Int /\ b[z] \in Int
  BY DEF Falls
<1>2. a <= y /\ y <= z /\ b[y] = b[a] - 1 /\ b[z] = b[a] - left
  BY <1>1 DEF Reaches
<1>3. ASSUME NEW i \in a..z - 1 PROVE b[i] > b[a] - left
  <2>1. b[i] \in Int /\ i \in Int
    BY <1>2 DEF Falls
  <2>2. CASE i < y
    <3>1. i \in a..y - 1
      BY <1>2, <2>1, <2>2
    <3>2. b[i] > b[a] - 1
      BY <3>1 DEF Reaches
    <3> QED BY <1>1, <2>1, <3>2
  <2>3. CASE i >= y
    <3>1. i \in y..z - 1
      BY <1>2, <2>1, <2>3
    <3>2. b[i] > b[y] - (left - 1)
      BY <3>1 DEF Reaches
    <3> QED BY <1>1, <1>2, <2>1, <3>2
  <2> QED BY <2>1, <2>2, <2>3
<1> QED BY <1>2, <1>3 DEF Reaches

\* A count that is lower later reached one less in between.
LEMMA ReachesOne ==
  ASSUME NEW b, NEW N, Falls(b, N), NEW a \in 0..N, NEW z \in 0..N, a <= z, b[z] < b[a]
  PROVE  \E y \in 0..N : a < y /\ y <= z /\ Reaches(b, a, 1, y)
<1> DEFINE S == {i \in Nat : a <= i /\ i <= z /\ b[i] < b[a]}
<1>1. PICK y \in S : \A i \in S : y <= i
  <2>1. S \subseteq Nat /\ z \in S
    OBVIOUS
  <2> HIDE DEF S
  <2> QED BY <2>1, LeastExists
<1>2. N \in Nat /\ y \in 0..N /\ y # a /\ a <= y /\ y <= z /\ b[a] \in Int /\ b[y] \in Int /\ b[y] < b[a]
  BY DEF Falls
<1>3. y - 1 \in a..z /\ y \in 1..N /\ y - 1 \in 0..N
  BY <1>2
<1>4. ASSUME NEW i \in a..y - 1 PROVE b[i] > b[a] - 1
  <2>1. i \in 0..N /\ i \in Nat /\ a <= i /\ i <= z /\ ~(y <= i)
    BY <1>2
  <2>2. b[i] \in Int
    BY <2>1 DEF Falls
  <2>3. ~(b[i] < b[a])
    BY <1>1, <2>1
  <2> QED BY <1>2, <2>2, <2>3
<1>5. b[y] = b[a] - 1
  <2>1. b[y] >= b[y - 1] - 1 /\ b[y - 1] \in Int
    BY <1>3 DEF Falls
  <2>2. y - 1 \in a..y - 1
    BY <1>3
  <2> QED BY <1>2, <1>4, <2>1, <2>2
<1>6. Reaches(b, a, 1, y)
  <2> HIDE DEF S
  <2> QED BY <1>2, <1>4, <1>5 DEF Reaches
<1> HIDE DEF S
<1> QED BY <1>2, <1>6

\* So what has fallen by more than nothing has first fallen by one.
LEMMA ReachesSplit ==
  ASSUME NEW b, NEW N, Falls(b, N), NEW a \in 0..N, NEW z \in 0..N, NEW left \in Nat, left # 0,
         Reaches(b, a, left, z)
  PROVE  \E y \in 0..N : a < y /\ y <= z /\ Reaches(b, a, 1, y) /\ Reaches(b, y, left - 1, z)
<1>1. b[a] \in Int /\ b[z] \in Int /\ a <= z /\ b[z] = b[a] - left
  BY DEF Falls, Reaches
<1>2. PICK y \in 0..N : a < y /\ y <= z /\ Reaches(b, a, 1, y)
  <2>1. b[z] < b[a]
    BY <1>1
  <2> QED BY <1>1, <2>1, ReachesOne
<1>3. N \in Nat /\ b[y] = b[a] - 1 /\ b[y] \in Int
  BY <1>2 DEF Falls, Reaches
<1>4. ASSUME NEW i \in y..z - 1 PROVE b[i] > b[y] - (left - 1)
  <2>1. i \in a..z - 1 /\ i \in 0..N
    BY <1>2, <1>3
  <2>2. b[i] > b[a] - left /\ b[i] \in Int
    BY <2>1 DEF Falls, Reaches
  <2> QED BY <1>1, <1>3, <2>2
<1>5. Reaches(b, y, left - 1, z)
  BY <1>1, <1>2, <1>3, <1>4 DEF Reaches
<1> QED BY <1>2, <1>5

\* There is one such place.
LEMMA ReachesOnce ==
  ASSUME NEW b, NEW N, Falls(b, N), NEW a \in 0..N, NEW y \in 0..N, NEW z \in 0..N, NEW left,
         Reaches(b, a, left, y), Reaches(b, a, left, z)
  PROVE  y = z
<1>1. b[y] \in Int /\ b[z] \in Int /\ b[a] \in Int /\ left \in Nat /\ b[y] = b[a] - left /\ b[z] = b[a] - left
  BY DEF Falls, Reaches
<1>2. ASSUME y < z PROVE FALSE
  <2>1. y \in a..z - 1
    BY <1>2 DEF Reaches
  <2> QED BY <1>1, <2>1 DEF Reaches
<1>3. ASSUME z < y PROVE FALSE
  <2>1. z \in a..y - 1
    BY <1>3 DEF Reaches
  <2> QED BY <1>1, <2>1 DEF Reaches
<1> QED BY <1>2, <1>3

\* It takes a step for each that it falls by.
LEMMA ReachesLater ==
  ASSUME NEW b, NEW N, Falls(b, N), NEW a \in 0..N, NEW z \in 0..N, NEW left \in Nat, Reaches(b, a, left, z)
  PROVE  left <= z - a
<1> DEFINE S == {k \in Nat : a + k <= N => b[a + k] >= b[a] - k}
<1>1. b[a] \in Int
  BY DEF Falls
<1>2. 0 \in S
  BY <1>1
<1>3. ASSUME NEW k \in Nat, k \in S PROVE k + 1 \in S
  <2> SUFFICES ASSUME a + (k + 1) <= N PROVE b[a + (k + 1)] >= b[a] - (k + 1)
    OBVIOUS
  <2>1. PICK i \in 1..N : i = a + (k + 1) /\ i - 1 = a + k
    BY DEF Falls
  <2>4. a + k <= N
    BY DEF Falls
  <2>2. b[i] >= b[i - 1] - 1 /\ b[i] \in Int /\ b[i - 1] \in Int
    BY <2>1 DEF Falls
  <2>3. b[i - 1] >= b[a] - k
    BY <1>3, <2>1, <2>4
  <2> QED BY <1>1, <2>1, <2>2, <2>3
<1> HIDE DEF S
<1>4. Nat \subseteq S
  BY <1>2, <1>3, Induction
<1>5. z - a \in Nat /\ a + (z - a) = z /\ z <= N
  BY DEF Reaches
<1>6. b[z] >= b[a] - (z - a)
  BY <1>4, <1>5 DEF S
<1>7. b[z] = b[a] - left
  BY DEF Reaches
<1> QED BY <1>1, <1>5, <1>6, <1>7

\* An item ends where the items it announces do.
LEMMA ReachesInside ==
  ASSUME NEW doc, AreHeads(doc), NEW b, Counted(doc, b), NEW N, N = Len(doc), NEW a \in 0..N, a < N, NEW y \in 0..N
  PROVE  Reaches(b, a, 1, y) <=> Reaches(b, a + 1, Op(doc[a + 1]), y)
<1>1. Falls(b, N)
  BY CountFalls
<1>2. PICK at \in 1..N : at = a + 1 /\ at - 1 = a
  BY <1>1 DEF Falls
<1>3. Op(doc[at]) \in Nat
  BY <1>1 DEF AreHeads, IsNumbered, Op, Falls
<1>4. b[at] = b[a] - 1 + Op(doc[at]) /\ b[a] \in Int /\ b[at] \in Int /\ b[y] \in Int
  BY <1>1, <1>2 DEF Counted, Falls
<1>5. ASSUME Reaches(b, a, 1, y) PROVE Reaches(b, at, Op(doc[at]), y)
  <2>1. a <= y /\ y # a /\ b[y] = b[a] - 1
    BY <1>4, <1>5 DEF Reaches
  <2>2. ASSUME NEW i \in at..y - 1 PROVE b[i] > b[at] - Op(doc[at])
    <3>1. i \in a..y - 1 /\ i \in 0..N
      BY <1>2, <2>1
    <3>2. b[i] > b[a] - 1 /\ b[i] \in Int
      BY <1>1, <1>5, <3>1 DEF Reaches, Falls
    <3> QED BY <1>3, <1>4, <3>2
  <2> QED BY <1>2, <1>3, <1>4, <2>1, <2>2 DEF Reaches
<1>6. ASSUME Reaches(b, at, Op(doc[at]), y) PROVE Reaches(b, a, 1, y)
  <2>1. at <= y /\ b[y] = b[a] - 1
    BY <1>3, <1>4, <1>6 DEF Reaches
  <2>2. ASSUME NEW i \in a..y - 1 PROVE b[i] > b[a] - 1
    <3>1. CASE i = a
      BY <1>4, <3>1
    <3>2. CASE i # a
      <4>1. i \in at..y - 1 /\ i \in 0..N
        BY <1>2, <3>2
      <4>2. b[i] > b[at] - Op(doc[at]) /\ b[i] \in Int
        BY <1>1, <1>6, <4>1 DEF Reaches, Falls
      <4> QED BY <1>3, <1>4, <4>2
    <3> QED BY <3>1, <3>2
  <2> QED BY <1>2, <2>1, <2>2 DEF Reaches
<1> QED BY <1>2, <1>5, <1>6

-----------------------------------------------------------------------------
(* Which heads are open, and which are allowed.                            *)

\* The heads after a whose items are still open at the head i.
Around(b, a, i) == {j \in a + 1..i - 1 : \A m \in j..i - 1 : b[m] >= b[j - 1]}

\* A head of the profile.
HeadOk(h, l) ==
  \/ h.major \in {"array", "bool"}
  \/ h.major = "uint" /\ h.n <= LongMax
  \/ h.major = "bytes" /\ h.bytes.len <= l.string

\* The head i is of the profile and within the limits, with so many items around it.
Allowed(doc, l, i, depth) == i <= l.items /\ HeadOk(doc[i], l) /\ depth <= l.depth

\* So are all heads after a and up to z, where those after a lie in depth items already.
AllAllowed(doc, b, l, a, depth, z) ==
  \A i \in a + 1..z : Allowed(doc, l, i, depth + Cardinality(Around(b, a, i)))

\* No item is open before the first head.
LEMMA AroundFirst == ASSUME NEW b, NEW a \in Nat PROVE Around(b, a, a + 1) = {}
  BY DEF Around

\* Around a head inside the item at a + 1 are that item and those inside it.
LEMMA AroundInside ==
  ASSUME NEW b, NEW N, Falls(b, N), NEW a \in 0..N, NEW y \in 0..N, Reaches(b, a, 1, y), NEW i \in a + 2..y
  PROVE  Around(b, a, i) = Around(b, a + 1, i) \cup {a + 1} /\ a + 1 \notin Around(b, a + 1, i)
<1>1. N \in Nat /\ a \in Nat /\ y \in Nat /\ i \in Nat /\ b[a] \in Int
  BY DEF Falls
<1>2. ASSUME NEW m \in a + 1..i - 1 PROVE b[m] >= b[a]
  <2>1. m \in a..y - 1 /\ m \in 0..N
    BY <1>1
  <2>2. b[m] > b[a] - 1 /\ b[m] \in Int
    BY <2>1 DEF Falls, Reaches
  <2> QED BY <1>1, <2>2
<1>3. PICK at \in Nat : at = a + 1 /\ at - 1 = a
  BY <1>1
<1>4. at \in a + 1..i - 1
  BY <1>1, <1>3
<1>5. at \in Around(b, a, i)
  BY <1>2, <1>3, <1>4 DEF Around
<1>6. \A j : j \in a + 1..i - 1 <=> j = at \/ j \in at + 1..i - 1
  BY <1>1, <1>3, <1>4
<1>7. at \notin at + 1..i - 1
  BY <1>3
<1> QED BY <1>3, <1>5, <1>6, <1>7 DEF Around

\* Around a head after that item are the items after it.
LEMMA AroundAfter ==
  ASSUME NEW b, NEW N, Falls(b, N), NEW a \in 0..N, NEW y \in 0..N, Reaches(b, a, 1, y), NEW i \in y + 1..N
  PROVE  Around(b, a, i) = Around(b, y, i)
<1>1. N \in Nat /\ a \in Nat /\ y \in Nat /\ i \in Nat /\ b[a] \in Int /\ a <= y
  BY DEF Falls, Reaches
<1>2. ASSUME NEW j \in a + 1..y PROVE ~(\A m \in j..i - 1 : b[m] >= b[j - 1])
  <2>1. y \in j..i - 1 /\ j - 1 \in a..y - 1 /\ j - 1 \in 0..N
    BY <1>1
  <2>2. b[j - 1] > b[a] - 1 /\ b[j - 1] \in Int /\ b[y] = b[a] - 1
    BY <2>1 DEF Falls, Reaches
  <2>3. ~(b[y] >= b[j - 1])
    BY <1>1, <2>2
  <2> QED BY <2>1, <2>3
<1>3. \A j : j \in a + 1..i - 1 <=> j \in a + 1..y \/ j \in y + 1..i - 1
  BY <1>1
<1> QED BY <1>2, <1>3 DEF Around

\* So many are around a head.
LEMMA AroundFinite ==
  ASSUME NEW b, NEW a \in Nat, NEW i \in Nat
  PROVE  IsFiniteSet(Around(b, a, i)) /\ Cardinality(Around(b, a, i)) \in Nat
<1>1. IsFiniteSet(a + 1..i - 1)
  <2>1. a + 1 \in Int /\ i - 1 \in Int
    OBVIOUS
  <2> QED BY <2>1, FS_Interval
<1>2. Around(b, a, i) \subseteq a + 1..i - 1
  BY DEF Around
<1> QED BY <1>1, <1>2, FS_Subset, FS_CardinalityType

\* The heads after a are allowed when the one after it is, those inside its item one deeper,
\* and those after its item.
LEMMA AllowedSplits ==
  ASSUME NEW doc, NEW b, NEW l, NEW N, Falls(b, N), NEW a \in 0..N, NEW y \in 0..N, Reaches(b, a, 1, y),
         NEW z \in 0..N, y <= z, NEW depth \in Nat
  PROVE  AllAllowed(doc, b, l, a, depth, z) <=>
           /\ Allowed(doc, l, a + 1, depth)
           /\ AllAllowed(doc, b, l, a + 1, depth + 1, y)
           /\ AllAllowed(doc, b, l, y, depth, z)
<1>1. N \in Nat /\ a \in Nat /\ y \in Nat /\ z \in Nat /\ a < y
  <2>1. N \in Nat /\ a <= y /\ b[y] = b[a] - 1 /\ b[a] \in Int
    BY DEF Falls, Reaches
  <2> QED BY <2>1
<1> DEFINE Around1(i) == depth + Cardinality(Around(b, a, i))
<1>2. Around1(a + 1) = depth
  BY AroundFirst, FS_EmptySet
<1>3. ASSUME NEW i \in a + 2..y PROVE Around1(i) = (depth + 1) + Cardinality(Around(b, a + 1, i))
  <2>1. PICK X : X = Around(b, a + 1, i)
    OBVIOUS
  <2>2. IsFiniteSet(X) /\ Cardinality(X) \in Nat
    <3>1. a + 1 \in Nat /\ i \in Nat
      BY <1>1
    <3> QED BY <2>1, <3>1, AroundFinite
  <2>3. Around(b, a, i) = X \cup {a + 1} /\ a + 1 \notin X
    BY <2>1, AroundInside
  <2>4. Cardinality(X \cup {a + 1}) = Cardinality(X) + 1
    BY <2>2, <2>3, FS_AddElement
  <2> QED BY <2>1, <2>2, <2>3, <2>4
<1>4. ASSUME NEW i \in y + 1..z PROVE Around1(i) = depth + Cardinality(Around(b, y, i))
  <2>1. i \in y + 1..N
    BY <1>1
  <2> QED BY <2>1, AroundAfter
<1>5. \A i : i \in a + 1..z <=> i = a + 1 \/ i \in a + 2..y \/ i \in y + 1..z
  BY <1>1
<1>6. AllAllowed(doc, b, l, a + 1, depth + 1, y) <=> \A i \in a + 2..y : Allowed(doc, l, i, Around1(i))
  <2>1. (a + 1) + 1 = a + 2
    BY <1>1
  <2> HIDE DEF Around1
  <2> QED BY <1>3, <2>1 DEF AllAllowed
<1>7. AllAllowed(doc, b, l, y, depth, z) <=> \A i \in y + 1..z : Allowed(doc, l, i, Around1(i))
  <2> HIDE DEF Around1
  <2> QED BY <1>4 DEF AllAllowed
<1>8. AllAllowed(doc, b, l, a, depth, z) <=> \A i \in a + 1..z : Allowed(doc, l, i, Around1(i))
  BY DEF AllAllowed
<1> HIDE DEF Around1
<1> QED BY <1>2, <1>5, <1>6, <1>7, <1>8

-----------------------------------------------------------------------------
(* The answers of the decoder.                                             *)

\* Limits that are numbers.
AreLimits(l) == l.document \in Nat /\ l.items \in Nat /\ l.string \in Nat /\ l.depth \in Nat

\* The items read from after a end at z, and every head up to there is allowed.
ReadTo(doc, b, l, a, depth, left, z) == Reaches(b, a, left, z) /\ AllAllowed(doc, b, l, a, depth, z)

\* An answer is the position after one of these ends, and after each of them; else an error.
EndsAt(answer, ends) ==
  /\ answer.ok => \E z \in ends : answer.val = z + 1
  /\ \A z \in ends : answer = Ok(z + 1)

\* So the decoder answers for the items after a.
EndsOf(doc, b, l, a, depth, left) == {z \in 0..Len(doc) : ReadTo(doc, b, l, a, depth, left, z)}
DecodesFrom(F, doc, b, l, a) ==
  \A depth \in Nat, left \in Nat : EndsAt(F[<<a + 1, depth, left>>], EndsOf(doc, b, l, a, depth, left))

\* And for the item after a.
ItemReadTo(doc, b, l, a, depth, y) ==
  /\ HeadOk(doc[a + 1], l)
  /\ ReadTo(doc, b, l, a + 1, depth + 1, Op(doc[a + 1]), y)
ItemEndsOf(doc, b, l, a, depth) == {y \in 0..Len(doc) : ItemReadTo(doc, b, l, a, depth, y)}

\* An announced number of items that all end needs no more bytes and items than are left.
LEMMA ArrayFits ==
  ASSUME NEW doc, AreHeads(doc), NEW b, Counted(doc, b), NEW N, N = Len(doc), NEW l, AreLimits(l),
         NEW at \in 1..N, at <= l.items, NEW n \in Nat, NEW y \in 0..N, NEW depth, ReadTo(doc, b, l, at, depth, n, y)
  PROVE  ~(n > SizeOf(SubSeq(doc, at + 1, N))) /\ ~(n > l.items - at)
<1>1. Falls(b, N)
  BY CountFalls
<1>2. N \in Nat /\ at \in 0..N /\ at \in Nat /\ y \in Nat /\ l.items \in Nat
  BY <1>1 DEF Falls, AreLimits
<1>3. n <= y - at /\ at <= y
  <2>1. Reaches(b, at, n, y)
    BY DEF ReadTo
  <2>2. n <= y - at
    BY <1>1, <1>2, <2>1, ReachesLater
  <2> QED BY <2>1, <2>2 DEF Reaches
<1>4. n <= l.items - at
  <2>1. CASE y = at
    BY <1>2, <1>3, <2>1
  <2>2. CASE y # at
    <3>1. y \in at + 1..y
      BY <1>2, <1>3, <2>2
    <3>2. y <= l.items
      BY <3>1 DEF ReadTo, AllAllowed, Allowed
    <3> QED BY <1>2, <1>3, <3>2
  <2> QED BY <2>1, <2>2
<1>5. PICK s : s = SubSeq(doc, at + 1, N)
  OBVIOUS
<1>6. AreHeads(s) /\ Len(s) = N - at
  <2>1. IsRange(doc, at + 1, N)
    BY <1>2 DEF IsRange
  <2>2. AreCut(s, doc, at + 1, N)
    BY <1>5, <2>1, SomeHeads
  <2> QED BY <1>2, <2>2 DEF AreCut
<1>7. SizeOf(s) \in Nat /\ SizeOf(s) >= N - at
  BY <1>6, SizeAtLeast
<1> QED BY <1>2, <1>3, <1>4, <1>5, <1>7

\* The decoder's answer for one item is right when it is for those that come after its head.
LEMMA ItemIsRead ==
  ASSUME NEW doc, AreHeads(doc), NEW b, Counted(doc, b), NEW N, N = Len(doc), NEW l, AreLimits(l), NEW F,
         NEW a \in 0..N, a < N, a + 1 <= l.items, NEW depth \in Nat, DecodesFrom(F, doc, b, l, a + 1)
  PROVE  EndsAt(ItemAt(doc, l, F, a + 1, depth), ItemEndsOf(doc, b, l, a, depth))
<1>1. Falls(b, N)
  BY CountFalls
<1>2. PICK at \in 1..N : at = a + 1
  BY <1>1 DEF Falls
<1>3. N \in Nat /\ at \in 0..N /\ at \in Nat /\ at + 1 \in Nat
  BY <1>1, <1>2 DEF Falls
<1>4. PICK head : head = doc[at]
  OBVIOUS
<1>5. head.n \in Nat
  BY <1>2, <1>4 DEF AreHeads, IsNumbered
<1>6. PICK item : item = ItemAt(doc, l, F, at, depth)
  OBVIOUS
<1>7. CASE head.major = "array"
  <2>1. PICK answer : answer = F[<<at + 1, depth + 1, head.n>>]
    OBVIOUS
  <2>2. EndsAt(answer, EndsOf(doc, b, l, at, depth + 1, head.n))
    <3>1. depth + 1 \in Nat
      OBVIOUS
    <3> QED BY <1>2, <1>5, <2>1, <3>1 DEF DecodesFrom
  <2>3. item = IF head.n > SizeOf(SubSeq(doc, at + 1, N)) THEN Err("InvalidEncoding")
               ELSE IF head.n > l.items - at THEN Err("LimitExceeded") ELSE answer
    BY <1>4, <1>6, <1>7, <2>1 DEF ItemAt
  <2>4. HeadOk(head, l) /\ Op(head) = head.n
    BY <1>7 DEF HeadOk, Op
  <2>5. ASSUME item.ok PROVE \E y \in 0..N : item.val = y + 1 /\ ItemReadTo(doc, b, l, a, depth, y)
    <3>1. item = answer
      BY <2>3, <2>5 DEF Err
    <3> QED BY <1>2, <1>4, <2>2, <2>4, <2>5, <3>1 DEF EndsAt, EndsOf, ItemReadTo
  <2>6. ASSUME NEW y \in 0..N, ItemReadTo(doc, b, l, a, depth, y) PROVE item = Ok(y + 1)
    <3>1. ReadTo(doc, b, l, at, depth + 1, head.n, y)
      BY <1>2, <1>4, <2>4, <2>6 DEF ItemReadTo
    <3>2. ~(head.n > SizeOf(SubSeq(doc, at + 1, N))) /\ ~(head.n > l.items - at)
      BY <1>2, <1>5, <3>1, ArrayFits
    <3> QED BY <2>2, <2>3, <3>1, <3>2 DEF EndsAt, EndsOf
  <2> QED BY <1>2, <1>6, <2>5, <2>6 DEF EndsAt, ItemEndsOf
<1>8. CASE head.major # "array"
  <2>1. item = IF HeadOk(head, l) THEN Ok(at + 1)
               ELSE IF head.major = "bytes" THEN Err("LimitExceeded") ELSE Err("InvalidEncoding")
    <3>1. CASE head.major = "bytes"
      <4>1. item = IF head.bytes.len > l.string THEN Err("LimitExceeded") ELSE Ok(at + 1)
        BY <1>4, <1>6, <3>1 DEF ItemAt
      <4>2. HeadOk(head, l) <=> head.bytes.len <= l.string
        BY <3>1 DEF HeadOk
      <4>3. head.bytes.len \in Nat /\ l.string \in Nat
        BY <1>2, <1>4 DEF AreHeads, IsNumbered, AreLimits
      <4>4. head.bytes.len <= l.string <=> ~(head.bytes.len > l.string)
        BY <4>3
      <4> QED BY <3>1, <4>1, <4>2, <4>4
    <3>2. CASE head.major = "bool"
      BY <1>4, <1>6, <3>2 DEF ItemAt, HeadOk
    <3>3. CASE head.major = "uint" /\ head.n <= LongMax
      BY <1>4, <1>6, <3>3 DEF ItemAt, HeadOk
    <3>4. CASE head.major \notin {"bytes", "bool"} /\ ~(head.major = "uint" /\ head.n <= LongMax)
      BY <1>4, <1>6, <1>8, <3>4 DEF ItemAt, HeadOk
    <3> QED BY <3>1, <3>2, <3>3, <3>4
  <2>2. Op(doc[a + 1]) = 0
    BY <1>2, <1>4, <1>8 DEF Op
  <2>3. ASSUME NEW y \in 0..N PROVE ReadTo(doc, b, l, a + 1, depth + 1, 0, y) <=> y = a + 1
    <3>1. Reaches(b, at, 0, y) <=> y = at
      BY <1>1, <1>3, ReachesNow
    <3>2. AllAllowed(doc, b, l, at, depth + 1, at)
      BY <1>3 DEF AllAllowed
    <3> QED BY <1>2, <3>1, <3>2 DEF ReadTo
  <2>4. ASSUME NEW y \in 0..N PROVE ItemReadTo(doc, b, l, a, depth, y) <=> HeadOk(head, l) /\ y = at
    BY <1>2, <1>4, <2>2, <2>3 DEF ItemReadTo
  <2>5. item.ok => HeadOk(head, l) /\ item.val = at + 1
    BY <2>1 DEF Ok, Err
  <2>6. \A y \in 0..N : ItemReadTo(doc, b, l, a, depth, y) => item = Ok(y + 1)
    BY <2>1, <2>4
  <2>7. item.ok => \E y \in 0..N : item.val = y + 1 /\ ItemReadTo(doc, b, l, a, depth, y)
    BY <1>3, <2>4, <2>5
  <2> QED BY <1>2, <1>6, <2>6, <2>7 DEF EndsAt, ItemEndsOf
<1> QED BY <1>7, <1>8

-----------------------------------------------------------------------------
(* The decoder reads to the end, or refuses.                               *)

\* The decoder's answer for the items after a is right when it is everywhere after that.
LEMMA ItemsAreRead ==
  ASSUME NEW doc, AreHeads(doc), NEW b, Counted(doc, b), NEW N, N = Len(doc), NEW l, AreLimits(l),
         NEW F, IsDecoder(F, doc, l), NEW a \in 0..N, \A c \in a + 1..N : DecodesFrom(F, doc, b, l, c)
  PROVE  DecodesFrom(F, doc, b, l, a)
<1>1. Falls(b, N)
  BY CountFalls
<1>2. N \in Nat /\ a \in Nat /\ a + 1 \in Nat \ {0} /\ l.items \in Nat /\ l.depth \in Nat
  BY <1>1 DEF Falls, AreLimits
<1> SUFFICES ASSUME NEW depth \in Nat, NEW left \in Nat
             PROVE  EndsAt(F[<<a + 1, depth, left>>], EndsOf(doc, b, l, a, depth, left))
  BY DEF DecodesFrom
<1>3. PICK answer : answer = F[<<a + 1, depth, left>>]
  OBVIOUS
<1>4. answer = ItemsAt(doc, l, F, a + 1, depth, left)
  <2>1. PICK q : q = <<a + 1, depth, left>>
    OBVIOUS
  <2>2. q \in Keys /\ q[1] = a + 1 /\ q[2] = depth /\ q[3] = left
    BY <1>2, <2>1, KeyOf
  <2> QED BY <1>3, <2>1, <2>2 DEF IsDecoder
<1>5. EndsOf(doc, b, l, a, depth, left) = {z \in 0..N : ReadTo(doc, b, l, a, depth, left, z)}
  BY DEF EndsOf
<1>6. CASE left = 0
  <2>1. answer = Ok(a + 1)
    BY <1>4, <1>6 DEF ItemsAt
  <2>2. ASSUME NEW z \in 0..N PROVE ReadTo(doc, b, l, a, depth, left, z) <=> z = a
    <3>1. Reaches(b, a, left, z) <=> z = a
      BY <1>1, <1>6, ReachesNow
    <3>2. AllAllowed(doc, b, l, a, depth, a)
      BY <1>2 DEF AllAllowed
    <3> QED BY <3>1, <3>2 DEF ReadTo
  <2>3. answer.val = a + 1
    BY <2>1 DEF Ok
  <2>4. \A z : z \in EndsOf(doc, b, l, a, depth, left) <=> z = a
    BY <1>5, <2>2
  <2> QED BY <1>3, <2>1, <2>3, <2>4 DEF EndsAt
<1>7. CASE left # 0 /\ (depth > l.depth \/ a + 1 > l.items \/ a + 1 > N)
  <2>1. ~answer.ok
    BY <1>4, <1>7 DEF ItemsAt, Err
  <2>2. ASSUME NEW z \in 0..N, ReadTo(doc, b, l, a, depth, left, z) PROVE FALSE
    <3>1. left <= z - a
      BY <1>1, <2>2, ReachesLater DEF ReadTo
    <3>2. a + 1 \in a + 1..z /\ a + 1 <= N
      BY <1>2, <1>7, <3>1
    <3>3. Allowed(doc, l, a + 1, depth + Cardinality(Around(b, a, a + 1)))
      BY <2>2, <3>2 DEF ReadTo, AllAllowed
    <3>4. Cardinality(Around(b, a, a + 1)) = 0
      BY <1>2, AroundFirst, FS_EmptySet
    <3>5. a + 1 <= l.items /\ depth <= l.depth
      BY <3>3, <3>4 DEF Allowed
    <3> QED BY <1>2, <1>7, <3>2, <3>5
  <2> QED BY <1>3, <1>5, <2>1, <2>2 DEF EndsAt
<1>8. CASE left # 0 /\ ~(depth > l.depth \/ a + 1 > l.items) /\ ~(a + 1 > N)
  <2>1. a < N /\ a + 1 <= l.items /\ depth <= l.depth /\ left - 1 \in Nat
    BY <1>2, <1>8
  <2>2. PICK item : item = ItemAt(doc, l, F, a + 1, depth)
    OBVIOUS
  <2>3. EndsAt(item, ItemEndsOf(doc, b, l, a, depth))
    <3>1. a + 1 \in a + 1..N
      BY <1>2, <2>1
    <3>2. DecodesFrom(F, doc, b, l, a + 1)
      BY <3>1
    <3> QED BY <2>1, <2>2, <3>2, ItemIsRead
  <2>4. answer = IF item.ok THEN F[<<item.val, depth, left - 1>>] ELSE item
    BY <1>4, <1>8, <2>2 DEF ItemsAt
  <2>5. ASSUME NEW y \in 0..N, a < y
        PROVE  EndsAt(F[<<y + 1, depth, left - 1>>], EndsOf(doc, b, l, y, depth, left - 1))
    <3>1. y \in a + 1..N
      BY <1>2, <2>5
    <3>2. DecodesFrom(F, doc, b, l, y)
      BY <3>1
    <3> QED BY <2>1, <3>2 DEF DecodesFrom
  \* What is read from a is one item and then the others.
  <2>6. ASSUME NEW y \in 0..N, ItemReadTo(doc, b, l, a, depth, y) PROVE Reaches(b, a, 1, y) /\ a < y
    <3>1. Reaches(b, a + 1, Op(doc[a + 1]), y)
      BY <2>6 DEF ItemReadTo, ReadTo
    <3>2. a < y
      BY <1>2, <3>1 DEF Reaches
    <3> QED BY <2>1, <3>1, <3>2, ReachesInside
  <2>7. ASSUME NEW y \in 0..N, NEW z \in 0..N, y <= z, Reaches(b, a, 1, y)
        PROVE  AllAllowed(doc, b, l, a, depth, z) <=>
                 ItemReadTo(doc, b, l, a, depth, y) /\ AllAllowed(doc, b, l, y, depth, z)
    <3>1. AllAllowed(doc, b, l, a, depth, z) <=>
            /\ Allowed(doc, l, a + 1, depth)
            /\ AllAllowed(doc, b, l, a + 1, depth + 1, y)
            /\ AllAllowed(doc, b, l, y, depth, z)
      BY <1>1, <2>7, AllowedSplits
    <3>2. Reaches(b, a + 1, Op(doc[a + 1]), y)
      BY <2>1, <2>7, ReachesInside
    <3> QED BY <2>1, <3>1, <3>2 DEF Allowed, ItemReadTo, ReadTo
  <2>8. ASSUME answer.ok PROVE \E z \in 0..N : answer.val = z + 1 /\ ReadTo(doc, b, l, a, depth, left, z)
    <3>1. item.ok /\ answer = F[<<item.val, depth, left - 1>>]
      BY <2>4, <2>8
    <3>2. PICK y \in 0..N : item.val = y + 1 /\ ItemReadTo(doc, b, l, a, depth, y)
      BY <2>3, <3>1 DEF EndsAt, ItemEndsOf
    <3>3. Reaches(b, a, 1, y) /\ a < y
      BY <2>6, <3>2
    <3>4. PICK z \in 0..N : answer.val = z + 1 /\ ReadTo(doc, b, l, y, depth, left - 1, z)
      BY <2>5, <2>8, <3>1, <3>2, <3>3 DEF EndsAt, EndsOf
    <3>5. Reaches(b, y, left - 1, z) /\ y <= z /\ AllAllowed(doc, b, l, y, depth, z)
      BY <3>4 DEF ReadTo, Reaches
    <3>6. Reaches(b, a, left, z)
      BY <1>1, <1>8, <3>3, <3>5, ReachesJoined
    <3>7. AllAllowed(doc, b, l, a, depth, z)
      BY <2>7, <3>2, <3>3, <3>5
    <3> QED BY <3>4, <3>6, <3>7 DEF ReadTo
  <2>9. ASSUME NEW z \in 0..N, ReadTo(doc, b, l, a, depth, left, z) PROVE answer = Ok(z + 1)
    <3>1. Reaches(b, a, left, z) /\ AllAllowed(doc, b, l, a, depth, z)
      BY <2>9 DEF ReadTo
    <3>2. PICK y \in 0..N : a < y /\ y <= z /\ Reaches(b, a, 1, y) /\ Reaches(b, y, left - 1, z)
      BY <1>1, <1>8, <3>1, ReachesSplit
    <3>3. ItemReadTo(doc, b, l, a, depth, y) /\ AllAllowed(doc, b, l, y, depth, z)
      BY <2>7, <3>1, <3>2
    <3>4. item = Ok(y + 1)
      BY <2>3, <3>3 DEF EndsAt, ItemEndsOf
    <3>5. answer = F[<<y + 1, depth, left - 1>>]
      BY <2>4, <3>4 DEF Ok
    <3>6. ReadTo(doc, b, l, y, depth, left - 1, z)
      BY <3>2, <3>3 DEF ReadTo
    <3> QED BY <2>5, <3>2, <3>5, <3>6 DEF EndsAt, EndsOf
  <2> QED BY <1>3, <1>5, <2>8, <2>9 DEF EndsAt
<1> QED BY <1>6, <1>7, <1>8

\* So it is right everywhere.
LEMMA AllIsRead ==
  ASSUME NEW doc, AreHeads(doc), NEW b, Counted(doc, b), NEW N, N = Len(doc), NEW l, AreLimits(l),
         NEW F, IsDecoder(F, doc, l)
  PROVE  \A a \in 0..N : DecodesFrom(F, doc, b, l, a)
<1>1. N \in Nat
  BY CountFalls DEF Falls
<1> DEFINE S == {k \in Nat : \A a \in 0..N : N - a <= k => DecodesFrom(F, doc, b, l, a)}
<1>2. 0 \in S
  <2> SUFFICES ASSUME NEW a \in 0..N, N - a <= 0 PROVE DecodesFrom(F, doc, b, l, a)
    OBVIOUS
  <2>1. \A c \in a + 1..N : DecodesFrom(F, doc, b, l, c)
    BY <1>1
  <2> QED BY <2>1, ItemsAreRead
<1>3. ASSUME NEW k \in Nat, k \in S PROVE k + 1 \in S
  <2> SUFFICES ASSUME NEW a \in 0..N, N - a <= k + 1 PROVE DecodesFrom(F, doc, b, l, a)
    OBVIOUS
  <2>1. ASSUME NEW c \in a + 1..N PROVE DecodesFrom(F, doc, b, l, c)
    <3>1. c \in 0..N /\ N - c <= k
      BY <1>1
    <3> QED BY <1>3, <3>1
  <2> QED BY <2>1, ItemsAreRead
<1> HIDE DEF S
<1>4. Nat \subseteq S
  BY <1>2, <1>3, Induction
<1>5. N \in S /\ \A a \in 0..N : N - a <= N
  BY <1>1, <1>4
<1> QED BY <1>5 DEF S

\* A document is read to its end when its one item ends there and every head is allowed.
LEMMA DocumentIsRead ==
  ASSUME NEW doc, AreHeads(doc), NEW b, Counted(doc, b), NEW N, N = Len(doc), NEW l, AreLimits(l)
  PROVE  DecodeItem(doc, l).ok /\ DecodeItem(doc, l).val = N + 1 <=> ReadTo(doc, b, l, 0, 1, 1, N)
<1>1. PICK F : IsDecoder(F, doc, l) /\ DecodeItem(doc, l) = F[<<1, 1, 1>>]
  BY DecoderOf
<1>2. N \in Nat /\ 0 \in 0..N /\ N \in 0..N /\ 0 + 1 = 1
  BY CountFalls DEF Falls
<1>3. DecodesFrom(F, doc, b, l, 0)
  BY <1>1, <1>2, AllIsRead
<1>4. EndsAt(F[<<1, 1, 1>>], EndsOf(doc, b, l, 0, 1, 1))
  <2>1. EndsAt(F[<<0 + 1, 1, 1>>], EndsOf(doc, b, l, 0, 1, 1))
    BY <1>3 DEF DecodesFrom
  <2> QED BY <1>2, <2>1
<1>5. PICK answer : answer = F[<<1, 1, 1>>]
  OBVIOUS
<1>6. ASSUME answer.ok, answer.val = N + 1 PROVE ReadTo(doc, b, l, 0, 1, 1, N)
  <2>1. PICK z \in 0..N : answer.val = z + 1 /\ ReadTo(doc, b, l, 0, 1, 1, z)
    BY <1>4, <1>5, <1>6 DEF EndsAt, EndsOf
  <2>2. z = N
    BY <1>2, <1>6, <2>1
  <2> QED BY <2>1, <2>2
<1>7. ASSUME ReadTo(doc, b, l, 0, 1, 1, N) PROVE answer.ok /\ answer.val = N + 1
  <2>1. answer = Ok(N + 1)
    BY <1>2, <1>4, <1>5, <1>7 DEF EndsAt, EndsOf
  <2> QED BY <2>1 DEF Ok
<1> QED BY <1>1, <1>5, <1>6, <1>7

-----------------------------------------------------------------------------
(* The same, said of the heads alone.                                      *)

\* Where nothing is a map, the item whose end is known is skipped to there.
LEMMA ItemSkipped ==
  ASSUME NEW doc, AreHeads(doc), NEW b, Counted(doc, b), NEW N, N = Len(doc),
         \A i \in 1..N : doc[i].major # "map", NEW j \in 1..N, NEW y \in 0..N, Reaches(b, j - 1, 1, y)
  PROVE  SkipItems(doc, j, 1) = y + 1
<1>1. Falls(b, N)
  BY CountFalls
<1>2. N \in Nat /\ j \in Nat /\ y \in Nat /\ j - 1 \in 0..N /\ j <= N + 1 /\ j <= N
  BY <1>1 DEF Falls
<1>3. PICK a \in 0..N : a = j - 1 /\ j = a + 1
  BY <1>2
<1>4. b[a] \in Int /\ b[y] = b[a] - 1 /\ a < y
  <2>1. b[a] \in Int /\ b[y] = b[a] - 1 /\ a <= y
    BY <1>1, <1>3 DEF Falls, Reaches
  <2> QED BY <1>2, <1>3, <2>1
<1>5. PICK open :
        /\ Skipping(open, doc, j, 1)
        /\ \/ SkipItems(doc, j, 1) = 0 /\ \A i \in 0..N + 1 - j : open[i] # 0
           \/ \E i \in 0..N + 1 - j : SkipItems(doc, j, 1) = j + i /\ FirstOver(open, i)
  <2>1. Len(doc) \in Nat /\ j <= Len(doc) + 1 /\ j \in Nat
    BY <1>2
  <2>2. \E open :
          /\ Skipping(open, doc, j, 1)
          /\ \/ SkipItems(doc, j, 1) = 0 /\ \A i \in 0..Len(doc) + 1 - j : open[i] # 0
             \/ \E i \in 0..Len(doc) + 1 - j : SkipItems(doc, j, 1) = j + i /\ FirstOver(open, i)
    BY <2>1, SkipsTo
  <2> QED BY <2>2
<1> DEFINE S == {i \in Nat : a + i <= y => open[i] = b[a + i] - b[a] + 1}
<1>6. 0 \in S
  <2>1. open[0] = 1 /\ a + 0 = a
    BY <1>2, <1>5 DEF Skipping
  <2> QED BY <1>4, <2>1
<1>7. ASSUME NEW i \in Nat, i \in S, a + i < y PROVE open[i] # 0 /\ open[i] = b[a + i] - b[a] + 1 /\ open[i] \in Int
  <2>1. a + i \in a..y - 1 /\ a + i \in 0..N
    BY <1>2, <1>7
  <2>2. b[a + i] > b[a] - 1 /\ b[a + i] \in Int
    BY <1>1, <1>3, <2>1 DEF Falls, Reaches
  <2>3. open[i] = b[a + i] - b[a] + 1
    BY <1>2, <1>7
  <2> QED BY <1>4, <2>2, <2>3
<1>8. ASSUME NEW i \in Nat, i \in S PROVE i + 1 \in S
  <2> SUFFICES ASSUME a + (i + 1) <= y PROVE open[i + 1] = b[a + (i + 1)] - b[a] + 1
    OBVIOUS
  <2>1. open[i] # 0 /\ open[i] = b[a + i] - b[a] + 1 /\ open[i] \in Int
    BY <1>2, <1>7, <1>8
  <2>2. PICK k \in 1..N : k = a + (i + 1) /\ k - 1 = a + i /\ k = j + (i + 1) - 1
    BY <1>2, <1>3
  <2>3. i + 1 \in 1..N + 1 - j /\ (i + 1) - 1 = i
    BY <1>2, <1>3
  <2>4. open[i + 1] = StillToSkip(open[i], doc[k])
    BY <1>5, <2>2, <2>3 DEF Skipping
  <2>5. open[i + 1] = open[i] - 1 + Op(doc[k])
    <3>1. doc[k].major # "map"
      OBVIOUS
    <3>2. doc[k].major = "array" => StillToSkip(open[i], doc[k]) = open[i] - 1 + doc[k].n
      BY <2>1 DEF StillToSkip
    <3>3. doc[k].major # "array" => StillToSkip(open[i], doc[k]) = open[i] - 1 + 0
      BY <2>1, <3>1 DEF StillToSkip
    <3> QED BY <2>4, <3>2, <3>3 DEF Op
  <2>6. b[k] = b[k - 1] - 1 + Op(doc[k]) /\ Op(doc[k]) \in Int /\ b[k - 1] \in Int
    BY <1>1, <2>2 DEF Counted, Falls, AreHeads, IsNumbered, Op
  <2>7. b[a + (i + 1)] = b[k] /\ b[a + i] = b[k - 1]
    BY <2>2
  <2>8. PICK op, before, here, first \in Int : op = Op(doc[k]) /\ before = b[k - 1] /\ here = open[i] /\ first = b[a]
    BY <1>4, <2>1, <2>6
  <2>9. here = before - first + 1 /\ b[k] = before - 1 + op /\ open[i + 1] = here - 1 + op
    BY <2>1, <2>5, <2>6, <2>7, <2>8
  <2>10. here - 1 + op = (before - 1 + op) - first + 1
    BY <2>9
  <2> QED BY <2>7, <2>8, <2>9, <2>10
<1>9. Nat \subseteq S
  <2> HIDE DEF S
  <2> QED BY <1>6, <1>8, Induction
<1>10. PICK last \in 0..N + 1 - j : a + last = y /\ last \in Nat /\ j + last = y + 1
  <2>1. y - a \in 0..N + 1 - j /\ a + (y - a) = y /\ y - a \in Nat /\ j + (y - a) = y + 1
    BY <1>2, <1>3, <1>4
  <2> QED BY <2>1
<1>11. open[last] = 0
  <2>1. last \in S /\ a + last <= y
    BY <1>2, <1>9, <1>10
  <2>2. open[last] = b[a + last] - b[a] + 1
    BY <2>1
  <2>3. b[a + last] = b[y]
    BY <1>10
  <2> HIDE DEF S
  <2> QED BY <1>4, <2>2, <2>3
<1>12. ASSUME NEW i \in Nat, i < last PROVE open[i] # 0
  <2>1. i \in S /\ a + i < y
    BY <1>2, <1>9, <1>10, <1>12
  <2> HIDE DEF S
  <2> QED BY <1>7, <2>1
<1> HIDE DEF S
<1>13. PICK i \in 0..N + 1 - j : SkipItems(doc, j, 1) = j + i /\ FirstOver(open, i)
  BY <1>5, <1>10, <1>11
<1>14. i = last
  <2>1. ~(i < last)
    <3>1. open[i] = 0 /\ i \in Nat
      BY <1>2, <1>13 DEF FirstOver
    <3> QED BY <1>12, <3>1
  <2>2. ~(last < i)
    <3>1. ASSUME last < i PROVE FALSE
      <4>1. last \in 0..i - 1
        BY <1>2, <1>10, <3>1
      <4> QED BY <1>11, <1>13, <4>1 DEF FirstOver
    <3> QED BY <3>1
  <2> QED BY <1>2, <1>10, <2>1, <2>2
<1> QED BY <1>10, <1>13, <1>14

\* The count of a document that is one item: nothing is left after it, and not before.
IsOneItem(b, N) == b[N] = 0 /\ \A i \in 1..N - 1 : b[i] > 0

\* It has fallen by one at its end.
LEMMA OneItemReaches ==
  ASSUME NEW doc, AreHeads(doc), NEW b, Counted(doc, b), NEW N, N = Len(doc), N # 0
  PROVE  /\ Reaches(b, 0, 1, N) <=> IsOneItem(b, N)
         /\ IsOneItem(b, N) <=> \A i \in 1..N : b[i] = 0 <=> i = N
<1>1. Falls(b, N)
  BY CountFalls
<1>2. N \in Nat /\ 0 \in 0..N /\ b[0] = 1 /\ b[N] \in Int
  BY <1>1 DEF Falls, Counted
<1>3. \A i \in 0..N - 1 : b[i] \in Int /\ (i = 0 \/ i \in 1..N - 1)
  BY <1>1, <1>2 DEF Falls
<1>4. Reaches(b, 0, 1, N) <=> IsOneItem(b, N)
  BY <1>2, <1>3 DEF Reaches, IsOneItem
<1>5. ASSUME IsOneItem(b, N) PROVE \A i \in 1..N : b[i] = 0 <=> i = N
  <2>1. ASSUME NEW i \in 1..N, i # N PROVE b[i] # 0
    <3>1. i \in 1..N - 1
      BY <1>2, <2>1
    <3> QED BY <1>5, <3>1 DEF IsOneItem
  <2> QED BY <1>5, <2>1 DEF IsOneItem
<1>6. ASSUME \A i \in 1..N : b[i] = 0 <=> i = N PROVE IsOneItem(b, N)
  <2>1. b[N] = 0
    BY <1>2, <1>6
  <2>2. ASSUME NEW i \in 1..N - 1 PROVE b[i] > 0
    <3>1. b[i] \in Int /\ i \in 0..N /\ 0 <= i
      BY <1>1, <1>2 DEF Falls
    <3>2. ASSUME b[i] < 1 PROVE FALSE
      <4>1. PICK y \in 0..N : 0 < y /\ y <= i /\ Reaches(b, 0, 1, y)
        BY <1>1, <1>2, <3>1, <3>2, ReachesOne
      <4>2. b[y] = 0 /\ y \in 1..N /\ y # N
        BY <1>2, <4>1 DEF Reaches
      <4> QED BY <1>6, <4>2
    <3> QED BY <3>1, <3>2
  <2> QED BY <2>1, <2>2 DEF IsOneItem
<1> QED BY <1>4, <1>5, <1>6

\* The arrays a head lies in are the items around it.
LEMMA ArraysAround ==
  ASSUME NEW doc, AreHeads(doc), NEW b, Counted(doc, b), NEW N, N = Len(doc), N # 0,
         \A i \in 1..N : doc[i].major # "map", IsOneItem(b, N), NEW i \in 1..N
  PROVE  {j \in 1..i - 1 : doc[j].major = "array" /\ SkipItems(doc, j, 1) > i} = Around(b, 0, i)
<1>1. Falls(b, N)
  BY CountFalls
<1>2. N \in Nat /\ i \in Nat /\ 0 + 1 = 1
  BY <1>1 DEF Falls
<1>3. ASSUME NEW j \in 1..i - 1
      PROVE  doc[j].major = "array" /\ SkipItems(doc, j, 1) > i <=> \A m \in j..i - 1 : b[m] >= b[j - 1]
  <2>1. j \in 1..N /\ j - 1 \in 0..N /\ j - 1 <= N /\ j \in Nat /\ j \in j..i - 1
    BY <1>2
  <2>2. b[N] < b[j - 1]
    <3>1. b[N] = 0 /\ b[0] = 1
      BY DEF IsOneItem, Counted
    <3>2. j - 1 = 0 \/ j - 1 \in 1..N - 1
      BY <1>2, <2>1
    <3> QED BY <3>1, <3>2 DEF IsOneItem
  <2>3. PICK y \in 0..N : j - 1 < y /\ Reaches(b, j - 1, 1, y)
    <3>1. N \in 0..N
      BY <1>2
    <3> QED BY <1>1, <2>1, <2>2, <3>1, ReachesOne
  <2>4. SkipItems(doc, j, 1) = y + 1
    BY <2>1, <2>3, ItemSkipped
  <2>5. b[y] = b[j - 1] - 1 /\ b[j - 1] \in Int /\ \A m \in j - 1..y - 1 : b[m] > b[j - 1] - 1
    BY <1>1, <2>1, <2>3 DEF Falls, Reaches
  <2>6. ASSUME SkipItems(doc, j, 1) > i, NEW m \in j..i - 1 PROVE b[m] >= b[j - 1]
    <3>1. m \in j - 1..y - 1 /\ m \in 0..N
      BY <1>2, <2>1, <2>4, <2>6
    <3>2. b[m] \in Int
      BY <1>1, <3>1 DEF Falls
    <3> QED BY <2>5, <3>1, <3>2
  <2>7. ASSUME \A m \in j..i - 1 : b[m] >= b[j - 1] PROVE SkipItems(doc, j, 1) > i
    <3>1. ASSUME y <= i - 1 PROVE FALSE
      <4>1. y \in j..i - 1
        BY <2>1, <2>3, <3>1
      <4>2. b[y] >= b[j - 1]
        BY <2>7, <4>1
      <4> QED BY <2>5, <4>2
    <3> QED BY <1>2, <2>4, <3>1
  <2>8. ASSUME \A m \in j..i - 1 : b[m] >= b[j - 1] PROVE doc[j].major = "array"
    <3>1. b[j] >= b[j - 1]
      BY <2>1, <2>8
    <3>2. b[j] = b[j - 1] - 1 + Op(doc[j])
      BY <2>1 DEF Counted
    <3> QED BY <2>5, <3>1, <3>2 DEF Op
  <2> QED BY <2>6, <2>7, <2>8
<1> QED BY <1>2, <1>3 DEF Around

-----------------------------------------------------------------------------
(* The shortest widths: what is encoded again.                             *)

\* A head that the encoder could have written, but for its width.
IsTyped(h) ==
  /\ HasFields(h, {"major", "width", "n", "bytes"})
  /\ h.major = "bytes" => h.n = h.bytes.len
  /\ h.major \in {"uint", "array", "bool"} => h.bytes = Nothing
  /\ h.major = "bool" => h.n \in {0, 1}

\* The shortest width of a head.
Shortest(h) == IF h.major = "bool" THEN 0 ELSE WidthOf(h.n)

\* A head is one with its parts.
LEMMA HeadParts ==
  ASSUME NEW h, HasFields(h, {"major", "width", "n", "bytes"}), NEW g,
         \E major, width, n, bytes : g = [major |-> major, width |-> width, n |-> n, bytes |-> bytes]
  PROVE  g = h <=> g.major = h.major /\ g.width = h.width /\ g.n = h.n /\ g.bytes = h.bytes
<1>1. HasFields(g, {"major", "width", "n", "bytes"})
  BY DEF HasFields
<1>2. ASSUME g.major = h.major, g.width = h.width, g.n = h.n, g.bytes = h.bytes PROVE g = h
  <2>1. \A f \in {"major", "width", "n", "bytes"} : g[f] = h[f]
    BY <1>2
  <2> QED BY <1>1, <2>1, SameFields
<1> QED BY <1>2

\* What a head of the profile is read as is written with its shortest width.
LEMMA WrittenAgain ==
  ASSUME NEW h, IsTyped(h), NEW l, HeadOk(h, l)
  PROVE  h = HeadOf(PartOf(h)) <=> h.width = Shortest(h)
<1>1. PICK g : g = HeadOf(PartOf(h))
  OBVIOUS
<1>2. h.major \in {"uint", "bytes", "bool", "array"}
  BY DEF HeadOk
<1>3. /\ \E major, width, n, bytes : g = [major |-> major, width |-> width, n |-> n, bytes |-> bytes]
      /\ g.major = h.major /\ g.width = Shortest(h) /\ g.n = h.n /\ g.bytes = h.bytes
  <2>1. CASE h.major = "uint"
    <3>1. g = CborHead("uint", h.n, Nothing)
      BY <1>1, <2>1 DEF HeadOf, PartOf
    <3> QED BY <2>1, <3>1 DEF CborHead, IsTyped, Shortest
  <2>2. CASE h.major = "array"
    <3>1. g = CborHead("array", h.n, Nothing)
      BY <1>1, <2>2 DEF HeadOf, PartOf
    <3> QED BY <2>2, <3>1 DEF CborHead, IsTyped, Shortest
  <2>3. CASE h.major = "bytes"
    <3>1. g = CborHead("bytes", h.bytes.len, h.bytes)
      BY <1>1, <2>3 DEF HeadOf, PartOf
    <3> QED BY <2>3, <3>1 DEF CborHead, IsTyped, Shortest
  <2>4. CASE h.major = "bool"
    <3>1. PICK part : part = PartOf(h)
      OBVIOUS
    <3>2. part = [kind |-> "bool", n |-> h.n]
      BY <2>4, <3>1 DEF PartOf, IsTyped
    <3>3. g = [CborHead("bool", h.n, Nothing) EXCEPT !.width = 0]
      BY <1>1, <3>1, <3>2 DEF HeadOf
    <3>4. g = [major |-> "bool", width |-> 0, n |-> h.n, bytes |-> Nothing]
      BY <3>3 DEF CborHead
    <3> QED BY <2>4, <3>4 DEF IsTyped, Shortest
  <2> QED BY <1>2, <2>1, <2>2, <2>3, <2>4
<1>4. g = h <=> g.width = h.width
  BY <1>3, HeadParts DEF IsTyped
<1> QED BY <1>1, <1>3, <1>4

\* So a document is the encoding of what it is read as when every width is the shortest.
LEMMA WrittenBack ==
  ASSUME NEW doc, IsSequence(doc), NEW l, \A i \in 1..Len(doc) : IsTyped(doc[i]) /\ HeadOk(doc[i], l),
         NEW item, item = [i \in DOMAIN doc |-> PartOf(doc[i])]
  PROVE  IsShortest(doc, Encoding(item)) <=> \A i \in 1..Len(doc) : doc[i].width = Shortest(doc[i])
<1>1. PICK n \in Nat : n = Len(doc) /\ DOMAIN doc = 1..n /\ doc = [i \in 1..n |-> doc[i]]
  BY SequenceOf DEF IsSequence
<1>2. Encoding(item) = [i \in 1..n |-> HeadOf(PartOf(doc[i]))]
  BY <1>1 DEF Encoding
<1>3. doc = Encoding(item) <=> \A i \in 1..n : doc[i] = HeadOf(PartOf(doc[i]))
  BY <1>1, <1>2
<1>4. \A i \in 1..n : doc[i] = HeadOf(PartOf(doc[i])) <=> doc[i].width = Shortest(doc[i])
  BY <1>1, WrittenAgain
<1> QED BY <1>1, <1>3, <1>4 DEF IsShortest

-----------------------------------------------------------------------------
(* A document is decoded just when it is well formed.                      *)

\* What the heads of a document are, before any is read.
IsDocument(doc) == AreHeads(doc) /\ \A i \in 1..Len(doc) : IsTyped(doc[i])

\* A head of a well-formed document.
LEMMA HeadIsOk ==
  ASSUME NEW h, IsTyped(h), NEW l
  PROVE  HeadOk(h, l) <=> \/ h.major \in {"array", "bool"}
                          \/ h.major = "uint" /\ h.n <= LongMax
                          \/ h.major = "bytes" /\ h.n <= l.string
  BY DEF IsTyped, HeadOk

\* The heads of a document that is one item are as a well-formed one's when each is allowed.
LEMMA AllowedHeads ==
  ASSUME NEW doc, IsDocument(doc), NEW b, Counted(doc, b), NEW N, N = Len(doc), N # 0, NEW l, AreLimits(l),
         IsOneItem(b, N), \A i \in 1..N : HeadOk(doc[i], l)
  PROVE  AllAllowed(doc, b, l, 0, 1, N) <=>
           /\ N <= l.items
           /\ \A i \in 1..N :
                Cardinality({j \in 1..i - 1 : doc[j].major = "array" /\ SkipItems(doc, j, 1) > i}) < l.depth
<1>1. AreHeads(doc) /\ N \in Nat /\ N \in 1..N /\ l.items \in Nat /\ l.depth \in Nat
  BY CountFalls DEF IsDocument, Falls, AreLimits
<1>2. \A i \in 1..N : doc[i].major # "map"
  BY DEF HeadOk
<1>3. ASSUME NEW i \in 1..N
      PROVE  /\ Allowed(doc, l, i, 1 + Cardinality(Around(b, 0, i))) <=> i <= l.items /\ Cardinality(Around(b, 0, i)) < l.depth
             /\ {j \in 1..i - 1 : doc[j].major = "array" /\ SkipItems(doc, j, 1) > i} = Around(b, 0, i)
  <2>1. Cardinality(Around(b, 0, i)) \in Nat
    <3>1. 0 \in Nat /\ i \in Nat
      BY <1>1
    <3> QED BY <3>1, AroundFinite
  <2>2. 1 + Cardinality(Around(b, 0, i)) <= l.depth <=> Cardinality(Around(b, 0, i)) < l.depth
    BY <1>1, <2>1
  <2>3. {j \in 1..i - 1 : doc[j].major = "array" /\ SkipItems(doc, j, 1) > i} = Around(b, 0, i)
    BY <1>1, <1>2, ArraysAround
  <2> QED BY <2>2, <2>3 DEF Allowed
<1>4. AllAllowed(doc, b, l, 0, 1, N) <=> \A i \in 1..N : Allowed(doc, l, i, 1 + Cardinality(Around(b, 0, i)))
  <2>1. 0 + 1 = 1
    OBVIOUS
  <2> QED BY <2>1 DEF AllAllowed
<1>5. N <= l.items <=> \A i \in 1..N : i <= l.items
  BY <1>1
<1> QED BY <1>3, <1>4, <1>5

\* What is well formed, with the count and the items around each head.
WellFormedHeads(doc, b, l) ==
  /\ \A i \in 1..Len(doc) : b[i] = 0 <=> i = Len(doc)
  /\ Len(doc) <= l.items
  /\ \A i \in 1..Len(doc) :
       Cardinality({j \in 1..i - 1 : doc[j].major = "array" /\ SkipItems(doc, j, 1) > i}) < l.depth
  /\ \A i \in 1..Len(doc) : HeadOk(doc[i], l)

\* These are the heads that are read to the end.
LEMMA HeadsAreRead ==
  ASSUME NEW doc, IsDocument(doc), NEW b, Counted(doc, b), Len(doc) # 0, NEW l, AreLimits(l)
  PROVE  DecodeItem(doc, l).ok /\ DecodeItem(doc, l).val = Len(doc) + 1 <=> WellFormedHeads(doc, b, l)
<1>1. PICK N \in Nat : N = Len(doc)
  BY CountFalls DEF IsDocument, Falls
<1>2. AreHeads(doc) /\ 0 + 1 = 1
  BY DEF IsDocument
<1>3. DecodeItem(doc, l).ok /\ DecodeItem(doc, l).val = N + 1 <=> ReadTo(doc, b, l, 0, 1, 1, N)
  BY <1>1, <1>2, DocumentIsRead
<1>4. /\ Reaches(b, 0, 1, N) <=> IsOneItem(b, N)
      /\ IsOneItem(b, N) <=> \A i \in 1..N : b[i] = 0 <=> i = N
  BY <1>1, <1>2, OneItemReaches
<1>5. AllAllowed(doc, b, l, 0, 1, N) => \A i \in 1..N : HeadOk(doc[i], l)
  BY <1>2 DEF AllAllowed, Allowed
<1>6. ASSUME IsOneItem(b, N), \A i \in 1..N : HeadOk(doc[i], l)
      PROVE  AllAllowed(doc, b, l, 0, 1, N) <=>
               /\ N <= l.items
               /\ \A i \in 1..N :
                    Cardinality({j \in 1..i - 1 : doc[j].major = "array" /\ SkipItems(doc, j, 1) > i}) < l.depth
  BY <1>1, <1>6, AllowedHeads
<1> QED BY <1>1, <1>3, <1>4, <1>5, <1>6 DEF ReadTo, WellFormedHeads

\* A document is decoded just when it is well formed and within the limits (codec.rs decode).
THEOREM DecodedExactly ==
  ASSUME NEW doc, IsDocument(doc), NEW l, AreLimits(l)
  PROVE  ProtocolDecode(doc, l).ok <=> WellFormed(doc, l)
<1>1. CASE doc = <<>>
  BY <1>1 DEF ProtocolDecode, WellFormed, Err
<1>2. CASE doc # <<>>
  <2>1. PICK N \in Nat : N = Len(doc) /\ DOMAIN doc = 1..N /\ doc = [i \in 1..N |-> doc[i]]
    BY SequenceOf DEF IsDocument, AreHeads
  <2>2. N # 0
    <3>1. ASSUME N = 0 PROVE FALSE
      <4>1. 1..0 = {} /\ <<>> = [i \in 1..0 |-> doc[i]]
        OBVIOUS
      <4> QED BY <1>2, <2>1, <3>1, <4>1
    <3> QED BY <3>1
  <2>3. PICK b : Counted(doc, b)
    BY CountSteps DEF IsDocument
  <2>4. PICK end, item : end = DecodeItem(doc, l) /\ item = [i \in DOMAIN doc |-> PartOf(doc[i])]
    OBVIOUS
  <2>5. SizeOf(doc) \in Nat /\ l.document \in Nat
    BY SizeAtLeast DEF IsDocument, AreLimits
  <2>6. ProtocolDecode(doc, l).ok <=>
          /\ ~(SizeOf(doc) > l.document) /\ doc[1].major = "array"
          /\ end.ok /\ end.val = N + 1 /\ IsShortest(doc, Encoding(item))
    BY <1>2, <2>1, <2>4 DEF ProtocolDecode, Ok, Err
  <2>7. end.ok /\ end.val = N + 1 <=> WellFormedHeads(doc, b, l)
    BY <2>1, <2>2, <2>3, <2>4, HeadsAreRead
  <2>8. ASSUME \A i \in 1..N : HeadOk(doc[i], l)
        PROVE  IsShortest(doc, Encoding(item)) <=> \A i \in 1..N : doc[i].width = Shortest(doc[i])
    BY <2>1, <2>4, <2>8, WrittenBack DEF IsDocument, AreHeads
  <2>9. \A i \in 1..N : StillOpen(SubSeq(doc, 1, i)) = b[i]
    <3>1. \A i \in 1..N : i \in 0..Len(doc)
      BY <2>1
    <3> QED BY <2>3, <3>1, CountOfFirst DEF IsDocument
  <2>10. WellFormed(doc, l) <=>
           /\ doc[1].major = "array" /\ SizeOf(doc) <= l.document
           /\ WellFormedHeads(doc, b, l) /\ \A i \in 1..N : doc[i].width = Shortest(doc[i])
    <3>1. WellFormed(doc, l) <=>
            /\ doc[1].major = "array" /\ SizeOf(doc) <= l.document /\ N <= l.items
            /\ \A i \in 1..N :
                 /\ StillOpen(SubSeq(doc, 1, i)) = 0 <=> i = N
                 /\ Cardinality({j \in 1..i - 1 : doc[j].major = "array" /\ SkipItems(doc, j, 1) > i}) < l.depth
                 /\ doc[i].width = IF doc[i].major = "bool" THEN 0 ELSE WidthOf(doc[i].n)
                 /\ \/ doc[i].major \in {"array", "bool"}
                    \/ doc[i].major = "uint" /\ doc[i].n <= LongMax
                    \/ doc[i].major = "bytes" /\ doc[i].n <= l.string
      BY <1>2, <2>1 DEF WellFormed
    <3>2. \A i \in 1..N : HeadOk(doc[i], l) <=> \/ doc[i].major \in {"array", "bool"}
                                                \/ doc[i].major = "uint" /\ doc[i].n <= LongMax
                                                \/ doc[i].major = "bytes" /\ doc[i].n <= l.string
      BY <2>1, HeadIsOk DEF IsDocument
    <3> QED BY <2>1, <2>9, <3>1, <3>2 DEF WellFormedHeads, Shortest
  <2>11. WellFormedHeads(doc, b, l) => \A i \in 1..N : HeadOk(doc[i], l)
    BY <2>1 DEF WellFormedHeads
  <2>12. SizeOf(doc) > l.document <=> ~(SizeOf(doc) <= l.document)
    BY <2>5
  <2> QED BY <2>6, <2>7, <2>8, <2>10, <2>11, <2>12
<1> QED BY <1>1, <1>2

-----------------------------------------------------------------------------
(* The codecs are exact after every call.                                  *)

\* A document that a caller may give has the heads of one.
LEMMA GivenDocument ==
  ASSUME NEW doc \in Documents
  PROVE  IsDocument(doc)
<1>1. IsList(doc) /\ \A i \in DOMAIN doc : IsHead(doc[i])
  BY CodecInputsAssumption
<1>2. IsSequence(doc) /\ DOMAIN doc = 1..Len(doc)
  BY <1>1 DEF IsList, IsSequence
<1>3. ASSUME NEW i \in 1..Len(doc) PROVE IsNumbered(doc[i]) /\ IsTyped(doc[i])
  <2>1. IsHead(doc[i])
    BY <1>1, <1>2
  <2> QED BY <2>1 DEF IsHead, IsNumbered, IsTyped
<1> QED BY <1>2, <1>3 DEF IsDocument, AreHeads

\* The status of the C interface is Ok for a document that is well formed, and no other.
LEMMA StatusExactly ==
  ASSUME NEW doc, IsDocument(doc)
  PROVE  FfiStatus({doc}) = "Ok" <=> WellFormed(doc, V1)
<1>1. AreLimits(V1)
  BY SMT DEF AreLimits, V1
<1>2. PICK read : read = ProtocolDecode(doc, V1)
  OBVIOUS
<1>3. read.ok <=> WellFormed(doc, V1)
  BY <1>1, <1>2, DecodedExactly
<1>4. (CHOOSE d \in {doc} : TRUE) = doc /\ {doc} # {}
  OBVIOUS
<1>5. ValidateProtocolCborBytes(doc) = IF read.ok THEN Ok(Encoding(read.val)) ELSE read
  BY <1>2 DEF ValidateProtocolCborBytes
<1>6. ValidateProtocolCborBytes(doc).ok <=> read.ok
  BY <1>5 DEF Ok
<1>7. FfiStatus({doc}) = IF ValidateProtocolCborBytes(doc).ok THEN "Ok"
                         ELSE CASE ValidateProtocolCborBytes(doc).val = "NonCanonicalEncoding" -> "NonCanonicalInput"
                                [] ValidateProtocolCborBytes(doc).val = "LimitExceeded" -> "LimitExceeded"
                                [] OTHER -> "InvalidInput"
  BY <1>4 DEF FfiStatus
<1> QED BY <1>3, <1>6, <1>7

\* A call of the codecs that is exact, after a first call.
IsExact(call, first) ==
  /\ call.fn = "document" =>
       /\ call.ret.ok <=> WellFormed(call.arg.doc, call.arg.limits)
       /\ call.ret.ok => Encoding(call.ret.val) = call.arg.doc
  /\ call.fn = "status" /\ call.ret.ok => (call.ret.val = "Ok" <=> \E doc \in call.arg : WellFormed(doc, V1))
  /\ call.fn = "credential" /\ call.ret.ok => EncodeWebAuthn(call.ret.val) = call.arg
  /\ call.fn = "typed" =>
       /\ call.ret.ok => EncodeRecovery(call.ret.val) = call.arg
       /\ call.arg = first.ret.val => call.ret = Ok(first.arg)
  /\ call.fn = "password" /\ call.ret.ok => DrawnFairly(call.arg, call.ret.val)
  /\ call.fn = "record" => (call.ret.ok <=> call.arg - 16 \in Buckets)

\* A kit is the form of a recovery key.
IsKit(call) == call.fn = "kit" => call.arg \in Entropies /\ call.ret = Ok(EncodeRecovery(call.arg))

CodesInv ==
  /\ IsSequence(log)
  /\ log # <<>> => IsKit(log[1])
  /\ CodesAreExact

\* A call that is exact keeps the codes so.
LEMMA ExactCall ==
  ASSUME CodesInv, NEW fn, NEW arg, NEW ret, Called(fn, arg, ret),
         NEW call, call = [fn |-> fn, arg |-> arg, ret |-> ret], IsKit(call), NEW first,
         log # <<>> => first = log[1], fn = "typed" => log # <<>>, IsExact(call, first)
  PROVE  CodesInv'
<1>1. /\ IsSequence(log') /\ Len(log') = Len(log) + 1 /\ Len(log) \in Nat /\ log' # <<>> /\ Latest' = call
      /\ \A i \in 1..Len(log) : log'[i] = log[i]
  BY LatestCall DEF CodesInv
<1>2. log # <<>> => Len(log) # 0
  <2>1. log = [i \in 1..Len(log) |-> log[i]]
    BY SequenceOf DEF CodesInv
  <2>2. 1..0 = {} /\ <<>> = [i \in 1..0 |-> log[i]]
    OBVIOUS
  <2> QED BY <2>1, <2>2
<1>3. log # <<>> => log'[1] = first /\ IsKit(log'[1])
  <2>1. log # <<>> => 1 \in 1..Len(log)
    BY <1>1, <1>2
  <2> QED BY <1>1, <2>1 DEF CodesInv
<1>4. log = <<>> => log'[1] = call
  <2>1. log = <<>> => Len(log') = 1
    BY <1>1
  <2> QED BY <1>1, <2>1 DEF Latest
<1>5. IsKit(log'[1])
  BY <1>3, <1>4
<1>6. call.fn = "typed" => log'[1] = first
  BY <1>3
<1>7. CodesAreExact'
  BY <1>1, <1>6 DEF CodesAreExact, Returned, IsExact
<1> QED BY <1>1, <1>5, <1>7 DEF CodesInv, IsKit

\* The calls that the property is about.
Codecs == {"document", "status", "credential", "kit", "typed", "password", "record"}

\* So does a call of something else.
LEMMA OtherwiseCalled ==
  ASSUME CodesInv, NEW fn, NEW arg, NEW ret, fn \notin Codecs, Called(fn, arg, ret)
  PROVE  CodesInv'
<1>1. PICK call, first : call = [fn |-> fn, arg |-> arg, ret |-> ret] /\ first = log[1]
  OBVIOUS
<1>2. fn # "typed" /\ IsKit(call) /\ IsExact(call, first)
  BY <1>1 DEF Codecs, IsKit, IsExact
<1> QED BY <1>1, <1>2, ExactCall

\* A document that is decoded.
LEMMA DocumentKeeps ==
  ASSUME CodesInv, DecodeDocument
  PROVE  CodesInv'
<1>1. PICK doc \in Documents, l \in LimitChoices :
        Called("document", [doc |-> doc, limits |-> l], ProtocolDecode(doc, l))
  BY DEF DecodeDocument
<1>2. PICK call, first : call = [fn |-> "document", arg |-> [doc |-> doc, limits |-> l], ret |-> ProtocolDecode(doc, l)]
                         /\ first = log[1]
  OBVIOUS
<1>3. ProtocolDecode(doc, l).ok <=> WellFormed(doc, l)
  <2>1. IsDocument(doc)
    BY GivenDocument
  <2>2. AreLimits(l)
    BY SMT, CodecInputsAssumption DEF AreLimits, V1
  <2> QED BY <2>1, <2>2, DecodedExactly
<1>4. ProtocolDecode(doc, l).ok => Encoding(ProtocolDecode(doc, l).val) = doc
  BY DecodedAsWritten
<1>5. IsKit(call) /\ IsExact(call, first)
  BY <1>2, <1>3, <1>4 DEF IsKit, IsExact
<1> QED BY <1>1, <1>2, <1>5, ExactCall

\* The status of one, or of a null pointer.
LEMMA StatusKeeps ==
  ASSUME CodesInv, AskStatus
  PROVE  CodesInv'
<1>1. PICK doc \in {{}} \cup {{d} : d \in Documents} : Called("status", doc, Ok(FfiStatus(doc)))
  BY DEF AskStatus
<1>2. PICK call, first : call = [fn |-> "status", arg |-> doc, ret |-> Ok(FfiStatus(doc))] /\ first = log[1]
  OBVIOUS
<1>3. FfiStatus(doc) = "Ok" <=> \E d \in doc : WellFormed(d, V1)
  <2>1. CASE doc = {}
    BY <2>1 DEF FfiStatus
  <2>2. CASE \E d \in Documents : doc = {d}
    BY <2>2, GivenDocument, StatusExactly
  <2> QED BY <2>1, <2>2
<1>4. IsKit(call) /\ IsExact(call, first)
  BY <1>2, <1>3 DEF IsKit, IsExact, Ok
<1> QED BY <1>1, <1>2, <1>4, ExactCall

\* A credential.
LEMMA CredentialKeeps ==
  ASSUME CodesInv, DecodeCredential
  PROVE  CodesInv'
<1>1. PICK doc \in Credentials : Called("credential", doc, WebAuthnDecode(doc, V1))
  BY DEF DecodeCredential
<1>2. PICK call, first : call = [fn |-> "credential", arg |-> doc, ret |-> WebAuthnDecode(doc, V1)] /\ first = log[1]
  OBVIOUS
<1>3. WebAuthnDecode(doc, V1).ok => EncodeWebAuthn(WebAuthnDecode(doc, V1).val) = doc
  BY CredentialAsWritten
<1>4. IsKit(call) /\ IsExact(call, first)
  BY <1>2, <1>3 DEF IsKit, IsExact
<1> QED BY <1>1, <1>2, <1>4, ExactCall

\* A kit that is printed.
LEMMA KitKeeps ==
  ASSUME CodesInv, EncodeKit
  PROVE  CodesInv'
<1>1. PICK e \in Entropies : Called("kit", e, Ok(EncodeRecovery(e)))
  BY DEF EncodeKit
<1>2. PICK call, first : call = [fn |-> "kit", arg |-> e, ret |-> Ok(EncodeRecovery(e))] /\ first = log[1]
  OBVIOUS
<1>3. IsKit(call) /\ IsExact(call, first)
  BY <1>2 DEF IsKit, IsExact
<1> QED BY <1>1, <1>2, <1>3, ExactCall

\* A form that is read, where a kit was printed.
LEMMA FormRead ==
  ASSUME CodesInv, After("kit"), NEW form, IsSequence(form), Called("typed", form, DecodeRecovery(form))
  PROVE  CodesInv'
<1>1. log # <<>>
  <2>1. Len(<<>>) = 0
    OBVIOUS
  <2> QED BY <2>1 DEF After
<1>2. log[1].arg \in Entropies /\ log[1].ret = Ok(EncodeRecovery(log[1].arg))
  BY <1>1 DEF CodesInv, IsKit, After
<1>3. PICK e \in Entropies : e = log[1].arg /\ log[1].ret.val = EncodeRecovery(e)
  BY <1>2 DEF Ok
<1>4. form = log[1].ret.val => DecodeRecovery(form) = Ok(log[1].arg)
  BY <1>3, CodecInputsAssumption, RecoveryComesBack
<1>5. DecodeRecovery(form).ok => EncodeRecovery(DecodeRecovery(form).val) = form
  BY RecoveryOneForm
<1>6. PICK call, first : call = [fn |-> "typed", arg |-> form, ret |-> DecodeRecovery(form)] /\ first = log[1]
  OBVIOUS
<1>7. IsKit(call) /\ IsExact(call, first)
  BY <1>4, <1>5, <1>6 DEF IsKit, IsExact
<1> QED BY <1>1, <1>6, <1>7, ExactCall

\* The first seventy characters of a form.
LEMMA FirstSeventy ==
  ASSUME NEW printed, printed = [i \in 1..71 |-> printed[i]]
  PROVE  IsSequence(SubSeq(printed, 1, 70))
<1>1. PICK S : S = {printed[i] : i \in 1..71}
  OBVIOUS
<1>2. 71 \in Nat /\ 1 \in 1..71 /\ 70 \in 1..71 /\ printed \in Seq(S)
  BY <1>1
<1>3. SubSeq(printed, 1, 70) \in Seq(S)
  <2>1. \A i \in 1..70 : printed[i] \in S
    BY <1>1
  <2> QED BY <2>1, SubSeqProperties
<1> QED BY <1>3, SeqIsSequence

\* A form that is typed back.
LEMMA TypedKeeps ==
  ASSUME CodesInv, DecodeKit
  PROVE  CodesInv'
<1>1. PICK printed : printed = log[1].ret.val
  OBVIOUS
<1>2. printed = [i \in 1..71 |-> printed[i]]
  <2>1. log # <<>>
    <3>1. Len(<<>>) = 0
      OBVIOUS
    <3>2. Len(log) = 1
      BY DEF DecodeKit, After
    <3> QED BY <3>1, <3>2
  <2>2. log[1].ret = Ok(EncodeRecovery(log[1].arg))
    BY <2>1 DEF CodesInv, IsKit, DecodeKit, After
  <2>3. printed = EncodeRecovery(log[1].arg)
    BY <1>1, <2>2 DEF Ok
  <2> QED BY <2>3 DEF EncodeRecovery
<1>3. PICK form :
        /\ Called("typed", form, DecodeRecovery(form))
        /\ form \in {printed, SubSeq(printed, 1, 70)} \/ \E d \in Damages : form = [printed EXCEPT ![d[1]] = d[2]]
  BY <1>1 DEF DecodeKit
<1>4. IsSequence(form)
  <2>1. CASE form = printed
    <3>1. 71 \in Nat
      OBVIOUS
    <3> QED BY <1>2, <2>1, <3>1 DEF IsSequence
  <2>2. CASE form = SubSeq(printed, 1, 70)
    BY <1>2, <2>2, FirstSeventy
  <2>3. CASE \E d \in Damages : form = [printed EXCEPT ![d[1]] = d[2]]
    <3>1. form = [i \in 1..71 |-> form[i]]
      BY <1>2, <2>3
    <3> QED BY <3>1 DEF IsSequence
  <2> QED BY <1>3, <2>1, <2>2, <2>3
<1> QED BY <1>3, <1>4, FormRead DEF DecodeKit

\* The passwords of an alphabet.
LEMMA PasswordsKeep ==
  ASSUME CodesInv, DrawPasswords
  PROVE  CodesInv'
<1>1. PICK n \in AlphabetSizes : Called("password", n, Ok([byte \in 0..255 |-> Made(byte, n)]))
  BY DEF DrawPasswords, Made
<1>2. n \in Nat
  BY CodecInputsAssumption
<1>3. PICK made : made = [byte \in 0..255 |-> Made(byte, n)]
  OBVIOUS
<1>4. ASSUME NEW c \in 1..n
      PROVE  256 \div n = Cardinality({byte \in 0..255 : made[byte].ok /\ made[byte].val[1] = c})
  <2>1. n \in Nat \ {0}
    BY <1>2
  <2>2. 256 \div n = Cardinality({byte \in 0..255 : Made(byte, n).ok /\ Made(byte, n).val[1] = c})
    BY <2>1, CharactersUniform
  <2>3. {byte \in 0..255 : made[byte].ok /\ made[byte].val[1] = c}
          = {byte \in 0..255 : Made(byte, n).ok /\ Made(byte, n).val[1] = c}
    BY <1>3
  <2> QED BY <2>2, <2>3
<1>5. PICK call, first : call = [fn |-> "password", arg |-> n, ret |-> Ok(made)] /\ first = log[1]
  OBVIOUS
<1>6. call.fn = "password" /\ call.arg = n /\ call.ret.val = made
  BY <1>5 DEF Ok
<1>7. ASSUME n < 128, NEW byte \in 0..255, made[byte].ok
      PROVE  Len(made[byte].val) = 8
  <2>1. made[byte] = Made(byte, n)
    BY <1>3
  <2>2. n \in Nat \ {0} /\ byte \in Int /\ Threshold(n) \in Int
    <3>1. n # 0
      <4> SUFFICES ASSUME n = 0 PROVE FALSE
        OBVIOUS
      <4>1. [c \in 1..n |-> c] = <<>>
        OBVIOUS
      <4>2. Made(byte, n) = Err("InvalidSecretText")
        BY <4>1 DEF Made, GeneratePassword
      <4> QED BY <1>7, <2>1, <4>2 DEF Err
    <3>2. n \in Nat \ {0}
      BY <1>2, <3>1
    <3>3. 256 % n \in Int
      BY <3>2
    <3> QED BY <3>2, <3>3 DEF Threshold
  <2>3. PICK bound \in Int : bound = Threshold(n)
    BY <2>2
  <2>4. /\ byte < bound => (n < 128 => Len(Made(byte, n).val) = 8)
        /\ byte >= bound => ~Made(byte, n).ok
    BY <2>2, <2>3, MadeOf
  <2>5. byte < bound
    BY <1>7, <2>1, <2>2, <2>4
  <2> QED BY <1>7, <2>1, <2>4, <2>5
<1>8. IsKit(call) /\ IsExact(call, first)
  <2>1. DrawnFairly(n, made)
    BY <1>4, <1>7 DEF DrawnFairly
  <2> QED BY <1>6, <2>1 DEF IsKit, IsExact
<1>9. Called("password", n, Ok(made))
  BY <1>1, <1>3
<1> QED BY <1>5, <1>8, <1>9, ExactCall

\* A record that is stored.
LEMMA RecordKeeps ==
  ASSUME CodesInv, StoreRecord
  PROVE  CodesInv'
<1>1. PICK n \in Lengths : Called("record", n, Stored(n))
  BY DEF StoreRecord, Stored
<1>2. Stored(n).ok <=> n - 16 \in Buckets
  BY CodecInputsAssumption, RecordsInBuckets
<1>3. PICK call, first : call = [fn |-> "record", arg |-> n, ret |-> Stored(n)] /\ first = log[1]
  OBVIOUS
<1>4. IsKit(call) /\ IsExact(call, first)
  BY <1>2, <1>3 DEF IsKit, IsExact
<1> QED BY <1>1, <1>3, <1>4, ExactCall

\* The other steps.
OtherThanCodecs ==
  \/ Seal \/ Open \/ Sign \/ Verify \/ Commit
  \/ LoadSettings \/ CompileRoles \/ Bootstrap \/ Sweep \/ StartApi \/ Connect \/ ValidateInput

\* They call something else.
LEMMA OtherThanCodecsCall ==
  ASSUME OtherThanCodecs
  PROVE  \E fn, arg, ret : fn \notin Codecs /\ Called(fn, arg, ret)
<1> DEFINE Calls == \E fn, arg, ret : fn \notin Codecs /\ Called(fn, arg, ret)
<1>1. \A fn \in {"seal", "open", "sign", "mac", "verify", "commit", "load", "compile", "bootstrap", "sweep", "api",
                 "connect", "validate"} : fn \notin Codecs
  BY DEF Codecs
<1>2. ASSUME Seal PROVE Calls
  BY <1>1, <1>2 DEF Seal
<1>3. ASSUME Open PROVE Calls
  BY <1>1, <1>3 DEF Open
<1>4. ASSUME Sign PROVE Calls
  BY <1>1, <1>4 DEF Sign
<1>5. ASSUME Verify PROVE Calls
  BY <1>1, <1>5 DEF Verify
<1>6. ASSUME Commit PROVE Calls
  BY <1>1, <1>6 DEF Commit
<1>7. ASSUME LoadSettings PROVE Calls
  BY <1>1, <1>7 DEF LoadSettings
<1>8. ASSUME CompileRoles PROVE Calls
  BY <1>1, <1>8 DEF CompileRoles
<1>9. ASSUME Bootstrap PROVE Calls
  BY <1>1, <1>9 DEF Bootstrap
<1>10. ASSUME Sweep PROVE Calls
  BY <1>1, <1>10 DEF Sweep
<1>11. ASSUME StartApi PROVE Calls
  BY <1>1, <1>11 DEF StartApi
<1>12. ASSUME Connect PROVE Calls
  BY <1>1, <1>12 DEF Connect
<1>13. ASSUME ValidateInput PROVE Calls
  BY <1>1, <1>13 DEF ValidateInput
<1> HIDE DEF Calls
<1>14. Calls
  BY <1>2, <1>3, <1>4, <1>5, <1>6, <1>7, <1>8, <1>9, <1>10, <1>11, <1>12, <1>13 DEF OtherThanCodecs
<1> QED BY <1>14 DEF Calls

\* What is accepted is exactly what the encoder writes, for every document and every limits, for
\* every recovery key and however it is typed back, for every alphabet and every length of a
\* record (codec.rs decode, the status of the C interface, recovery.rs, generator.rs, padding).
THEOREM CallsAreExact == CallsSpec => []CodesAreExact
<1>1. CallsInit => CodesInv
  <2> SUFFICES ASSUME log = <<>> PROVE CodesInv
    BY DEF CallsInit
  <2>1. IsSequence(log)
    BY DEF IsSequence
  <2>2. \A fn : ~Returned(fn)
    BY DEF Returned
  <2> QED BY <2>1, <2>2 DEF CodesInv, CodesAreExact
<1>2. CodesInv /\ [CallsNext]_log => CodesInv'
  <2> SUFFICES ASSUME CodesInv, [CallsNext]_log PROVE CodesInv'
    OBVIOUS
  <2>1. CASE DecodeDocument
    BY <2>1, DocumentKeeps
  <2>2. CASE AskStatus
    BY <2>2, StatusKeeps
  <2>3. CASE DecodeCredential
    BY <2>3, CredentialKeeps
  <2>4. CASE EncodeKit
    BY <2>4, KitKeeps
  <2>5. CASE DecodeKit
    BY <2>5, TypedKeeps
  <2>6. CASE DrawPasswords
    BY <2>6, PasswordsKeep
  <2>7. CASE StoreRecord
    BY <2>7, RecordKeeps
  <2>8. CASE OtherThanCodecs
    BY <2>8, OtherThanCodecsCall, OtherwiseCalled
  <2>9. CASE UNCHANGED log
    BY <2>9 DEF CodesInv, CodesAreExact, Returned, Latest
  <2> QED BY <2>1, <2>2, <2>3, <2>4, <2>5, <2>6, <2>7, <2>8, <2>9 DEF CallsNext, OtherThanCodecs
<1>3. CodesInv => CodesAreExact
  BY DEF CodesInv
<1> QED BY <1>1, <1>2, <1>3, PTL DEF CallsSpec
================================================================================
