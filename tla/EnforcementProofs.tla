------------------------- MODULE EnforcementProofs -------------------------
(***************************************************************************)
(* What the proofs about the two proxies share: what a decision promises   *)
(* about the text it returns, and what putting texts end to end makes of   *)
(* them.  The library's induction theorems take operators; here induction  *)
(* goes by the least counterexample.                                       *)
(***************************************************************************)
EXTENDS Enforcement, FiniteSetTheorems, WellFoundedInduction, TLAPS

LEMMA LeastOf ==
  ASSUME NEW T \in SUBSET Nat, T # {}
  PROVE  \E n \in T : \A m \in T : n <= m
<1>1. PICK n \in T : \A m \in T : ~ (<<m, n>> \in OpToRel(<, Nat))
  BY NatLessThanWellFounded, WFMin
<1>2. \A m \in T : ~ (m < n)
  BY <1>1 DEF OpToRel
<1> QED BY <1>2

(* The same, for what holds of 0 and of every number after one it holds of. *)
LEMMA ReachesAll ==
  ASSUME NEW T \in SUBSET Nat, 0 \in T, \A n \in T : n + 1 \in T
  PROVE  T = Nat
<1> SUFFICES ASSUME Nat \ T # {} PROVE FALSE
  OBVIOUS
<1>1. PICK n \in Nat \ T : \A m \in Nat \ T : n <= m
  BY LeastOf
<1>2. n # 0 /\ n - 1 \in Nat /\ n - 1 < n
  BY <1>1
<1>3. n - 1 \in T
  BY <1>1, <1>2
<1>4. (n - 1) + 1 \in T
  BY <1>3
<1> QED
  BY <1>1, <1>4

----------------------------------------------------------------------------
(* Texts end to end.                                                       *)

(* The text of the first i of some texts, for every i.                     *)
IsPrefixOf(F, seqs) ==
  /\ DOMAIN F = 0 .. Len(seqs) /\ F[0] = <<>>
  /\ \A i \in 1 .. Len(seqs) : F[i] = F[i - 1] \o seqs[i]

(* Prefixes of the first n, whether there are that many texts or not.      *)
Joins(F, seqs, n) ==
  F[0] = <<>> /\ \A i \in 1 .. n : i <= Len(seqs) => F[i] = F[i - 1] \o seqs[i]

LEMMA PrefixesExist ==
  ASSUME NEW S, NEW seqs \in Seq(Seq(S))
  PROVE  \E F \in [0 .. Len(seqs) -> Seq(S)] : IsPrefixOf(F, seqs)
<1> DEFINE Good(n) == \E F \in [0 .. n -> Seq(S)] : Joins(F, seqs, n)
           T == {n \in Nat : Good(n)}
<1>1. Good(0)
  <2> DEFINE F == [i \in 0 .. 0 |-> <<>>]
  <2>1. F \in [0 .. 0 -> Seq(S)] /\ F[0] = <<>>
    OBVIOUS
  <2> HIDE DEF F
  <2>2. Joins(F, seqs, 0)
    BY <2>1 DEF Joins
  <2> QED
    BY <2>1, <2>2
<1>2. ASSUME NEW n \in Nat, Good(n) PROVE Good(n + 1)
  <2>1. PICK F \in [0 .. n -> Seq(S)] : Joins(F, seqs, n)
    BY <1>2
  <2> DEFINE last == IF n + 1 <= Len(seqs) THEN F[n] \o seqs[n + 1] ELSE <<>>
             G == [i \in 0 .. n + 1 |-> IF i = n + 1 THEN last ELSE F[i]]
  <2>2. last \in Seq(S) /\ (n + 1 <= Len(seqs) => last = F[n] \o seqs[n + 1])
    OBVIOUS
  <2> HIDE DEF last
  <2>3. G \in [0 .. n + 1 -> Seq(S)]
    BY <2>2
  <2>4. G[0] = <<>> /\ G[n + 1] = last /\ \A i \in 0 .. n : G[i] = F[i]
    BY <2>1 DEF Joins
  <2> HIDE DEF G
  <2>5. ASSUME NEW i \in 1 .. n + 1, i <= Len(seqs) PROVE G[i] = G[i - 1] \o seqs[i]
    <3>1. CASE i = n + 1
      <4>1. G[i - 1] = F[n] /\ G[i] = last
        BY <2>4, <3>1
      <4> QED
        BY <2>2, <2>5, <3>1, <4>1
    <3>2. CASE i # n + 1
      <4>1. i \in 1 .. n /\ i - 1 \in 0 .. n /\ i \in 0 .. n
        BY <3>2
      <4>2. F[i] = F[i - 1] \o seqs[i]
        BY <2>1, <2>5, <4>1 DEF Joins
      <4>3. G[i] = F[i] /\ G[i - 1] = F[i - 1]
        BY <2>4, <4>1
      <4> QED
        BY <4>2, <4>3
    <3> QED
      BY <3>1, <3>2
  <2>6. Joins(G, seqs, n + 1)
    BY <2>4, <2>5 DEF Joins
  <2> QED
    BY <2>3, <2>6
<1> HIDE DEF Good
<1>3. T = Nat
  <2>1. 0 \in T /\ \A n \in T : n + 1 \in T
    BY <1>1, <1>2
  <2>2. T \in SUBSET Nat
    OBVIOUS
  <2> HIDE DEF T
  <2> QED
    BY <2>1, <2>2, ReachesAll
<1>4. Good(Len(seqs))
  <2>1. Len(seqs) \in T
    <3> HIDE DEF T
    <3> QED
      BY <1>3
  <2> QED
    BY <2>1
<1>5. PICK F \in [0 .. Len(seqs) -> Seq(S)] : Joins(F, seqs, Len(seqs))
  BY <1>4 DEF Good
<1>6. IsPrefixOf(F, seqs)
  <2>1. \A i \in 1 .. Len(seqs) : F[i] = F[i - 1] \o seqs[i]
    BY <1>5 DEF Joins
  <2> QED
    BY <1>5, <2>1 DEF IsPrefixOf, Joins
<1> QED
  BY <1>6

LEMMA Appended ==
  ASSUME NEW S, NEW s \in Seq(S), NEW t \in Seq(S)
  PROVE  /\ s \o t \in Seq(S) /\ Len(s \o t) = Len(s) + Len(t)
         /\ \A i \in 1 .. Len(s) : (s \o t)[i] = s[i]
         /\ \A i \in 1 .. Len(t) : (s \o t)[Len(s) + i] = t[i]
<1>1. Len(s) \in Nat /\ Len(t) \in Nat
  OBVIOUS
<1>2. s \o t \in Seq(S) /\ Len(s \o t) = Len(s) + Len(t)
  OBVIOUS
<1>3. ASSUME NEW i \in 1 .. Len(s) PROVE (s \o t)[i] = s[i]
  BY <1>1
<1>4. ASSUME NEW i \in 1 .. Len(t) PROVE (s \o t)[Len(s) + i] = t[i]
  BY <1>1
<1> QED
  BY <1>2, <1>3, <1>4

LEMMA FlattenIsLast ==
  ASSUME NEW S, NEW seqs \in Seq(Seq(S)), NEW F \in [0 .. Len(seqs) -> Seq(S)], IsPrefixOf(F, seqs)
  PROVE  FlattenSeq(seqs) = F[Len(seqs)]
<1>0. Len(seqs) \in Nat /\ \A i \in 1 .. Len(seqs) : seqs[i] \in Seq(S)
  OBVIOUS
<1>1. CASE Len(seqs) = 0
  <2>1. seqs = <<>> /\ FlattenSeq(seqs) = seqs
    BY <1>1 DEF FlattenSeq
  <2> QED
    BY <1>1, <2>1 DEF IsPrefixOf
<1>2. CASE Len(seqs) # 0
  <2> DEFINE n == Len(seqs)
             Is(f) == f = [i \in 1 .. n |-> IF i = 1 THEN seqs[i] ELSE f[i - 1] \o seqs[i]]
             flatten == CHOOSE f : Is(f)
             G == [i \in 1 .. n |-> F[i]]
  <2>1. FlattenSeq(seqs) = flatten[n]
    BY <1>2 DEF FlattenSeq
  <2>2. Is(G)
    <3>1. ASSUME NEW i \in 1 .. n
          PROVE  F[i] = IF i = 1 THEN seqs[i] ELSE G[i - 1] \o seqs[i]
      <4>1. F[i] = F[i - 1] \o seqs[i]
        BY DEF IsPrefixOf
      <4>2. CASE i = 1
        BY <1>0, <4>1, <4>2 DEF IsPrefixOf
      <4>3. CASE i # 1
        <5>1. i - 1 \in 1 .. n
          BY <1>0, <4>3
        <5> QED
          BY <4>1, <4>3, <5>1
      <4> QED
        BY <4>2, <4>3
    <3> QED
      BY <3>1
  <2> HIDE DEF G
  <2>3. Is(flatten)
    <3> HIDE DEF Is
    <3> QED
      BY <2>2
  <2> HIDE DEF flatten
  <2> DEFINE T == {i \in Nat : i \in 1 .. n => flatten[i] = F[i]}
  <2>4. 0 \in T
    OBVIOUS
  <2>5. ASSUME NEW i \in T PROVE i + 1 \in T
    <3> SUFFICES ASSUME i + 1 \in 1 .. n PROVE flatten[i + 1] = F[i + 1]
      OBVIOUS
    <3>1. flatten[i + 1] = IF i + 1 = 1 THEN seqs[i + 1] ELSE flatten[(i + 1) - 1] \o seqs[i + 1]
      BY <2>3
    <3>2. F[i + 1] = F[(i + 1) - 1] \o seqs[i + 1]
      BY DEF IsPrefixOf
    <3>3. (i + 1) - 1 = i
      OBVIOUS
    <3>4. CASE i = 0
      BY <1>0, <3>1, <3>2, <3>3, <3>4 DEF IsPrefixOf
    <3>5. CASE i # 0
      <4>1. i \in 1 .. n
        BY <1>0, <3>5
      <4>2. flatten[i] = F[i] /\ i + 1 # 1
        BY <3>5, <4>1
      <4>3. flatten[i + 1] = flatten[i] \o seqs[i + 1]
        BY <3>1, <3>3, <4>2
      <4> QED
        BY <3>2, <3>3, <4>2, <4>3
    <3> QED
      BY <3>4, <3>5
  <2>6. T = Nat
    <3>1. T \in SUBSET Nat
      OBVIOUS
    <3> HIDE DEF T
    <3> QED
      BY <2>4, <2>5, <3>1, ReachesAll
  <2>7. n \in T
    <3> HIDE DEF T
    <3> QED
      BY <1>0, <2>6
  <2> QED
    BY <1>0, <1>2, <2>1, <2>7
<1> QED
  BY <1>1, <1>2

LEMMA FlattenType ==
  ASSUME NEW S, NEW seqs \in Seq(Seq(S))
  PROVE  FlattenSeq(seqs) \in Seq(S)
<1>1. PICK F \in [0 .. Len(seqs) -> Seq(S)] : IsPrefixOf(F, seqs)
  BY PrefixesExist
<1>2. Len(seqs) \in 0 .. Len(seqs)
  OBVIOUS
<1> QED
  BY <1>1, <1>2, FlattenIsLast

(* How many of the first i positions take a line.                          *)
LEMMA Counting ==
  ASSUME NEW K
  PROVE  /\ Cardinality(K \intersect 1 .. 0) = 0
         /\ \A i \in Nat : Cardinality(K \intersect 1 .. i) \in Nat
         /\ \A i \in Nat : Cardinality(K \intersect 1 .. i + 1)
              = IF i + 1 \in K THEN Cardinality(K \intersect 1 .. i) + 1
                ELSE Cardinality(K \intersect 1 .. i)
<1>1. K \intersect 1 .. 0 = {}
  OBVIOUS
<1>2. ASSUME NEW i \in Nat PROVE IsFiniteSet(K \intersect 1 .. i)
  <2>1. IsFiniteSet(1 .. i)
    BY FS_Interval
  <2>2. K \intersect 1 .. i \subseteq 1 .. i
    OBVIOUS
  <2> QED
    BY <2>1, <2>2, FS_Subset
<1>3. ASSUME NEW i \in Nat
      PROVE  Cardinality(K \intersect 1 .. i + 1)
               = IF i + 1 \in K THEN Cardinality(K \intersect 1 .. i) + 1 ELSE Cardinality(K \intersect 1 .. i)
  <2>1. CASE i + 1 \in K
    <3>1. K \intersect 1 .. i + 1 = (K \intersect 1 .. i) \union {i + 1} /\ i + 1 \notin K \intersect 1 .. i
      BY <2>1
    <3> QED
      BY <1>2, <2>1, <3>1, FS_AddElement
  <2>2. CASE i + 1 \notin K
    <3>1. K \intersect 1 .. i + 1 = K \intersect 1 .. i
      BY <2>2
    <3> QED
      BY <2>2, <3>1
  <2> QED
    BY <2>1, <2>2
<1>4. \A i \in Nat : Cardinality(K \intersect 1 .. i) \in Nat
  BY <1>2, FS_CardinalityType
<1> QED
  BY <1>1, <1>3, <1>4, FS_EmptySet

(* The first k lines, or all of them.                                      *)
Taken(lines, k) == IF k <= Len(lines) THEN SubSeq(lines, 1, k) ELSE lines

LEMMA TakeOne ==
  ASSUME NEW S, NEW lines \in Seq(S), NEW k \in Nat
  PROVE  /\ Taken(lines, 0) = <<>>
         /\ Taken(lines, k) \in Seq(S)
         /\ Taken(lines, k) \o (IF k + 1 \in DOMAIN lines THEN <<lines[k + 1]>> ELSE <<>>) = Taken(lines, k + 1)
<1>0. DOMAIN lines = 1 .. Len(lines) /\ Len(lines) \in Nat
  OBVIOUS
<1>1. Taken(lines, 0) = <<>>
  BY <1>0 DEF Taken
<1>2. Taken(lines, k) \in Seq(S)
  BY <1>0 DEF Taken
<1>3. CASE k + 1 \in DOMAIN lines
  <2>1. SubSeq(lines, 1, k) \o <<lines[k + 1]>> = SubSeq(lines, 1, k + 1)
    BY <1>0, <1>3
  <2> QED
    BY <1>0, <1>3, <2>1 DEF Taken
<1>4. CASE k + 1 \notin DOMAIN lines
  <2>1. Taken(lines, k) = lines /\ Taken(lines, k + 1) = lines
    <3>1. k >= Len(lines)
      BY <1>0, <1>4
    <3>2. SubSeq(lines, 1, Len(lines)) = lines
      BY <1>0
    <3>3. k <= Len(lines) => k = Len(lines)
      <4> DEFINE l == Len(lines)
      <4>1. l \in Nat /\ k >= l
        BY <1>0, <3>1
      <4> HIDE DEF l
      <4>2. k <= l => k = l
        BY <4>1
      <4> QED
        BY <4>2 DEF l
    <3>4. Taken(lines, k) = lines
      BY <3>2, <3>3 DEF Taken
    <3>5. ~(k + 1 <= Len(lines))
      BY <1>0, <3>1
    <3> QED
      BY <3>4, <3>5 DEF Taken
  <2>2. lines \o <<>> = lines
    OBVIOUS
  <2> DEFINE one == IF k + 1 \in DOMAIN lines THEN <<lines[k + 1]>> ELSE <<>>
  <2>3. one = <<>>
    BY <1>4
  <2> HIDE DEF one
  <2>4. Taken(lines, k) \o one = Taken(lines, k + 1)
    BY <2>1, <2>2, <2>3
  <2> QED
    BY <1>1, <1>2, <2>4 DEF one
<1> QED
  BY <1>1, <1>2, <1>3, <1>4

(* The first n parts are lines, one at each place of K while there are any. *)
Placed(parts, lines, K, n) ==
  \A i \in 1 .. n :
    parts[i] = IF i \in K /\ Cardinality(K \intersect 1 .. i) \in DOMAIN lines
               THEN <<lines[Cardinality(K \intersect 1 .. i)]>> ELSE <<>>

(* Lines put into places in order read, end to end, as the lines again, up *)
(* to as many as there are places.                                         *)
LEMMA PlacedRead ==
  ASSUME NEW S, NEW lines \in Seq(S), NEW K, NEW parts \in Seq(Seq(S)), NEW n \in 0 .. Len(parts),
         Placed(parts, lines, K, n),
         NEW F \in [0 .. Len(parts) -> Seq(S)], IsPrefixOf(F, parts)
  PROVE  F[n] = Taken(lines, Cardinality(K \intersect 1 .. n))
<1> DEFINE count(i) == Cardinality(K \intersect 1 .. i)
           Read(i) == i <= n => F[i] = Taken(lines, count(i))
           T == {i \in Nat : Read(i)}
<1>0. Len(parts) \in Nat /\ n \in Nat /\ n <= Len(parts)
  OBVIOUS
<1>1. Read(0)
  BY Counting, TakeOne DEF IsPrefixOf
<1>2. ASSUME NEW i \in Nat, Read(i) PROVE Read(i + 1)
  <2> SUFFICES ASSUME i + 1 <= n PROVE F[i + 1] = Taken(lines, count(i + 1))
    OBVIOUS
  <2>1. i <= n /\ F[i] = Taken(lines, count(i)) /\ i + 1 \in 1 .. n /\ i + 1 \in 1 .. Len(parts)
    BY <1>0, <1>2
  <2>2. count(i) \in Nat
    BY Counting
  <2>3. count(i + 1) = IF i + 1 \in K THEN count(i) + 1 ELSE count(i)
    BY Counting
  <2>4. F[i + 1] = F[i] \o parts[i + 1]
    <3>1. F[i + 1] = F[(i + 1) - 1] \o parts[i + 1]
      BY <2>1 DEF IsPrefixOf
    <3>2. (i + 1) - 1 = i
      OBVIOUS
    <3> QED
      BY <3>1, <3>2
  <2>5. parts[i + 1] = IF i + 1 \in K /\ count(i + 1) \in DOMAIN lines THEN <<lines[count(i + 1)]>> ELSE <<>>
    BY <2>1 DEF Placed
  <2> HIDE DEF count
  <2>6. CASE i + 1 \in K
    <3> DEFINE c == count(i)
               line == IF c + 1 \in DOMAIN lines THEN <<lines[c + 1]>> ELSE <<>>
    <3>1. Taken(lines, c) \o line = Taken(lines, c + 1)
      BY <2>2, TakeOne
    <3>2. count(i + 1) = c + 1 /\ parts[i + 1] = line
      BY <2>3, <2>5, <2>6
    <3> HIDE DEF line
    <3> QED
      BY <2>1, <2>4, <3>1, <3>2
  <2>7. CASE i + 1 \notin K
    <3>1. Taken(lines, count(i)) \o <<>> = Taken(lines, count(i))
      BY <2>2, TakeOne
    <3> QED
      BY <2>1, <2>3, <2>4, <2>5, <2>7, <3>1
  <2> QED
    BY <2>6, <2>7
<1> HIDE DEF Read
<1>3. T = Nat
  <2>1. T \in SUBSET Nat /\ 0 \in T /\ \A i \in T : i + 1 \in T
    BY <1>1, <1>2
  <2> HIDE DEF T
  <2> QED
    BY <2>1, ReachesAll
<1>4. n \in T
  <2> HIDE DEF T
  <2> QED
    BY <1>0, <1>3
<1> QED
  BY <1>0, <1>4 DEF Read

LEMMA SameSequence ==
  ASSUME NEW S, NEW s \in Seq(S), NEW t \in Seq(S), Len(s) = Len(t),
         \A i \in 1 .. Len(s) : s[i] = t[i]
  PROVE  s = t
OBVIOUS

(* One text continues another.                                             *)
Begins(s, t) == Len(s) <= Len(t) /\ \A k \in 1 .. Len(s) : t[k] = s[k]

LEMMA BeginsTrans ==
  ASSUME NEW S, NEW p \in Seq(S), NEW q \in Seq(S), NEW r \in Seq(S), Begins(p, q), Begins(q, r)
  PROVE  Begins(p, r)
<1>1. Len(p) \in Nat /\ Len(q) \in Nat /\ Len(r) \in Nat
  OBVIOUS
<1> QED
  BY <1>1 DEF Begins

LEMMA ConcatBegins ==
  ASSUME NEW S, NEW p \in Seq(S), NEW q \in Seq(S)
  PROVE  Begins(p, p \o q)
<1>1. Len(p) \in Nat /\ Len(q) \in Nat
  OBVIOUS
<1> QED
  BY <1>1, Appended DEF Begins

(* The text of the first i places begins the text of all of them.          *)
LEMMA PrefixesBegin ==
  ASSUME NEW S, NEW seqs \in Seq(Seq(S)), NEW F \in [0 .. Len(seqs) -> Seq(S)],
         IsPrefixOf(F, seqs), NEW c \in 0 .. Len(seqs)
  PROVE  Begins(F[c], F[Len(seqs)])
<1> DEFINE n == Len(seqs)
           T == {i \in Nat : i <= n /\ c <= i => Begins(F[c], F[i])}
<1>0. n \in Nat /\ c \in Nat /\ c <= n
  OBVIOUS
<1>1. 0 \in T
  BY <1>0 DEF Begins
<1>2. ASSUME NEW i \in T PROVE i + 1 \in T
  <2> SUFFICES ASSUME i + 1 <= n, c <= i + 1 PROVE Begins(F[c], F[i + 1])
    OBVIOUS
  <2>1. CASE c = i + 1
    BY <2>1 DEF Begins
  <2>2. CASE c # i + 1
    <3>1. i \in 0 .. n /\ i + 1 \in 1 .. n /\ c <= i /\ (i + 1) - 1 = i /\ i <= n
      BY <1>0, <2>2
    <3>2. Begins(F[c], F[i])
      BY <3>1
    <3>3. F[i + 1] = F[i] \o seqs[i + 1]
      BY <3>1 DEF IsPrefixOf
    <3>4. /\ F[i] \in Seq(S) /\ F[c] \in Seq(S) /\ F[i + 1] \in Seq(S)
          /\ seqs[i + 1] \in Seq(S)
      <4>1. i \in 0 .. Len(seqs) /\ i + 1 \in 0 .. Len(seqs) /\ i + 1 \in 1 .. Len(seqs)
        BY <1>0, <3>1
      <4>2. F[i] \in Seq(S) /\ F[c] \in Seq(S) /\ F[i + 1] \in Seq(S)
        BY <4>1
      <4>3. \A j \in 1 .. Len(seqs) : seqs[j] \in Seq(S)
        OBVIOUS
      <4> QED
        BY <4>1, <4>2, <4>3
    <3>5. Begins(F[i], F[i + 1])
      BY <3>3, <3>4, ConcatBegins
    <3> QED
      BY <3>2, <3>4, <3>5, BeginsTrans
  <2> QED
    BY <2>1, <2>2
<1>3. T = Nat
  <2>1. T \in SUBSET Nat
    OBVIOUS
  <2> HIDE DEF T
  <2> QED
    BY <1>1, <1>2, <2>1, ReachesAll
<1>4. n \in T
  <2> HIDE DEF T
  <2> QED
    BY <1>0, <1>3
<1> QED
  BY <1>0, <1>4

LEMMA LetterAt ==
  ASSUME NEW S, NEW text \in Seq(S), NEW i \in 1 .. Len(text)
  PROVE  SubSeq(text, i, i) = <<text[i]>>
<1>1. Len(text) \in Nat /\ text[i] \in S
  OBVIOUS
<1>2. SubSeq(text, i, i) \in Seq(S) /\ Len(SubSeq(text, i, i)) = 1 /\ SubSeq(text, i, i)[1] = text[i]
  BY <1>1
<1>3. <<text[i]>> \in Seq(S) /\ Len(<<text[i]>>) = 1 /\ <<text[i]>>[1] = text[i]
  BY <1>1
<1>4. \A k \in 1 .. Len(SubSeq(text, i, i)) : SubSeq(text, i, i)[k] = <<text[i]>>[k]
  BY <1>2, <1>3
<1> QED
  BY <1>2, <1>3, <1>4, SameSequence

LEMMA PartsJoin ==
  ASSUME NEW S, NEW text \in Seq(S), NEW a \in 0 .. Len(text), NEW b \in 0 .. Len(text), a <= b
  PROVE  SubSeq(text, 1, a) \o SubSeq(text, a + 1, b) = SubSeq(text, 1, b)
<1> DEFINE n == Len(text)
           x == SubSeq(text, 1, a)
           y == SubSeq(text, a + 1, b)
           z == SubSeq(text, 1, b)
           xy == x \o y
<1>0. n \in Nat /\ a \in Nat /\ b \in Nat /\ a <= b /\ b <= n
  OBVIOUS
<1>1. x \in Seq(S) /\ Len(x) = a /\ \A i \in 1 .. a : x[i] = text[i]
  BY <1>0
<1>2. y \in Seq(S) /\ Len(y) = b - a /\ \A i \in 1 .. b - a : y[i] = text[a + i]
  BY <1>0
<1>3. z \in Seq(S) /\ Len(z) = b /\ \A i \in 1 .. b : z[i] = text[i]
  BY <1>0
<1> HIDE DEF x, y, z
<1>4. xy \in Seq(S) /\ Len(xy) = Len(x) + Len(y)
  BY <1>1, <1>2, Appended
<1>5. \A i \in 1 .. Len(x) : xy[i] = x[i]
  BY <1>1, <1>2, Appended
<1>6. \A i \in 1 .. Len(y) : xy[Len(x) + i] = y[i]
  BY <1>1, <1>2, Appended
<1> HIDE DEF xy
<1>7. Len(xy) = b
  BY <1>0, <1>1, <1>2, <1>4
<1>8. ASSUME NEW i \in 1 .. b PROVE xy[i] = z[i]
  <2>1. CASE i <= a
    <3>1. i \in 1 .. a
      BY <1>0, <2>1
    <3> QED
      BY <1>1, <1>3, <1>5, <3>1
  <2>2. CASE i > a
    <3>1. i - a \in 1 .. b - a /\ a + (i - a) = i
      BY <1>0, <2>2
    <3>2. xy[a + (i - a)] = y[i - a] /\ y[i - a] = text[a + (i - a)]
      BY <1>1, <1>2, <1>6, <3>1
    <3> QED
      BY <1>3, <3>1, <3>2
  <2> QED
    BY <1>0, <2>1, <2>2
<1>9. xy = z
  BY <1>3, <1>4, <1>7, <1>8, SameSequence
<1> QED
  BY <1>9 DEF xy, x, y, z

LEMMA RangeOfConcat ==
  ASSUME NEW S, NEW s \in Seq(S), NEW t \in Seq(S)
  PROVE  Range(s) \subseteq Range(s \o t) /\ Range(t) \subseteq Range(s \o t)
<1>1. /\ DOMAIN s = 1 .. Len(s) /\ DOMAIN t = 1 .. Len(t) /\ Len(s) \in Nat /\ Len(t) \in Nat
      /\ DOMAIN (s \o t) = 1 .. Len(s) + Len(t)
  OBVIOUS
<1>2. ASSUME NEW i \in DOMAIN s PROVE s[i] \in Range(s \o t)
  <2>1. (s \o t)[i] = s[i] /\ i \in DOMAIN (s \o t)
    BY <1>1
  <2> QED
    BY <2>1 DEF Range
<1>3. ASSUME NEW i \in DOMAIN t PROVE t[i] \in Range(s \o t)
  <2>1. (s \o t)[Len(s) + i] = t[i] /\ Len(s) + i \in DOMAIN (s \o t)
    BY <1>1
  <2> QED
    BY <2>1 DEF Range
<1> QED
  BY <1>2, <1>3 DEF Range

(* What is in one of some texts is in all of them end to end.              *)
LEMMA PartsInside ==
  ASSUME NEW S, NEW seqs \in Seq(Seq(S)), NEW k \in DOMAIN seqs
  PROVE  Range(seqs[k]) \subseteq Range(FlattenSeq(seqs))
<1> DEFINE n == Len(seqs)
<1>0. n \in Nat /\ k \in 1 .. n /\ \A i \in 1 .. n : seqs[i] \in Seq(S)
  OBVIOUS
<1>1. PICK F \in [0 .. n -> Seq(S)] : IsPrefixOf(F, seqs)
  BY PrefixesExist
<1>2. FlattenSeq(seqs) = F[n]
  BY <1>1, FlattenIsLast
<1>3. ASSUME NEW i \in 1 .. n
      PROVE  /\ Range(F[i - 1]) \subseteq Range(F[i])
             /\ Range(seqs[i]) \subseteq Range(F[i])
  <2>1. F[i] = F[i - 1] \o seqs[i]
    BY <1>1 DEF IsPrefixOf
  <2>2. F[i - 1] \in Seq(S) /\ seqs[i] \in Seq(S)
    <3>1. i - 1 \in 0 .. n
      <4> HIDE DEF n
      <4> QED BY <1>0
    <3> QED
      BY <1>0, <1>1, <3>1
  <2> QED
    BY <2>1, <2>2, RangeOfConcat
<1> HIDE DEF n
<1> DEFINE In(i) == k <= i /\ i <= n => Range(seqs[k]) \subseteq Range(F[i])
           T == {i \in Nat : In(i)}
<1>4. In(0)
  BY <1>0
<1>5. ASSUME NEW i \in Nat, In(i) PROVE In(i + 1)
  <2> SUFFICES ASSUME k <= i + 1, i + 1 <= n PROVE Range(seqs[k]) \subseteq Range(F[i + 1])
    OBVIOUS
  <2>1. i + 1 \in 1 .. n /\ (i + 1) - 1 = i
    BY <1>0
  <2>2. CASE k = i + 1
    BY <1>3, <2>1, <2>2
  <2>3. CASE k # i + 1
    <3>1. k <= i /\ i <= n
      BY <1>0, <2>3
    <3>2. Range(F[i]) \subseteq Range(F[i + 1])
      BY <1>3, <2>1
    <3> QED
      BY <1>5, <3>1, <3>2
  <2> QED
    BY <2>2, <2>3
<1> HIDE DEF In
<1>6. T = Nat
  <2>1. T \in SUBSET Nat /\ 0 \in T /\ \A i \in T : i + 1 \in T
    BY <1>4, <1>5
  <2> HIDE DEF T
  <2> QED
    BY <2>1, ReachesAll
<1>7. In(n)
  <2>1. n \in T
    <3> HIDE DEF T
    <3> QED BY <1>0, <1>6
  <2> QED
    BY <2>1
<1> QED
  BY <1>0, <1>2, <1>7 DEF In

LEMMA OneLong ==
  ASSUME NEW S, NEW s \in Seq(S), Len(s) <= 1, s # <<>>
  PROVE  Len(s) = 1 /\ s = <<s[1]>>
<1> DEFINE n == Len(s)
<1>1. n \in Nat /\ n <= 1 /\ n # 0
  OBVIOUS
<1> HIDE DEF n
<1>2. n = 1
  BY <1>1
<1>3. Len(s) = 1 /\ s[1] \in S
  BY <1>2 DEF n
<1>4. <<s[1]>> \in Seq(S) /\ Len(<<s[1]>>) = 1 /\ \A i \in 1 .. 1 : s[i] = <<s[1]>>[i]
  BY <1>3
<1> QED
  BY <1>3, <1>4, SameSequence

(* Texts of at most one piece each lie in the whole as their pieces, one   *)
(* for each that is not empty.                                             *)
Single(parts) == \A i \in 1 .. Len(parts) : Len(parts[i]) <= 1

LEMMA SinglesLieInOrder ==
  ASSUME NEW S, NEW parts \in Seq(Seq(S)), Single(parts), NEW K,
         \A i \in 1 .. Len(parts) : i \in K <=> parts[i] # <<>>
  PROVE  Placed(parts, FlattenSeq(parts), K, Len(parts))
         /\ \A i \in 1 .. Len(parts) : i \in K => Cardinality(K \intersect 1 .. i) \in DOMAIN FlattenSeq(parts)
<1> DEFINE n == Len(parts)
           count(i) == Cardinality(K \intersect 1 .. i)
<1>0. n \in Nat /\ \A i \in 1 .. n : parts[i] \in Seq(S)
  OBVIOUS
<1>1. PICK F \in [0 .. n -> Seq(S)] : IsPrefixOf(F, parts)
  BY PrefixesExist
<1>2. FlattenSeq(parts) = F[n]
  BY <1>1, FlattenIsLast
<1>3. \A i \in 1 .. n : F[i] = F[i - 1] \o parts[i]
  BY <1>1 DEF IsPrefixOf
<1>4. ASSUME NEW i \in 1 .. n
      PROVE  (i \in K => Len(parts[i]) = 1 /\ parts[i] = <<parts[i][1]>>) /\ (i \notin K => parts[i] = <<>>)
  <2>1. parts[i] \in Seq(S) /\ Len(parts[i]) <= 1
    BY <1>0 DEF Single
  <2>2. i \in K <=> parts[i] # <<>>
    OBVIOUS
  <2> DEFINE p == parts[i]
  <2>3. p \in Seq(S) /\ Len(p) <= 1 /\ (i \in K <=> p # <<>>)
    BY <2>1, <2>2
  <2> HIDE DEF p
  <2>4. p # <<>> => Len(p) = 1 /\ p = <<p[1]>>
    BY <2>3, OneLong
  <2> QED
    BY <2>3, <2>4 DEF p
<1>5. F[0] = <<>>
  BY <1>1 DEF IsPrefixOf
<1>6. /\ count(0) = 0 /\ \A i \in Nat : count(i) \in Nat
      /\ \A i \in Nat : count(i + 1) = IF i + 1 \in K THEN count(i) + 1 ELSE count(i)
  BY Counting
<1> HIDE DEF n, count
<1> DEFINE Lies(i) == i <= n =>
                 /\ Len(F[i]) = count(i)
                 /\ \A j \in 1 .. i : j \in K =>
                      count(j) \in 1 .. count(i) /\ F[i][count(j)] = parts[j][1]
           T == {i \in Nat : Lies(i)}
<1>7. Lies(0)
  BY <1>5, <1>6
<1>8. ASSUME NEW i \in Nat, Lies(i) PROVE Lies(i + 1)
  <2> SUFFICES ASSUME i + 1 <= n
               PROVE  /\ Len(F[i + 1]) = count(i + 1)
                      /\ \A j \in 1 .. i + 1 : j \in K =>
                           count(j) \in 1 .. count(i + 1) /\ F[i + 1][count(j)] = parts[j][1]
    OBVIOUS
  <2>1. i <= n /\ i + 1 \in 1 .. n /\ (i + 1) - 1 = i /\ i \in 0 .. n
    BY <1>0
  <2>2. F[i + 1] = F[i] \o parts[i + 1]
    BY <1>3, <2>1
  <2>3. F[i] \in Seq(S) /\ Len(F[i]) = count(i) /\ count(i) \in Nat
    BY <1>1, <1>6, <1>8, <2>1
  <2>4. \A j \in 1 .. i : j \in K => count(j) \in 1 .. count(i) /\ F[i][count(j)] = parts[j][1]
    BY <1>8, <2>1
  <2>5. CASE i + 1 \in K
    <3>1. /\ count(i + 1) = count(i) + 1
          /\ Len(parts[i + 1]) = 1 /\ parts[i + 1] \in Seq(S)
      BY <1>0, <1>4, <1>6, <2>1, <2>5
    <3> DEFINE f == F[i]
               p == parts[i + 1]
               c == count(i)
    <3>2. f \in Seq(S) /\ p \in Seq(S) /\ Len(f) = c /\ c \in Nat /\ Len(p) = 1
      BY <2>3, <3>1
    <3> HIDE DEF f, p, c
    <3>3. Len(f \o p) = c + 1 /\ (\A j \in 1 .. c : (f \o p)[j] = f[j]) /\ (f \o p)[c + 1] = p[1]
      <4>1. Len(f \o p) = Len(f) + Len(p) /\ \A j \in 1 .. Len(f) : (f \o p)[j] = f[j]
        BY <3>2, Appended
      <4>2. \A j \in 1 .. Len(p) : (f \o p)[Len(f) + j] = p[j]
        BY <3>2, Appended
      <4>3. 1 \in 1 .. Len(p)
        BY <3>2
      <4> QED
        BY <3>2, <4>1, <4>2, <4>3
    <3>4. ASSUME NEW j \in 1 .. i + 1, j \in K
          PROVE  count(j) \in 1 .. c + 1 /\ (f \o p)[count(j)] = parts[j][1]
      <4>1. CASE j = i + 1
        BY <3>1, <3>2, <3>3, <4>1 DEF c, p
      <4>2. CASE j # i + 1
        <5>1. j \in 1 .. i
          BY <4>2
        <5>2. count(j) \in 1 .. c /\ f[count(j)] = parts[j][1]
          BY <2>4, <3>4, <5>1 DEF c, f
        <5> QED
          BY <3>2, <3>3, <5>2
      <4> QED
        BY <4>1, <4>2
    <3> QED
      BY <2>2, <3>1, <3>3, <3>4 DEF f, p, c
  <2>6. CASE i + 1 \notin K
    <3>1. count(i + 1) = count(i) /\ parts[i + 1] = <<>>
      BY <1>4, <1>6, <2>1, <2>6
    <3>2. F[i + 1] = F[i]
      BY <2>2, <2>3, <3>1
    <3>3. \A j \in 1 .. i + 1 : j \in K => j \in 1 .. i
      BY <2>6
    <3> QED
      BY <2>3, <2>4, <3>1, <3>2, <3>3
  <2> QED
    BY <2>5, <2>6
<1> HIDE DEF Lies
<1>9. T = Nat
  <2>1. T \in SUBSET Nat /\ 0 \in T /\ \A i \in T : i + 1 \in T
    BY <1>7, <1>8
  <2> HIDE DEF T
  <2> QED
    BY <2>1, ReachesAll
<1>10. Lies(n)
  <2>1. n \in T
    <3> HIDE DEF T
    <3> QED BY <1>0, <1>9
  <2> QED
    BY <2>1
<1>11. F[n] \in Seq(S) /\ Len(F[n]) = count(n) /\ DOMAIN F[n] = 1 .. count(n)
  <2>1. F[n] \in Seq(S) /\ Len(F[n]) = count(n)
    BY <1>0, <1>1, <1>10 DEF Lies
  <2> QED
    BY <2>1
<1>12. ASSUME NEW i \in 1 .. n, i \in K
       PROVE  count(i) \in DOMAIN F[n] /\ parts[i] = <<F[n][count(i)]>>
  <2>1. count(i) \in 1 .. count(n) /\ F[n][count(i)] = parts[i][1]
    BY <1>0, <1>10, <1>12 DEF Lies
  <2> QED
    BY <1>4, <1>11, <1>12, <2>1
<1> QED
  BY <1>2, <1>4, <1>12 DEF Placed, n, count

----------------------------------------------------------------------------
(* What a decision promises about the text it returns.                     *)

(* Whatever was decided, the response is made of a decision whose duties   *)
(* are those of the policies, and which asks for tokens only with a key.   *)
LEMMA DecideFrom ==
  ASSUME NEW policies, NEW action, NEW text, NEW original
  PROVE  \E g, target :
           /\ decide(policies, action, text, original) = build_response(g, target, text)
           /\ g.obligations \subseteq UNION {p.obligations : p \in policies}
           /\ \A o \in Of("redact", g.obligations) : o.tokenize => HasTokenizer
<1> DEFINE bare    == [effect |-> evaluate(policies, Ask(action, text)).effect,
                       obligations |-> evaluate(policies, Ask(action, text)).obligations]
           guarded == guard_tokenization(bare)
           routed  == resolve_routing(guarded, original)
           duties  == UNION {p.obligations : p \in policies}
           Keyed(g) == g.obligations \subseteq duties
                       /\ \A o \in Of("redact", g.obligations) : o.tokenize => HasTokenizer
<1>1. bare.obligations \subseteq duties
  BY DEF evaluate, CollectObligations, UnionObligations, Matched
<1>2. Keyed(Denied)
  BY DEF Denied, Of
<1>3. Keyed(guarded)
  <2> HIDE DEF bare, duties
  <2> QED
    BY <1>1, <1>2 DEF guard_tokenization
<1> HIDE DEF guarded, duties, Keyed
<1>4. routed[1] \in {guarded, Denied}
  BY DEF resolve_routing
<1>5. decide(policies, action, text, original) = build_response(routed[1], routed[2], text)
  BY DEF decide, guarded
<1> HIDE DEF routed
<1>6. Keyed(routed[1])
  BY <1>2, <1>3, <1>4
<1> QED
  BY <1>5, <1>6 DEF Keyed, duties

(* The policies' redactions cover labels, so what is masked stays so.      *)
CoversLabels(policies) == \A p \in policies : \A o \in p.obligations : o.covers \subseteq Labels

(* The text that comes back is the one asked about, redacted.              *)
ComesBack(d, text) ==
  /\ d.payload \in Seq(Piece) /\ d.payload = Redacted(text, d.obligations)
  /\ Len(d.payload) = Len(text)

(* A text that is allowed with the redaction carried out is clean, however *)
(* little of a text is scanned: a longer one counts as not redacted.       *)
LEMMA AllowedTextIsClean ==
  ASSUME NEW policies, CoversLabels(policies), NEW action, NEW text \in Seq(Piece), NEW original, NEW d,
         d = decide(policies, action, text, original), d.effect = "allow"
  PROVE  /\ ComesBack(d, text)
         /\ "redact" \notin Types(d.obligations) \intersect d.unsupported => Clean(d.payload, d)
         /\ \A o \in Of("redact", d.obligations) : o.tokenize => HasTokenizer
         /\ "redact" \notin Types(d.obligations) \intersect d.unsupported =>
              Of("redact", d.obligations) = {} \/ ~Truncated(text)
<1>1. PICK g, target : /\ d = build_response(g, target, text)
                       /\ g.obligations \subseteq UNION {p.obligations : p \in policies}
                       /\ \A o \in Of("redact", g.obligations) : o.tokenize => HasTokenizer
  BY DecideFrom
<1>2. /\ d.obligations = g.obligations /\ d.payload = Redacted(text, d.obligations)
      /\ ~Truncated(text) \/ d.unsupported = Types(d.obligations)
  BY <1>1 DEF build_response, RanRedaction
<1>3. DOMAIN text = 1 .. Len(text) /\ Len(text) \in Nat /\ \A i \in DOMAIN text : text[i] \in Piece
  OBVIOUS
<1>4. \A o \in Of("redact", d.obligations) : o.covers \subseteq Labels /\ "redact" \in Types(d.obligations)
  BY <1>1, <1>2 DEF CoversLabels, Of, Types
<1>5. d.payload \in Seq(Piece) /\ DOMAIN d.payload = DOMAIN text /\ Len(d.payload) = Len(text)
  <2>1. d.payload = [i \in 1 .. Len(text) |->
                       IF i \in Scanned(text) /\ \E o \in Of("redact", d.obligations) : text[i] \in o.covers
                       THEN "masked" ELSE text[i]]
    BY <1>2, <1>3 DEF Redacted
  <2>2. "masked" \in Piece
    BY DEF Piece
  <2> QED
    BY <1>3, <2>1, <2>2
<1>6. ASSUME "redact" \notin Types(d.obligations) \intersect d.unsupported
      PROVE  Of("redact", d.obligations) = {} \/ ~Truncated(text)
  BY <1>2, <1>4, <1>6
<1>7. ASSUME "redact" \notin Types(d.obligations) \intersect d.unsupported PROVE Clean(d.payload, d)
  <2> SUFFICES ASSUME NEW o \in Of("redact", d.obligations), NEW i \in DOMAIN text
               PROVE  d.payload[i] \notin o.covers
    BY <1>5 DEF Clean, Range
  <2>1. i \in Scanned(text)
    BY <1>3, <1>6, <1>7, ScanAssumption DEF Truncated, Scanned
  <2>2. d.payload[i] = IF \E p \in Of("redact", d.obligations) : text[i] \in p.covers
                       THEN "masked" ELSE text[i]
    BY <1>2, <2>1 DEF Redacted
  <2> QED
    BY <1>4, <2>2, LabelsAssumption
<1>8. ComesBack(d, text)
  BY <1>2, <1>5 DEF ComesBack
<1> QED
  BY <1>1, <1>2, <1>6, <1>7, <1>8
=============================================================================
