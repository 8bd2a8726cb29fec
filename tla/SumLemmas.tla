------------------------------- MODULE SumLemmas -------------------------------
(***************************************************************************)
(* Lemmas about least and greatest numbers, sequences without duplicates   *)
(* and sums over finite sets, which the proofs about queues and pools use. *)
(* What a sum computes is proved by looking at a smallest set for which it *)
(* would be wrong.                                                         *)
(***************************************************************************)
EXTENDS Integers, Sequences, FiniteSets, FiniteSetsExt, SequencesExt,
        FiniteSetTheorems, WellFoundedInduction, TLAPS

-----------------------------------------------------------------------------
(* Least and greatest numbers, and sequences without duplicates.           *)

\* No element occurs twice.
Distinct(s) == \A i, j \in 1 .. Len(s) : s[i] = s[j] => i = j

\* A set of natural numbers has a least element.
LEMMA LeastNatural ==
  ASSUME NEW S \in SUBSET Nat, S # {}
  PROVE  Min(S) \in S /\ \A y \in S : Min(S) <= y
<1> DEFINE R == {ss \in Nat \X Nat : ss[1] < ss[2]}
<1>1. R = OpToRel(<, Nat)
  BY DEF OpToRel
<1>2. IsWellFoundedOn(R, Nat)
  BY <1>1, NatLessThanWellFounded
<1>3. PICK x \in S : \A y \in S : ~(<<y, x>> \in R)
  <2> HIDE DEF R
  <2>1. QED
    BY <1>2, WFMin
<1>4. ASSUME NEW y \in S
      PROVE  x <= y
  <2>1. ~(<<y, x>> \in R)
    BY <1>3
  <2>2. <<y, x>> \in R <=> y < x
    OBVIOUS
  <2>3. QED
    BY <2>1, <2>2
<1>5. QED
  BY <1>4 DEF Min

\* Among the numbers up to a bound there is a greatest.
LEMMA GreatestUpTo ==
  ASSUME NEW n \in Nat, NEW S \in SUBSET (0 .. n), S # {}
  PROVE  Max(S) \in S /\ \A y \in S : y <= Max(S)
<1> DEFINE D == {n - k : k \in S}
<1>1. D \in SUBSET Nat /\ D # {}
  <2>1. \A k \in S : k \in Int /\ n - k \in Nat
    OBVIOUS
  <2> QED
    BY <2>1
<1>2. Min(D) \in D /\ \A y \in D : Min(D) <= y
  <2> HIDE DEF D
  <2> QED BY <1>1, LeastNatural
<1>3. PICK x \in S : Min(D) = n - x
  BY <1>2
<1>4. \A y \in S : y <= x
  <2> SUFFICES ASSUME NEW y \in S PROVE y <= x
    OBVIOUS
  <2>1. n - y \in D
    OBVIOUS
  <2>2. n - x <= n - y
    BY <1>2, <1>3, <2>1
  <2> QED BY <2>2
<1> QED
  BY <1>4 DEF Max

\* A sequence is a function on the numbers up to its length.
LEMMA SeqTyped ==
  ASSUME NEW S, NEW s \in Seq(S)
  PROVE  DOMAIN s = 1 .. Len(s) /\ Len(s) \in Nat /\ \A i \in 1 .. Len(s) : s[i] \in S
OBVIOUS

\* The tail is moved by one.
LEMMA TailOfSeq ==
  ASSUME NEW S, NEW s \in Seq(S), s # <<>>
  PROVE  /\ Tail(s) \in Seq(S) /\ Len(Tail(s)) = Len(s) - 1 /\ Len(s) \in Nat \ {0}
         /\ Head(s) = s[1] /\ Head(s) \in S
         /\ \A i \in 1 .. Len(s) - 1 : Tail(s)[i] = s[i + 1]
OBVIOUS

\* What is left without the first k elements is moved by k.
LEMMA SuffixOfSeq ==
  ASSUME NEW S, NEW s \in Seq(S), NEW k \in 0 .. Len(s)
  PROVE  /\ SubSeq(s, k + 1, Len(s)) \in Seq(S)
         /\ Len(SubSeq(s, k + 1, Len(s))) = Len(s) - k
         /\ \A i \in 1 .. Len(s) - k : SubSeq(s, k + 1, Len(s))[i] = s[i + k]
OBVIOUS

\* Sequences with the same elements in the same order are equal.
LEMMA SameSeq ==
  ASSUME NEW S, NEW s \in Seq(S), NEW t \in Seq(S), Len(s) = Len(t),
         \A i \in 1 .. Len(s) : s[i] = t[i]
  PROVE  s = t
OBVIOUS

\* An element that is not there yet is appended.
LEMMA AppendDistinct ==
  ASSUME NEW S, NEW s \in Seq(S), Distinct(s), NEW p \in S, p \notin ToSet(s)
  PROVE  /\ Append(s, p) \in Seq(S) /\ Distinct(Append(s, p))
         /\ ToSet(Append(s, p)) = ToSet(s) \cup {p}
<1> DEFINE t == Append(s, p)
           n == Len(s) + 1
<1>1. /\ t \in Seq(S) /\ Len(t) = n /\ n \in Nat \ {0} /\ Len(s) = n - 1
      /\ \A i \in 1 .. n - 1 : t[i] = s[i]
      /\ t[n] = p /\ DOMAIN t = 1 .. n /\ DOMAIN s = 1 .. n - 1
  OBVIOUS
<1> HIDE DEF t, n
<1>2. \A i \in 1 .. n : i \in 1 .. n - 1 \/ i = n
  BY <1>1
<1>3. \A i \in 1 .. n - 1 : i \in 1 .. n /\ s[i] # p
  BY <1>1 DEF ToSet
<1>4. Distinct(t)
  BY <1>1, <1>2, <1>3 DEF Distinct
<1>5. n \in 1 .. n
  BY <1>1
<1>6. ToSet(t) = ToSet(s) \cup {p}
  BY <1>1, <1>2, <1>3, <1>5 DEF ToSet
<1>7. QED
  BY <1>1, <1>4, <1>6 DEF t

\* The tail loses the head and nothing else.
LEMMA TailDistinct ==
  ASSUME NEW S, NEW s \in Seq(S), Distinct(s), s # <<>>
  PROVE  /\ Tail(s) \in Seq(S) /\ Distinct(Tail(s))
         /\ Head(s) \in ToSet(s) /\ ToSet(Tail(s)) = ToSet(s) \ {Head(s)}
<1>1. /\ Tail(s) \in Seq(S) /\ Len(Tail(s)) = Len(s) - 1
      /\ Head(s) = s[1] /\ Len(s) \in Nat \ {0}
      /\ \A i \in 1 .. Len(s) - 1 : Tail(s)[i] = s[i + 1]
  OBVIOUS
<1>2. Distinct(Tail(s))
  BY <1>1 DEF Distinct
<1>3. Head(s) \in ToSet(s)
  BY <1>1 DEF ToSet
<1>4. ToSet(Tail(s)) \subseteq ToSet(s) \ {Head(s)}
  BY <1>1 DEF ToSet, Distinct
<1>5. ASSUME NEW i \in 1 .. Len(s), s[i] # Head(s)
      PROVE  s[i] \in ToSet(Tail(s))
  <2>1. i - 1 \in 1 .. Len(s) - 1
    BY <1>1, <1>5
  <2>2. Tail(s)[i - 1] = s[i]
    BY <1>1, <2>1
  <2>3. i - 1 \in DOMAIN Tail(s)
    BY <1>1, <2>1
  <2> QED BY <2>2, <2>3 DEF ToSet
<1> QED
  BY <1>1, <1>2, <1>3, <1>4, <1>5 DEF ToSet

\* A prefix and what follows it share no element.
LEMMA SplitDistinct ==
  ASSUME NEW S, NEW s \in Seq(S), Distinct(s), NEW k \in 0 .. Len(s)
  PROVE  /\ SubSeq(s, k + 1, Len(s)) \in Seq(S) /\ Distinct(SubSeq(s, k + 1, Len(s)))
         /\ SubSeq(s, 1, k) \in Seq(S) /\ Len(SubSeq(s, 1, k)) = k
         /\ ToSet(SubSeq(s, 1, k)) \subseteq ToSet(s)
         /\ ToSet(SubSeq(s, k + 1, Len(s))) = ToSet(s) \ ToSet(SubSeq(s, 1, k))
<1> DEFINE a == SubSeq(s, 1, k)
           b == SubSeq(s, k + 1, Len(s))
<1>1. a \in Seq(S) /\ Len(a) = k /\ \A i \in 1 .. k : a[i] = s[i]
  OBVIOUS
<1>2. b \in Seq(S) /\ Len(b) = Len(s) - k /\ \A i \in 1 .. Len(s) - k : b[i] = s[k + i]
  OBVIOUS
<1> HIDE DEF a, b
<1>3. Distinct(b)
  BY <1>2 DEF Distinct
<1>4. ToSet(a) = {s[i] : i \in 1 .. k}
  BY <1>1 DEF ToSet
<1>5. ToSet(b) = {s[i] : i \in k + 1 .. Len(s)}
  <2>1. ToSet(b) = {b[i] : i \in 1 .. Len(s) - k}
    <3>1. DOMAIN b = 1 .. Len(s) - k
      BY <1>2
    <3> QED
      BY <3>1, Zenon DEF ToSet
  <2>2. ASSUME NEW i \in k + 1 .. Len(s)
        PROVE  \E j \in 1 .. Len(s) - k : b[j] = s[i]
    <3>1. i - k \in 1 .. Len(s) - k /\ b[i - k] = s[k + (i - k)]
      BY <1>2
    <3> QED BY <3>1
  <2>3. ASSUME NEW j \in 1 .. Len(s) - k
        PROVE  \E i \in k + 1 .. Len(s) : b[j] = s[i]
    BY <1>2
  <2>4. ToSet(b) \subseteq {s[i] : i \in k + 1 .. Len(s)}
    BY <2>1, <2>3
  <2>5. {s[i] : i \in k + 1 .. Len(s)} \subseteq ToSet(b)
    BY <2>1, <2>2
  <2> QED
    BY <2>4, <2>5
<1>6. ToSet(s) = {s[i] : i \in 1 .. Len(s)}
  BY DEF ToSet
<1>7. ToSet(b) = ToSet(s) \ ToSet(a) /\ ToSet(a) \subseteq ToSet(s)
  BY <1>4, <1>5, <1>6 DEF Distinct
<1> QED
  BY <1>1, <1>2, <1>3, <1>7 DEF a, b

\* The first n of two sequences in a row are the first k of one and m of the other.
LEMMA TakeFirst ==
  ASSUME NEW S, NEW a \in Seq(S), NEW b \in Seq(S), NEW k \in 0 .. Len(a),
         NEW m \in 0 .. Len(b), k < Len(a) => m = 0
  PROVE  /\ ToSet(SubSeq(a \o b, 1, k + m)) = ToSet(SubSeq(a, 1, k)) \cup ToSet(SubSeq(b, 1, m))
         /\ Len(a \o b) = Len(a) + Len(b)
         /\ ToSet(a \o b) = ToSet(a) \cup ToSet(b)
<1> DEFINE c == a \o b
           ac == SubSeq(a, 1, k)
           bc == SubSeq(b, 1, m)
           cc == SubSeq(c, 1, k + m)
<1>1. /\ c \in Seq(S) /\ Len(c) = Len(a) + Len(b) /\ Len(a) \in Nat /\ Len(b) \in Nat
      /\ \A i \in 1 .. Len(a) : c[i] = a[i]
      /\ \A i \in 1 .. Len(b) : c[Len(a) + i] = b[i]
  OBVIOUS
<1>2. k + m <= Len(c) /\ k + m \in Nat
  BY <1>1
<1>3. /\ Len(ac) = k /\ \A i \in 1 .. k : ac[i] = a[i]
      /\ Len(bc) = m /\ \A i \in 1 .. m : bc[i] = b[i]
      /\ Len(cc) = k + m /\ \A i \in 1 .. k + m : cc[i] = c[i]
  BY <1>1, <1>2
<1>4. /\ DOMAIN ac = 1 .. k /\ DOMAIN bc = 1 .. m /\ DOMAIN cc = 1 .. k + m
      /\ DOMAIN a = 1 .. Len(a) /\ DOMAIN b = 1 .. Len(b) /\ DOMAIN c = 1 .. Len(c)
  BY <1>1, <1>2, <1>3
<1>5. ToSet(ac) = {a[i] : i \in 1 .. k} /\ ToSet(bc) = {b[i] : i \in 1 .. m}
  BY <1>3, <1>4 DEF ToSet
<1>6. ToSet(cc) = {c[i] : i \in 1 .. k + m} /\ ToSet(c) = {c[i] : i \in 1 .. Len(c)}
  BY <1>3, <1>4 DEF ToSet
<1>7. \A i \in 1 .. k : i \in 1 .. k + m /\ c[i] = a[i]
  BY <1>1
<1>8. \A i \in 1 .. m : k = Len(a) /\ k + i \in 1 .. k + m /\ c[k + i] = b[i]
  BY <1>1
<1>9. \A i \in 1 .. k + m : i \in 1 .. k \/ (i - k \in 1 .. m /\ c[i] = b[i - k])
  BY <1>1, <1>8
<1>10. ToSet(cc) = ToSet(ac) \cup ToSet(bc)
  <2>1. ASSUME NEW i \in 1 .. k + m
        PROVE  c[i] \in ToSet(ac) \cup ToSet(bc)
    <3>1. CASE i \in 1 .. k
      BY <3>1, <1>5, <1>7
    <3>2. CASE i - k \in 1 .. m /\ c[i] = b[i - k]
      BY <3>2, <1>5
    <3>3. QED
      BY <3>1, <3>2, <1>9
  <2>2. ToSet(ac) \subseteq ToSet(cc)
    BY <1>5, <1>6, <1>7
  <2>3. ToSet(bc) \subseteq ToSet(cc)
    BY <1>5, <1>6, <1>8
  <2>4. QED
    BY <2>1, <2>2, <2>3, <1>6
<1>11. ToSet(c) = ToSet(a) \cup ToSet(b)
  <2>1. \A i \in 1 .. Len(c) : i \in 1 .. Len(a) \/ (i - Len(a) \in 1 .. Len(b) /\ c[i] = b[i - Len(a)])
    BY <1>1
  <2>2. ToSet(c) \subseteq ToSet(a) \cup ToSet(b)
    BY <1>1, <1>4, <1>6, <2>1 DEF ToSet
  <2>3. ToSet(a) \subseteq ToSet(c)
    BY <1>1, <1>4, <1>6 DEF ToSet
  <2>4. \A i \in 1 .. Len(b) : Len(a) + i \in 1 .. Len(c)
    BY <1>1
  <2>5. ToSet(b) \subseteq ToSet(c)
    BY <1>1, <1>4, <1>6, <2>4 DEF ToSet
  <2>6. QED
    BY <2>2, <2>3, <2>5
<1>12. QED
  BY <1>1, <1>10, <1>11

-----------------------------------------------------------------------------
(* Sums over finite sets.                                                  *)

\* The finite subsets of D with at most n elements.
FinSets(D, n) == {s \in SUBSET D : IsFiniteSet(s) /\ Cardinality(s) <= n}

\* The element that SumFunctionOnSet adds first, and its recursion.
Pick(s) == CHOOSE x \in s : TRUE
Rest(s) == s \ {Pick(s)}
Recurs(f, g, T) == g = [s \in T |-> IF s = {} THEN 0 ELSE f[Pick(s)] + g[Rest(s)]]

\* Taking an element out of a nonempty set.
LEMMA RestIsSmaller ==
  ASSUME NEW D, NEW n \in Nat, NEW s \in FinSets(D, n), s # {}
  PROVE  /\ Pick(s) \in s /\ Pick(s) \in D /\ n - 1 \in Nat
         /\ Rest(s) \in FinSets(D, n - 1)
         /\ Cardinality(Rest(s)) = Cardinality(s) - 1 /\ Cardinality(s) \in Nat \ {0}
<1>1. Pick(s) \in s
  BY DEF Pick
<1>2. IsFiniteSet(s) /\ s \subseteq D /\ Cardinality(s) \in Nat /\ Cardinality(s) <= n
  BY FS_CardinalityType DEF FinSets
<1>3. IsFiniteSet(Rest(s)) /\ Cardinality(Rest(s)) = Cardinality(s) - 1
  BY <1>1, <1>2, FS_RemoveElement DEF Rest
<1>4. Cardinality(s) # 0
  BY <1>2, FS_EmptySet
<1> QED
  BY <1>1, <1>2, <1>3, <1>4 DEF FinSets, Rest

\* A function that satisfies the recursion on all sets of at most n elements.
LEMMA SumExists ==
  ASSUME NEW D, NEW f \in [D -> Nat], NEW n \in Nat
  PROVE  \E g \in [FinSets(D, n) -> Nat] : Recurs(f, g, FinSets(D, n))
<1> DEFINE P(m) == \E g \in [FinSets(D, m) -> Nat] : Recurs(f, g, FinSets(D, m))
           Bad == {m \in Nat : ~P(m)}
<1> SUFFICES ASSUME Bad # {}
             PROVE  FALSE
  OBVIOUS
<1> DEFINE m == Min(Bad)
<1>1. m \in Bad /\ \A y \in Bad : m <= y
  <2>1. Bad \in SUBSET Nat
    OBVIOUS
  <2> HIDE DEF Bad
  <2> QED
    BY <2>1, LeastNatural
<1>2. m \in Nat /\ ~P(m)
  BY <1>1
<1> HIDE DEF m
<1>3. CASE m = 0
  <2> DEFINE g == [s \in FinSets(D, 0) |-> 0]
  <2>1. \A s \in FinSets(D, 0) : s = {}
    <3> SUFFICES ASSUME NEW s \in FinSets(D, 0)
                 PROVE  s = {}
      OBVIOUS
    <3>1. IsFiniteSet(s) /\ Cardinality(s) <= 0
      BY DEF FinSets
    <3>2. Cardinality(s) = 0
      BY <3>1, FS_CardinalityType
    <3> QED
      BY <3>1, <3>2, FS_EmptySet
  <2>2. Recurs(f, g, FinSets(D, 0)) /\ g \in [FinSets(D, 0) -> Nat]
    BY <2>1 DEF Recurs
  <2> QED
    BY <1>2, <1>3, <2>2
<1>4. CASE m # 0
  <2>1. m - 1 \in Nat /\ ~(m <= m - 1)
    BY <1>2, <1>4
  <2>2. P(m - 1)
    BY <1>1, <2>1
  <2>3. PICK h \in [FinSets(D, m - 1) -> Nat] : Recurs(f, h, FinSets(D, m - 1))
    BY <2>2
  <2> DEFINE g == [s \in FinSets(D, m) |-> IF s = {} THEN 0 ELSE f[Pick(s)] + h[Rest(s)]]
  <2>4. FinSets(D, m - 1) \subseteq FinSets(D, m)
    <3> SUFFICES ASSUME NEW s \in FinSets(D, m - 1)
                 PROVE  s \in FinSets(D, m)
      OBVIOUS
    <3>1. s \in SUBSET D /\ IsFiniteSet(s) /\ Cardinality(s) <= m - 1
      BY DEF FinSets
    <3>2. Cardinality(s) <= m
      <4>1. Cardinality(s) \in Nat
        BY <3>1, FS_CardinalityType
      <4> QED
        BY <1>2, <3>1, <4>1
    <3> QED
      BY <3>1, <3>2 DEF FinSets
  <2>5. \A s \in FinSets(D, m) : s # {} => Pick(s) \in D /\ Rest(s) \in FinSets(D, m - 1)
    BY <1>2, RestIsSmaller
  <2>6. g \in [FinSets(D, m) -> Nat]
    BY <2>5
  <2>7. \A s \in FinSets(D, m - 1) : g[s] = h[s]
    BY <2>3, <2>4 DEF Recurs
  <2> HIDE DEF FinSets
  <2>8. Recurs(f, g, FinSets(D, m))
    BY <2>5, <2>7 DEF Recurs
  <2> QED
    BY <1>2, <2>6, <2>8
<1> QED
  BY <1>3, <1>4

\* The recursion determines the sum.
LEMMA SumUnique ==
  ASSUME NEW D, NEW f \in [D -> Nat], NEW n \in Nat,
         NEW g, Recurs(f, g, FinSets(D, n)),
         NEW S \in FinSets(D, n), NEW h, Recurs(f, h, SUBSET S)
  PROVE  h[S] = g[S]
<1> DEFINE Wrong(m) == \E s \in SUBSET S : Cardinality(s) = m /\ h[s] # g[s]
           Bad == {m \in Nat : Wrong(m)}
<1>1. IsFiniteSet(S) /\ S \in SUBSET D /\ Cardinality(S) <= n
  BY DEF FinSets
<1>2. ASSUME NEW s \in SUBSET S
      PROVE  IsFiniteSet(s) /\ Cardinality(s) \in Nat /\ s \in FinSets(D, n)
  <2>1. IsFiniteSet(s) /\ Cardinality(s) <= Cardinality(S)
    BY <1>1, FS_Subset
  <2>2. Cardinality(s) \in Nat /\ Cardinality(S) \in Nat
    BY <1>1, <2>1, FS_CardinalityType
  <2>3. Cardinality(s) <= n
    BY <1>1, <2>1, <2>2
  <2> QED
    BY <1>1, <2>1, <2>2, <2>3 DEF FinSets
<1> SUFFICES ASSUME Bad # {}
             PROVE  FALSE
  <2>1. h[S] # g[S] => Cardinality(S) \in Bad
    BY <1>2
  <2> QED
    BY <2>1
<1> DEFINE m == Min(Bad)
<1>3. m \in Bad /\ \A y \in Bad : m <= y
  <2>1. Bad \in SUBSET Nat
    OBVIOUS
  <2> HIDE DEF Bad
  <2> QED
    BY <2>1, LeastNatural
<1> HIDE DEF m
<1>4. PICK s \in SUBSET S : Cardinality(s) = m /\ h[s] # g[s]
  BY <1>3
<1>5. CASE s = {}
  BY <1>2, <1>4, <1>5 DEF Recurs
<1>6. CASE s # {}
  <2>1. s \in FinSets(D, n) /\ m \in Nat
    BY <1>2, <1>3
  <2>2. Pick(s) \in s /\ Cardinality(Rest(s)) = m - 1 /\ m \in Nat \ {0}
    BY <1>4, <1>6, <2>1, RestIsSmaller
  <2>3. Rest(s) \in SUBSET S
    BY DEF Rest
  <2>4. m - 1 \in Nat /\ ~(m <= m - 1)
    BY <2>2
  <2>5. m - 1 \notin Bad
    BY <1>3, <2>4
  <2>6. h[Rest(s)] = g[Rest(s)]
    BY <2>2, <2>3, <2>4, <2>5
  <2>7. h[s] = f[Pick(s)] + h[Rest(s)]
    BY <1>6 DEF Recurs
  <2>8. g[s] = f[Pick(s)] + g[Rest(s)]
    BY <1>6, <2>1 DEF Recurs
  <2> QED
    BY <1>4, <2>6, <2>7, <2>8
<1> QED
  BY <1>5, <1>6

\* SumFunctionOnSet is any function that satisfies the recursion.
LEMMA SumIsRecursive ==
  ASSUME NEW D, NEW f \in [D -> Nat], NEW n \in Nat,
         NEW g \in [FinSets(D, n) -> Nat], Recurs(f, g, FinSets(D, n)),
         NEW S \in FinSets(D, n)
  PROVE  SumFunctionOnSet(f, S) = g[S]
<1> DEFINE h == CHOOSE it : Recurs(f, it, SUBSET S)
<1>1. SumFunctionOnSet(f, S) = h[S]
  BY DEF SumFunctionOnSet, FoldFunctionOnSet, MapThenFoldSet, Recurs, Pick, Rest
<1>2. Recurs(f, [s \in SUBSET S |-> g[s]], SUBSET S)
  <2> SUFFICES ASSUME NEW s \in SUBSET S
               PROVE  g[s] = IF s = {} THEN 0 ELSE f[Pick(s)] + g[Rest(s)]
    BY DEF Recurs, Rest
  <2>1. s \in FinSets(D, n)
    <3>1. IsFiniteSet(S) /\ S \in SUBSET D /\ Cardinality(S) <= n
      BY DEF FinSets
    <3>2. IsFiniteSet(s) /\ Cardinality(s) <= Cardinality(S)
      BY <3>1, FS_Subset
    <3>3. Cardinality(s) \in Nat /\ Cardinality(S) \in Nat
      BY <3>1, <3>2, FS_CardinalityType
    <3>4. Cardinality(s) <= n
      BY <3>1, <3>2, <3>3
    <3> QED
      BY <3>1, <3>2, <3>4 DEF FinSets
  <2> QED
    BY <2>1 DEF Recurs
<1>3. Recurs(f, h, SUBSET S)
  BY <1>2
<1> HIDE DEF h
<1> QED
  BY <1>1, <1>3, SumUnique

\* The sum over a finite set, with the element that the fold adds first taken out.
LEMMA SumFirst ==
  ASSUME NEW D, NEW f \in [D -> Nat], NEW S \in SUBSET D, IsFiniteSet(S)
  PROVE  /\ SumFunctionOnSet(f, S) \in Nat
         /\ S = {} => SumFunctionOnSet(f, S) = 0
         /\ S # {} => SumFunctionOnSet(f, S) = f[Pick(S)] + SumFunctionOnSet(f, Rest(S))
<1> DEFINE n == Cardinality(S)
<1>1. n \in Nat /\ S \in FinSets(D, n)
  BY FS_CardinalityType DEF FinSets
<1> HIDE DEF n
<1>2. PICK g \in [FinSets(D, n) -> Nat] : Recurs(f, g, FinSets(D, n))
  BY <1>1, SumExists
<1>3. SumFunctionOnSet(f, S) = g[S]
  BY <1>1, <1>2, SumIsRecursive
<1>4. ASSUME S # {}
      PROVE  SumFunctionOnSet(f, Rest(S)) = g[Rest(S)]
  <2>1. IsFiniteSet(Rest(S)) /\ Cardinality(Rest(S)) <= n /\ Rest(S) \in SUBSET D
    <3>1. Rest(S) \in SUBSET S
      BY DEF Rest
    <3> QED
      BY <3>1, FS_Subset DEF n
  <2>2. Rest(S) \in FinSets(D, n)
    BY <2>1 DEF FinSets
  <2> QED
    BY <1>1, <1>2, <2>2, SumIsRecursive
<1> QED
  BY <1>1, <1>2, <1>3, <1>4 DEF Recurs

\* A sum over a finite set is a natural number.
LEMMA SumType ==
  ASSUME NEW D, NEW f \in [D -> Nat], NEW S \in SUBSET D, IsFiniteSet(S)
  PROVE  SumFunctionOnSet(f, S) \in Nat
BY SumFirst

\* The empty sum.
LEMMA SumEmpty ==
  ASSUME NEW D, NEW f \in [D -> Nat]
  PROVE  SumFunctionOnSet(f, {}) = 0
<1>1. {} \in SUBSET D /\ IsFiniteSet({})
  BY FS_EmptySet
<1> QED
  BY <1>1, SumFirst

\* Any element may be added last, whatever the order in which the fold takes them.
LEMMA SumRemove ==
  ASSUME NEW D, NEW f \in [D -> Nat], NEW S \in SUBSET D, IsFiniteSet(S), NEW x \in S
  PROVE  SumFunctionOnSet(f, S) = f[x] + SumFunctionOnSet(f, S \ {x})
<1> DEFINE sum(T) == SumFunctionOnSet(f, T)
           Wrong(m) == \E T \in SUBSET D : /\ IsFiniteSet(T) /\ Cardinality(T) = m
                                           /\ \E y \in T : sum(T) # f[y] + sum(T \ {y})
           Bad == {m \in Nat : Wrong(m)}
<1>1. ASSUME NEW T \in SUBSET D, IsFiniteSet(T), NEW y \in T
      PROVE  /\ T \ {y} \in SUBSET D /\ IsFiniteSet(T \ {y})
             /\ Cardinality(T) \in Nat \ {0} /\ Cardinality(T \ {y}) = Cardinality(T) - 1
  <2>1. IsFiniteSet(T \ {y}) /\ Cardinality(T \ {y}) = Cardinality(T) - 1
    BY <1>1, FS_RemoveElement
  <2>2. Cardinality(T) \in Nat /\ Cardinality(T) # 0
    BY <1>1, FS_CardinalityType, FS_EmptySet
  <2> QED
    BY <2>1, <2>2
<1> SUFFICES ASSUME Bad # {}
             PROVE  FALSE
  <2>1. Cardinality(S) \in Nat
    BY FS_CardinalityType
  <2>2. sum(S) # f[x] + sum(S \ {x}) => Cardinality(S) \in Bad
    BY <2>1
  <2> QED
    BY <2>2
<1> DEFINE m == Min(Bad)
<1>2. m \in Bad /\ \A y \in Bad : m <= y
  <2>1. Bad \in SUBSET Nat
    OBVIOUS
  <2> HIDE DEF Bad
  <2> QED
    BY <2>1, LeastNatural
<1> HIDE DEF m
<1>3. PICK T \in SUBSET D : /\ IsFiniteSet(T) /\ Cardinality(T) = m
                            /\ \E y \in T : sum(T) # f[y] + sum(T \ {y})
  BY <1>2
<1>4. PICK y \in T : sum(T) # f[y] + sum(T \ {y})
  BY <1>3
<1>5. m - 1 \in Nat /\ m - 1 \notin Bad
  <2>1. m \in Nat \ {0}
    BY <1>1, <1>3
  <2>2. m - 1 \in Nat /\ ~(m <= m - 1)
    BY <2>1
  <2> QED
    BY <1>2, <2>2
<1>6. ASSUME NEW z \in T, NEW w \in T \ {z}
      PROVE  sum(T \ {z}) = f[w] + sum((T \ {z}) \ {w})
  <2>1. T \ {z} \in SUBSET D /\ IsFiniteSet(T \ {z}) /\ Cardinality(T \ {z}) = m - 1
    BY <1>1, <1>3
  <2> QED
    BY <1>5, <2>1
<1> HIDE DEF Bad, sum
<1> DEFINE p == Pick(T)
<1>7. p \in T /\ sum(T) = f[p] + sum(T \ {p})
  <2>1. sum(T) = f[Pick(T)] + sum(Rest(T))
    BY <1>3, <1>4, SumFirst DEF sum
  <2> QED
    BY <1>4, <2>1 DEF Pick, Rest
<1> HIDE DEF p
<1>8. p # y
  BY <1>4, <1>7
<1>9. sum(T \ {p}) = f[y] + sum((T \ {p}) \ {y})
  BY <1>6, <1>7, <1>8
<1>10. sum(T \ {y}) = f[p] + sum((T \ {y}) \ {p})
  BY <1>6, <1>7, <1>8
<1>11. (T \ {p}) \ {y} = (T \ {y}) \ {p}
  OBVIOUS
<1>12. f[y] \in Nat /\ f[p] \in Nat
  BY <1>7
<1>13. sum((T \ {y}) \ {p}) \in Nat
  <2>1. IsFiniteSet(T \ {y}) /\ T \ {y} \in SUBSET D
    BY <1>1, <1>3
  <2>2. IsFiniteSet((T \ {y}) \ {p}) /\ (T \ {y}) \ {p} \in SUBSET D
    BY <2>1, FS_RemoveElement
  <2> QED
    BY <2>2, SumType DEF sum
<1> DEFINE rest == sum((T \ {y}) \ {p})
<1>14. sum(T \ {p}) = f[y] + rest /\ sum(T \ {y}) = f[p] + rest /\ rest \in Nat
  BY <1>9, <1>10, <1>11, <1>13
<1> HIDE DEF rest
<1>15. sum(T) = f[p] + (f[y] + rest) /\ sum(T) # f[y] + (f[p] + rest)
  BY <1>4, <1>7, <1>14, Zenon
<1> QED
  BY <1>12, <1>14, <1>15

\* A new element adds its value.
LEMMA SumAdd ==
  ASSUME NEW D, NEW f \in [D -> Nat], NEW S \in SUBSET D, IsFiniteSet(S),
         NEW x \in D, x \notin S
  PROVE  SumFunctionOnSet(f, S \cup {x}) = f[x] + SumFunctionOnSet(f, S)
<1> DEFINE T == S \cup {x}
<1>1. T \in SUBSET D /\ IsFiniteSet(T) /\ x \in T
  BY FS_AddElement
<1>2. T \ {x} = S
  OBVIOUS
<1> HIDE DEF T
<1>3. SumFunctionOnSet(f, T) = f[x] + SumFunctionOnSet(f, T \ {x})
  BY <1>1, SumRemove
<1> QED
  BY <1>2, <1>3 DEF T

\* The sum over disjoint sets is the sum of their sums.
LEMMA SumUnion ==
  ASSUME NEW D, NEW f \in [D -> Nat], NEW S \in SUBSET D, IsFiniteSet(S),
         NEW T \in SUBSET D, IsFiniteSet(T), S \cap T = {}
  PROVE  SumFunctionOnSet(f, S \cup T) = SumFunctionOnSet(f, S) + SumFunctionOnSet(f, T)
<1> DEFINE sum(U) == SumFunctionOnSet(f, U)
           Wrong(m) == \E U \in SUBSET D : /\ IsFiniteSet(U) /\ S \cap U = {}
                                           /\ Cardinality(U) = m
                                           /\ sum(S \cup U) # sum(S) + sum(U)
           Bad == {m \in Nat : Wrong(m)}
<1> SUFFICES ASSUME Bad # {}
             PROVE  FALSE
  <2>1. Cardinality(T) \in Nat
    BY FS_CardinalityType
  <2>2. sum(S \cup T) # sum(S) + sum(T) => Cardinality(T) \in Bad
    BY <2>1
  <2> QED
    BY <2>2
<1> DEFINE m == Min(Bad)
<1>1. m \in Bad /\ \A y \in Bad : m <= y
  <2>1. Bad \in SUBSET Nat
    OBVIOUS
  <2> HIDE DEF Bad
  <2> QED
    BY <2>1, LeastNatural
<1> HIDE DEF m
<1>2. PICK U \in SUBSET D : /\ IsFiniteSet(U) /\ S \cap U = {} /\ Cardinality(U) = m
                            /\ sum(S \cup U) # sum(S) + sum(U)
  BY <1>1
<1>3. sum(S) \in Nat
  BY SumType
<1>4. CASE U = {}
  <2>1. sum(U) = 0 /\ S \cup U = S
    BY <1>4, SumEmpty
  <2> HIDE DEF sum
  <2>2. sum(S \cup U) = sum(S)
    BY <2>1
  <2> QED
    BY <1>2, <1>3, <2>1, <2>2
<1>5. CASE U # {}
  <2>1. PICK x \in U : TRUE
    BY <1>5
  <2> DEFINE V == U \ {x}
  <2>2. IsFiniteSet(V) /\ V \in SUBSET D /\ S \cap V = {} /\ Cardinality(V) = m - 1
    BY <1>2, FS_RemoveElement
  <2>3. m - 1 \in Nat /\ ~(m <= m - 1)
    BY <1>1, <2>2, FS_CardinalityType
  <2>4. sum(S \cup V) = sum(S) + sum(V)
    <3>1. m - 1 \notin Bad
      BY <1>1, <2>3
    <3> QED
      BY <2>2, <2>3, <3>1
  <2>5. U = V \cup {x} /\ S \cup U = (S \cup V) \cup {x} /\ x \notin V /\ x \notin S \cup V
    BY <1>2, <2>1
  <2> HIDE DEF V
  <2>6. IsFiniteSet(S \cup V) /\ S \cup V \in SUBSET D /\ x \in D
    BY <2>2, FS_Union
  <2>7. sum(V \cup {x}) = f[x] + sum(V) /\ sum(V) \in Nat
    BY <2>2, <2>5, <2>6, SumAdd, SumType
  <2>8. sum((S \cup V) \cup {x}) = f[x] + sum(S \cup V)
    <3> DEFINE W == S \cup V
    <3>1. IsFiniteSet(W) /\ W \in SUBSET D /\ x \in D /\ x \notin W
      BY <2>5, <2>6
    <3> HIDE DEF W
    <3>2. sum(W \cup {x}) = f[x] + sum(W)
      BY <3>1, SumAdd
    <3> QED
      BY <3>2 DEF W
  <2> HIDE DEF sum
  <2>9. sum(U) = f[x] + sum(V) /\ sum(S \cup U) = f[x] + sum(S \cup V)
    BY <2>5, <2>7, <2>8, Zenon
  <2>10. f[x] \in Nat
    BY <2>6
  <2>11. sum(S \cup U) # sum(S) + sum(U)
    BY <1>2
  <2> QED
    BY <1>3, <2>4, <2>7, <2>9, <2>10, <2>11
<1> QED
  BY <1>4, <1>5

\* A sum grows with its set.
LEMMA SumMonotone ==
  ASSUME NEW D, NEW f \in [D -> Nat], NEW S \in SUBSET D, IsFiniteSet(S), NEW T \in SUBSET S
  PROVE  SumFunctionOnSet(f, T) <= SumFunctionOnSet(f, S)
<1> DEFINE R == S \ T
<1>1. IsFiniteSet(T) /\ IsFiniteSet(R) /\ T \in SUBSET D /\ R \in SUBSET D /\ T \cap R = {}
  BY FS_Subset
<1>2. S = T \cup R
  OBVIOUS
<1> HIDE DEF R
<1>3. SumFunctionOnSet(f, T \cup R) = SumFunctionOnSet(f, T) + SumFunctionOnSet(f, R)
  BY <1>1, SumUnion
<1>4. SumFunctionOnSet(f, T) \in Nat /\ SumFunctionOnSet(f, R) \in Nat
  BY <1>1, SumType
<1>5. SumFunctionOnSet(f, S) = SumFunctionOnSet(f, T) + SumFunctionOnSet(f, R)
  BY <1>2, <1>3
<1> QED
  BY <1>4, <1>5

\* The elements of a sequence are finitely many.
LEMMA ToSetFinite ==
  ASSUME NEW S, NEW s \in Seq(S)
  PROVE  IsFiniteSet(ToSet(s)) /\ ToSet(s) \subseteq S
<1>1. IsFiniteSet(1 .. Len(s))
  BY FS_Interval
<1>2. s \in Surjection(1 .. Len(s), ToSet(s))
  BY DEF Surjection, ToSet
<1>3. IsFiniteSet(ToSet(s))
  BY <1>1, <1>2, FS_Surjection
<1> QED
  BY <1>3 DEF ToSet

\* h numbers the terms f has on S, a part of D, as those g has on T, a part of E.
Renumbers(h, f, D, S, g, E, T) ==
  /\ f \in [D -> Nat] /\ S \subseteq D /\ IsFiniteSet(S)
  /\ g \in [E -> Nat] /\ T \subseteq E
  /\ h \in [S -> T]
  /\ \A x, y \in S : h[x] = h[y] => x = y
  /\ \A y \in T : \E x \in S : h[x] = y
  /\ \A x \in S : f[x] = g[h[x]]

\* A sum depends only on what is added, not on how its terms are numbered.
LEMMA SumReindex ==
  ASSUME NEW D, NEW f, NEW E, NEW g, NEW S, NEW T, NEW h,
         Renumbers(h, f, D, S, g, E, T)
  PROVE  SumFunctionOnSet(f, S) = SumFunctionOnSet(g, T)
<1> DEFINE image(U) == {h[x] : x \in U}
           sum(U) == SumFunctionOnSet(f, U)
           sumOf(U) == SumFunctionOnSet(g, image(U))
           Wrong(m) == \E U \in SUBSET S : Cardinality(U) = m /\ sum(U) # sumOf(U)
           Bad == {m \in Nat : Wrong(m)}
<1>0. /\ f \in [D -> Nat] /\ S \in SUBSET D /\ IsFiniteSet(S) /\ g \in [E -> Nat]
      /\ h \in [S -> E] /\ \A x, y \in S : h[x] = h[y] => x = y
      /\ \A x \in S : f[x] = g[h[x]]
  BY DEF Renumbers
<1>1. ASSUME NEW U \in SUBSET S
      PROVE  /\ IsFiniteSet(U) /\ Cardinality(U) \in Nat /\ U \in SUBSET D
             /\ IsFiniteSet(image(U)) /\ image(U) \in SUBSET E
  <2>1. IsFiniteSet(U) /\ Cardinality(U) \in Nat
    BY <1>0, FS_Subset, FS_CardinalityType
  <2>2. IsFiniteSet(image(U))
    <3> DEFINE k == [x \in U |-> h[x]]
    <3>1. k \in Surjection(U, image(U))
      BY DEF Surjection
    <3> QED
      BY <2>1, <3>1, FS_Surjection
  <2> QED
    BY <1>0, <2>1, <2>2
<1> SUFFICES ASSUME Bad # {}
             PROVE  FALSE
  <2>1. sum(S) # sumOf(S) => Cardinality(S) \in Bad
    BY <1>1
  <2>2. image(S) = T
    BY DEF Renumbers
  <2> HIDE DEF image
  <2>3. SumFunctionOnSet(g, image(S)) = SumFunctionOnSet(g, T)
    BY <2>2, Zenon
  <2> QED
    BY <2>1, <2>3
<1> DEFINE m == Min(Bad)
<1>2. m \in Bad /\ \A y \in Bad : m <= y
  <2>1. Bad \in SUBSET Nat
    OBVIOUS
  <2> HIDE DEF Bad
  <2> QED
    BY <2>1, LeastNatural
<1> HIDE DEF m
<1>3. PICK U \in SUBSET S : Cardinality(U) = m /\ sum(U) # sumOf(U)
  BY <1>2
<1>4. CASE U = {}
  <2>1. image(U) = {}
    BY <1>4
  <2>2. sum({}) = 0 /\ SumFunctionOnSet(g, {}) = 0
    BY <1>0, SumEmpty
  <2> QED
    BY <1>3, <1>4, <2>1, <2>2
<1>5. CASE U # {}
  <2>1. PICK x \in U : TRUE
    BY <1>5
  <2> DEFINE V == U \ {x}
  <2>2. V \in SUBSET S /\ Cardinality(V) = m - 1
    BY <1>1, <1>3, FS_RemoveElement
  <2>3. m - 1 \in Nat /\ ~(m <= m - 1)
    <3>1. Cardinality(V) \in Nat
      BY <2>2, <1>1
    <3>2. m \in Nat
      BY <1>2
    <3> QED
      BY <2>2, <3>1, <3>2
  <2>4. sum(V) = sumOf(V)
    <3>1. m - 1 \notin Bad
      BY <1>2, <2>3
    <3> QED
      BY <2>2, <2>3, <3>1
  <2>5. h[x] \in image(U) /\ image(U) \ {h[x]} = image(V)
    BY <1>0
  <2>6. sum(U) = f[x] + sum(V)
    <3>1. IsFiniteSet(U) /\ U \in SUBSET D
      BY <1>1
    <3> QED
      BY <1>0, <2>1, <3>1, SumRemove
  <2>7. sumOf(U) = g[h[x]] + SumFunctionOnSet(g, image(U) \ {h[x]})
    <3> DEFINE I == image(U)
    <3>1. IsFiniteSet(I) /\ I \in SUBSET E /\ h[x] \in I
      BY <1>1, <2>5
    <3> HIDE DEF I
    <3>2. SumFunctionOnSet(g, I) = g[h[x]] + SumFunctionOnSet(g, I \ {h[x]})
      BY <1>0, <3>1, SumRemove
    <3> QED
      BY <3>2 DEF I
  <2>8. sumOf(U) = g[h[x]] + sumOf(V)
    BY <2>5, <2>7
  <2> QED
    BY <1>0, <1>3, <2>4, <2>6, <2>8
<1> QED
  BY <1>4, <1>5

-----------------------------------------------------------------------------
(* Sums of sequences of numbers.                                           *)

SumOf(s) == SumFunctionOnSet(s, 1 .. Len(s))

\* A sequence is a function on a finite set.
LEMMA SeqIsFunction ==
  ASSUME NEW s \in Seq(Nat)
  PROVE  s \in [1 .. Len(s) -> Nat] /\ IsFiniteSet(1 .. Len(s)) /\ Len(s) \in Nat
<1>1. IsFiniteSet(1 .. Len(s))
  BY FS_Interval
<1> QED
  BY <1>1

\* The sum of a sequence is a number.
LEMMA SumOfType ==
  ASSUME NEW s \in Seq(Nat)
  PROVE  SumOf(s) \in Nat
<1>1. s \in [1 .. Len(s) -> Nat] /\ IsFiniteSet(1 .. Len(s))
  BY SeqIsFunction
<1> QED
  BY <1>1, SumType DEF SumOf

\* An appended number is added.
LEMMA SumOfAppend ==
  ASSUME NEW s \in Seq(Nat), NEW n \in Nat
  PROVE  SumOf(Append(s, n)) = SumOf(s) + n
<1> DEFINE t == Append(s, n)
           I == 1 .. Len(s)
           k == Len(s) + 1
<1>1. /\ t \in Seq(Nat) /\ Len(t) = k /\ t[k] = n
      /\ \A i \in I : t[i] = s[i]
  OBVIOUS
<1>2. s \in [I -> Nat] /\ t \in [1 .. k -> Nat] /\ IsFiniteSet(I) /\ Len(s) \in Nat
  BY <1>1, SeqIsFunction
<1> HIDE DEF t
<1>3. I \in SUBSET (1 .. k) /\ k \in 1 .. k /\ k \notin I /\ I \cup {k} = 1 .. k
  BY <1>2
<1>4. SumFunctionOnSet(t, I \cup {k}) = t[k] + SumFunctionOnSet(t, I)
  BY <1>2, <1>3, SumAdd
<1>5. SumFunctionOnSet(t, I) = SumFunctionOnSet(s, I)
  <2> DEFINE h == [i \in I |-> i]
  <2>1. Renumbers(h, t, 1 .. k, I, s, I, I)
    BY <1>1, <1>2, <1>3 DEF Renumbers
  <2> HIDE DEF I, k, h
  <2> QED
    BY <2>1, SumReindex
<1>6. SumFunctionOnSet(s, I) \in Nat
  BY <1>2, SumType
<1> QED
  <2>1. SumOf(Append(s, n)) = SumFunctionOnSet(t, 1 .. k)
    BY <1>1 DEF SumOf, t
  <2>2. SumOf(s) = SumFunctionOnSet(s, I)
    BY DEF SumOf
  <2> HIDE DEF I, k
  <2>3. SumFunctionOnSet(t, 1 .. k) = SumFunctionOnSet(t, I \cup {k})
    BY <1>3, Zenon
  <2>4. t[k] = n
    BY <1>1
  <2> QED
    BY <1>4, <1>5, <1>6, <2>1, <2>2, <2>3, <2>4

\* What lies behind position k adds up to what is left when the first k are gone.
LEMMA SumOfRest ==
  ASSUME NEW s \in Seq(Nat), NEW t \in Seq(Nat), NEW k \in 0 .. Len(s),
         Len(t) = Len(s) - k, \A i \in 1 .. Len(t) : t[i] = s[i + k]
  PROVE  SumOf(t) = SumFunctionOnSet(s, (k + 1) .. Len(s))
<1> DEFINE I == 1 .. Len(t)
           J == 1 .. Len(s)
           K == (k + 1) .. Len(s)
           h == [i \in I |-> i + k]
<1>1. /\ s \in [J -> Nat] /\ t \in [I -> Nat] /\ IsFiniteSet(I)
      /\ Len(s) \in Nat /\ Len(t) \in Nat
  BY SeqIsFunction
<1>2. k \in Int /\ \A i \in I : h[i] = i + k /\ i + k \in K /\ i \in Int
  BY <1>1
<1>3. \A j \in K : j - k \in I /\ j = (j - k) + k
  BY <1>1
<1>4. K \in SUBSET J 
  BY <1>1
<1>5. Renumbers(h, t, I, I, s, J, K)
  <2>1. h \in [I -> K]
    BY <1>2
  <2>2. \A x, y \in I : x + k = y + k => x = y
    BY <1>2
  <2>3. \A j \in K : h[j - k] = j /\ j - k \in I
    BY <1>2, <1>3
  <2>4. \A i \in I : t[i] = s[h[i]]
    BY <1>2
  <2> HIDE DEF h, I, J, K
  <2> QED
    BY <1>1, <1>2, <1>4, <2>1, <2>2, <2>3, <2>4 DEF Renumbers
<1>7. SumFunctionOnSet(t, I) = SumFunctionOnSet(s, K)
  <2> HIDE DEF I, J, K, h
  <2> QED
    BY <1>5, SumReindex
<1>6. SumOf(t) = SumFunctionOnSet(t, I)
  BY DEF SumOf, I
<1> QED
  BY <1>6, <1>7 DEF K

\* The head is taken off the sum with the tail left.
LEMMA SumOfTail ==
  ASSUME NEW s \in Seq(Nat), s # <<>>
  PROVE  SumOf(s) = Head(s) + SumOf(Tail(s))
<1> DEFINE J == 1 .. Len(s)
<1>1. /\ Tail(s) \in Seq(Nat) /\ Len(Tail(s)) = Len(s) - 1 /\ Head(s) = s[1]
      /\ Len(s) \in Nat \ {0} /\ 1 \in 0 .. Len(s)
      /\ \A i \in 1 .. Len(Tail(s)) : Tail(s)[i] = s[i + 1]
  OBVIOUS
<1>2. s \in [J -> Nat] /\ IsFiniteSet(J)
  BY SeqIsFunction
<1>3. 1 \in J /\ J \ {1} = (1 + 1) .. Len(s)
  BY <1>1
<1>4. SumOf(Tail(s)) = SumFunctionOnSet(s, (1 + 1) .. Len(s))
  BY <1>1, SumOfRest
<1> HIDE DEF J
<1>5. SumFunctionOnSet(s, J) = s[1] + SumFunctionOnSet(s, J \ {1})
  BY <1>2, <1>3, SumRemove
<1> QED
  BY <1>1, <1>3, <1>4, <1>5 DEF SumOf, J

\* What is left when the first k are gone is no more than all.
LEMMA SumOfSuffix ==
  ASSUME NEW s \in Seq(Nat), NEW k \in 0 .. Len(s)
  PROVE  SumOf(SubSeq(s, k + 1, Len(s))) <= SumOf(s)
<1> DEFINE t == SubSeq(s, k + 1, Len(s))
           J == 1 .. Len(s)
           K == (k + 1) .. Len(s)
<1>1. t \in Seq(Nat) /\ Len(t) = Len(s) - k /\ \A i \in 1 .. Len(t) : t[i] = s[i + k]
  OBVIOUS
<1> HIDE DEF t
<1>2. SumOf(t) = SumFunctionOnSet(s, K)
  BY <1>1, SumOfRest
<1>3. s \in [J -> Nat] /\ IsFiniteSet(J) /\ K \in SUBSET J /\ J \in SUBSET J
  BY SeqIsFunction
<1> HIDE DEF J, K
<1>4. SumFunctionOnSet(s, K) <= SumFunctionOnSet(s, J)
  BY <1>3, SumMonotone
<1> QED
  BY <1>2, <1>4 DEF SumOf, J, t
===============================================================================
