--------------------------- MODULE SequenceFacts ----------------------------
(***************************************************************************)
(* Facts about numbers, sequences, the sets of their elements, sums over   *)
(* finite sets and joined sequences that the proofs of the components      *)
(* share.  A sum, or a join, is a recursive function of the library; that  *)
(* the function exists and what it is equal to are shown by taking the     *)
(* least argument for which it is not so.  Recursion and SetInduction do   *)
(* the same for functions and sets of any set of naturals.                 *)
(***************************************************************************)
EXTENDS Integers, SequencesExt, SequenceTheorems, FiniteSetTheorems,
        WellFoundedInduction, TLAPS

\* A set of naturals that is not empty has a least element.
LEMMA Least ==
  ASSUME NEW S, S \subseteq Nat, S # {}
  PROVE  \E x \in S : \A y \in S : x <= y
<1>1. PICK x \in S : \A y \in S : ~(<<y, x>> \in OpToRel(<, Nat))
  BY NatLessThanWellFounded, WFMin
<1>2. \A y \in S : ~(y < x)
  BY <1>1 DEF OpToRel
<1> QED BY <1>2

\* ToSet of a concatenation.
LEMMA ToSetConcat ==
  ASSUME NEW S, NEW s \in Seq(S), NEW t \in Seq(S)
  PROVE  ToSet(s \o t) = ToSet(s) \cup ToSet(t)
<1>1. /\ s \o t \in Seq(S) /\ Len(s \o t) = Len(s) + Len(t)
      /\ Len(s) \in Nat /\ Len(t) \in Nat
      /\ DOMAIN s = 1 .. Len(s) /\ DOMAIN t = 1 .. Len(t)
      /\ DOMAIN (s \o t) = 1 .. Len(s) + Len(t)
  BY ConcatProperties, LenProperties
<1>2. \A i \in 1 .. Len(s) + Len(t) :
        (s \o t)[i] = IF i <= Len(s) THEN s[i] ELSE t[i - Len(s)]
  BY ConcatProperties
<1>3. ToSet(s \o t) \subseteq ToSet(s) \cup ToSet(t)
  <2>1. ASSUME NEW i \in 1 .. Len(s) + Len(t)
        PROVE  (s \o t)[i] \in ToSet(s) \cup ToSet(t)
    <3>1. CASE i <= Len(s)
      BY <1>1, <1>2, <3>1 DEF ToSet
    <3>2. CASE ~(i <= Len(s))
      <4>1. i - Len(s) \in DOMAIN t /\ (s \o t)[i] = t[i - Len(s)]
        BY <1>1, <1>2, <3>2
      <4> QED BY <4>1 DEF ToSet
    <3> QED BY <3>1, <3>2
  <2> QED BY <1>1, <2>1 DEF ToSet
<1>4. ToSet(s) \subseteq ToSet(s \o t)
  <2>1. ASSUME NEW i \in DOMAIN s PROVE i \in DOMAIN (s \o t) /\ s[i] = (s \o t)[i]
    BY <1>1, <1>2
  <2> QED BY <2>1 DEF ToSet
<1>5. ToSet(t) \subseteq ToSet(s \o t)
  <2>1. ASSUME NEW i \in DOMAIN t
        PROVE  i + Len(s) \in DOMAIN (s \o t) /\ t[i] = (s \o t)[i + Len(s)]
    BY <1>1, <1>2
  <2> QED BY <2>1 DEF ToSet
<1> QED BY <1>3, <1>4, <1>5

\* ToSet of the empty sequence, and of a sequence over S.
LEMMA ToSetEmpty == ToSet(<<>>) = {}
  BY DEF ToSet

LEMMA ToSetType ==
  ASSUME NEW S, NEW s \in Seq(S)
  PROVE  ToSet(s) \subseteq S
  BY DEF ToSet

\* The rest of a log, when the log grows.
LEMMA SuffixGrows ==
  ASSUME NEW S, NEW s \in Seq(S), NEW t \in Seq(S), NEW n \in 0 .. Len(s)
  PROVE  SubSeq(s \o t, n + 1, Len(s \o t)) = SubSeq(s, n + 1, Len(s)) \o t
<1>1. /\ s \o t \in Seq(S) /\ Len(s \o t) = Len(s) + Len(t)
      /\ Len(s) \in Nat /\ Len(t) \in Nat
      /\ \A i \in 1 .. Len(s) + Len(t) :
           (s \o t)[i] = IF i <= Len(s) THEN s[i] ELSE t[i - Len(s)]
  BY ConcatProperties, LenProperties
<1> DEFINE a == SubSeq(s \o t, n + 1, Len(s) + Len(t))
           b == SubSeq(s, n + 1, Len(s))
<1>2. /\ a \in Seq(S) /\ Len(a) = Len(s) + Len(t) - n
      /\ \A i \in 1 .. Len(s) + Len(t) - n : a[i] = (s \o t)[n + i]
  <2>1. \A i \in n + 1 .. Len(s) + Len(t) : (s \o t)[i] \in S
    BY <1>1, ElementOfSeq
  <2> QED BY <1>1, <2>1, SubSeqProperties
<1>3. /\ b \in Seq(S) /\ Len(b) = Len(s) - n
      /\ \A i \in 1 .. Len(s) - n : b[i] = s[n + i]
  <2>1. \A i \in n + 1 .. Len(s) : s[i] \in S
    BY <1>1, ElementOfSeq
  <2> QED BY <1>1, <2>1, SubSeqProperties
<1> HIDE DEF a, b
<1>4. /\ b \o t \in Seq(S) /\ Len(b \o t) = Len(s) - n + Len(t)
      /\ \A i \in 1 .. Len(s) - n + Len(t) :
           (b \o t)[i] = IF i <= Len(s) - n THEN b[i] ELSE t[i - (Len(s) - n)]
  <2>1. /\ b \o t \in Seq(S) /\ Len(b \o t) = Len(b) + Len(t)
        /\ \A i \in 1 .. Len(b) + Len(t) :
             (b \o t)[i] = IF i <= Len(b) THEN b[i] ELSE t[i - Len(b)]
    BY <1>3, ConcatProperties
  <2> QED BY <1>1, <1>3, <2>1
<1>5. ASSUME NEW i \in 1 .. Len(a) PROVE a[i] = (b \o t)[i]
  <2>1. a[i] = (s \o t)[n + i] /\ n + i \in 1 .. Len(s) + Len(t)
    BY <1>1, <1>2
  <2>2. CASE i <= Len(s) - n
    <3>1. a[i] = s[n + i]
      BY <1>1, <2>1, <2>2
    <3>2. (b \o t)[i] = s[n + i]
      BY <1>1, <1>2, <1>3, <1>4, <2>2
    <3> QED BY <3>1, <3>2
  <2>3. CASE ~(i <= Len(s) - n)
    <3>1. a[i] = t[n + i - Len(s)]
      BY <1>1, <2>1, <2>3
    <3>2. (b \o t)[i] = t[i - (Len(s) - n)] /\ i - (Len(s) - n) = n + i - Len(s)
      BY <1>1, <1>2, <1>3, <1>4, <2>3
    <3> QED BY <3>1, <3>2
  <2> QED BY <2>2, <2>3
<1>6. Len(a) = Len(b \o t)
  BY <1>1, <1>2, <1>4
<1>7. a = b \o t
  BY <1>2, <1>4, <1>5, <1>6, SeqEqual
<1> QED BY <1>1, <1>7 DEF a, b

\* The sequence without its element at i.
LEMMA RemoveFacts ==
  ASSUME NEW S, NEW s \in Seq(S), NEW i \in 1 .. Len(s)
  PROVE  /\ RemoveAt(s, i) \in Seq(S) /\ Len(RemoveAt(s, i)) = Len(s) - 1
         /\ \A k \in 1 .. Len(s) - 1 :
              RemoveAt(s, i)[k] = IF k < i THEN s[k] ELSE s[k + 1]
<1> DEFINE a == SubSeq(s, 1, i - 1)
           b == SubSeq(s, i + 1, Len(s))
<1>1. Len(s) \in Nat /\ \A k \in 1 .. Len(s) : s[k] \in S
  BY LenProperties, ElementOfSeq
<1>2. /\ a \in Seq(S) /\ Len(a) = i - 1
      /\ \A k \in 1 .. i - 1 : a[k] = s[k]
  <2>1. \A k \in 1 .. i - 1 : s[k] \in S
    BY <1>1
  <2> QED BY <1>1, <2>1, SubSeqProperties
<1>3. /\ b \in Seq(S) /\ Len(b) = Len(s) - i
      /\ \A k \in 1 .. Len(s) - i : b[k] = s[i + k]
  <2>1. \A k \in i + 1 .. Len(s) : s[k] \in S
    BY <1>1
  <2> QED BY <1>1, <2>1, SubSeqProperties
<1> HIDE DEF a, b
<1>4. /\ a \o b \in Seq(S) /\ Len(a \o b) = Len(s) - 1
      /\ \A k \in 1 .. Len(s) - 1 :
           (a \o b)[k] = IF k <= i - 1 THEN a[k] ELSE b[k - (i - 1)]
  <2>1. /\ a \o b \in Seq(S) /\ Len(a \o b) = Len(a) + Len(b)
        /\ \A k \in 1 .. Len(a) + Len(b) :
             (a \o b)[k] = IF k <= Len(a) THEN a[k] ELSE b[k - Len(a)]
    BY <1>2, <1>3, ConcatProperties
  <2>2. Len(a) + Len(b) = Len(s) - 1
    BY <1>1, <1>2, <1>3
  <2> QED BY <1>2, <2>1, <2>2
<1>5. ASSUME NEW k \in 1 .. Len(s) - 1
      PROVE  (a \o b)[k] = IF k < i THEN s[k] ELSE s[k + 1]
  <2>1. CASE k < i
    BY <1>1, <1>2, <1>4, <2>1
  <2>2. CASE ~(k < i)
    <3>1. k - (i - 1) \in 1 .. Len(s) - i /\ i + (k - (i - 1)) = k + 1
      BY <1>1, <2>2
    <3>2. (a \o b)[k] = b[k - (i - 1)]
      BY <1>1, <1>4, <2>2
    <3> QED BY <1>3, <2>2, <3>1, <3>2
  <2> QED BY <2>1, <2>2
<1>6. RemoveAt(s, i) = a \o b
  BY DEF RemoveAt, a, b
<1> QED BY <1>4, <1>5, <1>6

\* The events of the cache file of the previous run, in some order.
LEMMA SetToSeqType ==
  ASSUME NEW S, IsFiniteSet(S)
  PROVE  SetToSeq(S) \in Seq(S)
<1>1. Cardinality(S) \in Nat /\ ExistsBijection(1 .. Cardinality(S), S)
  BY FS_CardinalityType
<1>2. \E f \in [1 .. Cardinality(S) -> S] : IsInjective(f)
  BY <1>1 DEF ExistsBijection, Bijection, Injection, IsInjective
<1>3. SetToSeq(S) \in [1 .. Cardinality(S) -> S]
  BY <1>2 DEF SetToSeq
<1> QED BY <1>1, <1>3

-----------------------------------------------------------------------------
(* Sums and joined sequences *)

\* g is the function that SumFunctionOnSet defines by recursion.
Pick(s) == CHOOSE x \in s : TRUE

Summing(f, S, g) ==
  g = [s \in SUBSET S |-> IF s = {} THEN 0 ELSE f[Pick(s)] + g[s \ {Pick(s)}]]

LEMMA SumUnfold ==
  ASSUME NEW f, NEW S
  PROVE  SumFunctionOnSet(f, S) = (CHOOSE g : Summing(f, S, g))[S]
  BY DEF SumFunctionOnSet, FoldFunctionOnSet, MapThenFoldSet, Summing, Pick

\* A finite set without the element that is picked.
LEMMA PickFacts ==
  ASSUME NEW S, IsFiniteSet(S), NEW s \in SUBSET S
  PROVE  /\ IsFiniteSet(s) /\ Cardinality(s) \in Nat
         /\ Cardinality(s) = 0 <=> s = {}
         /\ \A x \in s : /\ s \ {x} \in SUBSET S
                         /\ Cardinality(s \ {x}) = Cardinality(s) - 1
         /\ s # {} => Pick(s) \in s
<1>1. IsFiniteSet(s) /\ Cardinality(s) \in Nat
  BY FS_Subset, FS_CardinalityType
<1>2. Cardinality(s) = 0 <=> s = {}
  BY <1>1, FS_EmptySet
<1>3. \A x \in s : Cardinality(s \ {x}) = Cardinality(s) - 1
  BY <1>1, FS_RemoveElement
<1> QED BY <1>1, <1>2, <1>3 DEF Pick

LEMMA SummingExists ==
  ASSUME NEW S, IsFiniteSet(S), NEW f
  PROVE  \E g : Summing(f, S, g)
<1> DEFINE Next(g, s) == IF s = {} THEN 0 ELSE f[Pick(s)] + g[s \ {Pick(s)}]
           Up(g, n) == \A s \in SUBSET S : Cardinality(s) <= n => g[s] = Next(g, s)
           Bad == {n \in Nat : ~\E g : Up(g, n)}
<1>1. Bad = {}
  <2> SUFFICES ASSUME Bad # {} PROVE FALSE
    OBVIOUS
  <2>1. PICK n \in Bad : \A m \in Bad : n <= m
    <3>1. Bad \subseteq Nat
      OBVIOUS
    <3> HIDE DEF Bad
    <3> QED BY <3>1, Least
  <2>2. n \in Nat /\ ~\E g : Up(g, n)
    BY <2>1
  <2>3. CASE n = 0
    <3> DEFINE g == [s \in SUBSET S |-> 0]
    <3>1. ASSUME NEW s \in SUBSET S, Cardinality(s) <= n PROVE g[s] = Next(g, s)
      <4>1. s = {}
        BY <2>3, <3>1, PickFacts
      <4> QED BY <4>1
    <3> QED BY <2>2, <3>1
  <2>4. CASE n # 0
    <3>1. n - 1 \in Nat /\ ~(n <= n - 1)
      BY <2>2, <2>4
    <3>2. n - 1 \notin Bad
      BY <2>1, <3>1
    <3>3. PICK g : Up(g, n - 1)
      BY <3>1, <3>2
    <3> DEFINE h == [s \in SUBSET S |-> IF Cardinality(s) < n THEN g[s] ELSE Next(g, s)]
    <3>4. ASSUME NEW s \in SUBSET S, Cardinality(s) <= n PROVE h[s] = Next(h, s)
      <4>1. Cardinality(s) \in Nat
        BY PickFacts
      <4>2. h[s] = Next(g, s)
        <5>1. CASE Cardinality(s) < n
          <6>1. Cardinality(s) <= n - 1
            BY <2>2, <4>1, <5>1
          <6>2. g[s] = Next(g, s)
            BY <3>3, <6>1
          <6> HIDE DEF Next
          <6> QED BY <5>1, <6>2
        <5>2. CASE ~(Cardinality(s) < n)
          <6> HIDE DEF Next
          <6> QED BY <5>2
        <5> QED BY <5>1, <5>2
      <4>3. Next(h, s) = Next(g, s)
        <5>1. CASE s = {}
          BY <5>1
        <5>2. CASE s # {}
          <6> DEFINE t == s \ {Pick(s)}
          <6>1. t \in SUBSET S /\ Cardinality(t) = Cardinality(s) - 1
            BY <5>2, PickFacts
          <6>2. Cardinality(t) < n
            BY <2>2, <3>4, <4>1, <6>1
          <6>3. h[t] = g[t]
            BY <6>1, <6>2
          <6> QED BY <5>2, <6>3
        <5> QED BY <5>1, <5>2
      <4> QED BY <4>2, <4>3
    <3> HIDE DEF h
    <3>5. Up(h, n)
      BY <3>4
    <3> QED BY <2>2, <3>5
  <2> QED BY <2>3, <2>4
<1>2. Cardinality(S) \in Nat /\ \A s \in SUBSET S : Cardinality(s) <= Cardinality(S)
  BY FS_CardinalityType, FS_Subset
<1>3. PICK g : Up(g, Cardinality(S))
  BY <1>1, <1>2
<1>4. \A s \in SUBSET S : g[s] = Next(g, s)
  BY <1>2, <1>3
<1> DEFINE h == [s \in SUBSET S |-> g[s]]
<1>5. ASSUME NEW s \in SUBSET S PROVE h[s] = Next(h, s)
  <2>1. h[s] = Next(g, s)
    BY <1>4
  <2>2. CASE s = {}
    BY <2>1, <2>2
  <2>3. CASE s # {}
    <3>1. s \ {Pick(s)} \in SUBSET S
      BY <2>3, PickFacts
    <3> QED BY <2>1, <2>3, <3>1
  <2> QED BY <2>2, <2>3
<1>6. h = [s \in SUBSET S |-> h[s]]
  OBVIOUS
<1> HIDE DEF h
<1>7. h = [s \in SUBSET S |-> Next(h, s)]
  BY <1>5, <1>6
<1> QED BY <1>7 DEF Summing

LEMMA SummingAgree ==
  ASSUME NEW S, IsFiniteSet(S), NEW T, IsFiniteSet(T), NEW e, NEW f, \A x \in S \cap T : e[x] = f[x],
         NEW g, Summing(e, S, g), NEW h, Summing(f, T, h)
  PROVE  \A s \in SUBSET (S \cap T) : g[s] = h[s]
<1> DEFINE Bad == {n \in Nat : \E s \in SUBSET (S \cap T) : Cardinality(s) = n /\ g[s] # h[s]}
<1>1. SUFFICES ASSUME Bad # {} PROVE FALSE
  <2>1. ASSUME NEW s \in SUBSET (S \cap T), g[s] # h[s] PROVE FALSE
    <3>1. Cardinality(s) \in Nat
      BY PickFacts
    <3>2. Cardinality(s) \in Bad
      BY <2>1, <3>1
    <3> QED BY <1>1, <3>2
  <2> QED BY <2>1
<1>2. PICK n \in Bad : \A m \in Bad : n <= m
  <2>1. Bad \subseteq Nat
    OBVIOUS
  <2> HIDE DEF Bad
  <2> QED BY <1>1, <2>1, Least
<1>3. PICK s \in SUBSET (S \cap T) : Cardinality(s) = n /\ g[s] # h[s]
  BY <1>2
<1>4. /\ g[s] = IF s = {} THEN 0 ELSE e[Pick(s)] + g[s \ {Pick(s)}]
      /\ h[s] = IF s = {} THEN 0 ELSE f[Pick(s)] + h[s \ {Pick(s)}]
  BY DEF Summing
<1>5. s # {}
  BY <1>3, <1>4
<1> DEFINE t == s \ {Pick(s)}
<1>6. t \in SUBSET (S \cap T) /\ Cardinality(t) = n - 1 /\ Cardinality(t) \in Nat /\ n \in Nat
  BY <1>2, <1>3, <1>5, PickFacts
<1>7. g[t] # h[t]
  BY <1>3, <1>4, <1>5, PickFacts
<1>8. n - 1 \in Bad
  BY <1>6, <1>7
<1> QED BY <1>2, <1>6, <1>8

LEMMA SumEqual ==
  ASSUME NEW S, IsFiniteSet(S), NEW e, NEW f, \A x \in S : e[x] = f[x]
  PROVE  SumFunctionOnSet(e, S) = SumFunctionOnSet(f, S)
<1>1. Summing(e, S, CHOOSE g : Summing(e, S, g)) /\ Summing(f, S, CHOOSE g : Summing(f, S, g))
  BY SummingExists
<1> QED BY <1>1, SumUnfold, SummingAgree

LEMMA SumEmpty ==
  ASSUME NEW f
  PROVE  SumFunctionOnSet(f, {}) = 0
<1> DEFINE g == CHOOSE h : Summing(f, {}, h)
<1>1. Summing(f, {}, g)
  BY SummingExists, FS_EmptySet
<1> HIDE DEF g
<1>2. g[{}] = 0
  BY <1>1 DEF Summing
<1> QED BY <1>2, SumUnfold DEF g

LEMMA SumPick ==
  ASSUME NEW S, IsFiniteSet(S), S # {}, NEW f
  PROVE  SumFunctionOnSet(f, S) = f[Pick(S)] + SumFunctionOnSet(f, S \ {Pick(S)})
<1> DEFINE T == S \ {Pick(S)}
           g == CHOOSE h : Summing(f, S, h)
           k == CHOOSE h : Summing(f, T, h)
<1>1. IsFiniteSet(T)
  BY FS_Subset
<1>2. Summing(f, S, g) /\ Summing(f, T, k)
  BY <1>1, SummingExists
<1>3. SumFunctionOnSet(f, S) = g[S] /\ SumFunctionOnSet(f, T) = k[T]
  BY SumUnfold
<1>4. T \in SUBSET (S \cap T) /\ T \in SUBSET S
  OBVIOUS
<1> HIDE DEF g, k
<1>5. g[T] = k[T]
  BY <1>1, <1>2, <1>4, SummingAgree
<1>6. g[S] = f[Pick(S)] + g[T]
  BY <1>2 DEF Summing
<1> QED BY <1>3, <1>5, <1>6

\* The type of a sum, and the sum with one element taken out.
LEMMA SumType ==
  ASSUME NEW S, IsFiniteSet(S), NEW f, \A x \in S : f[x] \in Int
  PROVE  \A s \in SUBSET S : SumFunctionOnSet(f, s) \in Int
<1> DEFINE Bad == {n \in Nat : \E s \in SUBSET S : Cardinality(s) = n /\ SumFunctionOnSet(f, s) \notin Int}
<1>1. SUFFICES ASSUME Bad # {} PROVE FALSE
  <2>1. ASSUME NEW s \in SUBSET S, SumFunctionOnSet(f, s) \notin Int PROVE FALSE
    <3>1. Cardinality(s) \in Nat
      BY PickFacts
    <3>2. Cardinality(s) \in Bad
      BY <2>1, <3>1
    <3> QED BY <1>1, <3>2
  <2> QED BY <2>1
<1>2. PICK n \in Bad : \A m \in Bad : n <= m
  <2>1. Bad \subseteq Nat
    OBVIOUS
  <2> HIDE DEF Bad
  <2> QED BY <1>1, <2>1, Least
<1>3. PICK s \in SUBSET S : Cardinality(s) = n /\ SumFunctionOnSet(f, s) \notin Int
  BY <1>2
<1>4. s # {}
  BY <1>3, SumEmpty
<1> DEFINE t == s \ {Pick(s)}
<1>5. /\ IsFiniteSet(s) /\ t \in SUBSET S /\ Cardinality(t) = n - 1 /\ Cardinality(t) \in Nat /\ n \in Nat
      /\ Pick(s) \in S
  BY <1>2, <1>3, <1>4, PickFacts
<1>6. SumFunctionOnSet(f, s) = f[Pick(s)] + SumFunctionOnSet(f, t)
  BY <1>4, <1>5, SumPick
<1> HIDE DEF t
<1>7. SumFunctionOnSet(f, t) \notin Int
  BY <1>3, <1>5, <1>6
<1>8. n - 1 \in Bad
  BY <1>5, <1>7
<1> QED BY <1>2, <1>5, <1>8

LEMMA SumTake ==
  ASSUME NEW S, IsFiniteSet(S), NEW f, \A x \in S : f[x] \in Int
  PROVE  \A s \in SUBSET S : \A x \in s : SumFunctionOnSet(f, s) = f[x] + SumFunctionOnSet(f, s \ {x})
<1> DEFINE Sum(s) == SumFunctionOnSet(f, s)
           Holds(s) == \A x \in s : Sum(s) = f[x] + Sum(s \ {x})
           Bad == {n \in Nat : \E s \in SUBSET S : Cardinality(s) = n /\ ~Holds(s)}
<1>1. SUFFICES ASSUME Bad # {} PROVE FALSE
  <2>1. ASSUME NEW s \in SUBSET S, ~Holds(s) PROVE FALSE
    <3>1. Cardinality(s) \in Nat
      BY PickFacts
    <3>2. Cardinality(s) \in Bad
      BY <2>1, <3>1
    <3> QED BY <1>1, <3>2
  <2> QED BY <2>1
<1>2. PICK n \in Bad : \A m \in Bad : n <= m
  <2>1. Bad \subseteq Nat
    OBVIOUS
  <2> HIDE DEF Bad
  <2> QED BY <1>1, <2>1, Least
<1>3. PICK s \in SUBSET S : Cardinality(s) = n /\ ~Holds(s)
  BY <1>2
<1>4. PICK x \in s : Sum(s) # f[x] + Sum(s \ {x})
  BY <1>3
<1> DEFINE y == Pick(s)
           t == s \ {y}
           u == s \ {x}
           v == (s \ {y}) \ {x}
<1>5. /\ IsFiniteSet(s) /\ y \in s /\ n \in Nat /\ Cardinality(t) = n - 1 /\ Cardinality(u) = n - 1
      /\ t \in SUBSET S /\ u \in SUBSET S /\ v \in SUBSET S /\ n - 1 \in Nat
  <2>1. /\ IsFiniteSet(s) /\ y \in s /\ Cardinality(t) = n - 1 /\ Cardinality(u) = n - 1
        /\ t \in SUBSET S /\ u \in SUBSET S
    BY <1>2, <1>3, PickFacts
  <2>2. Cardinality(t) \in Nat
    BY <2>1, PickFacts
  <2>3. v \in SUBSET S
    OBVIOUS
  <2> QED BY <1>2, <2>1, <2>2, <2>3
<1>6. n - 1 \notin Bad
  BY <1>2, <1>5
<1>7. Holds(t) /\ Holds(u)
  BY <1>5, <1>6
<1>8. Sum(s) = f[y] + Sum(t)
  BY <1>5, SumPick
<1>9. x # y
  BY <1>4, <1>8
<1>10. u \ {y} = v
  OBVIOUS
<1>11. x \in t /\ y \in u
  BY <1>5, <1>9
<1>12. Sum(t) = f[x] + Sum(v) /\ Sum(u) = f[y] + Sum(v)
  BY <1>7, <1>10, <1>11
<1>13. f[x] \in Int /\ f[y] \in Int /\ Sum(v) \in Int
  BY <1>5, SumType
<1> HIDE DEF Sum, y, t, u, v
<1>14. Sum(s) = f[x] + Sum(u)
  BY <1>8, <1>12, <1>13
<1> QED BY <1>4, <1>14 DEF u

\* A sum with an element more.
LEMMA SumAdd ==
  ASSUME NEW S, IsFiniteSet(S), NEW x, x \notin S, NEW f, \A y \in S \cup {x} : f[y] \in Int
  PROVE  SumFunctionOnSet(f, S \cup {x}) = f[x] + SumFunctionOnSet(f, S)
<1>1. IsFiniteSet(S \cup {x})
  BY FS_AddElement
<1>2. (S \cup {x}) \ {x} = S
  OBVIOUS
<1>3. SumFunctionOnSet(f, S \cup {x}) = f[x] + SumFunctionOnSet(f, (S \cup {x}) \ {x})
  BY <1>1, SumTake
<1> QED BY <1>2, <1>3

LEMMA SumOne ==
  ASSUME NEW x, NEW f, f[x] \in Int
  PROVE  SumFunctionOnSet(f, {x}) = f[x]
<1>1. {} \cup {x} = {x} /\ x \notin {}
  OBVIOUS
<1>2. IsFiniteSet({})
  BY FS_EmptySet
<1>3. SumFunctionOnSet(f, {x}) = f[x] + SumFunctionOnSet(f, {})
  BY <1>1, <1>2, SumAdd
<1> QED BY <1>3, SumEmpty

\* A smaller set, and smaller numbers, have a smaller sum.
LEMMA SumBounds ==
  ASSUME NEW S, IsFiniteSet(S), NEW f, NEW g, \A x \in S : f[x] \in Nat /\ g[x] \in Nat /\ f[x] <= g[x]
  PROVE  \A s \in SUBSET S : /\ SumFunctionOnSet(f, s) \in Nat
                             /\ SumFunctionOnSet(f, s) <= SumFunctionOnSet(g, s)
<1> DEFINE F(s) == SumFunctionOnSet(f, s)
           G(s) == SumFunctionOnSet(g, s)
           Holds(s) == F(s) \in Nat /\ F(s) <= G(s)
           Bad == {n \in Nat : \E s \in SUBSET S : Cardinality(s) = n /\ ~Holds(s)}
<1>1. SUFFICES ASSUME Bad # {} PROVE FALSE
  <2>1. ASSUME NEW s \in SUBSET S, ~Holds(s) PROVE FALSE
    <3>1. Cardinality(s) \in Nat
      BY PickFacts
    <3>2. Cardinality(s) \in Bad
      BY <2>1, <3>1
    <3> QED BY <1>1, <3>2
  <2> QED BY <2>1
<1>2. PICK n \in Bad : \A m \in Bad : n <= m
  <2>1. Bad \subseteq Nat
    OBVIOUS
  <2> HIDE DEF Bad
  <2> QED BY <1>1, <2>1, Least
<1>3. PICK s \in SUBSET S : Cardinality(s) = n /\ ~Holds(s)
  BY <1>2
<1>4. s # {}
  <2>1. F({}) = 0 /\ G({}) = 0
    BY SumEmpty
  <2> QED BY <1>3, <2>1
<1> DEFINE x == Pick(s)
           t == s \ {x}
<1>5. /\ IsFiniteSet(s) /\ t \in SUBSET S /\ Cardinality(t) = n - 1 /\ Cardinality(t) \in Nat /\ n \in Nat
      /\ x \in S
  BY <1>2, <1>3, <1>4, PickFacts
<1>6. F(s) = f[x] + F(t) /\ G(s) = g[x] + G(t)
  BY <1>4, <1>5, SumPick
<1>7. n - 1 \notin Bad
  BY <1>2, <1>5
<1>8. Holds(t)
  BY <1>5, <1>7
<1>9. G(t) \in Int /\ f[x] \in Nat /\ g[x] \in Nat /\ f[x] <= g[x]
  BY <1>5, SumType
<1> HIDE DEF F, G, x, t
<1> QED BY <1>3, <1>6, <1>8, <1>9

\* g is the function that FlattenSeq defines by recursion on a sequence s of
\* n sequences.
Flattening(s, n, g) ==
  g = [i \in 1 .. n |-> IF i = 1 THEN s[i] ELSE g[i - 1] \o s[i]]

LEMMA FlattenUnfold ==
  ASSUME NEW s, Len(s) # 0
  PROVE  FlattenSeq(s) = (CHOOSE g : Flattening(s, Len(s), g))[Len(s)]
  BY DEF FlattenSeq, Flattening

LEMMA FlatteningExists ==
  ASSUME NEW s, NEW n \in Nat
  PROVE  \E g : Flattening(s, n, g)
<1> DEFINE Bad == {m \in Nat : ~\E g : Flattening(s, m, g)}
<1>1. SUFFICES ASSUME Bad # {} PROVE FALSE
  OBVIOUS
<1>2. PICK m \in Bad : \A k \in Bad : m <= k
  <2>1. Bad \subseteq Nat
    OBVIOUS
  <2> HIDE DEF Bad
  <2> QED BY <1>1, <2>1, Least
<1>3. m \in Nat /\ ~\E g : Flattening(s, m, g)
  BY <1>2
<1>4. m # 0
  <2> DEFINE e == [i \in 1 .. 0 |-> <<>>]
  <2>1. Flattening(s, 0, e)
    BY DEF Flattening
  <2> QED BY <1>3, <2>1
<1>5. m - 1 \in Nat /\ ~(m <= m - 1)
  BY <1>3, <1>4
<1>6. PICK g : Flattening(s, m - 1, g)
  BY <1>2, <1>5
<1> DEFINE h == [i \in 1 .. m |-> IF i = 1 THEN s[i] ELSE g[i - 1] \o s[i]]
<1>7. ASSUME NEW i \in 1 .. m PROVE h[i] = IF i = 1 THEN s[i] ELSE h[i - 1] \o s[i]
  <2>1. CASE i = 1
    BY <2>1
  <2>2. CASE i # 1
    <3>1. i - 1 \in 1 .. m - 1 /\ i - 1 \in 1 .. m
      BY <1>3, <2>2
    <3>2. g[i - 1] = h[i - 1]
      BY <1>6, <3>1 DEF Flattening
    <3>3. h[i] = g[i - 1] \o s[i]
      BY <2>2
    <3> HIDE DEF h
    <3> QED BY <2>2, <3>2, <3>3
  <2> QED BY <2>1, <2>2
<1>8. h = [i \in 1 .. m |-> h[i]]
  OBVIOUS
<1> HIDE DEF h
<1>9. Flattening(s, m, h)
  BY <1>7, <1>8 DEF Flattening
<1> QED BY <1>3, <1>9

LEMMA FlatteningAgree ==
  ASSUME NEW s, NEW t, NEW m \in Nat, NEW n \in Nat, m <= n, \A i \in 1 .. m : s[i] = t[i],
         NEW g, Flattening(s, m, g), NEW h, Flattening(t, n, h)
  PROVE  \A i \in 1 .. m : g[i] = h[i]
<1> DEFINE Bad == {i \in 1 .. m : g[i] # h[i]}
<1>1. SUFFICES ASSUME Bad # {} PROVE FALSE
  OBVIOUS
<1>2. PICK i \in Bad : \A k \in Bad : i <= k
  <2>1. Bad \subseteq Nat
    OBVIOUS
  <2> HIDE DEF Bad
  <2> QED BY <1>1, <2>1, Least
<1>3. i \in 1 .. m /\ i \in 1 .. n /\ g[i] # h[i]
  BY <1>2
<1>4. /\ g[i] = IF i = 1 THEN s[i] ELSE g[i - 1] \o s[i]
      /\ h[i] = IF i = 1 THEN t[i] ELSE h[i - 1] \o t[i]
  BY <1>3 DEF Flattening
<1>5. i # 1 /\ g[i - 1] # h[i - 1]
  BY <1>3, <1>4
<1>6. i - 1 \in 1 .. m /\ ~(i <= i - 1)
  BY <1>3, <1>5
<1> QED BY <1>2, <1>5, <1>6

(***************************************************************************)
(* The first n of the sequences f[0], f[1], ... one after the other.       *)
(***************************************************************************)
Joined(f, n) == FlattenSeq([i \in 1 .. n |-> f[i - 1]])

LEMMA JoinedZero ==
  ASSUME NEW f
  PROVE  Joined(f, 0) = <<>>
<1> DEFINE s == [i \in 1 .. 0 |-> f[i - 1]]
<1>1. s = <<>>
  OBVIOUS
<1>2. FlattenSeq(<<>>) = <<>>
  BY DEF FlattenSeq
<1> QED BY <1>1, <1>2 DEF Joined

LEMMA JoinedNext ==
  ASSUME NEW S, NEW f, NEW n \in Nat, \A i \in 0 .. n : f[i] \in Seq(S)
  PROVE  Joined(f, n + 1) = Joined(f, n) \o f[n]
<1> DEFINE s == [i \in 1 .. n |-> f[i - 1]]
           t == [i \in 1 .. n + 1 |-> f[i - 1]]
<1>1. s \in Seq(Seq(S)) /\ Len(s) = n /\ t \in Seq(Seq(S)) /\ Len(t) = n + 1
  OBVIOUS
<1>2. \A i \in 1 .. n : s[i] = t[i]
  OBVIOUS
<1>3. t[n + 1] = f[n] /\ f[n] \in Seq(S)
  OBVIOUS
<1>4. Joined(f, n) = FlattenSeq(s) /\ Joined(f, n + 1) = FlattenSeq(t)
  BY DEF Joined
<1> DEFINE h == CHOOSE x : Flattening(t, n + 1, x)
           k == CHOOSE x : Flattening(s, n, x)
<1> HIDE DEF s, t
<1>5. n + 1 \in Nat /\ n + 1 # 0
  OBVIOUS
<1>6. Flattening(t, n + 1, h) /\ Flattening(s, n, k)
  BY <1>5, FlatteningExists
<1>7. FlattenSeq(t) = h[n + 1]
  BY <1>1, <1>5, FlattenUnfold
<1>8. n # 0 => FlattenSeq(s) = k[n]
  BY <1>1, FlattenUnfold
<1> HIDE DEF h, k
<1>9. h[n + 1] = IF n + 1 = 1 THEN t[n + 1] ELSE h[n + 1 - 1] \o t[n + 1]
  <2>1. n + 1 \in 1 .. n + 1
    OBVIOUS
  <2>2. \A i \in 1 .. n + 1 : h[i] = IF i = 1 THEN t[i] ELSE h[i - 1] \o t[i]
    BY <1>6, Zenon DEF Flattening
  <2> QED BY <2>1, <2>2
<1>10. CASE n = 0
  <2>1. Joined(f, n) = <<>>
    BY <1>10, JoinedZero
  <2>2. <<>> \o f[n] = f[n]
    BY <1>3
  <2>3. h[n + 1] = f[n]
    BY <1>3, <1>9, <1>10
  <2> QED BY <1>4, <1>7, <2>1, <2>2, <2>3
<1>11. CASE n # 0
  <2>1. h[n] = k[n]
    <3>1. n \in 1 .. n /\ n <= n + 1 /\ n + 1 \in Nat
      BY <1>11
    <3>2. \A i \in 1 .. n : k[i] = h[i]
      BY <1>2, <1>6, <3>1, FlatteningAgree
    <3> QED BY <3>1, <3>2
  <2>2. h[n + 1] = h[n] \o f[n]
    <3>1. n + 1 - 1 = n /\ n + 1 # 1
      BY <1>11
    <3> QED BY <1>3, <1>9, <3>1
  <2> QED BY <1>4, <1>7, <1>8, <1>11, <2>1, <2>2
<1> QED BY <1>10, <1>11

LEMMA JoinedType ==
  ASSUME NEW S, NEW f, NEW n \in Nat, \A i \in 0 .. n - 1 : f[i] \in Seq(S)
  PROVE  Joined(f, n) \in Seq(S)
<1> DEFINE Bad == {m \in 0 .. n : Joined(f, m) \notin Seq(S)}
<1>1. SUFFICES ASSUME Bad # {} PROVE FALSE
  OBVIOUS
<1>2. PICK m \in Bad : \A k \in Bad : m <= k
  <2>1. Bad \subseteq Nat
    OBVIOUS
  <2> HIDE DEF Bad
  <2> QED BY <1>1, <2>1, Least
<1>3. m # 0
  <2>1. Joined(f, 0) \in Seq(S)
    <3>1. <<>> \in Seq(S)
      OBVIOUS
    <3> QED BY <3>1, JoinedZero
  <2> QED BY <1>2, <2>1
<1>4. m - 1 \in Nat /\ m - 1 \in 0 .. n /\ m = (m - 1) + 1 /\ ~(m <= m - 1)
  BY <1>2, <1>3
<1>5. Joined(f, m - 1) \in Seq(S)
  BY <1>2, <1>4
<1>6. \A i \in 0 .. m - 1 : f[i] \in Seq(S)
  BY <1>2
<1>7. Joined(f, (m - 1) + 1) = Joined(f, m - 1) \o f[m - 1]
  BY <1>4, <1>6, JoinedNext
<1>8. Joined(f, m) \in Seq(S)
  <2>1. f[m - 1] \in Seq(S)
    BY <1>4, <1>6
  <2>2. Joined(f, m - 1) \o f[m - 1] \in Seq(S)
    BY <1>5, <2>1
  <2> QED BY <1>4, <1>7, <2>2
<1> QED BY <1>2, <1>8

LEMMA JoinedSame ==
  ASSUME NEW n \in Nat, NEW f, NEW g, \A i \in 0 .. n - 1 : f[i] = g[i]
  PROVE  Joined(f, n) = Joined(g, n)
<1>1. [i \in 1 .. n |-> f[i - 1]] = [i \in 1 .. n |-> g[i - 1]]
  OBVIOUS
<1> QED BY <1>1 DEF Joined

\* Empty sequences at the end add nothing.
LEMMA JoinedTail ==
  ASSUME NEW S, NEW f, NEW m \in Nat, NEW n \in Nat, m <= n,
         \A i \in 0 .. n - 1 : f[i] \in Seq(S), \A i \in m .. n - 1 : f[i] = <<>>
  PROVE  Joined(f, n) = Joined(f, m)
<1> DEFINE Bad == {k \in m .. n : Joined(f, k) # Joined(f, m)}
<1>1. SUFFICES ASSUME Bad # {} PROVE FALSE
  OBVIOUS
<1>2. PICK k \in Bad : \A j \in Bad : k <= j
  <2>1. Bad \subseteq Nat
    OBVIOUS
  <2> HIDE DEF Bad
  <2> QED BY <1>1, <2>1, Least
<1>3. k # m
  BY <1>2
<1>4. /\ k - 1 \in Nat /\ k - 1 \in m .. n /\ k - 1 \in m .. n - 1 /\ k = (k - 1) + 1
      /\ ~(k <= k - 1)
  BY <1>2, <1>3
<1>5. Joined(f, k - 1) = Joined(f, m)
  BY <1>2, <1>4
<1>6. \A i \in 0 .. k - 1 : f[i] \in Seq(S)
  BY <1>2
<1>7. Joined(f, (k - 1) + 1) = Joined(f, k - 1) \o f[k - 1]
  BY <1>4, <1>6, JoinedNext
<1>8. Joined(f, k - 1) \in Seq(S) /\ f[k - 1] = <<>>
  BY <1>4, JoinedType
<1>9. Joined(f, k) = Joined(f, k - 1)
  <2>1. Joined(f, k - 1) \o <<>> = Joined(f, k - 1)
    BY <1>8
  <2> QED BY <1>4, <1>7, <1>8, <2>1
<1> QED BY <1>2, <1>5, <1>9

\* The first sequence that is not empty, taken out.
\* f and g differ at k alone, where f has the first sequence that is not empty.
Beheaded(S, f, g, n, k) ==
  /\ n \in Nat /\ k \in 0 .. n - 1
  /\ \A i \in 0 .. n - 1 : f[i] \in Seq(S)
  /\ \A i \in 0 .. k - 1 : f[i] = <<>>
  /\ g[k] = <<>> /\ \A i \in 0 .. n - 1 : i # k => g[i] = f[i]

LEMMA JoinedHead ==
  ASSUME NEW S, NEW f, NEW g, NEW n, NEW k, Beheaded(S, f, g, n, k)
  PROVE  Joined(f, n) = f[k] \o Joined(g, n)
<1> USE DEF Beheaded
<1>1. \A i \in 0 .. n - 1 : g[i] \in Seq(S)
  <2>1. <<>> \in Seq(S)
    OBVIOUS
  <2> QED BY <2>1
<1> DEFINE Bad == {m \in k + 1 .. n : Joined(f, m) # f[k] \o Joined(g, m)}
<1>2. SUFFICES ASSUME Bad # {} PROVE FALSE
  <2>1. n \in k + 1 .. n
    OBVIOUS
  <2> QED BY <1>2, <2>1
<1>3. PICK m \in Bad : \A j \in Bad : m <= j
  <2>1. Bad \subseteq Nat
    OBVIOUS
  <2> HIDE DEF Bad
  <2> QED BY <1>2, <2>1, Least
<1>4. f[k] \in Seq(S) /\ <<>> \o f[k] = f[k] /\ f[k] \o <<>> = f[k]
  OBVIOUS
<1>5. m # k + 1
  <2>1. k \in Nat /\ 0 \in Nat /\ 0 <= k
    OBVIOUS
  <2>2. \A i \in 0 .. k : f[i] \in Seq(S)
    OBVIOUS
  <2>3. Joined(f, k) = Joined(f, 0)
    <3>1. \A i \in 0 .. k - 1 : f[i] \in Seq(S)
      OBVIOUS
    <3> QED BY <2>1, <3>1, JoinedTail
  <2>4. Joined(f, k + 1) = f[k]
    BY <1>4, <2>1, <2>2, <2>3, JoinedNext, JoinedZero
  <2>5. Joined(g, k + 1) = Joined(g, 0)
    <3>1. /\ \A i \in 0 .. k + 1 - 1 : g[i] \in Seq(S)
          /\ \A i \in 0 .. k + 1 - 1 : g[i] = <<>>
      BY <1>1
    <3> QED BY <2>1, <3>1, JoinedTail
  <2> QED BY <1>3, <1>4, <2>4, <2>5, JoinedZero
<1>6. /\ m - 1 \in Nat /\ m - 1 \in k + 1 .. n /\ m - 1 \in 0 .. n - 1 /\ m - 1 # k
      /\ m = (m - 1) + 1 /\ ~(m <= m - 1)
  BY <1>3, <1>5
<1>7. Joined(f, m - 1) = f[k] \o Joined(g, m - 1)
  BY <1>3, <1>6
<1>8. /\ \A i \in 0 .. m - 1 : f[i] \in Seq(S) /\ g[i] \in Seq(S)
      /\ f[m - 1] = g[m - 1]
  BY <1>1, <1>3, <1>6
<1>9. Joined(f, m) = Joined(f, m - 1) \o f[m - 1]
  BY <1>6, <1>8, JoinedNext
<1>10. Joined(g, m) = Joined(g, m - 1) \o f[m - 1]
  BY <1>6, <1>8, JoinedNext
<1>11. Joined(g, m - 1) \in Seq(S) /\ f[m - 1] \in Seq(S)
  BY <1>6, <1>8, JoinedType
<1> DEFINE a == f[k]
           b == Joined(g, m - 1)
           c == f[m - 1]
<1>12. (a \o b) \o c = a \o (b \o c)
  <2>1. a \in Seq(S) /\ b \in Seq(S) /\ c \in Seq(S)
    BY <1>4, <1>11
  <2> HIDE DEF a, b, c
  <2> QED BY <2>1, ConcatAssociative
<1> QED BY <1>3, <1>7, <1>9, <1>10, <1>12

\* The last sequence that is not empty, set apart.
LEMMA JoinedLast ==
  ASSUME NEW S, NEW f, NEW n \in Nat, NEW k \in 0 .. n - 1,
         \A i \in 0 .. n - 1 : f[i] \in Seq(S), \A i \in k + 1 .. n - 1 : f[i] = <<>>
  PROVE  Joined(f, n) = Joined(f, k) \o f[k]
<1>1. k \in Nat /\ k + 1 \in Nat /\ k + 1 <= n /\ \A i \in 0 .. k : f[i] \in Seq(S)
  OBVIOUS
<1>2. Joined(f, n) = Joined(f, k + 1)
  BY <1>1, JoinedTail
<1>3. Joined(f, k + 1) = Joined(f, k) \o f[k]
  BY <1>1, JoinedNext
<1> QED BY <1>2, <1>3

\* A finite set of naturals that is not empty has a greatest element.
LEMMA Greatest ==
  ASSUME NEW S, S \subseteq Nat, S # {}, IsFiniteSet(S)
  PROVE  \E x \in S : \A y \in S : y <= x
<1> DEFINE Has(s) == \E x \in s : \A y \in s : y <= x
           Bad == {n \in Nat : \E s \in SUBSET S : s # {} /\ Cardinality(s) = n /\ ~Has(s)}
<1>1. SUFFICES ASSUME Bad # {} PROVE FALSE
  <2>1. Cardinality(S) \in Nat
    BY FS_CardinalityType
  <2> QED BY <1>1, <2>1
<1>2. PICK n \in Bad : \A m \in Bad : n <= m
  <2>1. Bad \subseteq Nat
    OBVIOUS
  <2> HIDE DEF Bad
  <2> QED BY <1>1, <2>1, Least
<1>3. PICK s \in SUBSET S : s # {} /\ Cardinality(s) = n /\ ~Has(s)
  BY <1>2
<1> DEFINE x == Pick(s)
           t == s \ {x}
<1>4. /\ x \in s /\ n \in Nat /\ Cardinality(t) \in Nat /\ Cardinality(t) = n - 1 /\ t \in SUBSET S
  <2> HIDE DEF Has
  <2>1. /\ x \in s
        /\ \A y \in s : s \ {y} \in SUBSET S /\ Cardinality(s \ {y}) = Cardinality(s) - 1
    BY <1>3, PickFacts
  <2>2. t \in SUBSET S /\ Cardinality(t) = n - 1
    BY <1>3, <2>1
  <2>3. Cardinality(t) \in Nat
    BY <2>2, PickFacts
  <2> QED BY <1>2, <2>1, <2>2, <2>3
<1> HIDE DEF x
<1>5. t # {}
  <2>1. ASSUME t = {} PROVE FALSE
    <3>1. \A y \in s : y = x
      BY <2>1
    <3>2. x <= x
      BY <1>4
    <3> QED BY <1>3, <1>4, <3>1, <3>2
  <2> QED BY <2>1
<1>6. n - 1 \notin Bad
  BY <1>2, <1>4
<1>7. PICK z \in t : \A y \in t : y <= z
  BY <1>4, <1>5, <1>6
<1>8. x \in Nat /\ z \in Nat /\ s \subseteq Nat
  BY <1>4, <1>7
<1>9. CASE x <= z
  <2>1. \A y \in s : y <= z
    BY <1>7, <1>9
  <2> QED BY <1>3, <1>7, <2>1
<1>10. CASE z <= x
  <2>1. \A y \in s : y <= x
    BY <1>7, <1>8, <1>10
  <2> QED BY <1>3, <1>4, <2>1
<1> QED BY <1>8, <1>9, <1>10

LEMMA MinFacts ==
  ASSUME NEW S, S \subseteq Nat, S # {}
  PROVE  Min(S) \in S /\ \A y \in S : Min(S) <= y
<1>1. \E x \in S : \A y \in S : x <= y
  BY Least
<1> QED BY <1>1 DEF Min

LEMMA MaxFacts ==
  ASSUME NEW S, S \subseteq Nat, S # {}, IsFiniteSet(S)
  PROVE  Max(S) \in S /\ \A y \in S : y <= Max(S)
<1>1. \E x \in S : \A y \in S : x >= y
  BY Greatest
<1>2. Max(S) \in S /\ \A y \in S : Max(S) >= y
  BY <1>1 DEF Max
<1> QED BY <1>2

\* Arithmetic modulo the size of a word.
LEMMA ModType ==
  ASSUME NEW w \in Nat \ {0}, NEW x \in Int
  PROVE  x % w \in 0 .. w - 1
  OBVIOUS

LEMMA ModSmall ==
  ASSUME NEW w \in Nat \ {0}, NEW x \in 0 .. w - 1
  PROVE  x % w = x
  OBVIOUS

LEMMA ModUnique ==
  ASSUME NEW w \in Nat \ {0}, NEW m \in Int, NEW a \in 0 .. w - 1
  PROVE  (w * m + a) % w = a
<1> DEFINE u == w * m + a
           n == u \div w
           b == u % w
<1>1. u \in Int /\ n \in Int /\ b \in 0 .. w - 1 /\ u = w * n + b
  OBVIOUS
<1> HIDE DEF n, b
<1>2. w * (m - n) = b - a
  BY <1>1
<1> DEFINE d == m - n
<1>3. d \in Int /\ w * d = b - a /\ b - a < w /\ -w < b - a
  BY <1>1, <1>2
<1> HIDE DEF d
<1>4. ~(d >= 1)
  <2>1. d >= 1 => w * d >= w
    BY <1>3
  <2> QED BY <1>3, <2>1
<1>5. ~(d <= -1)
  <2>1. d <= -1 => w * d <= -w
    BY <1>3
  <2> QED BY <1>3, <2>1
<1>6. d = 0
  BY <1>3, <1>4, <1>5
<1>7. b = a
  BY <1>1, <1>3, <1>6
<1> QED BY <1>7 DEF b

LEMMA ModAdd ==
  ASSUME NEW w \in Nat \ {0}, NEW x \in Int, NEW y \in Int
  PROVE  ((x % w) + y) % w = (x + y) % w
<1> DEFINE k == x \div w
           r == x % w
           j == (r + y) \div w
           a == (r + y) % w
<1>1. k \in Int /\ r \in 0 .. w - 1 /\ x = w * k + r
  OBVIOUS
<1>2. j \in Int /\ a \in 0 .. w - 1 /\ r + y = w * j + a
  <2>1. r + y \in Int
    BY <1>1
  <2> HIDE DEF r
  <2> QED BY <2>1
<1> HIDE DEF k, r, j
<1>3. x + y = w * (k + j) + a
  <2> HIDE DEF a
  <2> QED BY <1>1, <1>2
<1>4. k + j \in Int
  BY <1>1, <1>2
<1> HIDE DEF a
<1>5. (w * (k + j) + a) % w = a
  BY <1>2, <1>4, ModUnique
<1> QED BY <1>3, <1>5 DEF a, r

\* Of numbers that are not negative, fewer add up to less.
LEMMA SumSubset ==
  ASSUME NEW S, IsFiniteSet(S), NEW f, \A x \in S : f[x] \in Nat, NEW s \in SUBSET S
  PROVE  SumFunctionOnSet(f, s) <= SumFunctionOnSet(f, S)
<1> DEFINE Sum(t) == SumFunctionOnSet(f, t)
           Less(t) == s \subseteq t /\ ~(Sum(s) <= Sum(t))
           Bad == {n \in Nat : \E t \in SUBSET S : Cardinality(t) = n /\ Less(t)}
<1>0. \A t \in SUBSET S : Sum(t) \in Int
  BY SumType
<1>1. SUFFICES ASSUME Bad # {} PROVE FALSE
  <2>1. ASSUME Less(S) PROVE FALSE
    <3>1. Cardinality(S) \in Nat
      BY PickFacts
    <3>2. Cardinality(S) \in Bad
      BY <2>1, <3>1
    <3> QED BY <1>1, <3>2
  <2> QED BY <2>1
<1>2. PICK n \in Bad : \A m \in Bad : n <= m
  <2>1. Bad \subseteq Nat
    OBVIOUS
  <2> HIDE DEF Bad
  <2> QED BY <1>1, <2>1, Least
<1>3. PICK t \in SUBSET S : Cardinality(t) = n /\ Less(t)
  BY <1>2
<1>4. t # s
  BY <1>0, <1>3
<1>5. PICK x \in t : x \notin s
  BY <1>3, <1>4
<1> DEFINE u == t \ {x}
<1>6. /\ u \in SUBSET S /\ Cardinality(u) = n - 1 /\ n - 1 \in Nat /\ n \in Nat
  <2>1. IsFiniteSet(t) /\ Cardinality(u) = n - 1 /\ u \in SUBSET S
    BY <1>2, <1>3, PickFacts
  <2>2. Cardinality(u) \in Nat
    BY <2>1, PickFacts
  <2> QED BY <1>2, <2>1, <2>2
<1>7. n - 1 \notin Bad
  BY <1>2, <1>6
<1>8. ~Less(u)
  BY <1>6, <1>7
<1>9. Sum(s) <= Sum(u)
  BY <1>3, <1>5, <1>8
<1>10. Sum(t) = f[x] + Sum(u)
  BY <1>3, <1>5, SumTake
<1>11. f[x] \in Nat /\ Sum(s) \in Int /\ Sum(u) \in Int /\ Sum(t) \in Int
  BY <1>0, <1>3, <1>5, <1>6
<1> HIDE DEF Sum, u
<1>12. Sum(s) <= Sum(t)
  BY <1>9, <1>10, <1>11
<1> QED BY <1>3, <1>12

\* A word that was added to, and the sum that it stands for.
Wrapped(x, y, w) == ((x % w) + y) % w
WrappedSum(x, y, w) == (x + y) % w

LEMMA WrappedAdd ==
  ASSUME NEW w \in Nat \ {0}, NEW x \in Int, NEW y \in Int
  PROVE  Wrapped(x, y, w) = WrappedSum(x, y, w)
  BY ModAdd DEF Wrapped, WrappedSum

\* F maps a function on N to the next approximation of a recursively defined
\* one: a value depends on the values of smaller arguments only.
IsRecursion(F, N, D) ==
  /\ N \subseteq Nat /\ IsFiniteSet(N) /\ D # {}
  /\ F \in [[N -> D] -> [N -> D]]
  /\ \A f, g \in [N -> D] : \A n \in N :
       (\A m \in N : m < n => f[m] = g[m]) => F[f][n] = F[g][n]

\* A recursive definition over a finite set of numbers has a solution.
LEMMA Recursion ==
  ASSUME NEW N, NEW D, NEW F, IsRecursion(F, N, D)
  PROVE  \E f \in [N -> D] : f = F[f]
<1> DEFINE Up(f, k) == \A m \in N : m < k => f[m] = F[f][m]
           Bad == {k \in Nat : ~\E f \in [N -> D] : Up(f, k)}
<1>1. Bad = {}
  <2> SUFFICES ASSUME Bad # {} PROVE FALSE
    OBVIOUS
  <2>1. PICK k \in Bad : \A m \in Bad : k <= m
    <3>1. Bad \subseteq Nat
      OBVIOUS
    <3> HIDE DEF Bad
    <3> QED BY <3>1, Least
  <2>2. k \in Nat /\ ~\E f \in [N -> D] : Up(f, k)
    BY <2>1
  <2>3. CASE k = 0
    <3>1. PICK d \in D : TRUE
      BY DEF IsRecursion
    <3>2. [m \in N |-> d] \in [N -> D]
      OBVIOUS
    <3>3. \A m \in N : ~(m < k)
      BY <2>3 DEF IsRecursion
    <3> QED BY <2>2, <3>2, <3>3
  <2>4. CASE k # 0
    <3>1. k - 1 \in Nat /\ ~(k <= k - 1)
      BY <2>2, <2>4
    <3>2. k - 1 \notin Bad
      BY <2>1, <3>1
    <3>3. PICK f \in [N -> D] : Up(f, k - 1)
      BY <3>1, <3>2
    <3> DEFINE h == F[f]
    <3>4. h \in [N -> D]
      BY DEF IsRecursion
    <3>5. ASSUME NEW m \in N, m < k PROVE h[m] = F[h][m]
      <4>1. \A j \in N : j < m => f[j] = h[j]
        BY <2>2, <3>3, <3>5 DEF IsRecursion
      <4> HIDE DEF h
      <4>2. F[f][m] = F[h][m]
        BY <3>4, <4>1 DEF IsRecursion
      <4> QED BY <4>2 DEF h
    <3> HIDE DEF h
    <3>6. Up(h, k)
      BY <3>5
    <3> QED BY <2>2, <3>4, <3>6
  <2> QED BY <2>3, <2>4
<1>2. PICK k \in Nat : \A m \in N : m < k
  <2>1. CASE N = {}
    BY <2>1
  <2>2. CASE N # {}
    <3>1. PICK x \in N : \A y \in N : y <= x
      BY <2>2, Greatest DEF IsRecursion
    <3>2. x + 1 \in Nat /\ \A y \in N : y < x + 1
      BY <3>1 DEF IsRecursion
    <3> QED BY <3>2
  <2> QED BY <2>1, <2>2
<1>3. PICK f \in [N -> D] : Up(f, k)
  BY <1>1
<1>4. \A m \in N : f[m] = F[f][m]
  BY <1>2, <1>3
<1>5. PICK g \in [N -> D] : g = F[f]
  BY DEF IsRecursion
<1> HIDE DEF Up, Bad
<1>6. f = g
  <2>1. \A m \in N : f[m] = g[m]
    BY <1>4, <1>5
  <2> QED BY <2>1
<1> QED BY <1>5, <1>6

\* The sequences of the elements of a set.
LEMMA SetToSeqsFacts ==
  ASSUME NEW S, IsFiniteSet(S), NEW s \in SetToSeqs(S)
  PROVE  s \in Seq(S) /\ ToSet(s) = S /\ Len(s) = Cardinality(S)
<1> DEFINE n == Cardinality(S)
<1>1. n \in Nat
  BY FS_CardinalityType
<1>2. s \in [1 .. n -> S] /\ \A i, j \in 1 .. n : i # j => s[i] # s[j]
  BY DEF SetToSeqs
<1> HIDE DEF n
<1>3. s \in Seq(S) /\ Len(s) = n /\ DOMAIN s = 1 .. n
  BY <1>1, <1>2
<1>4. s \in Injection(1 .. n, S)
  BY <1>2 DEF Injection, IsInjective
<1>5. Cardinality(1 .. n) = n
  BY <1>1, FS_Interval
<1>6. s \in Surjection(1 .. n, S)
  BY <1>4, <1>5, FS_Injection DEF n
<1>7. \A x \in S : \E i \in 1 .. n : s[i] = x
  BY <1>6 DEF Surjection
<1>8. ToSet(s) = S
  BY <1>2, <1>3, <1>7 DEF ToSet
<1> QED BY <1>3, <1>8 DEF n

LEMMA OwnElements ==
  ASSUME NEW T, NEW s \in Seq(T)
  PROVE  s \in Seq(ToSet(s))
<1>1. DOMAIN s = 1 .. Len(s) /\ Len(s) \in Nat
  OBVIOUS
<1>2. s \in [1 .. Len(s) -> ToSet(s)]
  BY <1>1 DEF ToSet
<1> QED BY <1>1, <1>2

\* In sequence u the elements of S replace the head of t.
Replaces(S, t, u) ==
  /\ ToSet(t) = {Head(t)} \cup ToSet(Tail(t))
  /\ ToSet(u) = S \cup ToSet(Tail(t))
  /\ u \in Seq(ToSet(u))
  /\ \A i \in DOMAIN u : u[i] \in ToSet(Tail(t)) \/ (u[i] \in S /\ i <= Cardinality(S))

LEMMA InFront ==
  ASSUME NEW S, IsFiniteSet(S), NEW s \in SetToSeqs(S), NEW T, NEW t \in Seq(T), t # <<>>,
         NEW u, u = s \o Tail(t)
  PROVE  Replaces(S, t, u)
<1>1. s \in Seq(S) /\ ToSet(s) = S /\ Len(s) = Cardinality(S)
  BY SetToSeqsFacts
<1>2. /\ Tail(t) \in Seq(T) /\ Len(t) \in Nat \ {0} /\ Len(Tail(t)) = Len(t) - 1
      /\ \A i \in 1 .. Len(Tail(t)) : Tail(t)[i] = t[i + 1]
      /\ Head(t) = t[1]
  OBVIOUS
<1>3. s \in Seq(S \cup T) /\ Tail(t) \in Seq(S \cup T)
  BY <1>1, <1>2
<1>4. ToSet(u) = S \cup ToSet(Tail(t))
  <2>1. ToSet(s \o Tail(t)) = ToSet(s) \cup ToSet(Tail(t))
    BY <1>3, ToSetConcat
  <2> QED BY <1>1, <2>1
<1>5. ToSet(t) = {Head(t)} \cup ToSet(Tail(t))
  <2>1. ToSet(t) = {t[i] : i \in 1 .. Len(t)} /\ ToSet(Tail(t)) = {t[i + 1] : i \in 1 .. Len(t) - 1}
    <3>1. DOMAIN t = 1 .. Len(t)
      OBVIOUS
    <3>2. DOMAIN Tail(t) = 1 .. Len(t) - 1 /\ \A i \in 1 .. Len(t) - 1 : Tail(t)[i] = t[i + 1]
      BY <1>2
    <3> QED BY <3>1, <3>2 DEF ToSet
  <2>2. ASSUME NEW i \in 1 .. Len(t) PROVE i = 1 \/ (i - 1 \in 1 .. Len(t) - 1 /\ i = (i - 1) + 1)
    BY <1>2
  <2>3. ASSUME NEW i \in 1 .. Len(t) PROVE t[i] \in {Head(t)} \cup ToSet(Tail(t))
    <3>1. CASE i = 1
      BY <1>2, <3>1
    <3>2. CASE i # 1
      <4>1. i - 1 \in 1 .. Len(t) - 1 /\ t[i] = t[(i - 1) + 1]
        BY <2>2, <3>2
      <4> QED BY <2>1, <4>1
    <3> QED BY <3>1, <3>2
  <2>4. ASSUME NEW i \in 1 .. Len(t) - 1 PROVE t[i + 1] \in ToSet(t)
    BY <1>2, <2>1
  <2>5. Head(t) \in ToSet(t)
    BY <1>2, <2>1
  <2> QED BY <2>1, <2>3, <2>4, <2>5
<1>6. ASSUME NEW i \in DOMAIN u PROVE u[i] \in ToSet(Tail(t)) \/ (u[i] \in S /\ i <= Cardinality(S))
  <2>1. /\ DOMAIN u = 1 .. Len(s) + Len(Tail(t)) /\ Len(s) \in Nat /\ Len(Tail(t)) \in Nat
        /\ DOMAIN s = 1 .. Len(s) /\ DOMAIN Tail(t) = 1 .. Len(Tail(t))
        /\ u[i] = IF i <= Len(s) THEN s[i] ELSE Tail(t)[i - Len(s)]
    BY <1>3, <1>6, ConcatProperties, LenProperties
  <2>2. CASE i <= Len(s)
    <3>1. i \in DOMAIN s
      BY <2>1, <2>2, <1>6
    <3> QED BY <1>1, <2>1, <2>2, <3>1 DEF ToSet
  <2>3. CASE ~(i <= Len(s))
    <3>1. i - Len(s) \in DOMAIN Tail(t)
      BY <2>1, <2>3, <1>6
    <3> QED BY <2>1, <2>3, <3>1 DEF ToSet
  <2> QED BY <2>2, <2>3
<1>7. u \in Seq(ToSet(u))
  <2>1. u \in Seq(S \cup T)
    BY <1>3
  <2> QED BY <2>1, OwnElements
<1> QED BY <1>4, <1>5, <1>6, <1>7 DEF Replaces

\* A sum of n terms, each at most m.
LEMMA SumAtMost ==
  ASSUME NEW S, IsFiniteSet(S), NEW f, NEW m \in Nat, \A x \in S : f[x] \in Nat /\ f[x] <= m
  PROVE  \A s \in SUBSET S : /\ SumFunctionOnSet(f, s) \in Nat
                             /\ SumFunctionOnSet(f, s) <= Cardinality(s) * m
<1> DEFINE F(s) == SumFunctionOnSet(f, s)
           Holds(s) == F(s) \in Nat /\ F(s) <= Cardinality(s) * m
           Bad == {n \in Nat : \E s \in SUBSET S : Cardinality(s) = n /\ ~Holds(s)}
<1>1. SUFFICES ASSUME Bad # {} PROVE FALSE
  <2>1. ASSUME NEW s \in SUBSET S, ~Holds(s) PROVE FALSE
    <3>1. Cardinality(s) \in Nat
      BY PickFacts
    <3>2. Cardinality(s) \in Bad
      BY <2>1, <3>1
    <3> QED BY <1>1, <3>2
  <2> QED BY <2>1
<1>2. PICK n \in Bad : \A k \in Bad : n <= k
  <2>1. Bad \subseteq Nat
    OBVIOUS
  <2> HIDE DEF Bad
  <2> QED BY <1>1, <2>1, Least
<1>3. PICK s \in SUBSET S : Cardinality(s) = n /\ ~Holds(s)
  BY <1>2
<1>4. s # {}
  <2>1. F({}) = 0 /\ Cardinality({}) = 0 /\ 0 * m = 0
    BY SumEmpty, FS_EmptySet
  <2>2. Holds({})
    BY <2>1
  <2> QED BY <1>3, <2>2
<1> DEFINE x == Pick(s)
           t == s \ {x}
<1>5. /\ IsFiniteSet(s) /\ t \in SUBSET S /\ Cardinality(t) = n - 1 /\ Cardinality(t) \in Nat /\ n \in Nat
      /\ x \in S
  BY <1>2, <1>3, <1>4, PickFacts
<1>6. F(s) = f[x] + F(t)
  BY <1>4, <1>5, SumPick
<1>7. n - 1 \notin Bad
  BY <1>2, <1>5
<1>8. Holds(t)
  BY <1>5, <1>7
<1>9. f[x] \in Nat /\ f[x] <= m
  BY <1>5
<1> HIDE DEF F, x, t
<1>10. F(s) \in Nat /\ F(s) <= m + (n - 1) * m
  BY <1>5, <1>6, <1>8, <1>9
<1>11. m + (n - 1) * m = n * m
  BY <1>5
<1> QED BY <1>3, <1>10, <1>11

\* Induction on the elements of a set of naturals: S is the set of those for
\* which the claim holds.
LEMMA SetInduction ==
  ASSUME NEW N, N \subseteq Nat, NEW S,
         \A n \in N : (\A m \in N : m < n => m \in S) => n \in S
  PROVE  \A n \in N : n \in S
<1>1. SUFFICES ASSUME N \ S # {} PROVE FALSE
  OBVIOUS
<1>2. PICK n \in N \ S : \A m \in N \ S : n <= m
  BY <1>1, Least
<1>3. \A m \in N : m < n => m \in S
  BY <1>2
<1> QED BY <1>2, <1>3
=============================================================================
