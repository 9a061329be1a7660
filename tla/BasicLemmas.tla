----------------------------- MODULE BasicLemmas -----------------------------
(***************************************************************************)
(* Facts about natural numbers, finite sets and sequences that the proofs  *)
(* about several components need.                                          *)
(***************************************************************************)
EXTENDS Integers, Sequences, FiniteSets, SequencesExt, FiniteSetTheorems,
        WellFoundedInduction, TLAPS

-----------------------------------------------------------------------------
(* Natural numbers.                                                        *)

(* A set of naturals has a least element: the intervals up to its elements *)
(* are finite sets, among which there is a smallest.                       *)
LEMMA LeastNatural ==
  ASSUME NEW S \in SUBSET Nat, S # {}
  PROVE  \E n \in S : \A m \in S : n <= m
<1> DEFINE T == {0 .. n : n \in S}
<1>1. T \subseteq FiniteSubsetsOf(Nat)
  <2>1. \A n \in Nat : 0 .. n \in SUBSET Nat /\ IsFiniteSet(0 .. n)
    BY FS_Interval
  <2>2. \A n \in Nat : 0 .. n \in FiniteSubsetsOf(Nat)
    BY <2>1, Zenon DEF FiniteSubsetsOf
  <2> QED BY <2>2
<1>2. T # {}
  OBVIOUS
<1>3. PICK x \in T : \A y \in T : <<y, x>> \notin StrictSubsetOrdering(Nat)
  BY <1>1, <1>2, WFMin, FS_StrictSubsetOrderingWellFounded, Zenon
<1>4. PICK n \in S : x = 0 .. n
  OBVIOUS
<1>5. ASSUME NEW m \in S, m < n
      PROVE  FALSE
  <2>1. 0 .. m \in T /\ 0 .. m \subseteq 0 .. n /\ n \notin 0 .. m /\ n \in 0 .. n
    BY <1>5
  <2>2. <<0 .. m, 0 .. n>> \in StrictSubsetOrdering(Nat)
    BY <2>1 DEF StrictSubsetOrdering
  <2> QED BY <1>3, <1>4, <2>1, <2>2
<1> QED BY <1>5

(* A set of naturals with 0 and the successor of each of its elements has  *)
(* all of them.                                                            *)
LEMMA SetOfNaturals ==
  ASSUME NEW S, 0 \in S, \A n \in Nat : n \in S => n + 1 \in S
  PROVE  Nat \subseteq S
<1> SUFFICES ASSUME Nat \ S # {}
             PROVE  FALSE
  OBVIOUS
<1>1. PICK n \in Nat \ S : \A m \in Nat \ S : n <= m
  BY LeastNatural
<1>2. n - 1 \in Nat /\ n - 1 \notin Nat \ S
  BY <1>1
<1> QED BY <1>1, <1>2

(* Min and Max on the sets that Localization applies them to.              *)
LEMMA MinOfNaturals ==
  ASSUME NEW S \in SUBSET Nat, S # {}
  PROVE  Min(S) \in S /\ \A n \in S : Min(S) <= n
BY LeastNatural DEF Min

LEMMA MaxOfInterval ==
  ASSUME NEW k \in Int, NEW S \in SUBSET (1 .. k), S # {}
  PROVE  Max(S) \in S /\ \A n \in S : n <= Max(S)
<1> DEFINE T == {d \in Nat : k - d \in S}
<1>1. \A n \in S : k - n \in Nat /\ k - (k - n) = n
  OBVIOUS
<1>2. T # {}
  BY <1>1
<1>3. PICK d \in T : \A m \in T : d <= m
  BY <1>2, LeastNatural
<1>4. \A n \in S : n <= k - d
  BY <1>1, <1>3
<1>5. \E n \in S : \A m \in S : n >= m
  BY <1>4
<1> QED BY <1>5 DEF Max

-----------------------------------------------------------------------------
(* Finite sets.                                                            *)

(* The image of a finite set is finite.                                    *)
LEMMA FiniteImage ==
  ASSUME NEW f, IsFiniteSet(DOMAIN f), f \in [DOMAIN f -> {f[x] : x \in DOMAIN f}]
  PROVE  IsFiniteSet({f[x] : x \in DOMAIN f})
<1>1. f \in Surjection(DOMAIN f, {f[x] : x \in DOMAIN f})
  BY DEF Surjection
<1> QED BY <1>1, FS_Surjection

(* SetToSeq lists the elements of a finite set, each of them once.         *)
LEMMA SetToSeqLists ==
  ASSUME NEW S, IsFiniteSet(S)
  PROVE  /\ Cardinality(S) \in Nat
         /\ SetToSeq(S) \in [1 .. Cardinality(S) -> S]
         /\ \A i, j \in 1 .. Cardinality(S) : SetToSeq(S)[i] = SetToSeq(S)[j] => i = j
         /\ \A x \in S : \E i \in 1 .. Cardinality(S) : SetToSeq(S)[i] = x
<1> DEFINE n == Cardinality(S)
           s == SetToSeq(S)
<1>1. n \in Nat /\ ExistsBijection(1 .. n, S)
  BY FS_CardinalityType
<1>2. \E f \in [1 .. n -> S] : IsInjective(f)
  BY <1>1 DEF ExistsBijection, Bijection, Injection, IsInjective
<1>3. s \in [1 .. n -> S] /\ IsInjective(s)
  BY <1>2 DEF SetToSeq
<1> HIDE DEF s
<1>4. s \in Injection(1 .. n, S)
  BY <1>3 DEF Injection, IsInjective
<1>5. Cardinality(1 .. n) = n
  BY <1>1, FS_Interval
<1>6. s \in Surjection(1 .. n, S)
  BY <1>4, <1>5, FS_Injection
<1>7. \A x \in S : \E i \in 1 .. n : s[i] = x
  BY <1>3, <1>6 DEF Surjection
<1> QED BY <1>1, <1>3, <1>7 DEF IsInjective, s

-----------------------------------------------------------------------------
(* Flattened sequences.                                                    *)

Flattens(f, seqs) ==
  f = [i \in 1 .. Len(seqs) |-> IF i = 1 THEN seqs[i] ELSE f[i - 1] \o seqs[i]]

LEMMA FlattenUnfolds ==
  ASSUME NEW S, NEW seqs \in Seq(Seq(S)), seqs # <<>>
  PROVE  \E f : Flattens(f, seqs) /\ FlattenSeq(seqs) = f[Len(seqs)]
<1> DEFINE n == Len(seqs)
           Solves(f, m) ==
             \A i \in 1 .. m : f[i] = IF i = 1 THEN seqs[i] ELSE f[i - 1] \o seqs[i]
           T == {m \in Nat : m <= n => \E f \in [1 .. m -> Seq(S)] : Solves(f, m)}
<1>1. n \in Nat /\ n # 0
  OBVIOUS
<1>2. 0 \in T
  <2>1. [i \in {} |-> <<>>] \in [1 .. 0 -> Seq(S)]
    OBVIOUS
  <2> QED BY <2>1
<1>3. ASSUME NEW m \in Nat, m \in T
      PROVE  m + 1 \in T
  <2> SUFFICES ASSUME m + 1 <= n
               PROVE  \E g \in [1 .. m + 1 -> Seq(S)] : Solves(g, m + 1)
    OBVIOUS
  <2>1. PICK f \in [1 .. m -> Seq(S)] : Solves(f, m)
    BY <1>1, <1>3
  <2> DEFINE last == IF m = 0 THEN seqs[1] ELSE f[m] \o seqs[m + 1]
             g == [i \in 1 .. m + 1 |-> IF i = m + 1 THEN last ELSE f[i]]
  <2>2. last \in Seq(S)
    <3>1. seqs[m + 1] \in Seq(S) /\ (m = 0 => seqs[1] \in Seq(S))
      OBVIOUS
    <3> QED BY <2>1, <3>1
  <2>3. g \in [1 .. m + 1 -> Seq(S)]
    <3> HIDE DEF last
    <3> QED BY <2>1, <2>2
  <2> HIDE DEF last, T, Solves
  <2>4. \A i \in 1 .. m : g[i] = f[i]
    OBVIOUS
  <2>5. g[m + 1] = last
    OBVIOUS
  <2>6. Solves(g, m + 1)
    <3> USE DEF Solves
    <3> SUFFICES ASSUME NEW i \in 1 .. m + 1
                 PROVE  g[i] = IF i = 1 THEN seqs[i] ELSE g[i - 1] \o seqs[i]
      OBVIOUS
    <3> HIDE DEF g
    <3>1. CASE i = m + 1
      <4>1. CASE m = 0
        BY <2>5, <3>1, <4>1 DEF last
      <4>2. CASE m # 0
        <5>1. i # 1 /\ i - 1 = m /\ m \in 1 .. m
          BY <3>1, <4>2
        <5>2. g[i] = f[m] \o seqs[i] /\ g[m] = f[m]
          BY <2>4, <2>5, <3>1, <4>2, <5>1, Zenon DEF last
        <5> QED BY <5>1, <5>2
      <4> QED BY <4>1, <4>2
    <3>2. CASE i # m + 1
      <4>1. i \in 1 .. m /\ (i # 1 => i - 1 \in 1 .. m)
        BY <3>2
      <4>2. f[i] = IF i = 1 THEN seqs[i] ELSE f[i - 1] \o seqs[i]
        BY <2>1, <4>1
      <4> QED BY <2>4, <4>1, <4>2
    <3> QED BY <3>1, <3>2
  <2> QED BY <2>3, <2>6
<1>4. n \in T
  <2> HIDE DEF T
  <2> QED BY <1>1, <1>2, <1>3, SetOfNaturals
<1>5. PICK q \in [1 .. n -> Seq(S)] : Solves(q, n)
  BY <1>1, <1>4
<1>6. \E g : g = [i \in 1 .. n |-> IF i = 1 THEN seqs[i] ELSE g[i - 1] \o seqs[i]]
  BY <1>5
<1> DEFINE h == CHOOSE g : g = [i \in 1 .. n |-> IF i = 1 THEN seqs[i] ELSE g[i - 1] \o seqs[i]]
<1>7. h = [i \in 1 .. n |-> IF i = 1 THEN seqs[i] ELSE h[i - 1] \o seqs[i]]
  BY <1>6, Zenon
<1>8. FlattenSeq(seqs) = h[n]
  BY <1>1, Zenon DEF FlattenSeq
<1> HIDE DEF h
<1> QED BY <1>7, <1>8 DEF Flattens

LEMMA FlattenNothing == FlattenSeq(<<>>) = <<>>
<1>1. Len(<<>>) = 0
  OBVIOUS
<1> QED BY <1>1, Zenon DEF FlattenSeq

LEMMA FlattenAppends ==
  ASSUME NEW S, NEW seqs \in Seq(Seq(S)), NEW s \in Seq(S), FlattenSeq(seqs) \in Seq(S)
  PROVE  /\ FlattenSeq(Append(seqs, s)) = FlattenSeq(seqs) \o s
         /\ FlattenSeq(Append(seqs, s)) \in Seq(S)
<1> DEFINE n == Len(seqs)
           more == Append(seqs, s)
<1>1. n \in Nat /\ more \in Seq(Seq(S)) /\ more # <<>> /\ Len(more) = n + 1
      /\ more[n + 1] = s /\ \A m \in 1 .. n : more[m] = seqs[m]
  OBVIOUS
<1>2. PICK g : Flattens(g, more) /\ FlattenSeq(more) = g[n + 1]
  BY <1>1, FlattenUnfolds
<1>3. CASE n = 0
  <2>1. g[1] = s
    BY <1>1, <1>2, <1>3 DEF Flattens
  <2>2. FlattenSeq(seqs) = <<>>
    BY <1>3 DEF FlattenSeq
  <2> QED BY <1>2, <1>3, <2>1, <2>2
<1>4. CASE n # 0
  <2>1. PICK f : Flattens(f, seqs) /\ FlattenSeq(seqs) = f[n]
    BY <1>4, FlattenUnfolds
  <2> DEFINE T == {m \in Nat : m \in 1 .. n => f[m] = g[m]}
  <2> HIDE DEF n, more
  <2>2. 0 \in T
    OBVIOUS
  <2>6. /\ f[1] = seqs[1] /\ g[1] = more[1]
        /\ \A m \in Nat \ {0} : m + 1 <= n => f[m + 1] = f[m] \o seqs[m + 1]
        /\ \A m \in Nat \ {0} : m + 1 <= n + 1 => g[m + 1] = g[m] \o more[m + 1]
    <3>1. /\ f = [i \in 1 .. n |-> IF i = 1 THEN seqs[i] ELSE f[i - 1] \o seqs[i]]
          /\ g = [i \in 1 .. n + 1 |-> IF i = 1 THEN more[i] ELSE g[i - 1] \o more[i]]
      BY <1>1, <1>2, <2>1 DEF Flattens, n
    <3>2. ASSUME NEW m \in Nat \ {0}
          PROVE  /\ m + 1 <= n => f[m + 1] = f[m] \o seqs[m + 1]
                 /\ m + 1 <= n + 1 => g[m + 1] = g[m] \o more[m + 1]
      <4>1. m + 1 # 1 /\ (m + 1) - 1 = m
        OBVIOUS
      <4>2. ASSUME m + 1 <= n
            PROVE  f[m + 1] = f[m] \o seqs[m + 1]
        <5>1. m + 1 \in 1 .. n
          BY <1>1, <4>2
        <5>2. f[m + 1] = IF m + 1 = 1 THEN seqs[m + 1] ELSE f[(m + 1) - 1] \o seqs[m + 1]
          BY <3>1, <5>1, Zenon
        <5> QED BY <4>1, <5>2
      <4>3. ASSUME m + 1 <= n + 1
            PROVE  g[m + 1] = g[m] \o more[m + 1]
        <5>1. m + 1 \in 1 .. n + 1
          BY <1>1, <4>3
        <5>2. g[m + 1] = IF m + 1 = 1 THEN more[m + 1] ELSE g[(m + 1) - 1] \o more[m + 1]
          BY <3>1, <5>1, Zenon
        <5> QED BY <4>1, <5>2
      <4> QED BY <4>2, <4>3
    <3>3. f[1] = seqs[1] /\ g[1] = more[1]
      <4>1. 1 \in 1 .. n /\ 1 \in 1 .. n + 1
        BY <1>1, <1>4
      <4> QED BY <3>1, <4>1
    <3> QED BY <3>2, <3>3, Zenon
  <2>3. ASSUME NEW m \in Nat, m \in T
        PROVE  m + 1 \in T
    <3>1. CASE m = 0
      BY <1>1, <1>4, <2>6, <3>1
    <3>2. CASE m # 0 /\ m + 1 <= n
      <4>1. m \in Nat \ {0} /\ m \in 1 .. n /\ m + 1 \in 1 .. n /\ m + 1 <= n + 1
        BY <1>1, <3>2
      <4>2. f[m] = g[m] /\ more[m + 1] = seqs[m + 1]
        BY <1>1, <2>3, <4>1
      <4>3. f[m + 1] = f[m] \o seqs[m + 1] /\ g[m + 1] = g[m] \o more[m + 1]
        <5>1. m + 1 <= n => f[m + 1] = f[m] \o seqs[m + 1]
          BY <2>6, <4>1, Zenon
        <5>2. m + 1 <= n + 1 => g[m + 1] = g[m] \o more[m + 1]
          BY <2>6, <4>1, Zenon
        <5> QED BY <3>2, <4>1, <5>1, <5>2, Zenon
      <4>4. f[m + 1] = g[m + 1]
        BY <4>2, <4>3, Zenon
      <4> QED BY <4>4
    <3>3. CASE ~ (m + 1 <= n)
      BY <1>1, <3>3
    <3> QED BY <3>1, <3>2, <3>3
  <2>4. n \in T
    <3> HIDE DEF T
    <3> QED BY <1>1, <2>2, <2>3, SetOfNaturals
  <2>5. g[n + 1] = g[n] \o s
    <3>1. n \in Nat \ {0} /\ n + 1 <= n + 1
      BY <1>1, <1>4
    <3> QED BY <1>1, <2>6, <3>1
  <2>7. f[n] = g[n]
    BY <1>1, <1>4, <2>4
  <2>8. FlattenSeq(more) = FlattenSeq(seqs) \o s
    BY <1>2, <2>1, <2>5, <2>7
  <2> QED BY <2>8 DEF more
<1> QED BY <1>3, <1>4

LEMMA FlattenJoins ==
  ASSUME NEW S, NEW seqs \in Seq(Seq(S)), NEW more \in Seq(Seq(S)),
         FlattenSeq(seqs) \in Seq(S)
  PROVE  /\ FlattenSeq(more) \in Seq(S)
         /\ FlattenSeq(seqs \o more) = FlattenSeq(seqs) \o FlattenSeq(more)
<1> DEFINE n == Len(more)
           Up(m) == SubSeq(more, 1, m)
           Joins(m) == /\ FlattenSeq(Up(m)) \in Seq(S)
                       /\ FlattenSeq(seqs \o Up(m)) = FlattenSeq(seqs) \o FlattenSeq(Up(m))
           T == {m \in Nat : m <= n => Joins(m)}
<1>1. n \in Nat
  OBVIOUS
<1>2. 0 \in T
  <2>1. Up(0) = <<>> /\ seqs \o Up(0) = seqs
    OBVIOUS
  <2>2. FlattenSeq(<<>>) = <<>>
    BY FlattenNothing
  <2>3. FlattenSeq(seqs) \o <<>> = FlattenSeq(seqs) /\ <<>> \in Seq(S)
    OBVIOUS
  <2> QED BY <2>1, <2>2, <2>3
<1>3. ASSUME NEW m \in Nat, m \in T
      PROVE  m + 1 \in T
  <2> SUFFICES ASSUME m + 1 <= n PROVE Joins(m + 1)
    OBVIOUS
  <2> DEFINE s == more[m + 1]
             t == Up(m)
  <2>1. s \in Seq(S) /\ t \in Seq(Seq(S)) /\ Up(m + 1) = Append(t, s)
    OBVIOUS
  <2>2. seqs \o Up(m + 1) = Append(seqs \o t, s)
    OBVIOUS
  <2>3. /\ FlattenSeq(t) \in Seq(S)
        /\ FlattenSeq(seqs \o t) = FlattenSeq(seqs) \o FlattenSeq(t)
    BY <1>1, <1>3
  <2> HIDE DEF s, t
  <2>4. /\ FlattenSeq(Append(t, s)) = FlattenSeq(t) \o s
        /\ FlattenSeq(Append(t, s)) \in Seq(S)
    BY <2>1, <2>3, FlattenAppends
  <2>5. FlattenSeq(Append(seqs \o t, s)) = FlattenSeq(seqs \o t) \o s
    <3>1. seqs \o t \in Seq(Seq(S))
      BY <2>1
    <3>2. FlattenSeq(seqs \o t) \in Seq(S)
      BY <2>3
    <3> QED BY <2>1, <3>1, <3>2, FlattenAppends
  <2>6. (FlattenSeq(seqs) \o FlattenSeq(t)) \o s = FlattenSeq(seqs) \o (FlattenSeq(t) \o s)
    <3>1. FlattenSeq(seqs) \in Seq(S) /\ FlattenSeq(t) \in Seq(S) /\ s \in Seq(S)
      BY <2>1, <2>3
    <3>2. PICK a \in Seq(S), b \in Seq(S) : a = FlattenSeq(seqs) /\ b = FlattenSeq(t)
      BY <3>1
    <3>3. (a \o b) \o s = a \o (b \o s)
      BY <2>1
    <3> QED BY <3>2, <3>3
  <2> QED BY <2>1, <2>2, <2>3, <2>4, <2>5, <2>6 DEF t
<1>4. n \in T
  <2> HIDE DEF T
  <2> QED BY <1>1, <1>2, <1>3, SetOfNaturals
<1>5. Up(n) = more
  OBVIOUS
<1>6. Joins(n)
  BY <1>1, <1>4
<1> HIDE DEF Up
<1> QED BY <1>5, <1>6

(* Flattening keeps the elements, whatever set they are taken from.        *)
LEMMA FlattenTypes ==
  ASSUME NEW S, NEW seqs \in Seq(Seq(S))
  PROVE  FlattenSeq(seqs) \in Seq(S)
<1>1. <<>> \in Seq(Seq(S)) /\ <<>> \in Seq(S)
  OBVIOUS
<1> QED BY <1>1, FlattenNothing, FlattenJoins

(* In flattened blocks of k elements, element o of block b has the place   *)
(* that one expects.                                                       *)
Place2(k, b, o) == IF k = 1 THEN b ELSE 2 * (b - 1) + o

InPlace(flat, seqs, k, m) ==
  /\ Len(flat) = IF k = 1 THEN m ELSE 2 * m
  /\ \A b \in 1 .. m, o \in 1 .. k : flat[Place2(k, b, o)] = seqs[b][o]

LEMMA FlattenBlocks ==
  ASSUME NEW S, NEW seqs \in Seq(Seq(S)), NEW k \in {1, 2},
         \A b \in 1 .. Len(seqs) : Len(seqs[b]) = k
  PROVE  FlattenSeq(seqs) \in Seq(S) /\ InPlace(FlattenSeq(seqs), seqs, k, Len(seqs))
<1> DEFINE n == Len(seqs)
<1>0. n \in Nat
  OBVIOUS
<1>1. CASE seqs = <<>>
  <2>1. FlattenSeq(seqs) = <<>> /\ n = 0
    BY <1>1 DEF FlattenSeq
  <2> QED BY <2>1 DEF InPlace
<1>2. CASE seqs # <<>>
  <2>1. PICK f : Flattens(f, seqs) /\ FlattenSeq(seqs) = f[n]
    BY <1>2, FlattenUnfolds
  <2>2. n >= 1
    BY <1>2
  <2> DEFINE T == {m \in Nat : m < n => f[m + 1] \in Seq(S) /\ InPlace(f[m + 1], seqs, k, m + 1)}
  <2>3. 0 \in T
    <3>1. f[1] = seqs[1] /\ seqs[1] \in Seq(S) /\ Len(seqs[1]) = k
      BY <2>1, <2>2 DEF Flattens
    <3>2. InPlace(f[1], seqs, k, 1)
      BY <3>1 DEF InPlace, Place2
    <3> QED BY <3>1, <3>2
  <2>4. ASSUME NEW m \in Nat, m \in T
        PROVE  m + 1 \in T
    <3> SUFFICES ASSUME m + 1 < n
                 PROVE  f[m + 2] \in Seq(S) /\ InPlace(f[m + 2], seqs, k, m + 2)
      <4>1. (m + 1) + 1 = m + 2 /\ m + 1 \in Nat
        OBVIOUS
      <4> QED BY <4>1
    <3> DEFINE g == f[m + 1]
               s == seqs[m + 2]
    <3>1. g \in Seq(S) /\ InPlace(g, seqs, k, m + 1)
      BY <1>0, <2>4
    <3>2. s \in Seq(S) /\ Len(s) = k
      BY <1>0
    <3>3. f[m + 2] = g \o s
      <4>1. m + 2 \in 1 .. n /\ m + 2 # 1 /\ (m + 2) - 1 = m + 1
        BY <1>0
      <4> QED BY <2>1, <4>1 DEF Flattens
    <3> HIDE DEF g, s
    <3>4. g \o s \in Seq(S)
      BY <3>1, <3>2
    <3>5. InPlace(g \o s, seqs, k, m + 2)
      <4>1. Len(g \o s) = IF k = 1 THEN m + 2 ELSE 2 * (m + 2)
        <5>1. Len(g \o s) = Len(g) + k
          BY <3>1, <3>2
        <5>2. Len(g) = IF k = 1 THEN m + 1 ELSE 2 * (m + 1)
          BY <3>1 DEF InPlace
        <5>3. (k = 1 => Len(g \o s) = m + 2) /\ (k = 2 => Len(g \o s) = 2 * (m + 2))
          BY <5>1, <5>2
        <5> QED BY <5>3
      <4>2. ASSUME NEW b \in 1 .. m + 2, NEW o \in 1 .. k
            PROVE  (g \o s)[Place2(k, b, o)] = seqs[b][o]
        <5>1. CASE b = m + 2
          <6>1. (g \o s)[Place2(k, b, o)] = s[o]
            BY <3>1, <3>2, <5>1 DEF InPlace, Place2
          <6> QED BY <5>1, <6>1 DEF s
        <5>2. CASE b # m + 2
          <6>1. b \in 1 .. m + 1 /\ Place2(k, b, o) \in 1 .. Len(g)
            BY <3>1, <5>2 DEF InPlace, Place2
          <6>2. (g \o s)[Place2(k, b, o)] = g[Place2(k, b, o)]
            BY <3>1, <3>2, <6>1
          <6> QED BY <3>1, <6>1, <6>2 DEF InPlace
        <5> QED BY <5>1, <5>2
      <4> QED BY <4>1, <4>2 DEF InPlace
    <3> QED BY <3>3, <3>4, <3>5
  <2>5. n - 1 \in T
    <3> HIDE DEF T
    <3>1. n - 1 \in Nat
      BY <1>0, <2>2
    <3> QED BY <2>3, <2>4, <3>1, SetOfNaturals
  <2>6. (n - 1) + 1 = n /\ n - 1 < n
    BY <1>0, <2>2
  <2> QED BY <2>1, <2>5, <2>6
<1> QED BY <1>1, <1>2
=============================================================================
