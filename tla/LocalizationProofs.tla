-------------------------- MODULE LocalizationProofs --------------------------
(***************************************************************************)
(* Lemmas about the operators of Localization, for any registry that the   *)
(* topology resolver accepts and any levels of its poles.                  *)
(***************************************************************************)
EXTENDS Localization, BasicLemmas, FunctionTheorems

-----------------------------------------------------------------------------
(* The ancestors of a pole.  Recursion ends because seq_on_line falls from *)
(* a pole to its parent.                                                   *)

(* Parent and order as ValidTopology has them.                             *)
InOrder(seqOnLine) ==
  /\ seqOnLine \in [Pole -> 0 .. Cardinality(Pole)]
  /\ \A p \in Pole : ParentOf(p) # NoPole =>
       /\ ParentOf(p) \in Pole /\ DTOf[ParentOf(p)] = DTOf[p]
       /\ seqOnLine[ParentOf(p)] < seqOnLine[p]

OneUp(f, p) ==
  IF ParentOf(p) = NoPole THEN <<>> ELSE <<ParentOf(p)>> \o f[ParentOf(p)]

LEMMA AncestorsExist ==
  ASSUME IsFiniteSet(Pole), NEW seqOnLine, InOrder(seqOnLine)
  PROVE  \E f : f = [p \in Pole |-> OneUp(f, p)]
<1> DEFINE Before(n) == {p \in Pole : seqOnLine[p] < n}
           S == {n \in Nat : \E f \in [Before(n) -> Seq(Pole)] :
                               \A p \in Before(n) : f[p] = OneUp(f, p)}
<1>0. Cardinality(Pole) \in Nat
  BY FS_CardinalityType
<1>1. 0 \in S
  <2>1. Before(0) = {}
    BY <1>0 DEF InOrder
  <2>2. [p \in {} |-> <<>>] \in [{} -> Seq(Pole)]
    OBVIOUS
  <2> QED BY <2>1, <2>2
<1>2. ASSUME NEW n \in Nat, n \in S
      PROVE  n + 1 \in S
  <2>1. PICK f \in [Before(n) -> Seq(Pole)] : \A p \in Before(n) : f[p] = OneUp(f, p)
    BY <1>2
  <2> DEFINE g == [p \in Before(n + 1) |-> OneUp(f, p)]
  <2>2. \A p \in Before(n + 1) : ParentOf(p) # NoPole =>
          ParentOf(p) \in Before(n) /\ ParentOf(p) \in Before(n + 1)
    BY <1>0 DEF InOrder
  <2>3. \A p \in Before(n + 1) : OneUp(f, p) \in Seq(Pole)
    BY <2>1, <2>2 DEF OneUp
  <2>4. g \in [Before(n + 1) -> Seq(Pole)]
    BY <2>3
  <2>5. \A p \in Before(n + 1) : g[p] = OneUp(g, p)
    <3>1. \A p \in Before(n + 1) : ParentOf(p) # NoPole => g[ParentOf(p)] = f[ParentOf(p)]
      BY <2>1, <2>2
    <3>2. \A p \in Before(n + 1) : g[p] = OneUp(f, p)
      OBVIOUS
    <3> QED BY <3>1, <3>2, Zenon DEF OneUp
  <2>6. \E h \in [Before(n + 1) -> Seq(Pole)] :
          \A p \in Before(n + 1) : h[p] = OneUp(h, p)
    <3> HIDE DEF g, Before
    <3> QED BY <2>4, <2>5
  <2>7. n + 1 \in Nat
    OBVIOUS
  <2> QED BY <2>6, <2>7, Zenon
<1>3. Cardinality(Pole) + 1 \in S
  <2> HIDE DEF S
  <2> QED BY <1>0, <1>1, <1>2, SetOfNaturals
<1>4. PICK f \in [Before(Cardinality(Pole) + 1) -> Seq(Pole)] :
        \A p \in Before(Cardinality(Pole) + 1) : f[p] = OneUp(f, p)
  BY <1>3
<1>5. Before(Cardinality(Pole) + 1) = Pole
  BY <1>0 DEF InOrder
<1> QED BY <1>4, <1>5

LEMMA AncestorsUnfold ==
  ASSUME IsFiniteSet(Pole), NEW seqOnLine, InOrder(seqOnLine)
  PROVE  \A p \in Pole : Ancestors[p] = OneUp(Ancestors, p)
<1>1. PICK f : f = [p \in Pole |-> OneUp(f, p)]
  BY AncestorsExist
<1>2. Ancestors = [p \in Pole |-> OneUp(Ancestors, p)]
  BY <1>1, Zenon DEF Ancestors, OneUp
<1> QED BY <1>2

(* The ancestors of a pole are poles of its transformer, in falling order  *)
(* of seq_on_line, from below that of the pole itself.                     *)
Ascends(seqOnLine, p) ==
  /\ Ancestors[p] \in Seq(Pole)
  /\ \A i \in DOMAIN Ancestors[p] :
       /\ DTOf[Ancestors[p][i]] = DTOf[p]
       /\ seqOnLine[Ancestors[p][i]] < seqOnLine[p]

LEMMA AncestorsAscend ==
  ASSUME IsFiniteSet(Pole), NEW seqOnLine, InOrder(seqOnLine)
  PROVE  \A p \in Pole : Ascends(seqOnLine, p)
<1> DEFINE Before(n) == {p \in Pole : seqOnLine[p] < n}
           S == {n \in Nat : \A p \in Before(n) : Ascends(seqOnLine, p)}
<1>0. Cardinality(Pole) \in Nat
  BY FS_CardinalityType
<1>1. 0 \in S
  BY <1>0 DEF InOrder
<1>2. ASSUME NEW n \in Nat, n \in S
      PROVE  n + 1 \in S
  <2>1. ASSUME NEW p \in Before(n + 1)
        PROVE  Ascends(seqOnLine, p)
    <3>1. Ancestors[p] = OneUp(Ancestors, p)
      BY AncestorsUnfold
    <3>2. CASE ParentOf(p) = NoPole
      BY <3>1, <3>2 DEF OneUp, Ascends
    <3>3. CASE ParentOf(p) # NoPole
      <4> DEFINE q == ParentOf(p)
      <4>1. /\ q \in Pole /\ DTOf[q] = DTOf[p] /\ seqOnLine[q] < seqOnLine[p]
            /\ seqOnLine[p] \in Nat /\ seqOnLine[q] \in Nat
        BY <1>0, <3>3 DEF InOrder
      <4>2. Ascends(seqOnLine, q)
        BY <1>2, <4>1
      <4>3. Ancestors[p] = <<q>> \o Ancestors[q]
        BY <3>1, <3>3 DEF OneUp
      <4> HIDE DEF q
      <4>4. Ancestors[p] \in Seq(Pole)
        BY <4>1, <4>2, <4>3 DEF Ascends
      <4>5. ASSUME NEW i \in DOMAIN Ancestors[p]
            PROVE  Ancestors[p][i] = q \/ \E k \in DOMAIN Ancestors[q] : Ancestors[p][i] = Ancestors[q][k]
        <5>1. i = 1 \/ i - 1 \in DOMAIN Ancestors[q]
          BY <4>1, <4>2, <4>3 DEF Ascends
        <5>2. Ancestors[p][i] = IF i = 1 THEN q ELSE Ancestors[q][i - 1]
          BY <4>1, <4>2, <4>3, <5>1 DEF Ascends
        <5> QED BY <5>1, <5>2
      <4>6. \A k \in DOMAIN Ancestors[q] :
              DTOf[Ancestors[q][k]] = DTOf[p] /\ seqOnLine[Ancestors[q][k]] < seqOnLine[p]
        <5>1. \A k \in DOMAIN Ancestors[q] : seqOnLine[Ancestors[q][k]] \in Nat
          BY <1>0, <4>2 DEF Ascends, InOrder
        <5> QED BY <4>1, <4>2, <5>1 DEF Ascends
      <4> QED BY <4>1, <4>4, <4>5, <4>6 DEF Ascends
    <3> QED BY <3>2, <3>3
  <2> QED BY <2>1
<1>3. Cardinality(Pole) + 1 \in S
  <2> HIDE DEF S
  <2> QED BY <1>0, <1>1, <1>2, SetOfNaturals
<1> QED BY <1>0, <1>3 DEF InOrder

(* All of a subtree hangs on one transformer.                              *)
LEMMA SubtreeOnOneTransformer ==
  ASSUME IsFiniteSet(Pole), ValidTopology, NEW p \in Pole
  PROVE  Subtree(p) \subseteq PolesOf(DTOf[p])
<1>1. PICK seqOnLine : InOrder(seqOnLine)
  BY DEF ValidTopology, InOrder
<1>2. \A q \in Pole : Ascends(seqOnLine, q)
  BY <1>1, AncestorsAscend
<1> QED BY <1>2 DEF Subtree, Above, PolesOf, Ascends

(* The ancestors of the i-th ancestor are the ancestors that follow it.    *)
Continues(p) ==
  \A i \in DOMAIN Ancestors[p] :
    LET up == Ancestors[Ancestors[p][i]]
    IN  /\ Len(up) = Len(Ancestors[p]) - i
        /\ \A k \in 1 .. Len(up) : up[k] = Ancestors[p][i + k]

LEMMA AncestorsContinue ==
  ASSUME IsFiniteSet(Pole), NEW seqOnLine, InOrder(seqOnLine)
  PROVE  \A p \in Pole : Continues(p)
<1> DEFINE Before(n) == {p \in Pole : seqOnLine[p] < n}
           S == {n \in Nat : \A p \in Before(n) : Continues(p)}
<1>0. Cardinality(Pole) \in Nat
  BY FS_CardinalityType
<1>1. 0 \in S
  BY <1>0 DEF InOrder
<1>2. ASSUME NEW n \in Nat, n \in S
      PROVE  n + 1 \in S
  <2>1. ASSUME NEW p \in Before(n + 1)
        PROVE  Continues(p)
    <3>1. Ancestors[p] = OneUp(Ancestors, p)
      BY AncestorsUnfold
    <3>2. CASE ParentOf(p) = NoPole
      BY <3>1, <3>2 DEF OneUp, Continues
    <3>3. CASE ParentOf(p) # NoPole
      <4> DEFINE q == ParentOf(p)
      <4>1. /\ q \in Pole /\ seqOnLine[q] < seqOnLine[p]
            /\ seqOnLine[p] \in Nat /\ seqOnLine[q] \in Nat
        BY <1>0, <3>3 DEF InOrder
      <4>2. Continues(q)
        BY <1>2, <4>1
      <4>3. Ancestors[p] = <<q>> \o Ancestors[q] /\ Ancestors[q] \in Seq(Pole)
        BY <3>1, <3>3, <4>1, AncestorsAscend DEF OneUp, Ascends
      <4> HIDE DEF q
      <4> DEFINE u == Ancestors[q]
                 n1 == Len(u)
      <4>4. /\ n1 \in Nat /\ DOMAIN u = 1 .. n1 /\ DOMAIN Ancestors[p] = 1 .. n1 + 1
            /\ Len(Ancestors[p]) = n1 + 1
            /\ Ancestors[p][1] = q /\ \A i \in 1 .. n1 : Ancestors[p][i + 1] = u[i]
        BY <4>1, <4>3
      <4> HIDE DEF n1
      <4>5. ASSUME NEW i \in DOMAIN Ancestors[p]
            PROVE  /\ Len(Ancestors[Ancestors[p][i]]) = Len(Ancestors[p]) - i
                   /\ \A k \in 1 .. Len(Ancestors[Ancestors[p][i]]) :
                        Ancestors[Ancestors[p][i]][k] = Ancestors[p][i + k]
        <5>1. CASE i = 1
          <6>1. Ancestors[Ancestors[p][i]] = u
            BY <4>4, <5>1
          <6> QED BY <4>4, <5>1, <6>1 DEF n1
        <5>2. CASE i # 1
          <6>1. i - 1 \in 1 .. n1 /\ (i - 1) + 1 = i /\ i \in Nat
            BY <4>4, <5>2
          <6>2. Ancestors[p][i] = u[i - 1]
            BY <4>4, <6>1
          <6> DEFINE v == Ancestors[u[i - 1]]
          <6>3. /\ Len(v) = n1 - (i - 1)
                /\ \A k \in 1 .. Len(v) : v[k] = u[(i - 1) + k]
            BY <4>2, <4>4, <6>1 DEF Continues, n1
          <6> HIDE DEF v
          <6>4. ASSUME NEW k \in 1 .. Len(v)
                PROVE  v[k] = Ancestors[p][i + k]
            <7>1. (i - 1) + k \in 1 .. n1 /\ ((i - 1) + k) + 1 = i + k
              <8>1. k \in 1 .. n1 - (i - 1)
                BY <6>3
              <8> QED BY <4>4, <6>1, <8>1
            <7> QED BY <4>4, <6>3, <7>1
          <6> QED BY <4>4, <6>1, <6>2, <6>3, <6>4 DEF v
        <5> QED BY <5>1, <5>2
      <4> QED BY <4>5 DEF Continues
    <3> QED BY <3>2, <3>3
  <2> QED BY <2>1
<1>3. Cardinality(Pole) + 1 \in S
  <2> HIDE DEF S
  <2> QED BY <1>0, <1>1, <1>2, SetOfNaturals
<1> QED BY <1>0, <1>3 DEF InOrder

(* Being above is a strict order; the poles above one pole are in line, in *)
(* the order in which the walk passes them.                                *)
TreeOrder ==
  /\ \A p \in Pole : Ancestors[p] \in Seq(Pole)
  /\ \A p \in Pole : \A a : Above(a, p) => a \in PolesOf(DTOf[p]) /\ ~Above(p, a)
  /\ \A p \in Pole : \A a, b : Above(b, p) /\ Above(a, b) => Above(a, p)
  /\ \A p \in Pole : \A a, b : Above(a, p) /\ Above(b, p) => a = b \/ Above(a, b) \/ Above(b, a)
  /\ \A p \in Pole : \A i, k \in DOMAIN Ancestors[p] :
       Above(Ancestors[p][k], Ancestors[p][i]) <=> i < k

LEMMA TreeIsOrdered ==
  ASSUME IsFiniteSet(Pole), ValidTopology
  PROVE  TreeOrder
<1>1. PICK seqOnLine : InOrder(seqOnLine)
  BY DEF ValidTopology, InOrder
<1>2. \A p \in Pole : Ascends(seqOnLine, p) /\ Continues(p)
  BY <1>1, AncestorsAscend, AncestorsContinue
<1>3. \A p \in Pole : seqOnLine[p] \in Int
  <2>1. Cardinality(Pole) \in Nat
    BY FS_CardinalityType
  <2> QED BY <1>1, <2>1 DEF InOrder
<1>4. ASSUME NEW p \in Pole, NEW a, Above(a, p)
      PROVE  a \in PolesOf(DTOf[p]) /\ seqOnLine[a] < seqOnLine[p]
  BY <1>2, <1>4 DEF Above, Ascends, PolesOf
<1>5. ASSUME NEW p \in Pole, NEW i \in DOMAIN Ancestors[p], NEW k \in DOMAIN Ancestors[p]
      PROVE  Above(Ancestors[p][k], Ancestors[p][i]) <=> i < k
  <2> DEFINE up == Ancestors[p]
             v == Ancestors[up[i]]
  <2>1. /\ up \in Seq(Pole) /\ up[i] \in Pole /\ v \in Seq(Pole)
        /\ Len(v) = Len(up) - i /\ \A j \in 1 .. Len(v) : v[j] = up[i + j]
        /\ i \in 1 .. Len(up) /\ k \in 1 .. Len(up) /\ DOMAIN v = 1 .. Len(v)
        /\ Len(up) \in Nat
    BY <1>2 DEF Ascends, Continues
  <2>2. ASSUME i < k PROVE Above(up[k], up[i])
    <3>1. k - i \in 1 .. Len(v) /\ i + (k - i) = k
      BY <2>1, <2>2
    <3>2. v[k - i] = up[k]
      BY <2>1, <3>1
    <3> QED BY <2>1, <3>1, <3>2 DEF Above
  <2>3. ASSUME Above(up[k], up[i]), ~(i < k) PROVE FALSE
    <3>1. seqOnLine[up[k]] < seqOnLine[up[i]]
      BY <1>4, <2>1, <2>3
    <3>2. CASE i = k
      BY <1>3, <2>1, <3>1, <3>2
    <3>3. CASE k < i
      <4> DEFINE w == Ancestors[up[k]]
      <4>1. /\ up[k] \in Pole /\ w \in Seq(Pole) /\ Len(w) = Len(up) - k
            /\ \A j \in 1 .. Len(w) : w[j] = up[k + j]
        <5>1. up[k] \in Pole /\ k \in DOMAIN up
          BY <2>1
        <5>2. Continues(p)
          BY <1>2
        <5>3. Len(w) = Len(up) - k /\ \A j \in 1 .. Len(w) : w[j] = up[k + j]
          BY <5>1, <5>2 DEF Continues
        <5> QED BY <1>2, <5>1, <5>3 DEF Ascends
      <4>2. i - k \in 1 .. Len(w) /\ k + (i - k) = i
        BY <2>1, <3>3, <4>1
      <4>3. w[i - k] = up[i]
        BY <4>1, <4>2
      <4>4. Above(up[i], up[k])
        BY <4>1, <4>2, <4>3 DEF Above
      <4>5. seqOnLine[up[i]] < seqOnLine[up[k]]
        BY <1>4, <4>1, <4>4
      <4> QED BY <1>3, <2>1, <3>1, <4>1, <4>5
    <3> QED BY <2>1, <2>3, <3>2, <3>3
  <2> QED BY <2>2, <2>3
<1>6. ASSUME NEW p \in Pole, NEW a, NEW b, Above(b, p), Above(a, b)
      PROVE  Above(a, p)
  <2>1. PICK i \in DOMAIN Ancestors[p] : Ancestors[p][i] = b
    BY <1>6 DEF Above
  <2>2. b \in Pole
    BY <1>4, <1>6 DEF PolesOf
  <2>3. PICK j \in DOMAIN Ancestors[b] : Ancestors[b][j] = a
    BY <1>6 DEF Above
  <2>4. /\ j \in 1 .. Len(Ancestors[b]) /\ Len(Ancestors[b]) = Len(Ancestors[p]) - i
        /\ Ancestors[b][j] = Ancestors[p][i + j] /\ i \in 1 .. Len(Ancestors[p])
        /\ Len(Ancestors[p]) \in Nat /\ DOMAIN Ancestors[p] = 1 .. Len(Ancestors[p])
    <3>1. Ancestors[b] \in Seq(Pole) /\ Ancestors[p] \in Seq(Pole)
      BY <1>2, <2>2 DEF Ascends
    <3>2. j \in 1 .. Len(Ancestors[b]) /\ i \in 1 .. Len(Ancestors[p])
      BY <2>1, <2>3, <3>1
    <3>3. /\ Len(Ancestors[b]) = Len(Ancestors[p]) - i
          /\ \A k \in 1 .. Len(Ancestors[b]) : Ancestors[b][k] = Ancestors[p][i + k]
      BY <1>2, <2>1 DEF Continues
    <3> QED BY <3>1, <3>2, <3>3
  <2>5. i + j \in DOMAIN Ancestors[p]
    BY <2>4
  <2> QED BY <2>3, <2>4, <2>5 DEF Above
<1>7. ASSUME NEW p \in Pole, NEW a, NEW b, Above(a, p), Above(b, p)
      PROVE  a = b \/ Above(a, b) \/ Above(b, a)
  <2>1. PICK i \in DOMAIN Ancestors[p], k \in DOMAIN Ancestors[p] :
          Ancestors[p][i] = a /\ Ancestors[p][k] = b
    BY <1>7 DEF Above
  <2>2. i \in Int /\ k \in Int
    BY <1>2 DEF Ascends
  <2> QED BY <1>5, <2>1, <2>2
<1>8. ASSUME NEW p \in Pole, NEW a, Above(a, p)
      PROVE  a \in PolesOf(DTOf[p]) /\ ~Above(p, a)
  <2>1. a \in PolesOf(DTOf[p]) /\ a \in Pole /\ seqOnLine[a] < seqOnLine[p]
    BY <1>4, <1>8 DEF PolesOf
  <2>2. Above(p, a) => seqOnLine[p] < seqOnLine[a]
    BY <1>4, <2>1
  <2> QED BY <1>3, <2>1, <2>2
<1>9. \A p \in Pole : Ancestors[p] \in Seq(Pole)
  BY <1>2 DEF Ascends
<1> QED BY <1>5, <1>6, <1>7, <1>8, <1>9 DEF TreeOrder

-----------------------------------------------------------------------------
(* Boundaries and candidates.                                              *)

(* Whether the walk up from p looks at its i-th ancestor, and what it       *)
(* takes it for.                                                           *)
Looks(in, p, i) == Ancestors[p][i] \notin in.suppressed
SeesLive(in, p, i) == Looks(in, p, i) /\ in.energized[Ancestors[p][i]] = "LIVE"
SeesDark(in, p, i) == Looks(in, p, i) /\ IsDark(in.energized[Ancestors[p][i]])

(* b is what the walk from p finds when the m-th ancestor is the first     *)
(* that is live.                                                           *)
WalksTo(in, p, b, m) ==
  /\ m \in DOMAIN Ancestors[p] /\ SeesLive(in, p, m)
  /\ \A i \in 1 .. m - 1 : ~SeesLive(in, p, i)
  /\ b.from = p /\ b.lastLive = Ancestors[p][m]
  /\ \/ b.firstDark = p /\ \A i \in 1 .. m - 1 : ~SeesDark(in, p, i)
     \/ \E d \in 1 .. m - 1 :
          /\ b.firstDark = Ancestors[p][d] /\ SeesDark(in, p, d)
          /\ \A i \in d + 1 .. m - 1 : ~SeesDark(in, p, i)
  /\ b.unmonitored = {Ancestors[p][i] : i \in {k \in 1 .. m - 1 : Looks(in, p, k)}} \ Monitored

LEMMA BoundaryIsWalk ==
  ASSUME NEW in, NEW p \in Pole, Ancestors[p] \in Seq(Pole)
  PROVE  /\ \A b \in FindBoundary(in, p) : \E m \in DOMAIN Ancestors[p] : WalksTo(in, p, b, m)
         /\ \A i \in DOMAIN Ancestors[p] : SeesLive(in, p, i) => FindBoundary(in, p) # {}
<1> DEFINE up == Ancestors[p]
           live == {i \in DOMAIN up : up[i] \notin in.suppressed /\ in.energized[up[i]] = "LIVE"}
           m == Min(live)
           passed == {i \in 1 .. m - 1 : up[i] \notin in.suppressed}
           dark == {i \in passed : IsDark(in.energized[up[i]])}
<1>1. live = {i \in DOMAIN up : SeesLive(in, p, i)}
  BY DEF SeesLive, Looks
<1>2. live = {} => FindBoundary(in, p) = {}
  BY DEF FindBoundary
<1>3. live # {} => FindBoundary(in, p) =
        {[from |-> p, lastLive |-> up[m],
          firstDark |-> IF dark = {} THEN p ELSE up[Max(dark)],
          unmonitored |-> {up[i] : i \in passed} \ Monitored]}
  BY DEF FindBoundary
<1> HIDE DEF live
<1>4. ASSUME live # {}, NEW b \in FindBoundary(in, p)
      PROVE  WalksTo(in, p, b, m)
  <2>1. live \in SUBSET Nat
    BY <1>1
  <2>2. m \in live /\ \A i \in live : m <= i
    BY <1>4, <2>1, MinOfNaturals
  <2> HIDE DEF m
  <2>3. /\ m \in DOMAIN up /\ m \in Nat /\ SeesLive(in, p, m)
        /\ \A i \in 1 .. m - 1 : i \in DOMAIN up /\ ~SeesLive(in, p, i)
    BY <1>1, <2>1, <2>2
  <2>4. dark = {i \in 1 .. m - 1 : SeesDark(in, p, i)}
    BY DEF SeesDark, Looks
  <2>5. passed = {i \in 1 .. m - 1 : Looks(in, p, i)}
    BY DEF Looks
  <2> HIDE DEF dark, passed
  <2>6. /\ b.from = p /\ b.lastLive = up[m]
        /\ b.firstDark = IF dark = {} THEN p ELSE up[Max(dark)]
        /\ b.unmonitored = {up[i] : i \in passed} \ Monitored
    <3> DEFINE unmonitored == {up[i] : i \in passed} \ Monitored
    <3> HIDE DEF unmonitored
    <3>1. b = [from |-> p, lastLive |-> up[m],
               firstDark |-> IF dark = {} THEN p ELSE up[Max(dark)],
               unmonitored |-> unmonitored]
      BY <1>3, <1>4, Zenon DEF unmonitored
    <3> QED BY <3>1 DEF unmonitored
  <2>7. CASE dark = {}
    BY <2>3, <2>4, <2>5, <2>6, <2>7 DEF WalksTo
  <2>8. CASE dark # {}
    <3>1. Max(dark) \in dark /\ \A i \in dark : i <= Max(dark)
      <4>1. m - 1 \in Int /\ dark \in SUBSET (1 .. m - 1)
        BY <2>3, <2>4
      <4> QED BY <2>8, <4>1, MaxOfInterval
    <3> DEFINE d == Max(dark)
    <3> HIDE DEF d
    <3>2. d \in 1 .. m - 1 /\ SeesDark(in, p, d) /\ b.firstDark = up[d]
      BY <2>4, <2>6, <2>8, <3>1 DEF d
    <3>3. \A i \in d + 1 .. m - 1 : ~SeesDark(in, p, i)
      BY <2>3, <2>4, <3>1, <3>2 DEF d
    <3> QED BY <2>3, <2>5, <2>6, <3>2, <3>3 DEF WalksTo
  <2> QED BY <2>7, <2>8
<1>5. live # {} => m \in DOMAIN up
  BY <1>1, MinOfNaturals
<1> QED BY <1>1, <1>2, <1>3, <1>4, <1>5

(* Both ends of a boundary are poles of the transformer of the dark pole   *)
(* it was found from.                                                      *)
LEMMA BoundaryOnOneTransformer ==
  ASSUME IsFiniteSet(Pole), ValidTopology,
         NEW in, NEW p \in Pole, NEW b \in FindBoundary(in, p)
  PROVE  /\ b.lastLive \in PolesOf(DTOf[p])
         /\ b.firstDark \in PolesOf(DTOf[p])
<1>1. PICK seqOnLine : InOrder(seqOnLine)
  BY DEF ValidTopology, InOrder
<1>2. Ascends(seqOnLine, p)
  BY <1>1, AncestorsAscend
<1>3. \A i \in DOMAIN Ancestors[p] : Ancestors[p][i] \in PolesOf(DTOf[p])
  BY <1>2 DEF Ascends, PolesOf
<1>4. PICK m \in DOMAIN Ancestors[p] : WalksTo(in, p, b, m)
  BY <1>2, BoundaryIsWalk DEF Ascends
<1>5. \A i \in 1 .. m - 1 : i \in DOMAIN Ancestors[p]
  BY <1>2, <1>4 DEF Ascends
<1> QED BY <1>3, <1>4, <1>5 DEF WalksTo, PolesOf

(* A boundary in terms of what is above what: its ends are the nearest     *)
(* live pole above the pole it was found from and the highest dark one     *)
(* below that.                                                             *)
SaysLive(in, q) == q \notin in.suppressed /\ in.energized[q] = "LIVE"

EndsOf(in, p, b) ==
  /\ b.from = p /\ b.lastLive \in PolesOf(in.dt)
  /\ Above(b.lastLive, p) /\ SaysLive(in, b.lastLive)
  /\ b.firstDark \in DarkPoles(in) /\ Above(b.lastLive, b.firstDark)
  /\ b.firstDark = p \/ Above(b.firstDark, p)
  /\ \A q : Above(b.lastLive, q) /\ Above(q, p) =>
       /\ ~SaysLive(in, q)
       /\ q \in DarkPoles(in) => q = b.firstDark \/ Above(b.firstDark, q)
       /\ q \notin in.suppressed \cup Monitored => q \in b.unmonitored

LEMMA BoundaryEnds ==
  ASSUME IsFiniteSet(Pole), ValidTopology, NEW in, NEW p \in DarkPoles(in)
  PROVE  /\ \A b \in FindBoundary(in, p) : EndsOf(in, p, b)
         /\ \A b, c \in FindBoundary(in, p) : b = c
         /\ \A a : Above(a, p) /\ SaysLive(in, a) => FindBoundary(in, p) # {}
<1>1. p \in Pole /\ DTOf[p] = in.dt
  BY DEF DarkPoles, DarkIn, PolesOf
<1>2. TreeOrder
  BY TreeIsOrdered
<1> DEFINE up == Ancestors[p]
<1>3. up \in Seq(Pole)
  BY <1>1, <1>2 DEF TreeOrder
<1>4. \A i \in DOMAIN up : i \in Nat /\ up[i] \in Pole /\ up[i] \in PolesOf(in.dt) /\ Above(up[i], p)
  <2>1. \A i \in DOMAIN up : i \in Nat /\ up[i] \in Pole /\ Above(up[i], p)
    BY <1>3 DEF Above
  <2> QED BY <1>1, <1>2, <2>1 DEF TreeOrder
<1>5. \A i, k \in DOMAIN up : Above(up[k], up[i]) <=> i < k
  BY <1>1, <1>2 DEF TreeOrder
<1>6. \A i \in DOMAIN up : /\ SeesLive(in, p, i) <=> SaysLive(in, up[i])
                           /\ SeesDark(in, p, i) <=> up[i] \in DarkPoles(in)
  BY <1>4 DEF SeesLive, SeesDark, Looks, SaysLive, DarkPoles, DarkIn
<1>7. ASSUME NEW b \in FindBoundary(in, p)
      PROVE  EndsOf(in, p, b)
  <2>1. PICK m \in DOMAIN up : WalksTo(in, p, b, m)
    BY <1>1, <1>3, BoundaryIsWalk
  <2>2. \A i \in 1 .. m - 1 : i \in DOMAIN up
    BY <1>3, <2>1
  <2>3. /\ b.from = p /\ b.lastLive = up[m] /\ SaysLive(in, up[m])
        /\ \A i \in 1 .. m - 1 : ~SaysLive(in, up[i])
    BY <1>6, <2>1, <2>2 DEF WalksTo
  <2>4. ASSUME NEW q, Above(up[m], q), Above(q, p)
        PROVE  \E i \in 1 .. m - 1 : up[i] = q
    <3>1. PICK i \in DOMAIN up : up[i] = q
      BY <2>4 DEF Above
    <3>2. i < m
      BY <1>5, <2>4, <3>1
    <3>3. i \in 1 .. m - 1
      BY <1>3, <1>4, <2>1, <3>1, <3>2
    <3> QED BY <3>1, <3>3
  <2>5. /\ b.firstDark \in DarkPoles(in) /\ Above(up[m], b.firstDark)
        /\ b.firstDark = p \/ Above(b.firstDark, p)
        /\ \A i \in 1 .. m - 1 :
             up[i] \in DarkPoles(in) => up[i] = b.firstDark \/ Above(b.firstDark, up[i])
    <3>1. CASE b.firstDark = p /\ \A i \in 1 .. m - 1 : ~SeesDark(in, p, i)
      BY <1>4, <1>6, <2>1, <2>2, <3>1
    <3>2. CASE \E d \in 1 .. m - 1 :
                 /\ b.firstDark = up[d] /\ SeesDark(in, p, d)
                 /\ \A i \in d + 1 .. m - 1 : ~SeesDark(in, p, i)
      <4>1. PICK d \in 1 .. m - 1 :
              /\ b.firstDark = up[d] /\ SeesDark(in, p, d)
              /\ \A i \in d + 1 .. m - 1 : ~SeesDark(in, p, i)
        BY <3>2
      <4>2. d \in DOMAIN up /\ d < m /\ d \in Nat /\ m \in Nat
        BY <1>4, <2>1, <2>2
      <4>3. ASSUME NEW i \in 1 .. m - 1, up[i] \in DarkPoles(in)
            PROVE  up[i] = up[d] \/ Above(up[d], up[i])
        <5>1. i \in DOMAIN up /\ SeesDark(in, p, i)
          BY <1>6, <2>2, <4>3
        <5>2. i <= d
          BY <4>1, <4>2, <5>1
        <5>3. i = d \/ i < d
          BY <4>2, <5>2
        <5> QED BY <1>5, <4>2, <5>1, <5>3
      <4> QED BY <1>4, <1>5, <1>6, <2>1, <4>1, <4>2, <4>3
    <3> QED BY <2>1, <3>1, <3>2 DEF WalksTo
  <2>6. \A i \in 1 .. m - 1 :
          up[i] \notin in.suppressed \cup Monitored => up[i] \in b.unmonitored
    BY <2>1 DEF WalksTo, Looks
  <2> QED BY <1>4, <2>1, <2>3, <2>4, <2>5, <2>6 DEF EndsOf
<1>8. \A b, c \in FindBoundary(in, p) : b = c
  BY DEF FindBoundary
<1>9. ASSUME NEW a, Above(a, p), SaysLive(in, a)
      PROVE  FindBoundary(in, p) # {}
  <2>1. PICK i \in DOMAIN up : up[i] = a
    BY <1>9 DEF Above
  <2>2. SeesLive(in, p, i)
    BY <1>6, <1>9, <2>1
  <2> QED BY <1>1, <1>3, <2>1, <2>2, BoundaryIsWalk
<1> QED BY <1>7, <1>8, <1>9

(* One group for each pair of ends.                                        *)
SameEnds(b, c) == b.lastLive = c.lastLive /\ b.firstDark = c.firstDark

LEMMA GroupForEachPair ==
  ASSUME IsFiniteSet(Pole), ValidTopology, Pole \subseteq Nat, NEW in
  PROVE  /\ \A b \in Boundaries(in) : \E g \in Groups(in) : SameEnds(g, b)
         /\ \A g, h \in Groups(in) : SameEnds(g, h) => g = h
         /\ \A g \in Groups(in) : g.from \in DarkPoles(in) /\ EndsOf(in, g.from, g)
<1>1. \A b \in Boundaries(in) :
        b.from \in DarkPoles(in) /\ EndsOf(in, b.from, b) /\ b \in FindBoundary(in, b.from)
  <2> SUFFICES ASSUME NEW p \in DarkPoles(in), NEW b \in FindBoundary(in, p)
               PROVE  b.from = p /\ EndsOf(in, p, b)
    BY DEF Boundaries
  <2> QED BY BoundaryEnds DEF EndsOf
<1>2. DarkPoles(in) \subseteq Nat
  BY DEF DarkPoles, DarkIn, PolesOf
<1>3. ASSUME NEW b \in Boundaries(in)
      PROVE  \E g \in Groups(in) : SameEnds(g, b)
  <2> DEFINE S == {c.from : c \in {x \in Boundaries(in) : SameEnds(x, b)}}
  <2>1. S \in SUBSET Nat /\ b.from \in S
    BY <1>1, <1>2 DEF SameEnds
  <2>2. PICK n \in S : \A k \in S : n <= k
    BY <2>1, LeastNatural
  <2>3. PICK g \in Boundaries(in) : SameEnds(g, b) /\ g.from = n
    OBVIOUS
  <2>4. \A c \in Boundaries(in) :
          c.lastLive = g.lastLive /\ c.firstDark = g.firstDark => g.from <= c.from
    BY <2>2, <2>3 DEF SameEnds
  <2> QED BY <2>3, <2>4 DEF Groups
<1>4. ASSUME NEW g \in Groups(in), NEW h \in Groups(in), SameEnds(g, h)
      PROVE  g = h
  <2>1. g \in Boundaries(in) /\ h \in Boundaries(in) /\ g.from <= h.from /\ h.from <= g.from
    BY <1>4 DEF Groups, SameEnds
  <2>2. g.from = h.from
    BY <1>1, <1>2, <2>1
  <2> QED BY <1>1, <2>1, <2>2, BoundaryEnds
<1>5. \A g \in Groups(in) : g \in Boundaries(in)
  BY DEF Groups
<1> QED BY <1>1, <1>3, <1>4, <1>5

(* The columns of a candidate are what the schema says.                    *)
CandidateType ==
  [type : {"span", "dt", "feeder"}, at : Transformer \cup Feeder,
   spanA : Pole \cup {NoPole}, spanB : Pole \cup {NoPole},
   affected : SUBSET Pole]

(* What a candidate says of its place, confidence left out.                *)
Place(c) == [type |-> c.type, at |-> c.at, spanA |-> c.spanA, spanB |-> c.spanB,
             affected |-> c.affected]

LEMMA LocalizeDTFacts ==
  ASSUME IsFiniteSet(Pole), ValidTopology,
         NEW t \in Transformer, NEW energized, NEW stale, NEW outages,
         NEW c \in LocalizeDT(DTInput(t, energized, stale, outages))
  PROVE  /\ Place(c) \in CandidateType
         /\ c.type # "feeder" /\ c.at = t
         /\ c.affected \subseteq PolesOf(t)
         /\ ~OutageCovers(outages, t)
<1> DEFINE in == DTInput(t, energized, stale, outages)
<1>0. in.dt = t /\ in.suppressed = SuppressionContext(t, energized, outages)
  BY DEF DTInput
<1>1. DarkPoles(in) \subseteq PolesOf(t) /\ DarkPoles(in) # {}
  BY <1>0 DEF DarkPoles, DarkIn, LocalizeDT
<1>2. ~OutageCovers(outages, t)
  BY <1>0, <1>1 DEF DarkPoles, DarkIn, SuppressionContext
<1>3. PolesOf(t) \subseteq Pole
  BY DEF PolesOf
<1>4. CASE \E b \in Groups(in) : c = SpanCandidate(in, b)
  <2>1. PICK b \in Groups(in) : c = SpanCandidate(in, b)
    BY <1>4
  <2>2. PICK p \in DarkPoles(in) : b \in FindBoundary(in, p)
    BY DEF Groups, Boundaries
  <2>3. p \in Pole /\ DTOf[p] = t
    BY <1>1, <2>2 DEF PolesOf
  <2>4. b.lastLive \in PolesOf(t) /\ b.firstDark \in PolesOf(t)
    BY <2>2, <2>3, BoundaryOnOneTransformer
  <2>5. Subtree(b.firstDark) \subseteq PolesOf(t)
    BY <2>4, SubtreeOnOneTransformer DEF PolesOf
  <2>6. /\ c.type = "span" /\ c.at = t /\ c.affected = Subtree(b.firstDark)
        /\ c.spanA = b.lastLive /\ c.spanB = b.firstDark
    BY <1>0, <2>1 DEF SpanCandidate
  <2> QED BY <1>2, <1>3, <2>4, <2>5, <2>6 DEF Place, CandidateType
<1>5. CASE \E source, affected : affected \subseteq PolesOf(t)
             /\ c = AreaCandidate("dt", t, source, in, affected)
  BY <1>2, <1>3, <1>5 DEF AreaCandidate, Place, CandidateType
<1>6. (\E b \in Groups(in) : c = SpanCandidate(in, b))
      \/ (\E source, affected : affected \subseteq PolesOf(t)
             /\ c = AreaCandidate("dt", t, source, in, affected))
  BY <1>0, <1>1 DEF LocalizeDT
<1> QED BY <1>4, <1>5, <1>6

LEMMA LocalizeFeederFacts ==
  ASSUME NEW f \in Feeder, NEW energized, NEW stale, NEW outages,
         NEW c \in LocalizeFeeder(f, energized, stale, outages)
  PROVE  /\ Place(c) \in CandidateType
         /\ c.type = "feeder" /\ c.at = f /\ c.spanA = NoPole /\ c.spanB = NoPole
         /\ \A p \in c.affected : ~OutageCovers(outages, DTOf[p])
<1> DEFINE ts == {t \in Transformer : FeederOf[t] = f}
           fullyDark == {t \in ts : IsDTFullyDark(DTInput(t, energized, stale, outages))}
           affected == UNION {PolesOf(t) : t \in fullyDark}
<1>1. ASSUME NEW t \in fullyDark
      PROVE  ~OutageCovers(outages, t)
  <2>1. DTInput(t, energized, stale, outages).suppressed = SuppressionContext(t, energized, outages)
    BY DEF DTInput
  <2>2. DTInput(t, energized, stale, outages).dt = t
    BY DEF DTInput
  <2> QED BY <2>1, <2>2 DEF IsDTFullyDark, SuppressionContext
<1>2. \A p \in affected : p \in Pole /\ ~OutageCovers(outages, DTOf[p])
  BY <1>1 DEF PolesOf
<1>3. \E source, in : c = AreaCandidate("feeder", f, source, in, affected)
  <2> HIDE DEF affected
  <2> QED BY DEF LocalizeFeeder, affected
<1> HIDE DEF affected
<1>4. /\ c.type = "feeder" /\ c.at = f /\ c.spanA = NoPole /\ c.spanB = NoPole
      /\ c.affected = affected
  BY <1>3 DEF AreaCandidate
<1>5. affected \in SUBSET Pole
  BY <1>2
<1> QED BY <1>2, <1>4, <1>5 DEF Place, CandidateType

(* Every candidate is one that a row of faults can hold, and none names a  *)
(* pole whose transformer or feeder is out.                                *)
LEMMA CandidateFacts ==
  ASSUME IsFiniteSet(Pole), ValidTopology,
         DTOf \in [Pole -> Transformer], FeederOf \in [Transformer -> Feeder],
         NEW t \in Transformer, NEW energized, NEW stale, NEW outages,
         NEW c \in Candidates(t, energized, stale, outages)
  PROVE  /\ Place(c) \in CandidateType
         /\ \A p \in c.affected : ~OutageCovers(outages, DTOf[p])
<1>1. CASE c \in LocalizeDT(DTInput(t, energized, stale, outages))
  BY <1>1, LocalizeDTFacts DEF PolesOf
<1>2. CASE c \in LocalizeFeeder(FeederOf[t], energized, stale, outages)
  BY <1>2, LocalizeFeederFacts
<1> QED BY <1>1, <1>2 DEF Candidates

LEMMA FiniteCandidates ==
  ASSUME IsFiniteSet(Pole), NEW t, NEW energized, NEW stale, NEW outages
  PROVE  IsFiniteSet(Candidates(t, energized, stale, outages))
<1> DEFINE in == DTInput(t, energized, stale, outages)
<1> HIDE DEF in
<1>1. IsFiniteSet(Boundaries(in))
  <2> DEFINE f == [p \in DarkPoles(in) |-> FindBoundary(in, p)]
  <2>1. IsFiniteSet(DarkPoles(in))
    BY FS_Subset DEF DarkPoles, DarkIn, PolesOf
  <2>2. IsFiniteSet({f[p] : p \in DOMAIN f})
    BY <2>1, FiniteImage
  <2>3. \A p \in DarkPoles(in) : IsFiniteSet(FindBoundary(in, p))
    BY FS_EmptySet, FS_Singleton DEF FindBoundary
  <2>4. {f[p] : p \in DOMAIN f} = {FindBoundary(in, p) : p \in DarkPoles(in)}
    OBVIOUS
  <2> QED BY <2>2, <2>3, <2>4, FS_UNION DEF Boundaries
<1>2. IsFiniteSet({SpanCandidate(in, b) : b \in Groups(in)})
  <2> DEFINE f == [b \in Groups(in) |-> SpanCandidate(in, b)]
  <2>1. IsFiniteSet(Groups(in))
    BY <1>1, FS_Subset DEF Groups
  <2>2. IsFiniteSet({f[b] : b \in DOMAIN f})
    BY <2>1, FiniteImage
  <2> QED BY <2>2
<1>3. IsFiniteSet(LocalizeDT(in))
  BY <1>2, FS_EmptySet, FS_Singleton DEF LocalizeDT
<1>4. IsFiniteSet(LocalizeFeeder(FeederOf[t], energized, stale, outages))
  BY FS_EmptySet, FS_Singleton DEF LocalizeFeeder
<1> QED BY <1>3, <1>4 DEF Candidates, in

-----------------------------------------------------------------------------
(* What localization of a transformer depends on: the levels of its own    *)
(* poles, and for its feeder those of all poles.                           *)

LEMMA ChildrenOnOneTransformer ==
  ASSUME ValidTopology, NoPole \notin Pole, NEW p \in Pole
  PROVE  Children(p) \subseteq PolesOf(DTOf[p])
BY DEF ValidTopology, Children, PolesOf

SameLevels(t, e, f) == \A q \in PolesOf(t) : e[q] = f[q]

LEMMA SameInput ==
  ASSUME IsFiniteSet(Pole), ValidTopology, NoPole \notin Pole,
         NEW t \in Transformer, NEW e, NEW f, SameLevels(t, e, f),
         NEW stale, NEW outages,
         NEW a, a = DTInput(t, e, stale, outages), NEW b, b = DTInput(t, f, stale, outages)
  PROVE  /\ a.dt = t /\ b.dt = t
         /\ DarkPoles(b) = DarkPoles(a)
         /\ IsDTFullyDark(b) = IsDTFullyDark(a)
         /\ Groups(b) = Groups(a)
<1>0. /\ a.dt = t /\ b.dt = t /\ a.energized = e /\ b.energized = f
      /\ a.suppressed = SuppressionContext(t, e, outages)
      /\ b.suppressed = SuppressionContext(t, f, outages)
  BY DEF DTInput
<1>1. \A p \in PolesOf(t) : DeadSensor(f, p) <=> DeadSensor(e, p)
  <2> TAKE p \in PolesOf(t)
  <2>1. Children(p) \subseteq PolesOf(t)
    BY ChildrenOnOneTransformer DEF PolesOf
  <2> QED BY <2>1 DEF DeadSensor, SameLevels
<1>2. b.suppressed = a.suppressed
  BY <1>0, <1>1 DEF SuppressionContext
<1>3. DarkPoles(b) = DarkPoles(a)
  BY <1>0, <1>2 DEF DarkPoles, DarkIn, SameLevels
<1>4. IsDTFullyDark(b) = IsDTFullyDark(a)
  BY <1>0, <1>2, <1>3 DEF IsDTFullyDark
<1>5. ASSUME NEW p \in PolesOf(t)
      PROVE  FindBoundary(b, p) = FindBoundary(a, p)
  <2>1. PICK seqOnLine : InOrder(seqOnLine)
    BY DEF ValidTopology, InOrder
  <2>2. \A i \in DOMAIN Ancestors[p] : e[Ancestors[p][i]] = f[Ancestors[p][i]]
    BY <2>1, AncestorsAscend DEF Ascends, PolesOf, SameLevels
  <2> DEFINE up == Ancestors[p]
             live(in) == {i \in DOMAIN up : up[i] \notin in.suppressed /\ in.energized[up[i]] = "LIVE"}
             passed(in) == {i \in 1 .. Min(live(in)) - 1 : up[i] \notin in.suppressed}
             dark(in) == {i \in passed(in) : IsDark(in.energized[up[i]])}
  <2>3. live(b) = live(a)
    BY <1>0, <1>2, <2>2
  <2>4. passed(b) = passed(a)
    <3> HIDE DEF live
    <3> QED BY <1>2, <2>3
  <2>5. live(a) # {} => dark(b) = dark(a)
    <3> SUFFICES ASSUME live(a) # {}
                 PROVE  dark(b) = dark(a)
      OBVIOUS
    <3>1. Ancestors[p] \in Seq(Pole)
      BY <2>1, AncestorsAscend DEF Ascends, PolesOf
    <3>2. Min(live(a)) \in live(a)
      <4>1. live(a) \in SUBSET Nat
        BY <3>1
      <4> HIDE DEF live
      <4> QED BY <4>1, MinOfNaturals
    <3>3. Min(live(a)) \in DOMAIN up
      BY <3>2
    <3> HIDE DEF live
    <3>4. passed(a) \subseteq DOMAIN up
      BY <3>1, <3>3
    <3> HIDE DEF passed
    <3> QED BY <1>0, <2>2, <2>4, <3>4
  <2> HIDE DEF live, passed, dark
  <2>6. \A in : FindBoundary(in, p) =
          IF live(in) = {} THEN {}
          ELSE {[from |-> p, lastLive |-> up[Min(live(in))],
                 firstDark |-> IF dark(in) = {} THEN p ELSE up[Max(dark(in))],
                 unmonitored |-> {up[i] : i \in passed(in)} \ Monitored]}
    BY DEF FindBoundary, live, passed, dark
  <2> QED BY <2>3, <2>4, <2>5, <2>6
<1>6. Boundaries(b) = Boundaries(a)
  <2>1. DarkPoles(a) \subseteq PolesOf(t)
    BY <1>0 DEF DarkPoles, DarkIn
  <2> QED BY <1>3, <1>5, <2>1 DEF Boundaries
<1> QED BY <1>0, <1>3, <1>4, <1>6 DEF Groups

(* The same candidates, but for their confidence.                          *)
LEMMA SamePlaces ==
  ASSUME IsFiniteSet(Pole), ValidTopology, NoPole \notin Pole,
         NEW t \in Transformer, NEW e, NEW f, SameLevels(t, e, f),
         NEW stale, NEW outages,
         NEW c \in LocalizeDT(DTInput(t, e, stale, outages))
  PROVE  \E d \in LocalizeDT(DTInput(t, f, stale, outages)) : Place(d) = Place(c)
<1>0. PICK a, b : a = DTInput(t, e, stale, outages) /\ b = DTInput(t, f, stale, outages)
  OBVIOUS
<1>1. /\ a.dt = t /\ b.dt = t /\ DarkPoles(b) = DarkPoles(a)
      /\ IsDTFullyDark(b) = IsDTFullyDark(a) /\ Groups(b) = Groups(a)
  BY <1>0, SameInput
<1>2. c \in LocalizeDT(a)
  BY <1>0
<1>3. \A source, P : Place(AreaCandidate("dt", t, source, b, P)) = Place(AreaCandidate("dt", t, source, a, P))
  BY DEF AreaCandidate, Place
<1>4. \A g : Place(SpanCandidate(b, g)) = Place(SpanCandidate(a, g))
  BY <1>1 DEF SpanCandidate, Place
<1>5. CASE \E g \in Groups(a) : c = SpanCandidate(a, g)
             /\ DarkPoles(a) # {} /\ t \in Recorded /\ ~IsDTFullyDark(a)
  <2>1. PICK g \in Groups(a) : c = SpanCandidate(a, g)
    BY <1>5
  <2>2. SpanCandidate(b, g) \in LocalizeDT(b)
    BY <1>1, <1>5, <2>1 DEF LocalizeDT
  <2> QED BY <1>0, <1>4, <2>1, <2>2
<1>6. CASE DarkPoles(a) # {} /\ t \notin Recorded
  <2>1. c = AreaCandidate("dt", t, "FALLBACK", a, DarkPoles(a))
    BY <1>1, <1>2, <1>6 DEF LocalizeDT
  <2>2. AreaCandidate("dt", t, "FALLBACK", b, DarkPoles(a)) \in LocalizeDT(b)
    BY <1>1, <1>6 DEF LocalizeDT
  <2> QED BY <1>0, <1>3, <2>1, <2>2
<1>7. CASE DarkPoles(a) # {} /\ t \in Recorded /\ IsDTFullyDark(a)
  <2>1. c = AreaCandidate("dt", t, "RECORDED", a, PolesOf(t))
    BY <1>1, <1>2, <1>7 DEF LocalizeDT
  <2>2. AreaCandidate("dt", t, "RECORDED", b, PolesOf(t)) \in LocalizeDT(b)
    BY <1>1, <1>7 DEF LocalizeDT
  <2> QED BY <1>0, <1>3, <2>1, <2>2
<1> QED BY <1>1, <1>2, <1>5, <1>6, <1>7 DEF LocalizeDT

-----------------------------------------------------------------------------
(* One more pole goes dark, with no outage window anywhere.                *)

HasTransformerFault(in) == \E c \in LocalizeDT(in) : c.type = "dt"

FullyDarkOf(fd, e, stale) ==
  {t \in Transformer : FeederOf[t] = fd /\ IsDTFullyDark(DTInput(t, e, stale, {}))}

FeederIsDark(fd, e, stale) ==
  100 * Cardinality(FullyDarkOf(fd, e, stale))
    >= FeederDarkPercent * Cardinality({t \in Transformer : FeederOf[t] = fd})

LEMMA FullyDarkIsTransformerFault ==
  ASSUME NEW in, IsDTFullyDark(in)
  PROVE  HasTransformerFault(in)
<1>1. DarkPoles(in) # {}
  BY DEF IsDTFullyDark
<1>2. \A at, source, P : AreaCandidate("dt", at, source, in, P).type = "dt"
  BY DEF AreaCandidate
<1> QED BY <1>1, <1>2 DEF LocalizeDT, HasTransformerFault

LEMMA FeederCandidate ==
  ASSUME NEW fd, NEW e, NEW stale, FeederDarkPercent \in Int, IsFiniteSet(Transformer)
  PROVE  LocalizeFeeder(fd, e, stale, {}) # {} <=> FeederIsDark(fd, e, stale)
<1> DEFINE ts == {t \in Transformer : FeederOf[t] = fd}
           dark == {t \in ts : IsDTFullyDark(DTInput(t, e, stale, {}))}
<1>1. dark = FullyDarkOf(fd, e, stale)
  BY DEF FullyDarkOf
<1>2. IsFiniteSet(ts) /\ IsFiniteSet(dark)
  BY FS_Subset
<1>3. Cardinality(ts) \in Nat /\ Cardinality(dark) \in Nat
  BY <1>2, FS_CardinalityType
<1>4. FeederDarkPercent * Cardinality(ts) \in Int
  BY <1>3
<1>5. LocalizeFeeder(fd, e, stale, {}) # {}
        <=> ~(100 * Cardinality(dark) < FeederDarkPercent * Cardinality(ts))
  BY DEF LocalizeFeeder
<1>6. FeederIsDark(fd, e, stale)
        <=> 100 * Cardinality(dark) >= FeederDarkPercent * Cardinality(ts)
  BY <1>1 DEF FeederIsDark
<1> HIDE DEF ts, dark
<1> QED BY <1>3, <1>4, <1>5, <1>6

(* The pole p goes dark: f are the levels after e.                         *)
Darkens(p, e, f) ==
  /\ p \in Pole /\ p \in Monitored /\ ~IsDark(e[p]) /\ f[p] = "DARK"
  /\ \A q \in Pole \ {p} : f[q] = e[q]

LEMMA DarkenedTransformer ==
  ASSUME IsFiniteSet(Pole), ValidTopology, NoPole \notin Pole,
         NEW p, NEW e, NEW f, Darkens(p, e, f), NEW stale,
         DTOf \in [Pole -> Transformer]
  PROVE  LET before == DTInput(DTOf[p], e, stale, {})
             after == DTInput(DTOf[p], f, stale, {})
         IN  /\ ~IsDTFullyDark(before)
             /\ HasTransformerFault(before) => HasTransformerFault(after)
<1> DEFINE u == DTOf[p]
<1>0. PICK a, b : a = DTInput(u, e, stale, {}) /\ b = DTInput(u, f, stale, {})
  OBVIOUS
<1>1. /\ a.dt = u /\ b.dt = u /\ a.energized = e /\ b.energized = f
      /\ a.suppressed = SuppressionContext(u, e, {})
      /\ b.suppressed = SuppressionContext(u, f, {})
      /\ p \in PolesOf(u)
  BY <1>0 DEF DTInput, PolesOf, Darkens
<1>2. ~OutageCovers({}, u)
  BY DEF OutageCovers
<1>3. p \notin a.suppressed /\ p \notin DarkPoles(a)
  BY <1>1, <1>2 DEF SuppressionContext, DeadSensor, Darkens, DarkPoles, DarkIn
<1>4. ~IsDTFullyDark(a)
  BY <1>1, <1>3 DEF IsDTFullyDark, Darkens
<1>5. ASSUME HasTransformerFault(a)
      PROVE  HasTransformerFault(b)
  <2>1. u \notin Recorded
    <3> SUFFICES ASSUME u \in Recorded
                 PROVE  FALSE
      OBVIOUS
    <3>1. \A g : SpanCandidate(a, g).type # "dt"
      BY DEF SpanCandidate
    <3> QED BY <1>1, <1>4, <1>5, <3>1 DEF HasTransformerFault, LocalizeDT
  <2>2. Children(p) = {}
    <3> SUFFICES ASSUME NEW q \in Children(p)
                 PROVE  FALSE
      OBVIOUS
    <3>1. q \in Pole /\ ParentOf(q) = p /\ p # NoPole /\ p \in Pole
      BY DEF Children, Darkens
    <3>2. DTOf[q] = u
      BY <3>1, ChildrenOnOneTransformer DEF PolesOf
    <3> QED BY <2>1, <3>1, <3>2 DEF ParentOf
  <2>3. p \in DarkPoles(b)
    BY <1>1, <1>2, <2>2 DEF SuppressionContext, DeadSensor, Darkens, DarkPoles, DarkIn, IsDark
  <2>4. LocalizeDT(b) = {AreaCandidate("dt", u, "FALLBACK", b, DarkPoles(b))}
    BY <1>1, <2>1, <2>3 DEF LocalizeDT
  <2>5. AreaCandidate("dt", u, "FALLBACK", b, DarkPoles(b)).type = "dt"
    BY DEF AreaCandidate
  <2> QED BY <2>4, <2>5 DEF HasTransformerFault
<1> QED BY <1>0, <1>4, <1>5

(* No other transformer's candidates change, dark feeders stay dark, and   *)
(* one that becomes so is that of p, whose transformer is then fully dark. *)
LEMMA DarkenedElsewhere ==
  ASSUME IsFiniteSet(Pole), ValidTopology, NoPole \notin Pole,
         NEW p, NEW e, NEW f, Darkens(p, e, f), NEW stale,
         DTOf \in [Pole -> Transformer], NEW t \in Transformer, t # DTOf[p]
  PROVE  /\ SameLevels(t, e, f) /\ SameLevels(t, f, e)
         /\ IsDTFullyDark(DTInput(t, f, stale, {})) = IsDTFullyDark(DTInput(t, e, stale, {}))
<1>1. SameLevels(t, e, f) /\ SameLevels(t, f, e)
  BY DEF SameLevels, PolesOf, Darkens
<1> QED BY <1>1, SameInput

LEMMA DarkenedFeeder ==
  ASSUME IsFiniteSet(Pole), ValidTopology, NoPole \notin Pole,
         NEW p, NEW e, NEW f, Darkens(p, e, f), NEW stale,
         DTOf \in [Pole -> Transformer], IsFiniteSet(Transformer),
         FeederDarkPercent \in Int, NEW fd
  PROVE  /\ FeederIsDark(fd, e, stale) => FeederIsDark(fd, f, stale)
         /\ FeederIsDark(fd, f, stale) /\ ~FeederIsDark(fd, e, stale) =>
              /\ FeederOf[DTOf[p]] = fd
              /\ IsDTFullyDark(DTInput(DTOf[p], f, stale, {}))
<1> DEFINE u == DTOf[p]
           before == FullyDarkOf(fd, e, stale)
           after == FullyDarkOf(fd, f, stale)
           ts == {t \in Transformer : FeederOf[t] = fd}
<1>1. u \notin before
  BY DarkenedTransformer DEF FullyDarkOf
<1>2. \A t \in Transformer : t # u => (t \in after <=> t \in before)
  BY DarkenedElsewhere DEF FullyDarkOf
<1>3. u \in after => FeederOf[u] = fd /\ IsDTFullyDark(DTInput(u, f, stale, {}))
  BY DEF FullyDarkOf
<1>4. before \subseteq Transformer /\ after \subseteq Transformer
  BY DEF FullyDarkOf
<1>5. /\ FeederIsDark(fd, e, stale) <=> 100 * Cardinality(before) >= FeederDarkPercent * Cardinality(ts)
      /\ FeederIsDark(fd, f, stale) <=> 100 * Cardinality(after) >= FeederDarkPercent * Cardinality(ts)
  BY DEF FeederIsDark
<1>6. FeederDarkPercent * Cardinality(ts) \in Int
  BY FS_Subset, FS_CardinalityType
<1> HIDE DEF before, after, ts
<1>7. before \subseteq after
  BY <1>1, <1>2, <1>4
<1>8. /\ IsFiniteSet(after) /\ Cardinality(before) <= Cardinality(after)
      /\ Cardinality(before) \in Nat /\ Cardinality(after) \in Nat
  <2>1. IsFiniteSet(after) /\ IsFiniteSet(before)
    BY <1>4, FS_Subset
  <2> QED BY <1>7, <2>1, FS_Subset, FS_CardinalityType
<1>9. FeederIsDark(fd, e, stale) => FeederIsDark(fd, f, stale)
  <2>1. \A m, n \in Nat, x \in Int : m <= n /\ 100 * m >= x => 100 * n >= x
    OBVIOUS
  <2> QED BY <1>5, <1>6, <1>8, <2>1
<1>10. u \notin after => after = before
  BY <1>1, <1>2, <1>4
<1> QED BY <1>3, <1>5, <1>9, <1>10

-----------------------------------------------------------------------------
(* What localization finds, in terms of what the poles report.             *)

(* The border between the live and the dark region of a tree: a live and a *)
(* dark pole with none in between that says either.                        *)
IsBorder(in, a, b) ==
  /\ a \in PolesOf(in.dt) /\ b \in DarkPoles(in)
  /\ Above(a, b) /\ SaysLive(in, a)
  /\ \A q : Above(a, q) /\ Above(q, b) => ~SaysLive(in, q) /\ q \notin DarkPoles(in)

LEMMA GroupsAreTheBorder ==
  ASSUME IsFiniteSet(Pole), ValidTopology, Pole \subseteq Nat, NEW in
  PROVE  /\ \A g \in Groups(in) : IsBorder(in, g.lastLive, g.firstDark)
         /\ \A a, b : IsBorder(in, a, b) =>
              \E g \in Groups(in) : g.lastLive = a /\ g.firstDark = b
<1>1. TreeOrder
  BY TreeIsOrdered
<1>2. DarkPoles(in) \subseteq Pole
  BY DEF DarkPoles, DarkIn, PolesOf
<1>3. ASSUME NEW g \in Groups(in)
      PROVE  IsBorder(in, g.lastLive, g.firstDark)
  <2> DEFINE p == g.from
             a == g.lastLive
             b == g.firstDark
  <2>1. p \in DarkPoles(in) /\ EndsOf(in, p, g)
    BY GroupForEachPair
  <2>2. p \in Pole /\ b \in Pole
    BY <1>2, <2>1 DEF EndsOf
  <2>3. ASSUME NEW q, Above(a, q), Above(q, b)
        PROVE  ~SaysLive(in, q) /\ q \notin DarkPoles(in)
    <3>1. b = p \/ Above(b, p)
      BY <2>1 DEF EndsOf
    <3>2. Above(q, p)
      BY <1>1, <2>2, <2>3, <3>1 DEF TreeOrder
    <3>3. /\ ~SaysLive(in, q)
          /\ q \in DarkPoles(in) => q = b \/ Above(b, q)
      BY <2>1, <2>3, <3>2 DEF EndsOf
    <3>4. q # b /\ ~Above(b, q)
      BY <1>1, <2>2, <2>3 DEF TreeOrder
    <3> QED BY <3>3, <3>4
  <2> QED BY <2>1, <2>3 DEF EndsOf, IsBorder
<1>4. ASSUME NEW a, NEW b, IsBorder(in, a, b)
      PROVE  \E g \in Groups(in) : g.lastLive = a /\ g.firstDark = b
  <2>1. /\ b \in DarkPoles(in) /\ b \in Pole /\ Above(a, b) /\ SaysLive(in, a)
        /\ \A q : Above(a, q) /\ Above(q, b) => ~SaysLive(in, q) /\ q \notin DarkPoles(in)
    BY <1>2, <1>4 DEF IsBorder
  <2>2. PICK c \in FindBoundary(in, b) : EndsOf(in, b, c)
    BY <2>1, BoundaryEnds
  <2>3. c.lastLive = a
    <3>1. Above(c.lastLive, b) /\ SaysLive(in, c.lastLive)
      BY <2>2 DEF EndsOf
    <3>2. a = c.lastLive \/ Above(a, c.lastLive) \/ Above(c.lastLive, a)
      BY <1>1, <2>1, <3>1 DEF TreeOrder
    <3>3. ~Above(a, c.lastLive)
      BY <2>1, <3>1
    <3>4. ~Above(c.lastLive, a)
      BY <2>1, <2>2 DEF EndsOf
    <3> QED BY <3>2, <3>3, <3>4
  <2>4. c.firstDark = b
    <3>1. /\ c.firstDark \in DarkPoles(in) /\ Above(c.lastLive, c.firstDark)
          /\ c.firstDark = b \/ Above(c.firstDark, b)
      BY <2>2 DEF EndsOf
    <3> QED BY <2>1, <2>3, <3>1
  <2>5. c \in Boundaries(in)
    BY <2>1, <2>2 DEF Boundaries
  <2>6. PICK g \in Groups(in) : SameEnds(g, c)
    BY <2>5, GroupForEachPair
  <2> QED BY <2>3, <2>4, <2>6 DEF SameEnds
<1> QED BY <1>3, <1>4

(* Where wiring is recorded and not all is dark, each group is a span.     *)
LEMMA SpansAreGroups ==
  ASSUME NEW in, in.dt \in Recorded, ~IsDTFullyDark(in)
  PROVE  LocalizeDT(in) = {SpanCandidate(in, g) : g \in Groups(in)}
<1>1. DarkPoles(in) = {} => Groups(in) = {}
  BY DEF Groups, Boundaries
<1> QED BY <1>1 DEF LocalizeDT

(* The spans are the border, each once.                                    *)
LEMMA SpansAreTheBorder ==
  ASSUME IsFiniteSet(Pole), ValidTopology, Pole \subseteq Nat,
         NEW in, in.dt \in Recorded, ~IsDTFullyDark(in),
         NEW border, border = {ab \in PolesOf(in.dt) \X PolesOf(in.dt) : IsBorder(in, ab[1], ab[2])},
         NEW spans, spans = {c \in LocalizeDT(in) : c.type = "span"}
  PROVE  /\ {<<c.spanA, c.spanB>> : c \in spans} = border
         /\ Cardinality(spans) = Cardinality(border)
<1>1. spans = {SpanCandidate(in, g) : g \in Groups(in)}
  <2>1. \A g : SpanCandidate(in, g).type = "span"
    BY DEF SpanCandidate
  <2> QED BY <2>1, SpansAreGroups
<1>2. \A g : SpanCandidate(in, g).spanA = g.lastLive /\ SpanCandidate(in, g).spanB = g.firstDark
  BY DEF SpanCandidate
<1>3. \A c \in spans : <<c.spanA, c.spanB>> \in border
  <2> SUFFICES ASSUME NEW g \in Groups(in)
               PROVE  <<g.lastLive, g.firstDark>> \in border
    BY <1>1, <1>2
  <2>1. IsBorder(in, g.lastLive, g.firstDark)
    BY GroupsAreTheBorder
  <2>2. g.lastLive \in PolesOf(in.dt) /\ g.firstDark \in PolesOf(in.dt)
    BY <2>1 DEF IsBorder, DarkPoles, DarkIn
  <2> QED BY <2>1, <2>2
<1>4. \A ab \in border : \E c \in spans : ab = <<c.spanA, c.spanB>>
  <2> SUFFICES ASSUME NEW a \in PolesOf(in.dt), NEW b \in PolesOf(in.dt), IsBorder(in, a, b)
               PROVE  \E c \in spans : c.spanA = a /\ c.spanB = b
    OBVIOUS
  <2> QED BY <1>1, <1>2, GroupsAreTheBorder
<1>5. \A c, d \in spans : c.spanA = d.spanA /\ c.spanB = d.spanB => c = d
  <2> SUFFICES ASSUME NEW g \in Groups(in), NEW h \in Groups(in),
                      g.lastLive = h.lastLive, g.firstDark = h.firstDark
               PROVE  g = h
    BY <1>1, <1>2
  <2> QED BY GroupForEachPair DEF SameEnds
<1> DEFINE f == [c \in spans |-> <<c.spanA, c.spanB>>]
<1>6. f \in Bijection(spans, border)
  <2>1. f \in [spans -> border]
    BY <1>3
  <2>2. \A c, d \in spans : f[c] = f[d] => c = d
    BY <1>5
  <2>3. \A ab \in border : \E c \in spans : f[c] = ab
    BY <1>4
  <2> HIDE DEF f
  <2> QED BY <2>1, <2>2, <2>3 DEF Bijection, Injection, Surjection, IsInjective
<1>7. IsFiniteSet(border)
  <2>1. IsFiniteSet(PolesOf(in.dt))
    BY FS_Subset DEF PolesOf
  <2>2. IsFiniteSet(PolesOf(in.dt) \X PolesOf(in.dt))
    BY <2>1, FS_Product
  <2> QED BY <2>2, FS_Subset
<1>8. IsFiniteSet(spans) /\ Cardinality(spans) = Cardinality(border)
  <2> HIDE DEF f
  <2>1. ExistsBijection(border, spans)
    BY <1>6, Fun_ExistsBijSymmetric DEF ExistsBijection
  <2> QED BY <1>7, <2>1, FS_Bijection
<1> QED BY <1>3, <1>4, <1>8

(* Of two candidates found at once, both are spans of a recorded tree.     *)
LEMMA SeveralAreSpans ==
  ASSUME NEW t \in Transformer, NEW e, NEW stale, NEW outages,
         NEW in, in = DTInput(t, e, stale, outages),
         NEW c \in Candidates(t, e, stale, outages),
         NEW d \in Candidates(t, e, stale, outages), c # d
  PROVE  /\ \E g \in Groups(in) : c = SpanCandidate(in, g)
         /\ \E g \in Groups(in) : d = SpanCandidate(in, g)
<1>1. \A x, y \in LocalizeFeeder(FeederOf[t], e, stale, outages) : x = y
  BY DEF LocalizeFeeder
<1>2. c \in LocalizeDT(in) /\ d \in LocalizeDT(in)
  BY <1>1 DEF Candidates
<1> QED BY <1>2 DEF LocalizeDT

(* Levels as devices report them: a pole without one is UNKNOWN.           *)
Reported(e) ==
  \A p \in Pole : e[p] \in {"LIVE", "DARK", "UNKNOWN"} /\ (p \notin Monitored => e[p] = "UNKNOWN")

(* Two spans with a pole in common are one inside the other, and the outer *)
(* one is marked: the live end of the inner one contradicts it.            *)
LEMMA SpansNest ==
  ASSUME IsFiniteSet(Pole), ValidTopology, Pole \subseteq Nat, NoPole \notin Pole, NEW in,
         NEW g \in Groups(in), NEW h \in Groups(in), g # h,
         NEW c, c = SpanCandidate(in, g), NEW d, d = SpanCandidate(in, h),
         c.affected \cap d.affected # {}
  PROVE  \/ c.affected \subseteq d.affected /\ d.level = "LOW"
         \/ d.affected \subseteq c.affected /\ c.level = "LOW"
<1>1. TreeOrder
  BY TreeIsOrdered
<1>2. IsBorder(in, g.lastLive, g.firstDark) /\ IsBorder(in, h.lastLive, h.firstDark)
  BY GroupsAreTheBorder
<1>3. DarkPoles(in) \subseteq Pole
  BY DEF DarkPoles, DarkIn, PolesOf
<1>4. \A k : SpanCandidate(in, k).affected = Subtree(k.firstDark)
  BY DEF SpanCandidate
<1>5. g.firstDark # h.firstDark
  <2> SUFFICES ASSUME g.firstDark = h.firstDark
               PROVE  FALSE
    OBVIOUS
  <2> DEFINE b == g.firstDark
  <2>1. Above(g.lastLive, b) /\ Above(h.lastLive, b) /\ b \in Pole
        /\ SaysLive(in, g.lastLive) /\ SaysLive(in, h.lastLive)
    BY <1>2, <1>3 DEF IsBorder
  <2>2. ~Above(g.lastLive, h.lastLive) /\ ~Above(h.lastLive, g.lastLive)
    BY <1>2, <2>1 DEF IsBorder
  <2>3. g.lastLive = h.lastLive
    BY <1>1, <2>1, <2>2 DEF TreeOrder
  <2> QED BY <2>3, GroupForEachPair DEF SameEnds
<1>6. ASSUME NEW x \in Groups(in), NEW y \in Groups(in),
             IsBorder(in, x.lastLive, x.firstDark), IsBorder(in, y.lastLive, y.firstDark),
             Above(x.firstDark, y.firstDark)
      PROVE  /\ Subtree(y.firstDark) \subseteq Subtree(x.firstDark)
             /\ SpanCandidate(in, x).level = "LOW"
  <2> DEFINE a == y.lastLive
             b == y.firstDark
             top == x.firstDark
  <2>1. top \in DarkPoles(in) /\ b \in Pole /\ top \in Pole /\ a \in Pole
        /\ Above(a, b) /\ SaysLive(in, a) /\ x.lastLive \in Pole
    BY <1>3, <1>6 DEF IsBorder, PolesOf
  <2>2. Above(top, a)
    <3>1. a = top \/ Above(a, top) \/ Above(top, a)
      BY <1>1, <1>6, <2>1 DEF TreeOrder
    <3>2. a # top
      BY <2>1 DEF SaysLive, DarkPoles, DarkIn, IsDark
    <3>3. ~Above(a, top)
      BY <1>6, <2>1 DEF IsBorder
    <3> QED BY <3>1, <3>2, <3>3
  <2>3. a \in Subtree(top) /\ in.energized[a] = "LIVE"
    BY <2>1, <2>2 DEF Subtree, SaysLive
  <2>4. SpanCandidate(in, x).level = "LOW"
    <3>1. SpanCandidate(in, x).level =
            ConfidenceLevel(SourceOf(in.dt), in, x.lastLive, Subtree(top),
                            DarkIn(in, Subtree(top)) \ in.suppressed, x.unmonitored)
      BY DEF SpanCandidate
    <3>2. x.lastLive # NoPole
      BY <2>1
    <3> QED BY <2>3, <3>1, <3>2 DEF ConfidenceLevel
  <2>5. ASSUME NEW q \in Subtree(b)
        PROVE  q \in Subtree(top)
    <3>1. q \in Pole /\ (q = b \/ Above(b, q))
      BY <2>5 DEF Subtree
    <3>2. Above(top, q)
      BY <1>1, <1>6, <3>1 DEF TreeOrder
    <3> QED BY <3>1, <3>2 DEF Subtree
  <2> QED BY <2>4, <2>5
<1>7. PICK q : q \in Subtree(g.firstDark) /\ q \in Subtree(h.firstDark)
  BY <1>4
<1>8. Above(g.firstDark, h.firstDark) \/ Above(h.firstDark, g.firstDark)
  <2>1. q \in Pole /\ (q = g.firstDark \/ Above(g.firstDark, q))
        /\ (q = h.firstDark \/ Above(h.firstDark, q))
    BY <1>7 DEF Subtree
  <2> QED BY <1>1, <1>5, <2>1 DEF TreeOrder
<1> QED BY <1>2, <1>4, <1>6, <1>8

-----------------------------------------------------------------------------
(* A fully dark transformer has a dark report and no live one.             *)
LEMMA FullyDarkIsDark ==
  ASSUME NEW t, NEW e, Reported(e), NEW stale, NEW outages,
         NEW in, in = DTInput(t, e, stale, outages), IsDTFullyDark(in)
  PROVE  /\ \A p \in PolesOf(t) : e[p] # "LIVE"
         /\ \E p \in PolesOf(t) : p \in Monitored /\ e[p] = "DARK"
<1>1. in.dt = t /\ in.energized = e /\ in.suppressed = SuppressionContext(t, e, outages)
  BY DEF DTInput
<1>2. PICK p \in (PolesOf(t) \cap Monitored) \ in.suppressed : p \in DarkPoles(in)
  BY <1>1 DEF IsDTFullyDark
<1>3. ~OutageCovers(outages, t)
  BY <1>1, <1>2 DEF SuppressionContext
<1>4. p \in PolesOf(t) /\ p \in Monitored /\ e[p] = "DARK"
  BY <1>1, <1>2 DEF DarkPoles, DarkIn, IsDark, Reported, PolesOf
<1>5. ASSUME NEW q \in PolesOf(t)
      PROVE  e[q] # "LIVE"
  <2>1. CASE q \in in.suppressed
    BY <1>1, <1>3, <2>1 DEF SuppressionContext, DeadSensor, IsDark
  <2>2. CASE q \notin in.suppressed /\ q \in Monitored
    BY <1>1, <1>5, <2>2 DEF IsDTFullyDark, DarkPoles, DarkIn, IsDark
  <2>3. CASE q \notin Monitored
    BY <1>5, <2>3 DEF Reported, PolesOf
  <2> QED BY <2>1, <2>2, <2>3
<1> QED BY <1>4, <1>5

(* What a candidate is, in the four forms in which it can come.            *)
SpanForm(t, in, c) ==
  /\ t \in Recorded
  /\ \E g \in Groups(in) : c = SpanCandidate(in, g)

AreaForm(t, in, c) ==
  \/ /\ t \notin Recorded /\ DarkPoles(in) # {}
     /\ c = AreaCandidate("dt", t, "FALLBACK", in, DarkPoles(in))
  \/ /\ t \in Recorded /\ IsDTFullyDark(in)
     /\ c = AreaCandidate("dt", t, "RECORDED", in, PolesOf(t))

FeederForm(t, e, stale, outages, c) ==
  \E dark \in SUBSET Transformer : \E of :
    /\ dark # {}
    /\ \A u \in dark : IsDTFullyDark(DTInput(u, e, stale, outages))
    /\ \A u \in Transformer :
         FeederOf[u] = FeederOf[t] /\ IsDTFullyDark(DTInput(u, e, stale, outages)) => u \in dark
    /\ c = AreaCandidate("feeder", FeederOf[t],
             IF dark \subseteq Recorded THEN "RECORDED" ELSE "FALLBACK",
             DTInput(of, e, stale, outages), UNION {PolesOf(u) : u \in dark})

LEMMA CandidateForms ==
  ASSUME NEW t \in Transformer, NEW e, NEW stale, NEW outages,
         IsFiniteSet(Transformer), FeederDarkPercent \in Nat \ {0},
         NEW in, in = DTInput(t, e, stale, outages)
  PROVE  /\ \A c \in LocalizeDT(in) : SpanForm(t, in, c) \/ AreaForm(t, in, c)
         /\ \A c \in LocalizeFeeder(FeederOf[t], e, stale, outages) :
              FeederForm(t, e, stale, outages, c)
<1>1. in.dt = t
  BY DEF DTInput
<1>2. \A c \in LocalizeDT(in) : SpanForm(t, in, c) \/ AreaForm(t, in, c)
  BY <1>1 DEF LocalizeDT, SpanForm, AreaForm
<1>3. ASSUME NEW c \in LocalizeFeeder(FeederOf[t], e, stale, outages)
      PROVE  FeederForm(t, e, stale, outages, c)
  <2> DEFINE ts == {u \in Transformer : FeederOf[u] = FeederOf[t]}
             dark == {u \in ts : IsDTFullyDark(DTInput(u, e, stale, outages))}
  <2>1. t \in ts /\ ts \subseteq Transformer
    OBVIOUS
  <2>3. dark # {}
    <3> SUFFICES ASSUME dark = {}
                 PROVE  FALSE
      OBVIOUS
    <3>1. IsFiniteSet(ts) /\ Cardinality(ts) \in Nat
      BY <2>1, FS_Subset, FS_CardinalityType
    <3>2. Cardinality(ts) # 0
      BY <2>1, <3>1, FS_EmptySet
    <3>3. Cardinality(dark) = 0
      BY FS_EmptySet
    <3>4. FeederDarkPercent * Cardinality(ts) > 0
      <4>1. \A m, n \in Nat \ {0} : m * n > 0
        OBVIOUS
      <4> QED BY <3>1, <3>2, <4>1
    <3>5. LocalizeFeeder(FeederOf[t], e, stale, outages) = {}
      <4>1. 100 * Cardinality(dark) < FeederDarkPercent * Cardinality(ts)
        BY <3>3, <3>4
      <4> QED BY <4>1 DEF LocalizeFeeder
    <3> QED BY <1>3, <3>5
  <2>4. c = AreaCandidate("feeder", FeederOf[t],
              IF dark \subseteq Recorded THEN "RECORDED" ELSE "FALLBACK",
              DTInput(Min(ts), e, stale, outages), UNION {PolesOf(u) : u \in dark})
    BY <1>3 DEF LocalizeFeeder
  <2>5. dark \in SUBSET Transformer
    OBVIOUS
  <2>6. /\ \A u \in dark : IsDTFullyDark(DTInput(u, e, stale, outages))
        /\ \A u \in Transformer :
             FeederOf[u] = FeederOf[t] /\ IsDTFullyDark(DTInput(u, e, stale, outages)) => u \in dark
    OBVIOUS
  <2> HIDE DEF dark, ts
  <2> QED BY <2>3, <2>4, <2>5, <2>6 DEF FeederForm
<1> QED BY <1>2, <1>3

(* Two dark reports where there is one and not just one.                   *)
LEMMA TwoDarkReports ==
  ASSUME NEW S, IsFiniteSet(S), NEW D, D \subseteq S, D # {}, Cardinality(D) # 1
  PROVE  Cardinality(S) >= 2
<1>1. IsFiniteSet(D) /\ Cardinality(D) <= Cardinality(S)
      /\ Cardinality(S) \in Nat /\ Cardinality(D) \in Nat
  BY FS_Subset, FS_CardinalityType
<1>2. Cardinality(D) # 0
  BY <1>1, FS_EmptySet
<1> QED BY <1>1, <1>2

(* What keeps a confidence HIGH.                                           *)
LEMMA HighLevel ==
  ASSUME NEW source, NEW in, NEW lastLive, NEW affected, NEW dark, NEW unmonitored,
         ConfidenceLevel(source, in, lastLive, affected, dark, unmonitored) = "HIGH"
  PROVE  /\ source # "FALLBACK" /\ Cardinality(dark) # 1 /\ unmonitored = {}
         /\ lastLive # NoPole =>
              lastLive \notin in.stale /\ \A p \in affected : in.energized[p] # "LIVE"
BY DEF ConfidenceLevel

(* HIGH as the confidence specification has it.                            *)
EarnsHigh(in, e, stale, c) ==
  /\ \A p \in c.affected : DTOf[p] \in Recorded /\ e[p] # "LIVE"
  /\ Cardinality({p \in c.affected : e[p] = "DARK"}) >= 2
  /\ c.type = "span" =>
       /\ c.spanA \notin stale
       /\ \A q : Above(c.spanA, q) /\ Above(q, c.spanB) => q \in Monitored \/ q \in in.suppressed

LEMMA HighSpan ==
  ASSUME IsFiniteSet(Pole), ValidTopology, Pole \subseteq Nat, NoPole \notin Pole,
         NEW t \in Recorded, NEW e, Reported(e), NEW stale, NEW outages,
         NEW in, in = DTInput(t, e, stale, outages),
         NEW g \in Groups(in), NEW c, c = SpanCandidate(in, g), c.level = "HIGH"
  PROVE  EarnsHigh(in, e, stale, c)
<1>1. in.dt = t /\ in.energized = e /\ in.stale = stale
  BY DEF DTInput
<1>2. /\ c.type = "span" /\ c.spanA = g.lastLive /\ c.spanB = g.firstDark
      /\ c.affected = Subtree(g.firstDark)
      /\ c.level = ConfidenceLevel(SourceOf(in.dt), in, g.lastLive, Subtree(g.firstDark),
                     DarkIn(in, Subtree(g.firstDark)) \ in.suppressed, g.unmonitored)
  BY DEF SpanCandidate
<1>3. IsBorder(in, g.lastLive, g.firstDark)
  BY GroupsAreTheBorder
<1>4. g.from \in DarkPoles(in) /\ EndsOf(in, g.from, g)
  BY GroupForEachPair
<1>5. g.lastLive \in Pole /\ g.firstDark \in PolesOf(t) /\ g.firstDark \in Pole /\ g.from \in Pole
  BY <1>1, <1>3, <1>4 DEF IsBorder, PolesOf, DarkPoles, DarkIn
<1> DEFINE dark == DarkIn(in, Subtree(g.firstDark)) \ in.suppressed
<1>6. /\ Cardinality(dark) # 1 /\ g.unmonitored = {} /\ g.lastLive \notin stale
      /\ \A p \in Subtree(g.firstDark) : e[p] # "LIVE"
  <2>1. g.lastLive # NoPole
    BY <1>5
  <2> HIDE DEF dark
  <2>2. ConfidenceLevel(SourceOf(in.dt), in, g.lastLive, Subtree(g.firstDark), dark, g.unmonitored) = "HIGH"
    BY <1>2 DEF dark
  <2> QED BY <1>1, <2>1, <2>2, HighLevel
<1>7. Subtree(g.firstDark) \subseteq PolesOf(t)
  BY <1>5, SubtreeOnOneTransformer DEF PolesOf
<1>8. Cardinality({p \in c.affected : e[p] = "DARK"}) >= 2
  <2>1. dark \subseteq {p \in c.affected : e[p] = "DARK"}
    BY <1>1, <1>2, <1>7 DEF DarkIn, IsDark, Reported, PolesOf
  <2>2. g.firstDark \in dark
    BY <1>3, <1>5 DEF IsBorder, DarkPoles, DarkIn, Subtree
  <2>3. IsFiniteSet({p \in c.affected : e[p] = "DARK"})
    <3>1. {p \in c.affected : e[p] = "DARK"} \subseteq Pole
      BY <1>2 DEF Subtree
    <3> QED BY <3>1, FS_Subset
  <2> HIDE DEF dark
  <2> QED BY <1>6, <2>1, <2>2, <2>3, TwoDarkReports
<1>9. ASSUME NEW q, Above(g.lastLive, q), Above(q, g.firstDark)
      PROVE  q \in Monitored \/ q \in in.suppressed
  <2>1. Above(q, g.from)
    <3>1. g.firstDark = g.from \/ Above(g.firstDark, g.from)
      BY <1>4 DEF EndsOf
    <3>2. TreeOrder
      BY TreeIsOrdered
    <3> QED BY <1>5, <1>9, <3>1, <3>2 DEF TreeOrder
  <2> QED BY <1>4, <1>6, <1>9, <2>1 DEF EndsOf
<1> QED BY <1>2, <1>6, <1>7, <1>8, <1>9 DEF EarnsHigh, PolesOf

LEMMA HighArea ==
  ASSUME IsFiniteSet(Pole), NEW e, Reported(e), NEW stale, NEW outages, NEW in,
         NEW ts, ts # {}, \A u \in ts : IsDTFullyDark(DTInput(u, e, stale, outages)),
         NEW x, x.energized = e, NEW type, type # "span", NEW at, NEW source,
         source # "FALLBACK" => ts \subseteq Recorded,
         NEW c, c = AreaCandidate(type, at, source, x, UNION {PolesOf(u) : u \in ts}),
         c.level = "HIGH"
  PROVE  EarnsHigh(in, e, stale, c)
<1> DEFINE affected == UNION {PolesOf(u) : u \in ts}
           dark == DarkIn(x, affected)
<1>1. affected \subseteq Pole /\ \A p \in affected : DTOf[p] \in ts
  BY DEF PolesOf
<1>2. /\ \A p \in affected : e[p] # "LIVE"
      /\ \E p \in affected : e[p] = "DARK"
  <2>1. PICK v \in ts : TRUE
    OBVIOUS
  <2>2. \A u \in ts : /\ \A p \in PolesOf(u) : e[p] # "LIVE"
                      /\ \E p \in PolesOf(u) : p \in Monitored /\ e[p] = "DARK"
    BY FullyDarkIsDark
  <2> QED BY <2>1, <2>2
<1> HIDE DEF affected
<1>3. /\ c.type = type /\ c.affected = affected
      /\ c.level = ConfidenceLevel(source, x, NoPole, affected \cap Monitored, dark, {})
  BY DEF AreaCandidate, affected
<1> HIDE DEF dark
<1>4. source # "FALLBACK" /\ Cardinality(dark) # 1
  BY <1>3, HighLevel
<1>5. Cardinality({p \in affected : e[p] = "DARK"}) >= 2
  <2>1. dark = {p \in affected : e[p] = "DARK"}
    BY <1>1 DEF dark, DarkIn, IsDark, Reported
  <2>2. IsFiniteSet(dark) /\ dark # {}
    <3>1. dark \subseteq Pole
      BY <1>1, <2>1
    <3> QED BY <1>2, <2>1, <3>1, FS_Subset
  <2> QED BY <1>4, <2>1, <2>2, TwoDarkReports
<1> QED BY <1>1, <1>2, <1>3, <1>4, <1>5 DEF EarnsHigh

LEMMA HighCandidate ==
  ASSUME IsFiniteSet(Pole), ValidTopology, Pole \subseteq Nat, NoPole \notin Pole,
         IsFiniteSet(Transformer), FeederDarkPercent \in Nat \ {0},
         NEW t \in Transformer, NEW e, Reported(e), NEW stale, NEW outages,
         NEW in, in = DTInput(t, e, stale, outages),
         NEW c \in Candidates(t, e, stale, outages), c.level = "HIGH"
  PROVE  EarnsHigh(in, e, stale, c)
<1>1. in.energized = e
  BY DEF DTInput
<1>2. SpanForm(t, in, c) \/ AreaForm(t, in, c) \/ FeederForm(t, e, stale, outages, c)
  BY CandidateForms DEF Candidates
<1>3. CASE SpanForm(t, in, c)
  BY <1>3, HighSpan DEF SpanForm
<1>4. CASE AreaForm(t, in, c)
  <2>1. AreaCandidate("dt", t, "FALLBACK", in, DarkPoles(in)).level = "LOW"
    BY DEF AreaCandidate, ConfidenceLevel
  <2>2. c # AreaCandidate("dt", t, "FALLBACK", in, DarkPoles(in))
    BY <2>1
  <2>3. /\ t \in Recorded /\ IsDTFullyDark(in)
        /\ c = AreaCandidate("dt", t, "RECORDED", in, PolesOf(t))
    BY <1>4, <2>2 DEF AreaForm
  <2>4. PICK ts : ts = {t}
    OBVIOUS
  <2>5. /\ ts # {} /\ ts \subseteq Recorded
        /\ \A u \in ts : IsDTFullyDark(DTInput(u, e, stale, outages))
        /\ UNION {PolesOf(u) : u \in ts} = PolesOf(t)
    BY <2>3, <2>4
  <2>6. c = AreaCandidate("dt", t, "RECORDED", in, UNION {PolesOf(u) : u \in ts})
    BY <2>3, <2>5
  <2> QED BY <1>1, <2>5, <2>6, HighArea
<1>5. CASE FeederForm(t, e, stale, outages, c)
  <2>1. PICK ts, of :
          /\ ts \in SUBSET Transformer
          /\ ts # {} /\ \A u \in ts : IsDTFullyDark(DTInput(u, e, stale, outages))
          /\ c = AreaCandidate("feeder", FeederOf[t],
                   IF ts \subseteq Recorded THEN "RECORDED" ELSE "FALLBACK",
                   DTInput(of, e, stale, outages), UNION {PolesOf(u) : u \in ts})
    BY <1>5 DEF FeederForm
  <2>2. DTInput(of, e, stale, outages).energized = e
    BY DEF DTInput
  <2> QED BY <2>1, <2>2, HighArea
<1> QED BY <1>2, <1>3, <1>4, <1>5

(* A candidate with a pole that reports live is a span marked as           *)
(* contradicted.                                                           *)
LEMMA LivePoleContradicts ==
  ASSUME IsFiniteSet(Pole), ValidTopology, Pole \subseteq Nat, NoPole \notin Pole,
         IsFiniteSet(Transformer), FeederDarkPercent \in Nat \ {0},
         NEW t \in Transformer, NEW e, Reported(e), NEW stale, NEW outages,
         NEW c \in Candidates(t, e, stale, outages),
         NEW p \in c.affected, e[p] = "LIVE"
  PROVE  c.type = "span" /\ c.level = "LOW"
<1>0. PICK in : in = DTInput(t, e, stale, outages)
  OBVIOUS
<1>1. in.energized = e /\ in.dt = t
  BY <1>0 DEF DTInput
<1>2. SpanForm(t, in, c) \/ AreaForm(t, in, c) \/ FeederForm(t, e, stale, outages, c)
  BY <1>0, CandidateForms DEF Candidates
<1>3. CASE SpanForm(t, in, c)
  <2>1. PICK g \in Groups(in) : c = SpanCandidate(in, g)
    BY <1>3 DEF SpanForm
  <2>2. g.lastLive # NoPole
    BY GroupsAreTheBorder DEF IsBorder, PolesOf
  <2>3. /\ c.type = "span" /\ c.affected = Subtree(g.firstDark)
        /\ c.level = ConfidenceLevel(SourceOf(in.dt), in, g.lastLive, Subtree(g.firstDark),
                       DarkIn(in, Subtree(g.firstDark)) \ in.suppressed, g.unmonitored)
    BY <2>1 DEF SpanCandidate
  <2> QED BY <1>1, <2>2, <2>3 DEF ConfidenceLevel
<1>4. CASE AreaForm(t, in, c)
  <2>1. \A source, P : AreaCandidate("dt", t, source, in, P).affected = P
    BY DEF AreaCandidate
  <2>2. c.affected = DarkPoles(in) \/ (IsDTFullyDark(in) /\ c.affected = PolesOf(t))
    BY <1>4, <2>1 DEF AreaForm
  <2>3. p \notin DarkPoles(in)
    BY <1>1 DEF DarkPoles, DarkIn, IsDark
  <2> QED BY <1>0, <2>2, <2>3, FullyDarkIsDark
<1>5. CASE FeederForm(t, e, stale, outages, c)
  <2>1. PICK ts \in SUBSET Transformer :
          /\ \A u \in ts : IsDTFullyDark(DTInput(u, e, stale, outages))
          /\ c.affected = UNION {PolesOf(u) : u \in ts}
    <3>1. \A source, x, P : AreaCandidate("feeder", FeederOf[t], source, x, P).affected = P
      BY DEF AreaCandidate
    <3> QED BY <1>5, <3>1 DEF FeederForm
  <2> QED BY <2>1, FullyDarkIsDark
<1> QED BY <1>2, <1>3, <1>4, <1>5

(* A dark pole is in a candidate of its transformer, unless its tree has   *)
(* no live pole above it.                                                  *)
LEMMA DarkPoleIsPlaced ==
  ASSUME IsFiniteSet(Pole), ValidTopology, Pole \subseteq Nat,
         NEW in, NEW p \in DarkPoles(in)
  PROVE  \/ \E c \in LocalizeDT(in) : p \in c.affected
         \/ in.dt \in Recorded /\ ~\E a : Above(a, p) /\ SaysLive(in, a)
<1>1. p \in PolesOf(in.dt) /\ p \in Pole
  BY DEF DarkPoles, DarkIn, PolesOf
<1>2. \A source, P : AreaCandidate("dt", in.dt, source, in, P).affected = P
  BY DEF AreaCandidate
<1>3. CASE in.dt \notin Recorded \/ IsDTFullyDark(in)
  BY <1>1, <1>2, <1>3 DEF LocalizeDT
<1>4. ASSUME in.dt \in Recorded, ~IsDTFullyDark(in), NEW a, Above(a, p), SaysLive(in, a)
      PROVE  \E c \in LocalizeDT(in) : p \in c.affected
  <2>1. PICK b \in FindBoundary(in, p) : EndsOf(in, p, b)
    BY <1>4, BoundaryEnds
  <2>2. b \in Boundaries(in)
    BY <2>1 DEF Boundaries
  <2>3. PICK g \in Groups(in) : SameEnds(g, b)
    BY <2>2, GroupForEachPair
  <2>4. p \in Subtree(g.firstDark)
    BY <1>1, <2>1, <2>3 DEF EndsOf, SameEnds, Subtree
  <2>5. SpanCandidate(in, g).affected = Subtree(g.firstDark)
    BY DEF SpanCandidate
  <2> QED BY <1>4, <2>4, <2>5, SpansAreGroups
<1> QED BY <1>3, <1>4

(* Where wiring is recorded, a feeder candidate takes the place of that of *)
(* a transformer only with all of its poles.                               *)
LEMMA FeederKeepsPoles ==
  ASSUME IsFiniteSet(Transformer), FeederDarkPercent \in Nat \ {0},
         NEW t \in Transformer, t \in Recorded, NEW e, NEW stale, NEW outages,
         NEW in, in = DTInput(t, e, stale, outages),
         NEW p \in PolesOf(t), \E c \in LocalizeDT(in) : p \in c.affected
  PROVE  \E c \in Candidates(t, e, stale, outages) : p \in c.affected
<1> DEFINE feeder == LocalizeFeeder(FeederOf[t], e, stale, outages)
<1>1. CASE (\E c \in LocalizeDT(in) : c.type = "dt") /\ feeder # {}
  <2>1. PICK c \in LocalizeDT(in) : c.type = "dt"
    BY <1>1
  <2>2. IsDTFullyDark(in)
    <3>1. \A g : SpanCandidate(in, g).type = "span"
      BY DEF SpanCandidate
    <3> QED BY <2>1, <3>1, CandidateForms DEF SpanForm, AreaForm
  <2>3. PICK d \in feeder : FeederForm(t, e, stale, outages, d)
    BY <1>1, CandidateForms
  <2>4. PICK ts \in SUBSET Transformer :
          /\ \A u \in Transformer :
               FeederOf[u] = FeederOf[t] /\ IsDTFullyDark(DTInput(u, e, stale, outages)) => u \in ts
          /\ d.affected = UNION {PolesOf(u) : u \in ts}
    <3>1. \A source, x, P : AreaCandidate("feeder", FeederOf[t], source, x, P).affected = P
      BY DEF AreaCandidate
    <3> QED BY <2>3, <3>1 DEF FeederForm
  <2>5. p \in d.affected
    BY <2>2, <2>4
  <2>6. Candidates(t, e, stale, outages) = feeder
    BY <1>1 DEF Candidates
  <2> QED BY <2>3, <2>5, <2>6
<1>2. CASE ~((\E c \in LocalizeDT(in) : c.type = "dt") /\ feeder # {})
  <2>1. Candidates(t, e, stale, outages) = LocalizeDT(in)
    BY <1>2 DEF Candidates
  <2> QED BY <2>1
<1> QED BY <1>1, <1>2

-----------------------------------------------------------------------------
(* The pole p inside a span goes dark: f are the levels after e.           *)
LEMMA BorderOutlives ==
  ASSUME IsFiniteSet(Pole), ValidTopology, Pole \subseteq Nat, NoPole \notin Pole,
         NEW t \in Transformer, t \in Recorded, NEW e, NEW stale, NEW outages,
         NEW p, NEW f, Darkens(p, e, f),
         NEW in, in = DTInput(t, e, stale, outages),
         NEW after, after = DTInput(t, f, stale, outages),
         NEW a, NEW b, IsBorder(in, a, b), p \in Subtree(b)
  PROVE  IsBorder(after, a, b)
<1>1. /\ in.dt = t /\ in.energized = e /\ in.suppressed = SuppressionContext(t, e, outages)
      /\ after.dt = t /\ after.energized = f /\ after.suppressed = SuppressionContext(t, f, outages)
  BY DEF DTInput
<1>2. TreeOrder
  BY TreeIsOrdered
<1>3. /\ a \in PolesOf(t) /\ a \in Pole /\ b \in PolesOf(t) /\ b \in Pole /\ p \in Pole
      /\ Above(a, b) /\ e[a] = "LIVE" /\ IsDark(e[b]) /\ a \notin in.suppressed /\ b \notin in.suppressed
  BY <1>1 DEF IsBorder, SaysLive, DarkPoles, DarkIn, PolesOf, Darkens
<1>4. ~OutageCovers(outages, t)
  BY <1>1, <1>3 DEF SuppressionContext
<1>5. p # b /\ Above(b, p) /\ ~Above(p, b)
  BY <1>2, <1>3 DEF Subtree, Darkens, TreeOrder
<1>6. a # p
  BY <1>2, <1>3, <1>5
<1>7. f[a] = "LIVE" /\ a \notin after.suppressed
  BY <1>1, <1>3, <1>4, <1>6 DEF SuppressionContext, DeadSensor, IsDark, Darkens
<1>8. b \in DarkPoles(after)
  <2>1. f[b] = e[b]
    BY <1>3, <1>5 DEF Darkens
  <2>2. ~DeadSensor(e, b)
    BY <1>1, <1>3 DEF SuppressionContext
  <2>3. \A c \in Children(b) : f[c] = "LIVE" => e[c] = "LIVE"
    BY DEF Children, Darkens
  <2>4. ~DeadSensor(f, b)
    BY <1>3, <2>1, <2>2, <2>3 DEF DeadSensor
  <2> QED BY <1>1, <1>3, <1>4, <2>1, <2>4 DEF DarkPoles, DarkIn, SuppressionContext
<1>9. ASSUME NEW q, Above(a, q), Above(q, b)
      PROVE  ~SaysLive(after, q) /\ q \notin DarkPoles(after)
  <2>1. q \in PolesOf(t) /\ q \in Pole /\ ~SaysLive(in, q) /\ q \notin DarkPoles(in)
    BY <1>1, <1>2, <1>3, <1>9 DEF IsBorder, TreeOrder, PolesOf
  <2>2. q # p
    BY <1>5, <1>9
  <2>3. f[q] = e[q]
    BY <2>1, <2>2 DEF Darkens
  <2>4. e[q] # "LIVE"
    BY <1>1, <1>4, <2>1 DEF SaysLive, SuppressionContext, DeadSensor, IsDark
  <2>5. p \notin Children(q)
    <3> SUFFICES ASSUME ParentOf(p) = q
                 PROVE  FALSE
      BY DEF Children
    <3>1. q # NoPole
      BY <2>1
    <3>2. PICK seqOnLine : InOrder(seqOnLine)
      BY DEF ValidTopology, InOrder
    <3>3. Ancestors[p] = <<q>> \o Ancestors[q]
      BY <1>3, <3>1, <3>2, AncestorsUnfold DEF OneUp
    <3>4. Ancestors[q] \in Seq(Pole)
      BY <1>2, <2>1 DEF TreeOrder
    <3>5. b = q \/ Above(b, q)
      <4> DEFINE up == Ancestors[q]
      <4>1. \A i \in DOMAIN (<<q>> \o up) : (<<q>> \o up)[i] = q \/ \E k \in DOMAIN up : (<<q>> \o up)[i] = up[k]
        <5>1. up \in Seq(Pole)
          BY <3>4
        <5> HIDE DEF up
        <5>2. TAKE i \in DOMAIN (<<q>> \o up)
        <5>3. i = 1 \/ i - 1 \in DOMAIN up
          BY <5>1
        <5>4. (<<q>> \o up)[i] = IF i = 1 THEN q ELSE up[i - 1]
          BY <2>1, <5>1, <5>3
        <5> QED BY <5>3, <5>4
      <4>2. \E i \in DOMAIN Ancestors[p] : Ancestors[p][i] = b
        BY <1>5 DEF Above
      <4> HIDE DEF up
      <4>3. PICK i \in DOMAIN (<<q>> \o up) : (<<q>> \o up)[i] = b
        BY <3>3, <4>2 DEF up
      <4>4. b = q \/ \E k \in DOMAIN up : up[k] = b
        BY <4>1, <4>3
      <4> QED BY <4>4 DEF Above, up
    <3> QED BY <1>2, <1>3, <1>9, <2>1, <3>5 DEF TreeOrder
  <2>6. \A c \in Children(q) : f[c] = e[c]
    BY <2>5 DEF Children, Darkens
  <2>7. q \notin DarkPoles(after)
    BY <1>1, <1>4, <2>1, <2>3, <2>6 DEF DarkPoles, DarkIn, SuppressionContext, DeadSensor
  <2> QED BY <1>1, <2>3, <2>4, <2>7 DEF SaysLive
<1> QED BY <1>1, <1>3, <1>7, <1>8, <1>9 DEF IsBorder, SaysLive

LEMMA SpanOutlives ==
  ASSUME IsFiniteSet(Pole), ValidTopology, Pole \subseteq Nat, NoPole \notin Pole,
         NEW t \in Transformer, t \in Recorded, NEW e, NEW stale, NEW outages,
         NEW p, NEW f, Darkens(p, e, f),
         NEW after, after = DTInput(t, f, stale, outages), ~IsDTFullyDark(after),
         NEW c \in LocalizeDT(DTInput(t, e, stale, outages)), c.type = "span", p \in c.affected
  PROVE  \E d \in LocalizeDT(after) : d.spanA = c.spanA /\ d.spanB = c.spanB
<1>0. PICK in : in = DTInput(t, e, stale, outages)
  OBVIOUS
<1>1. in.dt = t /\ after.dt = t
  BY <1>0 DEF DTInput
<1>2. \A x, g : /\ SpanCandidate(x, g).spanA = g.lastLive /\ SpanCandidate(x, g).spanB = g.firstDark
                /\ SpanCandidate(x, g).affected = Subtree(g.firstDark)
  BY DEF SpanCandidate
<1>3. PICK g \in Groups(in) : c = SpanCandidate(in, g)
  <2>1. \A source, P : AreaCandidate("dt", in.dt, source, in, P).type = "dt"
    BY DEF AreaCandidate
  <2> QED BY <1>0, <2>1 DEF LocalizeDT
<1>4. IsBorder(in, c.spanA, c.spanB) /\ p \in Subtree(c.spanB)
  BY <1>2, <1>3, GroupsAreTheBorder
<1>5. IsBorder(after, c.spanA, c.spanB)
  BY <1>0, <1>4, BorderOutlives
<1>6. PICK h \in Groups(after) : h.lastLive = c.spanA /\ h.firstDark = c.spanB
  BY <1>5, GroupsAreTheBorder
<1> QED BY <1>1, <1>2, <1>6, SpansAreGroups
=============================================================================
