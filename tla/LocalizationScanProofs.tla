----------------------- MODULE LocalizationScanProofs -----------------------
(***************************************************************************)
(* Theorems about LocalizationScan: what localization finds, for every     *)
(* recorded tree, every set of devices and all levels they can report.     *)
(*                                                                         *)
(* Registry and devices are variables there and constants in the lemmas of *)
(* LocalizationProofs, whose operators are therefore named L!... here and  *)
(* shown to be those of LocalizationScan.                                  *)
(***************************************************************************)
EXTENDS LocalizationScan, FiniteSetTheorems, TLAPS

L == INSTANCE LocalizationProofs WITH Parent <- parent, Monitored <- monitored

-----------------------------------------------------------------------------
(* Registry, devices and levels.                                           *)
ScanInv ==
  /\ parent \in Registry
  /\ monitored \subseteq Pole
  /\ energized \in [Pole -> {"LIVE", "DARK", "UNKNOWN"}]
  /\ \A p \in Pole \ monitored : energized[p] = "UNKNOWN"

(* Only poles with a device ever have a level.                             *)
THEOREM ScanType == Spec => []ScanInv
<1>1. Init => ScanInv
  BY DEF Init, ScanInv
<1>2. ScanInv /\ [Next]_vars => ScanInv'
  <2> SUFFICES ASSUME ScanInv, [Next]_vars
               PROVE  ScanInv'
    OBVIOUS
  <2>1. ASSUME NEW p \in Pole, NEW level \in {"LIVE", "DARK"}, Report(p, level)
        PROVE  ScanInv'
    BY <2>1 DEF Report, ScanInv, Registry, PolesOf
  <2>2. CASE Heartbeats
    BY <2>2 DEF Heartbeats, ScanInv, Registry, PolesOf
  <2>3. CASE HeartbeatsAge
    BY <2>3 DEF HeartbeatsAge, ScanInv, Registry, PolesOf
  <2>4. CASE ScheduleMoves
    BY <2>4 DEF ScheduleMoves, ScanInv, Registry, PolesOf
  <2>5. CASE UNCHANGED vars
    BY <2>5 DEF vars, ScanInv, Registry, PolesOf
  <2> QED BY <2>1, <2>2, <2>3, <2>4, <2>5 DEF Next
<1> QED BY <1>1, <1>2, PTL DEF Spec

(* What the registry holds is what the topology resolver accepts: a pole's *)
(* rank by its id is its seq_on_line.                                      *)
LEMMA RegistryIsValid ==
  ASSUME parent \in Registry
  PROVE  L!ValidTopology
<1> DEFINE Lower(p) == {q \in Pole : q < p}
           rank == [p \in Pole |-> Cardinality(Lower(p))]
<1>1. \A p \in Pole : IsFiniteSet(Lower(p)) /\ Cardinality(Lower(p)) \in 0 .. Cardinality(Pole)
  <2> TAKE p \in Pole
  <2>1. Lower(p) \subseteq Pole
    OBVIOUS
  <2> HIDE DEF Lower
  <2>2. /\ IsFiniteSet(Lower(p)) /\ Cardinality(Lower(p)) <= Cardinality(Pole)
        /\ Cardinality(Lower(p)) \in Nat /\ Cardinality(Pole) \in Nat
    BY <2>1, FS_Subset, FS_CardinalityType, ScanAssumption
  <2> QED BY <2>2
<1>2. \A p, q \in Pole : q < p => Cardinality(Lower(q)) < Cardinality(Lower(p))
  <2> TAKE p, q \in Pole
  <2> SUFFICES ASSUME q < p
               PROVE  Cardinality(Lower(q)) < Cardinality(Lower(p))
    OBVIOUS
  <2>1. Lower(q) \subseteq Lower(p) /\ q \in Lower(p) /\ q \notin Lower(q)
    <3>1. Pole \subseteq Int
      BY ScanAssumption
    <3>2. \A x \in Pole : x < q => x < p
      BY <3>1
    <3>3. ~(q < q)
      BY <3>1
    <3> QED BY <3>2, <3>3
  <2> HIDE DEF Lower
  <2>2. /\ Cardinality(Lower(q)) <= Cardinality(Lower(p))
        /\ Cardinality(Lower(q)) # Cardinality(Lower(p))
    BY <1>1, <2>1, FS_Subset
  <2>3. Cardinality(Lower(q)) \in Int /\ Cardinality(Lower(p)) \in Int
    BY <1>1
  <2> QED BY <2>2, <2>3
<1>3. \A p \in Pole : L!ParentOf(p) # NoPole =>
        L!ParentOf(p) \in Pole /\ DTOf[L!ParentOf(p)] = DTOf[p] /\ L!ParentOf(p) < p
  BY DEF Registry, L!ParentOf
<1>4. rank \in [Pole -> 0 .. L!Cardinality(Pole)]
  <2>1. L!Cardinality(Pole) = Cardinality(Pole)
    BY DEF Cardinality, L!Cardinality, IsFiniteSet, L!IsFiniteSet
  <2> HIDE DEF Lower
  <2> QED BY <1>1, <2>1
<1>5. \A p \in Pole : L!ParentOf(p) # NoPole =>
        /\ L!ParentOf(p) \in Pole /\ DTOf[L!ParentOf(p)] = DTOf[p]
        /\ rank[L!ParentOf(p)] < rank[p]
  <2> HIDE DEF Lower
  <2> QED BY <1>2, <1>3
<1>6. ASSUME NEW t \in Recorded
      PROVE  \E root \in L!PolesOf(t) : \A p \in L!PolesOf(t) : L!ParentOf(p) = NoPole <=> p = root
  <2> DEFINE roots == {p \in Pole : DTOf[p] = t /\ parent[p] = NoPole}
  <2>1. Cardinality(roots) = 1
    BY DEF Registry
  <2>2. IsFiniteSet(roots)
    BY FS_Subset, ScanAssumption
  <2> HIDE DEF roots
  <2>3. PICK root : roots = {root}
    BY <2>1, <2>2, FS_Singleton
  <2> QED BY <2>3 DEF roots, L!PolesOf, L!ParentOf
<1> HIDE DEF rank
<1> QED BY <1>4, <1>5, <1>6 DEF L!ValidTopology

-----------------------------------------------------------------------------
(* The operators of LocalizationScan are those of the lemmas.              *)
LEMMA SameInputs ==
  \A t, e, s, o : DTInput(t, e, s, o) = L!DTInput(t, e, s, o)
BY DEF DTInput, L!DTInput, SuppressionContext, L!SuppressionContext,
       PolesOf, L!PolesOf, OutageCovers, L!OutageCovers, DeadSensor, L!DeadSensor,
       IsDark, L!IsDark, Children, L!Children, ParentOf, L!ParentOf

LEMMA SameTree ==
  /\ \A t : PolesOf(t) = L!PolesOf(t)
  /\ \A a, p : Above(a, p) = L!Above(a, p)
BY DEF PolesOf, L!PolesOf, Above, L!Above, Ancestors, L!Ancestors, ParentOf, L!ParentOf

LEMMA SameDarkness ==
  /\ \A in : DarkPoles(in) = L!DarkPoles(in)
  /\ \A in : IsDTFullyDark(in) = L!IsDTFullyDark(in)
BY DEF IsDTFullyDark, L!IsDTFullyDark, DarkPoles, L!DarkPoles, DarkIn, L!DarkIn,
       PolesOf, L!PolesOf, IsDark, L!IsDark

LEMMA SameCardinality ==
  \A S : Cardinality(S) = L!Cardinality(S)
BY DEF Cardinality, L!Cardinality, IsFiniteSet, L!IsFiniteSet

LEMMA SameCandidates ==
  /\ \A in : LocalizeDT(in) = L!LocalizeDT(in)
  /\ \A t, e, s, o : Candidates(t, e, s, o) = L!Candidates(t, e, s, o)
<1>1. \A in : Groups(in) = L!Groups(in)
  BY DEF Groups, L!Groups, Boundaries, L!Boundaries, FindBoundary, L!FindBoundary,
         DarkPoles, L!DarkPoles, DarkIn, L!DarkIn, PolesOf, L!PolesOf,
         Ancestors, L!Ancestors, ParentOf, L!ParentOf, IsDark, L!IsDark,
         Min, L!Min, Max, L!Max
<1>2. \A source, in, lastLive, affected, dark, unmonitored :
        ConfidenceLevel(source, in, lastLive, affected, dark, unmonitored)
          = L!ConfidenceLevel(source, in, lastLive, affected, dark, unmonitored)
  BY DEF ConfidenceLevel, L!ConfidenceLevel, Cardinality, L!Cardinality,
         IsFiniteSet, L!IsFiniteSet
<1>3. \A in, b : SpanCandidate(in, b) = L!SpanCandidate(in, b)
  BY <1>2 DEF SpanCandidate, L!SpanCandidate, SourceOf, L!SourceOf, Subtree, L!Subtree,
         Above, L!Above, DarkIn, L!DarkIn, Ancestors, L!Ancestors, ParentOf, L!ParentOf,
         IsDark, L!IsDark
<1>4. \A type, at, source, in, affected :
        AreaCandidate(type, at, source, in, affected)
          = L!AreaCandidate(type, at, source, in, affected)
  BY <1>2 DEF AreaCandidate, L!AreaCandidate, DarkIn, L!DarkIn, IsDark, L!IsDark
<1>5. ASSUME NEW in
      PROVE  LocalizeDT(in) = L!LocalizeDT(in)
  <2>1. PolesOf(in.dt) = L!PolesOf(in.dt)
    BY SameTree
  <2> QED BY <1>1, <1>3, <1>4, <2>1, SameDarkness DEF LocalizeDT, L!LocalizeDT
<1>6. ASSUME NEW f, NEW e, NEW s, NEW o
      PROVE  LocalizeFeeder(f, e, s, o) = L!LocalizeFeeder(f, e, s, o)
  <2>1. \A t : PolesOf(t) = L!PolesOf(t)
    BY SameTree
  <2>2. \A S : Min(S) = L!Min(S)
    BY DEF Min, L!Min
  <2>3. \A in : IsDTFullyDark(in) = L!IsDTFullyDark(in)
    BY SameDarkness
  <2> QED BY <1>4, <2>1, <2>2, <2>3, SameInputs, SameCardinality
          DEF LocalizeFeeder, L!LocalizeFeeder
<1> QED BY <1>5, <1>6, SameInputs DEF Candidates, L!Candidates

(* What the lemmas ask of registry and levels.                             *)
LEMMA LemmasApply ==
  ASSUME ScanInv
  PROVE  /\ L!ValidTopology /\ L!IsFiniteSet(Pole) /\ L!IsFiniteSet(Transformer)
         /\ L!Reported(energized)
<1>1. IsFiniteSet(Pole) = L!IsFiniteSet(Pole) /\ IsFiniteSet(Transformer) = L!IsFiniteSet(Transformer)
  BY DEF IsFiniteSet, L!IsFiniteSet
<1>2. L!Reported(energized)
  BY DEF L!Reported, ScanInv
<1> QED BY <1>1, <1>2, RegistryIsValid, ScanAssumption DEF ScanInv

-----------------------------------------------------------------------------
(* The spans reported are the frontier, each once, however many dark poles *)
(* lead to it.                                                             *)
LEMMA FrontierIsBorder ==
  ASSUME ScanInv, NEW in
  PROVE  Frontier(in) = {ab \in L!PolesOf(in.dt) \X L!PolesOf(in.dt) : L!IsBorder(in, ab[1], ab[2])}
<1>1. ASSUME NEW a \in L!PolesOf(in.dt), NEW b \in L!PolesOf(in.dt)
      PROVE  Borders(in, a, b) <=> L!IsBorder(in, a, b)
  <2>1. L!TreeOrder
    BY LemmasApply, L!TreeIsOrdered
  <2>2. b \in Pole
    BY DEF L!PolesOf
  <2>3. \A q : L!Above(q, b) => q \in Pole
    BY <2>1, <2>2 DEF L!TreeOrder, L!PolesOf
  <2>4. \A q : /\ Live(in, q) <=> L!SaysLive(in, q)
               /\ Dark(in, q) <=> q \in L!DarkPoles(in)
    BY SameDarkness DEF Live, Dark, L!SaysLive
  <2> QED BY <2>3, <2>4, SameTree DEF Borders, L!IsBorder
<1>2. PolesOf(in.dt) = L!PolesOf(in.dt)
  BY SameTree
<1> QED BY <1>1, <1>2 DEF Frontier

THEOREM SpansAreExact == Spec => []SpansAreTheFrontier
<1>1. ScanInv => SpansAreTheFrontier
  <2> SUFFICES ASSUME ScanInv, NEW t \in Recorded, ~IsDTFullyDark(In(t))
               PROVE  LET spans == {c \in LocalizeDT(In(t)) : c.type = "span"}
                      IN  /\ {<<c.spanA, c.spanB>> : c \in spans} = Frontier(In(t))
                          /\ Cardinality(spans) = Cardinality(Frontier(In(t)))
    BY DEF SpansAreTheFrontier
  <2>0. PICK in : in = In(t)
    OBVIOUS
  <2>1. in.dt \in Recorded
    BY <2>0 DEF In, DTInput
  <2>2. ~L!IsDTFullyDark(in)
    BY <2>0, SameDarkness
  <2>3. PICK spans : spans = {c \in L!LocalizeDT(in) : c.type = "span"}
    OBVIOUS
  <2>4. PICK border :
          border = {ab \in L!PolesOf(in.dt) \X L!PolesOf(in.dt) : L!IsBorder(in, ab[1], ab[2])}
    OBVIOUS
  <2>5. /\ {<<c.spanA, c.spanB>> : c \in spans} = border
        /\ L!Cardinality(spans) = L!Cardinality(border)
    <3>1. Pole \subseteq Nat
      BY ScanAssumption
    <3> QED BY <2>1, <2>2, <2>3, <2>4, <3>1, LemmasApply, L!SpansAreTheBorder
  <2>6. spans = {c \in LocalizeDT(In(t)) : c.type = "span"} /\ border = Frontier(In(t))
    BY <2>0, <2>3, <2>4, SameCandidates, FrontierIsBorder
  <2> QED BY <2>5, <2>6, SameCardinality
<1> QED BY <1>1, ScanType, PTL

(* Two faults found at once have disjoint poles, or one lies inside the    *)
(* other and the outer one is marked.                                      *)
THEOREM OverlapIsMarked == Spec => []OverlapIsContradicted
<1>1. ScanInv => OverlapIsContradicted
  <2> SUFFICES ASSUME ScanInv, NEW t \in Transformer,
                      NEW c \in Candidates(t, energized, stale, outages),
                      NEW d \in Candidates(t, energized, stale, outages),
                      c # d, c.affected \cap d.affected # {}
               PROVE  \/ c.affected \subseteq d.affected /\ d.level = "LOW"
                      \/ d.affected \subseteq c.affected /\ c.level = "LOW"
    BY DEF OverlapIsContradicted
  <2>0. PICK in : in = L!DTInput(t, energized, stale, outages)
    OBVIOUS
  <2>1. /\ c \in L!Candidates(t, energized, stale, outages)
        /\ d \in L!Candidates(t, energized, stale, outages)
    BY SameCandidates
  <2>2. PICK g \in L!Groups(in), h \in L!Groups(in) :
          c = L!SpanCandidate(in, g) /\ d = L!SpanCandidate(in, h)
    BY <2>0, <2>1, L!SeveralAreSpans
  <2>3. g # h
    BY <2>2
  <2>4. Pole \subseteq Nat /\ NoPole \notin Pole
    BY ScanAssumption
  <2> QED BY <2>2, <2>3, <2>4, LemmasApply, L!SpansNest
<1> QED BY <1>1, ScanType, PTL

(* What the run's HIGH asks for is what a HIGH candidate has.              *)
THEOREM HighIsEarned == Spec => []HighConfidenceIsEarned
<1>1. ScanInv => HighConfidenceIsEarned
  <2> SUFFICES ASSUME ScanInv, NEW t \in Transformer,
                      NEW c \in Candidates(t, energized, stale, outages), c.level = "HIGH"
               PROVE  /\ \A p \in c.affected : DTOf[p] \in Recorded /\ energized[p] # "LIVE"
                      /\ Cardinality({p \in c.affected : energized[p] = "DARK"}) >= 2
                      /\ c.type = "span" =>
                           /\ c.spanA \notin stale
                           /\ \A q \in Pole : Above(c.spanA, q) /\ Above(q, c.spanB) =>
                                q \in monitored \/ q \in In(t).suppressed
    BY DEF HighConfidenceIsEarned
  <2>0. PICK in : in = L!DTInput(t, energized, stale, outages)
    OBVIOUS
  <2>1. c \in L!Candidates(t, energized, stale, outages)
    BY SameCandidates
  <2>2. Pole \subseteq Nat /\ NoPole \notin Pole /\ FeederDarkPercent \in Nat \ {0}
    BY ScanAssumption
  <2>3. L!EarnsHigh(in, energized, stale, c)
    BY <2>0, <2>1, <2>2, LemmasApply, L!HighCandidate
  <2>4. in = In(t)
    BY <2>0, SameInputs DEF In
  <2> QED BY <2>3, <2>4, SameTree, SameCardinality DEF L!EarnsHigh
<1> QED BY <1>1, ScanType, PTL

(* The verifier asks for at least one live pole, and a candidate with one  *)
(* is a marked span.                                                       *)
THEOREM NoneIsBornRestored == Spec => []NoFaultIsBornRestored
<1>1. ScanInv => NoFaultIsBornRestored
  <2> SUFFICES ASSUME ScanInv, NEW t \in Transformer,
                      NEW c \in Candidates(t, energized, stale, outages),
                      RestoredNow(c.affected)
               PROVE  c.type = "span" /\ c.level = "LOW"
    BY DEF NoFaultIsBornRestored
  <2> DEFINE m == c.affected \cap monitored
             live == {p \in m : energized[p] = "LIVE"}
  <2>1. m # {} /\ 100 * Cardinality(live) >= ThresholdPercent * Cardinality(m)
    BY DEF RestoredNow
  <2>2. IsFiniteSet(m)
    <3>1. m \subseteq Pole
      BY DEF ScanInv
    <3> HIDE DEF m
    <3> QED BY <3>1, FS_Subset, ScanAssumption
  <2>3. live # {}
    <3> SUFFICES ASSUME live = {}
                 PROVE  FALSE
      OBVIOUS
    <3>1. Cardinality(live) = 0
      BY FS_EmptySet
    <3>2. Cardinality(m) \in Nat \ {0}
      <4> HIDE DEF m
      <4> QED BY <2>1, <2>2, FS_EmptySet, FS_CardinalityType
    <3>3. ThresholdPercent * Cardinality(m) > 0
      <4>1. \A x, y \in Nat \ {0} : x * y > 0
        OBVIOUS
      <4>2. ThresholdPercent \in Nat \ {0}
        BY ScanAssumption
      <4> HIDE DEF m
      <4> QED BY <3>2, <4>1, <4>2
    <3> HIDE DEF m, live
    <3>4. ThresholdPercent * Cardinality(m) \in Int
      <4>1. ThresholdPercent \in Int
        BY ScanAssumption
      <4> QED BY <3>2, <4>1
    <3> QED BY <2>1, <3>1, <3>3, <3>4
  <2>4. PICK p \in c.affected : energized[p] = "LIVE"
    BY <2>3
  <2>5. c \in L!Candidates(t, energized, stale, outages)
    BY SameCandidates
  <2>6. Pole \subseteq Nat /\ NoPole \notin Pole /\ FeederDarkPercent \in Nat \ {0}
    BY ScanAssumption
  <2> QED BY <2>4, <2>5, <2>6, LemmasApply, L!LivePoleContradicts
<1> QED BY <1>1, ScanType, PTL

(* No dark pole is overlooked without cause, and a feeder fault loses none *)
(* of a recorded transformer's.                                            *)
THEOREM NoDarkPoleIsLost == Spec => []DarkPolesAreAccountedFor
<1>1. ScanInv => DarkPolesAreAccountedFor
  <2> SUFFICES ASSUME ScanInv, NEW t \in Transformer, NEW p \in DarkPoles(In(t))
               PROVE  /\ \/ Accounted(LocalizeDT(In(t)), p)
                         \/ t \in Recorded /\ ~\E a \in Pole : Above(a, p) /\ Live(In(t), a)
                      /\ t \in Recorded /\ Accounted(LocalizeDT(In(t)), p) =>
                           Accounted(Candidates(t, energized, stale, outages), p)
    BY DEF DarkPolesAreAccountedFor
  <2>0. PICK in : in = L!DTInput(t, energized, stale, outages)
    OBVIOUS
  <2>1. in = In(t) /\ in.dt = t
    BY <2>0, SameInputs DEF In, L!DTInput
  <2>2. p \in L!DarkPoles(in)
    BY <2>1, SameDarkness
  <2>3. p \in L!PolesOf(t)
    BY <2>1, <2>2 DEF L!DarkPoles, L!DarkIn
  <2>4. Pole \subseteq Nat /\ FeederDarkPercent \in Nat \ {0}
    BY ScanAssumption
  <2>5. \/ \E c \in L!LocalizeDT(in) : p \in c.affected
        \/ in.dt \in Recorded /\ ~\E a : L!Above(a, p) /\ L!SaysLive(in, a)
    BY <2>2, <2>4, LemmasApply, L!DarkPoleIsPlaced
  <2>6. t \in Recorded /\ (\E c \in L!LocalizeDT(in) : p \in c.affected) =>
          \E c \in L!Candidates(t, energized, stale, outages) : p \in c.affected
    BY <2>0, <2>3, <2>4, LemmasApply, L!FeederKeepsPoles
  <2>7. \A a : Live(in, a) <=> L!SaysLive(in, a)
    BY DEF Live, L!SaysLive
  <2> QED BY <2>1, <2>5, <2>6, <2>7, SameTree, SameCandidates DEF Accounted
<1> QED BY <1>1, ScanType, PTL

(* A pole that goes dark inside a reported span leaves its identity alone. *)
THEOREM SpansLast == Spec => SpanOutlivesNewDarkPoles
<1> DEFINE Step(p) ==
      Report(p, "DARK") =>
        \A t \in Recorded : \A c \in LocalizeDT(In(t)) :
          c.type = "span" /\ p \in c.affected =>
            LET after == DTInput(t, energized', stale, outages)
            IN  \/ IsDTFullyDark(after)
                \/ \E d \in LocalizeDT(after) : d.spanA = c.spanA /\ d.spanB = c.spanB
<1>1. ScanInv => \A p \in Pole : Step(p)
  <2> SUFFICES ASSUME ScanInv, NEW p \in Pole, Report(p, "DARK"),
                      NEW t \in Recorded, NEW c \in LocalizeDT(In(t)),
                      c.type = "span", p \in c.affected,
                      ~IsDTFullyDark(DTInput(t, energized', stale, outages))
               PROVE  \E d \in LocalizeDT(DTInput(t, energized', stale, outages)) :
                        d.spanA = c.spanA /\ d.spanB = c.spanB
    OBVIOUS
  <2>1. PICK f : f = energized'
    OBVIOUS
  <2>2. L!Darkens(p, energized, f)
    BY <2>1 DEF L!Darkens, Report, ScanInv, L!IsDark
  <2>3. PICK after : after = L!DTInput(t, f, stale, outages)
    OBVIOUS
  <2>4. after = DTInput(t, energized', stale, outages)
    BY <2>1, <2>3, SameInputs
  <2>5. ~L!IsDTFullyDark(after)
    BY <2>4, SameDarkness
  <2>6. c \in L!LocalizeDT(L!DTInput(t, energized, stale, outages))
    BY SameInputs, SameCandidates DEF In
  <2>7. Pole \subseteq Nat /\ NoPole \notin Pole /\ t \in Transformer
    BY ScanAssumption
  <2>8. \E d \in L!LocalizeDT(after) : d.spanA = c.spanA /\ d.spanB = c.spanB
    BY <2>2, <2>3, <2>5, <2>6, <2>7, LemmasApply, L!SpanOutlives
  <2> QED BY <2>4, <2>8, SameCandidates
<1>2. ScanInv /\ [Next]_vars => [\A p \in Pole : Step(p)]_vars
  BY <1>1
<1>3. Spec => [][\A p \in Pole : Step(p)]_vars
  <2> HIDE DEF Step
  <2> QED BY <1>2, ScanType, PTL DEF Spec
<1> QED BY <1>3 DEF SpanOutlivesNewDarkPoles
=============================================================================
