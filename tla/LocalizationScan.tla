-------------------------- MODULE LocalizationScan --------------------------
(* Every input localization can be given on a small network: any recorded  *)
(* tree, any set of monitored poles, and any levels the poles can come to  *)
(* report.  Each state is one input; the properties relate what            *)
(* Localization finds in it to what is physically there.                   *)
EXTENDS Integers, Sequences, FiniteSets

CONSTANTS
  Pole, Transformer, Feeder, DTOf, FeederOf, Recorded, NoPole,
  FeederDarkPercent, SensorGapPercent,
  ThresholdPercent,   \* VERIFICATION_THRESHOLD
  OutageCases         \* the sets of assets that may be out at once

(* The poles are those of the registry, in the order of their ids, and the *)
(* thresholds ask for something.                                           *)
ASSUME ScanAssumption ==
  /\ IsFiniteSet(Pole) /\ Pole \subseteq Nat /\ NoPole \notin Pole
  /\ IsFiniteSet(Transformer) /\ Recorded \subseteq Transformer
  /\ DTOf \in [Pole -> Transformer]
  /\ FeederDarkPercent \in Nat \ {0} /\ ThresholdPercent \in Nat \ {0}

VARIABLES
  parent,      \* parent_pole_id and has_device of the registry
  monitored,
  energized,   \* the pole state cache: LIVE, DARK or UNKNOWN
  stale,       \* poles whose last heartbeat is too old
  outages      \* what the outage provider answers for now

vars == <<parent, monitored, energized, stale, outages>>

INSTANCE Localization WITH Parent <- parent, Monitored <- monitored

(* The registry numbers the poles of a tree level by level, as the seed    *)
(* does, and a recorded topology has one root pole, or the resolver        *)
(* refuses it.                                                             *)
Registry ==
  {f \in [Pole -> Pole \cup {NoPole}] :
     /\ \A p \in Pole :
          f[p] # NoPole => /\ f[p] < p
                           /\ DTOf[f[p]] = DTOf[p]
                           /\ DTOf[p] \in Recorded
                           /\ \A q \in PolesOf(DTOf[p]) : q < p => f[q] <= f[p]
     /\ \A t \in Recorded :
          Cardinality({p \in Pole : DTOf[p] = t /\ f[p] = NoPole}) = 1}

Init ==
  /\ parent \in Registry
  /\ monitored \in SUBSET Pole
  /\ energized = [p \in Pole |-> "UNKNOWN"]
  /\ stale = Pole
  /\ outages = {}

(* power_lost, and power_restored or boot, set the level of a pole; a       *)
(* heartbeat leaves it.                                                    *)
Report(p, level) ==
  /\ p \in monitored
  /\ energized[p] # level
  /\ energized' = [energized EXCEPT ![p] = level]
  /\ UNCHANGED <<parent, monitored, stale, outages>>

(* Every device sends its heartbeat.  Only the age of one pole's matters   *)
(* to a candidate, so all are fresh or all are old.                        *)
Heartbeats ==
  /\ stale' = Pole \ monitored
  /\ UNCHANGED <<parent, monitored, energized, outages>>

(* None sent one for STALE_HEARTBEAT_MINUTES.                            *)
HeartbeatsAge ==
  /\ stale' = Pole
  /\ UNCHANGED <<parent, monitored, energized, outages>>

(* Outage windows begin and end.                                           *)
ScheduleMoves ==
  /\ outages' \in OutageCases
  /\ UNCHANGED <<parent, monitored, energized, stale>>

Next ==
  \/ \E p \in Pole, level \in {"LIVE", "DARK"} : Report(p, level)
  \/ Heartbeats
  \/ HeartbeatsAge
  \/ ScheduleMoves

Spec == Init /\ [][Next]_vars
-----------------------------------------------------------------------------
In(t) == DTInput(t, energized, stale, outages)
Live(in, p) == in.energized[p] = "LIVE" /\ p \notin in.suppressed
Dark(in, p) == p \in DarkPoles(in)

(* The frontier between the live and the dark region of a tree: pairs of a *)
(* live and a dark pole with no pole in between that says either.          *)
Borders(in, a, b) ==
  /\ Above(a, b)
  /\ Live(in, a) /\ Dark(in, b)
  /\ \A q \in Pole : Above(a, q) /\ Above(q, b) => ~Live(in, q) /\ ~Dark(in, q)

Frontier(in) == {ab \in PolesOf(in.dt) \X PolesOf(in.dt) : Borders(in, ab[1], ab[2])}

(* The spans reported are the frontier, each once, however many dark poles *)
(* lead to it (boundary-finder.ts, fault-grouper.ts).                      *)
SpansAreTheFrontier ==
  \A t \in Recorded :
    LET spans == {c \in LocalizeDT(In(t)) : c.type = "span"}
        frontier == Frontier(In(t))
    IN  ~IsDTFullyDark(In(t)) =>
          /\ {<<c.spanA, c.spanB>> : c \in spans} = frontier
          /\ Cardinality(spans) = Cardinality(frontier)

(* Two faults found at once have disjoint poles, or one lies inside the    *)
(* other and the outer one is marked as contradicted by the live pole      *)
(* between them (fault-localization-engine.ts).                            *)
OverlapIsContradicted ==
  \A t \in Transformer : \A c, d \in Candidates(t, energized, stale, outages) :
    c # d /\ c.affected \cap d.affected # {} =>
      \/ c.affected \subseteq d.affected /\ d.level = "LOW"
      \/ d.affected \subseteq c.affected /\ c.level = "LOW"

(* HIGH means what LOCALIZATION-SPECIFICATION.md, HIGH Confidence          *)
(* Requirements, lists, of the span that is reported: recorded wiring, two *)
(* dark reports that no live one contradicts, a recent heartbeat of the    *)
(* live pole and no pole without device in the span.                       *)
HighConfidenceIsEarned ==
  \A t \in Transformer : \A c \in Candidates(t, energized, stale, outages) :
    c.level = "HIGH" =>
      /\ \A p \in c.affected : DTOf[p] \in Recorded /\ energized[p] # "LIVE"
      /\ Cardinality({p \in c.affected : energized[p] = "DARK"}) >= 2
      /\ c.type = "span" =>
           /\ c.spanA \notin stale
           /\ \A q \in Pole : Above(c.spanA, q) /\ Above(q, c.spanB) =>
                                q \in monitored \/ q \in In(t).suppressed

(* The verifier's rule for the evidence a candidate would leave            *)
(* (domain/ticket/restoration-verifier.ts).                                *)
RestoredNow(P) ==
  LET m == P \cap monitored
  IN  /\ m # {}
      /\ 100 * Cardinality({p \in m : energized[p] = "LIVE"})
           >= ThresholdPercent * Cardinality(m)

(* A fault is not created in a state in which its verifier would close it, *)
(* except one marked as contradicted (restoration-verifier.ts against      *)
(* fault-localization-engine.ts).                                          *)
NoFaultIsBornRestored ==
  \A t \in Transformer : \A c \in Candidates(t, energized, stale, outages) :
    RestoredNow(c.affected) => c.type = "span" /\ c.level = "LOW"

(* No dark pole is overlooked without cause: each is in a candidate of its *)
(* own transformer, unless it is suppressed or no live pole above it gives *)
(* the break a place; and where wiring is recorded, reporting the feeder   *)
(* instead loses none of them (localize-faults.ts, selectCandidates).      *)
Accounted(cs, p) == \E c \in cs : p \in c.affected

DarkPolesAreAccountedFor ==
  \A t \in Transformer :
    LET own == LocalizeDT(In(t))
        chosen == Candidates(t, energized, stale, outages)
    IN  \A p \in DarkPoles(In(t)) :
          /\ \/ Accounted(own, p)
             \/ t \in Recorded /\ ~\E a \in Pole : Above(a, p) /\ Live(In(t), a)
          /\ t \in Recorded /\ Accounted(own, p) => Accounted(chosen, p)

(* A pole that goes dark inside a reported span changes nothing about      *)
(* which span it is: the identity under which the fault is found again     *)
(* stays, until the whole transformer is dark (localize-faults.ts,         *)
(* activeFaultIdentity).                                                   *)
SpanOutlivesNewDarkPoles ==
  [][\A p \in Pole : Report(p, "DARK") =>
       \A t \in Recorded : \A c \in LocalizeDT(In(t)) :
         c.type = "span" /\ p \in c.affected =>
           LET after == DTInput(t, energized', stale, outages)
           IN  \/ IsDTFullyDark(after)
               \/ \E d \in LocalizeDT(after) : d.spanA = c.spanA /\ d.spanB = c.spanB
    ]_vars
=============================================================================
