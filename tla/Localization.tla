---------------------------- MODULE Localization ----------------------------
(* Which faults the levels of the poles show: the pure part of the server, *)
(* domain/topology, domain/noise-filter and domain/localization, with the  *)
(* choice between transformer and feeder candidates that                   *)
(* application/localize-faults.ts makes.                                   *)
(*                                                                         *)
(* Poles and transformers are numbers in the order of their ids.  Levels   *)
(* are a function from poles; a pole without a device is UNKNOWN for ever. *)
(* "stale" is the set of poles whose heartbeat is older than the policy    *)
(* allows, "outages" the feeders and transformers inside an outage window  *)
(* and its tolerance.  Coordinates, pincodes and texts are left out.       *)
EXTENDS Integers, Sequences, FiniteSets, FiniteSetsExt

CONSTANTS
  Pole, Transformer, Feeder,
  DTOf,                \* the transformer of each pole
  FeederOf,            \* the feeder of each transformer
  Recorded,            \* the transformers with a recorded topology
  Parent,              \* parent_pole_id of each pole
  NoPole,
  Monitored,           \* the poles with a device
  FeederDarkPercent,   \* FEEDER_DARK_THRESHOLD
  SensorGapPercent     \* SENSOR_GAP_THRESHOLD

Energized == {"LIVE", "DARK", "PRESUMED_DARK", "UNKNOWN"}
-----------------------------------------------------------------------------
(* The graph of a transformer: the recorded tree, or a flat list of poles. *)
PolesOf(t) == {p \in Pole : DTOf[p] = t}

ParentOf(p) == IF DTOf[p] \in Recorded THEN Parent[p] ELSE NoPole

Children(p) == {q \in Pole : ParentOf(q) = p}

(* What the resolver asks of recorded wiring: one root pole for each       *)
(* transformer, and the parent of any other pole is a pole of the same     *)
(* transformer with a smaller seq_on_line.                                 *)
ValidTopology ==
  /\ \E seqOnLine \in [Pole -> 0 .. Cardinality(Pole)] :
       \A p \in Pole : ParentOf(p) # NoPole =>
         /\ ParentOf(p) \in Pole /\ DTOf[ParentOf(p)] = DTOf[p]
         /\ seqOnLine[ParentOf(p)] < seqOnLine[p]
  /\ \A t \in Recorded :
       \E root \in PolesOf(t) : \A p \in PolesOf(t) : ParentOf(p) = NoPole <=> p = root

(* The poles between p and its transformer, nearest first.                 *)
Ancestors[p \in Pole] ==
  IF ParentOf(p) = NoPole THEN <<>> ELSE <<ParentOf(p)>> \o Ancestors[ParentOf(p)]

Above(a, p) == LET up == Ancestors[p] IN \E i \in DOMAIN up : up[i] = a

Subtree(p) == {q \in Pole : q = p \/ Above(p, q)}
-----------------------------------------------------------------------------
(* Noise filters and the input of one transformer.                         *)
IsDark(level) == level \in {"DARK", "PRESUMED_DARK"}

(* Variant: children that report count, live or not.                       *)
DeadSensorIfChildrenReport(energized, p) ==
  /\ IsDark(energized[p])
  /\ Children(p) # {}
  /\ \A c \in Children(p) : energized[c] # "UNKNOWN"

(* A dark pole whose children are all live is a dead sensor.               *)
DeadSensor(energized, p) ==
  /\ IsDark(energized[p])
  /\ Children(p) # {}
  /\ \A c \in Children(p) : energized[c] = "LIVE"

OutageCovers(outages, t) == {t, FeederOf[t]} \cap outages # {}

SuppressionContext(t, energized, outages) ==
  {p \in PolesOf(t) : OutageCovers(outages, t) \/ DeadSensor(energized, p)}

DTInput(t, energized, stale, outages) ==
  [dt |-> t, energized |-> energized, stale |-> stale,
   suppressed |-> SuppressionContext(t, energized, outages)]

DarkIn(in, P) == {p \in P : IsDark(in.energized[p])}

DarkPoles(in) == DarkIn(in, PolesOf(in.dt)) \ in.suppressed

(* Variant: one dark pole is enough.                                       *)
IsDTPartlyDark(in) == DarkPoles(in) \cap Monitored # {}

IsDTFullyDark(in) ==
  LET monitored == (PolesOf(in.dt) \cap Monitored) \ in.suppressed
  IN  monitored # {} /\ monitored \subseteq DarkPoles(in)
-----------------------------------------------------------------------------
(* Boundaries.                                                             *)

(* Variant: the pole the walk starts from is reported as the first dark    *)
(* one.                                                                    *)
FindBoundaryAtOrigin(in, p) ==
  LET up == Ancestors[p]
      live == {i \in DOMAIN up : up[i] \notin in.suppressed /\ in.energized[up[i]] = "LIVE"}
      passed == {i \in 1 .. Min(live) - 1 : up[i] \notin in.suppressed}
  IN  IF live = {} THEN {}
      ELSE {[from |-> p, lastLive |-> up[Min(live)], firstDark |-> p,
             unmonitored |-> {up[i] : i \in passed} \ Monitored]}

(* The walk from a dark pole up to the nearest live pole: the highest dark *)
(* pole it passes, and the poles without a device.  No boundary if it      *)
(* reaches the transformer.  Suppressed poles are passed over.             *)
FindBoundary(in, p) ==
  LET up == Ancestors[p]
      live == {i \in DOMAIN up : up[i] \notin in.suppressed /\ in.energized[up[i]] = "LIVE"}
      passed == {i \in 1 .. Min(live) - 1 : up[i] \notin in.suppressed}
      dark == {i \in passed : IsDark(in.energized[up[i]])}
  IN  IF live = {} THEN {}
      ELSE {[from |-> p,
             lastLive |-> up[Min(live)],
             firstDark |-> IF dark = {} THEN p ELSE up[Max(dark)],
             unmonitored |-> {up[i] : i \in passed} \ Monitored]}

Boundaries(in) == UNION {FindBoundary(in, p) : p \in DarkPoles(in)}

(* One group for each boundary, with what the first of its poles found.    *)
Groups(in) ==
  LET all == Boundaries(in)
  IN  {b \in all :
         \A c \in all :
           c.lastLive = b.lastLive /\ c.firstDark = b.firstDark => b.from <= c.from}
-----------------------------------------------------------------------------
(* Confidence.  in.stale counts for the last live pole only.               *)
(* Variants: contradictions are not looked for; a single dark report is    *)
(* not doubted.                                                            *)
UncontradictedLevel(source, in, lastLive, affected, dark, unmonitored) ==
  IF \/ source = "FALLBACK"
     \/ 100 * Cardinality(affected \ Monitored) > SensorGapPercent * Cardinality(affected)
    THEN "LOW"
  ELSE IF unmonitored # {} \/ lastLive \in in.stale \/ Cardinality(dark) = 1
    THEN "MEDIUM"
  ELSE "HIGH"

CredulousLevel(source, in, lastLive, affected, dark, unmonitored) ==
  IF \/ source = "FALLBACK"
     \/ 100 * Cardinality(affected \ Monitored) > SensorGapPercent * Cardinality(affected)
     \/ lastLive # NoPole /\ \E p \in affected : in.energized[p] = "LIVE"
    THEN "LOW"
  ELSE IF unmonitored # {} \/ lastLive \in in.stale THEN "MEDIUM"
  ELSE "HIGH"

ConfidenceLevel(source, in, lastLive, affected, dark, unmonitored) ==
  LET gaps == affected \ Monitored
      low == \/ source = "FALLBACK"
             \/ dark # {} /\ \A p \in dark : in.energized[p] = "PRESUMED_DARK"
             \/ 100 * Cardinality(gaps) > SensorGapPercent * Cardinality(affected)
             \/ lastLive # NoPole /\ \E p \in affected : in.energized[p] = "LIVE"
      medium == \/ unmonitored # {}
                \/ lastLive # NoPole /\ lastLive \in in.stale
                \/ Cardinality(dark) = 1
  IN  IF low THEN "LOW" ELSE IF medium THEN "MEDIUM" ELSE "HIGH"
-----------------------------------------------------------------------------
(* Candidates.                                                             *)
SourceOf(t) == IF t \in Recorded THEN "RECORDED" ELSE "FALLBACK"

SpanCandidate(in, b) ==
  LET affected == Subtree(b.firstDark)
  IN  [type |-> "span", at |-> in.dt,
       spanA |-> b.lastLive, spanB |-> b.firstDark,
       affected |-> affected,
       source |-> SourceOf(in.dt),
       level |-> ConfidenceLevel(SourceOf(in.dt), in, b.lastLive, affected,
                   DarkIn(in, affected) \ in.suppressed, b.unmonitored)]

(* A candidate without a span: its score counts monitored poles only.      *)
AreaCandidate(type, at, source, in, affected) ==
  [type |-> type, at |-> at, spanA |-> NoPole, spanB |-> NoPole,
   affected |-> affected,
   source |-> source,
   level |-> ConfidenceLevel(source, in, NoPole, affected \cap Monitored,
               DarkIn(in, affected), {})]

LocalizeDT(in) ==
  IF DarkPoles(in) = {} THEN {}
  ELSE IF in.dt \notin Recorded
    THEN {AreaCandidate("dt", in.dt, "FALLBACK", in, DarkPoles(in))}
  ELSE IF IsDTFullyDark(in)
    THEN {AreaCandidate("dt", in.dt, "RECORDED", in, PolesOf(in.dt))}
  ELSE {SpanCandidate(in, b) : b \in Groups(in)}

(* Empty unless enough transformers of the feeder are fully dark.          *)
LocalizeFeeder(f, energized, stale, outages) ==
  LET ts == {t \in Transformer : FeederOf[t] = f}
      fullyDark == {t \in ts : IsDTFullyDark(DTInput(t, energized, stale, outages))}
      source == IF fullyDark \subseteq Recorded THEN "RECORDED" ELSE "FALLBACK"
  IN  IF 100 * Cardinality(fullyDark) < FeederDarkPercent * Cardinality(ts) THEN {}
      ELSE {AreaCandidate("feeder", f, source,
              DTInput(Min(ts), energized, stale, outages),
              UNION {PolesOf(t) : t \in fullyDark})}

(* Variant: a feeder fault replaces any candidate.                         *)
FeederFirst(t, energized, stale, outages) ==
  LET feeder == LocalizeFeeder(FeederOf[t], energized, stale, outages)
  IN  IF feeder # {} THEN feeder
      ELSE LocalizeDT(DTInput(t, energized, stale, outages))

(* What the localization of a transition on transformer t persists.        *)
Candidates(t, energized, stale, outages) ==
  LET own == LocalizeDT(DTInput(t, energized, stale, outages))
      feeder == LocalizeFeeder(FeederOf[t], energized, stale, outages)
  IN  IF (\E c \in own : c.type = "dt") /\ feeder # {} THEN feeder ELSE own
=============================================================================
