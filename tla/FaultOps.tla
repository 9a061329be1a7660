------------------------------- MODULE FaultOps -------------------------------
(***************************************************************************)
(* Fault orchestration: what LocalizeFaults makes of the pole transitions, *)
(* one after the other on a promise chain, against the restoration         *)
(* handlers that close its faults and that nothing orders with it.         *)
(*                                                                         *)
(* A transition to dark joins the chain with the time it happened at, here *)
(* the outages of that moment. Its localization waits for the outage feed, *)
(* reads the levels of the moment the feed answers, and then finds,        *)
(* updates or creates one row per candidate. A step is what runs between   *)
(* two awaits, or one statement or transaction.                            *)
(*                                                                         *)
(* Confidence, coordinates and summaries are left out, and tickets: they   *)
(* are TicketWorkflow's, and a fault is created with its ticket in one     *)
(* transaction. Operators who resolve are left out as well; a handler does *)
(* to the fault what they do.                                              *)
(***************************************************************************)
EXTENDS Localization, SequencesExt

CONSTANTS
  ThresholdPercent,  \* VERIFICATION_THRESHOLD
  Silent,            \* monitored poles that have not reported at the start
  OutageCases,       \* the sets of assets that may be out at once
  Worker,            \* localizations that could run at once
  Handler,           \* restoration handlers that can be in flight at once
  Faults,            \* what may go wrong: "rollback", "ackLost", "crash"
  MaxReports         \* bound: dark reports

(* The registry that startup reads: a pole has one transformer, and that   *)
(* one feeder; recorded wiring has passed the resolver.                    *)
ASSUME RegistryAssumption ==
  /\ IsFiniteSet(Pole) /\ NoPole \notin Pole /\ Monitored \subseteq Pole
  /\ IsFiniteSet(Transformer)
  /\ DTOf \in [Pole -> Transformer] /\ FeederOf \in [Transformer -> Feeder]
  /\ ValidTopology

ASSUME OpsAssumption ==
  /\ Silent \subseteq Monitored
  /\ {} \in OutageCases
  /\ Faults \subseteq {"rollback", "ackLost", "crash"}
  /\ ThresholdPercent \in Int /\ FeederDarkPercent \in Int /\ MaxReports \in Nat

VARIABLES
  energized,  \* PoleStateService's level of each pole
  outages,    \* the assets in an outage window and its tolerance now
  pending,    \* transitions on the chain, not yet started
  job,        \* localizations in progress
  faults,     \* the faults table, in the order of its inserts
  handler,    \* handlePoleStateTransition calls in flight
  reports,    \* dark reports so far
  calm,       \* history: since the first dark report, there were only those
  lapsed      \* history: faults whose restoration no handler will look at

vars == <<energized, outages, pending, job, faults, handler, reports, calm, lapsed>>

-----------------------------------------------------------------------------
(* Vocabulary.                                                             *)

Identity == {"span", "dt", "feeder"} \X (Transformer \cup Feeder)
              \X (Pole \cup {NoPole}) \X (Pole \cup {NoPole})

(* The columns of a fault that findActiveFault compares. A transformer's   *)
(* topology source never changes, so it tells no two faults apart.         *)
IdentityOf(c) == <<c.type, c.at, c.spanA, c.spanB>>

Levels == [Pole -> {"LIVE", "DARK", "UNKNOWN"}]

(* What localization finds for transformer t, confidence left out.         *)
Found(t, outs) ==
  {[identity |-> IdentityOf(c), affected |-> c.affected] :
     c \in Candidates(t, energized, {}, outs)}

Fault == [identity : Identity, evidence : SUBSET Pole, count : Nat,
          status : {"active", "resolved"}]

NewFault(c) == [identity |-> c.identity, evidence |-> c.affected,
                count |-> Cardinality(c.affected), status |-> "active"]

IsActive(i) == faults[i].status = "active"

(* Variant: the poles of a span are not compared.                          *)
MatchesAsset(f, identity) == f.identity[1] = identity[1] /\ f.identity[2] = identity[2]

Matches(f, identity) == f.identity = identity

ActiveWith(identity) ==
  {i \in DOMAIN faults : IsActive(i) /\ Matches(faults[i], identity)}

(* target is the row findActiveFault returned, 0 if none.                  *)
Job == [phase : {"idle", "outages", "finding", "updating", "creating"},
        pole : Pole \cup {NoPole}, outages : OutageCases,
        todo : Seq([identity : Identity, affected : SUBSET Pole]),
        target : Nat]

IdleJob == [phase |-> "idle", pole |-> NoPole, outages |-> {}, todo |-> <<>>,
            target |-> 0]

HandlerState == [phase : {"idle", "listing", "sweeping", "verifying"},
                 pole : Pole \cup {NoPole}, todo : SUBSET Nat, fault : Nat]

IdleHandler == [phase |-> "idle", pole |-> NoPole, todo |-> {}, fault |-> 0]

(* RestorationVerifier over the current levels and a fault's evidence.     *)
Restored(evidence) ==
  LET m == evidence \cap Monitored
  IN  /\ m # {}
      /\ 100 * Cardinality({p \in m : energized[p] = "LIVE"})
           >= ThresholdPercent * Cardinality(m)

(* The seed's level is UNKNOWN, until the first report.                    *)
Init ==
  /\ energized = [p \in Pole |-> IF p \in Monitored \ Silent THEN "LIVE" ELSE "UNKNOWN"]
  /\ outages = {}
  /\ pending = <<>>
  /\ job = [w \in Worker |-> IdleJob]
  /\ faults = <<>>
  /\ handler = [h \in Handler |-> IdleHandler]
  /\ reports = 0
  /\ calm = TRUE
  /\ lapsed = {}

-----------------------------------------------------------------------------
(* Transitions. The level, the chain and the handler's call change in one  *)
(* step: the listeners run when the cache is set.                          *)

GoesDark(p) ==
  /\ p \in Monitored /\ ~IsDark(energized[p]) /\ reports < MaxReports
  /\ energized' = [energized EXCEPT ![p] = "DARK"]
  /\ pending' = Append(pending, [pole |-> p, outages |-> outages])
  /\ reports' = reports + 1
  /\ UNCHANGED <<outages, job, faults, handler, calm, lapsed>>

ComesBack(p, h) ==
  /\ IsDark(energized[p]) /\ handler[h].phase = "idle"
  /\ energized' = [energized EXCEPT ![p] = "LIVE"]
  /\ handler' = [handler EXCEPT ![h] =
       [IdleHandler EXCEPT !.phase = "listing", !.pole = p]]
  /\ calm' = FALSE
  /\ lapsed' = lapsed \ {i \in DOMAIN faults : p \in faults[i].evidence}
  /\ UNCHANGED <<outages, pending, job, faults, reports>>

(* The first report of a pole that has power is no restoration: it starts  *)
(* no handler, even if it makes a fault count as restored.                 *)
FirstReport(p) ==
  /\ p \in Monitored /\ energized[p] = "UNKNOWN"
  /\ energized' = [energized EXCEPT ![p] = "LIVE"]
  /\ calm' = (calm /\ reports = 0)
  /\ lapsed' = lapsed \cup {i \in DOMAIN faults : p \in faults[i].evidence}
  /\ UNCHANGED <<outages, pending, job, faults, handler, reports>>

(* Outage windows begin and end.                                           *)
ScheduleMoves ==
  /\ outages' \in OutageCases \ {outages}
  /\ calm' = FALSE
  /\ UNCHANGED <<energized, pending, job, faults, handler, reports, lapsed>>

-----------------------------------------------------------------------------
(* Localization of the transition at the head of the chain.                *)

(* Variant: transitions are not chained.                                   *)
MayStartAtOnce(w) == job[w].phase = "idle"

(* The promise chain: the one before has settled, whether or not it threw. *)
MayStart(w) == \A v \in Worker : job[v].phase = "idle"

StartLocalization(w) ==
  /\ pending # <<>> /\ MayStart(w)
  /\ job' = [job EXCEPT ![w] =
       [IdleJob EXCEPT !.phase = "outages", !.pole = Head(pending).pole,
                       !.outages = Head(pending).outages]]
  /\ pending' = Tail(pending)
  /\ UNCHANGED <<energized, outages, faults, handler, reports, calm, lapsed>>

(* Take up the candidates cs one by one, or end.                           *)
Goes(w, cs) ==
  job' = [job EXCEPT ![w] =
    IF cs = <<>> THEN IdleJob
    ELSE [@ EXCEPT !.phase = "finding", !.todo = cs, !.target = 0]]

(* Variant: outages are judged by the time localization runs.              *)
ReadLevelsLate(w) ==
  /\ job[w].phase = "outages"
  /\ \E found \in {Found(DTOf[job[w].pole], outages)} :
       \E cs \in SetToSeqs(found) : Goes(w, cs)
  /\ UNCHANGED <<energized, outages, pending, faults, handler, reports, calm, lapsed>>

(* The feed has answered: candidates from the levels of now and the        *)
(* outages of the transition's time.                                       *)
ReadLevels(w) ==
  /\ job[w].phase = "outages"
  /\ \E found \in {Found(DTOf[job[w].pole], job[w].outages)} :
       \E cs \in SetToSeqs(found) : Goes(w, cs)
  /\ UNCHANGED <<energized, outages, pending, faults, handler, reports, calm, lapsed>>

FindActiveFault(w) ==
  /\ job[w].phase = "finding"
  /\ LET active == ActiveWith(Head(job[w].todo).identity)
     IN  \/ \E i \in active :
              job' = [job EXCEPT ![w].phase = "updating", ![w].target = i]
         \/ active = {} /\ job' = [job EXCEPT ![w].phase = "creating"]
  /\ UNCHANGED <<energized, outages, pending, faults, handler, reports, calm, lapsed>>

(* Variant: the evidence is brought up to date with the count.             *)
UpdatedEvidence(f, c) ==
  [f EXCEPT !.count = Cardinality(c.affected), !.evidence = c.affected]

(* The count and the level change, the evidence does not.                  *)
Updated(f, c) == [f EXCEPT !.count = Cardinality(c.affected)]

(* An acknowledgement that is lost throws: the rest is abandoned.          *)
Replied(w) ==
  \/ Goes(w, Tail(job[w].todo)) /\ UNCHANGED calm
  \/ /\ "ackLost" \in Faults
     /\ job' = [job EXCEPT ![w] = IdleJob]
     /\ calm' = FALSE

UpdateActiveFault(w) ==
  LET i == job[w].target IN
  /\ job[w].phase = "updating" /\ IsActive(i)
  /\ faults' = [faults EXCEPT ![i] = Updated(@, Head(job[w].todo))]
  /\ Replied(w)
  /\ UNCHANGED <<energized, outages, pending, handler, reports, lapsed>>

CreateFaultAndTicket(w) ==
  LET f == NewFault(Head(job[w].todo)) IN
  /\ job[w].phase = "creating"
  /\ faults' = Append(faults, f)
  /\ lapsed' = IF Restored(f.evidence) THEN lapsed \cup {Len(faults) + 1} ELSE lapsed
  /\ Replied(w)
  /\ UNCHANGED <<energized, outages, pending, handler, reports>>

CanFail(w) ==
  \/ job[w].phase = "updating" /\ ~IsActive(job[w].target)
  \/ "rollback" \in Faults /\ job[w].phase # "idle"

(* Variant: a localization that fails is tried again.                      *)
LocalizationRetries(w) ==
  /\ CanFail(w)
  /\ job' = [job EXCEPT ![w].phase = "outages", ![w].todo = <<>>]
  /\ calm' = FALSE
  /\ UNCHANGED <<energized, outages, pending, faults, handler, reports, lapsed>>

(* The fault to update was resolved meanwhile, or a statement fails: the   *)
(* candidates still to do are abandoned, the chain goes on.                *)
LocalizationFails(w) ==
  /\ CanFail(w)
  /\ job' = [job EXCEPT ![w] = IdleJob]
  /\ calm' = FALSE
  /\ UNCHANGED <<energized, outages, pending, faults, handler, reports, lapsed>>

-----------------------------------------------------------------------------
(* Restoration handlers.                                                   *)

ListRestorable(h) ==
  /\ handler[h].phase = "listing"
  /\ handler' = [handler EXCEPT ![h].phase = "sweeping",
       ![h].todo = {i \in DOMAIN faults : IsActive(i) /\ handler[h].pole \in faults[i].evidence}]
  /\ UNCHANGED <<energized, outages, pending, job, faults, reports, calm, lapsed>>

(* The rows come in the query's order: any that do not verify may come     *)
(* before the one that does.                                               *)
Sweep(h) ==
  /\ handler[h].phase = "sweeping"
  /\ \E i \in handler[h].todo, skipped \in SUBSET handler[h].todo :
       /\ Restored(faults[i].evidence)
       /\ \A k \in skipped : ~Restored(faults[k].evidence)
       /\ handler' = [handler EXCEPT ![h].phase = "verifying", ![h].fault = i,
                                     ![h].todo = @ \ (skipped \cup {i})]
  /\ UNCHANGED <<energized, outages, pending, job, faults, reports, calm, lapsed>>

(* Variant: the loop breaks at a record that does not verify.              *)
EndSweepEarly(h) ==
  /\ handler[h].phase = "sweeping"
  /\ \/ handler[h].todo = {}
     \/ \E i \in handler[h].todo : ~Restored(faults[i].evidence)
  /\ handler' = [handler EXCEPT ![h] = IdleHandler]
  /\ UNCHANGED <<energized, outages, pending, job, faults, reports, calm, lapsed>>

EndSweep(h) ==
  /\ handler[h].phase = "sweeping"
  /\ \A i \in handler[h].todo : ~Restored(faults[i].evidence)
  /\ handler' = [handler EXCEPT ![h] = IdleHandler]
  /\ UNCHANGED <<energized, outages, pending, job, faults, reports, calm, lapsed>>

(* What no handler looks at any more when these end early.                 *)
LeftBehind(H) ==
  {i \in DOMAIN faults : \E h \in H :
     \/ handler[h].phase = "listing" /\ handler[h].pole \in faults[i].evidence
     \/ i \in handler[h].todo \cup {handler[h].fault}}

(* Variant: the ticket's status is written to the fault as well.           *)
ResolvedAsTicket(f) == [f EXCEPT !.status = "verified"]

Resolved(f) == [f EXCEPT !.status = "resolved"]

(* A lost acknowledgement throws out of the loop.                          *)
VerifyListed(h) ==
  LET i == handler[h].fault IN
  /\ handler[h].phase = "verifying" /\ IsActive(i)
  /\ faults' = [faults EXCEPT ![i] = Resolved(@)]
  /\ \/ /\ handler' = [handler EXCEPT ![h].phase = "sweeping", ![h].fault = 0]
        /\ UNCHANGED lapsed
     \/ /\ "ackLost" \in Faults
        /\ handler' = [handler EXCEPT ![h] = IdleHandler]
        /\ lapsed' = lapsed \cup LeftBehind({h})
  /\ UNCHANGED <<energized, outages, pending, job, reports, calm>>

(* Another verification was first, or a statement fails.                   *)
AbandonSweep(h) ==
  /\ \/ handler[h].phase = "verifying" /\ ~IsActive(handler[h].fault)
     \/ "rollback" \in Faults /\ handler[h].phase \in {"listing", "verifying"}
  /\ handler' = [handler EXCEPT ![h] = IdleHandler]
  /\ lapsed' = lapsed \cup LeftBehind({h})
  /\ UNCHANGED <<energized, outages, pending, job, faults, reports, calm>>

-----------------------------------------------------------------------------
(* The process dies, for one by the rejection of a summary's update, which *)
(* nothing catches, and restarts: levels and rows are kept, and nothing    *)
(* localizes the poles that are dark already or looks at active faults.    *)
Crash ==
  /\ "crash" \in Faults
  /\ pending' = <<>>
  /\ job' = [w \in Worker |-> IdleJob]
  /\ handler' = [h \in Handler |-> IdleHandler]
  /\ calm' = FALSE
  /\ lapsed' = lapsed \cup LeftBehind(Handler)
  /\ UNCHANGED <<energized, outages, faults, reports>>

JobStep(w) ==
  \/ ReadLevels(w) \/ FindActiveFault(w) \/ UpdateActiveFault(w)
  \/ CreateFaultAndTicket(w) \/ LocalizationFails(w)

HandlerStep(h) ==
  \/ ListRestorable(h) \/ Sweep(h) \/ EndSweep(h) \/ VerifyListed(h)
  \/ AbandonSweep(h)

Next ==
  \/ \E p \in Pole : GoesDark(p) \/ FirstReport(p)
  \/ \E p \in Pole, h \in Handler : ComesBack(p, h)
  \/ ScheduleMoves
  \/ \E w \in Worker : StartLocalization(w) \/ JobStep(w)
  \/ \E h \in Handler : HandlerStep(h)
  \/ Crash

Spec == Init /\ [][Next]_vars

(* Promises settle and statements return. Nothing obliges a pole to        *)
(* report or a schedule to move.                                           *)
Fairness ==
  /\ \A w \in Worker : WF_vars(StartLocalization(w)) /\ WF_vars(JobStep(w))
  /\ \A h \in Handler : WF_vars(HandlerStep(h))

FairSpec == Spec /\ Fairness

-----------------------------------------------------------------------------
(* Properties.                                                             *)

TypeOK ==
  /\ energized \in Levels
  /\ outages \in OutageCases
  /\ pending \in Seq([pole : Pole, outages : OutageCases])
  /\ job \in [Worker -> Job]
  /\ faults \in Seq(Fault)
  /\ handler \in [Handler -> HandlerState]
  /\ reports \in 0 .. MaxReports
  /\ calm \in BOOLEAN
  /\ lapsed \subseteq DOMAIN faults

(* No boundary or asset has two active faults. The table has no such       *)
(* constraint: find and create are two statements, and only the chain      *)
(* keeps two localizations from both finding nothing (localize-faults.ts,  *)
(* handleTransition).                                                      *)
OneActiveFaultPerIdentity ==
  \A i, k \in DOMAIN faults :
    i # k /\ IsActive(i) /\ IsActive(k) => faults[i].identity # faults[k].identity

Settled == pending = <<>> /\ \A w \in Worker : job[w].phase = "idle"

(* A storm of dark reports and nothing else: once the chain is empty, each *)
(* candidate that the levels of now show has an active fault of its        *)
(* identity, though each localization looked at one transformer and at     *)
(* levels that reports were still changing (localize-faults.ts,            *)
(* localizeTransition).  The fault's evidence may be older.                *)
StormIsCovered ==
  calm /\ Settled =>
    \A t \in Transformer : \A c \in Found(t, outages) :
      \E i \in DOMAIN faults : IsActive(i) /\ faults[i].identity = c.identity

(* No fault names a pole whose transformer or feeder was in an outage      *)
(* window when the transition happened, however late it is localized       *)
(* (localize-faults.ts, buildSuppressionContext).                          *)
OutagesAreQuiet ==
  [][\A w \in Worker : CreateFaultAndTicket(w) =>
       \A p \in faults'[Len(faults')].evidence : ~OutageCovers(job[w].outages, DTOf[p])]_vars

(* An active fault whose poles are back is still to be examined by a       *)
(* handler, unless it was created when they already were, the last of them *)
(* had never reported, or the handler's loop was cut short                 *)
(* (manage-ticket.ts, handlePoleStateTransition).                          *)
RestoredFaultIsSeen ==
  \A i \in DOMAIN faults :
    IsActive(i) /\ Restored(faults[i].evidence) /\ i \notin lapsed =>
      i \in LeftBehind(Handler)

(* The table of faults implements FaultRegister.                           *)
Register ==
  INSTANCE FaultRegister WITH
    Evidence <- SUBSET Pole,
    register <- [i \in DOMAIN faults |->
                   [identity |-> faults[i].identity, evidence |-> faults[i].evidence,
                    status |-> faults[i].status]]

ImplementsFaultRegister == Register!Spec

(* No failure of one localization keeps the transitions behind it from     *)
(* theirs (localize-faults.ts, pending).                                   *)
ChainDrains == pending # <<>> ~> pending = <<>>

(* Order of arrival is irrelevant: after a storm of dark reports, the      *)
(* active faults are those the levels show (LOCALIZATION-SPECIFICATION.md, *)
(* Scenario 9).                                                            *)
ArrivalOrderIsIrrelevant ==
  calm /\ Settled =>
    \A i \in DOMAIN faults : IsActive(i) =>
      \E t \in Transformer : \E c \in Found(t, outages) : c.identity = faults[i].identity
=============================================================================
