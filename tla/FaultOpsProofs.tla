---------------------------- MODULE FaultOpsProofs ----------------------------
(***************************************************************************)
(* Proofs about FaultOps for any registry, any set of failures and any     *)
(* number of workers and handlers.                                         *)
(***************************************************************************)
EXTENDS FaultOps, LocalizationProofs

-----------------------------------------------------------------------------
(* What localization hands over.                                           *)

Candidate == [identity : Identity, affected : SUBSET Pole]

QuietUnder(outs, c) == \A p \in c.affected : ~OutageCovers(outs, DTOf[p])

LEMMA FoundFacts ==
  ASSUME NEW t \in Transformer, NEW outs, NEW c \in Found(t, outs)
  PROVE  c \in Candidate /\ QuietUnder(outs, c)
<1>1. PICK d \in Candidates(t, energized, {}, outs) :
        c = [identity |-> IdentityOf(d), affected |-> d.affected]
  BY DEF Found
<1>2. Place(d) \in CandidateType /\ \A p \in d.affected : ~OutageCovers(outs, DTOf[p])
  BY CandidateFacts, RegistryAssumption
<1>3. /\ d.type \in {"span", "dt", "feeder"} /\ d.at \in Transformer \cup Feeder
      /\ d.spanA \in Pole \cup {NoPole} /\ d.spanB \in Pole \cup {NoPole}
      /\ d.affected \in SUBSET Pole
  BY <1>2 DEF Place, CandidateType
<1>4. IdentityOf(d) \in Identity
  BY <1>3 DEF IdentityOf, Identity
<1> QED BY <1>1, <1>2, <1>3, <1>4 DEF Candidate, QuietUnder

LEMMA FoundFinite ==
  ASSUME NEW t, NEW outs
  PROVE  IsFiniteSet(Found(t, outs))
<1> DEFINE S == Candidates(t, energized, {}, outs)
           f == [c \in S |-> [identity |-> IdentityOf(c), affected |-> c.affected]]
<1>1. IsFiniteSet(S)
  BY FiniteCandidates, RegistryAssumption
<1>2. IsFiniteSet({f[c] : c \in DOMAIN f})
  <2> HIDE DEF S
  <2> QED BY <1>1, FiniteImage
<1>3. Found(t, outs) = {f[c] : c \in DOMAIN f}
  <2> HIDE DEF S
  <2> QED BY DEF Found, S
<1> QED BY <1>2, <1>3

(* The candidates are taken up one by one, each of them once.              *)
LEMMA FoundInAnyOrder ==
  ASSUME NEW t \in Transformer, NEW outs, NEW cs \in SetToSeqs(Found(t, outs))
  PROVE  /\ cs \in Seq(Candidate)
         /\ \A i \in DOMAIN cs : QuietUnder(outs, cs[i])
<1> DEFINE n == Cardinality(Found(t, outs))
<1>1. n \in Nat
  BY FoundFinite, FS_CardinalityType
<1>2. cs \in [1 .. n -> Found(t, outs)]
  BY DEF SetToSeqs
<1>3. \A i \in 1 .. n : cs[i] \in Candidate /\ QuietUnder(outs, cs[i])
  BY <1>2, FoundFacts
<1> HIDE DEF n
<1> QED BY <1>1, <1>2, <1>3

-----------------------------------------------------------------------------
(* The invariant.                                                          *)

(* The chain: one localization at a time.                                  *)
OneJob == \A v, w \in Worker : job[v].phase # "idle" /\ job[w].phase # "idle" => v = w

Taking(w) == job[w].phase \in {"finding", "updating", "creating"}

(* What a localization in progress carries.  Between the row it found, or  *)
(* did not find, and what it does with it, no other localization writes,   *)
(* and handlers only close faults.                                         *)
JobHolds(w) ==
  /\ job[w].phase # "idle" => job[w].pole \in Pole
  /\ job[w].todo # <<>> <=> Taking(w)
  /\ job[w].phase = "updating" =>
       /\ job[w].target \in DOMAIN faults
       /\ faults[job[w].target].identity = Head(job[w].todo).identity
  /\ job[w].phase = "creating" => ActiveWith(Head(job[w].todo).identity) = {}
  /\ \A i \in DOMAIN job[w].todo : QuietUnder(job[w].outages, job[w].todo[i])

(* What a handler in flight carries.                                       *)
HandlerHolds(h) ==
  /\ handler[h].phase \in {"idle", "listing"} => handler[h].todo = {}
  /\ handler[h].phase # "verifying" => handler[h].fault = 0
  /\ handler[h].phase = "verifying" => handler[h].fault \in DOMAIN faults
  /\ handler[h].todo \subseteq DOMAIN faults

JobsHold == OneJob /\ \A w \in Worker : JobHolds(w)

HandlersHold == \A h \in Handler : HandlerHolds(h)

OpsInv == TypeOK /\ JobsHold /\ HandlersHold /\ OneActiveFaultPerIdentity

-----------------------------------------------------------------------------
(* Frames: what a step that leaves a part alone preserves of it.           *)

LEMMA IdleValues ==
  IdleJob \in Job /\ IdleHandler \in HandlerState
BY OpsAssumption DEF IdleJob, Job, IdleHandler, HandlerState

LEMMA JobsAndFaultsStay ==
  ASSUME OpsInv, UNCHANGED <<job, faults>>
  PROVE  JobsHold' /\ OneActiveFaultPerIdentity'
BY DEF OpsInv, JobsHold, OneJob, JobHolds, Taking, OneActiveFaultPerIdentity,
       ActiveWith, IsActive, QuietUnder

LEMMA HandlersStay ==
  ASSUME OpsInv, UNCHANGED handler, DOMAIN faults \subseteq DOMAIN faults'
  PROVE  HandlersHold'
BY DEF OpsInv, HandlersHold, HandlerHolds

(* A localization moves: the others are idle, and stay so.                 *)
LEMMA OneJobMoves ==
  ASSUME OpsInv, NEW w \in Worker, NEW s \in Job,
         job' = [job EXCEPT ![w] = s],
         \A v \in Worker : v # w => job[v].phase = "idle",
         JobHolds(w)'
  PROVE  JobsHold' /\ job' \in [Worker -> Job]
<1>1. job \in [Worker -> Job]
  BY DEF OpsInv, TypeOK
<1>2. \A v \in Worker : v # w => job'[v] = job[v]
  BY <1>1
<1>3. ASSUME NEW v \in Worker, v # w
      PROVE  JobHolds(v)' /\ job'[v].phase = "idle"
  <2>1. JobHolds(v) /\ job[v].phase = "idle" /\ job[v].todo = <<>>
    BY <1>3 DEF OpsInv, JobsHold, JobHolds, Taking
  <2> QED BY <1>2, <1>3, <2>1 DEF JobHolds, Taking
<1> QED BY <1>1, <1>3 DEF JobsHold, OneJob

LEMMA OneHandlerMoves ==
  ASSUME OpsInv, NEW h \in Handler, NEW s \in HandlerState,
         handler' = [handler EXCEPT ![h] = s],
         DOMAIN faults \subseteq DOMAIN faults', HandlerHolds(h)'
  PROVE  HandlersHold' /\ handler' \in [Handler -> HandlerState]
BY DEF OpsInv, TypeOK, HandlersHold, HandlerHolds

(* The other localizations are idle while w is at work.                    *)
LEMMA OthersIdle ==
  ASSUME OpsInv, NEW w \in Worker, job[w].phase # "idle"
  PROVE  \A v \in Worker : v # w => job[v].phase = "idle"
BY DEF OpsInv, JobsHold, OneJob

-----------------------------------------------------------------------------
(* Initially, and transitions.                                             *)

LEMMA InitOps == Init => OpsInv
<1> SUFFICES ASSUME Init
             PROVE  OpsInv
  OBVIOUS
<1>1. TypeOK
  BY IdleValues, RegistryAssumption, OpsAssumption DEF Init, TypeOK, Levels
<1>2. JobsHold
  BY DEF Init, JobsHold, OneJob, JobHolds, Taking, IdleJob
<1> QED BY <1>1, <1>2 DEF Init, OpsInv, HandlersHold, HandlerHolds, IdleHandler,
                          OneActiveFaultPerIdentity

LEMMA GoesDarkKeeps ==
  ASSUME OpsInv, NEW p \in Pole, GoesDark(p)
  PROVE  OpsInv'
<1>1. energized' \in Levels
  BY DEF OpsInv, TypeOK, GoesDark, Levels
<1>2. pending' \in Seq([pole : Pole, outages : OutageCases])
  BY DEF OpsInv, TypeOK, GoesDark
<1>3. reports' \in 0 .. MaxReports
  BY OpsAssumption DEF OpsInv, TypeOK, GoesDark
<1>4. TypeOK'
  BY <1>1, <1>2, <1>3 DEF OpsInv, TypeOK, GoesDark
<1> QED BY <1>4, JobsAndFaultsStay, HandlersStay DEF GoesDark, OpsInv

LEMMA ComesBackKeeps ==
  ASSUME OpsInv, NEW p \in Pole, NEW h \in Handler, ComesBack(p, h)
  PROVE  OpsInv'
<1> DEFINE s == [IdleHandler EXCEPT !.phase = "listing", !.pole = p]
<1>1. s \in HandlerState /\ s.phase = "listing" /\ s.todo = {} /\ s.fault = 0
  BY DEF IdleHandler, HandlerState
<1>2. handler' = [handler EXCEPT ![h] = s] /\ UNCHANGED faults
  BY DEF ComesBack
<1> HIDE DEF s
<1>3. HandlerHolds(h)'
  BY <1>1, <1>2 DEF OpsInv, TypeOK, HandlerHolds
<1>4. HandlersHold' /\ handler' \in [Handler -> HandlerState]
  BY <1>1, <1>2, <1>3, OneHandlerMoves
<1>5. energized' \in Levels
  BY DEF OpsInv, TypeOK, ComesBack, Levels
<1>6. TypeOK'
  BY <1>4, <1>5 DEF OpsInv, TypeOK, ComesBack
<1> QED BY <1>4, <1>6, JobsAndFaultsStay DEF ComesBack, OpsInv

LEMMA FirstReportKeeps ==
  ASSUME OpsInv, NEW p \in Pole, FirstReport(p)
  PROVE  OpsInv'
<1>1. energized' \in Levels /\ calm' \in BOOLEAN /\ lapsed' \subseteq DOMAIN faults'
  BY DEF OpsInv, TypeOK, FirstReport, Levels
<1>2. TypeOK'
  BY <1>1 DEF OpsInv, TypeOK, FirstReport
<1> QED BY <1>2, JobsAndFaultsStay, HandlersStay DEF FirstReport, OpsInv

LEMMA ScheduleMovesKeeps ==
  ASSUME OpsInv, ScheduleMoves
  PROVE  OpsInv'
<1>1. TypeOK'
  BY DEF OpsInv, TypeOK, ScheduleMoves
<1> QED BY <1>1, JobsAndFaultsStay, HandlersStay DEF ScheduleMoves, OpsInv

-----------------------------------------------------------------------------
(* Localization.                                                           *)

LEMMA StartLocalizationKeeps ==
  ASSUME OpsInv, NEW w \in Worker, StartLocalization(w)
  PROVE  OpsInv'
<1> DEFINE s == [IdleJob EXCEPT !.phase = "outages", !.pole = Head(pending).pole,
                                !.outages = Head(pending).outages]
<1>1. /\ Head(pending).pole \in Pole /\ Head(pending).outages \in OutageCases
      /\ pending' \in Seq([pole : Pole, outages : OutageCases])
  <2> DEFINE Transition == [pole : Pole, outages : OutageCases]
  <2>1. pending \in Seq(Transition) /\ pending # <<>> /\ pending' = Tail(pending)
    BY DEF OpsInv, TypeOK, StartLocalization
  <2> HIDE DEF Transition
  <2>2. Head(pending) \in Transition /\ pending' \in Seq(Transition)
    BY <2>1
  <2> QED BY <2>2 DEF Transition
<1>2. /\ s \in Job /\ s.phase = "outages" /\ s.todo = <<>>
      /\ s.pole = Head(pending).pole
  <2>1. \A p \in Pole, o \in OutageCases :
          LET j == [IdleJob EXCEPT !.phase = "outages", !.pole = p, !.outages = o]
          IN  j \in Job /\ j.phase = "outages" /\ j.todo = <<>> /\ j.pole = p
    BY IdleValues DEF IdleJob, Job
  <2> QED BY <1>1, <2>1, Zenon
<1>3. job' = [job EXCEPT ![w] = s] /\ UNCHANGED <<faults, handler>>
  BY DEF StartLocalization
<1>4. \A v \in Worker : v # w => job[v].phase = "idle"
  BY DEF StartLocalization, MayStart
<1> HIDE DEF s
<1>5. job'[w] = s
  BY <1>3 DEF OpsInv, TypeOK
<1>6. JobHolds(w)'
  BY <1>1, <1>2, <1>5 DEF JobHolds, Taking
<1>7. JobsHold' /\ job' \in [Worker -> Job]
  BY <1>2, <1>3, <1>4, <1>6, OneJobMoves
<1>8. TypeOK'
  BY <1>1, <1>7 DEF OpsInv, TypeOK, StartLocalization
<1>9. OneActiveFaultPerIdentity'
  BY <1>3 DEF OpsInv, OneActiveFaultPerIdentity, IsActive
<1> QED BY <1>3, <1>7, <1>8, <1>9, HandlersStay DEF OpsInv

(* Taking up candidates, from any state of localization w.                 *)
LEMMA GoesHolds ==
  ASSUME OpsInv, NEW w \in Worker, job[w].phase # "idle",
         NEW cs \in Seq(Candidate), \A i \in DOMAIN cs : QuietUnder(job[w].outages, cs[i]),
         Goes(w, cs)
  PROVE  JobsHold' /\ job' \in [Worker -> Job]
<1> DEFINE s == IF cs = <<>> THEN IdleJob
                ELSE [job[w] EXCEPT !.phase = "finding", !.todo = cs, !.target = 0]
<1>0. job[w] \in Job /\ job \in [Worker -> Job] /\ job[w].pole \in Pole
  BY DEF OpsInv, TypeOK, JobsHold, JobHolds
<1>1. s \in Job
  BY <1>0, IdleValues DEF Job, Candidate
<1>2. job' = [job EXCEPT ![w] = s]
  BY DEF Goes
<1>3. cs = <<>> => s.phase = "idle" /\ s.todo = <<>>
  BY DEF IdleJob
<1>4. cs # <<>> => /\ s.phase = "finding" /\ s.todo = cs
                   /\ s.outages = job[w].outages /\ s.pole \in Pole
  BY <1>0 DEF Job
<1> HIDE DEF s
<1>5. job'[w] = s
  BY <1>0, <1>2
<1>6. JobHolds(w)'
  BY <1>3, <1>4, <1>5 DEF JobHolds, Taking, QuietUnder
<1> QED BY <1>1, <1>2, <1>6, OthersIdle, OneJobMoves

LEMMA AbandonHolds ==
  ASSUME OpsInv, NEW w \in Worker, job[w].phase # "idle",
         job' = [job EXCEPT ![w] = IdleJob]
  PROVE  JobsHold' /\ job' \in [Worker -> Job]
<1>1. job'[w] = IdleJob
  BY DEF OpsInv, TypeOK
<1>2. JobHolds(w)'
  BY <1>1 DEF JobHolds, Taking, IdleJob
<1> QED BY <1>2, IdleValues, OthersIdle, OneJobMoves

(* Nothing but localizations changes.                                      *)
LEMMA OnlyJobsMove ==
  ASSUME OpsInv, JobsHold', job' \in [Worker -> Job], calm' \in BOOLEAN,
         UNCHANGED <<energized, outages, pending, faults, handler, reports, lapsed>>
  PROVE  OpsInv'
<1>1. OneActiveFaultPerIdentity'
  BY DEF OpsInv, OneActiveFaultPerIdentity, IsActive
<1>2. HandlersHold'
  BY HandlersStay
<1> QED BY <1>1, <1>2 DEF OpsInv, TypeOK

LEMMA ReadLevelsKeeps ==
  ASSUME OpsInv, NEW w \in Worker, ReadLevels(w)
  PROVE  OpsInv'
<1> DEFINE t == DTOf[job[w].pole]
<1>1. job[w].phase = "outages"
  BY DEF ReadLevels
<1>2. t \in Transformer
  BY <1>1, RegistryAssumption DEF OpsInv, JobsHold, JobHolds
<1>3. PICK cs \in SetToSeqs(Found(t, job[w].outages)) : Goes(w, cs)
  BY DEF ReadLevels
<1>4. cs \in Seq(Candidate) /\ \A i \in DOMAIN cs : QuietUnder(job[w].outages, cs[i])
  BY <1>2, <1>3, FoundInAnyOrder
<1>5. JobsHold' /\ job' \in [Worker -> Job]
  BY <1>1, <1>3, <1>4, GoesHolds
<1>6. calm' \in BOOLEAN
  BY DEF ReadLevels, OpsInv, TypeOK
<1> QED BY <1>5, <1>6, OnlyJobsMove DEF ReadLevels

LEMMA FindActiveFaultKeeps ==
  ASSUME OpsInv, NEW w \in Worker, FindActiveFault(w)
  PROVE  OpsInv'
<1> DEFINE active == ActiveWith(Head(job[w].todo).identity)
<1>0. /\ job[w] \in Job /\ job \in [Worker -> Job] /\ job[w].phase = "finding"
      /\ JobHolds(w) /\ faults \in Seq(Fault)
  BY DEF FindActiveFault, OpsInv, TypeOK, JobsHold
<1>1. PICK s \in Job :
        /\ job' = [job EXCEPT ![w] = s]
        /\ s.pole = job[w].pole /\ s.todo = job[w].todo /\ s.outages = job[w].outages
        /\ \/ s.phase = "updating" /\ s.target \in active
           \/ s.phase = "creating" /\ active = {}
  <2>1. CASE \E i \in active : job' = [job EXCEPT ![w].phase = "updating", ![w].target = i]
    <3>1. PICK i \in active : job' = [job EXCEPT ![w].phase = "updating", ![w].target = i]
      BY <2>1
    <3> DEFINE s == [job[w] EXCEPT !.phase = "updating", !.target = i]
    <3>2. i \in Nat
      BY <1>0 DEF ActiveWith
    <3>3. s \in Job /\ s.pole = job[w].pole /\ s.todo = job[w].todo
          /\ s.outages = job[w].outages /\ s.phase = "updating" /\ s.target = i
      BY <1>0, <3>2 DEF Job
    <3>4. job' = [job EXCEPT ![w] = s]
      BY <1>0, <3>1
    <3> QED BY <3>1, <3>3, <3>4
  <2>2. CASE active = {} /\ job' = [job EXCEPT ![w].phase = "creating"]
    <3> DEFINE s == [job[w] EXCEPT !.phase = "creating"]
    <3>1. s \in Job /\ s.pole = job[w].pole /\ s.todo = job[w].todo
          /\ s.outages = job[w].outages /\ s.phase = "creating"
      BY <1>0 DEF Job
    <3>2. job' = [job EXCEPT ![w] = s]
      BY <1>0, <2>2
    <3> QED BY <2>2, <3>1, <3>2
  <2> QED BY <2>1, <2>2 DEF FindActiveFault
<1>2. job'[w] = s /\ UNCHANGED faults
  BY <1>0, <1>1 DEF FindActiveFault
<1>3. JobHolds(w)'
  <2>1. \A id : ActiveWith(id)' = ActiveWith(id)
    BY <1>2 DEF ActiveWith, IsActive, Matches
  <2>2. \A i \in active : i \in DOMAIN faults /\ faults[i].identity = Head(job[w].todo).identity
    BY DEF ActiveWith, Matches
  <2>3. /\ job[w].pole \in Pole /\ job[w].todo # <<>>
        /\ \A i \in DOMAIN job[w].todo : QuietUnder(job[w].outages, job[w].todo[i])
    BY <1>0 DEF JobHolds, Taking
  <2> HIDE DEF active
  <2>4. s.pole \in Pole /\ s.todo # <<>> /\ s.phase \in {"updating", "creating"}
    BY <1>1, <2>3
  <2>5. s.phase = "updating" =>
          s.target \in DOMAIN faults /\ faults[s.target].identity = Head(s.todo).identity
    BY <1>1, <2>2
  <2>6. s.phase = "creating" => ActiveWith(Head(s.todo).identity) = {}
    BY <1>1 DEF active
  <2>7. \A i \in DOMAIN s.todo : QuietUnder(s.outages, s.todo[i])
    BY <1>1, <2>3
  <2>8. s.phase = "creating" => ActiveWith(Head(s.todo).identity)' = {}
    BY <2>1, <2>6, Zenon
  <2> QED BY <1>2, <2>4, <2>5, <2>7, <2>8 DEF JobHolds, Taking, QuietUnder
<1>4. JobsHold' /\ job' \in [Worker -> Job]
  BY <1>0, <1>1, <1>3, OthersIdle, OneJobMoves
<1>5. calm' \in BOOLEAN
  BY DEF FindActiveFault, OpsInv, TypeOK
<1> QED BY <1>4, <1>5, OnlyJobsMove DEF FindActiveFault

LEMMA LocalizationFailsKeeps ==
  ASSUME OpsInv, NEW w \in Worker, LocalizationFails(w)
  PROVE  OpsInv'
<1>1. job[w].phase # "idle" /\ calm' \in BOOLEAN
  BY DEF LocalizationFails, CanFail
<1> QED BY <1>1, AbandonHolds, OnlyJobsMove DEF LocalizationFails

(* The reply to an update or a creation: the next candidate, or the end.   *)
LEMMA RepliedHolds ==
  ASSUME OpsInv, NEW w \in Worker, job[w].phase \in {"updating", "creating"}, Replied(w)
  PROVE  JobsHold' /\ job' \in [Worker -> Job] /\ calm' \in BOOLEAN
<1> DEFINE cs == Tail(job[w].todo)
<1>1. /\ job[w].todo \in Seq(Candidate) /\ job[w].todo # <<>> /\ calm \in BOOLEAN
      /\ \A i \in DOMAIN job[w].todo : QuietUnder(job[w].outages, job[w].todo[i])
  BY DEF OpsInv, TypeOK, Job, Candidate, JobsHold, JobHolds, Taking
<1>2. CASE Goes(w, cs) /\ UNCHANGED calm
  <2>1. cs \in Seq(Candidate) /\ \A i \in DOMAIN cs : QuietUnder(job[w].outages, cs[i])
    BY <1>1
  <2> HIDE DEF cs
  <2> QED BY <1>1, <1>2, <2>1, GoesHolds
<1>3. CASE job' = [job EXCEPT ![w] = IdleJob] /\ calm' = FALSE
  BY <1>3, AbandonHolds
<1> QED BY <1>2, <1>3 DEF Replied

(* Rows keep their identity, and none becomes active.                      *)
RowsStay ==
  /\ faults' \in Seq(Fault) /\ DOMAIN faults' = DOMAIN faults
  /\ \A i \in DOMAIN faults :
       /\ faults'[i].identity = faults[i].identity
       /\ faults'[i].status = "active" => faults[i].status = "active"

LEMMA RowsStayKeeps ==
  ASSUME OpsInv, RowsStay
  PROVE  /\ OneActiveFaultPerIdentity'
         /\ UNCHANGED job => JobsHold'
<1>1. OneActiveFaultPerIdentity'
  BY DEF OpsInv, RowsStay, OneActiveFaultPerIdentity, IsActive
<1>2. \A id : ActiveWith(id)' \subseteq ActiveWith(id)
  BY DEF RowsStay, ActiveWith, IsActive, Matches
<1>3. ASSUME UNCHANGED job, NEW w \in Worker
      PROVE  JobHolds(w)'
  <2>1. JobHolds(w) /\ job'[w] = job[w]
    BY <1>3 DEF OpsInv, JobsHold
  <2>2. job[w].phase = "creating" => ActiveWith(Head(job[w].todo).identity)' = {}
    BY <1>2, <2>1 DEF JobHolds
  <2>3. job[w].phase = "updating" =>
          /\ job[w].target \in DOMAIN faults'
          /\ faults'[job[w].target].identity = Head(job[w].todo).identity
    BY <2>1 DEF JobHolds, RowsStay
  <2> QED BY <1>3, <2>1, <2>2, <2>3 DEF JobHolds, Taking, QuietUnder
<1> QED BY <1>1, <1>3 DEF OpsInv, JobsHold, OneJob

LEMMA UpdateActiveFaultKeeps ==
  ASSUME OpsInv, NEW w \in Worker, UpdateActiveFault(w)
  PROVE  OpsInv' /\ RowsStay
<1> DEFINE i == job[w].target
           c == Head(job[w].todo)
<1>1. /\ i \in DOMAIN faults /\ c \in Candidate /\ faults \in Seq(Fault)
      /\ job[w].phase = "updating"
  <2>1. /\ job[w].phase = "updating" /\ job[w].todo \in Seq(Candidate)
        /\ job[w].todo # <<>> /\ i \in DOMAIN faults /\ faults \in Seq(Fault)
    BY DEF OpsInv, TypeOK, Job, Candidate, JobsHold, JobHolds, Taking, UpdateActiveFault
  <2> QED BY <2>1
<1>2. Cardinality(c.affected) \in Nat
  BY <1>1, RegistryAssumption, FS_Subset, FS_CardinalityType DEF Candidate
<1> DEFINE g == Updated(faults[i], c)
<1>3. /\ g \in Fault /\ g.identity = faults[i].identity /\ g.status = faults[i].status
  <2>1. faults[i] \in Fault
    BY <1>1
  <2> HIDE DEF i, c
  <2> QED BY <1>2, <2>1 DEF Updated, Fault
<1>4. faults' = [faults EXCEPT ![i] = g]
  BY DEF UpdateActiveFault
<1> HIDE DEF g, i, c
<1>5. RowsStay
  BY <1>1, <1>3, <1>4 DEF RowsStay
<1>6. JobsHold' /\ job' \in [Worker -> Job] /\ calm' \in BOOLEAN
  BY <1>1, RepliedHolds DEF UpdateActiveFault
<1>7. OneActiveFaultPerIdentity'
  BY <1>5, RowsStayKeeps
<1>8. UNCHANGED <<energized, outages, pending, handler, reports, lapsed>>
  BY DEF UpdateActiveFault
<1>9. HandlersHold'
  BY <1>5, <1>8, HandlersStay DEF RowsStay
<1> QED BY <1>5, <1>6, <1>7, <1>8, <1>9 DEF OpsInv, TypeOK, RowsStay

(* A new row takes the next place and the others stay.                     *)
LEMMA NewRow ==
  ASSUME OpsInv, NEW f, faults' = Append(faults, f)
  PROVE  /\ Len(faults) + 1 \in DOMAIN faults' /\ faults'[Len(faults) + 1] = f
         /\ Len(faults) + 1 \notin DOMAIN faults
         /\ Len(faults') = Len(faults) + 1
         /\ DOMAIN faults' = DOMAIN faults \cup {Len(faults) + 1}
         /\ \A i \in DOMAIN faults : faults'[i] = faults[i]
BY DEF OpsInv, TypeOK

LEMMA CreateFaultAndTicketKeeps ==
  ASSUME OpsInv, NEW w \in Worker, CreateFaultAndTicket(w)
  PROVE  OpsInv'
<1> DEFINE c == Head(job[w].todo)
           f == NewFault(c)
           n == Len(faults) + 1
<1>1. /\ job[w].phase = "creating" /\ c \in Candidate /\ faults \in Seq(Fault)
      /\ ActiveWith(c.identity) = {}
  <2>1. /\ job[w].phase = "creating" /\ job[w].todo \in Seq(Candidate)
        /\ job[w].todo # <<>> /\ ActiveWith(c.identity) = {} /\ faults \in Seq(Fault)
    BY DEF OpsInv, TypeOK, Job, Candidate, JobsHold, JobHolds, Taking, CreateFaultAndTicket
  <2> QED BY <2>1
<1>2. Cardinality(c.affected) \in Nat
  BY <1>1, RegistryAssumption, FS_Subset, FS_CardinalityType DEF Candidate
<1>3. f \in Fault /\ f.identity = c.identity
  BY <1>1, <1>2 DEF NewFault, Fault, Candidate
<1>4. faults' = Append(faults, f) /\ UNCHANGED <<energized, outages, pending, handler, reports>>
  BY DEF CreateFaultAndTicket
<1>5. lapsed' \subseteq lapsed \cup {n}
  BY DEF CreateFaultAndTicket
<1> HIDE DEF f, c
<1>6. /\ faults' \in Seq(Fault) /\ DOMAIN faults' = DOMAIN faults \cup {n}
      /\ faults'[n] = f /\ \A i \in DOMAIN faults : faults'[i] = faults[i]
  <2>1. faults' \in Seq(Fault)
    BY <1>1, <1>3, <1>4
  <2> QED BY <1>4, <2>1, NewRow
<1>7. \A i \in DOMAIN faults : IsActive(i) => faults[i].identity # f.identity
  BY <1>1, <1>3 DEF ActiveWith, Matches
<1> HIDE DEF n
<1>8. OneActiveFaultPerIdentity'
  BY <1>6, <1>7 DEF OpsInv, OneActiveFaultPerIdentity, IsActive
<1>9. JobsHold' /\ job' \in [Worker -> Job] /\ calm' \in BOOLEAN
  BY <1>1, RepliedHolds DEF CreateFaultAndTicket
<1>10. HandlersHold'
  BY <1>4, <1>6, HandlersStay
<1>11. lapsed' \subseteq DOMAIN faults'
  BY <1>5, <1>6 DEF OpsInv, TypeOK
<1> QED BY <1>4, <1>6, <1>8, <1>9, <1>10, <1>11 DEF OpsInv, TypeOK

-----------------------------------------------------------------------------
(* Restoration handlers, and the crash.                                    *)

LEMMA ListRestorableKeeps ==
  ASSUME OpsInv, NEW h \in Handler, ListRestorable(h)
  PROVE  OpsInv'
<1> DEFINE T == {i \in DOMAIN faults : IsActive(i) /\ handler[h].pole \in faults[i].evidence}
           s == [handler[h] EXCEPT !.phase = "sweeping", !.todo = T]
<1>1. /\ handler \in [Handler -> HandlerState] /\ handler[h] \in HandlerState
      /\ handler[h].phase = "listing" /\ handler[h].fault = 0
      /\ T \subseteq DOMAIN faults /\ T \subseteq Nat
  BY DEF OpsInv, TypeOK, HandlersHold, HandlerHolds, ListRestorable
<1>2. handler' = [handler EXCEPT ![h] = s] /\ UNCHANGED <<faults, job>>
  BY <1>1 DEF ListRestorable
<1> HIDE DEF T
<1>3. s \in HandlerState /\ s.phase = "sweeping" /\ s.todo = T /\ s.fault = 0
  BY <1>1 DEF HandlerState
<1> HIDE DEF s
<1>4. HandlerHolds(h)'
  BY <1>1, <1>2, <1>3 DEF HandlerHolds
<1>5. HandlersHold' /\ handler' \in [Handler -> HandlerState]
  BY <1>2, <1>3, <1>4, OneHandlerMoves
<1> QED BY <1>2, <1>5, JobsAndFaultsStay DEF OpsInv, TypeOK, ListRestorable

LEMMA SweepKeeps ==
  ASSUME OpsInv, NEW h \in Handler, Sweep(h)
  PROVE  OpsInv'
<1>1. /\ handler \in [Handler -> HandlerState] /\ handler[h] \in HandlerState
      /\ handler[h].phase = "sweeping" /\ handler[h].todo \subseteq DOMAIN faults
      /\ DOMAIN faults \subseteq Nat /\ UNCHANGED <<faults, job>>
  BY DEF OpsInv, TypeOK, HandlersHold, HandlerHolds, Sweep
<1>2. PICK i \in handler[h].todo, skipped \in SUBSET handler[h].todo :
        handler' = [handler EXCEPT ![h].phase = "verifying", ![h].fault = i,
                                   ![h].todo = @ \ (skipped \cup {i})]
  BY DEF Sweep
<1> DEFINE T == handler[h].todo \ (skipped \cup {i})
           s == [handler[h] EXCEPT !.phase = "verifying", !.fault = i, !.todo = T]
<1>3. handler' = [handler EXCEPT ![h] = s]
  BY <1>1, <1>2
<1>4. T \subseteq DOMAIN faults /\ T \subseteq Nat /\ i \in Nat /\ i \in DOMAIN faults
  BY <1>1, <1>2
<1> HIDE DEF T
<1>5. s \in HandlerState /\ s.phase = "verifying" /\ s.todo = T /\ s.fault = i
  BY <1>1, <1>4 DEF HandlerState
<1> HIDE DEF s
<1>6. HandlerHolds(h)'
  BY <1>1, <1>3, <1>4, <1>5 DEF HandlerHolds
<1>7. HandlersHold' /\ handler' \in [Handler -> HandlerState]
  BY <1>1, <1>3, <1>5, <1>6, OneHandlerMoves
<1> QED BY <1>1, <1>7, JobsAndFaultsStay DEF OpsInv, TypeOK, Sweep

(* A handler comes to its end.                                             *)
LEMMA HandlerEnds ==
  ASSUME OpsInv, NEW h \in Handler, handler' = [handler EXCEPT ![h] = IdleHandler],
         DOMAIN faults \subseteq DOMAIN faults'
  PROVE  HandlersHold' /\ handler' \in [Handler -> HandlerState]
<1>1. handler'[h] = IdleHandler
  BY DEF OpsInv, TypeOK
<1>2. HandlerHolds(h)'
  BY <1>1 DEF HandlerHolds, IdleHandler
<1> QED BY <1>2, IdleValues, OneHandlerMoves

LEMMA EndSweepKeeps ==
  ASSUME OpsInv, NEW h \in Handler, EndSweep(h)
  PROVE  OpsInv'
<1>1. HandlersHold' /\ handler' \in [Handler -> HandlerState]
  BY HandlerEnds DEF EndSweep
<1> QED BY <1>1, JobsAndFaultsStay DEF OpsInv, TypeOK, EndSweep

LEMMA AbandonSweepKeeps ==
  ASSUME OpsInv, NEW h \in Handler, AbandonSweep(h)
  PROVE  OpsInv'
<1>1. HandlersHold' /\ handler' \in [Handler -> HandlerState]
  BY HandlerEnds DEF AbandonSweep
<1>2. lapsed' \subseteq DOMAIN faults
  BY DEF OpsInv, TypeOK, AbandonSweep, LeftBehind
<1> QED BY <1>1, <1>2, JobsAndFaultsStay DEF OpsInv, TypeOK, AbandonSweep

(* A verification closes one active row.                                   *)
LEMMA VerifyListedRow ==
  ASSUME OpsInv, NEW h \in Handler, VerifyListed(h)
  PROVE  /\ handler[h].fault \in DOMAIN faults /\ IsActive(handler[h].fault)
         /\ faults' \in Seq(Fault)
         /\ faults' = [faults EXCEPT ![handler[h].fault] = Resolved(faults[handler[h].fault])]
<1> DEFINE i == handler[h].fault
           g == Resolved(faults[i])
<1>1. i \in DOMAIN faults /\ faults \in Seq(Fault) /\ IsActive(i)
  BY DEF OpsInv, TypeOK, HandlersHold, HandlerHolds, VerifyListed
<1>2. g \in Fault
  <2>1. faults[i] \in Fault
    BY <1>1
  <2> HIDE DEF i
  <2> QED BY <2>1 DEF Resolved, Fault
<1>3. faults' = [faults EXCEPT ![i] = g]
  BY DEF VerifyListed
<1> HIDE DEF g
<1>4. faults' \in Seq(Fault)
  BY <1>1, <1>2, <1>3
<1> QED BY <1>1, <1>3, <1>4 DEF g

LEMMA VerifyListedKeeps ==
  ASSUME OpsInv, NEW h \in Handler, VerifyListed(h)
  PROVE  OpsInv' /\ RowsStay
<1> DEFINE i == handler[h].fault
           g == Resolved(faults[i])
<1>1. /\ i \in DOMAIN faults /\ faults \in Seq(Fault) /\ faults' \in Seq(Fault)
      /\ faults' = [faults EXCEPT ![i] = g]
  BY VerifyListedRow DEF OpsInv, TypeOK
<1>2. g.identity = faults[i].identity /\ g.status = "resolved"
  <2>1. faults[i] \in Fault
    BY <1>1
  <2> HIDE DEF i
  <2> QED BY <2>1 DEF Resolved, Fault
<1>3. RowsStay
  <2> HIDE DEF g, i
  <2> QED BY <1>1, <1>2 DEF RowsStay
<1>4. JobsHold' /\ OneActiveFaultPerIdentity'
  BY <1>3, RowsStayKeeps DEF VerifyListed
<1>5. HandlersHold' /\ handler' \in [Handler -> HandlerState]
  <2>1. CASE handler' = [handler EXCEPT ![h] = IdleHandler]
    BY <1>3, <2>1, HandlerEnds DEF RowsStay
  <2>2. CASE handler' = [handler EXCEPT ![h].phase = "sweeping", ![h].fault = 0]
    <3> DEFINE s == [handler[h] EXCEPT !.phase = "sweeping", !.fault = 0]
    <3>1. /\ handler \in [Handler -> HandlerState] /\ handler[h] \in HandlerState
          /\ handler[h].todo \subseteq DOMAIN faults
      BY DEF OpsInv, TypeOK, HandlersHold, HandlerHolds
    <3>2. handler' = [handler EXCEPT ![h] = s]
      BY <2>2, <3>1
    <3>3. /\ s \in HandlerState /\ s.phase = "sweeping" /\ s.fault = 0
          /\ s.todo = handler[h].todo
      BY <3>1 DEF HandlerState
    <3> HIDE DEF s
    <3>4. HandlerHolds(h)'
      BY <1>3, <3>1, <3>2, <3>3 DEF HandlerHolds, RowsStay
    <3> QED BY <1>3, <3>2, <3>3, <3>4, OneHandlerMoves DEF RowsStay
  <2> QED BY <2>1, <2>2 DEF VerifyListed
<1>6. lapsed' \subseteq DOMAIN faults'
  BY <1>3 DEF OpsInv, TypeOK, VerifyListed, LeftBehind, RowsStay
<1> QED BY <1>3, <1>4, <1>5, <1>6 DEF OpsInv, TypeOK, VerifyListed, RowsStay

LEMMA CrashKeeps ==
  ASSUME OpsInv, Crash
  PROVE  OpsInv'
<1>1. JobsHold' /\ job' \in [Worker -> Job]
  <2>1. \A w \in Worker : job'[w] = IdleJob
    BY DEF Crash
  <2>2. IdleJob.phase = "idle" /\ IdleJob.todo = <<>>
    BY DEF IdleJob
  <2>3. JobsHold'
    BY <2>1, <2>2 DEF JobsHold, OneJob, JobHolds, Taking
  <2> QED BY <2>3, IdleValues DEF Crash
<1>2. HandlersHold' /\ handler' \in [Handler -> HandlerState]
  BY IdleValues DEF Crash, HandlersHold, HandlerHolds, IdleHandler
<1>3. OneActiveFaultPerIdentity'
  BY DEF Crash, OpsInv, OneActiveFaultPerIdentity, IsActive
<1>4. lapsed' \subseteq DOMAIN faults /\ pending' \in Seq([pole : Pole, outages : OutageCases])
  BY DEF OpsInv, TypeOK, Crash, LeftBehind
<1> QED BY <1>1, <1>2, <1>3, <1>4 DEF OpsInv, TypeOK, Crash

-----------------------------------------------------------------------------
(* Theorems.                                                               *)

LEMMA NextOps ==
  ASSUME OpsInv, Next
  PROVE  OpsInv'
<1>1. ASSUME NEW p \in Pole, GoesDark(p) \/ FirstReport(p)
      PROVE  OpsInv'
  BY <1>1, GoesDarkKeeps, FirstReportKeeps
<1>2. ASSUME NEW p \in Pole, NEW h \in Handler, ComesBack(p, h)
      PROVE  OpsInv'
  BY <1>2, ComesBackKeeps
<1>3. CASE ScheduleMoves
  BY <1>3, ScheduleMovesKeeps
<1>4. ASSUME NEW w \in Worker, StartLocalization(w) \/ JobStep(w)
      PROVE  OpsInv'
  BY <1>4, StartLocalizationKeeps, ReadLevelsKeeps, FindActiveFaultKeeps,
     UpdateActiveFaultKeeps, CreateFaultAndTicketKeeps, LocalizationFailsKeeps DEF JobStep
<1>5. ASSUME NEW h \in Handler, HandlerStep(h)
      PROVE  OpsInv'
  BY <1>5, ListRestorableKeeps, SweepKeeps, EndSweepKeeps, VerifyListedKeeps,
     AbandonSweepKeeps DEF HandlerStep
<1>6. CASE Crash
  BY <1>6, CrashKeeps
<1> QED BY <1>1, <1>2, <1>3, <1>4, <1>5, <1>6 DEF Next

LEMMA StutterOps ==
  ASSUME OpsInv, UNCHANGED vars
  PROVE  OpsInv'
<1>1. JobsHold' /\ OneActiveFaultPerIdentity' /\ HandlersHold'
  BY JobsAndFaultsStay, HandlersStay DEF vars
<1> QED BY <1>1 DEF OpsInv, TypeOK, vars

(* What localizations and handlers carry stays true of the table, whoever  *)
(* writes to it between two of their steps (localize-faults.ts,            *)
(* manage-ticket.ts).                                                      *)
THEOREM OpsInvariance == Spec => []OpsInv
<1>1. OpsInv /\ [Next]_vars => OpsInv'
  BY NextOps, StutterOps
<1> QED BY <1>1, InitOps, PTL DEF Spec

(* Every value stays in its range (localize-faults.ts, the faults table of *)
(* schema.ts).                                                             *)
THEOREM OpsTypes == Spec => []TypeOK
<1>1. OpsInv => TypeOK
  BY DEF OpsInv
<1> QED BY <1>1, OpsInvariance, PTL

(* Find and create are two statements and no constraint backs them, yet no *)
(* asset gets two active faults, because one chain orders all              *)
(* localizations and handlers only close faults (localize-faults.ts,       *)
(* handleTransition).                                                      *)
THEOREM NoDuplicateFaults == Spec => []OneActiveFaultPerIdentity
<1>1. OpsInv => OneActiveFaultPerIdentity
  BY DEF OpsInv
<1> QED BY <1>1, OpsInvariance, PTL

LEMMA CreatesQuietly ==
  ASSUME OpsInv, NEW w \in Worker, CreateFaultAndTicket(w)
  PROVE  \A p \in faults'[Len(faults')].evidence : ~OutageCovers(job[w].outages, DTOf[p])
<1> DEFINE c == Head(job[w].todo)
           f == NewFault(c)
<1>1. QuietUnder(job[w].outages, c)
  <2>1. /\ job[w].todo \in Seq(Candidate) /\ job[w].todo # <<>>
        /\ \A i \in DOMAIN job[w].todo : QuietUnder(job[w].outages, job[w].todo[i])
    BY DEF OpsInv, TypeOK, Job, Candidate, JobsHold, JobHolds, Taking, CreateFaultAndTicket
  <2>2. 1 \in DOMAIN job[w].todo /\ c = job[w].todo[1]
    BY <2>1
  <2> QED BY <2>1, <2>2
<1>2. faults' = Append(faults, f)
  BY DEF CreateFaultAndTicket
<1>3. f.evidence = c.affected
  BY DEF NewFault
<1> HIDE DEF f
<1>4. faults'[Len(faults')] = f
  BY <1>2, NewRow
<1> QED BY <1>1, <1>3, <1>4 DEF QuietUnder

(* A fault that is created names no pole that was out when its transition  *)
(* happened: localization reads the levels late, but judges them by the    *)
(* outages it was handed (localize-faults.ts, buildSuppressionContext).    *)
THEOREM NoFaultInOutage == Spec => OutagesAreQuiet
<1>1. OpsInv /\ [Next]_vars =>
        [\A w \in Worker : CreateFaultAndTicket(w) =>
           \A p \in faults'[Len(faults')].evidence :
             ~OutageCovers(job[w].outages, DTOf[p])]_vars
  BY CreatesQuietly
<1> QED BY <1>1, OpsInvariance, PTL DEF Spec, OutagesAreQuiet

-----------------------------------------------------------------------------
(* FaultOps implements FaultRegister.                                      *)

Row(f) == [identity |-> f.identity, evidence |-> f.evidence, status |-> f.status]

(* The register that the mapping of FaultOps shows of a table.             *)
RowsOf(fs) == [i \in DOMAIN fs |->
                [identity |-> fs[i].identity, evidence |-> fs[i].evidence,
                 status |-> fs[i].status]]

Rows == RowsOf(faults)

Entry == [identity : Identity, evidence : SUBSET Pole, status : {"active", "resolved"}]

LEMMA RowsType ==
  ASSUME NEW fs \in Seq(Fault)
  PROVE  /\ RowsOf(fs) \in Seq(Entry) /\ Len(RowsOf(fs)) = Len(fs)
         /\ DOMAIN RowsOf(fs) = DOMAIN fs
         /\ \A i \in DOMAIN fs : RowsOf(fs)[i] = Row(fs[i])
<1>1. \A f \in Fault : Row(f) \in Entry
  BY DEF Row, Fault, Entry
<1>2. DOMAIN RowsOf(fs) = 1 .. Len(fs) /\ Len(fs) \in Nat
  BY DEF RowsOf
<1>3. \A i \in DOMAIN fs : RowsOf(fs)[i] = Row(fs[i])
  BY DEF RowsOf, Row
<1>4. RowsOf(fs) \in [1 .. Len(fs) -> Entry]
  <2>1. RowsOf(fs) = [i \in 1 .. Len(fs) |-> Row(fs[i])]
    BY DEF RowsOf, Row
  <2> QED BY <1>1, <2>1
<1> QED BY <1>2, <1>3, <1>4

LEMMA RegisterInit == Init => Register!Init
<1> SUFFICES ASSUME Init
             PROVE  Rows = <<>>
  BY DEF Register!Init, Rows, RowsOf
<1>1. <<>> \in Seq(Fault) /\ Rows = RowsOf(<<>>)
  BY DEF Init, Rows
<1>2. RowsOf(<<>>) \in Seq(Entry) /\ Len(RowsOf(<<>>)) = 0
  BY <1>1, RowsType
<1> QED BY <1>1, <1>2

(* Rows that differ in their counts only are the same entries.             *)
LEMMA RowsStutter ==
  ASSUME OpsInv, faults' \in Seq(Fault), DOMAIN faults' = DOMAIN faults,
         \A i \in DOMAIN faults : Row(faults'[i]) = Row(faults[i])
  PROVE  UNCHANGED Rows
<1>1. /\ DOMAIN Rows' = DOMAIN Rows
      /\ Rows = [i \in DOMAIN faults |-> Row(faults[i])]
      /\ Rows' = [i \in DOMAIN faults' |-> Row(faults'[i])]
  BY DEF Rows, RowsOf, Row
<1> QED BY <1>1

LEMMA CreateIsOpen ==
  ASSUME OpsInv, NEW w \in Worker, CreateFaultAndTicket(w)
  PROVE  Register!Open
<1> DEFINE c == Head(job[w].todo)
           f == NewFault(c)
           n == Len(faults) + 1
<1>1. /\ faults \in Seq(Fault) /\ faults' \in Seq(Fault)
      /\ ActiveWith(c.identity) = {}
  BY CreateFaultAndTicketKeeps DEF OpsInv, TypeOK, JobsHold, JobHolds, CreateFaultAndTicket
<1>2. faults' = Append(faults, f) /\ f.status = "active" /\ f.identity = c.identity
  BY DEF CreateFaultAndTicket, NewFault
<1> HIDE DEF f, c
<1>3. /\ Rows \in Seq(Entry) /\ Len(Rows) = Len(faults) /\ DOMAIN Rows = DOMAIN faults
      /\ \A i \in DOMAIN faults : Rows[i] = Row(faults[i])
  BY <1>1, RowsType DEF Rows
<1>4. /\ Rows' \in Seq(Entry) /\ Len(Rows') = Len(faults') /\ DOMAIN Rows' = DOMAIN faults'
      /\ \A i \in DOMAIN faults' : Rows'[i] = Row(faults'[i])
  BY <1>1, RowsType DEF Rows
<1>5. /\ Len(faults') = n /\ n \in DOMAIN faults' /\ faults'[n] = f
      /\ \A i \in DOMAIN faults : i \in DOMAIN faults' /\ faults'[i] = faults[i]
  BY <1>2, NewRow
<1>6. Rows'[n] = Row(f) /\ \A i \in DOMAIN faults : Rows'[i] = Rows[i]
  BY <1>3, <1>4, <1>5
<1>7. Rows' = Append(Rows, Rows'[n])
  BY <1>1, <1>3, <1>4, <1>5, <1>6
<1>8. Rows'[n] \in Entry /\ Rows'[n].status = "active" /\ Rows'[n].identity = c.identity
  BY <1>2, <1>4, <1>5, <1>6 DEF Row
<1>9. ~\E k \in DOMAIN Rows : Rows[k].identity = c.identity /\ Rows[k].status = "active"
  <2> SUFFICES ASSUME NEW k \in DOMAIN faults, Row(faults[k]).identity = c.identity,
                      Row(faults[k]).status = "active"
               PROVE  FALSE
    BY <1>3
  <2>1. faults[k].identity = c.identity /\ faults[k].status = "active"
    BY DEF Row
  <2> QED BY <1>1, <2>1 DEF ActiveWith, IsActive, Matches
<1>10. Len(Rows') = Len(Rows) + 1 /\ Len(Rows') = n
  BY <1>3, <1>4, <1>5
<1> QED BY <1>7, <1>8, <1>9, <1>10
        DEF Register!Open, Register!IsOpen, Register!Entry, Rows, RowsOf, Entry

LEMMA VerifyIsClose ==
  ASSUME OpsInv, NEW h \in Handler, VerifyListed(h)
  PROVE  Register!Close
<1> DEFINE k == handler[h].fault
           g == Resolved(faults[k])
<1>1. /\ k \in DOMAIN faults /\ IsActive(k)
      /\ faults \in Seq(Fault) /\ faults' \in Seq(Fault)
      /\ faults' = [faults EXCEPT ![k] = g]
  BY VerifyListedRow DEF OpsInv, TypeOK
<1>2. faults[k] \in Fault
  BY <1>1
<1>3. Row(g) = [Row(faults[k]) EXCEPT !.status = "resolved"]
  <2> HIDE DEF k
  <2> QED BY <1>2 DEF Resolved, Fault, Row
<1> HIDE DEF g, k
<1>4. /\ Rows = [i \in DOMAIN faults |-> Row(faults[i])]
      /\ Rows' = [i \in DOMAIN faults' |-> Row(faults'[i])]
  BY DEF Rows, RowsOf, Row
<1>5. Rows' = [Rows EXCEPT ![k].status = "resolved"]
  BY <1>1, <1>3, <1>4
<1>6. k \in DOMAIN Rows /\ Rows[k].status = "active"
  BY <1>1, <1>4 DEF IsActive, Row
<1> QED BY <1>5, <1>6 DEF Register!Close, Rows, RowsOf

LEMMA UpdateIsStutter ==
  ASSUME OpsInv, NEW w \in Worker, UpdateActiveFault(w)
  PROVE  UNCHANGED Rows
<1> DEFINE i == job[w].target
           g == Updated(faults[i], Head(job[w].todo))
<1>1. /\ i \in DOMAIN faults /\ faults \in Seq(Fault) /\ faults' = [faults EXCEPT ![i] = g]
  BY DEF OpsInv, TypeOK, JobsHold, JobHolds, UpdateActiveFault
<1>2. faults[i] \in Fault
  BY <1>1
<1>3. Row(g) = Row(faults[i])
  <2> HIDE DEF i
  <2> QED BY <1>2 DEF Updated, Fault, Row
<1> HIDE DEF g, i
<1>4. faults' \in Seq(Fault)
  BY UpdateActiveFaultKeeps DEF RowsStay
<1> QED BY <1>1, <1>3, <1>4, RowsStutter

LEMMA StepIsRegisterStep ==
  ASSUME OpsInv, [Next]_vars
  PROVE  Register!Next \/ UNCHANGED Rows
<1>1. CASE UNCHANGED faults
  BY <1>1 DEF Rows
<1>2. CASE \E w \in Worker : CreateFaultAndTicket(w)
  BY <1>2, CreateIsOpen DEF Register!Next
<1>3. CASE \E w \in Worker : UpdateActiveFault(w)
  BY <1>3, UpdateIsStutter
<1>4. CASE \E h \in Handler : VerifyListed(h)
  BY <1>4, VerifyIsClose DEF Register!Next
<1> QED BY <1>1, <1>2, <1>3, <1>4
        DEF Next, vars, JobStep, HandlerStep, GoesDark, FirstReport, ComesBack, ScheduleMoves,
            StartLocalization, ReadLevels, FindActiveFault, LocalizationFails,
            ListRestorable, Sweep, EndSweep, AbandonSweep, Crash

(* Whatever transitions, handlers and failures do, faults are only added   *)
(* and closed, one active fault stands for a place, and what a fault was   *)
(* opened on never changes (localize-faults.ts, manage-ticket.ts).         *)
THEOREM FaultOpsImplementsRegister == Spec => ImplementsFaultRegister
<1>1. OpsInv /\ [Next]_vars => [Register!Next]_Rows
  BY StepIsRegisterStep
<1>2. Init => Register!Init
  BY RegisterInit
<1>3. [][Register!Next]_Rows /\ Register!Init => Register!Spec
  BY PTL DEF Register!Spec, Rows, RowsOf
<1> QED BY <1>1, <1>2, <1>3, OpsInvariance, PTL DEF Spec, ImplementsFaultRegister

-----------------------------------------------------------------------------
(* Restored faults and the handlers that will look at them.                *)

(* Whether a fault counts as restored depends on the levels of its poles.  *)
LEMMA RestoredByItsPoles ==
  ASSUME NEW E, \A q \in E : energized'[q] = energized[q]
  PROVE  Restored(E)' <=> Restored(E)
<1>1. {q \in E \cap Monitored : energized'[q] = "LIVE"}
        = {q \in E \cap Monitored : energized[q] = "LIVE"}
  OBVIOUS
<1> QED BY <1>1 DEF Restored

(* Fewer live poles restore nothing.                                       *)
LEMMA RestoredOnlyByLive ==
  ASSUME NEW E, \A q \in Monitored : energized'[q] = "LIVE" => energized[q] = "LIVE"
  PROVE  Restored(E)' => Restored(E)
<1> DEFINE m == E \cap Monitored
           old == {q \in m : energized[q] = "LIVE"}
           new == {q \in m : energized'[q] = "LIVE"}
<1>1. new \subseteq old /\ old \subseteq m /\ IsFiniteSet(m)
  BY RegistryAssumption, FS_Subset
<1>2. /\ IsFiniteSet(old) /\ Cardinality(new) <= Cardinality(old)
      /\ Cardinality(old) \in Nat /\ Cardinality(new) \in Nat /\ Cardinality(m) \in Nat
  BY <1>1, FS_Subset, FS_CardinalityType
<1>3. ThresholdPercent * Cardinality(m) \in Int
  BY <1>2, OpsAssumption
<1>4. Restored(E)' <=> m # {} /\ 100 * Cardinality(new) >= ThresholdPercent * Cardinality(m)
  BY DEF Restored
<1>5. Restored(E) <=> m # {} /\ 100 * Cardinality(old) >= ThresholdPercent * Cardinality(m)
  BY DEF Restored
<1> HIDE DEF m, old, new
<1>6. \A a, b \in Nat, x \in Int : a <= b /\ 100 * a >= x => 100 * b >= x
  OBVIOUS
<1> QED BY <1>2, <1>3, <1>4, <1>5, <1>6

(* Handler h will look at fault i.                                         *)
LooksAt(h, i) ==
  \/ handler[h].phase = "listing" /\ handler[h].pole \in faults[i].evidence
  \/ i \in handler[h].todo \cup {handler[h].fault}

(* The property, a fault at a time.                                        *)
Waits(i) == IsActive(i) /\ Restored(faults[i].evidence) /\ i \notin lapsed

LEMMA SeenByHandlers ==
  RestoredFaultIsSeen <=> \A i \in DOMAIN faults : Waits(i) => \E h \in Handler : LooksAt(h, i)
BY DEF RestoredFaultIsSeen, Waits, LooksAt, LeftBehind

(* No fault starts to wait, and the handlers go on as they were.           *)
LEMMA SeenStays ==
  ASSUME OpsInv, RestoredFaultIsSeen, UNCHANGED handler, DOMAIN faults' = DOMAIN faults,
         \A i \in DOMAIN faults : Waits(i)' => Waits(i) /\ faults'[i].evidence = faults[i].evidence
  PROVE  RestoredFaultIsSeen'
<1> SUFFICES ASSUME NEW i \in DOMAIN faults, Waits(i)'
             PROVE  \E h \in Handler : LooksAt(h, i)'
  BY SeenByHandlers DEF RestoredFaultIsSeen, Waits, LooksAt, LeftBehind
<1>1. PICK h \in Handler : LooksAt(h, i)
  BY SeenByHandlers
<1> QED BY <1>1 DEF LooksAt

(* One handler moves, and leaves behind what no longer waits.              *)
LEMMA SeenWhenHandlerMoves ==
  ASSUME OpsInv, RestoredFaultIsSeen, NEW h \in Handler,
         \A g \in Handler : g # h => handler'[g] = handler[g],
         DOMAIN faults' = DOMAIN faults,
         \A i \in DOMAIN faults : faults'[i].evidence = faults[i].evidence,
         \A i \in DOMAIN faults : Waits(i)' => Waits(i) \/ LooksAt(h, i)',
         \A i \in DOMAIN faults : Waits(i)' /\ LooksAt(h, i) => LooksAt(h, i)'
  PROVE  RestoredFaultIsSeen'
<1> SUFFICES ASSUME NEW i \in DOMAIN faults, Waits(i)'
             PROVE  \E g \in Handler : LooksAt(g, i)'
  BY SeenByHandlers DEF RestoredFaultIsSeen, Waits, LooksAt, LeftBehind
<1>1. CASE Waits(i)
  <2>1. PICK g \in Handler : LooksAt(g, i)
    BY <1>1, SeenByHandlers
  <2>2. CASE g = h
    BY <2>1, <2>2
  <2>3. CASE g # h
    <3>1. handler'[g] = handler[g] /\ faults'[i].evidence = faults[i].evidence
      BY <2>3
    <3> QED BY <2>1, <3>1 DEF LooksAt
  <2> QED BY <2>2, <2>3
<1> QED BY <1>1

LEMMA GoesDarkSees ==
  ASSUME OpsInv, RestoredFaultIsSeen, NEW p \in Pole, GoesDark(p)
  PROVE  RestoredFaultIsSeen'
<1>1. \A q \in Monitored : energized'[q] = "LIVE" => energized[q] = "LIVE"
  BY RegistryAssumption DEF OpsInv, TypeOK, Levels, GoesDark
<1>2. UNCHANGED <<faults, handler, lapsed>>
  BY DEF GoesDark
<1>3. \A i \in DOMAIN faults : Waits(i)' => Waits(i)
  <2> SUFFICES ASSUME NEW i \in DOMAIN faults, Waits(i)'
               PROVE  Waits(i)
    OBVIOUS
  <2>0. PICK E : E = faults[i].evidence
    OBVIOUS
  <2>1. Restored(E)'
    BY <1>2, <2>0 DEF Waits
  <2>2. Restored(E)
    BY <1>1, <2>1, RestoredOnlyByLive
  <2> QED BY <1>2, <2>0, <2>2 DEF Waits, IsActive
<1> QED BY <1>2, <1>3, SeenStays

(* Only the levels of p and the faults that name it matter.                *)
LEMMA WaitsElsewhere ==
  ASSUME OpsInv, NEW p, \A q \in Pole \ {p} : energized'[q] = energized[q],
         UNCHANGED faults, NEW i \in DOMAIN faults, p \notin faults[i].evidence,
         i \in lapsed => i \in lapsed', Waits(i)'
  PROVE  Waits(i)
<1>0. PICK E : E = faults[i].evidence
  OBVIOUS
<1>1. Restored(E)' /\ p \notin E /\ E \subseteq Pole
  <2>1. faults[i] \in Fault
    BY DEF OpsInv, TypeOK
  <2> QED BY <1>0, <2>1 DEF Waits, Fault
<1>2. Restored(E)
  BY <1>1, RestoredByItsPoles
<1> QED BY <1>0, <1>2 DEF Waits, IsActive

LEMMA FirstReportSees ==
  ASSUME OpsInv, RestoredFaultIsSeen, NEW p \in Pole, FirstReport(p)
  PROVE  RestoredFaultIsSeen'
<1>1. /\ UNCHANGED <<faults, handler>>
      /\ lapsed' = lapsed \cup {i \in DOMAIN faults : p \in faults[i].evidence}
      /\ \A q \in Pole \ {p} : energized'[q] = energized[q]
  BY DEF FirstReport, OpsInv, TypeOK, Levels
<1>2. ASSUME NEW i \in DOMAIN faults, Waits(i)'
      PROVE  Waits(i)
  <2>1. p \notin faults[i].evidence
    BY <1>1, <1>2 DEF Waits
  <2> QED BY <1>1, <1>2, <2>1, WaitsElsewhere
<1> QED BY <1>1, <1>2, SeenStays

LEMMA ComesBackSees ==
  ASSUME OpsInv, RestoredFaultIsSeen, NEW p \in Pole, NEW h \in Handler, ComesBack(p, h)
  PROVE  RestoredFaultIsSeen'
<1>1. /\ UNCHANGED faults /\ handler \in [Handler -> HandlerState]
      /\ lapsed' = lapsed \ {i \in DOMAIN faults : p \in faults[i].evidence}
      /\ \A q \in Pole \ {p} : energized'[q] = energized[q]
      /\ handler[h].phase = "idle" /\ handler[h].todo = {} /\ handler[h].fault = 0
      /\ 0 \notin DOMAIN faults
  BY DEF ComesBack, OpsInv, TypeOK, Levels, HandlersHold, HandlerHolds
<1>2. handler'[h].phase = "listing" /\ handler'[h].pole = p
  BY <1>1 DEF ComesBack, IdleHandler
<1>3. \A g \in Handler : g # h => handler'[g] = handler[g]
  BY <1>1 DEF ComesBack
<1>4. \A i \in DOMAIN faults : ~LooksAt(h, i)
  BY <1>1 DEF LooksAt
<1>5. ASSUME NEW i \in DOMAIN faults, Waits(i)'
      PROVE  Waits(i) \/ LooksAt(h, i)'
  <2>1. CASE p \in faults[i].evidence
    BY <1>1, <1>2, <2>1 DEF LooksAt
  <2>2. CASE p \notin faults[i].evidence
    <3>1. i \in lapsed => i \in lapsed'
      BY <1>1, <2>2
    <3> QED BY <1>1, <1>5, <2>2, <3>1, WaitsElsewhere
  <2> QED BY <2>1, <2>2
<1> QED BY <1>1, <1>3, <1>4, <1>5, SeenWhenHandlerMoves

(* Localizations do not touch the levels or the handlers, and a fault they *)
(* create is not waited for.                                               *)
LEMMA JobStepSees ==
  ASSUME OpsInv, RestoredFaultIsSeen, NEW w \in Worker, StartLocalization(w) \/ JobStep(w)
  PROVE  RestoredFaultIsSeen'
<1>0. UNCHANGED <<energized, handler>>
  BY DEF StartLocalization, JobStep, ReadLevels, FindActiveFault, UpdateActiveFault,
         CreateFaultAndTicket, LocalizationFails
<1>1. ASSUME NEW E
      PROVE  Restored(E)' <=> Restored(E)
  BY <1>0 DEF Restored
<1>2. CASE UNCHANGED <<faults, lapsed>>
  <2>1. ASSUME NEW i \in DOMAIN faults, Waits(i)'
        PROVE  Waits(i)
    BY <1>0, <1>2, <2>1 DEF Waits, IsActive, Restored
  <2> QED BY <1>0, <1>2, <2>1, SeenStays
<1>3. CASE UpdateActiveFault(w)
  <2>1. RowsStay /\ UNCHANGED lapsed
    BY <1>3, UpdateActiveFaultKeeps DEF UpdateActiveFault
  <2>2. \A i \in DOMAIN faults : faults'[i].evidence = faults[i].evidence
    <3> DEFINE k == job[w].target
               g == Updated(faults[k], Head(job[w].todo))
    <3>1. k \in DOMAIN faults /\ faults \in Seq(Fault) /\ faults' = [faults EXCEPT ![k] = g]
      BY <1>3 DEF OpsInv, TypeOK, JobsHold, JobHolds, UpdateActiveFault
    <3>2. faults[k] \in Fault
      BY <3>1
    <3>3. g.evidence = faults[k].evidence
      <4> HIDE DEF k
      <4> QED BY <3>2 DEF Updated, Fault
    <3> HIDE DEF g, k
    <3> QED BY <3>1, <3>3
  <2>3. ASSUME NEW i \in DOMAIN faults, Waits(i)'
        PROVE  Waits(i)
    <3>0. PICK E : E = faults[i].evidence
      OBVIOUS
    <3>1. Restored(E)' /\ IsActive(i) /\ i \notin lapsed
      BY <2>1, <2>2, <2>3, <3>0 DEF Waits, RowsStay, IsActive
    <3>2. Restored(E)
      BY <1>1, <3>1
    <3> QED BY <3>0, <3>1, <3>2 DEF Waits
  <2> QED BY <1>0, <2>1, <2>2, <2>3, SeenStays DEF RowsStay
<1>4. CASE CreateFaultAndTicket(w)
  <2>0. PICK f : f = NewFault(Head(job[w].todo))
    OBVIOUS
  <2> DEFINE n == Len(faults) + 1
  <2>1. /\ faults' = Append(faults, f)
        /\ lapsed' = IF Restored(f.evidence) THEN lapsed \cup {n} ELSE lapsed
    BY <1>4, <2>0 DEF CreateFaultAndTicket
  <2>2. /\ DOMAIN faults' = DOMAIN faults \cup {n} /\ n \notin DOMAIN faults
        /\ faults'[n] = f /\ \A i \in DOMAIN faults : faults'[i] = faults[i]
    BY <2>1, NewRow
  <2>3. ASSUME NEW i \in DOMAIN faults', i \notin DOMAIN faults
        PROVE  ~Waits(i)'
    <3> SUFFICES ASSUME Waits(i)'
                 PROVE  FALSE
      OBVIOUS
    <3>0. PICK E : E = f.evidence
      OBVIOUS
    <3>1. i = n /\ faults'[i] = f
      BY <2>2, <2>3
    <3>2. Restored(E)' /\ n \notin lapsed'
      BY <3>0, <3>1 DEF Waits
    <3>3. Restored(E)
      BY <1>1, <3>2
    <3> QED BY <2>1, <3>0, <3>2, <3>3
  <2>4. ASSUME NEW i \in DOMAIN faults, Waits(i)'
        PROVE  Waits(i)
    <3>0. PICK E : E = faults[i].evidence
      OBVIOUS
    <3>1. Restored(E)' /\ IsActive(i) /\ i \notin lapsed
      BY <2>1, <2>2, <2>4, <3>0 DEF Waits, IsActive
    <3>2. Restored(E)
      BY <1>1, <3>1
    <3> QED BY <3>0, <3>1, <3>2 DEF Waits
  <2>5. ASSUME NEW i \in DOMAIN faults', Waits(i)'
        PROVE  \E h \in Handler : LooksAt(h, i)'
    <3>1. i \in DOMAIN faults /\ Waits(i)
      BY <2>2, <2>3, <2>4, <2>5
    <3>2. PICK h \in Handler : LooksAt(h, i)
      BY <3>1, SeenByHandlers
    <3> QED BY <1>0, <2>2, <3>1, <3>2 DEF LooksAt
  <2> QED BY <2>5 DEF RestoredFaultIsSeen, Waits, LooksAt, LeftBehind
<1> QED BY <1>2, <1>3, <1>4
        DEF StartLocalization, JobStep, ReadLevels, FindActiveFault, LocalizationFails

(* The levels stay, and rows keep what they are restored by.               *)
LEMMA WaitsOn ==
  ASSUME OpsInv, UNCHANGED energized, DOMAIN faults' = DOMAIN faults,
         \A i \in DOMAIN faults :
           /\ faults'[i].evidence = faults[i].evidence
           /\ faults'[i].status = "active" => faults[i].status = "active",
         lapsed \subseteq lapsed', NEW i \in DOMAIN faults, Waits(i)'
  PROVE  Waits(i)
<1>0. PICK E : E = faults[i].evidence
  OBVIOUS
<1>1. Restored(E)' /\ IsActive(i) /\ i \notin lapsed
  BY <1>0 DEF Waits, IsActive
<1>2. Restored(E)
  BY <1>1, RestoredByItsPoles
<1> QED BY <1>0, <1>1, <1>2 DEF Waits

(* What a verification leaves of the other rows.                           *)
LEMMA VerifyListedRows ==
  ASSUME OpsInv, NEW h \in Handler, VerifyListed(h)
  PROVE  /\ DOMAIN faults' = DOMAIN faults
         /\ faults'[handler[h].fault].status = "resolved"
         /\ \A i \in DOMAIN faults :
              /\ faults'[i].evidence = faults[i].evidence
              /\ faults'[i].status = "active" => faults[i].status = "active"
<1> DEFINE k == handler[h].fault
           g == Resolved(faults[k])
<1>1. /\ k \in DOMAIN faults /\ faults \in Seq(Fault) /\ faults' = [faults EXCEPT ![k] = g]
  BY VerifyListedRow DEF OpsInv, TypeOK
<1>2. faults[k] \in Fault
  BY <1>1
<1>3. g.evidence = faults[k].evidence /\ g.status = "resolved"
  <2> HIDE DEF k
  <2> QED BY <1>2 DEF Resolved, Fault
<1> HIDE DEF g
<1>4. /\ DOMAIN faults' = DOMAIN faults /\ faults'[k] = g
      /\ \A i \in DOMAIN faults : i # k => faults'[i] = faults[i]
  BY <1>1
<1> HIDE DEF k
<1>5. faults'[k].status = "resolved"
  BY <1>3, <1>4
<1> QED BY <1>3, <1>4, <1>5 DEF k

LEMMA HandlerStepSees ==
  ASSUME OpsInv, RestoredFaultIsSeen, NEW h \in Handler, HandlerStep(h)
  PROVE  RestoredFaultIsSeen'
<1>0. /\ UNCHANGED energized /\ handler \in [Handler -> HandlerState]
      /\ 0 \notin DOMAIN faults /\ HandlerHolds(h) /\ handler[h] \in HandlerState
      /\ lapsed \subseteq lapsed'
  <2>1. /\ handler \in [Handler -> HandlerState] /\ 0 \notin DOMAIN faults
        /\ HandlerHolds(h) /\ handler[h] \in HandlerState
    BY DEF OpsInv, TypeOK, HandlersHold
  <2>2. UNCHANGED energized /\ lapsed \subseteq lapsed'
    BY DEF HandlerStep, ListRestorable, Sweep, EndSweep, VerifyListed, AbandonSweep
  <2> QED BY <2>1, <2>2
<1>1. \A g \in Handler : g # h => handler'[g] = handler[g]
  BY <1>0 DEF HandlerStep, ListRestorable, Sweep, EndSweep, VerifyListed, AbandonSweep
<1>2. /\ DOMAIN faults' = DOMAIN faults
      /\ \A i \in DOMAIN faults :
           /\ faults'[i].evidence = faults[i].evidence
           /\ faults'[i].status = "active" => faults[i].status = "active"
  BY VerifyListedRows DEF HandlerStep, ListRestorable, Sweep, EndSweep, AbandonSweep
<1>3. \A i \in DOMAIN faults : Waits(i)' => Waits(i)
  BY <1>0, <1>2, WaitsOn
<1>4. ASSUME NEW i \in DOMAIN faults, Waits(i)', LooksAt(h, i)
      PROVE  LooksAt(h, i)'
  <2>0. Waits(i) /\ Restored(faults[i].evidence) /\ IsActive(i) /\ i \notin lapsed'
        /\ i # 0 /\ faults'[i].status = "active"
    BY <1>0, <1>3, <1>4 DEF Waits, IsActive
  <2>1. CASE ListRestorable(h)
    <3>1. i \in handler'[h].todo
      <4> DEFINE T == {k \in DOMAIN faults : IsActive(k) /\ handler[h].pole \in faults[k].evidence}
      <4>1. handler'[h].todo = T
        <5> HIDE DEF T
        <5> QED BY <1>0, <2>1 DEF ListRestorable, T, HandlerState
      <4>2. handler[h].pole \in faults[i].evidence
        BY <1>0, <1>4, <2>0, <2>1 DEF LooksAt, HandlerHolds, ListRestorable
      <4> QED BY <2>0, <4>1, <4>2
    <3> QED BY <3>1 DEF LooksAt
  <2>2. CASE Sweep(h)
    <3>1. PICK k \in handler[h].todo, skipped \in SUBSET handler[h].todo :
            /\ \A j \in skipped : ~Restored(faults[j].evidence)
            /\ handler' = [handler EXCEPT ![h].phase = "verifying", ![h].fault = k,
                                          ![h].todo = @ \ (skipped \cup {k})]
      BY <2>2 DEF Sweep
    <3>2. handler'[h].fault = k /\ handler'[h].todo = handler[h].todo \ (skipped \cup {k})
      BY <1>0, <3>1 DEF HandlerState
    <3>3. i \in handler[h].todo /\ i \notin skipped
      BY <1>0, <1>4, <2>0, <2>2, <3>1 DEF LooksAt, HandlerHolds, Sweep
    <3> QED BY <3>2, <3>3 DEF LooksAt
  <2>3. CASE EndSweep(h)
    <3>1. i \in handler[h].todo
      BY <1>0, <1>4, <2>0, <2>3 DEF LooksAt, HandlerHolds, EndSweep
    <3> QED BY <2>0, <2>3, <3>1 DEF EndSweep
  <2>4. CASE lapsed' = lapsed \cup LeftBehind({h})
    BY <1>4, <2>0, <2>4 DEF LeftBehind, LooksAt
  <2>5. CASE VerifyListed(h) /\ handler' = [handler EXCEPT ![h].phase = "sweeping", ![h].fault = 0]
    <3>1. i # handler[h].fault /\ handler[h].phase = "verifying"
      BY <2>0, <2>5, VerifyListedRows DEF VerifyListed
    <3>2. i \in handler[h].todo
      BY <1>4, <3>1 DEF LooksAt
    <3>3. handler'[h].todo = handler[h].todo
      BY <1>0, <2>5 DEF HandlerState
    <3> QED BY <3>2, <3>3 DEF LooksAt
  <2> QED BY <2>1, <2>2, <2>3, <2>4, <2>5 DEF HandlerStep, VerifyListed, AbandonSweep
<1> QED BY <1>1, <1>2, <1>3, <1>4, SeenWhenHandlerMoves

LEMMA CrashSees ==
  ASSUME OpsInv, RestoredFaultIsSeen, Crash
  PROVE  RestoredFaultIsSeen'
<1>1. /\ UNCHANGED <<energized, faults>> /\ lapsed' = lapsed \cup LeftBehind(Handler)
  BY DEF Crash
<1>2. \A i \in DOMAIN faults : ~Waits(i)'
  <2> SUFFICES ASSUME NEW i \in DOMAIN faults, Waits(i)'
               PROVE  FALSE
    OBVIOUS
  <2>1. Waits(i)
    BY <1>1, WaitsOn
  <2>2. i \in LeftBehind(Handler)
    BY <2>1 DEF RestoredFaultIsSeen, Waits
  <2> QED BY <1>1, <2>2 DEF Waits
<1> QED BY <1>1, <1>2 DEF RestoredFaultIsSeen, Waits

(* A power that is back is not overlooked: an active fault that its poles  *)
(* show restored is on the list of a handler in flight, but for the named  *)
(* ways out (manage-ticket.ts, handlePoleStateTransition).                 *)
THEOREM RestorationIsSeen == Spec => []RestoredFaultIsSeen
<1>1. Init => RestoredFaultIsSeen
  BY DEF Init, RestoredFaultIsSeen
<1>2. OpsInv /\ RestoredFaultIsSeen /\ [Next]_vars => RestoredFaultIsSeen'
  <2> SUFFICES ASSUME OpsInv, RestoredFaultIsSeen, [Next]_vars
               PROVE  RestoredFaultIsSeen'
    OBVIOUS
  <2>1. CASE ScheduleMoves \/ UNCHANGED vars
    <3>1. UNCHANGED <<energized, faults, handler, lapsed>>
      BY <2>1 DEF ScheduleMoves, vars
    <3>2. \A i \in DOMAIN faults : Waits(i)' => Waits(i)
      BY <3>1, WaitsOn
    <3> QED BY <3>1, <3>2, SeenStays
  <2> QED BY <2>1, GoesDarkSees, FirstReportSees, ComesBackSees, JobStepSees,
             HandlerStepSees, CrashSees DEF Next
<1> QED BY <1>1, <1>2, OpsInvariance, PTL DEF Spec

-----------------------------------------------------------------------------
(* A storm of dark reports is covered: while poles go dark and nothing     *)
(* else happens, no report is lost on the way from the levels to the table *)
(* of faults.                                                              *)

(* The identities that the levels e of all poles show at transformer t.    *)

IdsAt(t, e) == {IdentityOf(c) : c \in Candidates(t, e, {}, {})}

OwnIds(t, e) == {IdentityOf(c) : c \in LocalizeDT(DTInput(t, e, {}, {}))}

FeederId(fd) == <<"feeder", fd, NoPole, NoPole>>

ForFeeder(t, e) ==
  HasTransformerFault(DTInput(t, e, {}, {})) /\ FeederIsDark(FeederOf[t], e, {})

LEMMA IdsAtCases ==
  ASSUME NEW t \in Transformer, NEW e
  PROVE  IdsAt(t, e) = IF ForFeeder(t, e) THEN {FeederId(FeederOf[t])} ELSE OwnIds(t, e)
<1> DEFINE own == LocalizeDT(DTInput(t, e, {}, {}))
           feeder == LocalizeFeeder(FeederOf[t], e, {}, {})
<1>1. ForFeeder(t, e) <=> (\E c \in own : c.type = "dt") /\ feeder # {}
  BY RegistryAssumption, OpsAssumption, FeederCandidate DEF ForFeeder, HasTransformerFault
<1>2. Candidates(t, e, {}, {}) = IF ForFeeder(t, e) THEN feeder ELSE own
  BY <1>1 DEF Candidates
<1>3. \A c \in feeder : IdentityOf(c) = FeederId(FeederOf[t])
  BY RegistryAssumption, LocalizeFeederFacts DEF IdentityOf, FeederId
<1> HIDE DEF own, feeder
<1> QED BY <1>1, <1>2, <1>3 DEF IdsAt, OwnIds, own

LEMMA OwnIdsFacts ==
  ASSUME NEW t \in Transformer, NEW e, NEW id \in OwnIds(t, e)
  PROVE  id[1] # "feeder" /\ id[2] = t
<1>1. PICK c \in LocalizeDT(DTInput(t, e, {}, {})) : id = IdentityOf(c)
  BY DEF OwnIds
<1>2. c.type # "feeder" /\ c.at = t
  BY RegistryAssumption, LocalizeDTFacts
<1> QED BY <1>1, <1>2 DEF IdentityOf

LEMMA SameOwnIds ==
  ASSUME NEW t \in Transformer, NEW e, NEW f, SameLevels(t, e, f)
  PROVE  /\ OwnIds(t, e) \subseteq OwnIds(t, f)
         /\ HasTransformerFault(DTInput(t, e, {}, {}))
              => HasTransformerFault(DTInput(t, f, {}, {}))
<1>1. \A c \in LocalizeDT(DTInput(t, e, {}, {})) :
        \E d \in LocalizeDT(DTInput(t, f, {}, {})) : Place(d) = Place(c)
  BY RegistryAssumption, SamePlaces
<1>2. \A c, d : Place(d) = Place(c) => IdentityOf(d) = IdentityOf(c) /\ d.type = c.type
  BY DEF Place, IdentityOf
<1>3. OwnIds(t, e) \subseteq OwnIds(t, f)
  <2> SUFFICES ASSUME NEW c \in LocalizeDT(DTInput(t, e, {}, {}))
               PROVE  IdentityOf(c) \in OwnIds(t, f)
    BY DEF OwnIds
  <2>1. PICK d \in LocalizeDT(DTInput(t, f, {}, {})) : Place(d) = Place(c)
    BY <1>1
  <2> QED BY <1>2, <2>1 DEF OwnIds
<1> QED BY <1>1, <1>2, <1>3 DEF HasTransformerFault

(* When p goes dark, what another transformer shows is either shown by     *)
(* that of p too, or was shown before, and then all that showed it still   *)
(* do.                                                                     *)
LEMMA StillShown ==
  ASSUME NEW p, NEW e, NEW f, Darkens(p, e, f),
         NEW t \in Transformer, t # DTOf[p], NEW id \in IdsAt(t, f)
  PROVE  \/ id \in IdsAt(DTOf[p], f)
         \/ /\ id \in IdsAt(t, e)
            /\ \A x \in Transformer : id \in IdsAt(x, e) => id \in IdsAt(x, f)
<1> DEFINE u == DTOf[p]
<1>0. u \in Transformer
  BY RegistryAssumption DEF Darkens
<1>1. /\ OwnIds(t, e) = OwnIds(t, f)
      /\ HasTransformerFault(DTInput(t, e, {}, {})) <=> HasTransformerFault(DTInput(t, f, {}, {}))
  <2>1. SameLevels(t, e, f) /\ SameLevels(t, f, e)
    BY RegistryAssumption, DarkenedElsewhere
  <2> QED BY <2>1, SameOwnIds
<1>2. \A x \in Transformer : HasTransformerFault(DTInput(x, e, {}, {}))
                               => HasTransformerFault(DTInput(x, f, {}, {}))
  <2> TAKE x \in Transformer
  <2>1. CASE x = u
    BY <2>1, RegistryAssumption, DarkenedTransformer
  <2>2. CASE x # u
    BY <2>2, RegistryAssumption, DarkenedElsewhere, SameOwnIds
  <2> QED BY <2>1, <2>2
<1>3. \A fd : FeederIsDark(fd, e, {}) => FeederIsDark(fd, f, {})
  BY RegistryAssumption, OpsAssumption, DarkenedFeeder
<1>4. CASE ForFeeder(t, f) /\ FeederIsDark(FeederOf[t], e, {})
  <2>1. ForFeeder(t, e) /\ id = FeederId(FeederOf[t])
    BY <1>1, <1>4, IdsAtCases DEF ForFeeder
  <2>2. id \in IdsAt(t, e)
    BY <2>1, IdsAtCases
  <2>3. ASSUME NEW x \in Transformer, id \in IdsAt(x, e)
        PROVE  id \in IdsAt(x, f)
    <3>1. ForFeeder(x, e)
      BY <2>1, <2>3, IdsAtCases, OwnIdsFacts DEF FeederId
    <3>2. id = FeederId(FeederOf[x])
      BY <2>3, <3>1, IdsAtCases
    <3>3. ForFeeder(x, f)
      BY <1>2, <1>3, <3>1 DEF ForFeeder
    <3> QED BY <3>2, <3>3, IdsAtCases
  <2> QED BY <2>2, <2>3
<1>5. CASE ForFeeder(t, f) /\ ~FeederIsDark(FeederOf[t], e, {})
  <2>1. FeederIsDark(FeederOf[t], f, {}) /\ id = FeederId(FeederOf[t])
    BY <1>5, IdsAtCases DEF ForFeeder
  <2>2. FeederOf[u] = FeederOf[t] /\ IsDTFullyDark(DTInput(u, f, {}, {}))
    BY <1>5, <2>1, RegistryAssumption, OpsAssumption, DarkenedFeeder
  <2>3. ForFeeder(u, f)
    BY <2>1, <2>2, FullyDarkIsTransformerFault DEF ForFeeder
  <2>4. id \in IdsAt(u, f)
    BY <1>0, <2>1, <2>2, <2>3, IdsAtCases
  <2> QED BY <2>4
<1>6. CASE ~ForFeeder(t, f)
  <2>1. id \in OwnIds(t, e) /\ ~ForFeeder(t, e)
    BY <1>1, <1>3, <1>6, IdsAtCases DEF ForFeeder
  <2>2. id \in IdsAt(t, e)
    BY <2>1, IdsAtCases
  <2>3. ASSUME NEW x \in Transformer, id \in IdsAt(x, e)
        PROVE  x = t
    <3>1. id[1] # "feeder" /\ id[2] = t
      BY <2>1, OwnIdsFacts
    <3>2. id \in OwnIds(x, e)
      BY <2>3, <3>1, IdsAtCases DEF FeederId
    <3> QED BY <3>1, <3>2, OwnIdsFacts
  <2> QED BY <2>2, <2>3
<1> QED BY <1>4, <1>5, <1>6

-----------------------------------------------------------------------------
(* The invariant.                                                          *)

(* Before the first dark report no pole is dark.                           *)
QuietStart == reports = 0 => \A p \in Pole : ~IsDark(energized[p])

(* In a storm there is no outage window and no handler.                    *)
CalmHolds ==
  calm => /\ outages = {}
          /\ \A k \in DOMAIN pending : pending[k].outages = {}
          /\ \A w \in Worker : job[w].outages = {}
          /\ \A h \in Handler : handler[h].phase = "idle"

InTable(id) == \E i \in DOMAIN faults : IsActive(i) /\ faults[i].identity = id

(* A localization that is still to read the levels will find it.           *)
Awaited(id) ==
  \/ \E k \in DOMAIN pending : id \in IdsAt(DTOf[pending[k].pole], energized)
  \/ \E w \in Worker : /\ job[w].phase = "outages"
                       /\ id \in IdsAt(DTOf[job[w].pole], energized)

(* A localization has found it and is still to write it.                   *)
InHand(id) ==
  \E w \in Worker : \E i \in DOMAIN job[w].todo : job[w].todo[i].identity = id

Covered(id) == InTable(id) \/ Awaited(id) \/ InHand(id)

AllCovered == calm => \A t \in Transformer : \A id \in IdsAt(t, energized) : Covered(id)

StormInv == QuietStart /\ CalmHolds /\ AllCovered

(* With the levels as they are, coverage is all there is to keep.          *)
LEMMA CoversOn ==
  ASSUME StormInv, calm, UNCHANGED energized, \A id : Covered(id) => Covered(id)'
  PROVE  AllCovered'
BY DEF StormInv, AllCovered

LEMMA QuietStartKeeps ==
  ASSUME OpsInv, QuietStart, [Next]_vars
  PROVE  QuietStart' /\ (calm' => calm)
<1>1. energized \in Levels /\ reports \in Nat
  BY OpsAssumption DEF OpsInv, TypeOK
<1>2. CASE \E p \in Pole : GoesDark(p)
  BY <1>1, <1>2 DEF GoesDark, QuietStart
<1>3. CASE \E p \in Pole : FirstReport(p) \/ \E h \in Handler : ComesBack(p, h)
  <2>1. PICK p \in Pole : /\ energized' = [energized EXCEPT ![p] = "LIVE"]
                          /\ reports' = reports /\ (calm' => calm)
    BY <1>3 DEF FirstReport, ComesBack
  <2>2. \A q \in Pole : energized'[q] = energized[q] \/ energized'[q] = "LIVE"
    BY <1>1, <2>1 DEF Levels
  <2> QED BY <2>1, <2>2 DEF QuietStart, IsDark
<1>4. CASE UNCHANGED <<energized, reports>> /\ (calm' => calm)
  BY <1>4 DEF QuietStart
<1>5. ASSUME NEW w \in Worker, StartLocalization(w) \/ JobStep(w)
      PROVE  UNCHANGED <<energized, reports>> /\ (calm' => calm)
  BY <1>5 DEF JobStep, StartLocalization, ReadLevels, FindActiveFault, UpdateActiveFault,
              CreateFaultAndTicket, Replied, LocalizationFails
<1>6. ASSUME NEW h \in Handler, HandlerStep(h)
      PROVE  UNCHANGED <<energized, reports>> /\ (calm' => calm)
  <2>1. CASE ListRestorable(h)
    BY <2>1, Zenon DEF ListRestorable
  <2>0. CASE Sweep(h)
    BY <2>0, Zenon DEF Sweep
  <2>2. CASE EndSweep(h) \/ VerifyListed(h) \/ AbandonSweep(h)
    BY <2>2 DEF EndSweep, VerifyListed, AbandonSweep
  <2> QED BY <1>6, <2>0, <2>1, <2>2 DEF HandlerStep
<1>7. CASE ScheduleMoves \/ Crash \/ UNCHANGED vars
  BY <1>4, <1>7 DEF ScheduleMoves, Crash, vars
<1> QED BY <1>2, <1>3, <1>4, <1>5, <1>6, <1>7 DEF Next

(* Where no pole is dark nothing is shown.                                 *)
LEMMA NothingDark ==
  ASSUME NEW e, \A p \in Pole : ~IsDark(e[p]), NEW t \in Transformer
  PROVE  IdsAt(t, e) = {}
<1> DEFINE in == DTInput(t, e, {}, {})
<1>1. DarkPoles(in) = {}
  BY DEF DarkPoles, DarkIn, DTInput, PolesOf
<1>2. LocalizeDT(in) = {}
  BY <1>1 DEF LocalizeDT
<1>3. OwnIds(t, e) = {} /\ ~ForFeeder(t, e)
  BY <1>2 DEF OwnIds, ForFeeder, HasTransformerFault
<1> QED BY <1>3, IdsAtCases

LEMMA InitStorm == Init => StormInv
<1> SUFFICES ASSUME Init
             PROVE  StormInv
  OBVIOUS
<1>1. QuietStart
  BY DEF Init, QuietStart, IsDark
<1>2. CalmHolds
  BY DEF Init, CalmHolds, IdleJob, IdleHandler
<1>3. \A t \in Transformer : IdsAt(t, energized) = {}
  <2>1. \A p \in Pole : ~IsDark(energized[p])
    BY DEF Init, IsDark
  <2> QED BY <2>1, NothingDark
<1> QED BY <1>1, <1>2, <1>3 DEF StormInv, AllCovered

-----------------------------------------------------------------------------
(* The steps of a storm.                                                   *)

LEMMA PendingPoles ==
  ASSUME OpsInv, NEW k \in DOMAIN pending
  PROVE  pending[k].pole \in Pole
<1> DEFINE Transition == [pole : Pole, outages : OutageCases]
<1>1. pending \in Seq(Transition)
  BY DEF OpsInv, TypeOK
<1> HIDE DEF Transition
<1>2. pending[k] \in Transition
  BY <1>1
<1> QED BY <1>2 DEF Transition

LEMMA GoesDarkCovers ==
  ASSUME OpsInv, StormInv, NEW p \in Pole, GoesDark(p), calm
  PROVE  CalmHolds' /\ AllCovered'
<1> DEFINE x == [pole |-> p, outages |-> outages]
           n == Len(pending) + 1
<1>1. /\ energized \in Levels /\ pending \in Seq([pole : Pole, outages : OutageCases])
      /\ pending' = Append(pending, x) /\ outages = {}
      /\ UNCHANGED <<outages, job, faults, handler, calm>>
  BY DEF OpsInv, TypeOK, GoesDark, StormInv, CalmHolds
<1>2. x.pole = p /\ x.outages = {}
  BY <1>1
<1> HIDE DEF x
<1>3. /\ n \in DOMAIN pending' /\ pending'[n] = x
      /\ DOMAIN pending' = DOMAIN pending \cup {n}
      /\ \A k \in DOMAIN pending : pending'[k] = pending[k]
  BY <1>1
<1> HIDE DEF n
<1>4. CalmHolds'
  BY <1>1, <1>2, <1>3 DEF StormInv, CalmHolds
<1>5. Darkens(p, energized, energized')
  BY <1>1 DEF GoesDark, Darkens, Levels
<1>6. ASSUME NEW t \in Transformer, NEW id \in IdsAt(t, energized')
      PROVE  Covered(id)'
  <2>1. id \in IdsAt(DTOf[p], energized') => Awaited(id)'
    BY <1>2, <1>3 DEF Awaited
  <2>2. CASE id \in IdsAt(DTOf[p], energized')
    BY <2>1, <2>2 DEF Covered
  <2>3. CASE id \notin IdsAt(DTOf[p], energized')
    <3>1. /\ id \in IdsAt(t, energized)
          /\ \A y \in Transformer : id \in IdsAt(y, energized) => id \in IdsAt(y, energized')
      BY <1>5, <2>3, StillShown
    <3>2. Covered(id)
      BY <3>1 DEF StormInv, AllCovered
    <3>3. CASE InTable(id) \/ InHand(id)
      BY <1>1, <3>3 DEF InTable, InHand, IsActive, Covered
    <3>4. CASE Awaited(id)
      <4>1. CASE \E k \in DOMAIN pending : id \in IdsAt(DTOf[pending[k].pole], energized)
        <5>1. PICK k \in DOMAIN pending : id \in IdsAt(DTOf[pending[k].pole], energized)
          BY <4>1
        <5>2. pending[k].pole \in Pole
          BY <5>1, PendingPoles
        <5>3. id \in IdsAt(DTOf[pending[k].pole], energized')
          BY <3>1, <5>1, <5>2, RegistryAssumption
        <5> QED BY <1>3, <5>3 DEF Awaited, Covered
      <4>2. CASE \E w \in Worker : job[w].phase = "outages"
                                     /\ id \in IdsAt(DTOf[job[w].pole], energized)
        <5>1. PICK w \in Worker : job[w].phase = "outages"
                                     /\ id \in IdsAt(DTOf[job[w].pole], energized)
          BY <4>2
        <5>2. job[w].pole \in Pole
          BY <5>1 DEF OpsInv, JobsHold, JobHolds
        <5>3. id \in IdsAt(DTOf[job[w].pole], energized')
          BY <3>1, <5>1, <5>2, RegistryAssumption
        <5> QED BY <1>1, <5>1, <5>3 DEF Awaited, Covered
      <4> QED BY <3>4, <4>1, <4>2 DEF Awaited
    <3> QED BY <3>2, <3>3, <3>4 DEF Covered
  <2> QED BY <2>2, <2>3
<1> QED BY <1>4, <1>6 DEF AllCovered

(* First reports belong to the time before the storm.                      *)
LEMMA FirstReportCovers ==
  ASSUME OpsInv, StormInv, NEW p \in Pole, FirstReport(p), calm'
  PROVE  CalmHolds' /\ AllCovered'
<1>1. /\ energized \in Levels /\ reports = 0 /\ calm
      /\ energized' = [energized EXCEPT ![p] = "LIVE"]
      /\ UNCHANGED <<outages, pending, job, faults, handler>>
  BY DEF OpsInv, TypeOK, FirstReport
<1>2. \A q \in Pole : ~IsDark(energized'[q])
  BY <1>1 DEF StormInv, QuietStart, Levels, IsDark
<1>3. \A t \in Transformer : IdsAt(t, energized') = {}
  BY <1>2, NothingDark
<1> QED BY <1>1, <1>3 DEF StormInv, CalmHolds, AllCovered

LEMMA StartLocalizationCovers ==
  ASSUME OpsInv, StormInv, NEW w \in Worker, StartLocalization(w), calm
  PROVE  CalmHolds' /\ AllCovered'
<1> DEFINE s == [IdleJob EXCEPT !.phase = "outages", !.pole = Head(pending).pole,
                                !.outages = Head(pending).outages]
<1>1. /\ pending \in Seq([pole : Pole, outages : OutageCases]) /\ pending # <<>>
      /\ pending' = Tail(pending) /\ job' = [job EXCEPT ![w] = s]
      /\ job \in [Worker -> Job] /\ \A v \in Worker : job[v].phase = "idle"
      /\ UNCHANGED <<energized, outages, faults, handler, calm>>
  BY DEF OpsInv, TypeOK, StartLocalization, MayStart
<1>2. s.phase = "outages" /\ s.pole = Head(pending).pole /\ s.outages = Head(pending).outages
  BY DEF IdleJob
<1> HIDE DEF s
<1>3. Head(pending) = pending[1] /\ 1 \in DOMAIN pending
  BY <1>1
<1>4. /\ \A k \in DOMAIN pending' : k + 1 \in DOMAIN pending /\ pending'[k] = pending[k + 1]
      /\ \A k \in DOMAIN pending : k = 1 \/ (k - 1 \in DOMAIN pending' /\ pending'[k - 1] = pending[k])
  BY <1>1
<1>5. job'[w] = s /\ \A v \in Worker : v # w => job'[v] = job[v]
  BY <1>1
<1>6. CalmHolds'
  BY <1>1, <1>2, <1>3, <1>4, <1>5 DEF StormInv, CalmHolds
<1>7. \A v \in Worker : job[v].todo = <<>>
  BY <1>1 DEF OpsInv, JobsHold, JobHolds, Taking
<1>8. ASSUME NEW id, Covered(id)
      PROVE  Covered(id)'
  <2>1. CASE InTable(id)
    BY <1>1, <2>1 DEF InTable, IsActive, Covered
  <2>2. CASE Awaited(id)
    <3>1. PICK k \in DOMAIN pending : id \in IdsAt(DTOf[pending[k].pole], energized)
      BY <1>1, <2>2 DEF Awaited
    <3>2. CASE k = 1
      BY <1>1, <1>2, <1>3, <1>5, <3>1, <3>2 DEF Awaited, Covered
    <3>3. CASE k # 1
      BY <1>1, <1>4, <3>1, <3>3 DEF Awaited, Covered
    <3> QED BY <3>2, <3>3
  <2>3. CASE InHand(id)
    BY <1>7, <2>3 DEF InHand
  <2> QED BY <1>8, <2>1, <2>2, <2>3 DEF Covered
<1> QED BY <1>1, <1>6, <1>8, CoversOn

(* Taking up candidates leaves the other localizations alone.              *)
LEMMA GoesTo ==
  ASSUME OpsInv, NEW w \in Worker, NEW cs, Goes(w, cs)
  PROVE  /\ job'[w].todo = cs /\ job'[w].phase # "outages"
         /\ job'[w].outages \in {{}, job[w].outages}
         /\ \A v \in Worker : v # w => job'[v] = job[v]
<1>1. job \in [Worker -> Job] /\ job[w] \in Job
  BY DEF OpsInv, TypeOK
<1>2. CASE cs = <<>>
  <2>1. job' = [job EXCEPT ![w] = IdleJob]
    BY <1>2 DEF Goes
  <2> QED BY <1>1, <1>2, <2>1 DEF IdleJob
<1>3. CASE cs # <<>>
  <2> DEFINE s == [job[w] EXCEPT !.phase = "finding", !.todo = cs, !.target = 0]
  <2>1. job' = [job EXCEPT ![w] = s]
    BY <1>3 DEF Goes
  <2>2. s.todo = cs /\ s.phase = "finding" /\ s.outages = job[w].outages
    BY <1>1 DEF Job
  <2> HIDE DEF s
  <2> QED BY <1>1, <2>1, <2>2
<1> QED BY <1>2, <1>3

(* All of a finite set is in a sequence of its elements.                   *)
LEMMA AllInSequence ==
  ASSUME NEW S, IsFiniteSet(S), NEW cs \in SetToSeqs(S), NEW x \in S
  PROVE  \E i \in DOMAIN cs : cs[i] = x
<1> DEFINE D == 1 .. Cardinality(S)
<1>1. Cardinality(S) \in Nat /\ cs \in [D -> S] /\ \A i, j \in D : i # j => cs[i] # cs[j]
  BY FS_CardinalityType DEF SetToSeqs
<1>2. Cardinality(D) = Cardinality(S)
  BY <1>1, FS_Interval
<1>3. cs \in Injection(D, S)
  <2> HIDE DEF D
  <2> QED BY <1>1 DEF Injection, IsInjective
<1>4. cs \in Surjection(D, S)
  <2> HIDE DEF D
  <2> QED BY <1>2, <1>3, FS_Injection
<1> QED BY <1>1, <1>4 DEF Surjection

LEMMA ShownIsFound ==
  ASSUME NEW t, NEW id
  PROVE  id \in IdsAt(t, energized) <=> \E c \in Found(t, {}) : c.identity = id
<1>1. ASSUME NEW d \in Candidates(t, energized, {}, {}), id = IdentityOf(d)
      PROVE  \E c \in Found(t, {}) : c.identity = id
  <2>1. [identity |-> IdentityOf(d), affected |-> d.affected] \in Found(t, {})
    BY DEF Found
  <2> QED BY <1>1, <2>1
<1>2. ASSUME NEW c \in Found(t, {}), c.identity = id
      PROVE  id \in IdsAt(t, energized)
  <2>1. PICK d \in Candidates(t, energized, {}, {}) :
          c = [identity |-> IdentityOf(d), affected |-> d.affected]
    BY DEF Found
  <2>2. id = IdentityOf(d)
    BY <1>2, <2>1
  <2> QED BY <2>2 DEF IdsAt
<1> QED BY <1>1, <1>2 DEF IdsAt

LEMMA ReadLevelsCovers ==
  ASSUME OpsInv, StormInv, NEW w \in Worker, ReadLevels(w), calm
  PROVE  CalmHolds' /\ AllCovered'
<1> DEFINE t == DTOf[job[w].pole]
<1>1. /\ job[w].phase = "outages" /\ job[w].outages = {} /\ job[w].pole \in Pole
      /\ UNCHANGED <<energized, outages, pending, faults, handler, calm>>
  BY DEF ReadLevels, StormInv, CalmHolds, OpsInv, JobsHold, JobHolds
<1>2. PICK cs \in SetToSeqs(Found(t, {})) : Goes(w, cs)
  BY <1>1 DEF ReadLevels
<1>3. /\ job'[w].todo = cs /\ job'[w].phase # "outages" /\ job'[w].outages = {}
      /\ \A v \in Worker : v # w => job'[v] = job[v]
  BY <1>1, <1>2, GoesTo
<1>4. CalmHolds'
  BY <1>1, <1>3 DEF StormInv, CalmHolds
<1>5. job[w].todo = <<>>
  BY <1>1 DEF OpsInv, JobsHold, JobHolds, Taking
<1>6. ASSUME NEW id \in IdsAt(t, energized)
      PROVE  InHand(id)'
  <2>1. PICK c \in Found(t, {}) : c.identity = id
    BY ShownIsFound
  <2>2. PICK i \in DOMAIN cs : cs[i] = c
    BY <1>2, <2>1, FoundFinite, AllInSequence
  <2> QED BY <1>3, <2>1, <2>2 DEF InHand
<1>7. ASSUME NEW id, Covered(id)
      PROVE  Covered(id)'
  <2>1. CASE InTable(id)
    BY <1>1, <2>1 DEF InTable, IsActive, Covered
  <2>2. CASE \E k \in DOMAIN pending : id \in IdsAt(DTOf[pending[k].pole], energized)
    BY <1>1, <2>2 DEF Awaited, Covered
  <2>3. CASE \E v \in Worker : job[v].phase = "outages" /\ id \in IdsAt(DTOf[job[v].pole], energized)
    <3>1. PICK v \in Worker : job[v].phase = "outages" /\ id \in IdsAt(DTOf[job[v].pole], energized)
      BY <2>3
    <3>2. v = w
      BY <1>1, <3>1, OthersIdle
    <3> QED BY <1>6, <3>1, <3>2 DEF Covered
  <2>4. CASE InHand(id)
    BY <1>3, <1>5, <2>4 DEF InHand, Covered
  <2> QED BY <1>7, <2>1, <2>2, <2>3, <2>4 DEF Covered, Awaited
<1> QED BY <1>1, <1>4, <1>7, CoversOn

(* A localization that goes on with the rest has the first candidate in    *)
(* the table.                                                              *)
LEMMA RestCovers ==
  ASSUME OpsInv, StormInv, NEW w \in Worker, job[w].phase \in {"updating", "creating"},
         calm, UNCHANGED <<energized, outages, pending, handler, calm>>,
         Goes(w, Tail(job[w].todo)), NEW c, c = Head(job[w].todo), InTable(c.identity)',
         \A id : InTable(id) => InTable(id)'
  PROVE  CalmHolds' /\ AllCovered'
<1>1. /\ job[w].todo \in Seq(Candidate) /\ job[w].todo # <<>> /\ job[w].outages = {}
  BY DEF OpsInv, TypeOK, Job, Candidate, JobsHold, JobHolds, Taking, StormInv, CalmHolds
<1>2. /\ job'[w].todo = Tail(job[w].todo) /\ job'[w].phase # "outages" /\ job'[w].outages = {}
      /\ \A v \in Worker : v # w => job'[v] = job[v]
  BY <1>1, GoesTo
<1>3. CalmHolds'
  BY <1>2 DEF StormInv, CalmHolds
<1>4. ASSUME NEW id, Covered(id)
      PROVE  Covered(id)'
  <2>1. CASE InTable(id)
    BY <2>1 DEF Covered
  <2>2. CASE Awaited(id)
    BY <1>2, <2>2 DEF Awaited, Covered
  <2>3. CASE InHand(id)
    <3>1. PICK v \in Worker : \E i \in DOMAIN job[v].todo : job[v].todo[i].identity = id
      BY <2>3 DEF InHand
    <3>2. PICK i \in DOMAIN job[v].todo : job[v].todo[i].identity = id
      BY <3>1
    <3>3. CASE v # w
      BY <1>2, <3>2, <3>3 DEF InHand, Covered
    <3>4. CASE v = w /\ i = 1
      BY <1>1, <3>2, <3>4 DEF Covered
    <3>5. CASE v = w /\ i # 1
      <4>1. i - 1 \in DOMAIN job'[w].todo /\ job'[w].todo[i - 1] = job[w].todo[i]
        <5>1. PICK s \in Seq(Candidate) : s = job[w].todo /\ s # <<>>
          BY <1>1
        <5>2. i \in DOMAIN s /\ i # 1
          BY <3>5, <5>1
        <5>3. i - 1 \in DOMAIN Tail(s) /\ Tail(s)[i - 1] = s[i]
          BY <5>2
        <5> QED BY <1>2, <5>1, <5>3
      <4> QED BY <3>2, <3>5, <4>1 DEF InHand, Covered
    <3> QED BY <3>3, <3>4, <3>5
  <2> QED BY <1>4, <2>1, <2>2, <2>3 DEF Covered
<1> QED BY <1>3, <1>4, CoversOn

LEMMA UpdateActiveFaultCovers ==
  ASSUME OpsInv, StormInv, NEW w \in Worker, UpdateActiveFault(w), calm, calm'
  PROVE  CalmHolds' /\ AllCovered'
<1>1. /\ job[w].phase = "updating" /\ job[w].target \in DOMAIN faults
      /\ IsActive(job[w].target)
      /\ faults[job[w].target].identity = Head(job[w].todo).identity
  BY DEF UpdateActiveFault, OpsInv, JobsHold, JobHolds
<1>2. /\ Goes(w, Tail(job[w].todo)) /\ UNCHANGED calm
      /\ UNCHANGED <<energized, outages, pending, handler>>
  BY DEF UpdateActiveFault, Replied
<1>3. PICK c : c = Head(job[w].todo)
  OBVIOUS
<1>4. /\ DOMAIN faults' = DOMAIN faults
      /\ \A i \in DOMAIN faults : /\ faults'[i].identity = faults[i].identity
                                 /\ faults'[i].status = faults[i].status
  <2> DEFINE k == job[w].target
             g == Updated(faults[k], Head(job[w].todo))
  <2>1. k \in DOMAIN faults /\ faults \in Seq(Fault) /\ faults' = [faults EXCEPT ![k] = g]
    BY <1>1 DEF OpsInv, TypeOK, UpdateActiveFault
  <2>2. faults[k] \in Fault
    BY <2>1
  <2>3. g.identity = faults[k].identity /\ g.status = faults[k].status
    <3> HIDE DEF k
    <3> QED BY <2>2 DEF Updated, Fault
  <2> HIDE DEF g, k
  <2> QED BY <2>1, <2>3
<1>5. \A id : InTable(id) => InTable(id)'
  BY <1>4 DEF InTable, IsActive
<1>6. InTable(c.identity)'
  <2>1. InTable(c.identity)
    BY <1>1, <1>3 DEF InTable
  <2> QED BY <1>5, <2>1
<1> QED BY <1>1, <1>2, <1>3, <1>5, <1>6, RestCovers

LEMMA CreateFaultAndTicketCovers ==
  ASSUME OpsInv, StormInv, NEW w \in Worker, CreateFaultAndTicket(w), calm, calm'
  PROVE  CalmHolds' /\ AllCovered'
<1>1. PICK c : c = Head(job[w].todo)
  OBVIOUS
<1>2. /\ job[w].phase = "creating" /\ Goes(w, Tail(job[w].todo)) /\ UNCHANGED calm
      /\ UNCHANGED <<energized, outages, pending, handler>>
      /\ faults' = Append(faults, NewFault(c))
  BY <1>1 DEF CreateFaultAndTicket, Replied
<1>3. /\ Len(faults) + 1 \in DOMAIN faults' /\ faults'[Len(faults) + 1] = NewFault(c)
      /\ \A i \in DOMAIN faults : i \in DOMAIN faults' /\ faults'[i] = faults[i]
  BY <1>2, NewRow
<1>4. NewFault(c).identity = c.identity /\ NewFault(c).status = "active"
  BY DEF NewFault
<1>5. \A id : InTable(id) => InTable(id)'
  BY <1>3 DEF InTable, IsActive
<1>6. InTable(c.identity)'
  BY <1>3, <1>4 DEF InTable, IsActive
<1> QED BY <1>1, <1>2, <1>5, <1>6, RestCovers

LEMMA FindActiveFaultCovers ==
  ASSUME OpsInv, StormInv, NEW w \in Worker, FindActiveFault(w), calm
  PROVE  CalmHolds' /\ AllCovered'
<1>1. /\ job \in [Worker -> Job] /\ job[w] \in Job /\ job[w].phase = "finding"
      /\ UNCHANGED <<energized, outages, pending, faults, handler, calm>>
  BY DEF OpsInv, TypeOK, FindActiveFault
<1>2. /\ job'[w].todo = job[w].todo /\ job'[w].outages = job[w].outages
      /\ job'[w].phase # "outages" /\ \A v \in Worker : v # w => job'[v] = job[v]
  <2>1. CASE \E i : job' = [job EXCEPT ![w].phase = "updating", ![w].target = i]
    BY <1>1, <2>1 DEF Job
  <2>2. CASE job' = [job EXCEPT ![w].phase = "creating"]
    BY <1>1, <2>2 DEF Job
  <2> QED BY <2>1, <2>2 DEF FindActiveFault
<1>3. CalmHolds'
  BY <1>1, <1>2 DEF StormInv, CalmHolds
<1>4. ASSUME NEW id, Covered(id)
      PROVE  Covered(id)'
  <2>1. CASE InTable(id)
    BY <1>1, <2>1 DEF InTable, IsActive, Covered
  <2>2. CASE Awaited(id)
    BY <1>1, <1>2, <2>2 DEF Awaited, Covered
  <2>3. CASE InHand(id)
    BY <1>2, <2>3 DEF InHand, Covered
  <2> QED BY <1>4, <2>1, <2>2, <2>3 DEF Covered
<1> QED BY <1>1, <1>3, <1>4, CoversOn

LEMMA NextStorm ==
  ASSUME OpsInv, StormInv, [Next]_vars
  PROVE  StormInv'
<1>1. QuietStart' /\ (calm' => calm)
  BY QuietStartKeeps DEF StormInv
<1> SUFFICES ASSUME calm, calm'
             PROVE  CalmHolds' /\ AllCovered'
  BY <1>1 DEF StormInv, CalmHolds, AllCovered
<1>2. ASSUME NEW p \in Pole, GoesDark(p) \/ FirstReport(p)
      PROVE  CalmHolds' /\ AllCovered'
  BY <1>2, GoesDarkCovers, FirstReportCovers
<1>3. ASSUME NEW w \in Worker, StartLocalization(w) \/ JobStep(w)
      PROVE  CalmHolds' /\ AllCovered'
  <2>1. ~LocalizationFails(w)
    BY DEF LocalizationFails
  <2> QED BY <1>3, <2>1, StartLocalizationCovers, ReadLevelsCovers, FindActiveFaultCovers,
             UpdateActiveFaultCovers, CreateFaultAndTicketCovers DEF JobStep
<1>4. \A h \in Handler : ~HandlerStep(h)
  <2>1. \A h \in Handler : handler[h].phase = "idle"
    BY DEF StormInv, CalmHolds
  <2> QED BY <2>1 DEF HandlerStep, ListRestorable, Sweep, EndSweep, VerifyListed, AbandonSweep
<1>5. ~ScheduleMoves /\ ~Crash /\ \A p \in Pole, h \in Handler : ~ComesBack(p, h)
  BY DEF ScheduleMoves, Crash, ComesBack
<1>6. CASE UNCHANGED vars
  <2>1. CalmHolds'
    BY <1>6 DEF StormInv, CalmHolds, vars
  <2>2. \A id : Covered(id) => Covered(id)'
    BY <1>6 DEF Covered, InTable, IsActive, Awaited, InHand, vars
  <2>3. UNCHANGED energized
    BY <1>6 DEF vars
  <2> QED BY <2>1, <2>2, <2>3, CoversOn
<1> QED BY <1>2, <1>3, <1>4, <1>5, <1>6 DEF Next

(* Once the chain is empty after a storm of dark reports, every place that *)
(* the levels show has its active fault, in whatever order the reports     *)
(* came and whichever levels each localization read (localize-faults.ts,   *)
(* localizeTransition).                                                    *)
THEOREM StormCovered == Spec => []StormIsCovered
<1>1. OpsInv /\ StormInv => StormIsCovered
  <2> SUFFICES ASSUME OpsInv, StormInv, calm, Settled,
                      NEW t \in Transformer, NEW c \in Found(t, {})
               PROVE  InTable(c.identity)
    BY DEF StormIsCovered, StormInv, CalmHolds, InTable
  <2>1. Covered(c.identity)
    BY ShownIsFound DEF StormInv, AllCovered
  <2>2. ~Awaited(c.identity) /\ ~InHand(c.identity)
    BY DEF Settled, Awaited, InHand, OpsInv, JobsHold, JobHolds, Taking
  <2> QED BY <2>1, <2>2 DEF Covered
<1>2. OpsInv /\ StormInv /\ [Next]_vars => StormInv'
  BY NextStorm
<1> QED BY <1>1, <1>2, InitStorm, OpsInvariance, PTL DEF Spec
=============================================================================
