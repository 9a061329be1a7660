----------------------------- MODULE Simulation -----------------------------
(***************************************************************************)
(* RunSimulation and the simulator behind it: an operator injects a fault, *)
(* repairs one or makes noise, and the telemetry that the request plans is *)
(* sent through the same admission as the telemetry of the real devices.   *)
(*                                                                         *)
(* A request claims its target, plans its telemetry and answers 202 in one *)
(* uninterrupted piece of the process; the run it leaves behind sends its  *)
(* events one after the other and expects a certain answer to each.  Any   *)
(* other answer is thrown by a promise that nobody awaits: the unhandled   *)
(* rejection ends the server process.                                      *)
(*                                                                         *)
(* The event pipeline is reduced to what decides an answer: the queue, the *)
(* rows of telemetry_events and the cursors of pole_states.  Its           *)
(* admittedTuples are the tuples of the queue, and the pendingCursor of a  *)
(* pole is the newest of them (TelemetryPipeline has it in full).  What an *)
(* event says of the power is left to the other modules.                   *)
(***************************************************************************)
EXTENDS PoleEvents, SequencesExt

CONSTANTS
  Pole,         \* the registered poles
  Device,       \* those that have a device
  DefaultPole,  \* the first pole with a device, by pole id
  Target,       \* the feeders, transformers and spans to inject a fault at
  PolesOf,      \* the poles below a target
  Fault,        \* the rows of faults
  AffectedBy,   \* the affected_poles of a fault's evidence
  Unspecified,  \* stands for an absent target_pole_id
  Request,      \* the simulator requests and runs alive at once
  MaxBoot,      \* bound: boot counters
  MaxSeq,       \* bound: sequence numbers of a pole
  MaxCount,     \* bound: repetitions of a noise run
  MaxDisturbed  \* bound: poles disturbed, by a report or a failure, at once

ASSUME SimulationAssumption ==
  /\ IsFiniteSet(Pole)
  /\ Device \subseteq Pole /\ DefaultPole \in Device
  /\ Unspecified \notin Pole
  /\ \A t \in Target : PolesOf[t] \subseteq Pole
  /\ \A f \in Fault : AffectedBy[f] \subseteq Pole
  /\ {MaxBoot, MaxCount, MaxDisturbed} \subseteq Nat
  /\ MaxSeq \in [Pole -> Nat]

VARIABLES
  up,             \* whether the server process is running
  activeTargets,  \* RunSimulation's claims
  cursors,        \* TelemetryProducer's position in each device's stream
  job,            \* job[r]: where request r, and then its run, is
  buffer,         \* the queued positions, oldest first
  inserted,       \* whether the oldest has its row in telemetry_events
  telemetry,      \* the tuples of the rows of telemetry_events
  applied,        \* the cursors in pole_states, and in their cache
  activeFaults,   \* the rows of faults whose status is active
  disturbed       \* history: the poles whose stream was moved, or not moved,
                  \* by something else than the simulator's accepted events

serverVars == <<buffer, inserted, telemetry, applied>>
vars == <<up, activeTargets, cursors, job, serverVars, activeFaults, disturbed>>

NoiseType == {"duplicate_telemetry", "stale_retry", "out_of_order",
              "dead_sensor"}

Admission == {"accepted", "duplicate", "stale"}

(* A GeneratedTelemetry: an event, the answer it should get, and whether   *)
(* the run sleeps before it.                                               *)
Generated == [pole : Device, at : Position, expected : Admission,
              delayed : BOOLEAN]

Idle == [phase |-> "idle", key |-> <<>>, plan |-> <<>>, next |-> 1]

(* asked, resolved: the fault to repair has been read as active, or as     *)
(* resolved; sending: at the head of the loop; sleeping: in its delay;     *)
(* looking: admit() waits for the row of the same tuple.                   *)
Running(r) == job[r].phase \in {"sending", "sleeping", "looking"}

Event(r) == job[r].plan[job[r].next]
-----------------------------------------------------------------------------
(* TelemetryProducer.                                                      *)

(* The constructor's cursors: null counters become zero.                   *)
ProducerCursor(c) ==
  IF c = NoPosition THEN [bootCounter |-> 0, seq |-> 0] ELSE c

Ahead(c, n) == [c EXCEPT !.seq = @ + n]

EventAt(p, c) ==
  [pole |-> p, at |-> c, expected |-> "accepted", delayed |-> FALSE]

Duplicate(e) == [e EXCEPT !.expected = "duplicate"]

StaleBefore(e, late) ==
  [e EXCEPT !.at.seq = IF @ = 0 THEN 0 ELSE @ - 1,
            !.expected = "stale", !.delayed = late]

SameBoot(c) == [bootCounter |-> c.bootCounter, seq |-> 1]

AfterBoot(c) == [bootCounter |-> c.bootCounter + 1, seq |-> 1]

BootAndRestore(p, c) ==
  <<EventAt(p, Ahead(AfterBoot(c), -1)), EventAt(p, AfterBoot(c))>>
-----------------------------------------------------------------------------
(* The plans, and the cursors they leave.  FaultInjector draws who sends   *)
(* from the rates in the request; any subset of the devices can come out.  *)

Expand(poles, Events(_)) ==
  LET order == SetToSeq(poles)
  IN  FlattenSeq([i \in DOMAIN order |-> Events(order[i])])

FaultPlan(delivered, twice) ==
  LET PowerLost(p) ==
        LET e == EventAt(p, Ahead(cursors[p], 1))
        IN  IF twice THEN <<e, Duplicate(e)>> ELSE <<e>>
  IN  Expand(delivered, PowerLost)

RestoringAll(f) == AffectedBy[f]

Restoring(f) == AffectedBy[f] \cap Device

RepairPlan(f) ==
  LET Restore(p) == BootAndRestore(p, cursors[p])
  IN  Expand(Restoring(f), Restore)

(* A repetition always takes a heartbeat from the stream first; only       *)
(* duplicate_telemetry sends it.                                           *)
EventsTaken(type) == IF type = "duplicate_telemetry" THEN 1 ELSE 2

Repetition(type, p, c, late) ==
  LET base  == EventAt(p, Ahead(c, 1))
      newer == EventAt(p, Ahead(c, 2))
  IN CASE type = "duplicate_telemetry" -> <<base, Duplicate(base)>>
       [] type = "stale_retry"         -> <<newer, StaleBefore(newer, late)>>
       [] type = "out_of_order"        -> <<newer, StaleBefore(newer, FALSE)>>
       [] type = "dead_sensor"         -> <<newer>>

NoisePlan(type, p, count, late) ==
  FlattenSeq([i \in 1..count |->
    Repetition(type, p, Ahead(cursors[p], (i - 1) * EventsTaken(type)), late)])

(* Without target_pole_id the first device is taken, except for the dead   *)
(* sensor; a named pole must have one.                                     *)
NoiseTarget(type, requested) ==
  IF requested # Unspecified THEN {requested} \cap Device
  ELSE IF type = "dead_sensor" THEN {} ELSE {DefaultPole}

WithinBounds(moved) ==
  \A p \in Pole : moved[p].bootCounter =< MaxBoot /\ moved[p].seq =< MaxSeq[p]
-----------------------------------------------------------------------------
Init ==
  /\ up = TRUE
  /\ activeTargets = {}
  /\ cursors = [p \in Pole |-> ProducerCursor(NoPosition)]
  /\ job = [r \in Request |-> Idle]
  /\ buffer = <<>>
  /\ inserted = FALSE
  /\ telemetry = {}
  /\ applied = [p \in Pole |-> NoPosition]
  /\ activeFaults = Fault
  /\ disturbed = {}

ClaimsAnyway(key) == TRUE

(* claim(): a second simulation with the same key gets 409.                *)
CanClaim(key) == key \notin activeTargets

(* The rest of a request once it has its claim: plan, announce, and leave  *)
(* the run to a microtask.  A plan that throws gives the claim back: for   *)
(* an unknown target or a pole without device nothing has changed, but an  *)
(* injection whose skewed timestamp cannot be written keeps the positions  *)
(* it took so far, unused; that gap in the streams is left out.            *)
Start(r, key, plan, moved) ==
  /\ CanClaim(key)
  /\ WithinBounds(moved)
  /\ activeTargets' = activeTargets \cup {key}
  /\ cursors' = moved
  /\ job' = [job EXCEPT ![r] = [phase |-> "sending", key |-> key,
                                plan |-> plan, next |-> 1]]
  /\ UNCHANGED <<up, serverVars, activeFaults, disturbed>>

InjectFault(r) ==
  /\ up /\ job[r] = Idle
  /\ \E t \in Target, twice \in BOOLEAN :
       \E delivered \in SUBSET (PolesOf[t] \cap Device) :
         Start(r, <<"fault", t>>, FaultPlan(delivered, twice),
               [p \in Pole |-> IF p \in delivered THEN Ahead(cursors[p], 1)
                                                  ELSE cursors[p]])

(* repair() reads the fault; the request goes on when the reply is there.  *)
FindFault(r) ==
  /\ up /\ job[r] = Idle
  /\ \E f \in Fault :
       job' = [job EXCEPT ![r] =
                 [Idle EXCEPT !.phase = IF f \in activeFaults THEN "asked"
                                                              ELSE "resolved",
                              !.key = <<"repair", f>>]]
  /\ UNCHANGED <<up, activeTargets, cursors, serverVars, activeFaults, disturbed>>

RepairFault(r) ==
  /\ up /\ job[r].phase = "asked"
  /\ LET f == job[r].key[2]
     IN  Start(r, job[r].key, RepairPlan(f),
               [p \in Pole |-> IF p \in Restoring(f) THEN AfterBoot(cursors[p])
                                                     ELSE cursors[p]])

(* 409: the fault was resolved already, or a repair of it is running (or   *)
(* the bound is reached).                                                  *)
RefuseRepair(r) ==
  /\ up
  /\ \/ job[r].phase = "resolved"
     \/ /\ job[r].phase = "asked"
        /\ \/ job[r].key \in activeTargets
           \/ \E p \in Restoring(job[r].key[2]) : cursors[p].bootCounter = MaxBoot
  /\ job' = [job EXCEPT ![r] = Idle]
  /\ UNCHANGED <<up, activeTargets, cursors, serverVars, activeFaults, disturbed>>

InjectNoise(r) ==
  /\ up /\ job[r] = Idle
  /\ \E type \in NoiseType, requested \in Pole \cup {Unspecified},
        count \in 1..MaxCount, late \in BOOLEAN :
       \E p \in NoiseTarget(type, requested) :
         Start(r, <<"noise", type, requested>>, NoisePlan(type, p, count, late),
               [cursors EXCEPT ![p] = Ahead(@, count * EventsTaken(type))])
-----------------------------------------------------------------------------
(* Admission, as EventPipeline.admit() answers.                            *)

PersistedCursor(p) == applied[p]

StreamCursor(p) ==
  LET queued == {i \in DOMAIN buffer : buffer[i].pole = p}
  IN  IF queued = {} THEN applied[p] ELSE buffer[Max(queued)].at

StreamTuple(e) == [pole |-> e.pole, at |-> e.at]

Queued(e) == StreamTuple(e) \in Range(buffer)

(* The answer once findTelemetryEventByTuple has come back.                *)
Verdict(e) ==
  IF StreamTuple(e) \in telemetry THEN "duplicate"
  ELSE IF Before(StreamCursor(e.pole), e.at) THEN "accepted" ELSE "stale"

ForgetAll ==
  /\ activeTargets' = {}
  /\ job' = [r \in Request |-> Idle]
  /\ buffer' = <<>>
  /\ inserted' = FALSE
  /\ UNCHANGED <<cursors, telemetry, applied, activeFaults, disturbed>>

(* The process ends; what was only in memory is gone.                      *)
Die == up /\ up' = FALSE /\ ForgetAll

Step(r, phase) == up /\ job[r].phase = phase

Move(r, phase, n) == job' = [job EXCEPT ![r].phase = phase, ![r].next = n]

(* The head of the loop: at its end the run announces its completion and   *)
(* gives its claim back.                                                   *)
Complete(r) ==
  /\ Step(r, "sending") /\ job[r].next > Len(job[r].plan)
  /\ activeTargets' = activeTargets \ {job[r].key}
  /\ job' = [job EXCEPT ![r] = Idle]
  /\ UNCHANGED <<up, cursors, serverVars, activeFaults, disturbed>>

Sleep(r) ==
  /\ Step(r, "sending") /\ job[r].next =< Len(job[r].plan)
  /\ Event(r).delayed
  /\ Move(r, "sleeping", job[r].next)
  /\ UNCHANGED <<up, activeTargets, cursors, serverVars, activeFaults, disturbed>>

(* ingest(): a queued tuple is a duplicate at once; any other is looked up.*)
Send(r) ==
  /\ \/ Step(r, "sending") /\ job[r].next =< Len(job[r].plan)
                           /\ ~ Event(r).delayed
     \/ Step(r, "sleeping")
  /\ IF ~ Queued(Event(r))
     THEN /\ Move(r, "looking", job[r].next)
          /\ UNCHANGED <<up, activeTargets, buffer, inserted>>
     ELSE IF Event(r).expected = "duplicate"
     THEN /\ Move(r, "sending", job[r].next + 1)
          /\ UNCHANGED <<up, activeTargets, buffer, inserted>>
     ELSE Die
  /\ UNCHANGED <<cursors, telemetry, applied, activeFaults, disturbed>>

(* The lookup is back and admit() answers: the expected answer takes the   *)
(* run to its next event, any other ends the process.                      *)
Answer(r) ==
  /\ Step(r, "looking")
  /\ LET e == Event(r) IN
     IF Verdict(e) = e.expected
     THEN /\ Move(r, "sending", job[r].next + 1)
          /\ buffer' = IF Verdict(e) = "accepted" THEN Append(buffer, StreamTuple(e))
                                                  ELSE buffer
          /\ UNCHANGED <<up, activeTargets, cursors, inserted, telemetry, applied,
                         activeFaults, disturbed>>
     ELSE Die

(* The lookup throws, or the buffer is full.                               *)
AdmissionThrows == (\E r \in Request : Step(r, "looking")) /\ Die
-----------------------------------------------------------------------------
(* The rest of the pipeline, and everything that is not a simulation.      *)

Insert ==
  /\ up /\ buffer # <<>> /\ ~ inserted
  /\ inserted' = TRUE
  /\ telemetry' = telemetry \cup {Head(buffer)}
  /\ UNCHANGED <<up, activeTargets, cursors, job, buffer, applied, activeFaults,
                 disturbed>>

Apply ==
  /\ up /\ inserted
  /\ inserted' = FALSE
  /\ buffer' = Tail(buffer)
  /\ applied' = [applied EXCEPT ![Head(buffer).pole] = Head(buffer).at]
  /\ UNCHANGED <<up, activeTargets, cursors, job, telemetry, activeFaults, disturbed>>

Disturb(p) ==
  /\ Cardinality(disturbed) < MaxDisturbed
  /\ disturbed' = disturbed \cup {p}

(* The insert or the update fails: it is logged and the event forgotten.   *)
ProcessingFails ==
  /\ up /\ buffer # <<>>
  /\ inserted' = FALSE
  /\ buffer' = Tail(buffer)
  /\ Disturb(Head(buffer).pole)
  /\ UNCHANGED <<up, activeTargets, cursors, job, telemetry, applied, activeFaults>>

(* A real device, or any client, sends the next event of a stream.         *)
DeviceReports ==
  /\ up
  /\ \E p \in Device :
       LET at == Ahead(ProducerCursor(StreamCursor(p)), 1) IN
       /\ at.seq =< MaxSeq[p]
       /\ [pole |-> p, at |-> at] \notin telemetry
       /\ buffer' = Append(buffer, [pole |-> p, at |-> at])
       /\ Disturb(p)
  /\ UNCHANGED <<up, activeTargets, cursors, job, inserted, telemetry, applied,
                 activeFaults>>

FaultResolves ==
  /\ \E f \in activeFaults : activeFaults' = activeFaults \ {f}
  /\ UNCHANGED <<up, activeTargets, cursors, job, serverVars, disturbed>>

Crash == Die

(* Startup: the producer's cursors are those of pole_states, which a row   *)
(* of telemetry_events may be ahead of.                                    *)
Restart ==
  /\ ~ up
  /\ up' = TRUE
  /\ cursors' = [p \in Pole |-> ProducerCursor(applied[p])]
  /\ disturbed' = {p \in Pole : \E t \in telemetry :
                     t.pole = p /\ Before(applied[p], t.at)}
  /\ UNCHANGED <<activeTargets, job, serverVars, activeFaults>>
-----------------------------------------------------------------------------
RunStep(r) == Complete(r) \/ Sleep(r) \/ Send(r) \/ Answer(r)

RequestStep(r) == InjectFault(r) \/ FindFault(r) \/ InjectNoise(r)

RepairStep(r) == RepairFault(r) \/ RefuseRepair(r)

Next ==
  \/ \E r \in Request : RequestStep(r) \/ RepairStep(r) \/ RunStep(r)
  \/ AdmissionThrows
  \/ Insert \/ Apply \/ ProcessingFails
  \/ DeviceReports \/ FaultResolves
  \/ Crash \/ Restart

Spec == Init /\ [][Next]_vars
-----------------------------------------------------------------------------
(* Every event a run sends names a pole with a device and a position in    *)
(* its stream: the business checks of admission never reject a simulation. *)
TypeOK ==
  /\ up \in BOOLEAN /\ inserted \in BOOLEAN
  /\ cursors \in [Pole -> Position]
  /\ applied \in [Pole -> Cursor]
  /\ \A r \in Request :
       /\ job[r].phase \in {"idle", "asked", "resolved", "sending", "sleeping",
                            "looking"}
       /\ \A i \in DOMAIN job[r].plan : job[r].plan[i] \in Generated
  /\ Range(buffer) \cup telemetry \subseteq [pole : Device, at : Position]
  /\ activeFaults \subseteq Fault
  /\ disturbed \subseteq Pole
  /\ inserted => buffer # <<>>

(* A claim is held by exactly one run that still has telemetry to admit,   *)
(* and every such run holds its claim: no claim outlives its run and       *)
(* refuses requests for ever, and no two runs have the same key, even when *)
(* two repairs of a fault have both read it as active.  (Keys are of what  *)
(* was requested: noise without a pole and noise of the default pole have  *)
(* two, and share the pole.)                                               *)
ClaimsAreExact ==
  /\ activeTargets = {job[r].key : r \in {s \in Request : Running(s)}}
  /\ \A r, s \in Request :
       Running(r) /\ Running(s) /\ job[r].key = job[s].key => r = s

(* The position of event i of run r, among those that should be accepted.  *)
Planned(r) == {i \in DOMAIN job[r].plan : job[r].plan[i].expected = "accepted"}

(* Runs that overlap on a pole never plan the same tuple for it, and each  *)
(* plans its own events in the order of the stream: the producer gives     *)
(* every accepted event of the process a position of its own.              *)
PlansAreFresh ==
  \A r, s \in Request : \A i \in Planned(r), j \in Planned(s) :
    LET d == job[r].plan[i]
        e == job[s].plan[j]
    IN  d.pole = e.pole =>
          IF r = s THEN i < j => Before(d.at, e.at) ELSE d.at # e.at

(* Whether a later plan has taken positions of pole p after r's.           *)
Overtaken(r, p) ==
  \A i \in DOMAIN job[r].plan :
    job[r].plan[i].pole = p => job[r].plan[i].at # cursors[p]

(* A simulation kills the server only with help: the answer to an event is *)
(* the one the plan expects, unless a simulation with another claim has    *)
(* planned for the same pole since, a device has reported, the pipeline    *)
(* has dropped an event, or the process started on a row that pole_states  *)
(* does not know.                                                          *)
RefusalNeedsAnother ==
  \A r \in Request : job[r].phase = "looking" =>
    LET e == Event(r) IN
    \/ Verdict(e) = e.expected
    \/ Overtaken(r, e.pole)
    \/ e.pole \in disturbed
=============================================================================
