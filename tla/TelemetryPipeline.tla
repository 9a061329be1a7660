------------------------- MODULE TelemetryPipeline -------------------------
(***************************************************************************)
(* Telemetry admission and durable processing: IngestTelemetry, the        *)
(* EventPipeline, the PoleStateService it drives, and the two tables they  *)
(* write (telemetry_events and pole_states).                               *)
(*                                                                         *)
(* The server is one Node.js process: code between two awaits runs without *)
(* interruption, and anything may run at an await.  Every action below is  *)
(* one such uninterrupted piece, or the moment the database executes a     *)
(* statement that a piece is waiting for.                                  *)
(***************************************************************************)
EXTENDS PoleEvents, Sequences, FiniteSets

CONSTANTS
  Pole,       \* the registered poles
  DeviceOf,   \* the device of a pole, or NoDevice
  NoDevice,
  Event,      \* the telemetry events that clients send
  NoEvent,
  Batch,      \* the request bodies that clients send, each a list of events
  Request,    \* the HTTP requests that can be in progress at once
  Drainer,    \* the invocations of drain() that can be alive at once
  Capacity,   \* BUFFER_CAPACITY
  Faults      \* which of the Fault outcomes the environment may produce

(* rollback: a statement fails and changes nothing.  ackLost: a statement  *)
(* takes effect but the client sees an error.  crash: the process dies.    *)
Fault == {"rollback", "ackLost", "crash"}

ASSUME EventAssumption ==
  /\ \A e \in Event : /\ PositionOf(e) \in Position
                      /\ e.kind \in EventKind
                      /\ e.device # NoDevice
  /\ NoEvent \notin Event
ASSUME BatchAssumption == Batch \subseteq Seq(Event)
ASSUME RequestAssumption == IsFiniteSet(Request) /\ Request # {}
ASSUME CapacityAssumption == Capacity \in Nat
(* A device is mounted on one pole: so the seed data has it.               *)
ASSUME DeviceAssumption ==
  \A p, q \in Pole : DeviceOf[p] = DeviceOf[q] /\ DeviceOf[p] # NoDevice => p = q
ASSUME FaultsAssumption == Faults \subseteq Fault

VARIABLES
  up,              \* whether the server process is running
  todo,            \* todo[r]: the events of request r not yet admitted
  stage,           \* stage[r]: where the admit() of Head(todo[r]) is
  answer,          \* answer[r]: the latest admission result of request r
  buffer,          \* the queued telemetry, oldest first
  admittedTuples,  \* the tuples queued or in process
  pendingCursors,  \* the cursor of the newest queued event of a pole
  draining,        \* the flag that keeps drain() from overlapping
  phase,           \* phase[d]: where invocation d of drain() is
  current,         \* current[d]: the event invocation d is processing
  next,            \* next[d]: the pole state applyEvent is persisting
  cache,           \* PoleStateService's in-memory pole states
  telemetry,       \* the tuples of the rows of telemetry_events
  poleStates       \* the rows of pole_states

requestVars == <<todo, stage, answer>>
queueVars   == <<buffer, admittedTuples, pendingCursors>>
drainVars   == <<draining, phase, current, next>>
storeVars   == <<telemetry, poleStates>>
vars == <<up, requestVars, queueVars, drainVars, cache, storeVars>>

Answer == {"none", "accepted", "duplicate", "stale", "businessRejected",
           "bufferFull", "error"}

(* idle: not processing; insert and update: a statement is under way;      *)
(* stored, conflict, updated and failed: how it came back.                 *)
Phase == {"idle", "loop", "insert", "stored", "conflict", "update", "updated",
          "failed"}

Tuple(e) == <<e.device, e.bootCounter, e.seq>>

InProcess(d) == phase[d] \notin {"idle", "loop"}
-----------------------------------------------------------------------------
Init ==
  /\ up = TRUE
  /\ todo = [r \in Request |-> <<>>]
  /\ stage = [r \in Request |-> "admit"]
  /\ answer = [r \in Request |-> "none"]
  /\ buffer = <<>>
  /\ admittedTuples = {}
  /\ pendingCursors = [p \in Pole |-> NoPosition]
  /\ draining = FALSE
  /\ phase = [d \in Drainer |-> "idle"]
  /\ current = [d \in Drainer |-> NoEvent]
  /\ next = [d \in Drainer |-> SeededState]
  /\ cache = [p \in Pole |-> SeededState]
  /\ telemetry = {}
  /\ poleStates = [p \in Pole |-> SeededState]
-----------------------------------------------------------------------------
(* Admission: one admit() per event of the request, one after the other.   *)

ValidateBusinessRules(e) == e.pole \in Pole /\ DeviceOf[e.pole] = e.device

(* pendingCursors.get(pole) ?? the cursor of the cached pole state         *)
StreamCursor(p) ==
  IF pendingCursors[p] # NoPosition THEN pendingCursors[p] ELSE cache[p].cursor

IsStale(e) == ~Before(StreamCursor(e.pole), PositionOf(e))

BufferFullOffByOne == Len(buffer) > Capacity
BufferFull == Len(buffer) >= Capacity

(* A client sends a request; a device that got no answer sends it again.   *)
Submit(r, b) ==
  /\ up
  /\ todo[r] = <<>>
  /\ b # <<>>
  /\ todo' = [todo EXCEPT ![r] = b]
  /\ answer' = [answer EXCEPT ![r] = "none"]
  /\ UNCHANGED <<up, stage, queueVars, drainVars, cache, storeVars>>

ReturnToSameEvent(r, s) ==
  /\ stage' = [stage EXCEPT ![r] = "admit"]
  /\ answer' = [answer EXCEPT ![r] = s]
  /\ UNCHANGED todo

(* admit() returns s: the batch loop goes on to the next event.            *)
Return(r, s) ==
  /\ todo' = [todo EXCEPT ![r] = Tail(@)]
  /\ stage' = [stage EXCEPT ![r] = "admit"]
  /\ answer' = [answer EXCEPT ![r] = s]

(* admit() throws: the events left in the batch are never looked at.       *)
Throw(r, s) ==
  /\ todo' = [todo EXCEPT ![r] = <<>>]
  /\ stage' = [stage EXCEPT ![r] = "admit"]
  /\ answer' = [answer EXCEPT ![r] = s]

Admitting(r, at) == todo[r] # <<>> /\ stage[r] = at

(* The part of admit() before its await.                                   *)
BeginAdmit(r) ==
  /\ Admitting(r, "admit")
  /\ LET e == Head(todo[r])
     IN  \/ ~ValidateBusinessRules(e) /\ Return(r, "businessRejected")
         \/ /\ ValidateBusinessRules(e)
            /\ BufferFull
            /\ Throw(r, "bufferFull")
         \/ /\ ValidateBusinessRules(e)
            /\ ~BufferFull
            /\ Tuple(e) \in admittedTuples
            /\ Return(r, "duplicate")
         \/ /\ ValidateBusinessRules(e)
            /\ ~BufferFull
            /\ Tuple(e) \notin admittedTuples
            /\ stage' = [stage EXCEPT ![r] = "lookup"]
            /\ UNCHANGED <<todo, answer>>
  /\ UNCHANGED <<up, queueVars, drainVars, cache, storeVars>>

(* The database evaluates findTelemetryEventByTuple.                       *)
FindTelemetryEvent(r) ==
  /\ Admitting(r, "lookup")
  /\ \/ /\ stage' = [stage EXCEPT ![r] =
              IF Tuple(Head(todo[r])) \in telemetry THEN "found" ELSE "absent"]
        /\ UNCHANGED <<todo, answer>>
     \/ Faults \cap {"rollback", "ackLost"} # {} /\ Throw(r, "error")
  /\ UNCHANGED <<up, queueVars, drainVars, cache, storeVars>>

AnswerFound(r) ==
  /\ Admitting(r, "found")
  /\ Return(r, "duplicate")
  /\ UNCHANGED <<up, queueVars, drainVars, cache, storeVars>>

AnswerStale(r) ==
  /\ Admitting(r, "absent")
  /\ IsStale(Head(todo[r]))
  /\ Return(r, "stale")
  /\ UNCHANGED <<up, queueVars, drainVars, cache, storeVars>>

LeavePendingCursor(e) == pendingCursors
SetPendingToEvent(e) == [pendingCursors EXCEPT ![e.pole] = e]
SetPendingCursor(e) == [pendingCursors EXCEPT ![e.pole] = PositionOf(e)]

Accept(r) ==
  /\ Admitting(r, "absent")
  /\ LET e == Head(todo[r])
     IN  /\ ~IsStale(e)
         /\ admittedTuples' = admittedTuples \cup {Tuple(e)}
         /\ pendingCursors' = SetPendingCursor(e)
         /\ buffer' = Append(buffer, e)
  /\ Return(r, "accepted")
  /\ UNCHANGED <<up, drainVars, cache, storeVars>>
-----------------------------------------------------------------------------
(* Draining: the 50 ms timer starts drain(); one invocation works at once. *)

(* buffer.shift(), and the insert statement is sent.                       *)
ShiftInto(d) ==
  /\ buffer # <<>>
  /\ buffer' = Tail(buffer)
  /\ current' = [current EXCEPT ![d] = Head(buffer)]
  /\ phase' = [phase EXCEPT ![d] = "insert"]

MayDrainAlways == TRUE
MayDrain == ~draining

(* A timer tick; one that finds the buffer empty leaves no trace.          *)
StartDrain(d) ==
  /\ up
  /\ phase[d] = "idle"
  /\ MayDrain
  /\ draining' = TRUE
  /\ ShiftInto(d)
  /\ UNCHANGED <<up, requestVars, admittedTuples, pendingCursors, next, cache,
                 storeVars>>

ContinueDrain(d) ==
  /\ phase[d] = "loop"
  /\ ShiftInto(d)
  /\ UNCHANGED <<up, requestVars, admittedTuples, pendingCursors, draining,
                 next, cache, storeVars>>

EndDrainStillDraining(d) ==
  /\ phase[d] = "loop"
  /\ buffer = <<>>
  /\ phase' = [phase EXCEPT ![d] = "idle"]
  /\ UNCHANGED <<up, requestVars, queueVars, draining, current, next, cache,
                 storeVars>>

EndDrain(d) ==
  /\ phase[d] = "loop"
  /\ buffer = <<>>
  /\ draining' = FALSE
  /\ phase' = [phase EXCEPT ![d] = "idle"]
  /\ UNCHANGED <<up, requestVars, queueVars, current, next, cache, storeVars>>

(* The database executes the insert, or fails it.                          *)
InsertTelemetryEvent(d) ==
  /\ phase[d] = "insert"
  /\ LET t == Tuple(current[d])
     IN  \/ /\ t \in telemetry
            /\ phase' = [phase EXCEPT ![d] = "conflict"]
            /\ UNCHANGED telemetry
         \/ /\ t \notin telemetry
            /\ phase' = [phase EXCEPT ![d] = "stored"]
            /\ telemetry' = telemetry \cup {t}
         \/ /\ phase' = [phase EXCEPT ![d] = "failed"]
            /\ \/ "rollback" \in Faults /\ UNCHANGED telemetry
               \/ "ackLost" \in Faults /\ telemetry' = telemetry \cup {t}
  /\ UNCHANGED <<up, requestVars, queueVars, draining, current, next, cache,
                 poleStates>>

ClearPendingCursor(e) == [pendingCursors EXCEPT ![e.pole] = NoPosition]

ClearCompletedPendingCursor(e) ==
  IF pendingCursors[e.pole] = PositionOf(e)
    THEN [pendingCursors EXCEPT ![e.pole] = NoPosition]
    ELSE pendingCursors

FinishKeepingTuple(d) ==
  /\ pendingCursors' = ClearCompletedPendingCursor(current[d])
  /\ phase' = [phase EXCEPT ![d] = "loop"]
  /\ current' = [current EXCEPT ![d] = NoEvent]
  /\ next' = [next EXCEPT ![d] = SeededState]
  /\ UNCHANGED admittedTuples

(* The finally block of process().                                         *)
Finish(d) ==
  /\ admittedTuples' = admittedTuples \ {Tuple(current[d])}
  /\ pendingCursors' = ClearCompletedPendingCursor(current[d])
  /\ phase' = [phase EXCEPT ![d] = "loop"]
  /\ current' = [current EXCEPT ![d] = NoEvent]
  /\ next' = [next EXCEPT ![d] = SeededState]

(* The event is not applied: conflicting row, or a failed statement.       *)
Abandon(d) ==
  /\ phase[d] \in {"conflict", "failed"}
  /\ Finish(d)
  /\ UNCHANGED <<up, requestVars, buffer, draining, cache, storeVars>>

SettledOrNot(d) == phase[d] \in {"insert", "stored"}
Stored(d) == phase[d] = "stored"

(* applyEvent() up to its await; it returns at once when the cache is      *)
(* already at or past the event.                                           *)
BeginApply(d) ==
  /\ Stored(d)
  /\ LET e == current[d]
     IN  IF Before(cache[e.pole].cursor, PositionOf(e))
           THEN /\ next' = [next EXCEPT ![d] =
                              ApplyEventToState(cache[e.pole], e)]
                /\ phase' = [phase EXCEPT ![d] = "update"]
                /\ UNCHANGED <<admittedTuples, pendingCursors, current>>
           ELSE Finish(d)
  /\ UNCHANGED <<up, requestVars, buffer, draining, cache, storeVars>>

(* The database executes the update, or fails it.                          *)
WithNext(d) == [poleStates EXCEPT ![current[d].pole] = next[d]]

UpdatePoleState(d) ==
  /\ phase[d] = "update"
  /\ \/ /\ phase' = [phase EXCEPT ![d] = "updated"]
        /\ poleStates' = WithNext(d)
     \/ /\ phase' = [phase EXCEPT ![d] = "failed"]
        /\ \/ "rollback" \in Faults /\ UNCHANGED poleStates
           \/ "ackLost" \in Faults /\ poleStates' = WithNext(d)
  /\ UNCHANGED <<up, requestVars, queueVars, draining, current, next, cache,
                 telemetry>>

(* applyEvent() after its await: the cache takes the persisted state and   *)
(* the listeners run.                                                      *)
EndApply(d) ==
  /\ phase[d] = "updated"
  /\ cache' = [cache EXCEPT ![current[d].pole] = next[d]]
  /\ Finish(d)
  /\ UNCHANGED <<up, requestVars, buffer, draining, storeVars>>
-----------------------------------------------------------------------------
(* The process dies: everything but the tables is gone.                    *)
Crash ==
  /\ up
  /\ "crash" \in Faults
  /\ up' = FALSE
  /\ todo' = [r \in Request |-> <<>>]
  /\ stage' = [r \in Request |-> "admit"]
  /\ answer' = [r \in Request |-> "none"]
  /\ buffer' = <<>>
  /\ admittedTuples' = {}
  /\ pendingCursors' = [p \in Pole |-> NoPosition]
  /\ draining' = FALSE
  /\ phase' = [d \in Drainer |-> "idle"]
  /\ current' = [d \in Drainer |-> NoEvent]
  /\ next' = [d \in Drainer |-> SeededState]
  /\ UNCHANGED <<cache, storeVars>>

RestartFromMemory ==
  /\ ~up
  /\ up' = TRUE
  /\ UNCHANGED <<requestVars, queueVars, drainVars, cache, storeVars>>

(* rebuildCache() runs before the server listens.                          *)
Restart ==
  /\ ~up
  /\ up' = TRUE
  /\ cache' = poleStates
  /\ UNCHANGED <<requestVars, queueVars, drainVars, storeVars>>
-----------------------------------------------------------------------------
AdmitStep(r) ==
  \/ BeginAdmit(r)
  \/ FindTelemetryEvent(r)
  \/ AnswerFound(r)
  \/ AnswerStale(r)
  \/ Accept(r)

DrainStep(d) ==
  \/ StartDrain(d)
  \/ ContinueDrain(d)
  \/ EndDrain(d)
  \/ InsertTelemetryEvent(d)
  \/ Abandon(d)
  \/ BeginApply(d)
  \/ UpdatePoleState(d)
  \/ EndApply(d)

Next ==
  \/ \E r \in Request : \/ \E b \in Batch : Submit(r, b)
                        \/ AdmitStep(r)
  \/ \E d \in Drainer : DrainStep(d)
  \/ Crash
  \/ Restart

Spec == Init /\ [][Next]_vars

(* The event loop runs every callback that is due, the timer keeps firing, *)
(* and the database settles every statement, one way or the other.         *)
(* Nothing makes a client send a request or the process die.               *)
Fairness ==
  /\ \A r \in Request : WF_vars(AdmitStep(r))
  /\ WF_vars(\E d \in Drainer : DrainStep(d))

FairSpec == Spec /\ Fairness
-----------------------------------------------------------------------------
TypeOK ==
  /\ up \in BOOLEAN
  /\ todo \in [Request -> Seq(Event)]
  /\ stage \in [Request -> {"admit", "lookup", "found", "absent"}]
  /\ answer \in [Request -> Answer]
  /\ buffer \in Seq(Event)
  /\ admittedTuples \subseteq {Tuple(e) : e \in Event}
  /\ pendingCursors \in [Pole -> Cursor]
  /\ draining \in BOOLEAN
  /\ phase \in [Drainer -> Phase]
  /\ current \in [Drainer -> Event \cup {NoEvent}]
  /\ next \in [Drainer -> PoleState]
  /\ cache \in [Pole -> PoleState]
  /\ telemetry \subseteq {Tuple(e) : e \in Event}
  /\ poleStates \in [Pole -> PoleState]
-----------------------------------------------------------------------------
(* Events accepted and not yet finished, in the order they are processed:  *)
(* the one in process, if any, then the queued ones.                       *)
Queued == {buffer[i] : i \in DOMAIN buffer}
Current == {current[d] : d \in {x \in Drainer : InProcess(x)}}
InFlight == Queued \cup Current

(* drain() is not reentrant: at most one invocation is past its guard, and *)
(* it is the one that holds the draining flag.                             *)
OneDrainAtATime ==
  /\ \A d1, d2 \in Drainer :
       phase[d1] # "idle" /\ phase[d2] # "idle" => d1 = d2
  /\ draining <=> \E d \in Drainer : phase[d] # "idle"

(* DECISIONS.md D-021: pending ordering cursors exist only while events    *)
(* remain queued and are removed after the final queued tuple completes.   *)
(* Exactly: the pending cursor of a pole is the newest position of the     *)
(* pole's events in flight, and there is none when nothing is in flight.   *)
PendingCursorIsNewestInFlight ==
  \A p \in Pole :
    LET mine == {PositionOf(e) : e \in {x \in InFlight : x.pole = p}}
    IN  IF pendingCursors[p] = NoPosition
          THEN mine = {}
          ELSE /\ pendingCursors[p] \in mine
               /\ \A q \in mine : ~Before(pendingCursors[p], q)

(* The in-memory duplicate filter holds the tuples in flight, neither more *)
(* (a tuple left behind would answer "duplicate" for ever to an event that *)
(* was dropped) nor less.                                                  *)
FilterMatchesQueue == admittedTuples = {Tuple(e) : e \in InFlight}

(* Per pole, events are queued in strictly increasing stream order, behind *)
(* the event in process, and all of them are newer than the cached state;  *)
(* so the early return of applyEvent for old events is never taken.        *)
StreamOrder ==
  /\ \A i, j \in DOMAIN buffer :
       i < j /\ buffer[i].pole = buffer[j].pole =>
         Before(PositionOf(buffer[i]), PositionOf(buffer[j]))
  /\ \A c \in Current : \A e \in Queued :
       c.pole = e.pole => Before(PositionOf(c), PositionOf(e))
  /\ \A e \in InFlight : Before(cache[e.pole].cursor, PositionOf(e))

(* While the server runs, the cache equals the table, except for the pole  *)
(* whose update the database has executed and Node has not seen yet.       *)
CacheMirrorsStore ==
  up => \A p \in Pole :
          \/ cache[p] = poleStates[p]
          \/ \E d \in Drainer : /\ phase[d] = "updated"
                               /\ current[d].pole = p
                               /\ next[d] = poleStates[p]

(* A pole state is never ahead of the telemetry log: the position it is at *)
(* is that of a stored row of the pole's device.                           *)
StateIsBackedByTelemetry ==
  \A p \in Pole :
    LET c == poleStates[p].cursor
    IN  c # NoPosition => <<DeviceOf[p], c.bootCounter, c.seq>> \in telemetry

(* admit() checks the capacity before its await and pushes after it, so    *)
(* the buffer can outgrow BUFFER_CAPACITY, by at most one event for each   *)
(* other request that is between the check and the push.                   *)
PastCapacityCheck ==
  {r \in Request : todo[r] # <<>> /\ stage[r] # "admit"}

OvershootIsBounded ==
  Len(buffer) + Cardinality(PastCapacityCheck)
    <= Capacity + Cardinality(Request) - 1

(* Stream cursors only advance, in the table and in the cache, through     *)
(* retries, reordered events, failures, crashes and restarts: no event is  *)
(* applied twice, and none after a newer one.                              *)
Advances(old, new) ==
  \A p \in Pole : new[p] = old[p] \/ Before(old[p].cursor, new[p].cursor)

CursorsOnlyAdvance ==
  [][Advances(poleStates, poleStates') /\ Advances(cache, cache')]_vars

(* The two tables behave as PoleStream promises: write-ahead, at most once *)
(* and in stream order per pole.  A statement whose acknowledgement is     *)
(* lost breaks the promise, so this holds for Faults without ackLost.      *)
Promise == INSTANCE PoleStream WITH log <- telemetry, state <- poleStates

ImplementsPoleStream == Promise!Spec

(* Every accepted event leaves the pipeline, and every request is answered *)
QueueDrains ==
  \A e \in Event : Tuple(e) \in admittedTuples ~> Tuple(e) \notin admittedTuples

RequestsComplete == \A r \in Request : todo[r] # <<>> ~> todo[r] = <<>>

(* An accepted event, or a newer one of its pole, reaches the pole's row,  *)
(* unless one of its statements fails, its row is there already from a     *)
(* copy whose update failed, or the process dies.                          *)
Failed(e) == \E d \in Drainer : current[d] = e /\ phase[d] \in {"failed", "conflict"}

AcceptedIsApplied ==
  \A e \in Event :
    e \in Queued ~> \/ ~Before(poleStates[e.pole].cursor, PositionOf(e))
                   \/ Failed(e)
                   \/ ~up
=============================================================================
