---------------------- MODULE TelemetryPipelineProofs ----------------------
(***************************************************************************)
(* Theorems about TelemetryPipeline, for any number of poles, devices,     *)
(* requests and events, any capacity and, except where a theorem says      *)
(* otherwise, any combination of faults.                                   *)
(***************************************************************************)
EXTENDS TelemetryPipeline, FiniteSetTheorems, TLAPS

(* What every lemma may use of the constants and of the event vocabulary.  *)
USE EventAssumption, BatchAssumption

-----------------------------------------------------------------------------
(* Lemmas about stream positions and pole states.                          *)

(* Before is a strict order on cursors, total, with NoPosition below every *)
(* position.                                                               *)
LEMMA BeforeOrder ==
  ASSUME NEW a \in Cursor, NEW b \in Cursor, NEW c \in Cursor
  PROVE  /\ ~Before(a, a)
         /\ Before(a, b) => ~Before(b, a)
         /\ Before(a, b) /\ Before(b, c) => Before(a, c)
         /\ a = b \/ Before(a, b) \/ Before(b, a)
         /\ a \in Position => Before(NoPosition, a)
         /\ a \in Position => a # NoPosition
BY DEF Before, Cursor, Position, NoPosition

(* Applying an event to a pole state gives a pole state.                   *)
LEMMA ApplyEventType ==
  ASSUME NEW s \in PoleState, NEW e \in Event
  PROVE  ApplyEventToState(s, e) \in PoleState
BY DEF ApplyEventToState, PoleState, EnergizedFor, Energized, EventKind,
       Cursor

LEMMA SeededStateType == SeededState \in PoleState /\ NoPosition \in Cursor
BY DEF SeededState, PoleState, Energized, Cursor

-----------------------------------------------------------------------------
(* Type correctness.  TypeOK is inductive together with the fact that no   *)
(* event gets past the business rules unchecked: the state of an event's   *)
(* pole is read only for a registered pole.                                *)

Screened ==
  /\ \A r \in Request : todo[r] = <<>> => stage[r] = "admit"
  /\ \A r \in PastCapacityCheck : ValidateBusinessRules(Head(todo[r]))
  /\ \A i \in DOMAIN buffer : ValidateBusinessRules(buffer[i])
  /\ \A d \in Drainer :
       InProcess(d) => current[d] \in Event /\ ValidateBusinessRules(current[d])

TypeInv == TypeOK /\ Screened

LEMMA InitTypeInv == Init => TypeInv
<1>. SUFFICES ASSUME Init PROVE TypeInv
  OBVIOUS
<1>1. <<>> \in Seq(Event)
  OBVIOUS
<1>2. TypeOK
  BY <1>1, SeededStateType DEF Init, TypeOK, Answer, Phase
<1>3. Screened
  BY DEF Init, Screened, PastCapacityCheck, InProcess
<1>. QED
  BY <1>2, <1>3 DEF TypeInv

(* Answering an event, by returning or by throwing, keeps the types of     *)
(* what a request has left, where it stands and what it was told.          *)
LEMMA AnsweringType ==
  ASSUME NEW r \in Request, NEW s \in Answer,
         todo \in [Request -> Seq(Event)],
         stage \in [Request -> {"admit", "lookup", "found", "absent"}],
         answer \in [Request -> Answer],
         todo[r] # <<>>,
         Return(r, s) \/ Throw(r, s)
  PROVE  /\ todo' \in [Request -> Seq(Event)]
         /\ stage' \in [Request -> {"admit", "lookup", "found", "absent"}]
         /\ answer' \in [Request -> Answer]
<1>1. todo[r] \in Seq(Event)
  OBVIOUS
<1>2. Tail(todo[r]) \in Seq(Event) /\ <<>> \in Seq(Event)
  BY <1>1
<1>3. CASE Return(r, s)
  BY <1>2, <1>3 DEF Return
<1>4. CASE Throw(r, s)
  BY <1>2, <1>4 DEF Throw
<1>. QED
  BY <1>3, <1>4

LEMMA TypeStep == TypeInv /\ [Next]_vars => TypeInv'
<1> SUFFICES ASSUME TypeInv, [Next]_vars PROVE TypeInv'
  OBVIOUS
<1> USE DEF TypeInv, TypeOK, Screened, PastCapacityCheck, InProcess,
            ValidateBusinessRules, Answer, Phase, requestVars, queueVars,
            drainVars, storeVars
<1>1. ASSUME NEW r \in Request, NEW b \in Batch, Submit(r, b)
      PROVE  TypeInv'
  <2>1. b \in Seq(Event) /\ b # <<>>
    BY <1>1 DEF Submit
  <2>2. TypeOK'
    BY <1>1, <2>1 DEF Submit
  <2>3. Screened'
    <3>1. PastCapacityCheck' \subseteq PastCapacityCheck
      BY <1>1 DEF Submit
    <3>. QED
      BY <1>1, <3>1 DEF Submit
  <2>. QED
    BY <2>2, <2>3
<1>2. ASSUME NEW r \in Request, BeginAdmit(r) PROVE TypeInv'
  <2>1. todo[r] \in Seq(Event) /\ todo[r] # <<>>
    BY <1>2 DEF BeginAdmit, Admitting
  <2>2. Tail(todo[r]) \in Seq(Event) /\ <<>> \in Seq(Event)
    BY <2>1
  <2>3. TypeOK'
    <3>1. /\ \/ \E s \in Answer : Return(r, s) \/ Throw(r, s)
             \/ stage' = [stage EXCEPT ![r] = "lookup"] /\ UNCHANGED <<todo, answer>>
          /\ UNCHANGED <<up, queueVars, drainVars, cache, storeVars>>
      BY <1>2 DEF BeginAdmit
    <3>2. CASE \E s \in Answer : Return(r, s) \/ Throw(r, s)
      <4>1. /\ todo' \in [Request -> Seq(Event)]
            /\ stage' \in [Request -> {"admit", "lookup", "found", "absent"}]
            /\ answer' \in [Request -> Answer]
        BY <2>1, <3>2, AnsweringType
      <4>. QED
        BY <3>1, <4>1
    <3>3. CASE stage' = [stage EXCEPT ![r] = "lookup"] /\ UNCHANGED <<todo, answer>>
      BY <3>1, <3>3
    <3>. QED
      BY <3>1, <3>2, <3>3
  <2>4. Screened'
    BY <1>2, <2>1 DEF BeginAdmit, Return, Throw
  <2>. QED
    BY <2>3, <2>4
<1>3. ASSUME NEW r \in Request, FindTelemetryEvent(r) PROVE TypeInv'
  <2>1. TypeOK'
    <3>1. <<>> \in Seq(Event)
      OBVIOUS
    <3>2. /\ todo' \in [Request -> Seq(Event)]
          /\ stage' \in [Request -> {"admit", "lookup", "found", "absent"}]
          /\ answer' \in [Request -> Answer]
      BY <1>3, <3>1 DEF FindTelemetryEvent, Throw
    <3>. QED
      BY <1>3, <3>2 DEF FindTelemetryEvent
  <2>2. Screened'
    BY <1>3 DEF FindTelemetryEvent, Admitting, Throw
  <2>. QED
    BY <2>1, <2>2
<1>4. ASSUME NEW r \in Request, AnswerFound(r) PROVE TypeInv'
  BY <1>4 DEF AnswerFound, Admitting, Return
<1>5. ASSUME NEW r \in Request, AnswerStale(r) PROVE TypeInv'
  BY <1>5 DEF AnswerStale, Admitting, Return
<1>6. ASSUME NEW r \in Request, Accept(r) PROVE TypeInv'
  BY <1>6 DEF Accept, Admitting, Return, SetPendingCursor, Cursor
<1>7. ASSUME NEW d \in Drainer, StartDrain(d) PROVE TypeInv'
  BY <1>7 DEF StartDrain, ShiftInto
<1>8. ASSUME NEW d \in Drainer, ContinueDrain(d) PROVE TypeInv'
  BY <1>8 DEF ContinueDrain, ShiftInto
<1>9. ASSUME NEW d \in Drainer, EndDrain(d) PROVE TypeInv'
  BY <1>9 DEF EndDrain
<1>10. ASSUME NEW d \in Drainer, InsertTelemetryEvent(d) PROVE TypeInv'
  <2>1. TypeOK'
    <3>1. Tuple(current[d]) \in {Tuple(e) : e \in Event}
      BY <1>10 DEF InsertTelemetryEvent
    <3>. QED
      BY <1>10, <3>1 DEF InsertTelemetryEvent
  <2>2. Screened'
    BY <1>10 DEF InsertTelemetryEvent
  <2>. QED
    BY <2>1, <2>2
<1>11. ASSUME NEW d \in Drainer, Abandon(d) PROVE TypeInv'
  BY <1>11, SeededStateType
     DEF Abandon, Finish, ClearCompletedPendingCursor
<1>12. ASSUME NEW d \in Drainer, BeginApply(d) PROVE TypeInv'
  <2>1. /\ current[d] \in Event
        /\ current[d].pole \in Pole
    BY <1>12 DEF BeginApply, Stored
  <2>2. ApplyEventToState(cache[current[d].pole], current[d]) \in PoleState
    BY <2>1, ApplyEventType
  <2>3. TypeOK'
    <3>1. CASE Before(cache[current[d].pole].cursor, PositionOf(current[d]))
      BY <1>12, <2>2, <3>1 DEF BeginApply, Stored
    <3>2. CASE ~Before(cache[current[d].pole].cursor, PositionOf(current[d]))
      BY <1>12, <3>2, SeededStateType
         DEF BeginApply, Finish, ClearCompletedPendingCursor
    <3>. QED
      BY <3>1, <3>2
  <2>4. Screened'
    BY <1>12 DEF BeginApply, Stored, Finish
  <2>. QED
    BY <2>3, <2>4
<1>13. ASSUME NEW d \in Drainer, UpdatePoleState(d) PROVE TypeInv'
  <2>1. TypeOK'
    <3>1. WithNext(d) \in [Pole -> PoleState]
      BY DEF WithNext
    <3>2. /\ poleStates' \in [Pole -> PoleState]
          /\ phase' \in [Drainer -> Phase]
      BY <1>13, <3>1 DEF UpdatePoleState
    <3>. QED
      BY <1>13, <3>2 DEF UpdatePoleState
  <2>2. Screened'
    BY <1>13 DEF UpdatePoleState
  <2>. QED
    BY <2>1, <2>2
<1>14. ASSUME NEW d \in Drainer, EndApply(d) PROVE TypeInv'
  BY <1>14, SeededStateType
     DEF EndApply, Finish, ClearCompletedPendingCursor
<1>15. CASE Crash
  <2>1. TypeOK'
    <3>1. <<>> \in Seq(Event)
      OBVIOUS
    <3>. QED
      BY <1>15, <3>1, SeededStateType DEF Crash
  <2>2. Screened'
    BY <1>15 DEF Crash
  <2>. QED
    BY <2>1, <2>2
<1>16. CASE Restart
  BY <1>16 DEF Restart
<1>17. CASE UNCHANGED vars
  BY <1>17 DEF vars
<1>. QED
  BY <1>1, <1>2, <1>3, <1>4, <1>5, <1>6, <1>7, <1>8, <1>9, <1>10, <1>11,
     <1>12, <1>13, <1>14, <1>15, <1>16, <1>17
     DEF Next, AdmitStep, DrainStep

(* Every variable keeps its type, and no unscreened event is ever queued,  *)
(* processed or compared with a cursor.                                    *)
THEOREM TypeCorrect == Spec => []TypeOK
<1>1. TypeInv => TypeOK
  BY DEF TypeInv
<1>. QED
  BY <1>1, InitTypeInv, TypeStep, PTL DEF Spec
-----------------------------------------------------------------------------
(* Mutual exclusion of drain(), and what a crash leaves behind.            *)

EmptyWhenDown ==
  ~up => /\ buffer = <<>>
         /\ admittedTuples = {}
         /\ pendingCursors = [p \in Pole |-> NoPosition]
         /\ \A d \in Drainer : phase[d] = "idle"
         /\ \A r \in Request : todo[r] = <<>>

DrainInv == OneDrainAtATime /\ EmptyWhenDown

LEMMA InitDrainInv == Init => DrainInv
BY DEF Init, DrainInv, OneDrainAtATime, EmptyWhenDown

LEMMA DrainStepInv == TypeInv /\ DrainInv /\ [Next]_vars => DrainInv'
<1> SUFFICES ASSUME TypeInv, DrainInv, [Next]_vars PROVE DrainInv'
  OBVIOUS
<1> USE DEF TypeInv, TypeOK, DrainInv, OneDrainAtATime, EmptyWhenDown,
            requestVars, queueVars, drainVars, storeVars
<1>1. ASSUME NEW r \in Request, NEW b \in Batch, Submit(r, b)
      PROVE  DrainInv'
  BY <1>1 DEF Submit
<1>2. ASSUME NEW r \in Request, AdmitStep(r) PROVE DrainInv'
  <2>1. UNCHANGED <<up, drainVars>> /\ up
    BY <1>2 DEF AdmitStep, BeginAdmit, FindTelemetryEvent, AnswerFound,
                AnswerStale, Accept, Admitting
  <2>. QED
    BY <2>1
<1>3. ASSUME NEW d \in Drainer, StartDrain(d) PROVE DrainInv'
  BY <1>3 DEF StartDrain, ShiftInto, MayDrain
<1>4. ASSUME NEW d \in Drainer, EndDrain(d) PROVE DrainInv'
  BY <1>4 DEF EndDrain
<1>5. ASSUME NEW d \in Drainer,
             \/ ContinueDrain(d) \/ InsertTelemetryEvent(d) \/ Abandon(d)
             \/ BeginApply(d) \/ UpdatePoleState(d) \/ EndApply(d)
      PROVE  DrainInv'
  <2>1. /\ phase[d] # "idle"
        /\ phase'[d] # "idle"
        /\ \A x \in Drainer : x # d => phase'[x] = phase[x]
        /\ UNCHANGED <<up, draining>>
    BY <1>5 DEF ContinueDrain, ShiftInto, InsertTelemetryEvent, Abandon,
                Finish, BeginApply, Stored, UpdatePoleState, EndApply
  <2>. QED
    BY <2>1
<1>6. CASE Crash
  BY <1>6 DEF Crash
<1>7. CASE Restart
  BY <1>7 DEF Restart
<1>8. CASE UNCHANGED vars
  BY <1>8 DEF vars
<1>. QED
  BY <1>1, <1>2, <1>3, <1>4, <1>5, <1>6, <1>7, <1>8 DEF Next, DrainStep

(* The draining flag makes drain() non-reentrant, whatever the timer, the  *)
(* database and crashes do: two invocations never process at once.         *)
THEOREM DrainIsExclusive == Spec => []OneDrainAtATime
<1>1. DrainInv => OneDrainAtATime
  BY DEF DrainInv
<1>. QED
  BY <1>1, InitTypeInv, TypeStep, InitDrainInv, DrainStepInv, PTL DEF Spec
-----------------------------------------------------------------------------
(* The queue.  Every step changes the events in flight in one of four ways:*)
(* one is queued, the oldest moves from the queue into process, the one in *)
(* process leaves, or (a crash) all are gone.                              *)

NothingChanges == UNCHANGED <<buffer, Queued, Current>>

Enqueues(e) ==
  /\ buffer' = Append(buffer, e)
  /\ Queued' = Queued \cup {e}
  /\ Current' = Current

Dequeues ==
  /\ buffer # <<>>
  /\ buffer' = Tail(buffer)
  /\ Current = {}
  /\ Current' = {Head(buffer)}
  /\ Queued = Queued' \cup {Head(buffer)}

Completes(e) ==
  /\ buffer' = buffer
  /\ Queued' = Queued
  /\ Current = {e}
  /\ Current' = {}

LEMMA CurrentIsAlone ==
  ASSUME DrainInv, NEW d \in Drainer, phase[d] # "idle"
  PROVE  Current = IF InProcess(d) THEN {current[d]} ELSE {}
BY DEF DrainInv, OneDrainAtATime, Current, InProcess

LEMMA AcceptEnqueues ==
  ASSUME TypeInv, NEW r \in Request, Accept(r)
  PROVE  Enqueues(Head(todo[r]))
<1>1. Head(todo[r]) \in Event
  BY DEF TypeInv, TypeOK, Accept, Admitting
<1>2. buffer' = Append(buffer, Head(todo[r]))
  BY DEF Accept
<1>3. Queued' = Queued \cup {Head(todo[r])}
  <2>1. /\ Len(buffer') = Len(buffer) + 1
        /\ \A i \in 1 .. Len(buffer) : buffer'[i] = buffer[i]
        /\ buffer'[Len(buffer) + 1] = Head(todo[r])
        /\ Len(buffer) \in Nat
        /\ DOMAIN buffer = 1 .. Len(buffer)
        /\ DOMAIN buffer' = 1 .. Len(buffer')
    BY <1>1, <1>2 DEF TypeInv, TypeOK
  <2>. QED
    BY <2>1 DEF Queued
<1>4. Current' = Current
  BY DEF Accept, drainVars, Current, InProcess
<1>. QED
  BY <1>2, <1>3, <1>4 DEF Enqueues

LEMMA ShiftDequeues ==
  ASSUME TypeInv, DrainInv, DrainInv', NEW d \in Drainer,
         StartDrain(d) \/ ContinueDrain(d)
  PROVE  Dequeues
<1>1. /\ buffer # <<>>
      /\ buffer' = Tail(buffer)
      /\ current' = [current EXCEPT ![d] = Head(buffer)]
      /\ phase' = [phase EXCEPT ![d] = "insert"]
      /\ phase[d] \in {"idle", "loop"}
  BY DEF StartDrain, ContinueDrain, ShiftInto
<1>2. Current = {}
  BY <1>1 DEF StartDrain, ContinueDrain, DrainInv, OneDrainAtATime, Current,
              InProcess, MayDrain
<1>3. Current' = {Head(buffer)}
  BY <1>1 DEF DrainInv, OneDrainAtATime, Current, InProcess, TypeInv, TypeOK
<1>4. Queued = Queued' \cup {Head(buffer)}
  <2>1. /\ Len(buffer') = Len(buffer) - 1
        /\ \A i \in 1 .. Len(buffer') : buffer'[i] = buffer[i + 1]
        /\ Head(buffer) = buffer[1]
        /\ Len(buffer) \in Nat \ {0}
        /\ DOMAIN buffer = 1 .. Len(buffer)
        /\ DOMAIN buffer' = 1 .. Len(buffer')
    BY <1>1 DEF TypeInv, TypeOK
  <2>2. \A i \in 2 .. Len(buffer) : i - 1 \in 1 .. Len(buffer')
    BY <2>1
  <2>3. \A x : x \in Queued => x \in Queued' \cup {Head(buffer)}
    <3>. SUFFICES ASSUME NEW i \in 1 .. Len(buffer), i # 1
                  PROVE  buffer[i] \in Queued'
      BY <2>1 DEF Queued
    <3>1. buffer[i] = buffer'[i - 1]
      BY <2>1, <2>2
    <3>. QED
      BY <2>1, <2>2, <3>1 DEF Queued
  <2>4. \A x : x \in Queued' \cup {Head(buffer)} => x \in Queued
    BY <2>1 DEF Queued
  <2>. QED
    BY <2>3, <2>4
<1>. QED
  BY <1>1, <1>2, <1>3, <1>4 DEF Dequeues

LEMMA FinishCompletes ==
  ASSUME TypeInv, DrainInv, DrainInv', NEW d \in Drainer, InProcess(d),
         Finish(d), UNCHANGED buffer
  PROVE  Completes(current[d])
<1>1. Current = {current[d]}
  BY CurrentIsAlone DEF InProcess
<1>2. phase' = [phase EXCEPT ![d] = "loop"]
  BY DEF Finish
<1>3. Current' = {}
  BY <1>2 DEF DrainInv, OneDrainAtATime, Current, InProcess, TypeInv, TypeOK
<1>. QED
  BY <1>1, <1>3 DEF Completes, Queued
-----------------------------------------------------------------------------
(* The invariant of the queue.                                             *)

(* The state that applyEvent is persisting is the event applied to the     *)
(* cached state, which nothing has changed since applyEvent read it.       *)
NextIsApplied ==
  \A d \in Drainer :
    phase[d] \in {"update", "updated"} =>
      next[d] = ApplyEventToState(cache[current[d].pole], current[d])

QueueInv ==
  /\ StreamOrder
  /\ PendingCursorIsNewestInFlight
  /\ FilterMatchesQueue
  /\ NextIsApplied

(* The events in flight are screened events.                               *)
LEMMA InFlightType ==
  ASSUME TypeInv, NEW e \in InFlight
  PROVE  /\ e \in Event
         /\ e.pole \in Pole
         /\ DeviceOf[e.pole] = e.device
         /\ e.device # NoDevice
         /\ PositionOf(e) \in Position
         /\ PositionOf(e) \in Cursor
BY DEF TypeInv, TypeOK, Screened, ValidateBusinessRules, InFlight, Queued,
       Current, Cursor

(* PendingCursorIsNewestInFlight without its IF and its set of positions.  *)
PendingIsNewest ==
  /\ \A e \in InFlight : /\ pendingCursors[e.pole] # NoPosition
                         /\ ~Before(pendingCursors[e.pole], PositionOf(e))
  /\ \A p \in Pole :
       pendingCursors[p] # NoPosition =>
         \E e \in InFlight : e.pole = p /\ PositionOf(e) = pendingCursors[p]

LEMMA PendingForm ==
  TypeInv => (PendingCursorIsNewestInFlight <=> PendingIsNewest)
<1> SUFFICES ASSUME TypeInv
             PROVE  PendingCursorIsNewestInFlight <=> PendingIsNewest
  OBVIOUS
<1>1. ASSUME PendingCursorIsNewestInFlight PROVE PendingIsNewest
  BY <1>1, InFlightType DEF PendingCursorIsNewestInFlight, PendingIsNewest
<1>2. ASSUME PendingIsNewest PROVE PendingCursorIsNewestInFlight
  <2>. SUFFICES ASSUME NEW p \in Pole
                PROVE  LET mine == {PositionOf(e) :
                                      e \in {x \in InFlight : x.pole = p}}
                       IN  IF pendingCursors[p] = NoPosition
                             THEN mine = {}
                             ELSE /\ pendingCursors[p] \in mine
                                  /\ \A q \in mine :
                                       ~Before(pendingCursors[p], q)
    BY DEF PendingCursorIsNewestInFlight
  <2>. QED
    BY <1>2 DEF PendingIsNewest
<1>. QED
  BY <1>1, <1>2

LEMMA InitQueueInv == Init => QueueInv
<1> SUFFICES ASSUME Init PROVE QueueInv
  OBVIOUS
<1>1. InFlight = {}
  BY DEF Init, InFlight, Queued, Current, InProcess
<1>2. TypeInv
  BY InitTypeInv
<1>3. PendingCursorIsNewestInFlight
  BY <1>1, <1>2, PendingForm DEF PendingIsNewest, Init
<1>. QED
  BY <1>1, <1>3
     DEF Init, QueueInv, StreamOrder, FilterMatchesQueue, NextIsApplied,
         InFlight

(* Accepting an event keeps the order: it is newer than the newest event   *)
(* of its pole in flight or, if there is none, than the cached state.      *)
LEMMA AcceptQueueInv ==
  ASSUME TypeInv, TypeInv', QueueInv, NEW r \in Request, Accept(r)
  PROVE  QueueInv'
<1> DEFINE n == Head(todo[r])
<1>1. /\ n \in Event
      /\ n.pole \in Pole
      /\ PositionOf(n) \in Position
      /\ PositionOf(n) \in Cursor
  BY DEF Accept, Admitting, TypeInv, TypeOK, Screened, PastCapacityCheck,
         ValidateBusinessRules, Cursor
<1>2. /\ Enqueues(n)
      /\ InFlight' = InFlight \cup {n}
  BY AcceptEnqueues DEF Enqueues, InFlight
<1>3. /\ Before(StreamCursor(n.pole), PositionOf(n))
      /\ pendingCursors' = [pendingCursors EXCEPT ![n.pole] = PositionOf(n)]
      /\ admittedTuples' = admittedTuples \cup {Tuple(n)}
      /\ UNCHANGED <<cache, phase, current, next>>
  BY DEF Accept, IsStale, SetPendingCursor, drainVars
<1>4. PendingIsNewest
  BY PendingForm DEF QueueInv
<1>5. /\ cache[n.pole].cursor \in Cursor
      /\ pendingCursors[n.pole] \in Cursor
  BY <1>1 DEF TypeInv, TypeOK, PoleState
<1>6. \A e \in InFlight :
        e.pole = n.pole => Before(PositionOf(e), PositionOf(n))
  BY <1>1, <1>3, <1>4, <1>5, InFlightType, BeforeOrder
     DEF StreamCursor, PendingIsNewest
<1>7. Before(cache[n.pole].cursor, PositionOf(n))
  <2>1. CASE pendingCursors[n.pole] = NoPosition
    BY <1>3, <2>1 DEF StreamCursor
  <2>2. CASE pendingCursors[n.pole] # NoPosition
    <3>1. PICK e \in InFlight : e.pole = n.pole
      BY <1>1, <1>4, <2>2 DEF PendingIsNewest
    <3>2. Before(cache[e.pole].cursor, PositionOf(e))
      BY DEF QueueInv, StreamOrder
    <3>. QED
      BY <1>1, <1>5, <1>6, <3>1, <3>2, InFlightType, BeforeOrder
  <2>. QED
    BY <2>1, <2>2
<1>8. StreamOrder'
  <2>1. ASSUME NEW i \in DOMAIN buffer', NEW j \in DOMAIN buffer', i < j,
               buffer'[i].pole = buffer'[j].pole
        PROVE  Before(PositionOf(buffer'[i]), PositionOf(buffer'[j]))
    <3>1. /\ DOMAIN buffer = 1 .. Len(buffer)
          /\ DOMAIN buffer' = 1 .. (Len(buffer) + 1)
          /\ Len(buffer) \in Nat
          /\ \A k \in 1 .. Len(buffer) : buffer'[k] = buffer[k]
          /\ buffer'[Len(buffer) + 1] = n
      BY <1>1, <1>2 DEF Enqueues, TypeInv, TypeOK
    <3>2. i \in DOMAIN buffer
      BY <2>1, <3>1
    <3>3. CASE j \in DOMAIN buffer
      BY <2>1, <3>1, <3>2, <3>3 DEF QueueInv, StreamOrder
    <3>4. CASE j \notin DOMAIN buffer
      <4>1. buffer'[j] = n
        BY <3>1, <3>4
      <4>2. buffer[i] \in InFlight /\ buffer'[i] = buffer[i]
        BY <3>1, <3>2 DEF InFlight, Queued
      <4>. QED
        BY <1>6, <2>1, <4>1, <4>2
    <3>. QED
      BY <3>3, <3>4
  <2>2. \A c \in Current' : \A e \in Queued' :
          c.pole = e.pole => Before(PositionOf(c), PositionOf(e))
    BY <1>2, <1>6 DEF Enqueues, QueueInv, StreamOrder, InFlight
  <2>3. \A e \in InFlight' : Before(cache'[e.pole].cursor, PositionOf(e))
    BY <1>2, <1>3, <1>7 DEF QueueInv, StreamOrder
  <2>. QED
    BY <2>1, <2>2, <2>3 DEF StreamOrder
<1>9. PendingIsNewest'
  <2>1. ASSUME NEW e \in InFlight'
        PROVE  /\ pendingCursors'[e.pole] # NoPosition
               /\ ~Before(pendingCursors'[e.pole], PositionOf(e))
    <3>1. CASE e.pole = n.pole
      <4>1. pendingCursors'[e.pole] = PositionOf(n)
        BY <1>1, <1>3, <3>1 DEF TypeInv, TypeOK
      <4>2. CASE e = n
        BY <1>1, <4>1, <4>2, BeforeOrder
      <4>3. CASE e \in InFlight
        <5>1. Before(PositionOf(e), PositionOf(n))
          BY <1>6, <3>1, <4>3
        <5>. QED
          BY <1>1, <4>1, <4>3, <5>1, InFlightType, BeforeOrder
      <4>. QED
        BY <1>2, <4>2, <4>3
    <3>2. CASE e.pole # n.pole
      BY <1>2, <1>3, <1>4, <2>1, <3>2 DEF PendingIsNewest, TypeInv, TypeOK
    <3>. QED
      BY <3>1, <3>2
  <2>2. ASSUME NEW p \in Pole, pendingCursors'[p] # NoPosition
        PROVE  \E e \in InFlight' :
                 e.pole = p /\ PositionOf(e) = pendingCursors'[p]
    BY <1>1, <1>2, <1>3, <1>4, <2>2 DEF PendingIsNewest, TypeInv, TypeOK
  <2>. QED
    BY <2>1, <2>2 DEF PendingIsNewest
<1>10. PendingCursorIsNewestInFlight'
  BY <1>9, PendingForm, PTL
<1>11. FilterMatchesQueue'
  BY <1>2, <1>3 DEF FilterMatchesQueue, QueueInv
<1>12. NextIsApplied'
  BY <1>3 DEF NextIsApplied, QueueInv
<1>. QED
  BY <1>8, <1>10, <1>11, <1>12 DEF QueueInv

(* Moving the oldest event into process changes nothing in flight.         *)
LEMMA ShiftQueueInv ==
  ASSUME TypeInv, TypeInv', DrainInv, DrainInv', QueueInv,
         NEW d \in Drainer, StartDrain(d) \/ ContinueDrain(d)
  PROVE  QueueInv'
<1>1. /\ Dequeues
      /\ UNCHANGED <<admittedTuples, pendingCursors, cache, next>>
      /\ current' = [current EXCEPT ![d] = Head(buffer)]
      /\ phase' = [phase EXCEPT ![d] = "insert"]
      /\ phase[d] \in {"idle", "loop"}
  BY ShiftDequeues DEF StartDrain, ContinueDrain, ShiftInto
<1>2. InFlight' = InFlight
  BY <1>1 DEF Dequeues, InFlight
<1>3. /\ Len(buffer) \in Nat \ {0}
      /\ DOMAIN buffer = 1 .. Len(buffer)
      /\ DOMAIN buffer' = 1 .. (Len(buffer) - 1)
      /\ Head(buffer) = buffer[1]
      /\ \A k \in DOMAIN buffer' : buffer'[k] = buffer[k + 1]
  BY <1>1 DEF Dequeues, TypeInv, TypeOK
<1>4. StreamOrder'
  <2>1. ASSUME NEW i \in DOMAIN buffer', NEW j \in DOMAIN buffer', i < j,
               buffer'[i].pole = buffer'[j].pole
        PROVE  Before(PositionOf(buffer'[i]), PositionOf(buffer'[j]))
    <3>1. /\ i + 1 \in DOMAIN buffer
          /\ j + 1 \in DOMAIN buffer
          /\ i + 1 < j + 1
      BY <1>3, <2>1
    <3>. QED
      BY <1>3, <2>1, <3>1 DEF QueueInv, StreamOrder
  <2>2. ASSUME NEW c \in Current', NEW e \in Queued', c.pole = e.pole
        PROVE  Before(PositionOf(c), PositionOf(e))
    <3>1. c = buffer[1]
      BY <1>1, <1>3 DEF Dequeues
    <3>2. PICK k \in DOMAIN buffer' : e = buffer'[k]
      BY DEF Queued
    <3>3. /\ 1 \in DOMAIN buffer
          /\ k + 1 \in DOMAIN buffer
          /\ 1 < k + 1
          /\ e = buffer[k + 1]
      BY <1>3, <3>2
    <3>. QED
      BY <2>2, <3>1, <3>3 DEF QueueInv, StreamOrder
  <2>3. \A e \in InFlight' : Before(cache'[e.pole].cursor, PositionOf(e))
    BY <1>1, <1>2 DEF QueueInv, StreamOrder
  <2>. QED
    BY <2>1, <2>2, <2>3 DEF StreamOrder
<1>5. PendingCursorIsNewestInFlight'
  BY <1>1, <1>2 DEF QueueInv, PendingCursorIsNewestInFlight
<1>6. FilterMatchesQueue'
  BY <1>1, <1>2 DEF QueueInv, FilterMatchesQueue
<1>7. NextIsApplied'
  <2>. SUFFICES ASSUME NEW x \in Drainer, phase'[x] \in {"update", "updated"}
                PROVE  next'[x] =
                         ApplyEventToState(cache'[current'[x].pole], current'[x])
    BY DEF NextIsApplied
  <2>1. x # d /\ phase'[x] = phase[x] /\ current'[x] = current[x]
    BY <1>1 DEF TypeInv, TypeOK
  <2>. QED
    BY <1>1, <2>1 DEF QueueInv, NextIsApplied
<1>. QED
  BY <1>4, <1>5, <1>6, <1>7 DEF QueueInv

(* Finishing the event in process: its tuple and, if it was the newest, its*)
(* cursor go; those of the queued events stay.  The cached state is the    *)
(* old one or that of the finished event, older than every queued event.   *)
LEMMA FinishQueueInv ==
  ASSUME TypeInv, TypeInv', DrainInv, DrainInv', QueueInv,
         NEW d \in Drainer, InProcess(d), Finish(d), UNCHANGED buffer,
         \/ UNCHANGED cache
         \/ /\ phase[d] = "updated"
            /\ cache' = [cache EXCEPT ![current[d].pole] = next[d]]
  PROVE  QueueInv'
<1> DEFINE c == current[d]
<1>1. Completes(c)
  BY FinishCompletes
<1>2. /\ InFlight = Queued \cup {c}
      /\ InFlight' = Queued
      /\ c \in InFlight
  BY <1>1 DEF Completes, InFlight
<1>3. /\ c \in Event
      /\ c.pole \in Pole
      /\ PositionOf(c) \in Cursor
      /\ PositionOf(c) \in Position
  BY <1>2, InFlightType
<1>4. \A e \in Queued :
        /\ e \in InFlight
        /\ c.pole = e.pole => Before(PositionOf(c), PositionOf(e))
  BY <1>1, <1>2 DEF Completes, QueueInv, StreamOrder
<1>5. /\ admittedTuples' = admittedTuples \ {Tuple(c)}
      /\ pendingCursors' = ClearCompletedPendingCursor(c)
      /\ phase' = [phase EXCEPT ![d] = "loop"]
      /\ current' = [current EXCEPT ![d] = NoEvent]
      /\ next' = [next EXCEPT ![d] = SeededState]
  BY DEF Finish
<1>6. PendingIsNewest
  BY PendingForm DEF QueueInv
<1>7. StreamOrder'
  <2>1. ASSUME NEW e \in Queued
        PROVE  Before(cache'[e.pole].cursor, PositionOf(e))
    <3>1. CASE cache'[e.pole] = cache[e.pole]
      BY <1>4, <3>1 DEF QueueInv, StreamOrder
    <3>2. CASE cache'[e.pole] # cache[e.pole]
      <4>1. /\ phase[d] = "updated"
            /\ e.pole = c.pole
            /\ cache'[e.pole] = next[d]
        BY <1>3, <1>4, <3>2, InFlightType DEF TypeInv, TypeOK
      <4>2. next[d] = ApplyEventToState(cache[c.pole], c)
        BY <4>1 DEF QueueInv, NextIsApplied
      <4>3. next[d].cursor = PositionOf(c)
        BY <4>2 DEF ApplyEventToState
      <4>. QED
        BY <1>4, <4>1, <4>3
    <3>. QED
      BY <3>1, <3>2
  <2>. QED
    BY <1>1, <1>2, <2>1 DEF Completes, QueueInv, StreamOrder
<1>8. PendingIsNewest'
  <2>1. ASSUME NEW e \in Queued
        PROVE  /\ pendingCursors'[e.pole] # NoPosition
               /\ ~Before(pendingCursors'[e.pole], PositionOf(e))
    <3>1. pendingCursors[e.pole] # PositionOf(c) \/ e.pole # c.pole
      <4>1. c.pole = e.pole => Before(PositionOf(c), PositionOf(e))
        BY <1>4
      <4>2. ~Before(pendingCursors[e.pole], PositionOf(e))
        BY <1>4, <1>6 DEF PendingIsNewest
      <4>. QED
        BY <4>1, <4>2
    <3>2. pendingCursors'[e.pole] = pendingCursors[e.pole]
      BY <1>3, <1>4, <1>5, <3>1, InFlightType
         DEF ClearCompletedPendingCursor, TypeInv, TypeOK
    <3>. QED
      BY <1>4, <1>6, <3>2 DEF PendingIsNewest
  <2>2. ASSUME NEW p \in Pole, pendingCursors'[p] # NoPosition
        PROVE  \E e \in Queued :
                 e.pole = p /\ PositionOf(e) = pendingCursors'[p]
    <3>1. /\ pendingCursors'[p] = pendingCursors[p]
          /\ p # c.pole \/ pendingCursors[p] # PositionOf(c)
      BY <1>3, <1>5, <2>2 DEF ClearCompletedPendingCursor, TypeInv, TypeOK
    <3>2. PICK e \in InFlight : e.pole = p /\ PositionOf(e) = pendingCursors[p]
      BY <1>6, <2>2, <3>1 DEF PendingIsNewest
    <3>. QED
      BY <1>2, <3>1, <3>2
  <2>. QED
    BY <1>2, <2>1, <2>2 DEF PendingIsNewest
<1>9. PendingCursorIsNewestInFlight'
  BY <1>8, PendingForm, PTL
<1>10. FilterMatchesQueue'
  <2>1. ASSUME NEW e \in Queued PROVE Tuple(e) # Tuple(c)
    <3>1. CASE e.pole = c.pole
      <4>1. PositionOf(e) # PositionOf(c)
        BY <1>3, <1>4, <3>1, InFlightType, BeforeOrder
      <4>. QED
        BY <4>1 DEF Tuple, PositionOf
    <3>2. CASE e.pole # c.pole
      <4>1. e.device # c.device
        BY <1>2, <1>4, <3>2, InFlightType, DeviceAssumption
      <4>. QED
        BY <4>1 DEF Tuple
    <3>. QED
      BY <3>1, <3>2
  <2>. QED
    BY <1>2, <1>5, <2>1 DEF FilterMatchesQueue, QueueInv
<1>11. NextIsApplied'
  <2>1. \A x \in Drainer : x # d => phase[x] = "idle"
    BY DEF DrainInv, OneDrainAtATime, InProcess
  <2>. QED
    BY <1>5, <2>1 DEF NextIsApplied, TypeInv, TypeOK
<1>. QED
  BY <1>7, <1>9, <1>10, <1>11 DEF QueueInv

(* The other steps leave the queue alone.                                  *)
LEMMA OtherQueueInv ==
  ASSUME TypeInv, TypeInv', QueueInv,
         UNCHANGED <<queueVars, current, cache>>,
         \A d \in Drainer :
           /\ InProcess(d)' <=> InProcess(d)
           /\ phase'[d] \in {"update", "updated"} =>
                next'[d] = ApplyEventToState(cache[current[d].pole], current[d])
  PROVE  QueueInv'
<1>1. Queued' = Queued /\ Current' = Current
  BY DEF Queued, Current, queueVars
<1>2. InFlight' = InFlight
  BY <1>1 DEF InFlight
<1>3. StreamOrder' /\ FilterMatchesQueue' /\ PendingCursorIsNewestInFlight'
  BY <1>1, <1>2
     DEF QueueInv, StreamOrder, FilterMatchesQueue,
         PendingCursorIsNewestInFlight, queueVars
<1>. QED
  BY <1>3 DEF QueueInv, NextIsApplied

LEMMA QueueStep ==
  TypeInv /\ TypeInv' /\ DrainInv /\ DrainInv' /\ QueueInv /\ [Next]_vars
    => QueueInv'
<1> SUFFICES ASSUME TypeInv, TypeInv', DrainInv, DrainInv', QueueInv,
                    [Next]_vars
             PROVE  QueueInv'
  OBVIOUS
<1> USE DEF requestVars, queueVars, drainVars, storeVars
<1>1. ASSUME UNCHANGED <<queueVars, drainVars, cache>> PROVE QueueInv'
  BY <1>1, OtherQueueInv DEF QueueInv, NextIsApplied, InProcess
<1>2. ASSUME NEW r \in Request, NEW b \in Batch, Submit(r, b)
      PROVE  QueueInv'
  BY <1>1, <1>2 DEF Submit
<1>3. ASSUME NEW r \in Request, AdmitStep(r), ~Accept(r) PROVE QueueInv'
  BY <1>1, <1>3
     DEF AdmitStep, BeginAdmit, FindTelemetryEvent, AnswerFound, AnswerStale
<1>4. ASSUME NEW r \in Request, Accept(r) PROVE QueueInv'
  BY <1>4, AcceptQueueInv
<1>5. ASSUME NEW d \in Drainer, StartDrain(d) \/ ContinueDrain(d)
      PROVE  QueueInv'
  BY <1>5, ShiftQueueInv
<1>6. ASSUME NEW d \in Drainer, EndDrain(d) PROVE QueueInv'
  BY <1>6, OtherQueueInv
     DEF EndDrain, QueueInv, NextIsApplied, InProcess, TypeInv, TypeOK
<1>7. ASSUME NEW d \in Drainer, InsertTelemetryEvent(d) PROVE QueueInv'
  BY <1>7, OtherQueueInv
     DEF InsertTelemetryEvent, QueueInv, NextIsApplied, InProcess, TypeInv,
         TypeOK
<1>8. ASSUME NEW d \in Drainer, Abandon(d) PROVE QueueInv'
  BY <1>8, FinishQueueInv DEF Abandon, InProcess
<1>9. ASSUME NEW d \in Drainer, BeginApply(d) PROVE QueueInv'
  <2>1. CASE Before(cache[current[d].pole].cursor, PositionOf(current[d]))
    BY <1>9, <2>1, OtherQueueInv
       DEF BeginApply, Stored, QueueInv, NextIsApplied, InProcess, TypeInv,
           TypeOK
  <2>2. CASE ~Before(cache[current[d].pole].cursor, PositionOf(current[d]))
    BY <1>9, <2>2, FinishQueueInv DEF BeginApply, Stored, InProcess
  <2>. QED
    BY <2>1, <2>2
<1>10. ASSUME NEW d \in Drainer, UpdatePoleState(d) PROVE QueueInv'
  BY <1>10, OtherQueueInv
     DEF UpdatePoleState, QueueInv, NextIsApplied, InProcess, TypeInv, TypeOK
<1>11. ASSUME NEW d \in Drainer, EndApply(d) PROVE QueueInv'
  BY <1>11, FinishQueueInv DEF EndApply, InProcess
<1>12. ASSUME Crash \/ Restart PROVE QueueInv'
  <2>1. /\ buffer' = <<>>
        /\ admittedTuples' = {}
        /\ pendingCursors' = [p \in Pole |-> NoPosition]
        /\ \A d \in Drainer : phase'[d] = "idle"
    BY <1>12 DEF Crash, Restart, DrainInv, EmptyWhenDown
  <2>2. InFlight' = {} /\ Queued' = {} /\ Current' = {}
    BY <2>1 DEF InFlight, Queued, Current, InProcess
  <2>3. PendingCursorIsNewestInFlight'
    BY <2>1, <2>2 DEF PendingCursorIsNewestInFlight
  <2>. QED
    BY <2>1, <2>2, <2>3
       DEF QueueInv, StreamOrder, FilterMatchesQueue, NextIsApplied
<1>13. CASE UNCHANGED vars
  BY <1>1, <1>13 DEF vars
<1>. QED
  BY <1>2, <1>3, <1>4, <1>5, <1>6, <1>7, <1>8, <1>9, <1>10, <1>11, <1>12,
     <1>13
     DEF Next, DrainStep

LEMMA QueueInvariant == Spec => [](TypeInv /\ DrainInv /\ QueueInv)
BY InitTypeInv, TypeStep, InitDrainInv, DrainStepInv, InitQueueInv, QueueStep,
   PTL
   DEF Spec

(* Per pole, events are queued and processed in strictly increasing stream *)
(* order and only while newer than the cached state, under all faults.     *)
THEOREM StreamsStayOrdered == Spec => []StreamOrder
BY QueueInvariant, PTL DEF QueueInv

(* DECISIONS.md D-021: a pending ordering cursor exists exactly while the  *)
(* pole has events in flight, and is the newest of them.                   *)
THEOREM PendingCursorsAreExact == Spec => []PendingCursorIsNewestInFlight
BY QueueInvariant, PTL DEF QueueInv

(* The duplicate filter holds exactly the tuples in flight: none is        *)
(* forgotten, and none is left behind by a failed or dropped event.        *)
THEOREM FilterIsExact == Spec => []FilterMatchesQueue
BY QueueInvariant, PTL DEF QueueInv
-----------------------------------------------------------------------------
(* The capacity.  A request that has passed the check holds a claim to one *)
(* place; at most one claim per request exists, and the last one to be     *)
(* made found a free place.                                                *)

LEMMA ClaimsAreFinite ==
  /\ IsFiniteSet(PastCapacityCheck)
  /\ Cardinality(PastCapacityCheck) \in Nat
  /\ Cardinality(PastCapacityCheck) <= Cardinality(Request)
  /\ Cardinality(Request) \in Nat \ {0}
<1>1. PastCapacityCheck \subseteq Request
  BY DEF PastCapacityCheck
<1>. QED
  BY <1>1, RequestAssumption, FS_Subset, FS_CardinalityType, FS_EmptySet

LEMMA InitOvershoot == Init => OvershootIsBounded
<1> SUFFICES ASSUME Init PROVE OvershootIsBounded
  OBVIOUS
<1>1. PastCapacityCheck = {} /\ Len(buffer) = 0
  BY DEF Init, PastCapacityCheck
<1>2. Cardinality(PastCapacityCheck) = 0
  BY <1>1, FS_EmptySet
<1>. QED
  BY <1>1, <1>2, ClaimsAreFinite, CapacityAssumption DEF OvershootIsBounded

LEMMA OvershootStep ==
  TypeInv /\ DrainInv /\ OvershootIsBounded /\ [Next]_vars => OvershootIsBounded'
<1> SUFFICES ASSUME TypeInv, DrainInv, OvershootIsBounded, [Next]_vars
             PROVE  OvershootIsBounded'
  OBVIOUS
<1>1. (/\ IsFiniteSet(PastCapacityCheck)
       /\ Cardinality(PastCapacityCheck) \in Nat
       /\ Cardinality(PastCapacityCheck) <= Cardinality(Request))'
  BY ClaimsAreFinite, PTL
<1>2. buffer \in Seq(Event) /\ Len(buffer) \in Nat
  BY DEF TypeInv, TypeOK
<1>3. ASSUME PastCapacityCheck' \subseteq PastCapacityCheck,
             Len(buffer') \in Nat, Len(buffer') <= Len(buffer)
      PROVE  OvershootIsBounded'
  <2>1. Cardinality(PastCapacityCheck') <= Cardinality(PastCapacityCheck)
    BY <1>3, ClaimsAreFinite, FS_Subset
  <2>. QED
    BY <1>1, <1>2, <1>3, <2>1, ClaimsAreFinite, CapacityAssumption
       DEF OvershootIsBounded
<1>4. ASSUME NEW r \in Request, NEW b \in Batch, Submit(r, b)
      PROVE  OvershootIsBounded'
  <2>1. PastCapacityCheck' \subseteq PastCapacityCheck
    BY <1>4 DEF Submit, PastCapacityCheck, TypeInv, TypeOK, Screened
  <2>. QED
    BY <1>2, <1>3, <1>4, <2>1 DEF Submit, queueVars
<1>5. ASSUME NEW r \in Request, BeginAdmit(r) PROVE OvershootIsBounded'
  <2>1. buffer' = buffer
    BY <1>5 DEF BeginAdmit, queueVars
  <2>2. CASE BufferFull
    <3>1. /\ stage'[r] = "admit"
          /\ \A x \in Request :
               x # r => todo'[x] = todo[x] /\ stage'[x] = stage[x]
      <4>1. /\ stage[r] = "admit"
            /\ todo \in [Request -> Seq(Event)]
            /\ stage \in [Request -> {"admit", "lookup", "found", "absent"}]
        BY <1>5 DEF BeginAdmit, Admitting, TypeInv, TypeOK
      <4>2. \E t : todo' = [todo EXCEPT ![r] = t]
        BY <1>5, <2>2 DEF BeginAdmit, Return, Throw
      <4>3. stage' = [stage EXCEPT ![r] = "admit"]
        BY <1>5, <2>2 DEF BeginAdmit, Return, Throw
      <4>. QED
        BY <4>1, <4>2, <4>3
    <3>2. PastCapacityCheck' \subseteq PastCapacityCheck
      BY <3>1 DEF PastCapacityCheck
    <3>. QED
      BY <1>2, <1>3, <2>1, <3>2
  <2>3. CASE ~BufferFull
    <3>1. Len(buffer') <= Capacity - 1
      BY <1>2, <2>1, <2>3, CapacityAssumption DEF BufferFull
    <3>. QED
      BY <1>1, <1>2, <2>1, <3>1, ClaimsAreFinite, CapacityAssumption
         DEF OvershootIsBounded
  <2>. QED
    BY <2>2, <2>3
<1>6. ASSUME NEW r \in Request,
             FindTelemetryEvent(r) \/ AnswerFound(r) \/ AnswerStale(r)
      PROVE  OvershootIsBounded'
  <2>1. PastCapacityCheck' \subseteq PastCapacityCheck
    BY <1>6
       DEF FindTelemetryEvent, AnswerFound, AnswerStale, Admitting, Return,
           Throw, PastCapacityCheck, TypeInv, TypeOK
  <2>2. buffer' = buffer
    BY <1>6 DEF FindTelemetryEvent, AnswerFound, AnswerStale, queueVars
  <2>. QED
    BY <1>2, <1>3, <2>1, <2>2
<1>7. ASSUME NEW r \in Request, Accept(r) PROVE OvershootIsBounded'
  <2>1. /\ r \in PastCapacityCheck
        /\ PastCapacityCheck' = PastCapacityCheck \ {r}
    BY <1>7
       DEF Accept, Admitting, Return, PastCapacityCheck, TypeInv, TypeOK
  <2>2. Cardinality(PastCapacityCheck') = Cardinality(PastCapacityCheck) - 1
    BY <2>1, ClaimsAreFinite, FS_RemoveElement
  <2>3. Len(buffer') = Len(buffer) + 1
    BY <1>2, <1>7 DEF Accept
  <2>. QED
    BY <1>1, <1>2, <2>2, <2>3, ClaimsAreFinite, CapacityAssumption
       DEF OvershootIsBounded
<1>8. ASSUME NEW d \in Drainer, DrainStep(d) PROVE OvershootIsBounded'
  <2>1. PastCapacityCheck' = PastCapacityCheck
    BY <1>8
       DEF DrainStep, StartDrain, ContinueDrain, EndDrain,
           InsertTelemetryEvent, Abandon, BeginApply, UpdatePoleState,
           EndApply, requestVars, PastCapacityCheck
  <2>2. Len(buffer') \in Nat /\ Len(buffer') <= Len(buffer)
    <3>1. CASE StartDrain(d) \/ ContinueDrain(d)
      BY <1>2, <3>1 DEF StartDrain, ContinueDrain, ShiftInto
    <3>2. CASE ~(StartDrain(d) \/ ContinueDrain(d))
      <4>1. buffer' = buffer
        BY <1>8, <3>2
           DEF DrainStep, EndDrain, InsertTelemetryEvent, Abandon,
               BeginApply, UpdatePoleState, EndApply, queueVars
      <4>. QED
        BY <1>2, <4>1
    <3>. QED
      BY <3>1, <3>2
  <2>. QED
    BY <1>3, <2>1, <2>2
<1>9. CASE Crash \/ Restart
  <2>1. /\ buffer' = <<>>
        /\ \A r \in Request : todo'[r] = <<>>
    BY <1>9 DEF Crash, Restart, DrainInv, EmptyWhenDown, queueVars, requestVars
  <2>2. PastCapacityCheck' \subseteq PastCapacityCheck
    BY <2>1 DEF PastCapacityCheck
  <2>. QED
    BY <1>2, <1>3, <2>1, <2>2
<1>10. CASE UNCHANGED vars
  BY <1>2, <1>3, <1>10 DEF vars, queueVars, requestVars, PastCapacityCheck
<1>. QED
  BY <1>4, <1>5, <1>6, <1>7, <1>8, <1>9, <1>10 DEF Next, AdmitStep

(* However requests interleave, the buffer outgrows its capacity by less   *)
(* than the number of concurrent requests; a single client never does.     *)
THEOREM OvershootBound == Spec => []OvershootIsBounded
BY InitTypeInv, TypeStep, InitDrainInv, DrainStepInv, InitOvershoot,
   OvershootStep, PTL
   DEF Spec
-----------------------------------------------------------------------------
(* The tables.                                                             *)

(* An event reaches pole_states only after its row is in telemetry_events. *)
BackedInv ==
  /\ StateIsBackedByTelemetry
  /\ \A d \in Drainer :
       phase[d] \in {"stored", "update", "updated"} =>
         Tuple(current[d]) \in telemetry

LEMMA InitBackedInv == Init => BackedInv
BY DEF Init, BackedInv, StateIsBackedByTelemetry, SeededState

LEMMA BackedStep ==
  TypeInv /\ QueueInv /\ BackedInv /\ [Next]_vars => BackedInv'
<1> SUFFICES ASSUME TypeInv, QueueInv, BackedInv, [Next]_vars PROVE BackedInv'
  OBVIOUS
<1> USE DEF requestVars, queueVars, drainVars, storeVars
<1>1. ASSUME UNCHANGED <<phase, current, storeVars>> PROVE BackedInv'
  BY <1>1 DEF BackedInv, StateIsBackedByTelemetry
<1>2. ASSUME NEW r \in Request, NEW b \in Batch, Submit(r, b)
      PROVE  BackedInv'
  BY <1>1, <1>2 DEF Submit
<1>3. ASSUME NEW r \in Request, AdmitStep(r) PROVE BackedInv'
  BY <1>1, <1>3
     DEF AdmitStep, BeginAdmit, FindTelemetryEvent, AnswerFound, AnswerStale,
         Accept
<1>4. ASSUME NEW d \in Drainer,
             UNCHANGED storeVars,
             \A x \in Drainer : x # d => UNCHANGED <<phase[x], current[x]>>,
             \/ phase'[d] \notin {"stored", "update", "updated"}
             \/ /\ phase[d] \in {"stored", "update", "updated"}
                /\ current'[d] = current[d]
      PROVE  BackedInv'
  BY <1>4 DEF BackedInv, StateIsBackedByTelemetry
<1>5. ASSUME NEW d \in Drainer,
             \/ StartDrain(d) \/ ContinueDrain(d) \/ EndDrain(d)
             \/ Abandon(d) \/ BeginApply(d) \/ EndApply(d)
      PROVE  BackedInv'
  BY <1>4, <1>5
     DEF StartDrain, ContinueDrain, EndDrain, ShiftInto, Abandon, BeginApply,
         Stored, EndApply, Finish, TypeInv, TypeOK
<1>6. ASSUME NEW d \in Drainer, InsertTelemetryEvent(d) PROVE BackedInv'
  <2>1. /\ telemetry \subseteq telemetry'
        /\ UNCHANGED <<poleStates, current>>
        /\ \A x \in Drainer : x # d => phase'[x] = phase[x]
        /\ phase'[d] \in {"conflict", "stored", "failed"}
        /\ phase'[d] = "stored" => Tuple(current[d]) \in telemetry'
    BY <1>6 DEF InsertTelemetryEvent, TypeInv, TypeOK
  <2>. QED
    BY <2>1 DEF BackedInv, StateIsBackedByTelemetry
<1>7. ASSUME NEW d \in Drainer, UpdatePoleState(d) PROVE BackedInv'
  <2> DEFINE e == current[d]
  <2>1. phase[d] = "update" /\ InProcess(d)
    BY <1>7 DEF UpdatePoleState, InProcess
  <2>2. /\ e.pole \in Pole
        /\ DeviceOf[e.pole] = e.device
        /\ Tuple(e) \in telemetry
    BY <2>1 DEF BackedInv, TypeInv, Screened, ValidateBusinessRules
  <2>3. next[d] = ApplyEventToState(cache[e.pole], e)
    BY <2>1 DEF QueueInv, NextIsApplied
  <2>4. next[d].cursor = PositionOf(e)
    BY <2>3 DEF ApplyEventToState
  <2>5. /\ UNCHANGED <<telemetry, current>>
        /\ \A p \in Pole : \/ poleStates'[p] = poleStates[p]
                           \/ p = e.pole /\ poleStates'[p] = next[d]
        /\ \A x \in Drainer : x # d => phase'[x] = phase[x]
    BY <1>7 DEF UpdatePoleState, WithNext, TypeInv, TypeOK
  <2>6. StateIsBackedByTelemetry'
    BY <2>2, <2>4, <2>5
       DEF BackedInv, StateIsBackedByTelemetry, Tuple, PositionOf
  <2>. QED
    BY <2>2, <2>5, <2>6 DEF BackedInv
<1>8. CASE Crash
  BY <1>8 DEF Crash, BackedInv, StateIsBackedByTelemetry
<1>9. CASE Restart
  BY <1>1, <1>9 DEF Restart
<1>10. CASE UNCHANGED vars
  BY <1>1, <1>10 DEF vars
<1>. QED
  BY <1>2, <1>3, <1>5, <1>6, <1>7, <1>8, <1>9, <1>10 DEF Next, DrainStep

(* A pole's row never names a position whose telemetry row is missing,     *)
(* whatever fails and whenever the process dies.                           *)
THEOREM StateIsBacked == Spec => []StateIsBackedByTelemetry
<1>1. BackedInv => StateIsBackedByTelemetry
  BY DEF BackedInv
<1>. QED
  BY <1>1, QueueInvariant, InitBackedInv, BackedStep, PTL DEF Spec
-----------------------------------------------------------------------------
(* The cache against the table, when every statement's outcome is known.   *)

SyncInv ==
  /\ \A d \in Drainer :
       phase[d] = "updated" => poleStates[current[d].pole] = next[d]
  /\ up => \A p \in Pole :
             \/ cache[p] = poleStates[p]
             \/ \E d \in Drainer : phase[d] = "updated" /\ current[d].pole = p
  /\ ~up => Advances(cache, poleStates)

LEMMA InitSyncInv == Init => SyncInv
BY DEF Init, SyncInv

(* What applyEvent persists is newer than the row it overwrites, and is    *)
(* computed from exactly that row.                                         *)
LEMMA UpdateAdvances ==
  ASSUME TypeInv, DrainInv, QueueInv, SyncInv, NEW d \in Drainer,
         phase[d] = "update"
  PROVE  /\ current[d] \in Event
         /\ ValidateBusinessRules(current[d])
         /\ cache[current[d].pole] = poleStates[current[d].pole]
         /\ next[d] = ApplyEventToState(poleStates[current[d].pole], current[d])
         /\ next[d].cursor = PositionOf(current[d])
         /\ Before(poleStates[current[d].pole].cursor, PositionOf(current[d]))
<1> DEFINE e == current[d]
<1>1. /\ e \in InFlight
      /\ e \in Event
      /\ ValidateBusinessRules(e)
      /\ e.pole \in Pole
  BY DEF InFlight, Current, InProcess, TypeInv, Screened, ValidateBusinessRules
<1>2. up /\ \A x \in Drainer : phase[x] # "updated"
  BY DEF DrainInv, OneDrainAtATime, EmptyWhenDown, TypeInv, TypeOK
<1>3. cache[e.pole] = poleStates[e.pole]
  BY <1>1, <1>2 DEF SyncInv
<1>4. next[d] = ApplyEventToState(cache[e.pole], e)
  BY DEF QueueInv, NextIsApplied
<1>5. next[d].cursor = PositionOf(e)
  BY <1>4 DEF ApplyEventToState
<1>6. Before(cache[e.pole].cursor, PositionOf(e))
  BY <1>1 DEF QueueInv, StreamOrder
<1>. QED
  BY <1>1, <1>3, <1>4, <1>5, <1>6

(* Between the update and the continuation, the cache is one event behind. *)
LEMMA UpdatedIsAhead ==
  ASSUME TypeInv, DrainInv, QueueInv, SyncInv, NEW d \in Drainer,
         phase[d] = "updated"
  PROVE  /\ current[d].pole \in Pole
         /\ poleStates[current[d].pole] = next[d]
         /\ Before(cache[current[d].pole].cursor, next[d].cursor)
<1> DEFINE e == current[d]
<1>1. e \in InFlight /\ e.pole \in Pole
  BY DEF InFlight, Current, InProcess, TypeInv, Screened, ValidateBusinessRules
<1>2. next[d] = ApplyEventToState(cache[e.pole], e)
  BY DEF QueueInv, NextIsApplied
<1>3. next[d].cursor = PositionOf(e)
  BY <1>2 DEF ApplyEventToState
<1>4. Before(cache[e.pole].cursor, PositionOf(e))
  BY <1>1 DEF QueueInv, StreamOrder
<1>. QED
  BY <1>1, <1>3, <1>4 DEF SyncInv

LEMMA SyncStep ==
  ASSUME "ackLost" \notin Faults
  PROVE  TypeInv /\ DrainInv /\ DrainInv' /\ QueueInv /\ SyncInv /\ [Next]_vars
           => /\ SyncInv'
              /\ Advances(poleStates, poleStates')
              /\ Advances(cache, cache')
<1> DEFINE Goal == /\ SyncInv'
                   /\ Advances(poleStates, poleStates')
                   /\ Advances(cache, cache')
<1> SUFFICES ASSUME TypeInv, DrainInv, DrainInv', QueueInv, SyncInv,
                    [Next]_vars
             PROVE  Goal
  OBVIOUS
<1> USE DEF requestVars, queueVars, drainVars, storeVars
<1>1. ASSUME UNCHANGED <<up, cache, poleStates>>,
             \A x \in Drainer :
               phase[x] = "updated" \/ phase'[x] = "updated" =>
                 UNCHANGED <<phase[x], current[x], next[x]>>
      PROVE  Goal
  BY <1>1 DEF SyncInv, Advances
<1>2. ASSUME NEW r \in Request, NEW b \in Batch, Submit(r, b) PROVE Goal
  BY <1>1, <1>2 DEF Submit
<1>3. ASSUME NEW r \in Request, AdmitStep(r) PROVE Goal
  BY <1>1, <1>3
     DEF AdmitStep, BeginAdmit, FindTelemetryEvent, AnswerFound, AnswerStale,
         Accept
<1>4. ASSUME NEW d \in Drainer,
             \/ StartDrain(d) \/ ContinueDrain(d) \/ EndDrain(d)
             \/ InsertTelemetryEvent(d) \/ Abandon(d) \/ BeginApply(d)
      PROVE  Goal
  <2>1. /\ UNCHANGED <<up, cache, poleStates>>
        /\ phase[d] # "updated"
        /\ phase'[d] # "updated"
        /\ \A x \in Drainer :
             x # d => UNCHANGED <<phase[x], current[x], next[x]>>
    BY <1>4
       DEF StartDrain, ContinueDrain, EndDrain, ShiftInto, Abandon, Stored,
           BeginApply, Finish, InsertTelemetryEvent, TypeInv, TypeOK
  <2>. QED
    BY <1>1, <2>1
<1>5. ASSUME NEW d \in Drainer, UpdatePoleState(d) PROVE Goal
  <2> DEFINE e == current[d]
  <2>1. /\ phase[d] = "update"
        /\ UNCHANGED <<up, current, next, cache>>
        /\ \A x \in Drainer : x # d => phase'[x] = phase[x]
    BY <1>5 DEF UpdatePoleState, TypeInv, TypeOK
  <2>2. /\ e.pole \in Pole
        /\ next[d].cursor = PositionOf(e)
        /\ Before(poleStates[e.pole].cursor, PositionOf(e))
    BY <2>1, UpdateAdvances DEF ValidateBusinessRules
  <2>3. CASE phase'[d] = "updated" /\ poleStates' = WithNext(d)
    <3>1. /\ poleStates'[e.pole] = next[d]
          /\ \A p \in Pole : p # e.pole => poleStates'[p] = poleStates[p]
      BY <2>2, <2>3 DEF WithNext, TypeInv, TypeOK
    <3>2. \A x \in Drainer : x # d => phase[x] = "idle"
      BY <2>1 DEF DrainInv, OneDrainAtATime
    <3>3. SyncInv'
      BY <2>1, <2>2, <2>3, <3>1, <3>2 DEF SyncInv, DrainInv, EmptyWhenDown
    <3>. QED
      BY <2>1, <2>2, <3>1, <3>3 DEF Advances
  <2>4. CASE phase'[d] = "failed" /\ poleStates' = poleStates
    BY <1>1, <2>1, <2>4
  <2>. QED
    BY <1>5, <2>3, <2>4, "ackLost" \notin Faults
       DEF UpdatePoleState, TypeInv, TypeOK
<1>6. ASSUME NEW d \in Drainer, EndApply(d) PROVE Goal
  <2> DEFINE e == current[d]
  <2>1. /\ phase[d] = "updated"
        /\ cache' = [cache EXCEPT ![e.pole] = next[d]]
        /\ phase' = [phase EXCEPT ![d] = "loop"]
        /\ UNCHANGED <<up, poleStates>>
    BY <1>6 DEF EndApply, Finish
  <2>2. /\ e.pole \in Pole
        /\ poleStates[e.pole] = next[d]
        /\ Before(cache[e.pole].cursor, next[d].cursor)
    BY <2>1, UpdatedIsAhead
  <2>3. /\ cache'[e.pole] = next[d]
        /\ \A p \in Pole : p # e.pole => cache'[p] = cache[p]
    BY <2>1, <2>2 DEF TypeInv, TypeOK
  <2>4. \A x \in Drainer : x # d => phase[x] = "idle" /\ phase'[x] = "idle"
    BY <2>1 DEF DrainInv, OneDrainAtATime, TypeInv, TypeOK
  <2>5. \A x \in Drainer : phase'[x] # "updated"
    BY <2>1, <2>4 DEF TypeInv, TypeOK
  <2>6. up
    BY <2>1 DEF DrainInv, EmptyWhenDown
  <2>7. \A p \in Pole : cache'[p] = poleStates'[p]
    BY <2>1, <2>2, <2>3, <2>4, <2>6 DEF SyncInv
  <2>. QED
    BY <2>1, <2>2, <2>3, <2>5, <2>6, <2>7 DEF SyncInv, Advances
<1>7. CASE Crash
  <2>1. /\ up /\ ~up'
        /\ UNCHANGED <<cache, poleStates>>
        /\ \A d \in Drainer : phase'[d] # "updated"
    BY <1>7 DEF Crash
  <2>2. Advances(cache, poleStates)
    BY <2>1, UpdatedIsAhead DEF SyncInv, Advances
  <2>. QED
    BY <2>1, <2>2 DEF SyncInv, Advances
<1>8. CASE Restart
  <2>1. /\ ~up /\ up'
        /\ cache' = poleStates
        /\ UNCHANGED <<phase, poleStates>>
        /\ \A d \in Drainer : phase[d] # "updated"
    BY <1>8 DEF Restart, DrainInv, EmptyWhenDown
  <2>. QED
    BY <2>1 DEF SyncInv, Advances
<1>9. CASE UNCHANGED vars
  BY <1>1, <1>9 DEF vars
<1>. QED
  BY <1>2, <1>3, <1>4, <1>5, <1>6, <1>7, <1>8, <1>9 DEF Next, DrainStep

(* Stream cursors only advance, in the table and in the cache, through     *)
(* retries, reordering, failed statements, crashes and restarts: no event  *)
(* is applied twice, and none after a newer one.                           *)
THEOREM CursorsAdvance ==
  ASSUME "ackLost" \notin Faults
  PROVE  Spec => CursorsOnlyAdvance
<1>1. Spec => [](TypeInv /\ DrainInv /\ QueueInv)
  BY QueueInvariant
<1>2. SyncInv /\ TypeInv /\ DrainInv /\ DrainInv' /\ QueueInv /\ [Next]_vars
        => SyncInv'
  BY SyncStep
<1>3. SyncInv /\ TypeInv /\ DrainInv /\ DrainInv' /\ QueueInv /\ [Next]_vars
        => [Advances(poleStates, poleStates') /\ Advances(cache, cache')]_vars
  BY SyncStep
<1>. QED
  BY <1>1, <1>2, <1>3, InitSyncInv, PTL DEF Spec, CursorsOnlyAdvance

(* While the server runs, the cache is the table, but for an update that   *)
(* has been executed and not yet been acknowledged.                        *)
THEOREM CacheIsStore ==
  ASSUME "ackLost" \notin Faults
  PROVE  Spec => []CacheMirrorsStore
<1>1. SyncInv => CacheMirrorsStore
  BY DEF SyncInv, CacheMirrorsStore
<1>2. SyncInv /\ TypeInv /\ DrainInv /\ DrainInv' /\ QueueInv /\ [Next]_vars
        => SyncInv'
  BY SyncStep
<1>. QED
  BY <1>1, <1>2, QueueInvariant, InitSyncInv, PTL DEF Spec
-----------------------------------------------------------------------------
(* Refinement: the two tables behave as PoleStream.                        *)

(* The instance has its own copy of the event vocabulary.                  *)
LEMMA SameVocabulary ==
  /\ Promise!SeededState = SeededState
  /\ \A e : Promise!PositionOf(e) = PositionOf(e)
  /\ \A a, b : Promise!Before(a, b) <=> Before(a, b)
  /\ \A s, e : Promise!ApplyEventToState(s, e) = ApplyEventToState(s, e)
BY DEF SeededState, Promise!SeededState, NoPosition, Promise!NoPosition,
       PositionOf, Promise!PositionOf, Before, Promise!Before,
       ApplyEventToState, Promise!ApplyEventToState, EnergizedFor,
       Promise!EnergizedFor

LEMMA InitPromise == Init => Promise!Init
BY SameVocabulary DEF Init, Promise!Init

LEMMA StepPromise ==
  ASSUME "ackLost" \notin Faults
  PROVE  TypeInv /\ DrainInv /\ QueueInv /\ BackedInv /\ SyncInv /\ [Next]_vars
           => [Promise!Next]_<<telemetry, poleStates>>
<1> SUFFICES ASSUME TypeInv, DrainInv, QueueInv, BackedInv, SyncInv,
                    [Next]_vars
             PROVE  \/ Promise!Next
                    \/ UNCHANGED <<telemetry, poleStates>>
  OBVIOUS
<1> USE DEF storeVars
<1>1. ASSUME NEW d \in Drainer, InsertTelemetryEvent(d),
             telemetry' # telemetry
      PROVE  Promise!Next
  <2> DEFINE e == current[d]
  <2>1. e \in Event /\ ValidateBusinessRules(e)
    BY <1>1 DEF InsertTelemetryEvent, TypeInv, Screened, InProcess
  <2>2. /\ Tuple(e) \notin telemetry
        /\ telemetry' = telemetry \cup {Tuple(e)}
        /\ UNCHANGED poleStates
    BY <1>1, "ackLost" \notin Faults DEF InsertTelemetryEvent
  <2>3. Promise!Record(e)
    BY <2>1, <2>2
       DEF Promise!Record, Promise!Recorded, Promise!FromItsDevice, Tuple,
           ValidateBusinessRules
  <2>. QED
    BY <2>1, <2>3 DEF Promise!Next
<1>2. ASSUME NEW d \in Drainer, UpdatePoleState(d), poleStates' # poleStates
      PROVE  Promise!Next
  <2> DEFINE e == current[d]
  <2>1. phase[d] = "update"
    BY <1>2 DEF UpdatePoleState
  <2>2. /\ e \in Event
        /\ ValidateBusinessRules(e)
        /\ next[d] = ApplyEventToState(poleStates[e.pole], e)
        /\ Before(poleStates[e.pole].cursor, PositionOf(e))
    BY <2>1, UpdateAdvances
  <2>3. Tuple(e) \in telemetry
    BY <2>1 DEF BackedInv
  <2>4. /\ poleStates' = [poleStates EXCEPT ![e.pole] = next[d]]
        /\ UNCHANGED telemetry
    BY <1>2, "ackLost" \notin Faults DEF UpdatePoleState, WithNext
  <2>5. Promise!Apply(e)
    BY <2>2, <2>3, <2>4, SameVocabulary
       DEF Promise!Apply, Promise!Recorded, Promise!FromItsDevice, Tuple,
           ValidateBusinessRules
  <2>. QED
    BY <2>2, <2>5 DEF Promise!Next
<1>3. ASSUME NEW r \in Request, NEW b \in Batch, Submit(r, b)
      PROVE  UNCHANGED <<telemetry, poleStates>>
  BY <1>3 DEF Submit
<1>4. ASSUME NEW r \in Request, AdmitStep(r)
      PROVE  UNCHANGED <<telemetry, poleStates>>
  BY <1>4
     DEF AdmitStep, BeginAdmit, FindTelemetryEvent, AnswerFound, AnswerStale,
         Accept
<1>5. ASSUME NEW d \in Drainer, DrainStep(d)
      PROVE  Promise!Next \/ UNCHANGED <<telemetry, poleStates>>
  <2>1. CASE InsertTelemetryEvent(d)
    BY <1>1, <2>1 DEF InsertTelemetryEvent
  <2>2. CASE UpdatePoleState(d)
    BY <1>2, <2>2 DEF UpdatePoleState
  <2>3. CASE ~(InsertTelemetryEvent(d) \/ UpdatePoleState(d))
    BY <1>5, <2>3
       DEF DrainStep, StartDrain, ContinueDrain, EndDrain, Abandon,
           BeginApply, EndApply
  <2>. QED
    BY <2>1, <2>2, <2>3
<1>6. CASE Crash \/ Restart \/ UNCHANGED vars
  BY <1>6 DEF Crash, Restart, vars
<1>. QED
  BY <1>3, <1>4, <1>5, <1>6 DEF Next

(* The tables written by the pipeline behave as PoleStream promises:       *)
(* write-ahead, each tuple recorded once, applied at most once and in      *)
(* stream order.                                                           *)
THEOREM PipelineImplementsPoleStream ==
  ASSUME "ackLost" \notin Faults
  PROVE  Spec => ImplementsPoleStream
<1>1. SyncInv /\ TypeInv /\ DrainInv /\ DrainInv' /\ QueueInv /\ [Next]_vars
        => SyncInv'
  BY SyncStep
<1>2. TypeInv /\ DrainInv /\ QueueInv /\ BackedInv /\ SyncInv /\ [Next]_vars
        => [Promise!Next]_<<telemetry, poleStates>>
  BY StepPromise
<1>. QED
  BY <1>1, <1>2, QueueInvariant, InitBackedInv, BackedStep, InitSyncInv,
     InitPromise, PTL
     DEF Spec, ImplementsPoleStream, Promise!Spec
=============================================================================
