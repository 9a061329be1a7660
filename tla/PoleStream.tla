----------------------------- MODULE PoleStream -----------------------------
(***************************************************************************)
(* What the telemetry path promises about its two tables, whatever happens *)
(* between a device's first transmission and the database: events are      *)
(* recorded, each tuple once; a recorded event may then be applied to the  *)
(* row of its pole, but only if it is newer than everything applied to     *)
(* that row so far.  Events may stay unapplied: at-most-once, in order.    *)
(***************************************************************************)
EXTENDS PoleEvents

CONSTANTS Pole, DeviceOf, Event

VARIABLES
  log,     \* the recorded (device, bootCounter, seq) tuples
  state    \* the pole states

Recorded(e) == <<e.device, e.bootCounter, e.seq>> \in log

FromItsDevice(e) == e.pole \in Pole /\ DeviceOf[e.pole] = e.device

Init == log = {} /\ state = [p \in Pole |-> SeededState]

Record(e) ==
  /\ FromItsDevice(e)
  /\ ~Recorded(e)
  /\ log' = log \cup {<<e.device, e.bootCounter, e.seq>>}
  /\ UNCHANGED state

Apply(e) ==
  /\ FromItsDevice(e)
  /\ Recorded(e)
  /\ Before(state[e.pole].cursor, PositionOf(e))
  /\ state' = [state EXCEPT ![e.pole] = ApplyEventToState(@, e)]
  /\ UNCHANGED log

Next == \E e \in Event : Record(e) \/ Apply(e)

Spec == Init /\ [][Next]_<<log, state>>
=============================================================================
