---------------------------- MODULE FaultResolution ----------------------------
(***************************************************************************)
(* What ticket management promises about closing a fault, whoever asks and *)
(* in whatever order: a fault is resolved once, by one actor, in the same  *)
(* step that stamps its ticket; and only an actor that has seen enough of  *)
(* the fault's monitored poles LIVE may do it. An operator's word alone    *)
(* never resolves a fault.                                                 *)
(***************************************************************************)
EXTENDS Integers, FiniteSets

CONSTANTS
  Pole, Monitored, Fault, Affected,
  Actor,             \* operator requests and restoration handlers
  NoFault, NoActor,
  ThresholdPercent

VARIABLES
  energized,    \* the level telemetry gives each pole
  fault,        \* status of each fault row
  verifiedBy,   \* whose verification the ticket is stamped with
  vouched       \* the fault each actor has seen restored and not yet decided

vars == <<energized, fault, verifiedBy, vouched>>

MonitoredIn(f) == Affected[f] \cap Monitored
LiveIn(f) == {p \in MonitoredIn(f) : energized[p] = "LIVE"}

Restored(f) ==
  /\ MonitoredIn(f) # {}
  /\ 100 * Cardinality(LiveIn(f)) >= ThresholdPercent * Cardinality(MonitoredIn(f))

Init ==
  /\ energized = [p \in Pole |-> IF p \in Monitored THEN "DARK" ELSE "UNKNOWN"]
  /\ fault = [f \in Fault |-> "active"]
  /\ verifiedBy = [f \in Fault |-> NoActor]
  /\ vouched = [a \in Actor |-> NoFault]

PoleChanges(p) ==
  /\ p \in Monitored
  /\ \E level \in {"LIVE", "DARK"} : energized' = [energized EXCEPT ![p] = level]
  /\ UNCHANGED <<fault, verifiedBy, vouched>>

(* An actor may give up one fault and vouch for the next in one step.      *)
Vouch(a, f) ==
  /\ Restored(f)
  /\ vouched' = [vouched EXCEPT ![a] = f]
  /\ UNCHANGED <<energized, fault, verifiedBy>>

Withdraw(A) ==
  /\ vouched' = [a \in Actor |-> IF a \in A THEN NoFault ELSE vouched[a]]
  /\ UNCHANGED <<energized, fault, verifiedBy>>

Resolve(a) ==
  /\ vouched[a] # NoFault
  /\ fault[vouched[a]] = "active"
  /\ fault' = [fault EXCEPT ![vouched[a]] = "resolved"]
  /\ verifiedBy' = [verifiedBy EXCEPT ![vouched[a]] = a]
  /\ vouched' = [vouched EXCEPT ![a] = NoFault]
  /\ UNCHANGED energized

Next ==
  \/ \E p \in Pole : PoleChanges(p)
  \/ \E a \in Actor, f \in Fault : Vouch(a, f)
  \/ \E A \in SUBSET Actor : Withdraw(A)
  \/ \E a \in Actor : Resolve(a)

Spec == Init /\ [][Next]_vars
================================================================================
