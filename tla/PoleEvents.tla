----------------------------- MODULE PoleEvents -----------------------------
(***************************************************************************)
(* The vocabulary shared by the telemetry path: the events a pole sensor   *)
(* sends, the position of an event in its device's stream, and the state   *)
(* that the server keeps per pole.                                         *)
(*                                                                         *)
(* A pole state is abstracted to its energized level and its stream cursor *)
(* (last_boot_counter, last_seq).  Battery, RSSI, firmware and timestamps  *)
(* are payload: no branch of the telemetry path reads them.                *)
(***************************************************************************)
EXTENDS Integers

EventKind == {"heartbeat", "power_lost", "power_restored", "boot"}

Energized == {"LIVE", "DARK", "PRESUMED_DARK", "UNKNOWN"}

Position == [bootCounter : Nat, seq : Nat]

(* The null cursor of a pole that has not reported yet.  The code treats   *)
(* every event as newer than it, and so does Before.                       *)
NoPosition == [bootCounter |-> -1, seq |-> -1]

Cursor == Position \cup {NoPosition}

PoleState == [energized : Energized, cursor : Cursor]

(* The row that seeding writes for every pole.                             *)
SeededState == [energized |-> "UNKNOWN", cursor |-> NoPosition]

PositionOf(e) == [bootCounter |-> e.bootCounter, seq |-> e.seq]

(* Lexicographic order: seq is never compared across boot counters.        *)
Before(a, b) ==
  \/ a.bootCounter < b.bootCounter
  \/ a.bootCounter = b.bootCounter /\ a.seq < b.seq

(* The energized level after an event of kind k.                           *)
EnergizedFor(level, k) ==
  CASE k = "power_lost"                -> "DARK"
    [] k \in {"power_restored", "boot"} -> "LIVE"
    [] k = "heartbeat"                 -> level

ApplyEventToState(state, e) ==
  [energized |-> EnergizedFor(state.energized, e.kind),
   cursor    |-> PositionOf(e)]
=============================================================================
