------------------------ MODULE MCTelemetryPipeline ------------------------
(* Instances of TelemetryPipeline for TLC.                                 *)
EXTENDS TelemetryPipeline, TLC

CONSTANTS p1, p2, d1, d2

MCPole == {p1, p2}
MCDeviceOf == (p1 :> d1) @@ (p2 :> d2)

E(p, d, b, s, k) ==
  [pole |-> p, device |-> d, bootCounter |-> b, seq |-> s, kind |-> k]

(* Pole p1 loses power, reports again, reboots (seq restarts); p2 loses    *)
(* power.                                                                  *)
Lost   == E(p1, d1, 0, 1, "power_lost")
Beat   == E(p1, d1, 0, 2, "heartbeat")
Reboot == E(p1, d1, 1, 0, "boot")
Other  == E(p2, d2, 0, 0, "power_lost")
(* A device that reports for a pole it is not registered on.               *)
Foreign == E(p2, d1, 0, 3, "heartbeat")

MCEvent == {Lost, Beat, Reboot, Other, Foreign}

Single(S) == {<<e>> : e \in S}

SafetyBatches == Single({Lost, Reboot, Other}) \cup {<<Lost, Beat>>, <<Foreign, Other>>}
RetryBatches == Single({Reboot}) \cup {<<Lost, Reboot>>}

Symmetry == Permutations(Request) \cup Permutations(Drainer)
=============================================================================
