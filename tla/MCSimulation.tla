--------------------------- MODULE MCSimulation ---------------------------
(* Two devices below one transformer and a fault that also covers a pole   *)
(* without a device.                                                       *)
EXTENDS Simulation, TLC

CONSTANTS p1, p2, p3, t1, f1

TwoBelow == t1 :> {p1, p2}

OneFault == f1 :> {p1, p3}

(* The second pole can send one event before it would have to restart.     *)
SeqBound == p1 :> 2 @@ p2 :> 1 @@ p3 :> 1

Symmetry == Permutations(Request)
=============================================================================
