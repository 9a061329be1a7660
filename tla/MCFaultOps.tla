---------------------------- MODULE MCFaultOps ----------------------------
(* Instances of FaultOps for TLC.                                          *)
EXTENDS FaultOps

CONSTANT f1

Symmetry == Permutations(Worker) \cup Permutations(Handler)

(* Two transformers of two poles, a recorded line and an unknown wiring:   *)
(* a span and a transformer fault, and one whose evidence may grow.        *)
PairPole == 1 .. 4
PairDTOf == [p \in PairPole |-> IF p <= 2 THEN 1 ELSE 2]
PairParent == [p \in PairPole |-> IF p = 2 THEN 1 ELSE 0]

(* A recorded tree, pole 1 above poles 2 and 3, and pole 4 of unknown      *)
(* wiring: two spans at once, a dead sensor, faults of all three types.    *)
TreePole == 1 .. 4
TreeDTOf == [p \in TreePole |-> IF p <= 3 THEN 1 ELSE 2]
TreeParent == [p \in TreePole |-> IF p \in {2, 3} THEN 1 ELSE 0]

(* A recorded line of three poles, all of one transformer.                 *)
LinePole == 1 .. 3
LineDTOf == [p \in LinePole |-> 1]
LineParent == [p \in LinePole |-> p - 1]

MCFeederOf == [t \in Transformer |-> f1]
MCOutageCases == {{}, {1}}
=============================================================================
