--------------------------- MODULE MCLocalization ---------------------------
(* Instances of LocalizationScan for TLC.                                  *)
EXTENDS LocalizationScan, TLC

CONSTANT f1

(* Transformer 1 has a recorded tree of five poles: the least in which one *)
(* span can lie inside another.  Transformer 2 has one pole and no         *)
(* recorded topology.                                                      *)
MCPole == 1 .. 6
MCDTOf == [p \in MCPole |-> IF p <= 5 THEN 1 ELSE 2]
MCFeederOf == [t \in 1 .. 2 |-> f1]
MCOutageCases == {{}, {1}, {f1}}
=============================================================================
