---------------------------- MODULE MCTicketWorkflow ----------------------------
(* Instances of TicketWorkflow for TLC.                                    *)
EXTENDS TicketWorkflow, TLC

CONSTANTS p1, p2, p3, f1, f2

(* One fault on two poles and on p3, which has no device.                 *)
OneAffected == (f1 :> {p1, p2, p3})

(* A span fault on p1 and a transformer fault on p1, p2 and the pole p3    *)
(* that has no device.                                                     *)
OverlappingAffected == (f1 :> {p1}) @@ (f2 :> {p1, p2, p3})

Symmetry == Permutations(Command) \cup Permutations(Handler) \cup Permutations(Crew)
=============================================================================
