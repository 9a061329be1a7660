---------------------------- MODULE FaultRegister ----------------------------
(***************************************************************************)
(* What fault orchestration promises about the table of faults, whatever   *)
(* transitions, handlers and failures do: faults are only added and        *)
(* closed; at most one active fault stands for one boundary or asset; and  *)
(* what a fault was opened on never changes.                               *)
(***************************************************************************)
EXTENDS Sequences, Integers

CONSTANTS Identity, Evidence

VARIABLE register   \* the faults, in the order they were opened

Entry == [identity : Identity, evidence : Evidence,
          status : {"active", "resolved"}]

IsOpen(i) == \E k \in DOMAIN register :
               register[k].identity = i /\ register[k].status = "active"

Init == register = <<>>

Open ==
  /\ Len(register') = Len(register) + 1
  /\ LET new == register'[Len(register')]
     IN  /\ register' = Append(register, new)
         /\ new \in Entry /\ new.status = "active"
         /\ ~IsOpen(new.identity)

Close ==
  \E k \in DOMAIN register :
    /\ register[k].status = "active"
    /\ register' = [register EXCEPT ![k].status = "resolved"]

Next == Open \/ Close

Spec == Init /\ [][Next]_register
=============================================================================
