-------------------------- MODULE TicketWorkflowProofs --------------------------
(***************************************************************************)
(* Proofs about TicketWorkflow for any poles, faults, evidence, requests,  *)
(* handlers and failures: type correctness, agreement of the two rows,     *)
(* crews, and the refinement of FaultResolution.                           *)
(***************************************************************************)
EXTENDS TicketWorkflow, TLAPS

-----------------------------------------------------------------------------
(* What a request or handler in flight carries. The row a request read may *)
(* be stale, but what it says of crew and rejections still binds the       *)
(* ticket: no update takes the crew away.                                  *)

HasCrew(t) == t.status = "crew_assigned" \/ t.rejections > 0 => t.crew # NoCrew

CommandHolds(c) ==
  /\ command[c].phase # "idle" => command[c].fault \in Fault
  /\ command[c].phase # "idle" /\ command[c].kind = "assign" => command[c].crew \in Crew
  /\ command[c].phase \in {"deciding", "writing"} =>
       /\ command[c].kind = "resolve" => command[c].row.rejections < MaxRejections
       /\ HasCrew(command[c].row)
       /\ command[c].row.crew # NoCrew => ticket[command[c].fault].crew # NoCrew
  /\ command[c].phase = "writing" => command[c].row.status \in Allows(command[c].kind)

HandlerHolds(h) == handler[h].phase = "verifying" => handler[h].fault \in Fault

InFlight ==
  /\ \A c \in Command : CommandHolds(c)
  /\ \A h \in Handler : HandlerHolds(h)

WorkflowInv == TypeOK /\ InFlight /\ RowsAgree /\ AssignedTicketHasCrew

-----------------------------------------------------------------------------
(* What the updates of TicketLifecycle do to a row.                        *)

(* An update gives a row, leaves the verification alone, never verifies,   *)
(* and never takes a crew away.                                            *)
LEMMA UpdatedRow ==
  ASSUME NEW t \in Ticket, NEW s \in CommandState,
         s.kind = "resolve" => s.row.rejections < MaxRejections
  PROVE  /\ Updated(t, s) \in Ticket
         /\ Updated(t, s).verifiedBy = t.verifiedBy
         /\ Updated(t, s).status # "verified"
         /\ s.kind # "assign" => Updated(t, s).crew = t.crew
         /\ s.kind = "assign" => Updated(t, s).crew = s.crew
         /\ s.kind = "acknowledge" => Updated(t, s).rejections = t.rejections
         /\ s.kind = "acknowledge" => Updated(t, s).status # "crew_assigned"
  <1>0. MaxRejections \in Nat
    BY WorkflowAssumption
  <1>1. CASE s.kind = "acknowledge"
    BY <1>1 DEF Updated, Acknowledged, Ticket, Status, Restorable
  <1>2. CASE s.kind = "assign"
    <2>1. s.crew \in Crew \cup {NoCrew}
      BY DEF CommandState
    <2> QED BY <1>2, <2>1 DEF Updated, Assigned, Ticket, Status, Restorable
  <1>3. CASE s.kind = "resolve"
    <2>1. s.row.rejections \in 0 .. MaxRejections
      BY DEF CommandState, Ticket
    <2>2. s.row.rejections + 1 \in 0 .. MaxRejections
      BY <1>0, <1>3, <2>1
    <2> QED BY <1>3, <2>2 DEF Updated, Rejected, Ticket, Status, Restorable
  <1> QED BY <1>1, <1>2, <1>3 DEF CommandState, Kind

LEMMA VerifiedRow ==
  ASSUME NEW t \in Ticket, NEW a \in Actor
  PROVE  /\ Verified(t, a) \in Ticket
         /\ Verified(t, a).verifiedBy = a
         /\ Verified(t, a).status = "verified"
         /\ Verified(t, a).crew = t.crew
         /\ Verified(t, a).rejections = t.rejections
  BY DEF Verified, Ticket, Status, Restorable

LEMMA FreshValues ==
  /\ NewTicket \in Ticket
  /\ IdleCommand \in CommandState
  /\ IdleHandler \in HandlerState
  <1>1. NewTicket \in Ticket
    BY WorkflowAssumption DEF NewTicket, Ticket, Status, Restorable
  <1> QED BY <1>1 DEF IdleCommand, IdleHandler, CommandState, HandlerState, Kind

-----------------------------------------------------------------------------
(* Steps that only move requests and handlers: the rows stay.              *)

USE DEF CommandHolds, HandlerHolds

LEMMA RowsStay ==
  ASSUME WorkflowInv, UNCHANGED <<fault, ticket>>
  PROVE  RowsAgree' /\ AssignedTicketHasCrew'
  BY DEF WorkflowInv, RowsAgree, AssignedTicketHasCrew

(* Replacing one request by a state that holds keeps all of them.          *)
LEMMA OneCommandMoves ==
  ASSUME WorkflowInv, UNCHANGED <<ticket, handler>>,
         NEW c \in Command, NEW s \in CommandState,
         command' = [command EXCEPT ![c] = s],
         CommandHolds(c)'
  PROVE  InFlight' /\ command' \in [Command -> CommandState]
  BY DEF WorkflowInv, TypeOK, InFlight

LEMMA OneHandlerMoves ==
  ASSUME WorkflowInv, UNCHANGED <<ticket, command>>,
         NEW h \in Handler, NEW s \in HandlerState,
         handler' = [handler EXCEPT ![h] = s],
         s.phase = "verifying" => s.fault \in Fault
  PROVE  InFlight' /\ handler' \in [Handler -> HandlerState]
  BY DEF WorkflowInv, TypeOK, InFlight

LEMMA FindTicketKeeps ==
  ASSUME WorkflowInv, NEW c \in Command, FindTicket(c)
  PROVE  WorkflowInv'
  <1>1. PICK f \in Fault, kind \in Kind, crew \in Crew :
          /\ kind = "resolve" => ticket[f].rejections < MaxRejections
          /\ command' = [command EXCEPT ![c] =
               [phase |-> "deciding", kind |-> kind, fault |-> f,
                crew |-> IF kind = "assign" THEN crew ELSE NoCrew,
                row |-> ticket[f]]]
    BY DEF FindTicket
  <1> DEFINE s == [phase |-> "deciding", kind |-> kind, fault |-> f,
                   crew |-> IF kind = "assign" THEN crew ELSE NoCrew,
                   row |-> ticket[f]]
  <1>2. ticket[f] \in Ticket
    BY DEF WorkflowInv, TypeOK
  <1>3. s \in CommandState
    BY <1>2 DEF CommandState
  <1>4. UNCHANGED <<energized, fault, ticket, handler, announced>>
    BY DEF FindTicket
  <1>5. HasCrew(ticket[f])
    BY DEF WorkflowInv, AssignedTicketHasCrew, HasCrew
  <1>6. command'[c] = s
    BY <1>1 DEF WorkflowInv, TypeOK
  <1>7. CommandHolds(c)'
    BY <1>1, <1>4, <1>5, <1>6 DEF HasCrew
  <1>8. InFlight' /\ command' \in [Command -> CommandState]
    BY <1>1, <1>3, <1>4, <1>7, OneCommandMoves
  <1>9. answer' \in [Command -> {"none", "ok", "conflict", "error"}]
    BY DEF FindTicket, WorkflowInv, TypeOK
  <1>10. TypeOK'
    BY <1>4, <1>8, <1>9 DEF WorkflowInv, TypeOK
  <1> QED BY <1>4, <1>8, <1>10, RowsStay DEF WorkflowInv

LEMMA DecideKeeps ==
  ASSUME WorkflowInv, NEW c \in Command, Decide(c)
  PROVE  WorkflowInv'
  <1> DEFINE next == IF command[c].kind = "resolve" /\ Restored(command[c].fault)
                     THEN "verifying" ELSE "writing"
             s == [command[c] EXCEPT !.phase = next]
  <1>1. UNCHANGED <<energized, fault, ticket, answer, handler, announced>>
    BY DEF Decide
  <1>2. command' = [command EXCEPT ![c] = s]
    BY DEF Decide
  <1>3. command[c] \in CommandState
    BY DEF WorkflowInv, TypeOK
  <1>4. s \in CommandState
    BY <1>3 DEF CommandState
  <1>5. command'[c] = s
    BY <1>2 DEF WorkflowInv, TypeOK
  <1>6. /\ s.fault = command[c].fault /\ s.kind = command[c].kind
        /\ s.crew = command[c].crew /\ s.row = command[c].row
    BY <1>3 DEF CommandState
  <1>7. CommandHolds(c)'
    BY <1>1, <1>5, <1>6 DEF Decide, WorkflowInv, InFlight, HasCrew
  <1>8. InFlight' /\ command' \in [Command -> CommandState]
    BY <1>1, <1>2, <1>4, <1>7, OneCommandMoves
  <1>9. TypeOK'
    BY <1>1, <1>8 DEF WorkflowInv, TypeOK
  <1> QED BY <1>1, <1>8, <1>9, RowsStay DEF WorkflowInv

(* A request that ends without touching the rows.                          *)
LEMMA FinishKeeps ==
  ASSUME WorkflowInv, NEW c \in Command, NEW r \in {"ok", "conflict", "error"},
         Finish(c, r), UNCHANGED <<energized, fault, ticket, handler>>,
         announced' \in [Fault -> Status]
  PROVE  WorkflowInv'
  <1>1. command' = [command EXCEPT ![c] = IdleCommand]
    BY DEF Finish
  <1>2. command'[c] = IdleCommand
    BY <1>1 DEF WorkflowInv, TypeOK
  <1>3. CommandHolds(c)'
    BY <1>2 DEF IdleCommand
  <1>4. InFlight' /\ command' \in [Command -> CommandState]
    BY <1>1, <1>3, FreshValues, OneCommandMoves
  <1>5. answer' \in [Command -> {"none", "ok", "conflict", "error"}]
    BY DEF Finish, WorkflowInv, TypeOK
  <1>6. TypeOK'
    BY <1>4, <1>5 DEF WorkflowInv, TypeOK
  <1> QED BY <1>4, <1>6, RowsStay DEF WorkflowInv

LEMMA PublishKeeps ==
  ASSUME WorkflowInv, NEW c \in Command, Publish(c)
  PROVE  WorkflowInv'
  <1>1. command[c].row.status \in Status
    BY DEF WorkflowInv, TypeOK, CommandState, Ticket
  <1>2. announced' \in [Fault -> Status]
    BY <1>1 DEF Publish, WorkflowInv, TypeOK
  <1> QED BY <1>2, FinishKeeps DEF Publish

LEMMA HandlerMoveKeeps ==
  ASSUME WorkflowInv, NEW h \in Handler, NEW s \in HandlerState,
         handler' = [handler EXCEPT ![h] = s],
         s.phase = "verifying" => s.fault \in Fault,
         UNCHANGED <<fault, ticket, command, answer>>,
         energized' \in [Pole -> {"LIVE", "DARK", "UNKNOWN"}],
         announced' \in [Fault -> Status]
  PROVE  WorkflowInv'
  <1>1. InFlight' /\ handler' \in [Handler -> HandlerState]
    BY OneHandlerMoves
  <1>2. TypeOK'
    BY <1>1 DEF WorkflowInv, TypeOK
  <1> QED BY <1>1, <1>2, RowsStay DEF WorkflowInv

LEMMA AnnouncedVerified ==
  ASSUME WorkflowInv, NEW h \in Handler, PublishVerified(h)
  PROVE  announced' \in [Fault -> Status]
  BY DEF WorkflowInv, TypeOK, PublishVerified, HandlerState, Ticket

LEMMA SweepKeeps ==
  ASSUME WorkflowInv, NEW h \in Handler, Sweep(h)
  PROVE  WorkflowInv'
  <1>1. PICK f \in handler[h].todo, skipped \in SUBSET handler[h].todo :
          handler' = [handler EXCEPT ![h] =
            [IdleHandler EXCEPT !.phase = "verifying", !.fault = f,
                                !.todo = handler[h].todo \ (skipped \cup {f})]]
    BY DEF Sweep
  <1> DEFINE s == [IdleHandler EXCEPT !.phase = "verifying", !.fault = f,
                                      !.todo = handler[h].todo \ (skipped \cup {f})]
  <1>2. handler[h].todo \subseteq Fault
    BY DEF WorkflowInv, TypeOK, HandlerState
  <1>3. s \in HandlerState /\ s.fault \in Fault
    BY <1>2, FreshValues DEF IdleHandler, HandlerState
  <1>4. announced' \in [Fault -> Status]
    BY AnnouncedVerified DEF Sweep
  <1>5. UNCHANGED <<energized, fault, ticket, command, answer>>
    BY DEF Sweep
  <1> QED BY <1>1, <1>3, <1>4, <1>5, HandlerMoveKeeps DEF WorkflowInv, TypeOK

LEMMA EndSweepKeeps ==
  ASSUME WorkflowInv, NEW h \in Handler, EndSweep(h)
  PROVE  WorkflowInv'
  <1>1. announced' \in [Fault -> Status]
    BY AnnouncedVerified DEF EndSweep
  <1>2. IdleHandler.phase # "verifying"
    BY DEF IdleHandler
  <1> QED BY <1>1, <1>2, FreshValues, HandlerMoveKeeps DEF EndSweep, WorkflowInv, TypeOK

LEMMA AbandonSweepKeeps ==
  ASSUME WorkflowInv, NEW h \in Handler, AbandonSweep(h)
  PROVE  WorkflowInv'
  <1>1. IdleHandler.phase # "verifying"
    BY DEF IdleHandler
  <1> QED BY <1>1, FreshValues, HandlerMoveKeeps DEF AbandonSweep, WorkflowInv, TypeOK

LEMMA ListRestorableKeeps ==
  ASSUME WorkflowInv, NEW h \in Handler, ListRestorable(h)
  PROVE  WorkflowInv'
  <1> DEFINE listed == {f \in handler[h].todo :
                          fault[f] = "active" /\ ticket[f].status \in Restorable}
             s == [handler[h] EXCEPT !.phase = "sweeping", !.todo = listed]
  <1>1. handler[h] \in HandlerState
    BY DEF WorkflowInv, TypeOK
  <1>2. listed \in SUBSET Fault
    BY <1>1 DEF HandlerState
  <1>3. s \in HandlerState /\ s.phase = "sweeping"
    BY <1>1, <1>2 DEF HandlerState
  <1>4. handler' = [handler EXCEPT ![h] = s]
    BY <1>1 DEF ListRestorable
  <1>5. UNCHANGED <<energized, fault, ticket, command, answer, announced>>
    BY DEF ListRestorable
  <1> HIDE DEF s
  <1> QED BY <1>3, <1>4, <1>5, HandlerMoveKeeps DEF WorkflowInv, TypeOK

LEMMA DarkenKeeps ==
  ASSUME WorkflowInv, NEW p \in Pole, Darken(p)
  PROVE  WorkflowInv'
  BY DEF WorkflowInv, TypeOK, InFlight, RowsAgree, AssignedTicketHasCrew, Darken

LEMMA RestoreKeeps ==
  ASSUME WorkflowInv, NEW p \in Pole, NEW h \in Handler, Restore(p, h)
  PROVE  WorkflowInv'
  <1> DEFINE s == [IdleHandler EXCEPT !.phase = "listing",
                                      !.todo = {f \in Fault : p \in Affected[f]}]
  <1>1. s \in HandlerState /\ s.phase = "listing"
    BY FreshValues DEF IdleHandler, HandlerState
  <1>2. handler' = [handler EXCEPT ![h] = s]
    BY DEF Restore
  <1>3. energized' \in [Pole -> {"LIVE", "DARK", "UNKNOWN"}]
    BY DEF Restore, WorkflowInv, TypeOK
  <1>4. UNCHANGED <<fault, ticket, command, answer, announced>>
    BY DEF Restore
  <1> HIDE DEF s
  <1> QED BY <1>1, <1>2, <1>3, <1>4, HandlerMoveKeeps DEF WorkflowInv, TypeOK

LEMMA CrashKeeps ==
  ASSUME WorkflowInv, Crash
  PROVE  WorkflowInv'
  <1>1. \A c \in Command : command'[c] = IdleCommand
    BY DEF Crash
  <1>2. \A h \in Handler : handler'[h] = IdleHandler
    BY DEF Crash
  <1>3. InFlight'
    BY <1>1, <1>2 DEF InFlight, IdleCommand, IdleHandler
  <1>4. /\ command' \in [Command -> CommandState]
        /\ handler' \in [Handler -> HandlerState]
        /\ answer' \in [Command -> {"none", "ok", "conflict", "error"}]
    BY FreshValues DEF Crash
  <1>5. TypeOK'
    BY <1>4 DEF Crash, WorkflowInv, TypeOK
  <1> QED BY <1>3, <1>5, RowsStay DEF Crash, WorkflowInv

-----------------------------------------------------------------------------
(* Steps that write rows. Every other request's claim survives because a   *)
(* crew is never taken away.                                               *)

(* A change of one ticket row that keeps its crew, with a request ending   *)
(* or going on to publish, keeps what is in flight.                        *)
LEMMA RowChangeKeepsRequests ==
  ASSUME WorkflowInv, NEW f \in Fault, NEW t \in Ticket,
         ticket' = [ticket EXCEPT ![f] = t],
         ticket[f].crew # NoCrew => t.crew # NoCrew,
         NEW D \in SUBSET Command,
         command' \in [Command -> CommandState],
         \A c \in Command \ D : command'[c] = command[c],
         \A c \in D : \/ command'[c] = IdleCommand
                      \/ /\ command'[c].phase = "publishing"
                         /\ command'[c].fault = command[c].fault
                         /\ command'[c].kind = command[c].kind
                         /\ command'[c].crew = command[c].crew
                         /\ command[c].phase # "idle"
  PROVE  \A c \in Command : CommandHolds(c)'
  <1> SUFFICES ASSUME NEW c \in Command
               PROVE  CommandHolds(c)'
    OBVIOUS
  <1>1. CommandHolds(c)
    BY DEF WorkflowInv, InFlight
  <1>2. \A g \in Fault : ticket[g].crew # NoCrew => ticket'[g].crew # NoCrew
    BY DEF WorkflowInv, TypeOK
  <1>3. CASE c \notin D
    BY <1>1, <1>2, <1>3 DEF HasCrew
  <1>4. CASE c \in D
    BY <1>1, <1>4 DEF IdleCommand
  <1> QED BY <1>3, <1>4

LEMMA WriteTicketKeeps ==
  ASSUME WorkflowInv, NEW c \in Command, WriteTicket(c)
  PROVE  WorkflowInv'
  <1> DEFINE s == command[c]
             f == s.fault
             t == Updated(ticket[f], s)
  <1>1. s \in CommandState /\ CommandHolds(c) /\ s.phase = "writing"
    BY DEF WorkflowInv, TypeOK, InFlight, WriteTicket
  <1>2. f \in Fault /\ ticket[f] \in Ticket
    BY <1>1 DEF WorkflowInv, TypeOK
  <1>3. /\ t \in Ticket
        /\ t.verifiedBy = ticket[f].verifiedBy
        /\ t.status # "verified"
        /\ s.kind # "assign" => t.crew = ticket[f].crew
        /\ s.kind = "assign" => t.crew = s.crew
        /\ s.kind = "acknowledge" => t.rejections = ticket[f].rejections
        /\ s.kind = "acknowledge" => t.status # "crew_assigned"
    BY <1>1, <1>2, UpdatedRow
  <1>4. ticket' = [ticket EXCEPT ![f] = t]
    BY DEF WriteTicket
  <1>5. UNCHANGED <<energized, fault, handler, announced>>
    BY DEF WriteTicket
  <1>6. ticket' \in [Fault -> Ticket] /\ ticket'[f] = t
    BY <1>2, <1>3, <1>4 DEF WorkflowInv, TypeOK
  <1>7. HasCrew(ticket[f])
    BY <1>2 DEF WorkflowInv, AssignedTicketHasCrew, HasCrew
  <1>8. s.kind = "assign" => t.crew # NoCrew
    BY <1>1, <1>3, WorkflowAssumption
  <1>9. s.kind = "resolve" => t.crew # NoCrew
    <2>1. s.kind = "resolve" => s.row.status = "crew_assigned"
      BY <1>1 DEF Allows
    <2> QED BY <1>1, <1>3, <2>1 DEF HasCrew
  <1>10. HasCrew(t)
    BY <1>1, <1>3, <1>7, <1>8, <1>9 DEF HasCrew, CommandState, Kind
  <1>11. ticket[f].crew # NoCrew => t.crew # NoCrew
    BY <1>3, <1>8
  <1>12. /\ command' \in [Command -> CommandState]
         /\ answer' \in [Command -> {"none", "ok", "conflict", "error"}]
         /\ \A x \in Command \ {c} : command'[x] = command[x]
         /\ \/ command'[c] = IdleCommand
            \/ /\ command'[c].phase = "publishing"
               /\ command'[c].fault = s.fault /\ command'[c].kind = s.kind
               /\ command'[c].crew = s.crew
    <2>1. CASE Finish(c, "error")
      BY <2>1, FreshValues DEF Finish, WorkflowInv, TypeOK
    <2>2. CASE /\ command' = [command EXCEPT ![c].phase = "publishing",
                                             ![c].row = ticket'[s.fault]]
               /\ UNCHANGED answer
      <3>1. [s EXCEPT !.phase = "publishing", !.row = t] \in CommandState
        BY <1>1, <1>3 DEF CommandState
      <3>2. command' = [command EXCEPT ![c] = [s EXCEPT !.phase = "publishing", !.row = t]]
        BY <1>6, <2>2
      <3>3. command'[c] = [s EXCEPT !.phase = "publishing", !.row = t]
        BY <3>2 DEF WorkflowInv, TypeOK
      <3>4. /\ command'[c].phase = "publishing" /\ command'[c].fault = s.fault
            /\ command'[c].kind = s.kind /\ command'[c].crew = s.crew
        BY <1>1, <3>3 DEF CommandState
      <3>5. command' \in [Command -> CommandState]
        BY <3>1, <3>2 DEF WorkflowInv, TypeOK
      <3> QED BY <2>2, <3>2, <3>4, <3>5 DEF WorkflowInv, TypeOK
    <2> QED BY <2>1, <2>2 DEF WriteTicket
  <1>13. \A x \in Command : CommandHolds(x)'
    <2>1. {c} \in SUBSET Command
      OBVIOUS
    <2> HIDE DEF t
    <2> QED BY <1>1, <1>2, <1>3, <1>4, <1>11, <1>12, <2>1, RowChangeKeepsRequests
  <1>14. InFlight'
    BY <1>5, <1>13 DEF WorkflowInv, InFlight
  <1>15. TypeOK'
    BY <1>5, <1>6, <1>12 DEF WorkflowInv, TypeOK
  <1>16. RowsAgree'
    BY <1>2, <1>3, <1>4, <1>5 DEF WorkflowInv, TypeOK, RowsAgree
  <1>17. AssignedTicketHasCrew'
    BY <1>2, <1>4, <1>10 DEF WorkflowInv, TypeOK, AssignedTicketHasCrew, HasCrew
  <1> QED BY <1>14, <1>15, <1>16, <1>17 DEF WorkflowInv

(* The verifying transaction.                                              *)
LEMMA CommitKeepsRows ==
  ASSUME WorkflowInv, NEW f \in Fault, NEW a \in Actor, CommitVerification(f, a)
  PROVE  /\ Verified(ticket[f], a) \in Ticket
         /\ Verified(ticket[f], a).crew = ticket[f].crew
         /\ ticket' = [ticket EXCEPT ![f] = Verified(ticket[f], a)]
         /\ ticket'[f] = Verified(ticket[f], a)
         /\ ticket' \in [Fault -> Ticket]
         /\ fault' \in [Fault -> {"active", "resolved"}]
         /\ RowsAgree'
         /\ AssignedTicketHasCrew'
  <1> DEFINE t == Verified(ticket[f], a)
  <1>1. ticket \in [Fault -> Ticket] /\ fault \in [Fault -> {"active", "resolved"}]
    BY DEF WorkflowInv, TypeOK
  <1>2. /\ t \in Ticket /\ t.verifiedBy = a /\ t.status = "verified"
        /\ t.crew = ticket[f].crew /\ t.rejections = ticket[f].rejections
    BY <1>1, VerifiedRow
  <1>3. ticket' = [ticket EXCEPT ![f] = t] /\ fault' = [fault EXCEPT ![f] = "resolved"]
    BY DEF CommitVerification
  <1>4. a # NoActor
    BY WorkflowAssumption
  <1> HIDE DEF t
  <1>5. RowsAgree'
    BY <1>1, <1>2, <1>3, <1>4 DEF WorkflowInv, RowsAgree
  <1>6. AssignedTicketHasCrew'
    BY <1>1, <1>2, <1>3 DEF WorkflowInv, AssignedTicketHasCrew
  <1>7. ticket' \in [Fault -> Ticket] /\ fault' \in [Fault -> {"active", "resolved"}]
    BY <1>1, <1>2, <1>3
  <1>8. ticket'[f] = t
    BY <1>1, <1>3
  <1> QED BY <1>2, <1>3, <1>5, <1>6, <1>7, <1>8 DEF t

LEMMA VerifyResolvedKeeps ==
  ASSUME WorkflowInv, NEW c \in Command, VerifyResolved(c)
  PROVE  WorkflowInv'
  <1> DEFINE s == command[c]
             f == s.fault
             t == Verified(ticket[f], c)
             published == [s EXCEPT !.phase = "publishing", !.row = t]
  <1>1. s \in CommandState /\ CommandHolds(c) /\ s.phase = "verifying"
    BY DEF WorkflowInv, TypeOK, InFlight, VerifyResolved
  <1>2. f \in Fault /\ c \in Actor
    BY <1>1 DEF Actor
  <1>3. CommitVerification(f, c) /\ UNCHANGED <<energized, handler, announced>>
    BY DEF VerifyResolved
  <1>4. /\ t \in Ticket /\ t.crew = ticket[f].crew
        /\ ticket' = [ticket EXCEPT ![f] = t] /\ ticket'[f] = t
        /\ ticket' \in [Fault -> Ticket]
        /\ fault' \in [Fault -> {"active", "resolved"}]
        /\ RowsAgree' /\ AssignedTicketHasCrew'
    BY <1>2, <1>3, CommitKeepsRows
  <1>5. /\ command' \in [Command -> CommandState]
        /\ answer' \in [Command -> {"none", "ok", "conflict", "error"}]
        /\ \A x \in Command \ {c} : command'[x] = command[x]
        /\ \/ command'[c] = IdleCommand
           \/ /\ command'[c].phase = "publishing"
              /\ command'[c].fault = s.fault /\ command'[c].kind = s.kind
              /\ command'[c].crew = s.crew
    <2>1. CASE Finish(c, "error")
      BY <2>1, FreshValues DEF Finish, WorkflowInv, TypeOK
    <2>2. CASE /\ command' = [command EXCEPT ![c].phase = "publishing",
                                             ![c].row = ticket'[f]]
               /\ UNCHANGED answer
      <3>1. published \in CommandState
        BY <1>1, <1>4 DEF CommandState
      <3>2. command' = [command EXCEPT ![c] = published]
        BY <1>4, <2>2
      <3>3. command'[c] = published
        BY <3>2 DEF WorkflowInv, TypeOK
      <3>4. /\ command'[c].phase = "publishing" /\ command'[c].fault = s.fault
            /\ command'[c].kind = s.kind /\ command'[c].crew = s.crew
        BY <1>1, <3>3 DEF CommandState
      <3>5. command' \in [Command -> CommandState]
        BY <3>1, <3>2 DEF WorkflowInv, TypeOK
      <3> QED BY <2>2, <3>2, <3>4, <3>5 DEF WorkflowInv, TypeOK
    <2> QED BY <2>1, <2>2 DEF VerifyResolved
  <1>6. \A x \in Command : CommandHolds(x)'
    <2>1. {c} \in SUBSET Command
      OBVIOUS
    <2>2. ticket[f].crew # NoCrew => t.crew # NoCrew
      BY <1>4
    <2> HIDE DEF t
    <2> QED BY <1>1, <1>2, <1>4, <1>5, <2>1, <2>2, RowChangeKeepsRequests
  <1>7. InFlight'
    BY <1>3, <1>6 DEF WorkflowInv, InFlight
  <1>8. TypeOK'
    BY <1>3, <1>4, <1>5 DEF WorkflowInv, TypeOK
  <1> QED BY <1>4, <1>7, <1>8 DEF WorkflowInv

LEMMA VerifyListedKeeps ==
  ASSUME WorkflowInv, NEW h \in Handler, VerifyListed(h)
  PROVE  WorkflowInv'
  <1> DEFINE f == handler[h].fault
             t == Verified(ticket[f], h)
             done == [handler[h] EXCEPT !.phase = "sweeping", !.row = t]
  <1>1. handler[h] \in HandlerState /\ HandlerHolds(h) /\ handler[h].phase = "verifying"
    BY DEF WorkflowInv, TypeOK, InFlight, VerifyListed
  <1>2. f \in Fault /\ h \in Actor
    BY <1>1 DEF Actor
  <1>3. CommitVerification(f, h) /\ UNCHANGED <<energized, command, answer, announced>>
    BY DEF VerifyListed
  <1>4. /\ t \in Ticket /\ t.crew = ticket[f].crew
        /\ ticket' = [ticket EXCEPT ![f] = t] /\ ticket'[f] = t
        /\ ticket' \in [Fault -> Ticket]
        /\ fault' \in [Fault -> {"active", "resolved"}]
        /\ RowsAgree' /\ AssignedTicketHasCrew'
    BY <1>2, <1>3, CommitKeepsRows
  <1>5. done \in HandlerState /\ done.phase = "sweeping"
    BY <1>1, <1>4 DEF HandlerState
  <1>6. handler' = [handler EXCEPT ![h] = done] \/ handler' = [handler EXCEPT ![h] = IdleHandler]
    BY <1>4 DEF VerifyListed
  <1>7. handler' \in [Handler -> HandlerState] /\ \A x \in Handler : HandlerHolds(x)'
    <2> HIDE DEF done
    <2>1. IdleHandler.phase = "idle"
      BY DEF IdleHandler
    <2> QED BY <1>5, <1>6, <2>1, FreshValues DEF WorkflowInv, TypeOK, InFlight
  <1>8. \A x \in Command : CommandHolds(x)'
    <2>1. {} \in SUBSET Command /\ command' \in [Command -> CommandState]
      BY <1>3 DEF WorkflowInv, TypeOK
    <2>2. ticket[f].crew # NoCrew => t.crew # NoCrew
      BY <1>4
    <2> HIDE DEF t
    <2> QED BY <1>2, <1>3, <1>4, <2>1, <2>2, RowChangeKeepsRequests
  <1>9. InFlight'
    BY <1>7, <1>8 DEF InFlight
  <1>10. TypeOK'
    BY <1>3, <1>4, <1>7 DEF WorkflowInv, TypeOK
  <1> QED BY <1>4, <1>9, <1>10 DEF WorkflowInv

-----------------------------------------------------------------------------
(* The invariant.                                                          *)

LEMMA WorkflowInit == Init => WorkflowInv
  <1> SUFFICES ASSUME Init PROVE WorkflowInv
    OBVIOUS
  <1>1. TypeOK
    BY FreshValues DEF Init, TypeOK, Status, Restorable
  <1>2. InFlight
    BY DEF Init, InFlight, IdleCommand, IdleHandler
  <1>3. RowsAgree /\ AssignedTicketHasCrew
    BY DEF Init, RowsAgree, AssignedTicketHasCrew, NewTicket
  <1> QED BY <1>1, <1>2, <1>3 DEF WorkflowInv

LEMMA WorkflowStep == WorkflowInv /\ [Next]_vars => WorkflowInv'
  <1> SUFFICES ASSUME WorkflowInv, [Next]_vars PROVE WorkflowInv'
    OBVIOUS
  <1>1. ASSUME NEW c \in Command, FindTicket(c) PROVE WorkflowInv'
    BY <1>1, FindTicketKeeps
  <1>2. ASSUME NEW c \in Command, Refuse(c) PROVE WorkflowInv'
    BY <1>2, FinishKeeps DEF Refuse, WorkflowInv, TypeOK
  <1>3. ASSUME NEW c \in Command, Decide(c) PROVE WorkflowInv'
    BY <1>3, DecideKeeps
  <1>4. ASSUME NEW c \in Command, WriteTicket(c) PROVE WorkflowInv'
    BY <1>4, WriteTicketKeeps
  <1>5. ASSUME NEW c \in Command, VerifyResolved(c) PROVE WorkflowInv'
    BY <1>5, VerifyResolvedKeeps
  <1>6. ASSUME NEW c \in Command, VerifyTooLate(c) PROVE WorkflowInv'
    BY <1>6, FinishKeeps DEF VerifyTooLate, WorkflowInv, TypeOK
  <1>7. ASSUME NEW c \in Command, Publish(c) PROVE WorkflowInv'
    BY <1>7, PublishKeeps
  <1>8. ASSUME NEW c \in Command, CommandFails(c) PROVE WorkflowInv'
    BY <1>8, FinishKeeps DEF CommandFails, WorkflowInv, TypeOK
  <1>9. ASSUME NEW p \in Pole, Darken(p) PROVE WorkflowInv'
    BY <1>9, DarkenKeeps
  <1>10. ASSUME NEW p \in Pole, NEW h \in Handler, Restore(p, h) PROVE WorkflowInv'
    BY <1>10, RestoreKeeps
  <1>11. ASSUME NEW h \in Handler, HandlerStep(h) PROVE WorkflowInv'
    BY <1>11, ListRestorableKeeps, SweepKeeps, EndSweepKeeps, VerifyListedKeeps,
       AbandonSweepKeeps DEF HandlerStep
  <1>12. CASE Crash
    BY <1>12, CrashKeeps
  <1>13. CASE UNCHANGED vars
    BY <1>13 DEF vars, WorkflowInv, TypeOK, InFlight, RowsAgree, AssignedTicketHasCrew
  <1> QED
    BY <1>1, <1>2, <1>3, <1>4, <1>5, <1>6, <1>7, <1>8, <1>9, <1>10, <1>11, <1>12, <1>13
    DEF Next, CommandStep

LEMMA WorkflowInvariant == Spec => []WorkflowInv
  BY WorkflowInit, WorkflowStep, PTL DEF Spec

(* Every variable keeps its type, a rejection count its bound.             *)
THEOREM WorkflowTypeCorrect == Spec => []TypeOK
  BY WorkflowInvariant, PTL DEF WorkflowInv

(* However operators and handlers race, and whatever fails, a fault is     *)
(* resolved exactly when its ticket is stamped with a verification, and no *)
(* ticket is verified while its fault is active.                           *)
THEOREM RowsStayInAgreement == Spec => []RowsAgree
  BY WorkflowInvariant, PTL DEF WorkflowInv

(* A stale update may put a ticket's status back, but never to             *)
(* crew_assigned without a crew.                                           *)
THEOREM CrewsAreNeverLost == Spec => []AssignedTicketHasCrew
  BY WorkflowInvariant, PTL DEF WorkflowInv

-----------------------------------------------------------------------------
(* Refinement. What an actor vouches for is the fault of its verifying     *)
(* phase; a step that leaves phases and faults of verifying actors alone   *)
(* leaves every voucher alone.                                             *)

LEMMA VouchedOfCommand ==
  ASSUME NEW c \in Command
  PROVE  /\ command[c].phase = "verifying" => Vouched[c] = command[c].fault
         /\ command[c].phase # "verifying" => Vouched[c] = NoFault
  BY WorkflowAssumption DEF Vouched, Actor

LEMMA VouchedOfHandler ==
  ASSUME NEW h \in Handler
  PROVE  /\ handler[h].phase = "verifying" => Vouched[h] = handler[h].fault
         /\ handler[h].phase # "verifying" => Vouched[h] = NoFault
  BY WorkflowAssumption DEF Vouched, Actor

LEMMA SameRestored ==
  ASSUME NEW f \in Fault
  PROVE  Promise!Restored(f) <=> Restored(f)
  <1>1. Promise!MonitoredIn(f) = MonitoredIn(f)
    BY DEF Promise!MonitoredIn, MonitoredIn
  <1>2. Promise!LiveIn(f) = LiveIn(f)
    BY <1>1 DEF Promise!LiveIn, LiveIn
  <1>3. \A S : Promise!Cardinality(S) = Cardinality(S)
    BY DEF Promise!Cardinality, Cardinality
  <1> QED BY <1>1, <1>2, <1>3 DEF Promise!Restored, Restored

(* One request moves: vouchers of the others stay.                         *)
LEMMA CommandVoucher ==
  ASSUME WorkflowInv, NEW c \in Command, NEW s \in CommandState,
         command' = [command EXCEPT ![c] = s], UNCHANGED handler
  PROVE  Vouched' = [Vouched EXCEPT ![c] = IF s.phase = "verifying" THEN s.fault ELSE NoFault]
  <1> DEFINE w == [Vouched EXCEPT ![c] = IF s.phase = "verifying" THEN s.fault ELSE NoFault]
  <1>1. command'[c] = s /\ \A x \in Command \ {c} : command'[x] = command[x]
    BY DEF WorkflowInv, TypeOK
  <1>2. c \notin Handler /\ c \in Actor
    BY WorkflowAssumption DEF Actor
  <1>3. \A a \in Actor : Vouched'[a] = w[a]
    BY <1>1, <1>2 DEF Vouched
  <1>4. DOMAIN Vouched = Actor /\ DOMAIN Vouched' = Actor
    BY DEF Vouched
  <1> QED BY <1>3, <1>4 DEF Vouched

LEMMA HandlerVoucher ==
  ASSUME WorkflowInv, NEW h \in Handler, NEW s \in HandlerState,
         handler' = [handler EXCEPT ![h] = s], UNCHANGED command
  PROVE  Vouched' = [Vouched EXCEPT ![h] = IF s.phase = "verifying" THEN s.fault ELSE NoFault]
  <1> DEFINE w == [Vouched EXCEPT ![h] = IF s.phase = "verifying" THEN s.fault ELSE NoFault]
  <1>1. handler'[h] = s /\ \A x \in Handler \ {h} : handler'[x] = handler[x]
    BY DEF WorkflowInv, TypeOK
  <1>2. h \notin Command /\ h \in Actor
    BY WorkflowAssumption DEF Actor
  <1>3. \A a \in Actor : Vouched'[a] = w[a]
    BY <1>1, <1>2 DEF Vouched
  <1>4. DOMAIN Vouched = Actor /\ DOMAIN Vouched' = Actor
    BY DEF Vouched
  <1> QED BY <1>3, <1>4 DEF Vouched

Stamps == [f \in Fault |-> ticket[f].verifiedBy]

LEMMA InitRefines == Init => Promise!Init
  <1> SUFFICES ASSUME Init PROVE Promise!Init
    OBVIOUS
  <1>1. Stamps = [f \in Fault |-> NoActor]
    BY DEF Init, Stamps, NewTicket
  <1>2. Vouched = [a \in Actor |-> NoFault]
    BY DEF Init, Vouched, IdleCommand, IdleHandler
  <1> QED BY <1>1, <1>2 DEF Init, Promise!Init, Stamps

(* The four ways a step shows in FaultResolution.                          *)
LEMMA Unseen ==
  ASSUME UNCHANGED <<energized, fault>>, Stamps' = Stamps, Vouched' = Vouched
  PROVE  UNCHANGED Promise!vars
  BY DEF Promise!vars, Stamps

LEMMA SeenVouching ==
  ASSUME UNCHANGED <<energized, fault>>, Stamps' = Stamps,
         NEW a \in Actor, NEW f \in Fault, Restored(f),
         Vouched' = [Vouched EXCEPT ![a] = f]
  PROVE  Promise!Next
  <1>1. Promise!Vouch(a, f)
    BY SameRestored DEF Promise!Vouch, Stamps
  <1> QED BY <1>1 DEF Promise!Next

LEMMA SeenWithdrawing ==
  ASSUME UNCHANGED <<energized, fault>>, Stamps' = Stamps,
         NEW A \in SUBSET Actor,
         Vouched' = [a \in Actor |-> IF a \in A THEN NoFault ELSE Vouched[a]]
  PROVE  Promise!Next
  <1>1. Promise!Withdraw(A)
    BY DEF Promise!Withdraw, Stamps
  <1> QED BY <1>1 DEF Promise!Next

LEMMA SeenResolving ==
  ASSUME WorkflowInv, UNCHANGED energized,
         NEW a \in Actor, NEW f \in Fault, Vouched[a] = f,
         CanVerify(f), CommitVerification(f, a),
         Vouched' = [Vouched EXCEPT ![a] = NoFault]
  PROVE  Promise!Next
  <1>1. fault[f] = "active" /\ f # NoFault
    BY WorkflowAssumption DEF CanVerify
  <1>2. ticket \in [Fault -> Ticket]
    BY DEF WorkflowInv, TypeOK
  <1>3. Verified(ticket[f], a).verifiedBy = a
    BY <1>2, VerifiedRow
  <1>4. /\ ticket' = [ticket EXCEPT ![f] = Verified(ticket[f], a)]
        /\ fault' = [fault EXCEPT ![f] = "resolved"]
    BY DEF CommitVerification
  <1>5. Stamps' = [Stamps EXCEPT ![f] = a]
    BY <1>2, <1>3, <1>4 DEF Stamps
  <1>6. Promise!Resolve(a)
    BY <1>1, <1>4, <1>5 DEF Promise!Resolve, Stamps
  <1> QED BY <1>6 DEF Promise!Next

(* A request or handler that is not verifying after the step withdraws,    *)
(* and if it was not verifying before, withdraws nothing.                  *)
LEMMA CommandWithdraws ==
  ASSUME WorkflowInv, NEW c \in Command, NEW s \in CommandState,
         command' = [command EXCEPT ![c] = s], s.phase # "verifying",
         UNCHANGED <<energized, fault, handler>>, Stamps' = Stamps
  PROVE  Promise!Next
  <1>1. Vouched' = [Vouched EXCEPT ![c] = NoFault]
    BY CommandVoucher
  <1>2. Vouched' = [a \in Actor |-> IF a \in {c} THEN NoFault ELSE Vouched[a]]
    BY <1>1 DEF Vouched
  <1>3. {c} \in SUBSET Actor
    BY DEF Actor
  <1> QED BY <1>2, <1>3, SeenWithdrawing

LEMMA HandlerWithdraws ==
  ASSUME WorkflowInv, NEW h \in Handler, NEW s \in HandlerState,
         handler' = [handler EXCEPT ![h] = s], s.phase # "verifying",
         UNCHANGED <<energized, fault, ticket, command>>
  PROVE  Promise!Next
  <1>1. Vouched' = [Vouched EXCEPT ![h] = NoFault]
    BY HandlerVoucher
  <1>2. Vouched' = [a \in Actor |-> IF a \in {h} THEN NoFault ELSE Vouched[a]]
    BY <1>1 DEF Vouched
  <1>3. {h} \in SUBSET Actor
    BY DEF Actor
  <1> QED BY <1>2, <1>3, SeenWithdrawing DEF Stamps

LEMMA FinishRefines ==
  ASSUME WorkflowInv, NEW c \in Command, NEW r, Finish(c, r),
         UNCHANGED <<energized, fault, ticket, handler>>
  PROVE  Promise!Next
  BY CommandWithdraws, FreshValues DEF Finish, IdleCommand, Stamps

LEMMA FindTicketRefines ==
  ASSUME WorkflowInv, NEW c \in Command, FindTicket(c)
  PROVE  Promise!Next
  <1>1. PICK f \in Fault, kind \in Kind, crew \in Crew :
          command' = [command EXCEPT ![c] =
            [phase |-> "deciding", kind |-> kind, fault |-> f,
             crew |-> IF kind = "assign" THEN crew ELSE NoCrew,
             row |-> ticket[f]]]
    BY DEF FindTicket
  <1> DEFINE s == [phase |-> "deciding", kind |-> kind, fault |-> f,
                   crew |-> IF kind = "assign" THEN crew ELSE NoCrew,
                   row |-> ticket[f]]
  <1>2. ticket[f] \in Ticket
    BY DEF WorkflowInv, TypeOK
  <1>3. s \in CommandState /\ s.phase # "verifying"
    BY <1>2 DEF CommandState
  <1> QED BY <1>1, <1>3, CommandWithdraws DEF FindTicket, Stamps

LEMMA DecideRefines ==
  ASSUME WorkflowInv, NEW c \in Command, Decide(c)
  PROVE  Promise!Next
  <1> DEFINE f == command[c].fault
             verifies == command[c].kind = "resolve" /\ Restored(f)
             s == [command[c] EXCEPT !.phase = IF verifies THEN "verifying" ELSE "writing"]
  <1>1. command[c] \in CommandState /\ f \in Fault /\ c \in Actor
    BY DEF Decide, WorkflowInv, TypeOK, InFlight, Actor
  <1>2. s \in CommandState /\ s.fault = f
    BY <1>1 DEF CommandState
  <1>3. s.phase = IF verifies THEN "verifying" ELSE "writing"
    BY <1>1 DEF CommandState
  <1>4. command' = [command EXCEPT ![c] = s]
    BY DEF Decide
  <1>5. UNCHANGED <<energized, fault, handler>> /\ Stamps' = Stamps
    BY DEF Decide, Stamps
  <1> HIDE DEF s
  <1>6. CASE verifies
    <2>1. Vouched' = [Vouched EXCEPT ![c] = f]
      BY <1>2, <1>3, <1>4, <1>5, <1>6, CommandVoucher
    <2> QED BY <1>1, <1>5, <1>6, <2>1, SeenVouching
  <1>7. CASE ~verifies
    BY <1>2, <1>3, <1>4, <1>5, <1>7, CommandWithdraws
  <1> QED BY <1>6, <1>7

LEMMA WriteTicketRefines ==
  ASSUME WorkflowInv, NEW c \in Command, WriteTicket(c)
  PROVE  Promise!Next
  <1> DEFINE s == command[c]
             f == s.fault
             t == Updated(ticket[f], s)
             published == [s EXCEPT !.phase = "publishing", !.row = ticket'[f]]
  <1>1. s \in CommandState /\ CommandHolds(c) /\ s.phase = "writing"
    BY DEF WorkflowInv, TypeOK, InFlight, WriteTicket
  <1>2. f \in Fault /\ ticket \in [Fault -> Ticket]
    BY <1>1 DEF WorkflowInv, TypeOK
  <1>3. t.verifiedBy = ticket[f].verifiedBy
    BY <1>1, <1>2, UpdatedRow
  <1>4. ticket' = [ticket EXCEPT ![f] = t]
    BY DEF WriteTicket
  <1>5. Stamps' = Stamps
    BY <1>2, <1>3, <1>4 DEF Stamps
  <1>6. UNCHANGED <<energized, fault, handler>>
    BY DEF WriteTicket
  <1>7. CASE Finish(c, "error")
    BY <1>5, <1>6, <1>7, CommandWithdraws, FreshValues DEF Finish, IdleCommand
  <1>8. CASE command' = [command EXCEPT ![c].phase = "publishing", ![c].row = ticket'[f]]
    <2>1. command' = [command EXCEPT ![c] = published]
      BY <1>8
    <2>2. ticket'[f] \in Ticket
      BY <1>2, WriteTicketKeeps DEF WorkflowInv, TypeOK
    <2>3. published \in CommandState /\ published.phase = "publishing"
      BY <1>1, <2>2 DEF CommandState
    <2> HIDE DEF published
    <2> QED BY <1>5, <1>6, <2>1, <2>3, CommandWithdraws
  <1> QED BY <1>7, <1>8 DEF WriteTicket

LEMMA VerifyResolvedRefines ==
  ASSUME WorkflowInv, NEW c \in Command, VerifyResolved(c)
  PROVE  Promise!Next
  <1> DEFINE s == command[c]
             f == s.fault
             published == [s EXCEPT !.phase = "publishing", !.row = ticket'[f]]
  <1>1. s \in CommandState /\ f \in Fault /\ s.phase = "verifying" /\ c \in Actor
    BY DEF WorkflowInv, TypeOK, InFlight, VerifyResolved, Actor
  <1>2. Vouched[c] = f
    BY <1>1, VouchedOfCommand
  <1>3. Vouched' = [Vouched EXCEPT ![c] = NoFault]
    <2>1. CASE Finish(c, "error")
      BY <2>1, CommandVoucher, FreshValues DEF Finish, IdleCommand, VerifyResolved
    <2>2. CASE command' = [command EXCEPT ![c].phase = "publishing", ![c].row = ticket'[f]]
      <3>1. command' = [command EXCEPT ![c] = published]
        BY <2>2
      <3>2. ticket'[f] \in Ticket
        BY <1>1, VerifyResolvedKeeps DEF WorkflowInv, TypeOK
      <3>3. published \in CommandState /\ published.phase = "publishing"
        BY <1>1, <3>2 DEF CommandState
      <3>4. UNCHANGED handler
        BY DEF VerifyResolved
      <3> HIDE DEF published
      <3> QED BY <3>1, <3>3, <3>4, CommandVoucher
    <2> QED BY <2>1, <2>2 DEF VerifyResolved
  <1> QED BY <1>1, <1>2, <1>3, SeenResolving DEF VerifyResolved

LEMMA VerifyListedRefines ==
  ASSUME WorkflowInv, NEW h \in Handler, VerifyListed(h)
  PROVE  Promise!Next
  <1> DEFINE s == handler[h]
             f == s.fault
             done == [s EXCEPT !.phase = "sweeping", !.row = ticket'[f]]
  <1>1. s \in HandlerState /\ f \in Fault /\ s.phase = "verifying" /\ h \in Actor
    BY DEF WorkflowInv, TypeOK, InFlight, VerifyListed, Actor
  <1>2. Vouched[h] = f
    BY <1>1, VouchedOfHandler
  <1>3. UNCHANGED command
    BY DEF VerifyListed
  <1>4. Vouched' = [Vouched EXCEPT ![h] = NoFault]
    <2>1. CASE handler' = [handler EXCEPT ![h] = IdleHandler]
      BY <1>3, <2>1, HandlerVoucher, FreshValues DEF IdleHandler
    <2>2. CASE handler' = [handler EXCEPT ![h].phase = "sweeping", ![h].row = ticket'[f]]
      <3>1. handler' = [handler EXCEPT ![h] = done]
        BY <2>2
      <3>2. ticket'[f] \in Ticket
        BY <1>1, VerifyListedKeeps DEF WorkflowInv, TypeOK
      <3>3. done \in HandlerState /\ done.phase = "sweeping"
        BY <1>1, <3>2 DEF HandlerState
      <3> HIDE DEF done
      <3> QED BY <1>3, <3>1, <3>3, HandlerVoucher
    <2> QED BY <2>1, <2>2 DEF VerifyListed
  <1> QED BY <1>1, <1>2, <1>4, SeenResolving DEF VerifyListed

LEMMA SweepRefines ==
  ASSUME WorkflowInv, NEW h \in Handler, Sweep(h)
  PROVE  Promise!Next
  <1>1. PICK f \in handler[h].todo, skipped \in SUBSET handler[h].todo :
          /\ Restored(f)
          /\ handler' = [handler EXCEPT ![h] =
               [IdleHandler EXCEPT !.phase = "verifying", !.fault = f,
                                   !.todo = handler[h].todo \ (skipped \cup {f})]]
    BY DEF Sweep
  <1> DEFINE s == [IdleHandler EXCEPT !.phase = "verifying", !.fault = f,
                                      !.todo = handler[h].todo \ (skipped \cup {f})]
  <1>2. handler[h].todo \subseteq Fault /\ h \in Actor
    BY DEF WorkflowInv, TypeOK, HandlerState, Actor
  <1>3. s \in HandlerState /\ s.phase = "verifying" /\ s.fault = f
    BY <1>2, FreshValues DEF IdleHandler, HandlerState
  <1>4. UNCHANGED <<energized, fault, ticket, command>>
    BY DEF Sweep
  <1> HIDE DEF s
  <1>5. Vouched' = [Vouched EXCEPT ![h] = f]
    BY <1>1, <1>3, <1>4, HandlerVoucher DEF s
  <1> QED BY <1>1, <1>2, <1>4, <1>5, SeenVouching DEF Stamps

LEMMA HandlerStepRefines ==
  ASSUME WorkflowInv, NEW h \in Handler, HandlerStep(h)
  PROVE  Promise!Next
  <1>1. CASE ListRestorable(h)
    <2>1. handler' \in [Handler -> HandlerState]
      BY <1>1, ListRestorableKeeps DEF WorkflowInv, TypeOK
    <2>2. handler' = [handler EXCEPT ![h] = handler'[h]]
      BY <1>1 DEF ListRestorable, WorkflowInv, TypeOK
    <2>3. handler'[h].phase = "sweeping"
      BY <1>1 DEF ListRestorable, WorkflowInv, TypeOK, HandlerState
    <2> QED BY <1>1, <2>1, <2>2, <2>3, HandlerWithdraws DEF ListRestorable
  <1>2. CASE Sweep(h)
    BY <1>2, SweepRefines
  <1>3. CASE EndSweep(h)
    BY <1>3, HandlerWithdraws, FreshValues DEF EndSweep, IdleHandler
  <1>4. CASE VerifyListed(h)
    BY <1>4, VerifyListedRefines
  <1>5. CASE AbandonSweep(h)
    BY <1>5, HandlerWithdraws, FreshValues DEF AbandonSweep, IdleHandler
  <1> QED BY <1>1, <1>2, <1>3, <1>4, <1>5 DEF HandlerStep

LEMMA DarkenRefines ==
  ASSUME WorkflowInv, NEW p \in Pole, Darken(p)
  PROVE  Promise!Next
  <1>1. Vouched' = Vouched
    BY DEF Darken, Vouched
  <1>2. Promise!PoleChanges(p)
    BY <1>1 DEF Darken, Promise!PoleChanges, Stamps
  <1> QED BY <1>2 DEF Promise!Next

LEMMA RestoreRefines ==
  ASSUME WorkflowInv, NEW p \in Pole, NEW h \in Handler, Restore(p, h)
  PROVE  Promise!Next
  <1> DEFINE s == [IdleHandler EXCEPT !.phase = "listing",
                                      !.todo = {f \in Fault : p \in Affected[f]}]
  <1>1. s \in HandlerState /\ s.phase = "listing"
    BY FreshValues DEF IdleHandler, HandlerState
  <1>2. handler' = [handler EXCEPT ![h] = s] /\ UNCHANGED command
    BY DEF Restore
  <1> HIDE DEF s
  <1>3. Vouched' = [Vouched EXCEPT ![h] = NoFault]
    BY <1>1, <1>2, HandlerVoucher
  <1>4. Vouched[h] = NoFault
    BY VouchedOfHandler DEF Restore
  <1>5. Vouched' = Vouched
    BY <1>3, <1>4 DEF Vouched
  <1>6. Promise!PoleChanges(p)
    BY <1>5 DEF Restore, Promise!PoleChanges, Stamps
  <1> QED BY <1>6 DEF Promise!Next

LEMMA CrashRefines ==
  ASSUME WorkflowInv, Crash
  PROVE  Promise!Next
  <1>1. Vouched' = [a \in Actor |-> IF a \in Actor THEN NoFault ELSE Vouched[a]]
    BY DEF Crash, Vouched, IdleCommand, IdleHandler
  <1>2. Actor \in SUBSET Actor
    OBVIOUS
  <1> QED BY <1>1, <1>2, SeenWithdrawing DEF Crash, Stamps

LEMMA StepRefines == WorkflowInv /\ [Next]_vars => [Promise!Next]_(Promise!vars)
  <1> SUFFICES ASSUME WorkflowInv, [Next]_vars PROVE [Promise!Next]_(Promise!vars)
    OBVIOUS
  <1>1. ASSUME NEW c \in Command, FindTicket(c) \/ CommandStep(c)
        PROVE  Promise!Next
    <2>1. CASE Refuse(c) \/ VerifyTooLate(c) \/ Publish(c) \/ CommandFails(c)
      BY <2>1, FinishRefines DEF Refuse, VerifyTooLate, Publish, CommandFails
    <2> QED
      BY <1>1, <2>1, FindTicketRefines, DecideRefines, WriteTicketRefines,
         VerifyResolvedRefines DEF CommandStep
  <1>2. ASSUME NEW p \in Pole, Darken(p) PROVE Promise!Next
    BY <1>2, DarkenRefines
  <1>3. ASSUME NEW p \in Pole, NEW h \in Handler, Restore(p, h) PROVE Promise!Next
    BY <1>3, RestoreRefines
  <1>4. ASSUME NEW h \in Handler, HandlerStep(h) PROVE Promise!Next
    BY <1>4, HandlerStepRefines
  <1>5. CASE Crash
    BY <1>5, CrashRefines
  <1>6. CASE UNCHANGED vars
    <2>1. Vouched' = Vouched /\ Stamps' = Stamps /\ UNCHANGED <<energized, fault>>
      BY <1>6 DEF vars, Vouched, Stamps
    <2> QED BY <2>1, Unseen
  <1> QED BY <1>1, <1>2, <1>3, <1>4, <1>5, <1>6 DEF Next

(* Whatever the races, failures and crashes, each fault is resolved at     *)
(* most once, by an actor that saw enough of its poles live, together with *)
(* the stamp on its ticket: ticket management implements FaultResolution.  *)
THEOREM WorkflowImplementsFaultResolution == Spec => ImplementsFaultResolution
  <1>1. Init => Promise!Init
    BY InitRefines
  <1>2. WorkflowInv /\ [Next]_vars => [Promise!Next]_(Promise!vars)
    BY StepRefines
  <1> QED BY <1>1, <1>2, WorkflowInvariant, PTL DEF Spec, ImplementsFaultResolution, Promise!Spec
=============================================================================
