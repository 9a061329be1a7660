----------------------------- MODULE TicketWorkflow -----------------------------
(***************************************************************************)
(* Ticket management: operator commands on tickets and automatic           *)
(* verification when poles come back.                                      *)
(*                                                                         *)
(* A PATCH /tickets/:id/{acknowledge,assign,resolve} reads the ticket and  *)
(* its fault, computes an update in memory from what it read, and writes   *)
(* it by ticket id alone. A pole that turns LIVE starts a handler of its   *)
(* own, not serialised with any other, which lists the restorable tickets  *)
(* and verifies them one transaction at a time. Commands and handlers      *)
(* interleave at every await; a step here is what runs between two awaits, *)
(* or one database statement or transaction.                               *)
(*                                                                         *)
(* A ticket is identified with its fault: both rows are inserted by one    *)
(* transaction and a fault has one ticket. A request for an unknown ticket *)
(* changes nothing (404) and is left out, as are notes and timestamps;     *)
(* verifiedBy stands for verifiedAt.                                       *)
(***************************************************************************)
EXTENDS Integers, FiniteSets

CONSTANTS
  Pole,
  Monitored,         \* poles with a device
  Fault,
  Affected,          \* evidence.affected_poles of each fault
  Command,           \* operator requests that can be in flight at once
  Handler,           \* restoration handlers that can be in flight at once
  Crew,
  NoCrew, NoFault, NoActor,
  ThresholdPercent,  \* policies.verificationThreshold
  MaxRejections,     \* bound: a ticket rejected this often is not resolved again
  Faults             \* what may go wrong: "rollback", "ackLost", "crash"

Actor == Command \cup Handler

ASSUME WorkflowAssumption ==
  /\ Monitored \subseteq Pole
  /\ Affected \in [Fault -> SUBSET Pole]
  /\ Command \cap Handler = {}
  /\ NoFault \notin Fault /\ NoActor \notin Actor /\ NoCrew \notin Crew
  /\ MaxRejections \in Nat
  /\ Faults \subseteq {"rollback", "ackLost", "crash"}

VARIABLES
  energized,  \* PoleStateService's level of each pole
  fault,      \* faults.status
  ticket,     \* tickets row of each fault
  command,    \* operator requests in flight
  answer,     \* the response to the last request of each slot
  handler,    \* handlePoleStateTransition calls in flight
  announced   \* the status in the last ticket.updated published for each fault

vars == <<energized, fault, ticket, command, answer, handler, announced>>

-----------------------------------------------------------------------------
(* Vocabulary.                                                             *)

(* Variant: the query forgets tickets whose crew is out.                   *)
RestorableUnassigned == {"detected", "acknowledged", "resolved"}

Restorable == {"detected", "acknowledged", "crew_assigned", "resolved"}
Status == Restorable \cup {"verified", "closed"}
Kind == {"acknowledge", "assign", "resolve"}

Ticket == [status : Status, crew : Crew \cup {NoCrew},
           rejections : 0 .. MaxRejections, verifiedBy : Actor \cup {NoActor}]

NewTicket == [status |-> "detected", crew |-> NoCrew, rejections |-> 0,
              verifiedBy |-> NoActor]

(* kind, crew and fault are the request's; row is the ticket row it holds: *)
(* the one it read, and after the write the one the write returned.        *)
CommandState ==
  [phase : {"idle", "deciding", "writing", "verifying", "publishing"},
   kind : Kind, fault : Fault \cup {NoFault}, crew : Crew \cup {NoCrew},
   row : Ticket]

IdleCommand == [phase |-> "idle", kind |-> "acknowledge", fault |-> NoFault,
                crew |-> NoCrew, row |-> NewTicket]

(* todo is what the for-of loop has left: at first every fault the pole is *)
(* evidence of, then those of them the query listed. fault is the record   *)
(* in transaction, or the one whose transaction committed and is yet to be *)
(* published, and row the ticket row the transaction returned.             *)
HandlerState ==
  [phase : {"idle", "listing", "sweeping", "verifying"},
   todo : SUBSET Fault, fault : Fault \cup {NoFault}, row : Ticket]

IdleHandler == [phase |-> "idle", todo |-> {}, fault |-> NoFault, row |-> NewTicket]

MonitoredIn(f) == Affected[f] \cap Monitored
LiveIn(f) == {p \in MonitoredIn(f) : energized[p] = "LIVE"}

(* Variant: one pole back is enough.                                       *)
RestoredInPart(f) == LiveIn(f) # {}

(* RestorationVerifier.verify over PoleStateService's current states.      *)
Restored(f) ==
  /\ MonitoredIn(f) # {}
  /\ 100 * Cardinality(LiveIn(f)) >= ThresholdPercent * Cardinality(MonitoredIn(f))

Init ==
  /\ energized = [p \in Pole |-> IF p \in Monitored THEN "DARK" ELSE "UNKNOWN"]
  /\ fault = [f \in Fault |-> "active"]
  /\ ticket = [f \in Fault |-> NewTicket]
  /\ command = [c \in Command |-> IdleCommand]
  /\ answer = [c \in Command |-> "none"]
  /\ handler = [h \in Handler |-> IdleHandler]
  /\ announced = [f \in Fault |-> "detected"]

-----------------------------------------------------------------------------
(* TicketLifecycle: the statuses an action is allowed from, and the row    *)
(* its update leaves when it is written over a row t.                      *)

(* Variant: a ticket can be resolved before a crew is assigned.            *)
AllowsUnassigned(kind) == CASE kind = "acknowledge" -> {"detected"}
                            [] kind = "assign"      -> {"acknowledged"}
                            [] kind = "resolve"     -> {"acknowledged", "crew_assigned"}

Allows(kind) == CASE kind = "acknowledge" -> {"detected"}
                  [] kind = "assign"      -> {"acknowledged"}
                  [] kind = "resolve"     -> {"crew_assigned"}

Acknowledged(t) == [t EXCEPT !.status = "acknowledged"]

Assigned(t, crew) == [t EXCEPT !.status = "crew_assigned", !.crew = crew]

(* The count written is one more than the count that was read.             *)
Rejected(t, read) ==
  [t EXCEPT !.status = "crew_assigned", !.rejections = read.rejections + 1]

Verified(t, a) == [t EXCEPT !.status = "verified", !.verifiedBy = a]

(* A resolve that reaches the plain write was rejected.                    *)
Updated(t, s) == CASE s.kind = "acknowledge" -> Acknowledged(t)
                   [] s.kind = "assign"      -> Assigned(t, s.crew)
                   [] s.kind = "resolve"     -> Rejected(t, s.row)

(* Variant: the fault row is updated whatever its status.                  *)
CanVerifyAgain(f) == TRUE

(* verifyTicketAndResolveFault: the ticket is updated by id, the fault     *)
(* only if active; if it is not, the transaction rolls back and throws.    *)
CanVerify(f) == fault[f] = "active"

(* Variant: the fault update is not part of the transaction.               *)
CommitTicketOnly(f, a) ==
  /\ ticket' = [ticket EXCEPT ![f] = Verified(@, a)]
  /\ UNCHANGED fault

CommitVerification(f, a) ==
  /\ ticket' = [ticket EXCEPT ![f] = Verified(@, a)]
  /\ fault' = [fault EXCEPT ![f] = "resolved"]

-----------------------------------------------------------------------------
(* Operator commands.                                                      *)

Finish(c, response) ==
  /\ command' = [command EXCEPT ![c] = IdleCommand]
  /\ answer' = [answer EXCEPT ![c] = response]

(* A request arrives and its ticket is read.                               *)
FindTicket(c) ==
  /\ command[c].phase = "idle"
  /\ \E f \in Fault, kind \in Kind, crew \in Crew :
       /\ kind = "resolve" => ticket[f].rejections < MaxRejections
       /\ command' = [command EXCEPT ![c] =
            [phase |-> "deciding", kind |-> kind, fault |-> f,
             crew |-> IF kind = "assign" THEN crew ELSE NoCrew,
             row |-> ticket[f]]]
  /\ answer' = [answer EXCEPT ![c] = "none"]
  /\ UNCHANGED <<energized, fault, ticket, handler, announced>>

(* The lifecycle check, and for a resolve the verification, on the row     *)
(* that was read and the levels of now.                                    *)
Refuse(c) ==
  /\ command[c].phase = "deciding"
  /\ command[c].row.status \notin Allows(command[c].kind)
  /\ Finish(c, "conflict")
  /\ UNCHANGED <<energized, fault, ticket, handler, announced>>

Decide(c) ==
  LET s == command[c] IN
  /\ s.phase = "deciding"
  /\ s.row.status \in Allows(s.kind)
  /\ command' = [command EXCEPT ![c].phase =
       IF s.kind = "resolve" /\ Restored(s.fault) THEN "verifying" ELSE "writing"]
  /\ UNCHANGED <<energized, fault, ticket, answer, handler, announced>>

WriteTicket(c) ==
  LET s == command[c] IN
  /\ s.phase = "writing"
  /\ ticket' = [ticket EXCEPT ![s.fault] = Updated(@, s)]
  /\ \/ /\ command' = [command EXCEPT ![c].phase = "publishing",
                                      ![c].row = ticket'[s.fault]]
        /\ UNCHANGED answer
     \/ "ackLost" \in Faults /\ Finish(c, "error")
  /\ UNCHANGED <<energized, fault, handler, announced>>

VerifyResolved(c) ==
  LET f == command[c].fault IN
  /\ command[c].phase = "verifying"
  /\ CanVerify(f)
  /\ CommitVerification(f, c)
  /\ \/ /\ command' = [command EXCEPT ![c].phase = "publishing",
                                      ![c].row = ticket'[f]]
        /\ UNCHANGED answer
     \/ "ackLost" \in Faults /\ Finish(c, "error")
  /\ UNCHANGED <<energized, handler, announced>>

(* Variant: the resolve starts over from the row it read.                  *)
VerifyTooLateRetries(c) ==
  /\ command[c].phase = "verifying"
  /\ ~CanVerify(command[c].fault)
  /\ command' = [command EXCEPT ![c].phase = "deciding"]
  /\ UNCHANGED <<energized, fault, ticket, answer, handler, announced>>

(* Another verification has resolved the fault: an Error, so a 500.        *)
VerifyTooLate(c) ==
  /\ command[c].phase = "verifying"
  /\ ~CanVerify(command[c].fault)
  /\ Finish(c, "error")
  /\ UNCHANGED <<energized, fault, ticket, handler, announced>>

(* Variant: the event carries the action instead of the row's status.      *)
PublishKind(c) ==
  /\ command[c].phase = "publishing"
  /\ announced' = [announced EXCEPT ![command[c].fault] = command[c].kind]
  /\ Finish(c, "ok")
  /\ UNCHANGED <<energized, fault, ticket, handler>>

Publish(c) ==
  /\ command[c].phase = "publishing"
  /\ announced' = [announced EXCEPT ![command[c].fault] = command[c].row.status]
  /\ Finish(c, "ok")
  /\ UNCHANGED <<energized, fault, ticket, handler>>

(* A statement fails without effect.                                       *)
CommandFails(c) ==
  /\ "rollback" \in Faults
  /\ command[c].phase \in {"deciding", "writing", "verifying"}
  /\ Finish(c, "error")
  /\ UNCHANGED <<energized, fault, ticket, handler, announced>>

-----------------------------------------------------------------------------
(* Pole levels and restoration handlers.                                   *)

Darken(p) ==
  /\ p \in Monitored /\ energized[p] = "LIVE"
  /\ energized' = [energized EXCEPT ![p] = "DARK"]
  /\ UNCHANGED <<fault, ticket, command, answer, handler, announced>>

(* A DARK to LIVE transition calls the handler, which issues its query at  *)
(* once. It considers only records whose evidence names the pole.          *)
Restore(p, h) ==
  /\ p \in Monitored /\ energized[p] = "DARK"
  /\ handler[h].phase = "idle"
  /\ energized' = [energized EXCEPT ![p] = "LIVE"]
  /\ handler' = [handler EXCEPT ![h] =
       [IdleHandler EXCEPT !.phase = "listing",
                           !.todo = {f \in Fault : p \in Affected[f]}]]
  /\ UNCHANGED <<fault, ticket, command, answer, announced>>

ListRestorable(h) ==
  /\ handler[h].phase = "listing"
  /\ handler' = [handler EXCEPT
       ![h].phase = "sweeping",
       ![h].todo = {f \in @ : fault[f] = "active" /\ ticket[f].status \in Restorable}]
  /\ UNCHANGED <<energized, fault, ticket, command, answer, announced>>

(* Variant: the event is sent when the loop goes on, not when it ends.     *)
PublishIfMoreToDo(h) ==
  announced' = IF handler[h].fault = NoFault \/ handler[h].todo = {} THEN announced
               ELSE [announced EXCEPT ![handler[h].fault] = handler[h].row.status]

(* The ticket.updated of the record this handler has just verified.        *)
PublishVerified(h) ==
  announced' = IF handler[h].fault = NoFault THEN announced
               ELSE [announced EXCEPT ![handler[h].fault] = handler[h].row.status]

(* Publish what the last transaction committed, then run the loop to the   *)
(* next record that verifies. The order of the records is the query's, so  *)
(* any of those that do not verify may come before it.                     *)
Sweep(h) ==
  /\ handler[h].phase = "sweeping"
  /\ PublishVerified(h)
  /\ \E f \in handler[h].todo, skipped \in SUBSET handler[h].todo :
       /\ Restored(f)
       /\ \A g \in skipped : ~Restored(g)
       /\ handler' = [handler EXCEPT ![h] =
            [IdleHandler EXCEPT !.phase = "verifying", !.fault = f,
                                !.todo = handler[h].todo \ (skipped \cup {f})]]
  /\ UNCHANGED <<energized, fault, ticket, command, answer>>

EndSweep(h) ==
  /\ handler[h].phase = "sweeping"
  /\ \A f \in handler[h].todo : ~Restored(f)
  /\ PublishVerified(h)
  /\ handler' = [handler EXCEPT ![h] = IdleHandler]
  /\ UNCHANGED <<energized, fault, ticket, command, answer>>

VerifyListed(h) ==
  LET f == handler[h].fault IN
  /\ handler[h].phase = "verifying"
  /\ CanVerify(f)
  /\ CommitVerification(f, h)
  /\ \/ handler' = [handler EXCEPT ![h].phase = "sweeping", ![h].row = ticket'[f]]
     \/ "ackLost" \in Faults /\ handler' = [handler EXCEPT ![h] = IdleHandler]
  /\ UNCHANGED <<energized, command, answer, announced>>

(* The exception leaves the loop: the records still to do are abandoned,   *)
(* and the caller only logs it.                                            *)
AbandonSweep(h) ==
  /\ \/ handler[h].phase = "verifying" /\ ~CanVerify(handler[h].fault)
     \/ "rollback" \in Faults /\ handler[h].phase \in {"listing", "verifying"}
  /\ handler' = [handler EXCEPT ![h] = IdleHandler]
  /\ UNCHANGED <<energized, fault, ticket, command, answer, announced>>

(* The process dies and restarts: the rows stay, levels are reloaded from  *)
(* theirs, and nothing re-examines the active faults.                      *)
Crash ==
  /\ "crash" \in Faults
  /\ command' = [c \in Command |-> IdleCommand]
  /\ handler' = [h \in Handler |-> IdleHandler]
  /\ answer' = [c \in Command |-> "none"]
  /\ UNCHANGED <<energized, fault, ticket, announced>>

CommandStep(c) ==
  \/ Refuse(c) \/ Decide(c) \/ WriteTicket(c) \/ VerifyResolved(c)
  \/ VerifyTooLate(c) \/ Publish(c) \/ CommandFails(c)

HandlerStep(h) ==
  \/ ListRestorable(h) \/ Sweep(h) \/ EndSweep(h) \/ VerifyListed(h)
  \/ AbandonSweep(h)

Next ==
  \/ \E c \in Command : FindTicket(c) \/ CommandStep(c)
  \/ \E p \in Pole : Darken(p) \/ \E h \in Handler : Restore(p, h)
  \/ \E h \in Handler : HandlerStep(h)
  \/ Crash

Spec == Init /\ [][Next]_vars

(* Promises settle and statements return. Nothing obliges an operator to   *)
(* act or a pole to change.                                                *)
Fairness ==
  /\ \A c \in Command : WF_vars(CommandStep(c))
  /\ \A h \in Handler : WF_vars(HandlerStep(h))

FairSpec == Spec /\ Fairness

-----------------------------------------------------------------------------
(* Properties.                                                             *)

TypeOK ==
  /\ energized \in [Pole -> {"LIVE", "DARK", "UNKNOWN"}]
  /\ fault \in [Fault -> {"active", "resolved"}]
  /\ ticket \in [Fault -> Ticket]
  /\ command \in [Command -> CommandState]
  /\ answer \in [Command -> {"none", "ok", "conflict", "error"}]
  /\ handler \in [Handler -> HandlerState]
  /\ announced \in [Fault -> Status]

(* However verifications race and fail, the two rows agree: a fault is     *)
(* resolved exactly when its ticket carries a verification, and a ticket   *)
(* is never verified while its fault is active, where no handler would     *)
(* list it again (ticket-repository.ts, verifyTicketAndResolveFault).      *)
RowsAgree ==
  \A f \in Fault :
    /\ fault[f] = "resolved" <=> ticket[f].verifiedBy # NoActor
    /\ ticket[f].status = "verified" => fault[f] = "resolved"

(* A ticket that counts a rejection or stands at crew_assigned has a crew: *)
(* stale updates may put the status back, never to a state whose data the  *)
(* row lacks (ticket-lifecycle.ts).                                        *)
AssignedTicketHasCrew ==
  \A f \in Fault :
    ticket[f].status = "crew_assigned" \/ ticket[f].rejections > 0
      => ticket[f].crew # NoCrew

(* Fault closing implements FaultResolution: one resolution per fault, by  *)
(* an actor that saw it restored, in the step that stamps the ticket.      *)
Vouched ==
  [a \in Actor |->
     CASE a \in Command /\ command[a].phase = "verifying" -> command[a].fault
       [] a \in Handler /\ handler[a].phase = "verifying" -> handler[a].fault
       [] OTHER -> NoFault]

Promise == INSTANCE FaultResolution WITH
  verifiedBy <- [f \in Fault |-> ticket[f].verifiedBy], vouched <- Vouched

ImplementsFaultResolution == Promise!Spec

(* After a pole of its evidence comes back, a fault is resolved unless at  *)
(* some moment the verifier would have said it is not restored             *)
(* (manage-ticket.ts, handlePoleStateTransition).                          *)
Woken(f) ==
  \E h \in Handler : handler[h].phase = "listing" /\ f \in handler[h].todo

Unresolved == {f \in Fault : fault[f] = "active" /\ Restored(f)}

RestorationVerifies == \A f \in Fault : Woken(f) ~> f \notin Unresolved

(* Whoever resolves a fault, a handler or an operator, and whoever loses   *)
(* the race for it: in the end dashboards are told that its ticket is      *)
(* verified (manage-ticket.ts, persistVerified).                           *)
ResolutionIsAnnounced ==
  \A f \in Fault : <>(fault[f] = "resolved") => <>(announced[f] = "verified")

(* Every request is answered (tickets.routes.ts, action).                  *)
RequestsAnswered ==
  \A c \in Command : command[c].phase # "idle" ~> command[c].phase = "idle"

(* A verified ticket takes no further operator action                      *)
(* (API-SPECIFICATION.md, Invalid Transitions).                            *)
VerifiedIsTerminal ==
  [][\A f \in Fault : ticket[f].status = "verified" => ticket'[f].status = "verified"]_vars
=============================================================================
