CONSTANTS
  p1 = p1
  p2 = p2
  p3 = p3
  f1 = f1
  f2 = f2
  NoCrew = NoCrew
  NoFault = NoFault
  NoActor = NoActor
  Pole = {p1, p2, p3}
  Monitored = {p1, p2}
  Fault = {f1}
  Affected <- OneAffected
  Command = {c1, c2}
  Handler = {h1, h2}
  Crew = {k1}
  ThresholdPercent = 80
  MaxRejections = 1
  Faults = {"rollback", "ackLost", "crash"}
SYMMETRY Symmetry
SPECIFICATION Spec
INVARIANTS
  TypeOK
  RowsAgree
  AssignedTicketHasCrew
PROPERTIES
  ImplementsFaultResolution
