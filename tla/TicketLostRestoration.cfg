CONSTANTS
  p1 = p1
  p2 = p2
  p3 = p3
  f1 = f1
  f2 = f2
  NoCrew = NoCrew
  NoFault = NoFault
  NoActor = NoActor
  Pole = {p1, p2, p3}
  Monitored = {p1, p2}
  Fault = {f1, f2}
  Affected <- OverlappingAffected
  Command = {c1}
  Handler = {h1, h2}
  Crew = {k1}
  ThresholdPercent = 80
  MaxRejections = 1
  Faults = {}
SPECIFICATION FairSpec
PROPERTIES
  RestorationVerifies
