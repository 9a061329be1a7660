CONSTANTS
  f1 = f1
  Pole <- LinePole
  Transformer = {1}
  Feeder = {f1}
  DTOf <- LineDTOf
  FeederOf <- MCFeederOf
  Recorded = {1}
  Parent <- LineParent
  NoPole = 0
  Monitored = {1, 2, 3}
  Silent = {}
  FeederDarkPercent = 60
  SensorGapPercent = 30
  ThresholdPercent = 80
  OutageCases <- MCOutageCases
  Worker = {w1}
  Handler = {}
  Faults = {}
  MaxReports = 2
SPECIFICATION Spec
INVARIANTS
  ArrivalOrderIsIrrelevant
