CONSTANTS
  f1 = f1
  Pole <- TreePole
  Transformer = {1, 2}
  Feeder = {f1}
  DTOf <- TreeDTOf
  FeederOf <- MCFeederOf
  Recorded = {1}
  Parent <- TreeParent
  NoPole = 0
  Monitored = {1, 2, 3, 4}
  Silent = {3, 4}
  FeederDarkPercent = 60
  SensorGapPercent = 30
  ThresholdPercent = 80
  OutageCases <- MCOutageCases
  Worker = {w1, w2}
  Handler = {}
  Faults = {"rollback", "crash"}
  MaxReports = 4
SPECIFICATION FairSpec
INVARIANTS
  StormIsCovered
PROPERTIES
  ChainDrains
