CONSTANTS
  f1 = f1
  Pole <- PairPole
  Transformer = {1, 2}
  Feeder = {f1}
  DTOf <- PairDTOf
  FeederOf <- MCFeederOf
  Recorded = {1}
  Parent <- PairParent
  NoPole = 0
  Monitored = {1, 2, 3, 4}
  Silent = {4}
  FeederDarkPercent = 60
  SensorGapPercent = 30
  ThresholdPercent = 80
  OutageCases <- MCOutageCases
  Worker = {w1, w2}
  Handler = {h1, h2}
  Faults = {"rollback", "ackLost", "crash"}
  MaxReports = 3
SYMMETRY Symmetry
SPECIFICATION Spec
INVARIANTS
  TypeOK
  OneActiveFaultPerIdentity
  RestoredFaultIsSeen
PROPERTIES
  OutagesAreQuiet
  ImplementsFaultRegister
