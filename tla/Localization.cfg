CONSTANTS
  f1 = f1
  Pole <- MCPole
  Transformer = {1, 2}
  Feeder = {f1}
  DTOf <- MCDTOf
  FeederOf <- MCFeederOf
  Recorded = {1}
  NoPole = 0
  FeederDarkPercent = 50
  SensorGapPercent = 30
  ThresholdPercent = 80
  OutageCases <- MCOutageCases
SPECIFICATION Spec
INVARIANTS
  SpansAreTheFrontier
  OverlapIsContradicted
  HighConfidenceIsEarned
  NoFaultIsBornRestored
  DarkPolesAreAccountedFor
PROPERTY
  SpanOutlivesNewDarkPoles
