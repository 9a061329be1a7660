SPECIFICATION FairSpec
CONSTANTS
  p1 = p1
  d1 = d1
  d2 = d2
  Pole = {p1}
  Dt = {d1, d2}
  DtOf <- OfTheFirst
  Records = Records
  Nothing = Nothing
  MaxVersion = 2
INVARIANTS TypeOK NoSilentGap ChangesChain
PROPERTIES DownMeansPolling ViewCatchesUp
CHECK_DEADLOCK FALSE
