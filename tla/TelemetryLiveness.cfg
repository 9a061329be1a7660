CONSTANTS
  p1 = p1
  p2 = p2
  d1 = d1
  d2 = d2
  NoDevice = NoDevice
  NoEvent = NoEvent
  Pole <- MCPole
  DeviceOf <- MCDeviceOf
  Event <- MCEvent
  Batch <- RetryBatches
  Request = {r1, r2}
  Drainer = {w1, w2}
  Capacity = 1
  Faults = {"rollback", "ackLost", "crash"}
SPECIFICATION FairSpec
PROPERTIES
  QueueDrains
  RequestsComplete
  AcceptedIsApplied
