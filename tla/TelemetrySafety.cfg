CONSTANTS
  p1 = p1
  p2 = p2
  d1 = d1
  d2 = d2
  NoDevice = NoDevice
  NoEvent = NoEvent
  Pole <- MCPole
  DeviceOf <- MCDeviceOf
  Event <- MCEvent
  Batch <- SafetyBatches
  Request = {r1, r2}
  Drainer = {w1, w2}
  Capacity = 2
  Faults = {"rollback", "crash"}
SYMMETRY Symmetry
SPECIFICATION Spec
INVARIANTS
  TypeOK
  FilterMatchesQueue
  OvershootIsBounded
  PendingCursorIsNewestInFlight
  StreamOrder
  CacheMirrorsStore
PROPERTIES
  CursorsOnlyAdvance
  ImplementsPoleStream
