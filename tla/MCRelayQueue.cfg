\* One device whose connection breaks and comes back, and one request more
\* than its queue holds.
CONSTANTS
  Codes = {k1}
  DeviceIds = {d1}
  Sockets = {s1, s2}
  Envelopes = {e1, e2, e3}
  None = None
  PairingTtl = 0
  QueueTtl = 2
  QueueLimit = 2
  HeartbeatStale = 0
  HeartbeatLag = 0
  MaxFlushCrashes = 1
SPECIFICATION Spec
INVARIANTS
  QueueBounded
  ConnectedQueueEmpty
  QueueIsKept
PROPERTIES
  QueueLeftOnlyForCause
  StaleIsNotKeptOnline
CHECK_DEADLOCK FALSE
