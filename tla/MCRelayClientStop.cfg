\* A disconnect while the auto-pairing of the boot waits for the relay.
CONSTANTS
  Sockets = {s1, s2}
  None = None
  ReconnectMin = 1
  ReconnectMax = 1
SPECIFICATION Spec
INVARIANT StaysStopped
