\* Both dispatchers of a node save their ledger to the same file.
CONSTANTS
  r1 = r1
  r2 = r2
  r3 = r3
  s1 = s1
  s2 = s2
  None = None
  Other = Other
  Requests = {r1, r2}
  Simulated = {r2}
  Dispatchers = {"relay", "local"}
  Sessions = {s1}
  OpenSessions = {}
  SessionOf <- OneSession
  Polls = {}
  MaxRecords = 2
  MaxStarts = 2
  MaxSaveErrors = 0
SPECIFICATION Spec
INVARIANT ExecutedOnce
