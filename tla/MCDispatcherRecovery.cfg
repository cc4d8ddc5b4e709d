\* An interrupted request is recovered from a session with an earlier answer.
CONSTANTS
  r1 = r1
  r2 = r2
  r3 = r3
  s1 = s1
  s2 = s2
  None = None
  Other = Other
  Requests = {r1, r2}
  Simulated = {}
  Dispatchers = {"relay"}
  Sessions = {s1}
  OpenSessions = {}
  SessionOf <- OneSession
  Polls = {k1}
  MaxRecords = 2
  MaxStarts = 1
  MaxSaveErrors = 0
SPECIFICATION Spec
INVARIANT CompletedWithOwnAnswer
