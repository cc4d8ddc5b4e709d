\* The relay client's dispatcher: three requests, room for two records, two
\* status requests at a time, crashes; or two requests in one session, room for
\* one record, saves that fail; or two profiles with one image; or one image with two
\* changes of the key and one login; or two turns of
\* one chat session; or three calls of the update service, two at the same time,
\* and two versions.
CONSTANTS
  r1 = r1
  r2 = r2
  r3 = r3
  s1 = s1
  s2 = s2
  None = None
  Other = Other
  Requests = {r1, r2, r3}
  Simulated = {}
  Dispatchers = {"relay"}
  Sessions = {s1, s2}
  OpenSessions = {}
  SessionOf <- SharedSession
  Polls = {k1, k2}
  MaxRecords = 2
  MaxStarts = 2
  MaxSaveErrors = 0
  FewRequests = {r1, r2}
  FewSessions = {s1}
  FewOpen = {s1}
  MaxFailedSaves = 2
  ArtRequests = {q1}
  MaxProfiles = 2
  MaxAdded = 1
  MaxAssets = 1
  MaxCrashes = 1
  Generations = {g1}
  KeyChanges = {c1, c2}
  MaxLogins = 1
  AskedAgents = {a1, a2}
  MaxAsked = 2
  MaxProviderSessions = 2
  RoundLimit = 2
  Callers = {c1, c2}
  MaxUpdateCalls = 3
  MaxVersion = 2
  MaxOwn = 1
  NoteLimit = 3
SYMMETRY Symmetry
SPECIFICATION NodeSpec
INVARIANTS ExecutedOnce RecoveryOnlyOfInterrupted OwnAnswerInOwnSession ArtIsMade
  TurnsReachTheirSession UpdatesAreHonest
PROPERTY PromiseIsKept
CHECK_DEADLOCK FALSE
