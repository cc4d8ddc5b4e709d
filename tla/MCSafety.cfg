\* Two identities, one pairing code that moves between them, two connections;
\* or two messages in two conversations of two agents; or two requests that
\* recover the node of the desktop application; or two requests of the art page,
\* or of the settings page, at the same time; or two machines and one pairing
\* code of the backend in development; or three requests of the pairing wizard;
\* or a memory of two agents and a project.
CONSTANTS
  None = None
  Codes = {k1}
  DeviceIds = {d1, d2}
  Sockets = {s1, s2}
  Envelopes = {e1}
  PairingTtl = 0
  QueueTtl = 1
  QueueLimit = 2
  HeartbeatStale = 0
  HeartbeatLag = 0
  MaxFlushCrashes = 0
  Agents = {a1, a2, a3}
  LocalAgents = {a2}
  MaxSessions = 2
  MaxTurns = 2
  MaxMessages = 3
  MaxHaste = 1
  Loads = {l1}
  Callers = {c1, c2}
  Procs = {p1, p2}
  Outside = out
  StudioAgents = {}
  Assets = {i1, i2, i3}
  Seeds = {i1, i2}
  NumCategories = 2
  Slots = {q1, q2}
  MaxClicks = 2
  MaxCopies = 1
  MaxFailures = 1
  Keys = {x1}
  Members = {n1, n2}
  MaxSettings = 2
  MaxRelayed = 1
  Machines = {h1, h2}
  Local = h1
  Names = {w1, w2}
  Accounts = {o1, o2}
  Default = o1
  HubCodes = {t1}
  MaxTokens = 1
  MaxReports = 1
  MaxRegistered = 3
  MaxHubCrashes = 1
  Relays = {u1, u2}
  WizardCodes = {b1, b2}
  WizardDevices = {v1, v2}
  Preview = v1
  MaxAsks = 3
  MaxErrors = 0
  MeshAgents = {a1, a2}
  Memories = {m1}
SPECIFICATION SafetySpec
SYMMETRY SafetySymmetry
INVARIANTS SafetyTypeOK SocketOwnership ConversationsStayApart NodesAreKnown
  PagesShowTheNode NotesStayPrivate
PROPERTY AttachedStays
CHECK_DEADLOCK FALSE
