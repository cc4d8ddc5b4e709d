\* Three turns, one of them routed, or three changes of one store; one crash.
CONSTANTS
  None = None
  Chats = {chat}
  MaxTurns = 3
  Routed = {2}
  MaxImports = 1
  MaxCrashes = 1
  Stores = {"sessions", "settings", "notifications", "art", "files"}
  MaxChanges = 3
  MaxFailures = 1
SPECIFICATION NodeSpec
INVARIANT TurnsDoNotInterleave
PROPERTIES EveryTurnSettles InterruptedIsReported SavesReachTheFile
CHECK_DEADLOCK FALSE
