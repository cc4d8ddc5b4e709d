\* Two tasks of every kind and one crash; when all are settled nothing is left to do.
CONSTANTS
  None = None
  MaxTasks = 2
  Kinds = {"local", "remote", "unavailable"}
  ResumeLimit = 2
  MaxCrashes = 1
SPECIFICATION Spec
INVARIANT CancelledNotPromoted
CHECK_DEADLOCK FALSE
