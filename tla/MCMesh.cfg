\* Two tasks of every kind and one crash, or four directories and two changes,
\* or two agents on two devices;
\* when all tasks are settled nothing is left to do.
CONSTANTS
  None = None
  MaxTasks = 2
  Kinds = {"local", "remote", "unavailable"}
  ResumeLimit = 2
  MaxCrashes = 1
  top = top
  middle = middle
  side = side
  bottom = bottom
  here = here
  there = there
  MeshAgents = {1, 2}
  MeshDevices <- Node
  Registries <- OwnerAndHelper
  MeshProjects <- SharedProjects
  Currents <- Origins
  Remote = remote
  Repo = repo
  Manual = manual
  BatchSize = 2
  MaxProjects = 1
  MaxChanges = 2
SPECIFICATION MeshSpec
INVARIANTS RunsAreDue StrongestReasonDecides
PROPERTIES SettledStays DispatchedSettles DiscoveryKeepsUp
CHECK_DEADLOCK FALSE
