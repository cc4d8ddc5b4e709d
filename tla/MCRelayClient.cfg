\* Three sockets: the current one and two whose events are still to come; or two
\* devices with an agent of the same name, two syncs and a PATCH.
CONSTANTS
  Sockets = {s1, s2, s3}
  None = None
  ReconnectMin = 2
  ReconnectMax = 7
  here = here
  there = there
  Names = {n1}
  Syncs = {y1, y2}
  Patches = {q1}
  MaxChanges = 2
  MaxPatches = 1
SPECIFICATION UplinkSpec
INVARIANTS SingleConnection NeverStranded StatusIsTrue
PROPERTIES KeepsTrying RegistryCatchesUp
