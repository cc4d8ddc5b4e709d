\* Three changes of a device; or one pairing code and two requests of the wizard;
\* or an agent and a request of the art page; or a memory, a change of it, and
\* three searches, openings of the page and changes by agents; one failure.  When
\* everything is settled nothing is left to do.
CONSTANTS
  None = None
  MaxChanges = 3
  MaxPolls = 2
  MaxOffers = 1
  Slots = {q1, q2}
  Relays = {u1}
  Codes = {b1}
  Devices = {v1, v2}
  Preview = v1
  MaxAsks = 2
  MaxErrors = 1
  Agents = {a1}
  Assets = {i1, i2, i3}
  Seeds = {i1, i2}
  NumCategories = 2
  MaxClicks = 1
  MaxCopies = 2
  Memories = {m1}
  Texts = {t1}
  Queries = {w1}
  MaxSaves = 1
  MaxSteps = 3
SPECIFICATION PagesSpec
PROPERTIES PagesCatchUp PairingIsFollowed AgentsGetArt
CHECK_DEADLOCK FALSE
