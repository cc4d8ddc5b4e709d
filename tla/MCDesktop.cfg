\* Two chats and two breaks of a connection; or three spoken messages; or a
\* call with two captures.  When everything is settled nothing is left to do.
CONSTANTS
  None = None
  Requests = {r1, r2}
  MaxBreaks = 2
  Messages = {m1, m2, m3}
  SystemVoice = {m3}
  MaxCalls = 3
  Captures = {c1, c2}
  MaxTimers = 2
SPECIFICATION DesktopSpec
INVARIANT OnlyLatestIsHeard
PROPERTIES ChatsKeepTheirWord CallIsPrivate ListensAgain
CHECK_DEADLOCK FALSE
