CONSTANTS
  Channel = {c1, c2}
  Scanner = Scanner
  Pinger = Pinger
  Task = {Scanner, Pinger}
  NoThread = NoThread
  NoUser = NoUser
  Request = {"upgrade", "pong"}
  Observed = {}
  MaxLogin = 0
  MaxChat = 0
SPECIFICATION FairSpec
PROPERTY ClosedIsForgotten
PROPERTY SilentStrangerSwept
PROPERTY HandlersFinish
