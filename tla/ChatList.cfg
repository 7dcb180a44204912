CONSTANTS
  Channel = {c1, c2}
  Scanner = Scanner
  Pinger = Pinger
  Task = {Scanner}
  NoThread = NoThread
  NoUser = NoUser
  Request = {"upgrade", "auth"}
  Observed = {"users"}
  MaxLogin = 1
  MaxChat = 0
SPECIFICATION Spec
SYMMETRY ChannelSymmetry
INVARIANT ListIsCurrent
