CONSTANTS
  Channel = {c1, c2}
  Scanner = Scanner
  Pinger = Pinger
  Task = {Pinger}
  NoThread = NoThread
  NoUser = NoUser
  Request = {"upgrade", "unsupported", "plain", "auth", "refused", "bad", "close", "idle", "io"}
  Observed = {}
  MaxLogin = 1
  MaxChat = 0
SPECIFICATION Spec
SYMMETRY ChannelSymmetry
INVARIANT CountCoversAuthenticated
INVARIANT NoOrphanSocket
