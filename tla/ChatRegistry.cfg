CONSTANTS
  Channel = {c1, c2}
  Scanner = Scanner
  Pinger = Pinger
  Task = {Scanner}
  NoThread = NoThread
  NoUser = NoUser
  Request = {"upgrade", "auth", "chat"}
  Observed = {"chat"}
  MaxLogin = 1
  MaxChat = 3
SPECIFICATION Spec
SYMMETRY ChannelSymmetry
INVARIANT TypeOK
INVARIANT CountCoversAuthenticated
INVARIANT BroadcastSeesLiveEntries
PROPERTY NoChatSkipped
