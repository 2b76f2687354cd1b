SPECIFICATION ConfiguredFairSpec
CONSTANTS
  g1 = g1
  User = {u1}
  Guild = {g1}
  Link = {l1}
  GuildOf <- OneGuild
  Channel = {c1}
  Worker = worker
  Callback = {cb}
  NoUser = NoUser
  NoLink = NoLink
  NoRow = NoRow
  NoChannel = NoChannel
  Limit = 1
  MaxEnv = 2
  MaxFaults = 1
PROPERTIES
  EventuallyStripped
CHECK_DEADLOCK FALSE
