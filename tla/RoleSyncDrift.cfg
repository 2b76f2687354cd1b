SPECIFICATION ConfiguredSpec
CONSTANTS
  g1 = g1
  User = {u1}
  Guild = {g1}
  Link = {l1}
  GuildOf <- OneGuild
  Channel = {c1}
  Worker = worker
  Callback = {}
  NoUser = NoUser
  NoLink = NoLink
  NoRow = NoRow
  NoChannel = NoChannel
  Limit = 1
  MaxEnv = 1
  MaxFaults = 0
INVARIANTS
  MirrorTracksRoles
CHECK_DEADLOCK FALSE
