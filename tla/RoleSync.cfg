SPECIFICATION ConfiguredSpec
CONSTANTS
  g1 = g1
  User = {u1, u2}
  Guild = {g1}
  Link = {l1}
  GuildOf <- OneGuild
  Channel = {c1}
  Worker = worker
  Callback = {cb}
  NoUser = NoUser
  NoLink = NoLink
  NoRow = NoRow
  NoChannel = NoChannel
  Limit = 1
  MaxEnv = 2
  MaxFaults = 1
INVARIANTS
  TypeOK
  DriftHasCause
  NoRoleAfterUnlink
PROPERTIES
  LostToOldToken
CHECK_DEADLOCK FALSE
SYMMETRY Symmetry
