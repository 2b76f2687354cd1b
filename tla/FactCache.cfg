SPECIFICATION StartSpec
CONSTANTS
  u1 = u1
  u2 = u2
  c1 = c1
  c2 = c2
  l1 = l1
  l2 = l2
  User = {u1, u2}
  Channel = {c1, c2}
  Link = {l1, l2}
  NoChannel = NoChannel
  NoToken = NoToken
  NoRow = NoRow
  NoEntry = NoEntry
  Entry <- Entries
  Active = {u1}
  Slow <- SlowEntries
  MaxFailures = 2
  MaxEnv = 3
  MaxFaults = 1
INVARIANTS
  TypeOK
  TokenKept
PROPERTIES
  PollTellsTruth
  FactsConverge
CHECK_DEADLOCK FALSE
