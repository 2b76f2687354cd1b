SPECIFICATION StartSpec
CONSTANTS
  m1 = m1
  m2 = m2
  a1 = a1
  a2 = a2
  c1 = c1
  c2 = c2
  l1 = l1
  l2 = l2
  r1 = r1
  r2 = r2
  Member = {m1, m2}
  Account = {a1, a2}
  Link = {l1, l2}
  Channel = {c1, c2}
  Type = {follow}
  follow = follow
  Request = {r1, r2}
  NoMember = NoMember
  NoAccount = NoAccount
  NoLink = NoLink
  NoChannel = NoChannel
  Joined <- AllJoined
  MaxEnv = 3
  MaxFaults = 1
INVARIANTS
  TypeOK
  CacheComplete
  LinkKept
  ConnectedIsHeard
  AbandonedIsSilent
PROPERTIES
  ServedInTheEnd
CHECK_DEADLOCK FALSE
