SPECIFICATION StartSpec
CONSTANTS
  u1 = u1
  u2 = u2
  u3 = u3
  User = {u1, u2, u3}
  Link = {l1, l2}
  NoLink = NoLink
  PutMax = 1
  ChunkSize = 1
  Ungated = 0
  Window = 6
  MaxSwap = 3
  List <- Lists
  Debounce = 1
  HeldRecheck = 2
  NotDue = NotDue
  MaxEnv = 2
  MaxFaults = 1
INVARIANTS
  TypeOK
  NoChangeForgotten
PROPERTIES
  ReplacesAsAWhole
  ConfirmationIsUsed
  ChangesLand
CHECK_DEADLOCK FALSE
