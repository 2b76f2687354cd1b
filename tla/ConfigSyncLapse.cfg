SPECIFICATION BusySpec
CONSTANTS
  u1 = u1
  u2 = u2
  u3 = u3
  User = {u1, u2}
  Link = {l1, l2, l3}
  NoLink = NoLink
  PutMax = 1
  ChunkSize = 2
  Ungated = 0
  Window = 6
  MaxSwap = 3
  List <- AllOrNone
  Debounce = 1
  HeldRecheck = 2
  NotDue = NotDue
  MaxEnv = 0
  MaxFaults = 0
PROPERTIES
  RecheckInsideTheHour
SYMMETRY Symmetry
