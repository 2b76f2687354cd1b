SPECIFICATION Spec
CONSTANTS
  Body <- SmallBodies
  Migrated <- LegacyRules
  Fact <- SomeFacts
  MaxGroups = 2
  MaxConditions = 2
  Day = 2
  Skew = 1
  MaxNow = 5
INVARIANTS
  MustAgree
