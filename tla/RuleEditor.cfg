SPECIFICATION MixedSpec
CONSTANTS
  Tab = {t1, t2}
  Save = {s1, s2}
  ChannelRule = {followers}
  DefaultRule = followers
  NoRow = NoRow
  NoTab = NoTab
  Live = Live
  Gone = Gone
  MaxVersion = 2
  MaxId = 2
  MaxEnv = 2
  MaxFaults = 1
  MaxRemovals = 1
  MaxBusy = 2
  MaxSyncs = 2
INVARIANTS
  TypeOK
  ShowsStored
  ChangeReachesWorker
PROPERTIES
  ReplacesWhatWasShown
  NoNoopRule
CHECK_DEADLOCK FALSE
SYMMETRY Symmetry
