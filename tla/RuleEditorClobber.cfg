SPECIFICATION NewSpec
CONSTANTS
  Tab = {t1, t2}
  Save = {s1, s2}
  ChannelRule = {followers}
  DefaultRule = followers
  NoRow = NoRow
  NoTab = NoTab
  Live = Live
  Gone = Gone
  MaxVersion = 3
  MaxId = 1
  MaxEnv = 0
  MaxFaults = 0
  MaxRemovals = 0
  MaxBusy = 2
  MaxSyncs = 2
PROPERTIES
  NoSilentClobber
