CONSTANTS
  r1 = r1
  r2 = r2
  None = None
  Resources = {r1, r2}
  TypeOf <- Typed
  BadMessages = {2}
  ChannelSize = 1
  MaxMessages = 3
  MaxFaults = 1
  VersionBound = 2
SPECIFICATION FairSpec
INVARIANTS TypeOK SnapshotIsRecent DbIsStore LatestWins
PROPERTIES SnapshotFollows
