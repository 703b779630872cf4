CONSTANTS
  r1 = r1
  r2 = r2
  None = None
  Resources = {r1}
  TypeOf <- Typed
  BadMessages = {}
  ChannelSize = 1
  MaxMessages = 1
  MaxFaults = 1
  VersionBound = 2
SPECIFICATION FairSpec
PROPERTIES Recovered
