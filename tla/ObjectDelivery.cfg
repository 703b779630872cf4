CONSTANTS
  pod = pod
  secret = secret
  config = config
  service = service
  None = None
  Pods = {pod}
  ConfigMaps = {}
  Secrets = {}
  Services = {}
  Uses <- UsesConst
  MaxVersion = 3
  ChannelSize = 1
  MaxRetry = 1
  LinkSize = 2
  MaxFaults = 1
SPECIFICATION FairSpec
INVARIANTS TypeOK PersistedAsRecorded StoredIsPending
PROPERTIES RecordGrows Converges
CONSTRAINT NothingLost
CHECK_DEADLOCK FALSE
