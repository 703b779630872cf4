CONSTANTS
  pod = pod
  secret = secret
  config = config
  service = service
  None = None
  Pods = {pod}
  ConfigMaps = {config}
  Secrets = {secret}
  Services = {service}
  Uses <- UsesConst
  MaxVersion = 3
  ChannelSize = 1
  MaxRetry = 1
  LinkSize = 1
  MaxFaults = 0
SPECIFICATION FairSpec
PROPERTIES Converges
CONSTRAINT NothingLost
CHECK_DEADLOCK FALSE
