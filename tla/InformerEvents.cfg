CONSTANTS
  s1 = s1
  s2 = s2
  t1 = t1
  None = None
  Ingresses = {i1}
  Services = {s1, s2}
  Secrets = {t1}
  Versions = {"v1", "v1beta1"}
  IngressObjects <- Retargeted
  ServiceObjects <- Selected
  EndpointObjects = {1}
  SecretObjects = {1}
  ReadyNodes = {"n"}
  Workers = {w1}
  MaxChanges = 3
SPECIFICATION FairSpec
INVARIANTS TypeOK BuiltFromStores
PROPERTIES EventuallyFresh
CHECK_DEADLOCK FALSE
