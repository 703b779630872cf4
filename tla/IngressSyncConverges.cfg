CONSTANTS
  i1 = i1
  i2 = i2
  r1 = r1
  r2 = r2
  g1 = g1
  None = None
  Ingresses = {i1, i2}
  Resources = {r1}
  Specs = {1, 2}
  Groups = {g1}
  Changes <- Renewed
  Broken = {}
  Versions = {"v1"}
  IngressWorkers = {w1, w2}
  DispatchWorkers = {d1, d2}
  MaxChanges = 2
SPECIFICATION FairSpec
PROPERTIES Converges WorkersReturn
CHECK_DEADLOCK FALSE
