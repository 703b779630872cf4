CONSTANTS
  i1 = i1
  i2 = i2
  r1 = r1
  r2 = r2
  g1 = g1
  None = None
  Ingresses = {i1, i2}
  Resources = {r1, r2}
  Specs = {1, 2}
  Groups = {g1}
  Changes <- Sharing
  Broken = {2}
  Versions = {"v1", "v1beta1"}
  IngressWorkers = {w1, w2}
  DispatchWorkers = {d1}
  MaxChanges = 3
SYMMETRY Symmetry
SPECIFICATION Safety
INVARIANTS LockReleased MapAllocated DispatchedOrQueued SyncedOrQueued InductiveInv
CHECK_DEADLOCK FALSE
