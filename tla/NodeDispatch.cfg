CONSTANTS
  r1 = r1
  r2 = r2
  g1 = g1
  g2 = g2
  None = None
  Nodes = {n1, n2}
  Resources = {r1}
  Specs = {1, 2}
  Groups = {g1, g2}
  GroupOf <- Grouped
  NodeObjects <- Changing
  DispatchWorkers = {d1}
  MaxNodeChanges = 3
  MaxWrites = 2
SPECIFICATION NodeSpec
INVARIANTS TypeOK MembersUpToDate MembersRecorded
CHECK_DEADLOCK FALSE
SYMMETRY Symmetry
