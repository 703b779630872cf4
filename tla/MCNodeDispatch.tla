--------------------------- MODULE MCNodeDispatch ---------------------------
(* NodeDispatch for TLC: small sets of node objects.                       *)
EXTENDS NodeDispatch, TLC

CONSTANTS r1, r2, g1, g2

Node(l, s) == [label |-> l, ready |-> s]

\* r1 belongs to group g1, every other resource to g2.
Grouped == [r \in Resources |-> IF r = r1 THEN {g1} ELSE {g2}]

\* Nodes of a group that come and go and move to another one.
Changing == {Node({g1}, "True"), Node({g1}, "False"), Node({g2}, "True")}

Symmetry == Permutations(Nodes)
=============================================================================
