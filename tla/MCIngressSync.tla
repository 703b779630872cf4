--------------------------- MODULE MCIngressSync ---------------------------
(***************************************************************************)
(* Small instances of IngressSync.                                         *)
(***************************************************************************)
EXTENDS IngressSync, TLC

CONSTANTS i1, i2, r1, r2, g1

Obj(class, built, spec, groups) ==
  [class |-> class, built |-> built, spec |-> spec, groups |-> groups]

\* Ingresses that share r1 and r2, drop one, stop being envoy's or are deleted.
Sharing ==
  { Obj(TRUE, {r1}, 1, {g1}), Obj(TRUE, {r1, r2}, 2, {g1}), Obj(FALSE, {}, 1, {}), None }

\* Ingresses appear, change and go.
Renewed == { Obj(TRUE, {r1}, s, {g1}) : s \in {1, 2} } \cup {None}

Symmetry == Permutations(IngressWorkers) \cup Permutations(Ingresses)
=============================================================================
