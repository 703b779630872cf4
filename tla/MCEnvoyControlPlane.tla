------------------------- MODULE MCEnvoyControlPlane -------------------------
(* EnvoyControlPlane for TLC: an endpoint and a cluster.                    *)
EXTENDS EnvoyControlPlane

CONSTANTS r1, r2

Typed == [r \in Resources |-> IF r = r1 THEN "Endpoint" ELSE "Cluster"]
=============================================================================
