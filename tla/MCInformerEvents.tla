-------------------------- MODULE MCInformerEvents --------------------------
(* InformerEvents for TLC: small sets of objects.                          *)
EXTENDS InformerEvents

CONSTANTS s1, s2, t1

Ingress(e, u, s) == [envoy |-> e, uid |-> u, service |-> s, secret |-> t1, groups |-> {"g"}]
Service(sel, p) == [selector |-> sel, ports |-> p]

\* An envoy ingress on one service, on another, of another class.
Retargeted == {Ingress(TRUE, 1, s1), Ingress(TRUE, 1, s2), Ingress(FALSE, 2, s1)}

\* The selector changes, the ports do not.
Selected == {Service(1, 1), Service(2, 1)}
=============================================================================
