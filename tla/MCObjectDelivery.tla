-------------------------- MODULE MCObjectDelivery --------------------------
(***************************************************************************)
(* Instances of ObjectDelivery: a pod, or an object of every kind.         *)
(* What follows the loss of an object is not explored.                     *)
(***************************************************************************)
EXTENDS ObjectDelivery

CONSTANTS pod, config, secret, service

NothingLost == lost = {}
UsesConst == [x \in Pods |-> ConfigMaps \cup Secrets]
=============================================================================
