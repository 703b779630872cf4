---------------------------- MODULE MCEnvoyLink ----------------------------
(***************************************************************************)
(* One resource that is there from the start, one change of it, one fault. *)
(***************************************************************************)
EXTENDS EnvoyLink

\* Every property makes an exception of raced, which stays true: exploration
\* goes on from there only while the resource is as it was and not yet sent.
RacedEarly == raced => changes = 0 /\ \A r \in Resources : sent[r] = 0
=============================================================================
