--------------------------- MODULE HubConnection ---------------------------
(***************************************************************************)
(* The websocket connections between cloudhub and the edgehub of one node. *)
(***************************************************************************)
EXTENDS Naturals, Sequences, FiniteSets

CONSTANTS Conns, None

ASSUME ConnsAssumption == None \notin Conns

VARIABLES
  link,      \* link[c]: "open", "broken" (nobody knows yet) or "closed"
  wire,      \* wire[c]: messages to the edge written to c and not yet read
  accepted   \* connections that were made and not yet given to OnRegister

Open == {c \in Conns : link[c] = "open"}
=============================================================================
