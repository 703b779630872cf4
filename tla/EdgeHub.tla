------------------------------ MODULE EdgeHub ------------------------------
(***************************************************************************)
(* edgehub of an edge node (edge/pkg/edgehub) with its websocket client:   *)
(* the goroutine of Start, which connects to cloudhub, starts three        *)
(* goroutines for the connection and waits on reconnectChan for one of     *)
(* them to fail.                                                           *)
(*                                                                         *)
(* The connection's handleMessage fills messageFifo and routeToEdge        *)
(* empties it, so routeToEdge fails only once Start itself has closed the  *)
(* connection.  A routeToCloud that has nothing to send lives on, next to  *)
(* the one of the next connection.                                         *)
(***************************************************************************)
EXTENDS HubConnection

CONSTANT FifoSize

ASSUME FifoSizeAssumption == FifoSize \in Nat \ {0}

VARIABLES
  epc,        \* Start: "connecting", "up", "closing" or "waiting"
  client,     \* the connection of chClient, None before Init has made one
  fifo, fifoOpen,         \* its messageFifo
  reader,     \* routeToEdge runs
  senders,    \* number of routeToCloud goroutines
  keeper,     \* keepalive runs
  blocked     \* number of goroutines that wait to put something into reconnectChan

ehVars == <<epc, client, fifo, fifoOpen, reader, senders, keeper, blocked>>

EHInit ==
  /\ epc = "connecting" /\ client = None /\ fifo = << >> /\ fifoOpen = FALSE
  /\ reader = FALSE /\ senders = 0 /\ keeper = FALSE /\ blocked = 0

\* The edge closes its connection: what is under way is lost.
Hangup ==
  /\ link' = IF client = None THEN link ELSE [link EXCEPT ![client] = "closed"]
  /\ wire' = IF client = None THEN wire ELSE [wire EXCEPT ![client] = << >>]

\* edgecore ends and is started again.
EHRestart ==
  /\ epc' = "connecting" /\ client' = None /\ fifo' = << >> /\ fifoOpen' = FALSE
  /\ reader' = FALSE /\ senders' = 0 /\ keeper' = FALSE /\ blocked' = 0
  /\ Hangup
  /\ UNCHANGED accepted

\* Init has connected on c: Start starts the three goroutines.
Connect(c) ==
  /\ epc = "connecting" /\ epc' = "up"
  /\ link' = [link EXCEPT ![c] = "open"] /\ wire' = [wire EXCEPT ![c] = << >>]
  /\ accepted' = accepted \cup {c}
  /\ client' = c /\ fifo' = << >> /\ fifoOpen' = TRUE
  /\ reader' = TRUE /\ senders' = senders + 1 /\ keeper' = TRUE
  /\ UNCHANGED blocked

\* handleMessage puts what has arrived into the fifo; a full fifo loses its
\* oldest message.
Arrived == client # None /\ link[client] # "broken" /\ wire[client] # << >>
\* (a fifo without a limit)
PutUnlimited ==
  /\ Arrived /\ fifoOpen
  /\ fifo' = Append(fifo, Head(wire[client]))
  /\ wire' = [wire EXCEPT ![client] = Tail(@)]
  /\ UNCHANGED <<link, accepted, epc, client, fifoOpen, reader, senders, keeper, blocked>>
Put ==
  /\ Arrived /\ fifoOpen
  /\ fifo' = Append(IF Len(fifo) = FifoSize THEN Tail(fifo) ELSE fifo, Head(wire[client]))
  /\ wire' = [wire EXCEPT ![client] = Tail(@)]
  /\ UNCHANGED <<link, accepted, epc, client, fifoOpen, reader, senders, keeper, blocked>>

\* A fifo that Start has just closed: a panic, which ends edgecore.
PutPanics == Arrived /\ ~fifoOpen /\ EHRestart

\* routeToEdge and dispatch.
RouteToEdge ==
  /\ reader /\ fifo # << >>
  /\ fifo' = Tail(fifo)
  /\ UNCHANGED <<link, wire, accepted, epc, client, fifoOpen, reader, senders, keeper, blocked>>

ReadFails ==
  /\ reader /\ fifo = << >> /\ ~fifoOpen
  /\ reader' = FALSE /\ blocked' = blocked + 1
  /\ UNCHANGED <<link, wire, accepted, epc, client, fifo, fifoOpen, senders, keeper>>

KeepaliveFails ==
  /\ keeper /\ client \notin Open
  /\ keeper' = FALSE /\ blocked' = blocked + 1
  /\ UNCHANGED <<link, wire, accepted, epc, client, fifo, fifoOpen, reader, senders>>

\* routeToCloud has a message to send and fails.
RouteToCloudFails ==
  /\ senders > 0 /\ client # None /\ client \notin Open
  /\ senders' = senders - 1 /\ blocked' = blocked + 1
  /\ UNCHANGED <<link, wire, accepted, epc, client, fifo, fifoOpen, reader, keeper>>

\* A routeToCloud of an earlier connection uses the new client before Init has
\* given it a connection: a nil pointer dereference, which ends edgecore.
SendPanics == senders > 0 /\ client = None /\ EHRestart

\* ifRotationDone: new certificates ask for a new connection.
RotationDone ==
  /\ blocked' = blocked + 1
  /\ UNCHANGED <<link, wire, accepted, epc, client, fifo, fifoOpen, reader, senders, keeper>>

\* Start takes one message from reconnectChan; UnInit closes first the fifo,
Reconnect ==
  /\ epc = "up" /\ blocked > 0
  /\ epc' = "closing" /\ blocked' = blocked - 1 /\ fifoOpen' = FALSE
  /\ UNCHANGED <<link, wire, accepted, client, fifo, reader, senders, keeper>>

\* then the connection.
UnInit ==
  /\ epc = "closing" /\ epc' = "waiting"
  /\ Hangup
  /\ UNCHANGED <<accepted, client, fifo, fifoOpen, reader, senders, keeper, blocked>>

\* After two heartbeats, in which routeToEdge and keepalive have failed, Start
\* cleans reconnectChan and makes a new client.
Retry ==
  /\ epc = "waiting" /\ ~reader /\ ~keeper
  /\ epc' = "connecting" /\ client' = None /\ blocked' = 0
  /\ UNCHANGED <<link, wire, accepted, fifo, fifoOpen, reader, senders, keeper>>
=============================================================================
