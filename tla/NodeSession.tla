---------------------------- MODULE NodeSession ----------------------------
(***************************************************************************)
(* cloudhub's side of the connection of an edge node, and the list queue   *)
(* that carries the messages that are sent once and never acknowledged,    *)
(* those of the envoy ingress controller among them (messagehandler.go,    *)
(* channelq.go).                                                           *)
(*                                                                         *)
(* A session is a ServeConn goroutine with its loops.  It outlives the     *)
(* connection it was started for: a later connection takes its place in    *)
(* nodeConns.  Only the deletion of the node ends it.                      *)
(***************************************************************************)
EXTENDS HubConnection

CONSTANTS Sessions, Queues,
          Stop         \* the message that says that the node was deleted

ASSUME SessionsAssumption == Sessions # {}
ASSUME QueuesAssumption == Queues # {} /\ None \notin Queues

VARIABLES
  arriving,    \* connections OnRegister has made the keepalive channel for
  conn,        \* nodeConns
  nodeLock,    \* nodeLocks has the node
  registered,  \* nodeRegistered
  keepalive,   \* KeepaliveChannel has a channel of the node
  checkers,    \* sessions with a KeepaliveCheckLoop on it
  expired,     \* the connection a KeepaliveCheckLoop is about to close
  pool,        \* the node's queue in listQueuePool
  lists,       \* the list queues with their stores
  sess         \* the sessions

nsVars == <<link, wire, accepted, arriving, conn, nodeLock, registered, keepalive, checkers,
            expired, pool, lists, sess>>
tableVars == <<nodeLock, registered, keepalive, checkers>>

NoSession == [pc |-> "none", loop |-> "none", queue |-> None, msg |-> None, via |-> None]
NoList == [items |-> << >>, down |-> FALSE]

NSInit ==
  /\ link = [c \in Conns |-> "closed"] /\ wire = [c \in Conns |-> << >>]
  /\ accepted = {} /\ arriving = {} /\ conn = None /\ nodeLock = FALSE /\ registered = FALSE
  /\ keepalive = FALSE /\ checkers = {} /\ expired = None
  /\ pool = None /\ lists = [q \in Queues |-> NoList]
  /\ sess = [s \in Sessions |-> NoSession]

\* cloudcore ends and starts again.
NSRestart ==
  /\ link' = [c \in Conns |-> "closed"]
  /\ accepted' = {} /\ arriving' = {} /\ conn' = None /\ nodeLock' = FALSE /\ registered' = FALSE
  /\ keepalive' = FALSE /\ checkers' = {} /\ expired' = None
  /\ pool' = None /\ lists' = [q \in Queues |-> NoList]
  /\ sess' = [s \in Sessions |-> NoSession]
  /\ UNCHANGED wire
-----------------------------------------------------------------------------
(* Queues                                                                  *)

FreeQueue == CHOOSE q \in Queues : q # pool /\ \A s \in Sessions : sess[s].queue # q

\* Connect and GetNodeListQueue make a queue when there is none.
NodeListQueue == IF pool = None THEN FreeQueue ELSE pool
Ensured == IF pool = None THEN [lists EXCEPT ![FreeQueue] = NoList] ELSE lists

\* A queue that is shut down takes nothing.
AddListMessageToQueue(m) ==
  /\ pool' = NodeListQueue
  /\ lists' = IF Ensured[pool'].down THEN Ensured ELSE [Ensured EXCEPT ![pool'].items = Append(@, m)]
  /\ UNCHANGED <<link, wire, accepted, arriving, conn, tableVars, expired, sess>>
-----------------------------------------------------------------------------
(* Sessions                                                                *)

\* OnRegister makes the keepalive channel when there is none,
EnsureKeepalive(c) ==
  /\ c \in accepted
  /\ accepted' = accepted \ {c} /\ arriving' = arriving \cup {c}
  /\ keepalive' = TRUE
  /\ UNCHANGED <<link, wire, conn, nodeLock, registered, checkers, expired, pool, lists, sess>>

FreeSession == CHOOSE s \in Sessions : sess[s] = NoSession

\* (a session for every connection)
OnRegisterAlways(c) ==
  /\ c \in arriving
  /\ arriving' = arriving \ {c} /\ conn' = c
  /\ sess' = [sess EXCEPT ![FreeSession].pc = "register"]
  /\ UNCHANGED <<link, wire, accepted, tableVars, expired, pool, lists>>

\* and puts the connection in the place of the one of a registered node, or
\* starts a session.
OnRegister(c) ==
  /\ c \in arriving
  /\ arriving' = arriving \ {c} /\ conn' = c
  /\ \/ /\ registered
        /\ link' = IF conn = None THEN link ELSE [link EXCEPT ![conn] = "closed"]
        /\ UNCHANGED sess
     \/ /\ ~registered
        /\ sess' = [sess EXCEPT ![FreeSession].pc = "register"]
        /\ UNCHANGED link
  /\ UNCHANGED <<wire, accepted, tableVars, expired, pool, lists>>

\* ServeConn: RegisterNode, then the loops.
RegisterNode(s) ==
  /\ sess[s].pc = "register"
  /\ \/ /\ conn = None
        /\ sess' = [sess EXCEPT ![s] = NoSession]
        /\ UNCHANGED <<nodeLock, registered, checkers, pool, lists>>
     \/ /\ conn # None
        /\ nodeLock' = TRUE /\ registered' = TRUE
        /\ checkers' = IF keepalive THEN checkers \cup {s} ELSE checkers
        /\ pool' = NodeListQueue /\ lists' = Ensured
        /\ sess' = [sess EXCEPT ![s] = [pc |-> "serve", loop |-> "get", queue |-> pool',
                                        msg |-> None, via |-> None]]
  /\ UNCHANGED <<link, wire, accepted, arriving, conn, keepalive, expired>>

Looping(s, loop, msg, via) ==
  sess' = [sess EXCEPT ![s] = [pc |-> @.pc, loop |-> loop, queue |-> @.queue, msg |-> msg, via |-> via]]

\* ListMessageWriteLoop takes a message.  Without a connection it is dropped.
GetMessage(s) ==
  LET q == sess[s].queue
      m == Head(lists[q].items)
  IN  /\ sess[s].loop = "get" /\ lists[q].items # << >>
      /\ \/ /\ m # Stop
            /\ lists' = [lists EXCEPT ![q].items = Tail(@)]
            /\ IF conn = None THEN UNCHANGED sess ELSE Looping(s, "write", m, conn)
         \/ /\ m = Stop
            /\ lists' = [lists EXCEPT ![q] = [items |-> Tail(@.items), down |-> TRUE]]
            /\ sess' = [sess EXCEPT ![s] = [NoSession EXCEPT !.pc = "close"]]
      /\ UNCHANGED <<link, wire, accepted, arriving, conn, tableVars, expired, pool>>

\* The queue is shut down and empty: the loops end, ServeConn waits for ever.
Quit(s) ==
  /\ sess[s].loop = "get" /\ lists[sess[s].queue] = [items |-> << >>, down |-> TRUE]
  /\ sess' = [sess EXCEPT ![s] = NoSession]
  /\ UNCHANGED <<link, wire, accepted, arriving, conn, tableVars, expired, pool, lists>>

\* hubIoWrite: a write to a broken connection may seem to succeed.  The message
\* is deleted from the store in any case.
Writable(s) == nodeLock /\ link[sess[s].via] = "open"
WriteMessage(s) ==
  /\ sess[s].loop = "write"
  /\ wire' = IF Writable(s) THEN [wire EXCEPT ![sess[s].via] = Append(@, sess[s].msg)] ELSE wire
  /\ Looping(s, "get", None, None)
  /\ UNCHANGED <<link, accepted, arriving, conn, tableVars, expired, pool, lists>>

\* UnregisterNode, after the deletion of the node, entry by entry.
Step(s, from, to) == sess[s].pc = from /\ sess' = [sess EXCEPT ![s].pc = to]

CloseConn(s) ==
  /\ Step(s, "close", "unlock")
  /\ link' = IF conn = None THEN link ELSE [link EXCEPT ![conn] = "closed"]
  /\ UNCHANGED <<wire, accepted, arriving, conn, tableVars, expired, pool, lists>>

DeleteLock(s) ==
  /\ Step(s, "unlock", "forget") /\ nodeLock' = FALSE
  /\ UNCHANGED <<link, wire, accepted, arriving, conn, registered, keepalive, checkers,
                 expired, pool, lists>>

DeleteConn(s) ==
  /\ Step(s, "forget", "unregister") /\ conn' = None
  /\ UNCHANGED <<link, wire, accepted, arriving, tableVars, expired, pool, lists>>

DeleteRegistered(s) ==
  /\ Step(s, "unregister", "silence") /\ registered' = FALSE
  /\ UNCHANGED <<link, wire, accepted, arriving, conn, nodeLock, keepalive, checkers,
                 expired, pool, lists>>

CloseKeepalive(s) ==
  /\ Step(s, "silence", "drop") /\ keepalive' = FALSE
  /\ checkers' = IF keepalive THEN {} ELSE checkers
  /\ UNCHANGED <<link, wire, accepted, arriving, conn, nodeLock, registered, expired, pool, lists>>

\* (the queue that was shut down stays)
CloseQueuesNot(s) ==
  /\ sess[s].pc = "drop" /\ sess' = [sess EXCEPT ![s] = NoSession]
  /\ UNCHANGED <<link, wire, accepted, arriving, conn, tableVars, expired, pool, lists>>
CloseQueues(s) ==
  /\ sess[s].pc = "drop" /\ sess' = [sess EXCEPT ![s] = NoSession]
  /\ pool' = None
  /\ UNCHANGED <<link, wire, accepted, arriving, conn, tableVars, expired, lists>>

Unregister(s) == CloseConn(s) \/ DeleteLock(s) \/ DeleteConn(s) \/ DeleteRegistered(s)
                   \/ CloseKeepalive(s) \/ CloseQueues(s)
-----------------------------------------------------------------------------
(* Keepalive                                                               *)

\* HandleServer has looked the channel up and puts a keepalive message into it
\* when UnregisterNode has closed it: a panic, which ends cloudcore.
PingPanics == keepalive /\ (\E s \in Sessions : sess[s].pc = "silence") /\ NSRestart

\* KeepaliveCheckLoop looks the connection up, closes it and deletes whatever
\* is in nodeConns.  Heartbeats of an open connection arrive in time.
KeepaliveTimeout ==
  /\ checkers # {} /\ expired = None /\ conn # None /\ link[conn] # "open"
  /\ expired' = conn
  /\ UNCHANGED <<link, wire, accepted, arriving, conn, tableVars, pool, lists, sess>>

CloseExpired ==
  /\ expired # None
  /\ link' = [link EXCEPT ![expired] = "closed"]
  /\ conn' = None /\ expired' = None
  /\ UNCHANGED <<wire, accepted, arriving, tableVars, pool, lists, sess>>
=============================================================================
