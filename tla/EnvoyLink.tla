----------------------------- MODULE EnvoyLink -----------------------------
(***************************************************************************)
(* The envoy resources' way to one edge node: the ingress controller, the  *)
(* list queue and the session of cloudhub (NodeSession), edgehub (EdgeHub) *)
(* and the control plane's store on the node.                              *)
(*                                                                         *)
(* The two ends are kept small, they have modules of their own             *)
(* (NodeDispatch, EnvoyControlPlane): a dispatch worker copies a resource  *)
(* that changed and sends the copy later, if the node is ready; the node   *)
(* handler sends every resource of the store when the node becomes ready;  *)
(* edgehub hands each message to a goroutine, which takes it to the        *)
(* control plane.  beehive's channel to cloudhub and the list queue behind *)
(* it are one queue.  A message is sent once and nothing acknowledges it.  *)
(***************************************************************************)
EXTENDS NodeSession, EdgeHub

CONSTANTS Resources,
          MaxChanges, MaxFaults   \* bounds

VARIABLES
  store,      \* the resource of each name: its version, whether an ingress refers to it,
              \* and the version of its Spec, which its last ingress leaves as it was
  queued,     \* resources in the queue of the dispatch workers
  copied,     \* the copy of a resource a dispatch worker has taken, or None
  ready,      \* the controller takes the node to be ready
  deleted,    \* the node handler has still to learn that the node was deleted
  ranging,    \* the node handler is in syncAllResourcesToEdgeNodes
  syncing,    \* resources its range statement has not come to
  picked,     \* the resource the range statement has yielded, or None
  handed,     \* messages SendToGroup was given, each in a goroutine of its own
  edge,       \* version of the resource in the control plane's store, 0 for none
  sent,       \* newest version sent
  doubt,      \* resources whose newest message got lost or was overtaken by an
              \* older one, until the newest one is sent again
  overtaken,  \* resources with a message that got past an older one
  raced,      \* a connection came while another one was registered or unregistered,
              \* or was deleted in place of an expired one
  changes, faults

workVars == <<queued, copied>>
nodeVars == <<ready, deleted, ranging, syncing, picked>>
ctlVars == <<store, workVars, nodeVars, sent>>
edgeVars == <<handed, edge>>
boundVars == <<changes, faults>>
vars == <<nsVars, ehVars, ctlVars, edgeVars, doubt, overtaken, raced, boundVars>>

Message == [res : Resources, ver : Nat, live : BOOLEAN]
Copy == [pc : {"route", "send"}, ver : Nat, live : BOOLEAN]
Pick == [res : Resources, old : Nat]
ASSUME StopAssumption == Stop \notin Message
ASSUME NoneAssumption == None \notin Copy \cup Pick
Nothing == [ver |-> 0, live |-> FALSE]

\* The dispatch workers have found no node that is ready.
Init ==
  /\ NSInit /\ EHInit
  /\ store = [r \in Resources |-> [ver |-> 1, live |-> TRUE, spec |-> 1]]
  /\ queued = {} /\ copied = [r \in Resources |-> None]
  /\ ready = FALSE /\ deleted = FALSE
  /\ ranging = FALSE /\ syncing = {} /\ picked = None
  /\ handed = << >> /\ edge = [r \in Resources |-> Nothing]
  /\ sent = [r \in Resources |-> 0]
  /\ doubt = {} /\ overtaken = {} /\ raced = FALSE
  /\ changes = 0 /\ faults = 0

\* The resources whose newest message is among the messages of q.
Newest(q) == {m.res : m \in {n \in {q[i] : i \in DOMAIN q} \ {Stop} : n.ver = sent[n.res]}}
-----------------------------------------------------------------------------
(* The controller.                                                         *)

\* A resource leaves resourceStore when its deletion is copied.
Stored == {r \in Resources : store[r].live \/ r \in queued}

\* An ingress worker changes or creates the resource, or takes its last ingress
\* away.  The range statement may yield an entry that is made while it runs.
Write(r) ==
  /\ changes < MaxChanges /\ changes' = changes + 1
  /\ \E live \in BOOLEAN :
       /\ live \/ store[r].live
       /\ store' = [store EXCEPT ![r] = [ver |-> changes + 2, live |-> live,
                                         spec |-> IF live THEN changes + 2 ELSE @.spec]]
  /\ queued' = queued \cup {r}
  /\ \/ ranging /\ r \notin Stored /\ syncing' = syncing \cup {r}
     \/ UNCHANGED syncing
  /\ UNCHANGED <<nsVars, ehVars, copied, ready, deleted, ranging, picked, sent, edgeVars,
                 doubt, overtaken, raced, faults>>

\* dispatchResource: an insertion or a deletion.
DispatchResource(m) ==
  /\ AddListMessageToQueue(m)
  /\ sent' = IF m.ver < sent[m.res] THEN sent ELSE [sent EXCEPT ![m.res] = m.ver]
  /\ overtaken' = IF m.ver < sent[m.res] THEN overtaken \cup {m.res} ELSE overtaken
  /\ doubt' = IF lists' = Ensured \/ m.ver # store[m.res].ver
              THEN doubt \cup {m.res} ELSE doubt \ {m.res}

\* syncEnvoyResource, under resourceStoreLock: a worker copies the resource and
\* takes it out of the store when no ingress refers to it.  The workqueue gives
\* a key to one worker at a time.
ReadResource(r) ==
  /\ r \in queued /\ copied[r] = None
  /\ queued' = queued \ {r}
  /\ copied' = [copied EXCEPT ![r] = [pc |-> "route", ver |-> store[r].ver, live |-> store[r].live]]
  /\ picked' = IF ~store[r].live /\ picked = [res |-> r, old |-> 0]
               THEN [picked EXCEPT !.old = store[r].spec] ELSE picked
  /\ UNCHANGED <<nsVars, ehVars, store, ready, deleted, ranging, syncing, sent, edgeVars,
                 doubt, overtaken, raced, boundVars>>

\* It looks the status of the node up: one that is not ready gets nothing.
Route(r) ==
  /\ copied[r] # None /\ copied[r].pc = "route"
  /\ copied' = [copied EXCEPT ![r] = IF ready THEN [@ EXCEPT !.pc = "send"] ELSE None]
  /\ doubt' = IF ready \/ copied[r].live THEN doubt ELSE doubt \cup {r}
  /\ UNCHANGED <<nsVars, ehVars, store, queued, nodeVars, sent, edgeVars, overtaken, raced,
                 boundVars>>

Send(r) ==
  /\ copied[r] # None /\ copied[r].pc = "send"
  /\ DispatchResource([res |-> r, ver |-> copied[r].ver, live |-> copied[r].live])
  /\ copied' = [copied EXCEPT ![r] = None]
  /\ UNCHANGED <<ehVars, store, queued, nodeVars, edgeVars, raced, boundVars>>
-----------------------------------------------------------------------------
(* The node handler of the controller: one goroutine.                      *)

\* (a node that is ready again is not sent everything)
NodeReadyQuiet ==
  /\ ~ready /\ client \in Open /\ client \notin accepted \cup arriving
  /\ ready' = TRUE
  /\ UNCHANGED <<nsVars, ehVars, store, workVars, deleted, ranging, syncing, picked, sent,
                 edgeVars, doubt, overtaken, raced, boundVars>>

\* The node's status comes to the cloud over the connection.
NodeReady ==
  /\ ~ready /\ client \in Open /\ client \notin accepted \cup arriving
  /\ ready' = TRUE
  /\ ranging' = TRUE /\ syncing' = Stored
  /\ UNCHANGED <<nsVars, ehVars, store, workVars, deleted, picked, sent, edgeVars, doubt,
                 overtaken, raced, boundVars>>

\* syncAllResourcesToEdgeNodes: the range statement yields a resource of the
\* store and the loop keeps the pointer;
SyncPick(r) ==
  /\ r \in syncing /\ picked = None
  /\ syncing' = syncing \ {r}
  /\ picked' = IF r \in Stored THEN [res |-> r, old |-> 0] ELSE None
  /\ UNCHANGED <<nsVars, ehVars, store, workVars, ready, deleted, ranging, sent, edgeVars,
                 doubt, overtaken, raced, boundVars>>

\* it inserts what the pointer leads to, which may have left the store.
SyncSend ==
  /\ picked # None
  /\ DispatchResource([res |-> picked.res, live |-> TRUE,
                       ver |-> IF picked.old = 0 THEN store[picked.res].spec ELSE picked.old])
  /\ picked' = None
  /\ UNCHANGED <<ehVars, store, workVars, ready, deleted, ranging, syncing, edgeVars, raced,
                 boundVars>>

SyncEnd ==
  /\ ranging /\ syncing = {} /\ picked = None
  /\ ranging' = FALSE
  /\ UNCHANGED <<nsVars, ehVars, store, workVars, ready, deleted, syncing, picked, sent, edgeVars,
                 doubt, overtaken, raced, boundVars>>

\* The node's status, or its deletion, comes after a handler that is running.
NodeNotReady ==
  /\ ready /\ ~ranging /\ (client \notin Open \/ deleted)
  /\ ready' = FALSE /\ deleted' = FALSE
  /\ UNCHANGED <<nsVars, ehVars, store, workVars, ranging, syncing, picked, sent, edgeVars,
                 doubt, overtaken, raced, boundVars>>

\* The node's object is deleted: the edge controller tells cloudhub to stop.
NodeDelete ==
  /\ faults < MaxFaults /\ faults' = faults + 1
  /\ AddListMessageToQueue(Stop)
  /\ deleted' = ready
  /\ UNCHANGED <<ehVars, store, workVars, ready, ranging, syncing, picked, sent, edgeVars, doubt,
                 overtaken, raced, changes>>
-----------------------------------------------------------------------------
(* cloudhub.                                                               *)

hubOnly == <<ehVars, ctlVars, edgeVars, overtaken, boundVars>>

Settled == \A s \in Sessions : sess[s].pc \in {"none", "serve"}

HubRegister ==
  /\ \E c \in Conns : EnsureKeepalive(c) \/ OnRegister(c)
  /\ raced' = (raced \/ (~Settled /\ arriving' \subseteq arriving))
  /\ UNCHANGED <<hubOnly, doubt>>

HubServe(s) == RegisterNode(s) /\ UNCHANGED <<hubOnly, doubt, raced>>

HubGet(s) ==
  /\ GetMessage(s)
  /\ LET q == lists[sess[s].queue].items
     IN  doubt' = CASE Head(q) = Stop -> doubt \cup Newest(q)
                    [] Head(q) # Stop /\ conn = None -> doubt \cup Newest(<<Head(q)>>)
                    [] OTHER -> doubt
  /\ UNCHANGED <<hubOnly, raced>>

HubWrite(s) ==
  /\ WriteMessage(s)
  /\ doubt' = IF Writable(s) THEN doubt ELSE doubt \cup Newest(<<sess[s].msg>>)
  /\ UNCHANGED <<hubOnly, raced>>

HubUnregister(s) ==
  /\ Quit(s) \/ Unregister(s)
  /\ raced' = (raced \/ (sess[s].pc = "silence" /\ arriving # {}))
  /\ UNCHANGED <<hubOnly, doubt>>

HubKeepalive ==
  /\ KeepaliveTimeout \/ CloseExpired
  /\ raced' = (raced \/ (expired # None /\ expired' = None /\ conn \notin {expired, None}))
  /\ UNCHANGED <<hubOnly, doubt>>

\* cloudcore ends, the controller takes its store from the ingresses again.
CloudRestart ==
  /\ queued' = {r \in Resources : store[r].live} /\ copied' = [r \in Resources |-> None]
  /\ ranging' = FALSE /\ syncing' = {} /\ picked' = None
  /\ doubt' = doubt \cup {r \in Resources : ~store[r].live}
  /\ UNCHANGED <<ehVars, store, ready, deleted, sent, edgeVars, overtaken, raced, changes>>

CloudCrash == faults < MaxFaults /\ faults' = faults + 1 /\ NSRestart /\ CloudRestart
CloudPanic == PingPanics /\ CloudRestart /\ UNCHANGED faults
-----------------------------------------------------------------------------
(* The edge node.                                                          *)

nsOnly == <<arriving, conn, tableVars, expired, pool, lists, sess>>
edgeOnly == <<nsOnly, ctlVars, edgeVars, overtaken, raced>>

InUse(c) == c \in {client, conn, expired} \cup accepted \cup arriving \cup {sess[s].via : s \in Sessions}
FreeConn == CHOOSE c \in Conns : ~InUse(c)

OnWire == IF client = None THEN << >> ELSE wire[client]

\* (Conns bounds the number of connections that are in use at once)
EdgeConnect ==
  /\ \E c \in Conns : ~InUse(c)
  /\ Connect(FreeConn)
  /\ UNCHANGED <<edgeOnly, doubt, boundVars>>

EdgePut ==
  /\ Put
  /\ doubt' = IF Len(fifo) = FifoSize THEN doubt \cup Newest(<<Head(fifo)>>) ELSE doubt
  /\ UNCHANGED <<edgeOnly, boundVars>>

EdgeStep ==
  /\ ReadFails \/ KeepaliveFails \/ Reconnect \/ Retry
  /\ UNCHANGED <<edgeOnly, doubt, boundVars>>

EdgeUnInit ==
  /\ UnInit
  /\ doubt' = doubt \cup Newest(OnWire)
  /\ UNCHANGED <<edgeOnly, boundVars>>

\* dispatch hands the message to SendToGroup, which starts a goroutine.
EdgeRoute ==
  /\ RouteToEdge
  /\ handed' = Append(handed, Head(fifo))
  /\ UNCHANGED <<nsOnly, ctlVars, edge, overtaken, raced, doubt, boundVars>>

Without(s, i) == SubSeq(s, 1, i - 1) \o SubSeq(s, i + 1, Len(s))

\* The goroutines come to the control plane in any order.
EdgeApply(i) ==
  LET m == handed[i]
      ahead == \E j \in 1..(i - 1) : handed[j].res = m.res
  IN  /\ handed' = Without(handed, i)
      /\ edge' = [edge EXCEPT ![m.res] = [ver |-> m.ver, live |-> m.live]]
      /\ overtaken' = IF ahead THEN overtaken \cup {m.res} ELSE overtaken
      /\ doubt' = IF ahead THEN doubt \cup Newest(<<m>>) ELSE doubt
      /\ UNCHANGED <<nsVars, ehVars, ctlVars, raced, boundVars>>

\* The control plane starts with empty maps.
EdgeForgets ==
  /\ handed' = << >> /\ edge' = [r \in Resources |-> Nothing]
  /\ doubt' = doubt \cup {r \in Resources : edge[r] # Nothing} \cup Newest(OnWire \o fifo \o handed)
  /\ UNCHANGED <<nsOnly, ctlVars, overtaken, raced, changes>>

EdgeCrash == faults < MaxFaults /\ faults' = faults + 1 /\ EHRestart /\ EdgeForgets
EdgePanic == PutPanics /\ EdgeForgets /\ UNCHANGED faults

\* A module of the node has something to tell the cloud.
Report ==
  \/ RouteToCloudFails /\ UNCHANGED <<edgeOnly, doubt, boundVars>>
  \/ SendPanics /\ EdgeForgets /\ UNCHANGED faults

Rotate ==
  /\ faults < MaxFaults /\ faults' = faults + 1
  /\ RotationDone
  /\ UNCHANGED <<edgeOnly, doubt, changes>>

Break ==
  /\ faults < MaxFaults /\ faults' = faults + 1
  /\ client \in Open
  /\ link' = [link EXCEPT ![client] = "broken"] /\ wire' = [wire EXCEPT ![client] = << >>]
  /\ doubt' = doubt \cup Newest(OnWire)
  /\ UNCHANGED <<accepted, ehVars, edgeOnly, changes>>
-----------------------------------------------------------------------------
Session(s) == HubServe(s) \/ HubGet(s) \/ HubWrite(s) \/ HubUnregister(s)
Hub == HubRegister \/ HubKeepalive \/ \E s \in Sessions : Session(s)
Worker == \E r \in Resources : ReadResource(r) \/ Route(r) \/ Send(r)
Handler == SyncSend \/ SyncEnd \/ \E r \in Resources : SyncPick(r)
Controller == Worker \/ Handler
Edge == EdgeConnect \/ EdgePut \/ EdgeStep \/ EdgeUnInit \/ EdgeRoute
          \/ \E i \in DOMAIN handed : EdgeApply(i)
Panic == CloudPanic \/ EdgePanic
Environment ==
  \/ \E r \in Resources : Write(r)
  \/ NodeReady \/ NodeNotReady \/ NodeDelete
  \/ CloudCrash \/ EdgeCrash \/ Report \/ Rotate \/ Break

Next == Controller \/ Hub \/ Edge \/ Panic \/ Environment

\* The goroutines and the timers of cloudhub go on, and so does edgecore as a
\* whole; nothing is assumed of the environment.
Fairness ==
  /\ WF_vars(Worker) /\ WF_vars(Handler) /\ WF_vars(Edge)
  /\ WF_vars(HubRegister) /\ WF_vars(HubKeepalive) /\ \A s \in Sessions : WF_vars(Session(s))

Spec == Init /\ [][Next]_vars /\ Fairness
-----------------------------------------------------------------------------
\* The types of the state; chClient has a connection while Start uses it, and
\* messageFifo keeps to its limit (Put).
TypeOK ==
  /\ link \in [Conns -> {"open", "broken", "closed"}]
  /\ accepted \subseteq Conns /\ arriving \subseteq Conns /\ accepted \cap arriving = {}
  /\ conn \in Conns \cup {None} /\ client \in Conns \cup {None} /\ expired \in Conns \cup {None}
  /\ pool \in Queues \cup {None} /\ checkers \subseteq Sessions
  /\ epc \in {"connecting", "up", "closing", "waiting"}
  /\ epc \in {"up", "closing"} => client # None
  /\ Len(fifo) <= FifoSize /\ blocked \in Nat /\ senders \in Nat
  /\ \A i \in DOMAIN fifo : fifo[i] \in Message
  /\ \A i \in DOMAIN handed : handed[i] \in Message
  /\ syncing # {} \/ picked # None => ranging

Quiet ==
  /\ queued = {} /\ (\A r \in Resources : copied[r] = None) /\ ~ranging
  /\ \A q \in Queues : lists[q].items = << >>
  /\ \A s \in Sessions : sess[s].loop # "write"
  /\ OnWire = << >> /\ fifo = << >> /\ handed = << >>

\* When nothing is under way, a ready node has each resource as the controller
\* has it.  The exceptions are the messages the code is seen to give up: the
\* ones ListMessageWriteLoop drops without a connection or on a failed write,
\* what is lost with a connection, a queue, a full fifo or a process, the
\* deletions syncEnvoyResource does not send to a node that is not ready; and a
\* newest message that an older one comes after, since syncEnvoyResource and
\* syncAllResourcesToEdgeNodes send what they read earlier and the goroutines of
\* SendToGroup are not ordered.
InSync ==
  Quiet /\ ready /\ ~raced =>
    \A r \in Resources \ doubt :
      edge[r].live = store[r].live /\ (store[r].live => edge[r].ver = store[r].ver)

\* However often the node connects (OnRegister), is deleted or cloudcore starts
\* again, one ListMessageWriteLoop at most takes from its queue.  The exception:
\* a connection that comes before ServeConn has registered the node.
OneLoop ==
  ~raced => \A s, t \in Sessions : sess[s].loop # "none" /\ sess[t].loop # "none" => s = t

\* No step puts an older state of a resource in the place of a newer one: the
\* order of the list queue survives reconnections, during which the messages
\* for the old and the new connection are under way at once.  The exception: an
\* older state was sent after a newer one (syncEnvoyResource,
\* syncAllResourcesToEdgeNodes) or a goroutine of SendToGroup was overtaken.
InOrder ==
  [][\A r \in Resources \ overtaken' :
       ~raced => edge'[r].ver >= edge[r].ver \/ edge'[r] = Nothing]_vars

\* Start waits on the connection nodeConns has, and its session serves the
\* queue DispatchMessage fills and watches the heartbeats.
Served ==
  /\ client \in Open /\ conn = client /\ epc = "up" /\ checkers # {}
  /\ \E s \in Sessions : sess[s].loop # "none" /\ sess[s].queue = pool

\* After the last fault the node is connected and served for good: neither the
\* goroutines left over on the edge nor the sessions, queues and timers left
\* over in cloudhub end the connection again (Start, OnRegister,
\* KeepaliveCheckLoop, UnregisterNode).  The exception: UnregisterNode or
\* KeepaliveCheckLoop has deleted the entries of a connection that came meanwhile.
Reconnects == <>[](raced \/ Served)
=============================================================================
