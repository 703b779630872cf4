---------------------------- MODULE NodeDispatch ----------------------------
(***************************************************************************)
(* Which edge nodes an envoy resource is sent to: the location cache       *)
(* (cloud/pkg/envoyingresscontroller/cache/location.go), the node event    *)
(* handlers that keep it, initCache, and the sends of syncEnvoyResource    *)
(* and syncAllResourcesToEdgeNodes.                                        *)
(*                                                                         *)
(* Four kinds of goroutines meet here: the informer's handler goroutine    *)
(* (one event after the other), Run with initCache, the dispatch workers   *)
(* and the ingress workers.  Of the latter only what they do to the store  *)
(* is kept (IngressSync has the rest): Write and Drop.  A resource goes to *)
(* a fixed set of groups.  Lists with duplicates in Group2node are sets:   *)
(* their readers put the nodes into a map, their writer removes all copies.*)
(***************************************************************************)
EXTENDS Naturals, Sequences

CONSTANTS Nodes, Resources, Specs, Groups,
          GroupOf,          \* GroupOf[r]: the NodeGroup of resource r
          NodeObjects,      \* what a node may look like
          DispatchWorkers,
          MaxNodeChanges, MaxWrites,   \* bounds on changes of nodes and of the store
          None

\* label: the groups of the nodegroup label, or None without it;
\* ready: the status of the Ready condition, "none" without it.
NodeObject == [label : (SUBSET Groups) \cup {None}, ready : {"True", "False", "none"}]

ASSUME NodeObjectsAssumption == NodeObjects \subseteq NodeObject
ASSUME GroupOfAssumption == GroupOf \in [Resources -> SUBSET Groups]
ASSUME SpecsNonempty == Specs # {}
ASSUME NoneIsNothing == None \notin Resources /\ None \notin Specs /\ None \notin NodeObjects

VARIABLES
  nodeStore,       \* the informer's store of nodes
  moved,           \* nodes that got another label, or were deleted before initCache was done
  events,          \* notifications not handled yet: <<node, old, cur>>
  hpc, event,      \* handler: step, the event it handles
  syncTodo, syncRes, syncSpec,  \* its loop over resourceStore: keys left, the
                   \* resource at hand, its spec once it is out of the store
  initTodo, initNow, phase,     \* initCache: objects left, object at hand
  Node2group, Group2node, EdgeNodes,
  resourceStore, live, Spec,    \* live: IngressRef is not empty
  dropped,         \* resources that were dropped before
  leaked,          \* resourceStoreLock was left read-locked
  rPending, rBusy, rLater,
  dpc, dmsg, dnodes,            \* dispatch worker: step, message, nodes left
  last,            \* last[n][r]: last message sent to node n about r
  nodeChanges, writes

nodeVars == <<nodeStore, moved, events, nodeChanges>>
handlerVars == <<hpc, event, syncTodo, syncRes, syncSpec>>
startVars == <<initTodo, initNow, phase>>
cacheVars == <<Node2group, Group2node, EdgeNodes>>
storeVars == <<resourceStore, live, Spec, dropped, leaked, writes>>
rqVars == <<rPending, rBusy, rLater>>
workerVars == <<dpc, dmsg, dnodes>>
vars == <<nodeVars, handlerVars, startVars, cacheVars, storeVars, rqVars, workerVars, last>>

RQ == INSTANCE KeyedWork WITH Items <- Resources, Workers <- DispatchWorkers,
        pending <- rPending, busy <- rBusy, later <- rLater

Messages == [opr : {"none", "insert", "delete"}, spec : Specs]
Event == Nodes \X (NodeObjects \cup {None}) \X (NodeObjects \cup {None})

TypeOK ==
  /\ nodeStore \in [Nodes -> NodeObjects \cup {None}]
  /\ moved \subseteq Nodes
  /\ events \in Seq(Event)
  /\ hpc \in {"idle", "leave", "join", "status", "forget", "range", "sync", "send"}
  /\ event \in Event \cup {<< >>} /\ (event = << >> <=> hpc = "idle")
  /\ syncTodo \subseteq Resources
  /\ syncRes \in Resources \cup {None} /\ (syncRes # None <=> hpc = "send")
  /\ syncSpec \in Specs \cup {None}
  /\ initTodo \subseteq Nodes \X NodeObjects
  /\ initNow \in (Nodes \X NodeObjects) \cup {<< >>}
  /\ phase \in {"waiting", "caching", "running"}
  /\ Node2group \in [Nodes -> SUBSET Groups]
  /\ Group2node \in [Groups -> SUBSET Nodes]
  /\ EdgeNodes \in [Nodes -> {"True", "False", "none"}]
  /\ resourceStore \subseteq Resources
  /\ live \subseteq Resources
  /\ Spec \in [Resources -> Specs]
  /\ dropped \subseteq Resources
  /\ leaked \in BOOLEAN
  /\ RQ!KWTypeOK
  /\ dpc \in [DispatchWorkers -> {"idle", "reading", "route", "send"}]
  /\ dmsg \in [DispatchWorkers -> Messages]
  /\ dnodes \in [DispatchWorkers -> SUBSET Nodes]
  /\ last \in [Nodes -> [Resources -> Messages]]
  /\ nodeChanges \in Nat
  /\ writes \in Nat

AnySpec == CHOOSE s \in Specs : TRUE
NoMessage == [opr |-> "none", spec |-> AnySpec]

Init ==
  /\ nodeStore = [n \in Nodes |-> None] /\ moved = {}
  /\ events = << >>
  /\ hpc = "idle" /\ event = << >>
  /\ syncTodo = {} /\ syncRes = None /\ syncSpec = None
  /\ initTodo = {} /\ initNow = << >> /\ phase = "waiting"
  /\ Node2group = [n \in Nodes |-> {}]
  /\ Group2node = [g \in Groups |-> {}]
  /\ EdgeNodes = [n \in Nodes |-> "none"]
  /\ resourceStore = {} /\ live = {} /\ dropped = {}
  /\ Spec = [r \in Resources |-> AnySpec]
  /\ leaked = FALSE
  /\ RQ!KWInit
  /\ dpc = [d \in DispatchWorkers |-> "idle"]
  /\ dmsg = [d \in DispatchWorkers |-> NoMessage]
  /\ dnodes = [d \in DispatchWorkers |-> {}]
  /\ last = [n \in Nodes |-> [r \in Resources |-> NoMessage]]
  /\ nodeChanges = 0 /\ writes = 0
-----------------------------------------------------------------------------
(* The location cache.  A node without the label has no groups.            *)

Labels(o) == IF o.label = None THEN {} ELSE o.label

\* "We only concern about ready nodes": nodes with a Ready condition.
UpdateNodeGroup(n, o) ==
  IF o.ready # "none" /\ o.label # None
  THEN /\ Node2group' = [Node2group EXCEPT ![n] = o.label]
       /\ Group2node' = [g \in Groups |-> IF g \in o.label THEN Group2node[g] \cup {n}
                                                           ELSE Group2node[g]]
  ELSE UNCHANGED <<Node2group, Group2node>>

DeleteNodeGroup(n, o) ==
  IF o.label # None
  THEN /\ Node2group' = [Node2group EXCEPT ![n] = {}]
       /\ Group2node' = [g \in Groups |-> IF g \in o.label THEN Group2node[g] \ {n}
                                                           ELSE Group2node[g]]
  ELSE UNCHANGED <<Node2group, Group2node>>

UpdateEdgeNode(n, o) ==
  EdgeNodes' = IF o.label # None /\ o.ready # "none"
               THEN [EdgeNodes EXCEPT ![n] = o.ready] ELSE EdgeNodes
-----------------------------------------------------------------------------
(* The node informer.                                                      *)

\* A node is updated to an object with another label.
Relabelled(x, y) == x # None /\ y # None /\ x.label # y.label

ChangeNode(n, o) ==
  /\ nodeChanges < MaxNodeChanges
  /\ o # nodeStore[n]
  /\ moved' = IF Relabelled(nodeStore[n], o) \/ (o = None /\ phase # "running")
              THEN moved \cup {n} ELSE moved
  /\ nodeStore' = [nodeStore EXCEPT ![n] = o]
  /\ events' = Append(events, <<n, nodeStore[n], o>>)
  /\ nodeChanges' = nodeChanges + 1
  /\ UNCHANGED <<handlerVars, startVars, cacheVars, storeVars, rqVars, workerVars, last>>

\* addNode, updateNode or deleteNode is called.
NextEvent ==
  LET old == Head(events)[2]
      cur == Head(events)[3]
  IN  /\ hpc = "idle" /\ events # << >>
      /\ event' = Head(events)
      /\ events' = Tail(events)
      /\ hpc' = CASE old = None -> "join"
                  [] cur = None -> "leave"
                  [] old # None /\ cur # None ->
                       IF Labels(cur) # Labels(old) THEN "leave" ELSE "status"
      /\ UNCHANGED <<nodeStore, moved, nodeChanges, syncTodo, syncRes, syncSpec, startVars,
                     cacheVars, storeVars, rqVars, workerVars, last>>

\* The new groups of a relabelled node are forgotten.
LeaveOnly ==
  /\ hpc = "leave"
  /\ DeleteNodeGroup(event[1], event[2])
  /\ hpc' = IF event[3] = None THEN "forget" ELSE "status"
  /\ UNCHANGED <<nodeVars, event, syncTodo, syncRes, syncSpec, startVars, EdgeNodes,
                 storeVars, rqVars, workerVars, last>>

Leave ==
  /\ hpc = "leave"
  /\ DeleteNodeGroup(event[1], event[2])
  /\ hpc' = IF event[3] = None THEN "forget" ELSE "join"
  /\ UNCHANGED <<nodeVars, event, syncTodo, syncRes, syncSpec, startVars, EdgeNodes,
                 storeVars, rqVars, workerVars, last>>

Join ==
  /\ hpc = "join"
  /\ UpdateNodeGroup(event[1], event[3])
  /\ hpc' = "status"
  /\ UNCHANGED <<nodeVars, event, syncTodo, syncRes, syncSpec, startVars, EdgeNodes,
                 storeVars, rqVars, workerVars, last>>

\* DeleteEdgeNode.
Forget ==
  /\ hpc = "forget"
  /\ EdgeNodes' = [EdgeNodes EXCEPT ![event[1]] = "none"]
  /\ hpc' = "idle"
  /\ event' = << >>
  /\ UNCHANGED <<nodeVars, syncTodo, syncRes, syncSpec, startVars, Node2group, Group2node,
                 storeVars, rqVars, workerVars, last>>

\* Only a node that was never known is sent all resources.
StatusFirst ==
  LET n == event[1]
      o == event[3]
      comesUp == o.ready = "True" /\ EdgeNodes[n] = "none" /\ o.label # None
  IN  /\ hpc = "status"
      /\ UpdateEdgeNode(n, o)
      /\ hpc' = IF comesUp THEN "range" ELSE "idle"
      /\ event' = IF comesUp THEN event ELSE << >>
      /\ UNCHANGED <<nodeVars, syncTodo, syncRes, syncSpec, startVars, Node2group, Group2node,
                     storeVars, rqVars, workerVars, last>>

\* The loop over the conditions of addNode and updateNode: a labelled node
\* that was not known to be ready and is now is sent all resources.
Status ==
  LET n == event[1]
      o == event[3]
      comesUp == o.ready = "True" /\ EdgeNodes[n] # "True" /\ o.label # None
  IN  /\ hpc = "status"
      /\ UpdateEdgeNode(n, o)
      /\ hpc' = IF comesUp THEN "range" ELSE "idle"
      /\ event' = IF comesUp THEN event ELSE << >>
      /\ UNCHANGED <<nodeVars, syncTodo, syncRes, syncSpec, startVars, Node2group, Group2node,
                     storeVars, rqVars, workerVars, last>>

\* syncAllResourcesToEdgeNodes: a range loop over the store, under no lock of
\* the store.
SyncStart ==
  /\ hpc = "range"
  /\ hpc' = "sync"
  /\ syncTodo' = resourceStore
  /\ UNCHANGED <<nodeVars, event, syncRes, syncSpec, startVars, cacheVars, storeVars, rqVars,
                 workerVars, last>>

\* The loop comes to a resource; one that was removed is not produced.
SyncPick(r) ==
  /\ hpc = "sync" /\ r \in syncTodo
  /\ syncTodo' = syncTodo \ {r}
  /\ IF r \in resourceStore THEN hpc' = "send" /\ syncRes' = r
                            ELSE UNCHANGED <<hpc, syncRes>>
  /\ UNCHANGED <<nodeVars, event, syncSpec, startVars, cacheVars, storeVars, rqVars, workerVars,
                 last>>

\* It is sent under its own read lock, as an insertion, even if it has been
\* removed from the store since: the loop has the pointer.
SyncSend ==
  /\ hpc = "send"
  /\ last' = [last EXCEPT ![event[1]][syncRes] =
                [opr |-> "insert", spec |-> IF syncSpec = None THEN Spec[syncRes] ELSE syncSpec]]
  /\ hpc' = "sync"
  /\ syncRes' = None
  /\ syncSpec' = None
  /\ UNCHANGED <<nodeVars, event, syncTodo, startVars, cacheVars, storeVars, rqVars, workerVars>>

\* The event is finished while the loop has resources left.
SyncEndEarly ==
  /\ hpc = "sync"
  /\ hpc' = "idle"
  /\ UNCHANGED <<nodeVars, event, syncTodo, syncRes, syncSpec, startVars, cacheVars, storeVars,
                 rqVars, workerVars, last>>

SyncEnd ==
  /\ hpc = "sync" /\ syncTodo = {}
  /\ hpc' = "idle"
  /\ event' = << >>
  /\ UNCHANGED <<nodeVars, syncTodo, syncRes, syncSpec, startVars, cacheVars, storeVars, rqVars,
                 workerVars, last>>
-----------------------------------------------------------------------------
(* Run: initCache with the nodes the lister has once the store is synced,  *)
(* whether or not their events have been handled.                          *)

ListNodes ==
  /\ phase = "waiting"
  /\ phase' = "caching"
  /\ initTodo' = {p \in Nodes \X NodeObjects :
                    nodeStore[p[1]] = p[2] /\ p[2].label # None}
  /\ UNCHANGED <<nodeVars, handlerVars, initNow, cacheVars, storeVars, rqVars, workerVars, last>>

CacheGroups(n, o) ==
  /\ phase = "caching" /\ <<n, o>> \in initTodo /\ initNow = << >>
  /\ initTodo' = initTodo \ {<<n, o>>}
  /\ initNow' = <<n, o>>
  /\ UpdateNodeGroup(n, o)
  /\ UNCHANGED <<nodeVars, handlerVars, phase, EdgeNodes, storeVars, rqVars, workerVars, last>>

CacheStatus ==
  /\ phase = "caching" /\ initNow # << >>
  /\ UpdateEdgeNode(initNow[1], initNow[2])
  /\ initNow' = << >>
  /\ UNCHANGED <<nodeVars, handlerVars, initTodo, phase, Node2group, Group2node, storeVars,
                 rqVars, workerVars, last>>

StartWorkers ==
  /\ phase = "caching" /\ initTodo = {} /\ initNow = << >>
  /\ phase' = "running"
  /\ UNCHANGED <<nodeVars, handlerVars, initTodo, initNow, cacheVars, storeVars, rqVars, workerVars, last>>
-----------------------------------------------------------------------------
(* The ingress workers, under resourceStoreLock.                           *)

\* The reads of the dispatch workers are one step each, so the lock can be had
\* unless one of them has left it read-locked.
Locked == ~leaked

\* A resource is created or gets a new spec and is enqueued.  An entry that
\* is created while the handler's loop runs may be produced by it or not.
Write(r, s) ==
  /\ phase = "running" /\ Locked
  /\ writes < MaxWrites
  /\ resourceStore' = resourceStore \cup {r}
  /\ live' = live \cup {r}
  /\ Spec' = [Spec EXCEPT ![r] = s]
  /\ \/ UNCHANGED syncTodo
     \/ /\ r \notin resourceStore /\ hpc \in {"sync", "send"}
        /\ syncTodo' = syncTodo \cup {r}
  /\ writes' = writes + 1
  /\ RQ!Add({r})
  /\ UNCHANGED <<nodeVars, hpc, event, syncRes, syncSpec, startVars, cacheVars, dropped, leaked,
                 workerVars, last>>

\* The last reference is dropped and the resource enqueued.
Drop(r) ==
  /\ phase = "running" /\ Locked
  /\ r \in live
  /\ live' = live \ {r}
  /\ dropped' = dropped \cup {r}
  /\ RQ!Add({r})
  /\ UNCHANGED <<nodeVars, handlerVars, startVars, cacheVars, resourceStore, Spec, leaked, writes,
                 workerVars, last>>
-----------------------------------------------------------------------------
(* The dispatch workers.                                                   *)

DispatchGet(d, r) ==
  /\ phase = "running"
  /\ dpc[d] = "idle"
  /\ RQ!Take(d, r)
  /\ dpc' = [dpc EXCEPT ![d] = "reading"]
  /\ UNCHANGED <<nodeVars, handlerVars, startVars, cacheVars, storeVars, dmsg, dnodes, last>>

\* The resource is gone (it was dropped between Get and RLock, read as dropped
\* and then taken again): an error, with the read lock still held.
ReadMissing(d) ==
  /\ dpc[d] = "reading" /\ rBusy[d] \notin resourceStore
  /\ leaked' = TRUE
  /\ RQ!RetryAndFinish(d)
  /\ dpc' = [dpc EXCEPT ![d] = "idle"]
  /\ UNCHANGED <<nodeVars, handlerVars, startVars, cacheVars, resourceStore, live, Spec, dropped,
                 writes, dmsg, dnodes, last>>

ReadResource(d) ==
  LET r == rBusy[d]
  IN  /\ dpc[d] = "reading" /\ r \in resourceStore
      /\ dmsg' = [dmsg EXCEPT ![d] = [opr |-> IF r \in live THEN "insert" ELSE "delete",
                                      spec |-> Spec[r]]]
      /\ resourceStore' = IF r \in live THEN resourceStore ELSE resourceStore \ {r}
      /\ syncSpec' = IF r \notin live /\ r = syncRes THEN Spec[r] ELSE syncSpec
      /\ dpc' = [dpc EXCEPT ![d] = "route"]
      /\ UNCHANGED <<nodeVars, hpc, event, syncTodo, syncRes, startVars, cacheVars, live, Spec, dropped, leaked,
                     writes, rqVars, dnodes, last>>

\* The nodes to send to: the ready members of the resource's groups.
Route(d) ==
  /\ dpc[d] = "route"
  /\ dnodes' = [dnodes EXCEPT ![d] =
                  {n \in Nodes : /\ \E g \in GroupOf[rBusy[d]] : n \in Group2node[g]
                                 /\ EdgeNodes[n] = "True"}]
  /\ dpc' = [dpc EXCEPT ![d] = "send"]
  /\ UNCHANGED <<nodeVars, handlerVars, startVars, cacheVars, storeVars, rqVars, dmsg, last>>

Send(d, n) ==
  /\ dpc[d] = "send" /\ n \in dnodes[d]
  /\ dnodes' = [dnodes EXCEPT ![d] = @ \ {n}]
  /\ last' = [last EXCEPT ![n][rBusy[d]] = dmsg[d]]
  /\ UNCHANGED <<nodeVars, handlerVars, startVars, cacheVars, storeVars, rqVars, dpc, dmsg>>

DispatchDone(d) ==
  /\ dpc[d] = "send" /\ dnodes[d] = {}
  /\ RQ!Finish(d)
  /\ dpc' = [dpc EXCEPT ![d] = "idle"]
  /\ dmsg' = [dmsg EXCEPT ![d] = NoMessage]
  /\ UNCHANGED <<nodeVars, handlerVars, startVars, cacheVars, storeVars, dnodes, last>>

Release ==
  /\ \E r \in Resources : RQ!Ripen(r)
  /\ UNCHANGED <<nodeVars, handlerVars, startVars, cacheVars, storeVars, workerVars, last>>

Next ==
  \/ \E n \in Nodes, o \in NodeObjects \cup {None} : ChangeNode(n, o)
  \/ NextEvent \/ Leave \/ Join \/ Forget \/ Status \/ SyncStart \/ SyncSend \/ SyncEnd
  \/ ListNodes \/ CacheStatus \/ StartWorkers
  \/ \E n \in Nodes, o \in NodeObjects : CacheGroups(n, o)
  \/ \E r \in Resources : SyncPick(r) \/ Drop(r)
  \/ \E r \in Resources, s \in Specs : Write(r, s)
  \/ \E d \in DispatchWorkers :
       \/ \E r \in Resources : DispatchGet(d, r)
       \/ ReadMissing(d) \/ ReadResource(d) \/ Route(d) \/ DispatchDone(d)
       \/ \E n \in Nodes : Send(d, n)
  \/ Release

NodeSpec == Init /\ [][Next]_vars
-----------------------------------------------------------------------------
\* The node is a ready member of one of the resource's groups, to the cache.
Receives(n, r) == EdgeNodes[n] = "True" /\ \E g \in GroupOf[r] : n \in Group2node[g]

(* Every ready member of a resource's groups has the resource's current    *)
(* contents, or a worker or the handler is still to send them.  A node may *)
(* come up, go down or be deleted at any moment between the steps of a     *)
(* dispatch: either syncEnvoyResource sees it or syncAllResourcesToEdge-   *)
(* Nodes sends the resource.  The exceptions: updateNode sends nothing to  *)
(* a node that moves to another group, initCache may cache a node that was *)
(* deleted, and syncAllResourcesToEdgeNodes may send what a resource was   *)
(* before it was dropped and came back.                                    *)
MembersUpToDate ==
  \A n \in Nodes \ moved, r \in live \ dropped :
    \/ ~Receives(n, r)
    \/ r \in rPending \cup rLater \cup RQ!Held
    \/ hpc # "idle" /\ event[1] = n
    \/ last[n][r] = [opr |-> "insert", spec |-> Spec[r]]

Settled == phase = "running" /\ events = << >> /\ hpc = "idle"

(* Every group a node is labelled with has the node among its members once *)
(* the events are handled, however they interleave with initCache.         *)
MembersRecorded ==
  Settled => \A n \in Nodes :
    nodeStore[n] # None => \A g \in Labels(nodeStore[n]) : n \in Group2node[g]
=============================================================================
