------------------------- MODULE NodeDispatchProofs -------------------------
(***************************************************************************)
(* For any nodes, groups, resources and dispatch workers: a node is among  *)
(* the members of its groups once its events are handled, and nodes that   *)
(* come, go and change their readiness have the current resources.         *)
(***************************************************************************)
EXTENDS NodeDispatch, TLAPS

USE DEF nodeVars, handlerVars, startVars, cacheVars, storeVars, rqVars, workerVars

LEMMA EventFields ==
  /\ \A e \in Event : /\ e[1] \in Nodes
                      /\ e[2] \in NodeObjects \cup {None} /\ e[3] \in NodeObjects \cup {None}
                      /\ e # << >>
  /\ \A n \in Nodes, x, y \in NodeObjects \cup {None} : <<n, x, y>> \in Event
BY DEF Event

LEMMA MessageType ==
  /\ NoMessage \in Messages
  /\ \A opr \in {"none", "insert", "delete"}, s \in Specs : [opr |-> opr, spec |-> s] \in Messages
<1>1. AnySpec \in Specs
  BY SpecsNonempty, Zenon DEF AnySpec
<1> QED
  BY <1>1, Zenon DEF NoMessage, Messages

\* The informer's, the handler's and initCache's variables.
NodeTypes ==
  /\ nodeStore \in [Nodes -> NodeObjects \cup {None}]
  /\ moved \subseteq Nodes
  /\ events \in Seq(Event)
  /\ hpc \in {"idle", "leave", "join", "status", "forget", "range", "sync", "send"}
  /\ event \in Event \cup {<< >>} /\ (event = << >> <=> hpc = "idle")
  /\ syncTodo \subseteq Resources
  /\ syncRes \in Resources \cup {None} /\ (syncRes # None <=> hpc = "send")
  /\ syncSpec \in Specs \cup {None}
  /\ initTodo \subseteq Nodes \X NodeObjects
  /\ initNow \in (Nodes \X NodeObjects) \cup {<< >>}
  /\ phase \in {"waiting", "caching", "running"}
  /\ nodeChanges \in Nat

CacheTypes ==
  /\ Node2group \in [Nodes -> SUBSET Groups]
  /\ Group2node \in [Groups -> SUBSET Nodes]
  /\ EdgeNodes \in [Nodes -> {"True", "False", "none"}]

WorkTypes ==
  /\ resourceStore \subseteq Resources /\ live \subseteq Resources
  /\ Spec \in [Resources -> Specs]
  /\ dropped \subseteq Resources
  /\ leaked \in BOOLEAN
  /\ RQ!KWTypeOK
  /\ dpc \in [DispatchWorkers -> {"idle", "reading", "route", "send"}]
  /\ dmsg \in [DispatchWorkers -> Messages]
  /\ dnodes \in [DispatchWorkers -> SUBSET Nodes]
  /\ last \in [Nodes -> [Resources -> Messages]]
  /\ writes \in Nat

\* What the handler and the workers have at hand.
AtHand ==
  /\ \A i \in 1..Len(events) : events[i][2] # events[i][3]
  /\ hpc \in {"join", "status"} => event[3] \in NodeObjects
  /\ hpc = "leave" => event[2] \in NodeObjects
  /\ \A d \in DispatchWorkers : rBusy[d] # None <=> dpc[d] # "idle"

Types == NodeTypes /\ CacheTypes /\ WorkTypes /\ AtHand

LEMMA TypesAreTypeOK == Types => TypeOK
BY Zenon DEF Types, NodeTypes, CacheTypes, WorkTypes, TypeOK

LEMMA GroupTypes ==
  ASSUME CacheTypes, NEW n \in Nodes, NEW o \in NodeObjects,
         UpdateNodeGroup(n, o) \/ DeleteNodeGroup(n, o)
  PROVE  Node2group' \in [Nodes -> SUBSET Groups] /\ Group2node' \in [Groups -> SUBSET Nodes]
<1>1. o.label = None \/ o.label \in SUBSET Groups
  BY NodeObjectsAssumption, Zenon DEF NodeObject
<1>2. CASE UpdateNodeGroup(n, o)
  <2>1. CASE o.ready # "none" /\ o.label # None
    BY <1>1, <1>2, <2>1 DEF CacheTypes, UpdateNodeGroup
  <2>2. CASE ~(o.ready # "none" /\ o.label # None)
    BY <1>2, <2>2, Zenon DEF CacheTypes, UpdateNodeGroup
  <2> QED
    BY <2>1, <2>2, Zenon
<1>3. CASE DeleteNodeGroup(n, o)
  BY <1>1, <1>3 DEF CacheTypes, DeleteNodeGroup
<1> QED
  BY <1>2, <1>3, Zenon

LEMMA EdgeTypes ==
  ASSUME CacheTypes, NEW n \in Nodes, NEW o \in NodeObjects, UpdateEdgeNode(n, o)
  PROVE  EdgeNodes' \in [Nodes -> {"True", "False", "none"}]
<1>1. o.ready \in {"True", "False", "none"}
  BY NodeObjectsAssumption, Zenon DEF NodeObject
<1> QED
  BY <1>1, Zenon DEF CacheTypes, UpdateEdgeNode

LEMMA TypesInit == Init => Types
<1> SUFFICES ASSUME Init PROVE Types
  BY Zenon
<1>1. NodeTypes
  BY DEF Init, NodeTypes
<1>2. CacheTypes
  BY Zenon DEF Init, CacheTypes
<1>3. WorkTypes
  <2>1. AnySpec \in Specs /\ NoMessage \in Messages
    BY MessageType, Zenon DEF NoMessage, Messages
  <2> HIDE DEF Messages
  <2>2. leaked \in BOOLEAN
    BY Zenon DEF Init
  <2> QED
    BY <2>1, <2>2, Zenon DEF Init, WorkTypes, RQ!KWTypeOK, RQ!KWInit
<1>4. AtHand
  BY DEF Init, AtHand, RQ!KWInit
<1> QED
  BY <1>1, <1>2, <1>3, <1>4, Zenon DEF Types

LEMMA TypesStep ==
  ASSUME Types, [Next]_vars
  PROVE  Types'
<1> USE DEF Types
<1>1. CASE UNCHANGED vars
  BY <1>1 DEF vars, NodeTypes, CacheTypes, WorkTypes, AtHand, RQ!KWTypeOK
<1>2. ASSUME NEW n \in Nodes, NEW o \in NodeObjects \cup {None}, ChangeNode(n, o)
      PROVE  Types'
  <2>1. /\ nodeStore' = [nodeStore EXCEPT ![n] = o] /\ nodeChanges' = nodeChanges + 1
        /\ events' = Append(events, <<n, nodeStore[n], o>>) /\ o # nodeStore[n]
        /\ moved' \subseteq moved \cup {n}
        /\ UNCHANGED <<handlerVars, startVars, cacheVars, storeVars, rqVars, workerVars, last>>
    BY <1>2, Zenon DEF ChangeNode
  <2>2. <<n, nodeStore[n], o>> \in Event
    BY EventFields, Zenon DEF NodeTypes
  <2>3. NodeTypes'
    BY <2>1, <2>2 DEF NodeTypes
  <2>4. CacheTypes' /\ WorkTypes'
    BY <2>1, Zenon DEF CacheTypes, WorkTypes, RQ!KWTypeOK
  <2>5. AtHand'
    BY <2>1, <2>2 DEF AtHand, NodeTypes
  <2> QED
    BY <2>3, <2>4, <2>5, Zenon
<1>3. CASE NextEvent
  <2> DEFINE e == Head(events)
  <2>1. e \in Event /\ e = events[1] /\ 1 \in 1..Len(events)
    BY <1>3 DEF NextEvent, NodeTypes
  <2>2. e[2] \in NodeObjects \cup {None} /\ e[3] \in NodeObjects \cup {None} /\ e[2] # e[3] /\ e # << >>
    BY <2>1, EventFields, Zenon DEF AtHand
  <2>3. NodeTypes'
    BY <1>3, <2>1, <2>2 DEF NextEvent, NodeTypes
  <2>4. CacheTypes' /\ WorkTypes'
    BY <1>3, Zenon DEF NextEvent, CacheTypes, WorkTypes, RQ!KWTypeOK
  <2>5. \A i \in 1..Len(events') : i + 1 \in 1..Len(events) /\ events'[i] = events[i + 1]
    BY <1>3 DEF NextEvent, NodeTypes
  <2>6. AtHand'
    BY <1>3, <2>2, <2>5, Zenon DEF NextEvent, AtHand
  <2> QED
    BY <2>3, <2>4, <2>6, Zenon
<1>4. CASE Leave \/ Join
  <2>1. event \in Event /\ hpc \in {"leave", "join"}
    BY <1>4, Zenon DEF Leave, Join, NodeTypes
  <2>2. event[1] \in Nodes
    BY <2>1, EventFields, Zenon
  <2>3. CacheTypes'
    BY <1>4, <2>2, GroupTypes, Zenon DEF Leave, Join, CacheTypes, AtHand
  <2>4. NodeTypes' /\ WorkTypes'
    BY <1>4, <2>1, Zenon DEF Leave, Join, NodeTypes, WorkTypes, RQ!KWTypeOK
  <2>5. AtHand'
    <3>1. hpc' \in {"join", "status"} => event[3] \in NodeObjects
      BY <1>4, <2>1, EventFields, Zenon DEF Leave, Join, AtHand
    <3> QED
      BY <1>4, <3>1, Zenon DEF Leave, Join, AtHand
  <2> QED
    BY <2>3, <2>4, <2>5, Zenon
<1>5. CASE Forget
  BY <1>5, EventFields, Zenon DEF Forget, NodeTypes, CacheTypes, WorkTypes, AtHand, RQ!KWTypeOK
<1>6. CASE Status
  <2>1. event \in Event /\ event[1] \in Nodes /\ event[3] \in NodeObjects
    BY <1>6, EventFields, Zenon DEF Status, NodeTypes, AtHand
  <2>2. CacheTypes'
    BY <1>6, <2>1, EdgeTypes, Zenon DEF Status, CacheTypes
  <2>3. NodeTypes' /\ WorkTypes' /\ AtHand'
    BY <1>6, <2>1, EventFields, Zenon DEF Status, NodeTypes, WorkTypes, AtHand, RQ!KWTypeOK
  <2> QED
    BY <2>2, <2>3, Zenon
<1>7. CASE SyncStart \/ SyncEnd \/ \E r \in Resources : SyncPick(r)
  <2>1. UNCHANGED <<nodeVars, startVars, cacheVars, storeVars, rqVars, workerVars, last>>
    BY <1>7, Zenon DEF SyncStart, SyncEnd, SyncPick
  <2>2. CacheTypes' /\ WorkTypes'
    BY <2>1, Zenon DEF CacheTypes, WorkTypes, RQ!KWTypeOK
  <2>3. NodeTypes'
    BY <1>7, NoneIsNothing DEF SyncStart, SyncEnd, SyncPick, NodeTypes, WorkTypes
  <2>4. AtHand'
    BY <1>7, Zenon DEF SyncStart, SyncEnd, SyncPick, AtHand
  <2> QED
    BY <2>2, <2>3, <2>4, Zenon
<1>8. CASE SyncSend
  <2>1. /\ event[1] \in Nodes /\ syncRes \in Resources
        /\ (IF syncSpec = None THEN Spec[syncRes] ELSE syncSpec) \in Specs
    BY <1>8, EventFields, Zenon DEF SyncSend, NodeTypes, WorkTypes
  <2>2. last' \in [Nodes -> [Resources -> Messages]]
    BY <1>8, <2>1, MessageType, Zenon DEF SyncSend, WorkTypes
  <2>3. NodeTypes'
    BY <1>8, Zenon DEF SyncSend, NodeTypes
  <2>4. CacheTypes' /\ WorkTypes'
    BY <1>8, <2>2, Zenon DEF SyncSend, CacheTypes, WorkTypes, RQ!KWTypeOK
  <2>5. AtHand'
    BY <1>8, Zenon DEF SyncSend, AtHand
  <2> QED
    BY <2>3, <2>4, <2>5, Zenon
<1>9. CASE ListNodes \/ StartWorkers
  BY <1>9 DEF ListNodes, StartWorkers, NodeTypes, CacheTypes, WorkTypes, AtHand, RQ!KWTypeOK
<1>10. CASE CacheStatus
  <2>1. initNow[1] \in Nodes /\ initNow[2] \in NodeObjects
    BY <1>10, Zenon DEF CacheStatus, NodeTypes
  <2>2. CacheTypes'
    BY <1>10, <2>1, EdgeTypes, Zenon DEF CacheStatus, CacheTypes
  <2>3. NodeTypes' /\ WorkTypes' /\ AtHand'
    BY <1>10, Zenon DEF CacheStatus, NodeTypes, WorkTypes, AtHand, RQ!KWTypeOK
  <2> QED
    BY <2>2, <2>3, Zenon
<1>11. ASSUME NEW n \in Nodes, NEW o \in NodeObjects, CacheGroups(n, o)
       PROVE  Types'
  <2>1. CacheTypes'
    BY <1>11, GroupTypes, Zenon DEF CacheGroups, CacheTypes
  <2>2. NodeTypes' /\ WorkTypes' /\ AtHand'
    BY <1>11, Zenon DEF CacheGroups, NodeTypes, WorkTypes, AtHand, RQ!KWTypeOK
  <2> QED
    BY <2>1, <2>2, Zenon
<1>12. ASSUME NEW r \in Resources, Drop(r) \/ \E s \in Specs : Write(r, s)
       PROVE  Types'
  <2>1. NodeTypes'
    BY <1>12 DEF Drop, Write, NodeTypes
  <2>2. CacheTypes' /\ AtHand'
    BY <1>12 DEF Drop, Write, CacheTypes, AtHand, RQ!Add
  <2>3. WorkTypes'
    BY <1>12 DEF Drop, Write, WorkTypes, RQ!Add, RQ!KWTypeOK
  <2> QED
    BY <2>1, <2>2, <2>3, Zenon
<1>13. ASSUME NEW d \in DispatchWorkers, NEW r \in Resources, DispatchGet(d, r)
       PROVE  Types'
  <2>1. NodeTypes' /\ CacheTypes'
    BY <1>13, Zenon DEF DispatchGet, NodeTypes, CacheTypes
  <2>2. WorkTypes'
    BY <1>13, Zenon DEF DispatchGet, WorkTypes, RQ!Take, RQ!KWTypeOK
  <2>3. AtHand'
    BY <1>13, NoneIsNothing, Zenon DEF DispatchGet, AtHand, WorkTypes, RQ!Take, RQ!KWTypeOK
  <2> QED
    BY <2>1, <2>2, <2>3, Zenon
<1>14. ASSUME NEW d \in DispatchWorkers, ReadMissing(d) \/ DispatchDone(d)
       PROVE  Types'
  <2>1. NodeTypes' /\ CacheTypes'
    BY <1>14 DEF ReadMissing, DispatchDone, NodeTypes, CacheTypes
  <2>2. leaked' \in BOOLEAN
    BY <1>14, Zenon DEF ReadMissing, DispatchDone, WorkTypes
  <2>3. WorkTypes'
    BY <1>14, <2>2, MessageType
       DEF ReadMissing, DispatchDone, WorkTypes, RQ!RetryAndFinish, RQ!Finish, RQ!KWTypeOK
  <2>4. AtHand'
    BY <1>14 DEF ReadMissing, DispatchDone, AtHand, WorkTypes, RQ!RetryAndFinish, RQ!Finish,
                 RQ!KWTypeOK
  <2> QED
    BY <2>1, <2>3, <2>4, Zenon
<1>15. ASSUME NEW d \in DispatchWorkers, ReadResource(d)
       PROVE  Types'
  <2>1. rBusy[d] \in Resources /\ Spec[rBusy[d]] \in Specs
    BY <1>15, Zenon DEF ReadResource, WorkTypes
  <2>2. NodeTypes' /\ CacheTypes'
    BY <1>15, <2>1, Zenon DEF ReadResource, NodeTypes, CacheTypes
  <2>3. dmsg' \in [DispatchWorkers -> Messages]
    BY <1>15, <2>1, MessageType, Zenon DEF ReadResource, WorkTypes
  <2>4. WorkTypes'
    BY <1>15, <2>3, Zenon DEF ReadResource, WorkTypes, RQ!KWTypeOK
  <2>5. AtHand'
    BY <1>15, Zenon DEF ReadResource, AtHand, WorkTypes
  <2> QED
    BY <2>2, <2>4, <2>5, Zenon
<1>16. ASSUME NEW d \in DispatchWorkers, Route(d) \/ \E n \in Nodes : Send(d, n)
       PROVE  Types'
  <2>1. NodeTypes' /\ CacheTypes' /\ UNCHANGED <<storeVars, rqVars, dmsg>>
    BY <1>16, Zenon DEF Route, Send, NodeTypes, CacheTypes
  <2>2. dnodes' \in [DispatchWorkers -> SUBSET Nodes]
    BY <1>16 DEF Route, Send, WorkTypes
  <2>3. dpc' \in [DispatchWorkers -> {"idle", "reading", "route", "send"}]
    BY <1>16, Zenon DEF Route, Send, WorkTypes
  <2>4. last' \in [Nodes -> [Resources -> Messages]]
    BY <1>16 DEF Route, Send, WorkTypes
  <2>5. WorkTypes'
    BY <2>1, <2>2, <2>3, <2>4, Zenon DEF WorkTypes, RQ!KWTypeOK
  <2>6. AtHand'
    BY <1>16, Zenon DEF Route, Send, AtHand, WorkTypes
  <2> QED
    BY <2>1, <2>5, <2>6, Zenon
<1>17. CASE Release
  <2>1. NodeTypes' /\ CacheTypes'
    BY <1>17, Zenon DEF Release, NodeTypes, CacheTypes
  <2>2. WorkTypes' /\ AtHand'
    BY <1>17, Zenon DEF Release, WorkTypes, AtHand, RQ!Ripen, RQ!KWTypeOK
  <2> QED
    BY <2>1, <2>2, Zenon
<1> QED
  BY <1>1, <1>2, <1>3, <1>4, <1>5, <1>6, <1>7, <1>8, <1>9, <1>10, <1>11, <1>12, <1>13, <1>14,
     <1>15, <1>16, <1>17, ZenonT(30) DEF Next
-----------------------------------------------------------------------------
(* The events of a node.                                                   *)

NoEvent(n) == \A i \in 1..Len(events) : events[i][1] # n
FirstEvent(n, i) ==
  i \in 1..Len(events) /\ events[i][1] = n /\ \A j \in 1..Len(events) : j < i => events[j][1] # n

\* o is what the handler knows of node n when it is done with its event.
Known(n, o) ==
  \/ NoEvent(n) /\ o = nodeStore[n]
  \/ \E i \in Nat : FirstEvent(n, i) /\ o = events[i][2]
OnlyKnown(n, o) ==
  /\ NoEvent(n) => o = nodeStore[n]
  /\ \A i \in Nat : FirstEvent(n, i) => o = events[i][2]

\* The events of a node lead from one of its states to the next and to the
\* one in the informer's store.
ChainedIn(es, store) ==
  /\ \A i, j \in 1..Len(es) :
       /\ i < j /\ es[i][1] = es[j][1]
       /\ \A k \in 1..Len(es) : i < k /\ k < j => es[k][1] # es[i][1]
       => es[i][3] = es[j][2]
  /\ \A i \in 1..Len(es) :
       (\A k \in 1..Len(es) : i < k => es[k][1] # es[i][1]) => es[i][3] = store[es[i][1]]
Chained == ChainedIn(events, nodeStore)

HandlerInv == hpc # "idle" => OnlyKnown(event[1], event[3])

Recorded(n, o) == \A g \in Labels(o) : n \in Group2node[g]

\* Labelled nodes have a Ready condition: UpdateNodeGroup passes over others.
Conditioned == \A o \in NodeObjects : o.label # None => o.ready # "none"

\* Unless the handler is at it, a node is a member of the groups it had when
\* the handler last looked at it.
RecordedInv ==
  Conditioned =>
    \A n \in Nodes, o \in NodeObjects :
      Known(n, o) /\ ~(hpc \in {"leave", "join"} /\ event[1] = n) => Recorded(n, o)

EventInv == Chained /\ HandlerInv /\ RecordedInv

\* Steps that leave the queue of events alone.
LEMMA EventsSame ==
  ASSUME UNCHANGED <<nodeStore, events>>
  PROVE  /\ Chained => Chained'
         /\ \A n, o : Known(n, o)' => Known(n, o)
         /\ \A n, o : OnlyKnown(n, o) => OnlyKnown(n, o)'
<1>1. ASSUME Chained PROVE Chained'
  BY <1>1, Zenon DEF Chained
<1>2. ASSUME NEW n, NEW o, Known(n, o)' PROVE Known(n, o)
  BY <1>2, Zenon DEF Known, NoEvent, FirstEvent
<1>3. ASSUME NEW n, NEW o, OnlyKnown(n, o) PROVE OnlyKnown(n, o)'
  BY <1>3, Zenon DEF OnlyKnown, NoEvent, FirstEvent
<1> QED
  BY <1>1, <1>2, <1>3, Zenon

\* Steps that leave the members of groups alone too.
LEMMA EventsIdle ==
  ASSUME EventInv, UNCHANGED <<nodeStore, events, Group2node>>,
         hpc' # "idle" => hpc # "idle" /\ event' = event,
         hpc' \in {"leave", "join"} => hpc' = hpc /\ event' = event,
         hpc \notin {"leave", "join"} \/ (hpc' = hpc /\ event' = event)
  PROVE  EventInv'
<1>1. Chained'
  BY EventsSame, Zenon DEF EventInv
<1>2. HandlerInv'
  BY EventsSame, Zenon DEF EventInv, HandlerInv
<1>3. RecordedInv'
  <2> SUFFICES ASSUME Conditioned, NEW n \in Nodes, NEW o \in NodeObjects, Known(n, o)',
                      ~(hpc' \in {"leave", "join"} /\ event'[1] = n)
               PROVE  Recorded(n, o)'
    BY Zenon DEF RecordedInv, Conditioned
  <2>1. Known(n, o)
    BY EventsSame, Zenon
  <2>2. Recorded(n, o)
    BY <2>1, Zenon DEF EventInv, RecordedInv
  <2> QED
    BY <2>2, Zenon DEF Recorded, Labels
<1> QED
  BY <1>1, <1>2, <1>3, Zenon DEF EventInv

\* The first event of a node, if it has one, stays so when another is added.
LEMMA EventAdded ==
  ASSUME Types, NEW n \in Nodes, NEW o \in NodeObjects \cup {None}, ChangeNode(n, o),
         NEW m \in Nodes
  PROVE  /\ NoEvent(m)' => NoEvent(m) /\ m # n
         /\ \A i \in Nat : FirstEvent(m, i)' =>
              \/ FirstEvent(m, i) /\ events'[i] = events[i]
              \/ NoEvent(m) /\ m = n /\ events'[i] = <<n, nodeStore[n], o>>
         /\ \A i \in Nat : FirstEvent(m, i) => FirstEvent(m, i)' /\ events'[i] = events[i]
<1> DEFINE e == <<n, nodeStore[n], o>>
           L == Len(events)
<1>1. events' = Append(events, e)
  BY Zenon DEF ChangeNode
<1>2. e \in Event /\ e[1] = n
  BY EventFields, Zenon DEF Types, NodeTypes
<1> HIDE DEF e
<1>3. /\ L \in Nat /\ Len(events') = L + 1 /\ events'[L + 1] = e
      /\ \A i \in 1..L : events'[i] = events[i]
  BY <1>1, <1>2 DEF Types, NodeTypes
<1> HIDE DEF L
<1>4. 1..Len(events') = (1..L) \cup {L + 1}
  BY <1>3
<1>5. NoEvent(m)' => NoEvent(m) /\ m # n
  BY <1>2, <1>3, <1>4, Zenon DEF NoEvent, L
<1>6. ASSUME NEW i \in Nat, FirstEvent(m, i)'
      PROVE  \/ FirstEvent(m, i) /\ events'[i] = events[i]
             \/ NoEvent(m) /\ m = n /\ events'[i] = e
  <2>1. CASE i \in 1..L
    BY <1>3, <1>4, <1>6, <2>1, Zenon DEF FirstEvent, L
  <2>2. CASE i = L + 1
    BY <1>2, <1>3, <1>4, <1>6, <2>2 DEF FirstEvent, NoEvent, L
  <2> QED
    BY <1>4, <1>6, <2>1, <2>2, Zenon DEF FirstEvent
<1>7. ASSUME NEW i \in Nat, FirstEvent(m, i)
      PROVE  FirstEvent(m, i)' /\ events'[i] = events[i]
  <2>1. i \in 1..L /\ ~(L + 1 < i)
    BY <1>3, <1>7 DEF FirstEvent, L
  <2> QED
    BY <1>3, <1>4, <1>7, <2>1, Zenon DEF FirstEvent, L
<1> QED
  BY <1>5, <1>6, <1>7, Zenon DEF e

\* So it does when the first event of another node is taken.
LEMMA EventTaken ==
  ASSUME Types, NextEvent, NEW m \in Nodes, m # events[1][1]
  PROVE  /\ NoEvent(m)' => NoEvent(m)
         /\ \A i \in Nat : FirstEvent(m, i)' => FirstEvent(m, i + 1) /\ events'[i] = events[i + 1]
         /\ \A i \in Nat : FirstEvent(m, i) =>
              i - 1 \in Nat /\ FirstEvent(m, i - 1)' /\ events'[i - 1] = events[i]
<1> DEFINE L == Len(events)
           K == Len(events')
<1>1. L \in Nat \ {0} /\ K = L - 1 /\ \A i \in 1..K : events'[i] = events[i + 1]
  BY DEF NextEvent, Types, NodeTypes
<1>2. \A i \in 1..L : i = 1 \/ (i - 1 \in 1..K /\ events'[i - 1] = events[i])
  BY <1>1
<1> HIDE DEF L, K
<1>3. ASSUME NoEvent(m)' PROVE NoEvent(m)
  BY <1>2, <1>3, Zenon DEF NoEvent, L, K
<1>4. ASSUME NEW i \in Nat, FirstEvent(m, i)'
      PROVE  FirstEvent(m, i + 1) /\ events'[i] = events[i + 1]
  <2>1. i \in 1..K /\ i + 1 \in 1..L /\ events'[i] = events[i + 1]
    BY <1>1, <1>4 DEF FirstEvent, K
  <2>2. ASSUME NEW j \in 1..L, j < i + 1
        PROVE  events[j][1] # m
    <3>1. CASE j = 1
      BY <3>1, Zenon
    <3>2. CASE j # 1
      <4>1. j - 1 \in 1..K /\ events'[j - 1] = events[j]
        BY <1>2, <3>2, Zenon
      <4>2. j - 1 < i
        BY <1>1, <2>1, <2>2
      <4> QED
        BY <1>4, <4>1, <4>2, Zenon DEF FirstEvent, K
    <3> QED
      BY <3>1, <3>2, Zenon
  <2> QED
    BY <1>4, <2>1, <2>2, Zenon DEF FirstEvent, L
<1>5. ASSUME NEW i \in Nat, FirstEvent(m, i)
      PROVE  i - 1 \in Nat /\ FirstEvent(m, i - 1)' /\ events'[i - 1] = events[i]
  <2>1. i \in 1..L /\ i # 1
    BY <1>5, Zenon DEF FirstEvent, L
  <2>2. i - 1 \in 1..K /\ events'[i - 1] = events[i] /\ i - 1 \in Nat
    BY <1>1, <1>2, <2>1
  <2>3. ASSUME NEW j \in 1..K, j < i - 1
        PROVE  events'[j][1] # m
    <3>1. j + 1 \in 1..L /\ j + 1 < i /\ events'[j] = events[j + 1]
      BY <1>1, <2>1, <2>3
    <3> QED
      BY <1>5, <3>1, Zenon DEF FirstEvent, L
  <2> QED
    BY <1>5, <2>2, <2>3, Zenon DEF FirstEvent, K
<1> QED
  BY <1>3, <1>4, <1>5, Zenon

LEMMA ChangeNodeEvents ==
  ASSUME Types, EventInv, NEW n \in Nodes, NEW o \in NodeObjects \cup {None}, ChangeNode(n, o)
  PROVE  EventInv'
<1> DEFINE e == <<n, nodeStore[n], o>>
           L == Len(events)
<1>1. /\ nodeStore' = [nodeStore EXCEPT ![n] = o]
      /\ events' = Append(events, e)
      /\ UNCHANGED <<hpc, event, Group2node>>
  BY Zenon DEF ChangeNode
<1>2. e \in Event /\ e[1] = n /\ e[2] = nodeStore[n] /\ e[3] = o
  BY EventFields, Zenon DEF Types, NodeTypes
<1> HIDE DEF e
<1>3. L \in Nat /\ Len(events') = L + 1 /\ events'[L + 1] = e
  BY <1>1, <1>2 DEF Types, NodeTypes
<1>4. \A i \in 1..L : events'[i] = events[i]
  BY <1>1, <1>2 DEF Types, NodeTypes
<1> HIDE DEF L
<1>5. 1..Len(events') = (1..L) \cup {L + 1}
  BY <1>3
<1>6. nodeStore'[n] = o /\ \A m \in Nodes : m # n => nodeStore'[m] = nodeStore[m]
  BY <1>1, Zenon DEF Types, NodeTypes
<1>7. \A i \in 1..L : events[i][1] \in Nodes
  BY EventFields DEF Types, NodeTypes, L
<1>8. ASSUME NEW m \in Nodes
      PROVE  /\ NoEvent(m)' => NoEvent(m) /\ m # n
             /\ \A i \in Nat : FirstEvent(m, i)' =>
                  \/ FirstEvent(m, i) /\ events'[i] = events[i]
                  \/ NoEvent(m) /\ m = n /\ events'[i] = e
  BY EventAdded, Zenon DEF e
<1>9. Chained'
  <2>1. ASSUME NEW i \in 1..Len(events'), NEW j \in 1..Len(events'),
               i < j, events'[i][1] = events'[j][1],
               \A k \in 1..Len(events') : i < k /\ k < j => events'[k][1] # events'[i][1]
        PROVE  events'[i][3] = events'[j][2]
    <3>1. i \in 1..L
      BY <1>3, <2>1
    <3>2. CASE j \in 1..L
      <4>1. \A k \in 1..L : i < k /\ k < j => events[k][1] # events[i][1]
        BY <1>4, <1>5, <2>1, <3>1, Zenon
      <4>2. events[i][1] = events[j][1] /\ i < j
        BY <1>4, <2>1, <3>1, <3>2, Zenon
      <4>3. events[i][3] = events[j][2]
        BY <3>1, <3>2, <4>1, <4>2, Zenon DEF EventInv, Chained, ChainedIn, L
      <4> QED
        BY <1>4, <3>1, <3>2, <4>3, Zenon
    <3>3. CASE j = L + 1
      <4>1. \A k \in 1..L : i < k => events[k][1] # events[i][1]
        BY <1>3, <1>4, <1>5, <2>1, <3>1, <3>3
      <4>2. events[i][3] = nodeStore[events[i][1]]
        BY <3>1, <4>1, Zenon DEF EventInv, Chained, ChainedIn, L
      <4> QED
        BY <1>2, <1>3, <1>4, <2>1, <3>1, <3>3, <4>2
    <3> QED
      BY <1>5, <3>2, <3>3, Zenon
  <2>2. ASSUME NEW i \in 1..Len(events'),
               \A k \in 1..Len(events') : i < k => events'[k][1] # events'[i][1]
        PROVE  events'[i][3] = nodeStore'[events'[i][1]]
    <3>1. CASE i = L + 1
      BY <1>2, <1>3, <1>6, <3>1, Zenon
    <3>2. CASE i \in 1..L
      <4>1. events'[i] = events[i] /\ events[i][1] # n
        BY <1>2, <1>3, <1>4, <1>5, <2>2, <3>2
      <4>2. \A k \in 1..L : i < k => events[k][1] # events[i][1]
        BY <1>4, <1>5, <2>2, <3>2, Zenon
      <4>3. events[i][3] = nodeStore[events[i][1]]
        BY <3>2, <4>2, Zenon DEF EventInv, Chained, ChainedIn, L
      <4> QED
        BY <1>6, <1>7, <3>2, <4>1, <4>3, Zenon
    <3> QED
      BY <1>5, <3>1, <3>2, Zenon
  <2> QED
    BY <2>1, <2>2, Zenon DEF Chained, ChainedIn
<1>10. HandlerInv'
  <2> SUFFICES ASSUME NEW m \in Nodes, NEW x, OnlyKnown(m, x)
               PROVE  OnlyKnown(m, x)'
    BY <1>1, EventFields, Zenon DEF Types, NodeTypes, EventInv, HandlerInv
  <2>1. NoEvent(m)' => x = nodeStore'[m]
    BY <1>6, <1>8, Zenon DEF OnlyKnown
  <2>2. \A i \in Nat : FirstEvent(m, i)' => x = events'[i][2]
    BY <1>2, <1>8, Zenon DEF OnlyKnown
  <2> QED
    BY <2>1, <2>2, Zenon DEF OnlyKnown
<1>11. RecordedInv'
  <2> SUFFICES ASSUME Conditioned, NEW m \in Nodes, NEW x \in NodeObjects, Known(m, x)',
                      ~(hpc \in {"leave", "join"} /\ event[1] = m)
               PROVE  Recorded(m, x)'
    BY <1>1, Zenon DEF RecordedInv, Conditioned
  <2>1. Known(m, x)
    BY <1>2, <1>6, <1>8, Zenon DEF Known
  <2>2. Recorded(m, x)
    BY <2>1, Zenon DEF EventInv, RecordedInv
  <2> QED
    BY <1>1, <2>2, Zenon DEF Recorded, Labels
<1> QED
  BY <1>9, <1>10, <1>11, Zenon DEF EventInv

LEMMA NextEventEvents ==
  ASSUME Types, EventInv, NextEvent
  PROVE  EventInv'
<1> DEFINE e == events[1]
           L == Len(events)
<1>1. /\ events' = Tail(events) /\ L \in Nat \ {0} /\ Len(events') = L - 1
      /\ event' = e /\ UNCHANGED <<nodeStore, Group2node>> /\ hpc = "idle" /\ hpc' # "idle"
  BY DEF NextEvent, Types, NodeTypes
<1>2. \A i \in 1..Len(events') : events'[i] = events[i + 1]
  BY <1>1 DEF Types, NodeTypes
<1>3. \A i \in 1..Len(events') : i + 1 \in 1..L
  BY <1>1
<1>4. \A i \in 1..L : i = 1 \/ (i - 1 \in 1..Len(events') /\ events'[i - 1] = events[i])
  BY <1>1, <1>2
<1>5. e \in Event /\ 1 \in 1..L
  BY <1>1 DEF Types, NodeTypes
<1>6. /\ e[1] \in Nodes /\ e[2] \in NodeObjects \cup {None} /\ e[3] \in NodeObjects \cup {None}
      /\ e[2] # e[3]
  BY <1>5, EventFields, Zenon DEF Types, AtHand
<1>7. /\ hpc' = "status" => e[2] # None /\ e[3] # None /\ Labels(e[3]) = Labels(e[2])
      /\ hpc' \in {"leave", "join", "status"}
  <2>1. Head(events) = e
    BY <1>1
  <2> QED
    BY <1>6, <2>1, Zenon DEF NextEvent
<1>n. PICK n \in Nodes, old, cur \in NodeObjects \cup {None} : n = e[1] /\ old = e[2] /\ cur = e[3]
  BY <1>6, Zenon
<1> HIDE DEF L, e
\* Only the node of the first event is known anew, as that event has it.
<1>8. ASSUME NEW m \in Nodes, m # n, NEW x, Known(m, x)'
      PROVE  Known(m, x)
  <2>1. m # events[1][1]
    BY <1>8, <1>n, Zenon DEF e
  <2>2. CASE NoEvent(m)' /\ x = nodeStore'[m]
    BY <1>1, <2>1, <2>2, EventTaken, Zenon DEF Known
  <2>3. ASSUME NEW i \in Nat, FirstEvent(m, i)', x = events'[i][2]
        PROVE  Known(m, x)
    <3>1. FirstEvent(m, i + 1) /\ events'[i] = events[i + 1] /\ i + 1 \in Nat
      BY <2>1, <2>3, EventTaken
    <3> QED
      BY <2>3, <3>1, Zenon DEF Known
  <2> QED
    BY <1>8, <2>2, <2>3, Zenon DEF Known
<1>9. ASSUME NEW x, Known(n, x)'
      PROVE  x = cur
  <2>1. CASE NoEvent(n)' /\ x = nodeStore'[n]
    <3>1. ASSUME NEW k \in 1..L, 1 < k
          PROVE  events[k][1] # n
      <4>1. k - 1 \in 1..Len(events') /\ events'[k - 1] = events[k]
        BY <1>1, <1>4, <3>1
      <4> QED
        BY <2>1, <4>1, Zenon DEF NoEvent
    <3>2. cur = nodeStore[n]
      BY <1>5, <1>n, <3>1, Zenon DEF EventInv, Chained, ChainedIn, L, e
    <3> QED
      BY <1>1, <2>1, <3>2, Zenon
  <2>2. ASSUME NEW i \in Nat, FirstEvent(n, i)', x = events'[i][2]
        PROVE  x = cur
    <3>1. i \in 1..Len(events') /\ i + 1 \in 1..L /\ events'[i] = events[i + 1]
      BY <1>2, <1>3, <2>2, Zenon DEF FirstEvent
    <3>2. events[i + 1][1] = n /\ 1 < i + 1
      BY <2>2, <3>1 DEF FirstEvent
    <3>3. ASSUME NEW k \in 1..L, 1 < k, k < i + 1
          PROVE  events[k][1] # n
      <4>1. k - 1 \in 1..Len(events') /\ events'[k - 1] = events[k] /\ k - 1 < i
        BY <1>1, <1>4, <3>1, <3>3
      <4> QED
        BY <2>2, <4>1, Zenon DEF FirstEvent
    <3>4. cur = events[i + 1][2]
      BY <1>5, <1>n, <3>1, <3>2, <3>3 DEF EventInv, Chained, ChainedIn, L, e
    <3> QED
      BY <2>2, <3>1, <3>4, Zenon
  <2> QED
    BY <1>9, <2>1, <2>2, Zenon DEF Known
<1>10. Chained'
  <2>1. ASSUME NEW i \in 1..Len(events'), NEW j \in 1..Len(events'),
               i < j, events'[i][1] = events'[j][1],
               \A k \in 1..Len(events') : i < k /\ k < j => events'[k][1] # events'[i][1]
        PROVE  events'[i][3] = events'[j][2]
    <3>1. ASSUME NEW k \in 1..L, i + 1 < k, k < j + 1
          PROVE  events[k][1] # events[i + 1][1]
      <4>1. k - 1 \in 1..Len(events') /\ events'[k - 1] = events[k] /\ i < k - 1 /\ k - 1 < j
        BY <1>1, <1>4, <3>1
      <4>2. events'[k - 1][1] # events'[i][1]
        BY <2>1, <4>1, Zenon
      <4> QED
        BY <1>2, <4>1, <4>2, Zenon
    <3>2. i + 1 \in 1..L /\ j + 1 \in 1..L /\ i + 1 < j + 1 /\ events[i + 1][1] = events[j + 1][1]
      BY <1>1, <1>2, <1>3, <2>1
    <3>3. events[i + 1][3] = events[j + 1][2]
      BY <3>1, <3>2, Zenon DEF EventInv, Chained, ChainedIn, L
    <3> QED
      BY <1>2, <3>3, Zenon
  <2>2. ASSUME NEW i \in 1..Len(events'),
               \A k \in 1..Len(events') : i < k => events'[k][1] # events'[i][1]
        PROVE  events'[i][3] = nodeStore'[events'[i][1]]
    <3>1. ASSUME NEW k \in 1..L, i + 1 < k
          PROVE  events[k][1] # events[i + 1][1]
      <4>1. k - 1 \in 1..Len(events') /\ events'[k - 1] = events[k] /\ i < k - 1
        BY <1>1, <1>4, <3>1
      <4> QED
        BY <1>2, <2>2, <4>1, Zenon
    <3>2. i + 1 \in 1..L
      BY <1>3, Zenon
    <3>3. events[i + 1][3] = nodeStore[events[i + 1][1]]
      BY <3>1, <3>2, Zenon DEF EventInv, Chained, ChainedIn, L
    <3> QED
      BY <1>1, <1>2, <3>3, Zenon
  <2> QED
    BY <2>1, <2>2, Zenon DEF Chained, ChainedIn
<1>11. HandlerInv'
  <2>1. NoEvent(n)' => cur = nodeStore'[n]
    BY <1>9, Zenon DEF Known
  <2>2. \A i \in Nat : FirstEvent(n, i)' => cur = events'[i][2]
    BY <1>9, Zenon DEF Known
  <2>3. event'[1] = n /\ event'[3] = cur
    BY <1>1, <1>n, Zenon
  <2> QED
    BY <2>1, <2>2, <2>3, Zenon DEF HandlerInv, OnlyKnown
<1>12. RecordedInv'
  <2> SUFFICES ASSUME Conditioned, NEW m \in Nodes, NEW x \in NodeObjects, Known(m, x)',
                      ~(hpc' \in {"leave", "join"} /\ n = m)
               PROVE  Recorded(m, x)'
    BY <1>1, <1>n, Zenon DEF RecordedInv, Conditioned
  <2>1. CASE m # n
    BY <1>1, <1>8, <2>1, Zenon DEF EventInv, RecordedInv, Recorded, Labels
  <2>2. CASE m = n
    <3>1. x = cur /\ hpc' = "status"
      BY <1>7, <1>9, <2>2, Zenon
    <3>2. FirstEvent(m, 1)
      BY <1>1, <1>5, <1>n, <2>2 DEF FirstEvent, L, e
    <3>3. Known(m, old)
      BY <1>n, <3>2, Zenon DEF Known, e
    <3>4. Recorded(m, old) /\ old # None /\ Labels(cur) = Labels(old)
      BY <1>1, <1>6, <1>7, <1>n, <3>1, <3>3, Zenon DEF EventInv, RecordedInv
    <3> QED
      BY <1>1, <3>1, <3>4, Zenon DEF Recorded, Labels
  <2> QED
    BY <2>1, <2>2, Zenon
<1> QED
  BY <1>10, <1>11, <1>12, Zenon DEF EventInv

LEMMA EventStep ==
  ASSUME Types, EventInv, [Next]_vars
  PROVE  EventInv'
<1>1. CASE UNCHANGED <<nodeStore, events, Group2node, hpc, event>>
  BY <1>1, EventsIdle, Zenon
<1>2. ASSUME NEW n \in Nodes, NEW o \in NodeObjects \cup {None}, ChangeNode(n, o)
      PROVE  EventInv'
  BY <1>2, ChangeNodeEvents, Zenon
<1>3. CASE NextEvent
  BY <1>3, NextEventEvents, Zenon
<1>4. CASE Forget \/ Status \/ SyncStart \/ SyncEnd \/ SyncSend \/ \E r \in Resources : SyncPick(r)
  BY <1>4, EventsIdle, Zenon DEF Forget, Status, SyncStart, SyncEnd, SyncSend, SyncPick
<1>5. CASE Leave \/ Join
  <2> DEFINE n == event[1]
  <2>1. UNCHANGED <<nodeStore, events, event>> /\ hpc \in {"leave", "join"} /\ n \in Nodes
    BY <1>5, EventFields, Zenon DEF Leave, Join, Types, NodeTypes
  <2>2. Chained' /\ HandlerInv'
    BY <2>1, EventsSame, Zenon DEF EventInv, HandlerInv
  <2>3. ASSUME Conditioned, NEW m \in Nodes, NEW x \in NodeObjects, Known(m, x)',
               ~(hpc' \in {"leave", "join"} /\ n = m)
        PROVE  Recorded(m, x)'
    <3>1. Known(m, x)
      BY <2>1, <2>3, EventsSame, Zenon
    <3>2. CASE m # n
      <4>1. Recorded(m, x)
        BY <2>3, <3>1, <3>2, Zenon DEF EventInv, RecordedInv
      <4>2. \A g \in Groups : m \in Group2node[g] => m \in Group2node'[g]
        BY <1>5, <3>2 DEF Leave, Join, DeleteNodeGroup, UpdateNodeGroup, Types, CacheTypes
      <4>3. Labels(x) \subseteq Groups
        BY NodeObjectsAssumption, Zenon DEF Labels, NodeObject
      <4> QED
        BY <4>1, <4>2, <4>3, Zenon DEF Recorded, Labels
    <3>3. CASE m = n
      <4>1. x = event[3]
        BY <2>1, <3>1, <3>3, Zenon DEF EventInv, HandlerInv, OnlyKnown, Known
      <4>2. CASE Leave
        BY <2>3, <3>3, <4>1, <4>2, NoneIsNothing, Zenon DEF Leave
      <4>3. CASE Join
        <5>1. UpdateNodeGroup(n, x) /\ x.label \in (SUBSET Groups) \cup {None}
          BY <4>1, <4>3, NodeObjectsAssumption, Zenon DEF Join, NodeObject
        <5>2. \A g \in Labels(x) : n \in Group2node'[g]
          BY <2>3, <4>1, <5>1, Zenon DEF Conditioned, UpdateNodeGroup, Labels
        <5> QED
          BY <3>3, <5>2, Zenon DEF Recorded, Labels
      <4> QED
        BY <1>5, <4>2, <4>3, Zenon
    <3> QED
      BY <3>2, <3>3, Zenon
  <2>4. RecordedInv'
    BY <2>1, <2>3, Zenon DEF RecordedInv, Conditioned
  <2> QED
    BY <2>2, <2>4, Zenon DEF EventInv
<1>6. ASSUME NEW n \in Nodes, NEW o \in NodeObjects, CacheGroups(n, o)
      PROVE  EventInv'
  <2>1. UNCHANGED <<nodeStore, events, hpc, event>>
    BY <1>6, Zenon DEF CacheGroups
  <2>2. Chained' /\ HandlerInv'
    BY <2>1, EventsSame, Zenon DEF EventInv, HandlerInv
  <2>3. ASSUME Conditioned, NEW m \in Nodes, NEW x \in NodeObjects, Known(m, x)',
               ~(hpc \in {"leave", "join"} /\ event[1] = m)
        PROVE  Recorded(m, x)'
    <3>1. Known(m, x)
      BY <2>1, <2>3, EventsSame, Zenon
    <3>2. Recorded(m, x)
      BY <2>3, <3>1, Zenon DEF EventInv, RecordedInv
    <3>3. \A g \in Groups : m \in Group2node[g] => m \in Group2node'[g]
      BY <1>6 DEF CacheGroups, UpdateNodeGroup, Types, CacheTypes
    <3>4. Labels(x) \subseteq Groups
      BY NodeObjectsAssumption, Zenon DEF Labels, NodeObject
    <3> QED
      BY <3>2, <3>3, <3>4, Zenon DEF Recorded, Labels
  <2>4. RecordedInv'
    BY <2>1, <2>3, Zenon DEF RecordedInv, Conditioned
  <2> QED
    BY <2>2, <2>4, Zenon DEF EventInv
<1> QED
  BY <1>1, <1>2, <1>3, <1>4, <1>5, <1>6, ZenonT(30)
     DEF Next, vars, ListNodes, CacheStatus, StartWorkers, Drop, Write, DispatchGet, ReadMissing,
         ReadResource, Route, DispatchDone, Send, Release

LEMMA EventInit == Init => EventInv
<1> SUFFICES ASSUME Init PROVE EventInv
  BY Zenon
<1>1. events = << >> /\ hpc = "idle" /\ \A n \in Nodes : nodeStore[n] = None
  BY Zenon DEF Init
<1>2. Chained /\ HandlerInv
  BY <1>1 DEF Chained, ChainedIn, HandlerInv
<1>3. \A n \in Nodes, o \in NodeObjects : Known(n, o) => o = None
  BY <1>1 DEF Known, FirstEvent
<1>4. RecordedInv
  BY <1>3, NoneIsNothing, Zenon DEF RecordedInv
<1> QED
  BY <1>2, <1>4, Zenon DEF EventInv

\* For any nodes, groups, resources and workers: the location cache, the event
\* queue, the dispatch queue and what the handlers and workers are at keep
\* their types, whatever the order of initCache, handlers and workers.
THEOREM DispatchTypes == NodeSpec => []TypeOK
<1>1. Types /\ [Next]_vars => Types'
  BY TypesStep, Zenon
<1> QED
  BY <1>1, TypesInit, TypesAreTypeOK, PTL DEF NodeSpec

\* MembersRecorded for any nodes, groups and labels, however long the queue of
\* events gets and wherever initCache is: addNode, updateNode and deleteNode
\* leave a node in every group it is labelled with.  A labelled node needs a
\* Ready condition, as UpdateNodeGroup passes over nodes without one.
THEOREM LabelsRecorded ==
  ASSUME Conditioned
  PROVE  NodeSpec => []MembersRecorded
<1>1. Init => Types /\ EventInv
  BY TypesInit, EventInit, Zenon
<1>2. Types /\ EventInv /\ [Next]_vars => (Types /\ EventInv)'
  BY TypesStep, EventStep, Zenon
<1>3. Types /\ EventInv => MembersRecorded
  <2> SUFFICES ASSUME Types, EventInv, Settled, NEW n \in Nodes, nodeStore[n] # None
               PROVE  \A g \in Labels(nodeStore[n]) : n \in Group2node[g]
    BY Zenon DEF MembersRecorded
  <2>1. Known(n, nodeStore[n]) /\ nodeStore[n] \in NodeObjects /\ hpc = "idle"
    BY DEF Settled, Known, NoEvent, Types, NodeTypes
  <2> QED
    BY <2>1, Zenon DEF EventInv, RecordedInv, Recorded
<1> QED
  BY <1>1, <1>2, <1>3, PTL DEF NodeSpec
-----------------------------------------------------------------------------
(* The members a resource is sent to.  The invariants below are about      *)
(* nodes that have not been moved.                                         *)

\* A node that is not in moved is updated to objects with the same label only.
MovedInv ==
  /\ \A i \in 1..Len(events) :
       events[i][1] \notin moved => ~Relabelled(events[i][2], events[i][3])
  /\ hpc # "idle" /\ event[1] \notin moved => ~Relabelled(event[2], event[3])
  /\ hpc \in {"leave", "join"} =>
       event[2] = None \/ event[3] = None \/ Relabelled(event[2], event[3])
  /\ hpc \in {"range", "sync", "send"} => event[3] # None

\* o is an object of node n in its first life: it has the label n still has.
FirstLife(n, o) == o # None /\ nodeStore[n] # None /\ o.label = nodeStore[n].label

\* No node is seen to be deleted before the workers run.
EarlyInv ==
  /\ phase # "running" =>
       /\ live = {}
       /\ \A i \in 1..Len(events) :
            events[i][1] \notin moved => FirstLife(events[i][1], events[i][3])
       /\ hpc # "idle" /\ event[1] \notin moved => FirstLife(event[1], event[3])
       /\ \A p \in initTodo : p[1] \notin moved => FirstLife(p[1], p[2])
       /\ initNow # << >> /\ initNow[1] \notin moved => FirstLife(initNow[1], initNow[2])
  /\ phase # "caching" => initNow = << >>

\* The handler is done with what it has been told of node n.
HandledAll(n) == hpc = "idle" \/ event[1] # n

\* A node whose readiness is known to the cache before the handler has joined
\* it is in its groups already: initCache has put it there.
JoinedInv ==
  /\ \A n \in Nodes \ moved :
       Known(n, None) /\ HandledAll(n) =>
         \/ EdgeNodes[n] = "none"
         \/ \E i \in Nat : FirstEvent(n, i) /\ \E o \in NodeObjects : o = events[i][3] /\ Recorded(n, o)
  /\ hpc = "join" /\ event[1] \notin moved =>
       EdgeNodes[event[1]] = "none" \/ \E o \in NodeObjects : o = event[3] /\ Recorded(event[1], o)
  /\ initNow # << >> /\ initNow[1] \notin moved =>
       \E o \in NodeObjects : o = initNow[2] /\ (o.ready # "none" => Recorded(initNow[1], o))

StoreInv ==
  /\ live \subseteq resourceStore /\ resourceStore \subseteq live \cup dropped
  /\ syncSpec # None => syncRes \in dropped

\* A worker that has read a resource has its current contents, unless the
\* resource is queued again.
WorkerInv ==
  \A d \in DispatchWorkers :
    dpc[d] \in {"route", "send"} /\ rBusy[d] \in live \ rPending
      => dmsg[d] = [opr |-> "insert", spec |-> Spec[rBusy[d]]]

Current(n, r) == last[n][r] = [opr |-> "insert", spec |-> Spec[r]]

\* A worker is still to send r to n, if n is to receive it.
WorkerSends(n, r) ==
  \/ r \in rPending \cup rLater
  \/ \E d \in DispatchWorkers :
       rBusy[d] = r /\ (dpc[d] \in {"reading", "route"} \/ (dpc[d] = "send" /\ n \in dnodes[d]))

\* syncAllResourcesToEdgeNodes is still to send r to n.
HandlerSends(n, r) ==
  /\ hpc \in {"range", "sync", "send"} /\ event[1] = n
  /\ hpc = "range" \/ r \in syncTodo \/ r = syncRes

Sent(n, r) == ~Receives(n, r) \/ Current(n, r) \/ WorkerSends(n, r) \/ HandlerSends(n, r)
SentInv == \A n \in Nodes \ moved, r \in live \ dropped : Sent(n, r)

DispatchInv == MovedInv /\ EarlyInv /\ JoinedInv /\ StoreInv /\ WorkerInv /\ SentInv

\* The members of groups after UpdateNodeGroup.
LEMMA JoinGroups ==
  ASSUME Types, NEW n \in Nodes, NEW o \in NodeObjects, UpdateNodeGroup(n, o)
  PROVE  /\ o.ready # "none" => Recorded(n, o)'
         /\ \A m \in Nodes, p \in NodeObjects : Recorded(m, p) => Recorded(m, p)'
         /\ \A m \in Nodes, g \in Groups :
              m # n \/ Recorded(n, o) => (m \in Group2node'[g] => m \in Group2node[g])
<1>1. CASE o.ready # "none" /\ o.label # None
  <2>1. /\ Labels(o) = o.label /\ \A p \in NodeObjects : Labels(p) \subseteq Groups
        /\ Group2node' = [g \in Groups |-> IF g \in o.label THEN Group2node[g] \cup {n}
                                                          ELSE Group2node[g]]
    BY <1>1, NodeObjectsAssumption, Zenon DEF Labels, NodeObject, UpdateNodeGroup
  <2>2. \A g \in Groups : Group2node[g] \subseteq Group2node'[g] /\ (g \in o.label => n \in Group2node'[g])
    BY <2>1, Zenon
  <2>3. \A m \in Nodes, g \in Groups :
          m \in Group2node'[g] => m \in Group2node[g] \/ (m = n /\ g \in o.label)
    BY <2>1, Zenon
  <2>4. Recorded(n, o)' /\ \A m \in Nodes, p \in NodeObjects : Recorded(m, p) => Recorded(m, p)'
    BY <2>1, <2>2, Zenon DEF Recorded, Labels
  <2>5. Recorded(n, o) => \A g \in o.label : n \in Group2node[g]
    BY <2>1, Zenon DEF Recorded
  <2> QED
    BY <2>3, <2>4, <2>5, Zenon
<1>2. CASE ~(o.ready # "none" /\ o.label # None)
  <2>1. Group2node' = Group2node /\ (o.ready # "none" => Labels(o) = {})
    BY <1>2, Zenon DEF UpdateNodeGroup, Labels
  <2> QED
    BY <2>1, Zenon DEF Recorded, Labels
<1> QED
  BY <1>1, <1>2, Zenon

\* The events after ChangeNode and NextEvent.
LEMMA EventQueue ==
  ASSUME Types
  PROVE  /\ \A n \in Nodes, o \in NodeObjects \cup {None} : ChangeNode(n, o) =>
              \A i \in 1..Len(events') :
                \/ i \in 1..Len(events) /\ events'[i] = events[i]
                \/ events'[i][1] = n /\ events'[i][2] = nodeStore[n] /\ events'[i][3] = o
         /\ NextEvent => /\ Head(events) = events[1] /\ 1 \in 1..Len(events) /\ events[1] \in Event
                         /\ \A i \in 1..Len(events') :
                              i + 1 \in 1..Len(events) /\ events'[i] = events[i + 1]
<1>1. ASSUME NEW n \in Nodes, NEW o \in NodeObjects \cup {None}, ChangeNode(n, o),
             NEW i \in 1..Len(events')
      PROVE  \/ i \in 1..Len(events) /\ events'[i] = events[i]
             \/ events'[i][1] = n /\ events'[i][2] = nodeStore[n] /\ events'[i][3] = o
  <2>1. <<n, nodeStore[n], o>> \in Event /\ events' = Append(events, <<n, nodeStore[n], o>>)
    BY <1>1, EventFields, Zenon DEF Types, NodeTypes, ChangeNode
  <2> QED
    BY <1>1, <2>1 DEF Types, NodeTypes
<1>2. ASSUME NextEvent
      PROVE  /\ Head(events) = events[1] /\ 1 \in 1..Len(events) /\ events[1] \in Event
             /\ \A i \in 1..Len(events') : i + 1 \in 1..Len(events) /\ events'[i] = events[i + 1]
  BY <1>2 DEF NextEvent, Types, NodeTypes
<1> QED
  BY <1>1, <1>2, Zenon

LEMMA MovedStep ==
  ASSUME Types, MovedInv, [Next]_vars
  PROVE  MovedInv'
<1> USE DEF MovedInv
<1>1. CASE UNCHANGED <<moved, hpc, event, events>>
  BY <1>1, Zenon DEF Relabelled
<1>2. ASSUME NEW n \in Nodes, NEW o \in NodeObjects \cup {None}, ChangeNode(n, o)
      PROVE  MovedInv'
  <2>1. /\ UNCHANGED <<hpc, event>> /\ moved \subseteq moved'
        /\ Relabelled(nodeStore[n], o) => n \in moved'
    BY <1>2, Zenon DEF ChangeNode
  <2>2. \A i \in 1..Len(events') :
          \/ i \in 1..Len(events) /\ events'[i] = events[i]
          \/ events'[i][1] = n /\ events'[i][2] = nodeStore[n] /\ events'[i][3] = o
    BY <1>2, EventQueue, Zenon
  <2>3. \A i \in 1..Len(events') :
          events'[i][1] \notin moved' => ~Relabelled(events'[i][2], events'[i][3])
    BY <2>1, <2>2, Zenon
  <2> QED
    BY <2>1, <2>3, Zenon DEF Relabelled
<1>3. CASE NextEvent
  <2>1. /\ Head(events) = events[1] /\ 1 \in 1..Len(events) /\ events[1] \in Event
        /\ \A i \in 1..Len(events') : i + 1 \in 1..Len(events) /\ events'[i] = events[i + 1]
    BY <1>3, EventQueue, Zenon
  <2>2. event' = events[1] /\ moved' = moved /\ hpc' \in {"leave", "join", "status"}
    BY <1>3, <2>1, Zenon DEF NextEvent
  <2>3. hpc' \in {"leave", "join"} =>
          \/ events[1][2] = None \/ events[1][3] = None
          \/ Relabelled(events[1][2], events[1][3])
    BY <1>3, <2>1, Zenon DEF NextEvent, Relabelled, Labels
  <2> QED
    BY <2>1, <2>2, <2>3, Zenon DEF Relabelled
<1>4. CASE Leave \/ Join
  <2>1. /\ UNCHANGED <<moved, event, events>> /\ hpc # "idle"
        /\ hpc' \in {"join", "forget", "status"} /\ (hpc' = "join" => hpc = "leave")
    BY <1>4, Zenon DEF Leave, Join
  <2> QED
    BY <2>1, Zenon DEF Relabelled
<1>5. CASE Status
  <2>1. /\ UNCHANGED <<moved, events>> /\ hpc = "status" /\ hpc' \in {"idle", "range"}
        /\ hpc' = "range" => event' = event
        /\ event[3] # None
    BY <1>5, NoneIsNothing, Zenon DEF Status, Types, AtHand
  <2> QED
    BY <2>1, Zenon DEF Relabelled
<1>6. CASE Forget \/ SyncStart \/ SyncSend \/ SyncEnd \/ \E r \in Resources : SyncPick(r)
  <2>1. /\ UNCHANGED <<moved, events>>
        /\ \/ hpc' = "idle"
           \/ event' = event /\ hpc \in {"range", "sync", "send"} /\ hpc' \in {"sync", "send"}
    BY <1>6, Zenon DEF Forget, SyncStart, SyncSend, SyncEnd, SyncPick
  <2> QED
    BY <2>1, Zenon DEF Relabelled
<1> QED
  BY <1>1, <1>2, <1>3, <1>4, <1>5, <1>6, ZenonT(30)
     DEF Next, vars, ListNodes, CacheStatus, StartWorkers, CacheGroups, Drop, Write, DispatchGet,
         ReadMissing, ReadResource, Route, DispatchDone, Send, Release

LEMMA EarlyStep ==
  ASSUME Types, MovedInv, EarlyInv, [Next]_vars
  PROVE  EarlyInv'
<1> USE DEF EarlyInv
<1>1. CASE UNCHANGED <<nodeVars, phase, live, hpc, event, initTodo, initNow>>
  BY <1>1, Zenon DEF nodeVars, FirstLife
<1>2. ASSUME NEW n \in Nodes, NEW o \in NodeObjects \cup {None}, ChangeNode(n, o)
      PROVE  EarlyInv'
  <2>1. /\ UNCHANGED <<phase, live, hpc, event, initTodo, initNow>> /\ moved \subseteq moved'
        /\ phase # "running" /\ n \notin moved' => o # None /\ ~Relabelled(nodeStore[n], o)
        /\ nodeStore'[n] = o /\ \A m \in Nodes : m # n => nodeStore'[m] = nodeStore[m]
    BY <1>2, Zenon DEF ChangeNode, Types, NodeTypes
  <2>2. \A i \in 1..Len(events') :
          \/ i \in 1..Len(events) /\ events'[i] = events[i]
          \/ events'[i][1] = n /\ events'[i][2] = nodeStore[n] /\ events'[i][3] = o
    BY <1>2, EventQueue, Zenon
  <2>3. \A m \in Nodes : \A x : phase # "running" /\ m \notin moved' /\ FirstLife(m, x) => FirstLife(m, x)'
    BY <2>1, Zenon DEF FirstLife, Relabelled
  <2> SUFFICES ASSUME phase # "running" PROVE EarlyInv'
    BY <2>1, Zenon
  <2>4. ASSUME NEW i \in 1..Len(events'), events'[i][1] \notin moved'
        PROVE  FirstLife(events[i][1], events[i][3])'
    <3>1. CASE i \in 1..Len(events) /\ events'[i] = events[i]
      <4>1. events[i][1] \in Nodes
        BY <3>1, EventFields DEF Types, NodeTypes
      <4>2. FirstLife(events[i][1], events[i][3])
        BY <2>1, <2>4, <3>1, Zenon
      <4> QED
        BY <2>3, <2>4, <3>1, <4>1, <4>2 DEF FirstLife
    <3>2. CASE events'[i][1] = n /\ events'[i][3] = o
      BY <2>1, <2>4, <3>2, Zenon DEF FirstLife
    <3> QED
      BY <2>2, <3>1, <3>2, Zenon
  <2>5. ASSUME hpc # "idle", event[1] \notin moved'
        PROVE  FirstLife(event[1], event[3])'
    <3>1. event[1] \in Nodes /\ FirstLife(event[1], event[3])
      BY <2>1, <2>5, EventFields, Zenon DEF Types, NodeTypes
    <3> QED
      BY <2>1, <2>3, <2>5, <3>1, Zenon DEF FirstLife
  <2>6. \A p \in initTodo : p[1] \notin moved' => FirstLife(p[1], p[2])'
    <3>1. \A p \in initTodo : p[1] \in Nodes
      BY DEF Types, NodeTypes
    <3> QED
      BY <2>1, <2>3, <3>1, Zenon
  <2>7. initNow # << >> /\ initNow[1] \notin moved' => FirstLife(initNow[1], initNow[2])'
    <3>1. initNow # << >> => initNow[1] \in Nodes
      BY DEF Types, NodeTypes
    <3> QED
      BY <2>1, <2>3, <3>1, Zenon DEF FirstLife
  <2> QED
    BY <2>1, <2>4, <2>5, <2>6, <2>7, Zenon
<1>3. CASE NextEvent
  <2>1. /\ Head(events) = events[1] /\ 1 \in 1..Len(events)
        /\ \A i \in 1..Len(events') : i + 1 \in 1..Len(events) /\ events'[i] = events[i + 1]
    BY <1>3, EventQueue, Zenon
  <2>2. event' = events[1] /\ UNCHANGED <<moved, nodeStore, phase, live, initTodo, initNow>>
    BY <1>3, <2>1, Zenon DEF NextEvent
  <2> QED
    BY <2>1, <2>2, Zenon DEF FirstLife
<1>4. CASE Leave \/ Join \/ Forget \/ Status \/ SyncStart \/ SyncSend \/ SyncEnd
           \/ \E r \in Resources : SyncPick(r)
  <2>1. /\ UNCHANGED <<moved, nodeStore, events, phase, live, initTodo, initNow>>
        /\ hpc' = "idle" \/ (hpc # "idle" /\ event' = event)
    BY <1>4, Zenon DEF Leave, Join, Forget, Status, SyncStart, SyncSend, SyncEnd, SyncPick
  <2> QED
    BY <2>1, Zenon DEF FirstLife
<1>5. CASE ListNodes
  <2>1. /\ UNCHANGED <<moved, nodeStore, events, live, hpc, event, initNow>> /\ phase = "waiting"
        /\ initTodo' = {p \in Nodes \X NodeObjects : nodeStore[p[1]] = p[2] /\ p[2].label # None}
    BY <1>5, Zenon DEF ListNodes
  <2>2. \A p \in Nodes \X NodeObjects : p[2] \in NodeObjects
    OBVIOUS
  <2>3. \A p \in initTodo' : FirstLife(p[1], p[2])'
    BY <2>1, <2>2, NoneIsNothing, Zenon DEF FirstLife
  <2> QED
    BY <2>1, <2>3, Zenon DEF FirstLife
<1>6. ASSUME NEW n \in Nodes, NEW o \in NodeObjects, CacheGroups(n, o)
      PROVE  EarlyInv'
  <2>1. /\ UNCHANGED <<moved, nodeStore, events, live, hpc, event, phase>> /\ phase = "caching"
        /\ <<n, o>> \in initTodo /\ initTodo' \subseteq initTodo /\ initNow' = <<n, o>>
    BY <1>6, Zenon DEF CacheGroups
  <2>2. n \notin moved => FirstLife(n, o)
    BY <2>1
  <2> QED
    BY <2>1, <2>2, Zenon DEF FirstLife
<1>7. CASE CacheStatus \/ StartWorkers
  <2>1. /\ UNCHANGED <<moved, nodeStore, events, live, hpc, event, initTodo>> /\ phase = "caching"
        /\ initNow' = << >>
    BY <1>7, Zenon DEF CacheStatus, StartWorkers
  <2> QED
    BY <2>1, Zenon DEF FirstLife
<1>8. ASSUME NEW r \in Resources, Drop(r) \/ \E s \in Specs : Write(r, s)
      PROVE  EarlyInv'
  BY <1>8, Zenon DEF Drop, Write
<1> QED
  BY <1>1, <1>2, <1>3, <1>4, <1>5, <1>6, <1>7, <1>8, ZenonT(30)
     DEF Next, vars, nodeVars, DispatchGet, ReadMissing, ReadResource, Route, DispatchDone, Send, Release

\* JoinedInv is kept by a step that leaves the events alone.
LEMMA JoinedIdle ==
  ASSUME Types, JoinedInv, UNCHANGED <<nodeStore, moved, events>>,
         \A m \in Nodes, p \in NodeObjects : Recorded(m, p) => Recorded(m, p)',
         \A m \in Nodes \ moved : EdgeNodes[m] = "none" => EdgeNodes'[m] = "none",
         \A m \in Nodes \ moved : Known(m, None) /\ HandledAll(m)' => HandledAll(m),
         hpc' = "join" /\ event'[1] \notin moved => hpc = "join" /\ event' = event,
         initNow' # << >> => initNow' = initNow
  PROVE  JoinedInv'
<1>1. ASSUME NEW n \in Nodes \ moved, Known(n, None)', HandledAll(n)'
      PROVE  \/ EdgeNodes'[n] = "none"
             \/ \E i \in Nat : /\ FirstEvent(n, i)'
                               /\ \E o \in NodeObjects : o = events'[i][3] /\ Recorded(n, o)'
  <2>1. Known(n, None) /\ HandledAll(n)
    BY <1>1, EventsSame, Zenon
  <2>2. \A i \in Nat : FirstEvent(n, i) => FirstEvent(n, i)'
    BY Zenon DEF FirstEvent
  <2> QED
    BY <2>1, <2>2, Zenon DEF JoinedInv
<1>2. hpc' = "join" /\ event'[1] \notin moved' =>
        \/ EdgeNodes'[event'[1]] = "none"
        \/ \E o \in NodeObjects : o = event'[3] /\ Recorded(event[1], o)'
  <2>1. hpc = "join" => event[1] \in Nodes
    BY EventFields, Zenon DEF Types, NodeTypes
  <2> QED
    BY <2>1, Zenon DEF JoinedInv, Recorded, Labels
<1>3. initNow' # << >> /\ initNow'[1] \notin moved' =>
        \E o \in NodeObjects : o = initNow'[2] /\ (o.ready # "none" => Recorded(initNow[1], o)')
  <2>1. initNow # << >> => initNow[1] \in Nodes
    BY DEF Types, NodeTypes
  <2> QED
    BY <2>1, Zenon DEF JoinedInv, Recorded, Labels
<1> QED
  BY <1>1, <1>2, <1>3, Zenon DEF JoinedInv

LEMMA JoinedStep ==
  ASSUME Types, EventInv, MovedInv, EarlyInv, JoinedInv, [Next]_vars
  PROVE  JoinedInv'
<1>1. CASE UNCHANGED <<nodeStore, moved, events, Group2node, EdgeNodes, hpc, event>>
           /\ (initNow' = initNow \/ initNow' = << >>)
  BY <1>1, JoinedIdle, Zenon DEF Recorded, Labels, HandledAll
<1>2. ASSUME NEW n \in Nodes, NEW o \in NodeObjects \cup {None}, ChangeNode(n, o)
      PROVE  JoinedInv'
  <2>1. /\ UNCHANGED <<Group2node, EdgeNodes, hpc, event, initNow>> /\ moved \subseteq moved'
        /\ \A m \in Nodes : m # n => nodeStore'[m] = nodeStore[m]
    BY <1>2, Zenon DEF ChangeNode, Types, NodeTypes
  <2>2. ASSUME NEW m \in Nodes \ moved', Known(m, None)', HandledAll(m)'
        PROVE  \/ EdgeNodes'[m] = "none"
               \/ \E i \in Nat : /\ FirstEvent(m, i)'
                                 /\ \E p \in NodeObjects : p = events'[i][3] /\ Recorded(m, p)'
    <3>1. HandledAll(m) /\ m \in Nodes \ moved
      BY <2>1, <2>2, Zenon DEF HandledAll
    <3>2. Known(m, None)
      <4>1. CASE NoEvent(m)' /\ None = nodeStore'[m]
        BY <1>2, <2>1, <4>1, EventAdded, Zenon DEF Known
      <4>2. ASSUME NEW i \in Nat, FirstEvent(m, i)', None = events'[i][2]
            PROVE  Known(m, None)
        <5> DEFINE e == <<n, nodeStore[n], o>>
        <5>1. e[2] = nodeStore[n]
          OBVIOUS
        <5>2. \/ FirstEvent(m, i) /\ events'[i] = events[i]
              \/ NoEvent(m) /\ m = n /\ events'[i] = e
          BY <1>2, <4>2, EventAdded
        <5> HIDE DEF e
        <5> QED
          BY <4>2, <5>1, <5>2, Zenon DEF Known
      <4> QED
        BY <2>2, <4>1, <4>2, Zenon DEF Known
    <3>3. \/ EdgeNodes[m] = "none"
          \/ \E i \in Nat : /\ FirstEvent(m, i)
                            /\ \E p \in NodeObjects : p = events[i][3] /\ Recorded(m, p)
      BY <3>1, <3>2, Zenon DEF JoinedInv
    <3>4. \A i \in Nat : FirstEvent(m, i) => FirstEvent(m, i)' /\ events'[i] = events[i]
      BY <1>2, <2>2, EventAdded, Zenon
    <3> QED
      BY <2>1, <3>3, <3>4, Zenon DEF Recorded, Labels
  <2>3. (hpc = "join" /\ event[1] \notin moved =>
          \/ EdgeNodes[event[1]] = "none"
          \/ \E p \in NodeObjects : p = event[3] /\ Recorded(event[1], p))'
    BY <2>1, Zenon DEF JoinedInv, Recorded, Labels
  <2>4. (initNow # << >> /\ initNow[1] \notin moved =>
          \E p \in NodeObjects : p = initNow[2] /\ (p.ready # "none" => Recorded(initNow[1], p)))'
    BY <2>1, Zenon DEF JoinedInv, Recorded, Labels
  <2> QED
    BY <2>2, <2>3, <2>4, Zenon DEF JoinedInv
<1>3. CASE NextEvent
  <2> DEFINE n == events[1][1]
  <2>1. /\ Head(events) = events[1] /\ 1 \in 1..Len(events) /\ events[1] \in Event
        /\ n \in Nodes
    BY <1>3, EventQueue, EventFields, Zenon
  <2>2. /\ event' = events[1] /\ UNCHANGED <<nodeStore, moved, Group2node, EdgeNodes, initNow>>
        /\ hpc = "idle" /\ hpc' # "idle"
        /\ hpc' = "join" => events[1][2] = None
    BY <1>3, <2>1, Zenon DEF NextEvent
  <2>3. ASSUME NEW m \in Nodes \ moved, Known(m, None)', HandledAll(m)'
        PROVE  \/ EdgeNodes'[m] = "none"
               \/ \E i \in Nat : /\ FirstEvent(m, i)'
                                 /\ \E p \in NodeObjects : p = events'[i][3] /\ Recorded(m, p)'
    <3>1. m # n /\ HandledAll(m)
      BY <2>2, <2>3, Zenon DEF HandledAll
    <3>2. Known(m, None)
      <4>1. CASE NoEvent(m)' /\ None = nodeStore'[m]
        BY <1>3, <2>2, <3>1, <4>1, EventTaken, Zenon DEF Known
      <4>2. ASSUME NEW i \in Nat, FirstEvent(m, i)', None = events'[i][2]
            PROVE  Known(m, None)
        <5>1. FirstEvent(m, i + 1) /\ events'[i] = events[i + 1] /\ i + 1 \in Nat
          BY <1>3, <3>1, <4>2, EventTaken
        <5> QED
          BY <4>2, <5>1, Zenon DEF Known
      <4> QED
        BY <2>3, <4>1, <4>2, Zenon DEF Known
    <3>3. \/ EdgeNodes[m] = "none"
          \/ \E i \in Nat : /\ FirstEvent(m, i)
                            /\ \E p \in NodeObjects : p = events[i][3] /\ Recorded(m, p)
      BY <3>1, <3>2, Zenon DEF JoinedInv
    <3>4. \A i \in Nat : FirstEvent(m, i) =>
            i - 1 \in Nat /\ FirstEvent(m, i - 1)' /\ events'[i - 1] = events[i]
      BY <1>3, <3>1, EventTaken, Zenon
    <3>5. CASE EdgeNodes[m] = "none"
      BY <2>2, <3>5, Zenon
    <3>6. ASSUME NEW i \in Nat, FirstEvent(m, i), NEW p \in NodeObjects, p = events[i][3], Recorded(m, p)
          PROVE  \E j \in Nat : /\ FirstEvent(m, j)'
                                /\ \E q \in NodeObjects : q = events'[j][3] /\ Recorded(m, q)'
      <4>1. i - 1 \in Nat /\ FirstEvent(m, i - 1)' /\ p = events'[i - 1][3] /\ Recorded(m, p)'
        BY <2>2, <3>4, <3>6, Zenon DEF Recorded, Labels
      <4> QED
        BY <4>1, Zenon
    <3> QED
      BY <3>3, <3>5, <3>6, Zenon
  <2>4. ASSUME hpc' = "join", n \notin moved
        PROVE  EdgeNodes[n] = "none" \/ \E p \in NodeObjects : p = events[1][3] /\ Recorded(n, p)
    <3>1. FirstEvent(n, 1) /\ \A i \in Nat : FirstEvent(n, i) => i = 1
      BY <2>1 DEF FirstEvent
    <3>2. Known(n, None) /\ HandledAll(n)
      BY <2>2, <2>4, <3>1, Zenon DEF Known, HandledAll
    <3> QED
      BY <2>1, <2>4, <3>1, <3>2, Zenon DEF JoinedInv
  <2>5. (hpc = "join" /\ event[1] \notin moved =>
          \/ EdgeNodes[event[1]] = "none"
          \/ \E p \in NodeObjects : p = event[3] /\ Recorded(event[1], p))'
    BY <2>2, <2>4, Zenon DEF Recorded, Labels
  <2>6. (initNow # << >> /\ initNow[1] \notin moved =>
          \E p \in NodeObjects : p = initNow[2] /\ (p.ready # "none" => Recorded(initNow[1], p)))'
    BY <2>2, Zenon DEF JoinedInv, Recorded, Labels
  <2> QED
    BY <2>2, <2>3, <2>5, <2>6, Zenon DEF JoinedInv
\* A node in its groups is taken out of them only as it is deleted, which the
\* handler learns after initCache is done.
<1>4. CASE Leave
  <2> DEFINE n == event[1]
  <2>1. /\ n \in Nodes /\ hpc = "leave" /\ DeleteNodeGroup(n, event[2])
        /\ UNCHANGED <<nodeStore, moved, events, event, EdgeNodes, initNow>>
        /\ hpc' = IF event[3] = None THEN "forget" ELSE "join"
    BY <1>4, EventFields, Zenon DEF Leave, Types, NodeTypes
  <2>2. n \notin moved => event[3] = None
    BY <2>1, NoneIsNothing, Zenon DEF MovedInv, Types, AtHand
  <2>3. \A m \in Nodes, p \in NodeObjects : m # n /\ Recorded(m, p) => Recorded(m, p)'
    <3>1. \A m \in Nodes, g \in Groups : m # n => (m \in Group2node'[g] <=> m \in Group2node[g])
      BY <2>1 DEF DeleteNodeGroup, Types, CacheTypes
    <3>2. \A o \in NodeObjects : Labels(o) \subseteq Groups
      BY NodeObjectsAssumption, Zenon DEF Labels, NodeObject
    <3> QED
      BY <3>1, <3>2, Zenon DEF Recorded, Labels
  <2>4. n \notin moved => initNow = << >>
    BY <2>1, <2>2, Zenon DEF EarlyInv, FirstLife
  <2>5. ASSUME NEW m \in Nodes \ moved, Known(m, None)', HandledAll(m)'
        PROVE  \/ EdgeNodes'[m] = "none"
               \/ \E i \in Nat : /\ FirstEvent(m, i)'
                                 /\ \E p \in NodeObjects : p = events'[i][3] /\ Recorded(m, p)'
    <3>1. Known(m, None) /\ HandledAll(m) /\ m # n
      BY <2>1, <2>5, EventsSame, Zenon DEF HandledAll
    <3>2. \A i \in Nat : FirstEvent(m, i) => FirstEvent(m, i)'
      BY <2>1, Zenon DEF FirstEvent
    <3> QED
      BY <2>1, <2>3, <3>1, <3>2, Zenon DEF JoinedInv
  <2>6. hpc' = "join" => event'[1] \in moved'
    BY <2>1, <2>2, Zenon
  <2>7. (initNow # << >> /\ initNow[1] \notin moved =>
          \E p \in NodeObjects : p = initNow[2] /\ (p.ready # "none" => Recorded(initNow[1], p)))'
    <3>1. initNow # << >> => initNow[1] \in Nodes
      BY DEF Types, NodeTypes
    <3> SUFFICES ASSUME initNow # << >>, initNow[1] \notin moved
                 PROVE  \E p \in NodeObjects :
                          p = initNow[2] /\ (p.ready # "none" => Recorded(initNow[1], p)')
      BY <2>1, Zenon DEF Recorded, Labels
    <3>2. initNow[1] # n
      BY <2>4, Zenon
    <3> QED
      BY <2>1, <2>3, <3>1, <3>2, Zenon DEF JoinedInv, Recorded, Labels
  <2> QED
    BY <2>1, <2>5, <2>6, <2>7, Zenon DEF JoinedInv
<1>5. CASE Join
  <2>1. /\ event[1] \in Nodes /\ event[3] \in NodeObjects /\ hpc = "join" /\ hpc' = "status"
        /\ UNCHANGED <<nodeStore, moved, events, event, EdgeNodes, initNow>>
        /\ UpdateNodeGroup(event[1], event[3])
    BY <1>5, EventFields, Zenon DEF Join, Types, NodeTypes, AtHand
  <2>2. \A m \in Nodes, p \in NodeObjects : Recorded(m, p) => Recorded(m, p)'
    BY <2>1, JoinGroups, Zenon
  <2> QED
    BY <2>1, <2>2, JoinedIdle, Zenon DEF HandledAll
<1>6. CASE Forget
  <2> DEFINE n == event[1]
  <2>1. /\ n \in Nodes /\ UNCHANGED <<nodeStore, moved, events, Group2node, initNow>> /\ hpc = "forget"
        /\ hpc' = "idle" /\ EdgeNodes'[n] = "none"
        /\ \A m \in Nodes : m # n => EdgeNodes'[m] = EdgeNodes[m]
    BY <1>6, EventFields, Zenon DEF Forget, Types, NodeTypes, CacheTypes
  <2>2. ASSUME NEW m \in Nodes \ moved, Known(m, None)'
        PROVE  \/ EdgeNodes'[m] = "none"
               \/ \E i \in Nat : /\ FirstEvent(m, i)'
                                 /\ \E p \in NodeObjects : p = events'[i][3] /\ Recorded(m, p)'
    <3>1. CASE m = n
      BY <2>1, <3>1, Zenon
    <3>2. CASE m # n
      <4>1. Known(m, None) /\ HandledAll(m)
        BY <2>1, <2>2, <3>2, EventsSame, Zenon DEF HandledAll
      <4>2. \A i \in Nat : FirstEvent(m, i) => FirstEvent(m, i)'
        BY <2>1, Zenon DEF FirstEvent
      <4> QED
        BY <2>1, <3>2, <4>1, <4>2, Zenon DEF JoinedInv, Recorded, Labels
    <3> QED
      BY <3>1, <3>2, Zenon
  <2>3. (initNow # << >> /\ initNow[1] \notin moved =>
          \E p \in NodeObjects : p = initNow[2] /\ (p.ready # "none" => Recorded(initNow[1], p)))'
    BY <2>1, Zenon DEF JoinedInv, Recorded, Labels
  <2> QED
    BY <2>1, <2>2, <2>3, Zenon DEF JoinedInv
\* The handler ends with a node that it knows to exist.
<1>7. CASE Status \/ SyncStart \/ SyncSend \/ SyncEnd \/ \E r \in Resources : SyncPick(r)
  <2> DEFINE n == event[1]
  <2>1. /\ n \in Nodes /\ UNCHANGED <<nodeStore, moved, events, Group2node, initNow>>
        /\ hpc \in {"status", "range", "sync", "send"} /\ hpc' # "join"
        /\ \A m \in Nodes : m # n => EdgeNodes'[m] = EdgeNodes[m]
        /\ hpc' = "idle" \/ event' = event
    BY <1>7, EventFields, Zenon
       DEF Status, UpdateEdgeNode, SyncStart, SyncSend, SyncEnd, SyncPick, Types, NodeTypes, CacheTypes
  <2>2. ~Known(n, None)
    <3>1. event[3] # None
      BY <2>1, NoneIsNothing, Zenon DEF MovedInv, Types, AtHand
    <3>2. OnlyKnown(n, event[3])
      BY <2>1, Zenon DEF EventInv, HandlerInv
    <3> QED
      BY <3>1, <3>2, Zenon DEF Known, OnlyKnown
  <2>3. ASSUME NEW m \in Nodes \ moved, Known(m, None)'
        PROVE  \/ EdgeNodes'[m] = "none"
               \/ \E i \in Nat : /\ FirstEvent(m, i)'
                                 /\ \E p \in NodeObjects : p = events'[i][3] /\ Recorded(m, p)'
    <3>1. Known(m, None) /\ m # n
      BY <2>1, <2>2, <2>3, EventsSame, Zenon
    <3>2. \A i \in Nat : FirstEvent(m, i) => FirstEvent(m, i)'
      BY <2>1, Zenon DEF FirstEvent
    <3> QED
      BY <2>1, <3>1, <3>2, Zenon DEF JoinedInv, HandledAll, Recorded, Labels
  <2>4. (initNow # << >> /\ initNow[1] \notin moved =>
          \E p \in NodeObjects : p = initNow[2] /\ (p.ready # "none" => Recorded(initNow[1], p)))'
    BY <2>1, Zenon DEF JoinedInv, Recorded, Labels
  <2> QED
    BY <2>1, <2>3, <2>4, Zenon DEF JoinedInv
<1>8. CASE CacheStatus
  <2> DEFINE n == initNow[1]
             p == initNow[2]
  <2>1. /\ n \in Nodes /\ p \in NodeObjects /\ phase = "caching" /\ initNow # << >>
    BY <1>8 DEF CacheStatus, Types, NodeTypes
  <2>2. /\ UNCHANGED <<nodeStore, moved, events, Group2node, hpc, event>> /\ initNow' = << >>
        /\ \A m \in Nodes : m # n \/ p.ready = "none" => EdgeNodes'[m] = EdgeNodes[m]
    BY <1>8, <2>1, Zenon DEF CacheStatus, UpdateEdgeNode, Types, CacheTypes
  \* What is still to come is the same node, with the same label.
  <2>3. ASSUME n \notin moved, p.ready # "none", NEW o \in NodeObjects, FirstLife(n, o)
        PROVE  Recorded(n, o)
    <3>1. Recorded(n, p) /\ FirstLife(n, p)
      BY <2>1, <2>3, Zenon DEF JoinedInv, EarlyInv
    <3> QED
      BY <2>3, <3>1, Zenon DEF Recorded, Labels, FirstLife
  <2>4. ASSUME NEW m \in Nodes \ moved, Known(m, None)', HandledAll(m)'
        PROVE  \/ EdgeNodes'[m] = "none"
               \/ \E i \in Nat : /\ FirstEvent(m, i)'
                                 /\ \E o \in NodeObjects : o = events'[i][3] /\ Recorded(m, o)'
    <3>1. Known(m, None) /\ HandledAll(m)
      BY <2>2, <2>4, EventsSame, Zenon DEF HandledAll
    <3>2. \A i \in Nat : FirstEvent(m, i) => FirstEvent(m, i)'
      BY <2>2, Zenon DEF FirstEvent
    <3>3. CASE m # n \/ p.ready = "none"
      BY <2>2, <3>1, <3>2, <3>3, Zenon DEF JoinedInv, Recorded, Labels
    <3>4. CASE m = n /\ p.ready # "none"
      <4>1. nodeStore[n] # None
        BY <2>1, <2>4, <3>4, Zenon DEF EarlyInv, FirstLife
      <4>2. PICK i \in Nat : FirstEvent(m, i)
        BY <3>1, <3>4, <4>1, Zenon DEF Known
      <4>3. FirstLife(n, events[i][3])
        BY <2>1, <2>4, <3>4, <4>2, Zenon DEF EarlyInv, FirstEvent
      <4>4. events[i] \in Event
        BY <4>2 DEF FirstEvent, Types, NodeTypes
      <4>5. events[i][3] \in NodeObjects
        BY <4>3, <4>4, EventFields, Zenon DEF FirstLife
      <4>6. Recorded(m, events[i][3])
        BY <2>3, <2>4, <3>4, <4>3, <4>5, Zenon
      <4> QED
        BY <2>2, <3>2, <4>2, <4>5, <4>6, Zenon DEF Recorded, Labels
    <3> QED
      BY <3>3, <3>4, Zenon
  <2>5. hpc = "join" /\ event[1] \notin moved =>
          EdgeNodes'[event[1]] = "none" \/ \E o \in NodeObjects : o = event[3] /\ Recorded(event[1], o)
    <3> SUFFICES ASSUME hpc = "join", event[1] \notin moved
                 PROVE  \/ EdgeNodes'[event[1]] = "none"
                        \/ \E o \in NodeObjects : o = event[3] /\ Recorded(event[1], o)
      BY Zenon
    <3>1. event[1] \in Nodes /\ event[3] \in NodeObjects
      BY EventFields, Zenon DEF Types, NodeTypes, AtHand
    <3>2. CASE event[1] # n \/ p.ready = "none"
      BY <2>2, <3>1, <3>2, Zenon DEF JoinedInv
    <3>3. CASE event[1] = n /\ p.ready # "none"
      <4>1. FirstLife(event[1], event[3])
        BY <2>1, Zenon DEF EarlyInv
      <4>2. Recorded(event[1], event[3])
        BY <2>3, <3>1, <3>3, <4>1, Zenon
      <4> QED
        BY <3>1, <4>2, Zenon
    <3> QED
      BY <3>2, <3>3, Zenon
  <2>6. (hpc = "join" /\ event[1] \notin moved =>
          \/ EdgeNodes[event[1]] = "none"
          \/ \E o \in NodeObjects : o = event[3] /\ Recorded(event[1], o))'
    BY <2>2, <2>5, Zenon DEF Recorded, Labels
  <2> QED
    BY <2>2, <2>4, <2>6, Zenon DEF JoinedInv
<1>9. ASSUME NEW n \in Nodes, NEW o \in NodeObjects, CacheGroups(n, o)
      PROVE  JoinedInv'
  <2>1. /\ UpdateNodeGroup(n, o) /\ initNow' = <<n, o>>
        /\ UNCHANGED <<nodeStore, moved, events, hpc, event, EdgeNodes>>
    BY <1>9, Zenon DEF CacheGroups
  <2>2. /\ o.ready # "none" => Recorded(n, o)'
        /\ \A m \in Nodes, p \in NodeObjects : Recorded(m, p) => Recorded(m, p)'
    BY <2>1, JoinGroups, Zenon
  <2>3. ASSUME NEW m \in Nodes \ moved, Known(m, None)', HandledAll(m)'
        PROVE  \/ EdgeNodes'[m] = "none"
               \/ \E i \in Nat : /\ FirstEvent(m, i)'
                                 /\ \E p \in NodeObjects : p = events'[i][3] /\ Recorded(m, p)'
    <3>1. Known(m, None) /\ HandledAll(m)
      BY <2>1, <2>3, EventsSame, Zenon DEF HandledAll
    <3>2. \A i \in Nat : FirstEvent(m, i) => FirstEvent(m, i)'
      BY <2>1, Zenon DEF FirstEvent
    <3> QED
      BY <2>1, <2>2, <3>1, <3>2, Zenon DEF JoinedInv
  <2>4. (hpc = "join" /\ event[1] \notin moved =>
          \/ EdgeNodes[event[1]] = "none"
          \/ \E p \in NodeObjects : p = event[3] /\ Recorded(event[1], p))'
    <3>1. hpc = "join" => event[1] \in Nodes
      BY EventFields, Zenon DEF Types, NodeTypes
    <3> QED
      BY <2>1, <2>2, <3>1, Zenon DEF JoinedInv, Recorded, Labels
  <2>5. \E p \in NodeObjects :
          p = (initNow[2])' /\ (p.ready # "none" => Recorded(initNow[1], p)')
    BY <2>1, <2>2, Zenon DEF Recorded, Labels
  <2> QED
    BY <2>1, <2>3, <2>4, <2>5, Zenon DEF JoinedInv
<1> QED
  BY <1>1, <1>2, <1>3, <1>4, <1>5, <1>6, <1>7, <1>8, <1>9, ZenonT(30)
     DEF Next, vars, nodeVars, ListNodes, StartWorkers, Drop, Write, DispatchGet, ReadMissing,
         ReadResource, Route, DispatchDone, Send, Release

LEMMA StoreStep ==
  ASSUME Types, StoreInv, [Next]_vars
  PROVE  StoreInv'
<1> USE DEF StoreInv
<1>1. CASE UNCHANGED <<live, resourceStore, dropped, syncSpec, syncRes>>
  BY <1>1, Zenon
<1>2. CASE SyncSend
  BY <1>2, Zenon DEF SyncSend
<1>3. ASSUME NEW r \in Resources, SyncPick(r)
      PROVE  StoreInv'
  <2>1. syncSpec = None
    BY <1>3, NoneIsNothing, Zenon DEF SyncPick, Types, NodeTypes, WorkTypes
  <2> QED
    BY <1>3, <2>1, Zenon DEF SyncPick
<1>4. ASSUME NEW r \in Resources, Drop(r) \/ \E s \in Specs : Write(r, s)
      PROVE  StoreInv'
  BY <1>4, Zenon DEF Drop, Write
<1>5. ASSUME NEW d \in DispatchWorkers, ReadResource(d)
      PROVE  StoreInv'
  BY <1>5, Zenon DEF ReadResource
<1> QED
  BY <1>1, <1>2, <1>3, <1>4, <1>5, ZenonT(30)
     DEF Next, vars, ChangeNode, NextEvent, Leave, Join, Forget, Status, SyncStart, SyncEnd,
         ListNodes, CacheStatus, StartWorkers, CacheGroups, DispatchGet, ReadMissing, Route,
         DispatchDone, Send, Release

LEMMA WorkerStep ==
  ASSUME Types, WorkerInv, [Next]_vars
  PROVE  WorkerInv'
<1> USE DEF WorkerInv
<1>1. CASE UNCHANGED <<live, Spec, rPending, rBusy, dpc, dmsg>>
  BY <1>1, Zenon
<1>2. ASSUME NEW r \in Resources, Drop(r) \/ \E s \in Specs : Write(r, s)
      PROVE  WorkerInv'
  <2>1. /\ UNCHANGED <<rBusy, dpc, dmsg>> /\ rPending' = rPending \cup {r}
        /\ live' \subseteq live \cup {r} /\ \A q \in Resources : q # r => Spec'[q] = Spec[q]
    BY <1>2, Zenon DEF Drop, Write, RQ!Add, Types, WorkTypes
  <2>2. live \subseteq Resources
    BY Zenon DEF Types, WorkTypes
  <2> QED
    BY <2>1, <2>2, Zenon
<1>3. ASSUME NEW d \in DispatchWorkers, NEW r \in Resources, DispatchGet(d, r)
      PROVE  WorkerInv'
  <2>1. /\ UNCHANGED <<live, Spec, dmsg>> /\ rPending' = rPending \ {r} /\ r \notin RQ!Held
        /\ dpc' = [dpc EXCEPT ![d] = "reading"] /\ rBusy' = [rBusy EXCEPT ![d] = r]
    BY <1>3, Zenon DEF DispatchGet, RQ!Take
  <2>2. \A e \in DispatchWorkers : rBusy[e] # r
    BY <2>1, NoneIsNothing, Zenon DEF RQ!Held
  <2>3. \A e \in DispatchWorkers : e # d => dpc'[e] = dpc[e] /\ rBusy'[e] = rBusy[e]
    BY <2>1, Zenon DEF Types, WorkTypes, RQ!KWTypeOK
  <2>4. dpc'[d] = "reading"
    BY <2>1, Zenon DEF Types, WorkTypes
  <2>5. \A e \in DispatchWorkers : rBusy[e] \in live' \ rPending' => rBusy[e] \in live \ rPending
    BY <2>1, <2>2, Zenon
  <2> QED
    BY <2>1, <2>3, <2>4, <2>5
<1>4. ASSUME NEW d \in DispatchWorkers, ReadMissing(d) \/ DispatchDone(d)
      PROVE  WorkerInv'
  <2>1. /\ UNCHANGED <<live, Spec, rPending>> /\ dpc'[d] = "idle"
        /\ \A e \in DispatchWorkers :
             e # d => dpc'[e] = dpc[e] /\ rBusy'[e] = rBusy[e] /\ dmsg'[e] = dmsg[e]
    BY <1>4, Zenon
       DEF ReadMissing, DispatchDone, RQ!RetryAndFinish, RQ!Finish, Types, WorkTypes, RQ!KWTypeOK
  <2> QED
    BY <2>1, Zenon
<1>5. ASSUME NEW d \in DispatchWorkers, ReadResource(d)
      PROVE  WorkerInv'
  <2>1. /\ UNCHANGED <<live, Spec, rPending, rBusy>>
        /\ dmsg'[d] = [opr |-> IF rBusy[d] \in live THEN "insert" ELSE "delete",
                       spec |-> Spec[rBusy[d]]]
        /\ \A e \in DispatchWorkers : e # d => dpc'[e] = dpc[e] /\ dmsg'[e] = dmsg[e]
    BY <1>5, Zenon DEF ReadResource, Types, WorkTypes
  <2> QED
    BY <2>1, Zenon
<1>6. ASSUME NEW d \in DispatchWorkers, Route(d) \/ \E n \in Nodes : Send(d, n)
      PROVE  WorkerInv'
  BY <1>6, Zenon DEF Route, Send, Types, WorkTypes
<1>7. CASE Release
  BY <1>7, Zenon DEF Release, RQ!Ripen
<1> QED
  BY <1>1, <1>2, <1>3, <1>4, <1>5, <1>6, <1>7, ZenonT(30)
     DEF Next, vars, ChangeNode, NextEvent, Leave, Join, Forget, Status, SyncStart, SyncSend, SyncPick,
         SyncEnd, ListNodes, CacheStatus, StartWorkers, CacheGroups

\* A step that makes no node a receiver and changes nothing that is sent.
LEMMA SentIdle ==
  ASSUME NEW n \in Nodes, NEW r \in Resources, Sent(n, r),
         Receives(n, r)' => Receives(n, r),
         UNCHANGED <<last, Spec, rPending, rLater, rBusy, dpc, dnodes>>,
         HandlerSends(n, r) => HandlerSends(n, r)'
  PROVE  Sent(n, r)'
BY Zenon DEF Sent, Current, WorkerSends

LEMMA SentStep ==
  ASSUME Types, EventInv, DispatchInv, [Next]_vars
  PROVE  SentInv'
<1> SUFFICES ASSUME NEW n \in Nodes \ moved', NEW r \in live' \ dropped'
             PROVE  Sent(n, r)'
  BY Zenon DEF SentInv
<1>m. n \in Nodes \ moved /\ r \notin dropped
  <2>1. moved \subseteq moved' /\ dropped \subseteq dropped'
    BY ZenonT(30) DEF Next, vars, nodeVars, storeVars, ChangeNode, NextEvent, Leave, Join, Forget,
         Status, SyncStart, SyncSend, SyncPick, SyncEnd, ListNodes, CacheStatus, StartWorkers,
         CacheGroups, Drop, Write, DispatchGet, ReadMissing, ReadResource, Route, DispatchDone,
         Send, Release
  <2> QED
    BY <2>1, Zenon
<1>r. r \in Resources
  BY TypesStep, Zenon DEF Types, WorkTypes
<1>s. r \in live => Sent(n, r)
  BY <1>m, Zenon DEF DispatchInv, SentInv
<1>1. CASE UNCHANGED <<handlerVars, cacheVars, storeVars, rqVars, workerVars, last>>
  BY <1>1, <1>r, <1>s, SentIdle, Zenon DEF Receives, HandlerSends
<1>2. CASE NextEvent \/ Leave \/ Forget
  <2>1. /\ UNCHANGED <<storeVars, rqVars, workerVars, last>>
        /\ hpc \in {"idle", "leave", "forget"}
    BY <1>2, Zenon DEF NextEvent, Leave, Forget
  <2>2. Receives(n, r)' => Receives(n, r)
    <3>1. \A g \in Groups : n \in Group2node'[g] => n \in Group2node[g]
      BY <1>2 DEF NextEvent, Leave, Forget, DeleteNodeGroup, Types, CacheTypes
    <3>2. EdgeNodes'[n] = "True" => EdgeNodes[n] = "True"
      BY <1>2, Zenon DEF NextEvent, Leave, Forget, Types, CacheTypes
    <3> QED
      BY <1>r, <3>1, <3>2, GroupOfAssumption, Zenon DEF Receives
  <2> QED
    BY <1>r, <1>s, <2>1, <2>2, SentIdle, Zenon DEF HandlerSends
<1>3. CASE Join
  <2>1. /\ event[1] \in Nodes /\ event[3] \in NodeObjects /\ hpc = "join"
        /\ UNCHANGED <<event, EdgeNodes, storeVars, rqVars, workerVars, last>>
        /\ UpdateNodeGroup(event[1], event[3])
    BY <1>3, EventFields, Zenon DEF Join, Types, NodeTypes, AtHand
  <2>2. Receives(n, r)' => Receives(n, r)
    <3> SUFFICES ASSUME Receives(n, r)' PROVE Receives(n, r)
      BY Zenon
    <3>1. EdgeNodes[n] = "True" /\ (n # event[1] \/ Recorded(n, event[3]))
      BY <1>m, <2>1, Zenon DEF Receives, DispatchInv, JoinedInv
    <3>2. \A g \in Groups : n \in Group2node'[g] => n \in Group2node[g]
      BY <2>1, <3>1, JoinGroups, Zenon
    <3> QED
      BY <1>r, <3>1, <3>2, GroupOfAssumption, Zenon DEF Receives
  <2> QED
    BY <1>r, <1>s, <2>1, <2>2, SentIdle, Zenon DEF HandlerSends
<1>4. CASE Status
  <2>1. /\ event[1] \in Nodes /\ event[3] \in NodeObjects /\ hpc = "status"
        /\ UNCHANGED <<Group2node, storeVars, rqVars, workerVars, last>>
        /\ UpdateEdgeNode(event[1], event[3])
    BY <1>4, EventFields, Zenon DEF Status, Types, NodeTypes, AtHand
  <2> DEFINE up == event[1] = n /\ event[3].ready = "True" /\ EdgeNodes[n] # "True"
                   /\ event[3].label # None
  <2>3. CASE up
    <3>1. hpc' = "range" /\ event' = event
      BY <1>4, <2>3, Zenon DEF Status
    <3> QED
      BY <2>3, <3>1, Zenon DEF Sent, HandlerSends
  <2>4. CASE ~up
    <3>1. EdgeNodes'[n] = "True" => EdgeNodes[n] = "True"
      BY <1>m, <2>1, <2>4, Zenon DEF UpdateEdgeNode, Types, CacheTypes
    <3>2. Receives(n, r)' => Receives(n, r)
      BY <2>1, <3>1, Zenon DEF Receives
    <3> QED
      BY <1>r, <1>s, <2>1, <3>2, SentIdle, Zenon DEF HandlerSends
  <2> QED
    BY <2>3, <2>4, Zenon
<1>5. CASE SyncStart \/ SyncEnd \/ \E q \in Resources : SyncPick(q)
  <2>1. /\ UNCHANGED <<event, cacheVars, storeVars, rqVars, workerVars, last>> \/ SyncEnd
        /\ UNCHANGED <<cacheVars, storeVars, rqVars, workerVars, last>>
    BY <1>5, Zenon DEF SyncStart, SyncEnd, SyncPick
  <2>2. Receives(n, r)' => Receives(n, r)
    BY <2>1, Zenon DEF Receives
  <2>3. r \in live /\ r \in resourceStore
    BY <2>1, Zenon DEF DispatchInv, StoreInv
  <2>4. HandlerSends(n, r) => HandlerSends(n, r)'
    <3>1. CASE SyncStart
      BY <2>3, <3>1, Zenon DEF SyncStart, HandlerSends
    <3>2. CASE SyncEnd
      BY <1>r, <3>2, NoneIsNothing, Zenon DEF SyncEnd, HandlerSends, Types, NodeTypes
    <3>3. CASE \E q \in Resources : SyncPick(q)
      BY <1>r, <2>3, <3>3, NoneIsNothing, Zenon DEF SyncPick, HandlerSends, Types, NodeTypes
    <3> QED
      BY <1>5, <3>1, <3>2, <3>3, Zenon
  <2> QED
    BY <1>r, <1>s, <2>1, <2>2, <2>3, <2>4, SentIdle, Zenon
<1>6. CASE SyncSend
  <2>1. /\ UNCHANGED <<event, syncTodo, cacheVars, storeVars, rqVars, workerVars>> /\ hpc = "send"
        /\ hpc' = "sync" /\ event[1] \in Nodes /\ syncRes \in Resources /\ r \in live
    BY <1>6, EventFields, Zenon DEF SyncSend, Types, NodeTypes
  <2>2. CASE event[1] = n /\ syncRes = r
    <3>1. syncSpec = None
      BY <1>m, <2>2, Zenon DEF DispatchInv, StoreInv
    <3>2. last'[n][r] = [opr |-> "insert", spec |-> Spec[r]]
      BY <1>6, <2>1, <2>2, <3>1, Zenon DEF SyncSend, Types, WorkTypes
    <3> QED
      BY <2>1, <3>2, Zenon DEF Sent, Current
  <2>3. CASE ~(event[1] = n /\ syncRes = r)
    <3>1. last'[n][r] = last[n][r]
      BY <1>6, <1>r, <2>1, <2>3, Zenon DEF SyncSend, Types, WorkTypes
    <3>2. HandlerSends(n, r) => HandlerSends(n, r)'
      BY <2>1, <2>3, Zenon DEF HandlerSends
    <3> QED
      BY <1>s, <2>1, <3>1, <3>2, Zenon DEF Sent, Receives, Current, WorkerSends
  <2> QED
    BY <2>2, <2>3, Zenon
<1>7. CASE CacheStatus \/ \E m \in Nodes, o \in NodeObjects : CacheGroups(m, o)
  <2>1. phase = "caching" /\ live' = live
    BY <1>7, Zenon DEF CacheStatus, CacheGroups
  <2> QED
    BY <2>1, Zenon DEF DispatchInv, EarlyInv
<1>8. ASSUME NEW q \in Resources, Drop(q) \/ \E s \in Specs : Write(q, s)
      PROVE  Sent(n, r)'
  <2>1. /\ UNCHANGED <<hpc, event, syncRes, cacheVars, workerVars, last, rBusy, rLater>>
        /\ rPending' = rPending \cup {q} /\ syncTodo \subseteq syncTodo'
        /\ live' \subseteq live \cup {q} /\ (r # q => Spec'[r] = Spec[r])
    BY <1>8, <1>r, Zenon DEF Drop, Write, RQ!Add, Types, WorkTypes
  <2>2. CASE r = q
    BY <2>1, <2>2, Zenon DEF Sent, WorkerSends
  <2>3. CASE r # q
    <3>1. r \in live
      BY <2>1, <2>3, Zenon
    <3> QED
      BY <1>s, <2>1, <2>3, <3>1, Zenon DEF Sent, Receives, Current, WorkerSends, HandlerSends
  <2> QED
    BY <2>2, <2>3, Zenon
<1>9. ASSUME NEW d \in DispatchWorkers, NEW q \in Resources, DispatchGet(d, q)
      PROVE  Sent(n, r)'
  <2>1. /\ UNCHANGED <<handlerVars, cacheVars, storeVars, dnodes, last, rLater>> /\ rBusy[d] = None
        /\ rPending' = rPending \ {q} /\ dpc'[d] = "reading" /\ rBusy'[d] = q
        /\ \A e \in DispatchWorkers : e # d => dpc'[e] = dpc[e] /\ rBusy'[e] = rBusy[e]
    BY <1>9, Zenon DEF DispatchGet, RQ!Take, Types, WorkTypes, RQ!KWTypeOK
  <2>2. WorkerSends(n, r) => WorkerSends(n, r)'
    BY <1>r, <2>1, NoneIsNothing, Zenon DEF WorkerSends
  <2>3. Sent(n, r)
    BY <1>s, <2>1, Zenon
  <2> QED
    BY <2>1, <2>2, <2>3, Zenon DEF Sent, Receives, Current, HandlerSends
<1>10. ASSUME NEW d \in DispatchWorkers, ReadMissing(d) \/ DispatchDone(d)
       PROVE  Sent(n, r)'
  <2>1. /\ UNCHANGED <<handlerVars, cacheVars, resourceStore, live, Spec, dnodes, last, rPending>>
        /\ rLater \subseteq rLater'
        /\ \A e \in DispatchWorkers : e # d => dpc'[e] = dpc[e] /\ rBusy'[e] = rBusy[e]
    BY <1>10, Zenon
       DEF ReadMissing, DispatchDone, RQ!RetryAndFinish, RQ!Finish, Types, WorkTypes, RQ!KWTypeOK
  <2>2. rBusy[d] # r \/ (dpc[d] = "send" /\ n \notin dnodes[d])
    BY <1>10, <2>1, Zenon DEF ReadMissing, DispatchDone, DispatchInv, StoreInv
  <2>3. WorkerSends(n, r) => WorkerSends(n, r)'
    BY <2>1, <2>2, Zenon DEF WorkerSends
  <2>4. Sent(n, r)
    BY <1>s, <2>1, Zenon
  <2> QED
    BY <2>1, <2>3, <2>4, Zenon DEF Sent, Receives, Current, HandlerSends
<1>11. ASSUME NEW d \in DispatchWorkers, ReadResource(d)
       PROVE  Sent(n, r)'
  <2>1. /\ UNCHANGED <<hpc, event, syncTodo, syncRes, cacheVars, live, Spec, dnodes, last, rqVars>>
        /\ dpc'[d] = "route" /\ \A e \in DispatchWorkers : e # d => dpc'[e] = dpc[e]
    BY <1>11, Zenon DEF ReadResource, Types, WorkTypes
  <2>2. WorkerSends(n, r) => WorkerSends(n, r)'
    BY <2>1, Zenon DEF WorkerSends
  <2>3. Sent(n, r)
    BY <1>s, <2>1, Zenon
  <2> QED
    BY <2>1, <2>2, <2>3, Zenon DEF Sent, Receives, Current, HandlerSends
<1>12. ASSUME NEW d \in DispatchWorkers, Route(d)
       PROVE  Sent(n, r)'
  <2>1. /\ UNCHANGED <<handlerVars, cacheVars, storeVars, rqVars, last>> /\ dpc[d] = "route" /\ dpc'[d] = "send"
        /\ dnodes'[d] = {m \in Nodes : Receives(m, rBusy[d])}
        /\ \A e \in DispatchWorkers : e # d => dpc'[e] = dpc[e] /\ dnodes'[e] = dnodes[e]
    BY <1>12, Zenon DEF Route, Receives, Types, WorkTypes
  <2>2. Receives(n, r) /\ WorkerSends(n, r) => WorkerSends(n, r)'
    BY <2>1, Zenon DEF WorkerSends
  <2>3. Sent(n, r)
    BY <1>s, <2>1, Zenon
  <2>4. Receives(n, r)' => Receives(n, r)
    BY <2>1, Zenon DEF Receives
  <2> QED
    BY <2>1, <2>2, <2>3, <2>4, Zenon DEF Sent, Current, HandlerSends
<1>13. ASSUME NEW d \in DispatchWorkers, NEW m \in Nodes, Send(d, m)
       PROVE  Sent(n, r)'
  <2>1. /\ UNCHANGED <<handlerVars, cacheVars, storeVars, rqVars, dpc>> /\ dpc[d] = "send" /\ rBusy[d] \in Resources
        /\ \A e \in DispatchWorkers, k \in Nodes : e # d \/ k # m => (k \in dnodes'[e] <=> k \in dnodes[e])
    BY <1>13, Zenon DEF Send, Types, WorkTypes, AtHand, RQ!KWTypeOK
  <2>2. last'[n][r] = IF n = m /\ r = rBusy[d] THEN dmsg[d] ELSE last[n][r]
    BY <1>13, <1>r, <2>1, Zenon DEF Send, Types, WorkTypes
  <2>3. Sent(n, r) /\ r \in live
    BY <1>s, <2>1, Zenon
  <2>4. CASE n = m /\ r = rBusy[d]
    <3>1. r \in rPending \/ dmsg[d] = [opr |-> "insert", spec |-> Spec[r]]
      BY <2>1, <2>3, <2>4, Zenon DEF DispatchInv, WorkerInv
    <3> QED
      BY <2>1, <2>2, <2>4, <3>1, Zenon DEF Sent, Current, WorkerSends
  <2>5. CASE ~(n = m /\ r = rBusy[d])
    <3>1. WorkerSends(n, r) => WorkerSends(n, r)'
      BY <2>1, <2>5, Zenon DEF WorkerSends
    <3> QED
      BY <2>1, <2>2, <2>3, <2>5, <3>1, Zenon DEF Sent, Receives, Current, HandlerSends
  <2> QED
    BY <2>4, <2>5, Zenon
<1>14. CASE Release
  <2>1. /\ UNCHANGED <<handlerVars, cacheVars, storeVars, rBusy, workerVars, last>>
        /\ rPending \cup rLater = (rPending \cup rLater)'
    BY <1>14, Zenon DEF Release, RQ!Ripen
  <2>2. Sent(n, r)
    BY <1>s, <2>1, Zenon
  <2> QED
    BY <2>1, <2>2, Zenon DEF Sent, Receives, Current, WorkerSends, HandlerSends
<1> QED
  BY <1>1, <1>2, <1>3, <1>4, <1>5, <1>6, <1>7, <1>8, <1>9, <1>10, <1>11, <1>12, <1>13, <1>14,
     ZenonT(30) DEF Next, vars, ChangeNode, ListNodes, StartWorkers

\* MembersUpToDate for any nodes, objects of nodes, groups, resources, specs
\* and dispatch workers: while nodes come, go and change their readiness
\* between any two steps of initCache, syncEnvoyResource and
\* syncAllResourcesToEdgeNodes, no ready member of a resource's groups is left
\* with old contents and nobody to send the current ones.  The exceptions are
\* those of the property: nodes that were relabelled, or deleted before
\* initCache was done, and resources that came back after they were dropped.
THEOREM ReadyMembersServed == NodeSpec => []MembersUpToDate
<1> DEFINE Inv == Types /\ EventInv /\ DispatchInv
<1>1. Init => Inv
  <2> SUFFICES ASSUME Init PROVE Inv
    BY Zenon
  <2>1. Types /\ EventInv
    BY TypesInit, EventInit, Zenon
  <2>2. MovedInv /\ EarlyInv
    BY DEF Init, MovedInv, EarlyInv
  <2>3. JoinedInv
    BY DEF Init, JoinedInv
  <2>4. StoreInv /\ SentInv
    BY DEF Init, StoreInv, SentInv
  <2>5. WorkerInv
    BY Zenon DEF Init, WorkerInv
  <2> QED
    BY <2>1, <2>2, <2>3, <2>4, <2>5, Zenon DEF DispatchInv
<1>2. Inv /\ [Next]_vars => Inv'
  <2> SUFFICES ASSUME Inv, [Next]_vars PROVE Inv'
    BY Zenon
  <2>1. Types' /\ EventInv'
    BY TypesStep, EventStep, Zenon
  <2>2. MovedInv' /\ EarlyInv' /\ JoinedInv' /\ StoreInv' /\ WorkerInv'
    BY MovedStep, EarlyStep, JoinedStep, StoreStep, WorkerStep, Zenon DEF DispatchInv
  <2>3. SentInv'
    BY SentStep, Zenon
  <2> QED
    BY <2>1, <2>2, <2>3, Zenon DEF DispatchInv
<1>3. Inv => MembersUpToDate
  <2> SUFFICES ASSUME Inv, NEW n \in Nodes \ moved, NEW r \in live \ dropped
               PROVE  \/ ~Receives(n, r)
                      \/ r \in rPending \cup rLater \cup RQ!Held
                      \/ hpc # "idle" /\ event[1] = n
                      \/ last[n][r] = [opr |-> "insert", spec |-> Spec[r]]
    BY Zenon DEF MembersUpToDate
  <2>1. Sent(n, r) /\ r # None
    BY NoneIsNothing, Zenon DEF DispatchInv, SentInv, Types, WorkTypes
  <2> QED
    BY <2>1, Zenon DEF Sent, Current, WorkerSends, HandlerSends, RQ!Held
<1> QED
  BY <1>1, <1>2, <1>3, PTL DEF NodeSpec
=============================================================================
