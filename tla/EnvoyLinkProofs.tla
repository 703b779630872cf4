---------------------------- MODULE EnvoyLinkProofs ----------------------------
(***************************************************************************)
(* However many sessions, queues, connections and resources there are, and *)
(* however often the node connects, is deleted, or either side crashes:    *)
(*   - one ListMessageWriteLoop at most serves the node (OneLoop);         *)
(*   - the control plane applies no older state of a resource after a      *)
(*     newer one, unless one was sent or delivered late (InOrder);         *)
(*   - what the controller has sent last arrives, or is one of the losses  *)
(*     the code accepts (InSync).                                          *)
(*                                                                         *)
(* SessionInv says which sessions there are, LinkOK how queue, connection  *)
(* and fifo hang together, CtlInv how old the copies of the controller may *)
(* be, OrderInv that what is under way is sorted from the control plane    *)
(* back to the controller, and CarryInv that the newest message of each    *)
(* resource is where the next step of its way takes it from.  LinkOK,      *)
(* OrderInv and CarryInv hold until a connection has raced.                *)
(***************************************************************************)
EXTENDS EnvoyLink, TLAPS

\* A session is a record with five fields.
SessOK ==
  sess = [s \in Sessions |-> [pc |-> sess[s].pc, loop |-> sess[s].loop, queue |-> sess[s].queue,
                              msg |-> sess[s].msg, via |-> sess[s].via]]

\* Why OnRegister finds no other session when the node is not registered: a
\* session that serves keeps nodeRegistered, and any other one is not Settled.
Solo ==
  /\ \A s, t \in Sessions : sess[s].pc # "none" /\ sess[t].pc # "none" => s = t
  /\ \A s \in Sessions : sess[s].pc = "serve" => registered
  /\ \A s \in Sessions : sess[s].loop # "none" => sess[s].pc = "serve"
  /\ \A s \in Sessions : sess[s].pc = "none" => sess[s] = NoSession

SessionInv == SessOK /\ (~raced => Solo)

\* Most steps leave the sessions and nodeRegistered alone.
LEMMA Idle ==
  ASSUME SessionInv, UNCHANGED <<sess, registered>>, raced => raced'
  PROVE  SessionInv'
BY Zenon DEF SessionInv, SessOK, Solo, NoSession

\* The other sessions stay as they are.
Others(s) == \A t \in Sessions : t # s => sess'[t] = sess[t]

\* What EXCEPT makes of the record of a session.
LEMMA WithPc ==
  ASSUME SessOK, NEW s \in Sessions, NEW pc
  PROVE  [sess EXCEPT ![s].pc = pc]
           = [sess EXCEPT ![s] = [pc |-> pc, loop |-> sess[s].loop, queue |-> sess[s].queue,
                                  msg |-> sess[s].msg, via |-> sess[s].via]]
<1>1. sess[s] = [pc |-> sess[s].pc, loop |-> sess[s].loop, queue |-> sess[s].queue,
                 msg |-> sess[s].msg, via |-> sess[s].via]
  BY Zenon DEF SessOK
<1>2. [sess[s] EXCEPT !.pc = pc]
        = [pc |-> pc, loop |-> sess[s].loop, queue |-> sess[s].queue,
           msg |-> sess[s].msg, via |-> sess[s].via]
  BY <1>1
<1> QED
  BY <1>2, Zenon

\* The only busy session moves on: a step of ServeConn, ListMessageWriteLoop
\* or UnregisterNode keeps SessionInv.
LEMMA MoveOn ==
  ASSUME SessionInv, NEW s \in Sessions, ~raced => sess[s].pc # "none", raced => raced',
         SessOK', Others(s),
         ~raced => (sess'[s].pc = "serve" => registered'),
         ~raced => (sess'[s].loop # "none" => sess'[s].pc = "serve"),
         sess'[s].pc = "none" => sess'[s] = NoSession
  PROVE  SessionInv'
<1>1. ASSUME ~raced'
      PROVE  Solo'
  <2>1. Solo /\ sess[s].pc # "none"
    BY <1>1, Zenon DEF SessionInv
  <2>2. \A t \in Sessions : t # s => sess'[t].pc = "none" /\ sess'[t] = NoSession
    BY <2>1, Zenon DEF Solo, Others
  <2>3. \A t \in Sessions : t # s => sess'[t].loop = "none"
    BY <2>2 DEF NoSession
  <2> QED
    BY <1>1, <2>1, <2>2, <2>3, Zenon DEF Solo
<1> QED
  BY <1>1, Zenon DEF SessionInv

\* So does one whose loops have ended.
LEMMA LoopsEnd ==
  ASSUME SessionInv, NEW s \in Sessions, ~raced => sess[s].pc # "none", raced => raced',
         NEW pc, pc # "serve",
         sess' = [sess EXCEPT ![s] = [pc |-> pc, loop |-> "none", queue |-> None,
                                      msg |-> None, via |-> None]]
  PROVE  SessionInv'
<1>1. /\ SessOK' /\ Others(s)
      /\ sess'[s] = [pc |-> pc, loop |-> "none", queue |-> None, msg |-> None, via |-> None]
  BY Zenon DEF SessionInv, SessOK, Others
<1>2. sess'[s].pc = pc /\ sess'[s].loop = "none" /\ (pc = "none" => sess'[s] = NoSession)
  BY <1>1 DEF NoSession
<1> QED
  BY <1>1, <1>2, MoveOn, Zenon

\* A loop that goes on with the next message keeps it too.
LEMMA LoopMoves ==
  ASSUME SessionInv, NEW s \in Sessions, sess[s].loop # "none", raced' = raced, UNCHANGED registered,
         NEW loop, NEW msg, NEW via,
         sess' = [sess EXCEPT ![s] = [pc |-> sess[s].pc, loop |-> loop, queue |-> sess[s].queue,
                                      msg |-> msg, via |-> via]]
  PROVE  SessionInv'
<1>1. /\ SessOK' /\ Others(s)
      /\ sess'[s] = [pc |-> sess[s].pc, loop |-> loop, queue |-> sess[s].queue,
                     msg |-> msg, via |-> via]
  BY Zenon DEF SessionInv, SessOK, Others
<1>2. CASE raced
  BY <1>1, <1>2, Zenon DEF SessionInv
<1>3. CASE ~raced
  <2>1. sess[s].pc = "serve" /\ registered
    BY <1>3, Zenon DEF SessionInv, Solo
  <2>2. sess'[s].pc = "serve" /\ registered'
    BY <1>1, <2>1
  <2> QED
    BY <1>1, <1>3, <2>1, <2>2, MoveOn, Zenon
<1> QED
  BY <1>2, <1>3, Zenon

\* cloudcore starts without a session.
LEMMA StartsEmpty ==
  ASSUME sess' = [s \in Sessions |-> NoSession]
  PROVE  SessionInv'
BY Zenon DEF SessionInv, SessOK, Solo, NoSession

\* OnRegister starts a session only when the node is not registered, and then
\* no session is busy unless the connection has raced with one.
LEMMA RegisterStep ==
  ASSUME SessionInv, HubRegister
  PROVE  SessionInv'
<1>0. raced => raced'
  BY Zenon DEF HubRegister
<1>1. PICK c \in Conns : EnsureKeepalive(c) \/ OnRegister(c)
  BY Zenon DEF HubRegister
<1>2. CASE UNCHANGED <<sess, registered>>
  BY <1>0, <1>2, Idle, Zenon
<1>3. CASE ~UNCHANGED <<sess, registered>>
  <2>1. /\ OnRegister(c) /\ ~registered /\ UNCHANGED registered
        /\ sess' = [sess EXCEPT ![FreeSession].pc = "register"]
    BY <1>1, <1>3, Zenon DEF EnsureKeepalive, OnRegister, tableVars
  <2>2. SessOK'
    <3>1. CASE FreeSession \in Sessions
      <4>1. SessOK
        BY Zenon DEF SessionInv
      <4>2. sess' = [sess EXCEPT ![FreeSession] =
                       [pc |-> "register", loop |-> sess[FreeSession].loop,
                        queue |-> sess[FreeSession].queue, msg |-> sess[FreeSession].msg,
                        via |-> sess[FreeSession].via]]
        BY <2>1, <3>1, <4>1, WithPc, Zenon
      <4> QED
        BY <3>1, <4>1, <4>2, Zenon DEF SessOK
    <3>2. CASE FreeSession \notin Sessions
      <4>1. sess' = sess
        BY <2>1, <3>2, Zenon DEF SessionInv, SessOK
      <4> QED
        BY <4>1, Zenon DEF SessionInv, SessOK
    <3> QED
      BY <3>1, <3>2, Zenon
  <2>3. ASSUME ~raced'
        PROVE  Solo'
    <3>1. SessOK /\ Solo
      BY <1>0, <2>3, Zenon DEF SessionInv
    <3>2. arriving' \subseteq arriving
      BY <2>1, Zenon DEF OnRegister
    <3>3. Settled
      BY <2>3, <3>2, Zenon DEF HubRegister
    <3>4. \A s \in Sessions : sess[s] = NoSession
      BY <2>1, <3>1, <3>3, Zenon DEF Settled, Solo
    <3>5. FreeSession \in Sessions
      BY <3>4, SessionsAssumption, Zenon DEF FreeSession
    <3>6. \A s \in Sessions : s # FreeSession => sess'[s] = NoSession
      BY <2>1, <3>1, <3>4, Zenon DEF SessOK
    <3>7. sess'[FreeSession] = [NoSession EXCEPT !.pc = "register"]
      BY <2>1, <3>1, <3>4, <3>5, Zenon DEF SessOK
    <3> QED
      BY <3>5, <3>6, <3>7 DEF Solo, NoSession
  <2> QED
    BY <2>2, <2>3, Zenon DEF SessionInv
<1> QED
  BY <1>2, <1>3, Zenon

\* ServeConn and ListMessageWriteLoop of a session.
LEMMA LoopStep ==
  ASSUME SessionInv, NEW s \in Sessions, HubServe(s) \/ HubGet(s) \/ HubWrite(s)
  PROVE  SessionInv'
<1>0. raced' = raced
  BY Zenon DEF HubServe, HubGet, HubWrite
<1>1. CASE HubServe(s)
  <2>1. CASE conn = None
    <3>1. /\ sess[s].pc = "register"
          /\ sess' = [sess EXCEPT ![s] = [pc |-> "none", loop |-> "none", queue |-> None,
                                          msg |-> None, via |-> None]]
      BY <1>1, <2>1, Zenon DEF HubServe, RegisterNode, NoSession
    <3> QED
      BY <1>0, <3>1, LoopsEnd, Zenon
  <2>2. CASE conn # None
    <3>1. /\ sess[s].pc = "register" /\ registered'
          /\ sess' = [sess EXCEPT ![s] = [pc |-> "serve", loop |-> "get", queue |-> pool',
                                          msg |-> None, via |-> None]]
      BY <1>1, <2>2, Zenon DEF HubServe, RegisterNode
    <3>2. /\ SessOK' /\ Others(s)
          /\ sess'[s] = [pc |-> "serve", loop |-> "get", queue |-> pool', msg |-> None, via |-> None]
      BY <3>1, Zenon DEF SessionInv, SessOK, Others
    <3>3. sess'[s].pc = "serve"
      BY <3>2
    <3> QED
      BY <1>0, <3>1, <3>2, <3>3, MoveOn, Zenon
  <2> QED
    BY <2>1, <2>2, Zenon
<1>2. CASE HubGet(s)
  <2> DEFINE m == Head(lists[sess[s].queue].items)
  <2>0. GetMessage(s) /\ UNCHANGED registered
    BY <1>2, Zenon DEF HubGet, GetMessage, tableVars
  <2>1. CASE UNCHANGED sess
    BY <1>0, <2>0, <2>1, Idle, Zenon
  <2>2. CASE m = Stop
    <3>1. /\ sess[s].loop = "get"
          /\ sess' = [sess EXCEPT ![s] = [pc |-> "close", loop |-> "none", queue |-> None,
                                          msg |-> None, via |-> None]]
      BY <2>0, <2>2, Zenon DEF GetMessage, NoSession
    <3>2. ~raced => sess[s].pc # "none"
      BY <3>1, Zenon DEF SessionInv, Solo
    <3> QED
      BY <1>0, <3>1, <3>2, LoopsEnd, Zenon
  <2>3. CASE m # Stop /\ ~UNCHANGED sess
    <3>1. /\ sess[s].loop = "get"
          /\ sess' = [sess EXCEPT ![s] = [pc |-> sess[s].pc, loop |-> "write",
                                          queue |-> sess[s].queue, msg |-> m, via |-> conn]]
      BY <2>0, <2>3, Zenon DEF GetMessage, Looping
    <3> QED
      BY <1>0, <2>0, <3>1, LoopMoves, Zenon
  <2> QED
    BY <2>1, <2>2, <2>3, Zenon
<1>3. CASE HubWrite(s)
  <2>1. /\ UNCHANGED registered /\ sess[s].loop = "write"
        /\ sess' = [sess EXCEPT ![s] = [pc |-> sess[s].pc, loop |-> "get",
                                        queue |-> sess[s].queue, msg |-> None, via |-> None]]
    BY <1>3, Zenon DEF HubWrite, WriteMessage, Looping, tableVars
  <2> QED
    BY <1>0, <2>1, LoopMoves, Zenon
<1> QED
  BY <1>1, <1>2, <1>3, Zenon

\* UnregisterNode after the deletion of the node, and a queue that was shut down.
LEMMA UnregisterStep ==
  ASSUME SessionInv, NEW s \in Sessions, HubUnregister(s)
  PROVE  SessionInv'
<1>0. raced => raced'
  BY Zenon DEF HubUnregister
<1>1. CASE Quit(s) \/ CloseQueues(s)
  <2>1. /\ sess[s].loop = "get" \/ sess[s].pc = "drop"
        /\ sess' = [sess EXCEPT ![s] = [pc |-> "none", loop |-> "none", queue |-> None,
                                        msg |-> None, via |-> None]]
    BY <1>1, Zenon DEF Quit, CloseQueues, NoSession
  <2>2. ~raced => sess[s].pc # "none"
    BY <2>1, Zenon DEF SessionInv, Solo
  <2> QED
    BY <1>0, <2>1, <2>2, LoopsEnd, Zenon
<1>2. ASSUME NEW from \in {"close", "unlock", "forget", "unregister", "silence"},
             NEW to \in {"unlock", "forget", "unregister", "silence", "drop"},
             Step(s, from, to)
      PROVE  SessionInv'
  <2>1. /\ sess[s].pc = from
        /\ sess' = [sess EXCEPT ![s] = [pc |-> to, loop |-> sess[s].loop, queue |-> sess[s].queue,
                                        msg |-> sess[s].msg, via |-> sess[s].via]]
    BY <1>2, WithPc, Zenon DEF Step, SessionInv
  <2>2. /\ SessOK' /\ Others(s)
        /\ sess'[s] = [pc |-> to, loop |-> sess[s].loop, queue |-> sess[s].queue,
                       msg |-> sess[s].msg, via |-> sess[s].via]
    BY <2>1, ZenonT(30) DEF SessionInv, SessOK, Others
  <2>3. ~raced => sess[s].loop = "none" /\ sess[s].pc # "none"
    BY <2>1, Zenon DEF SessionInv, Solo
  <2>4. sess'[s].pc = to /\ sess'[s].loop = sess[s].loop
    BY <2>2
  <2>5. to # "serve" /\ to # "none"
    BY Zenon
  <2> QED
    BY <1>0, <2>2, <2>3, <2>4, <2>5, MoveOn, Zenon
<1>3. CASE CloseConn(s) \/ DeleteLock(s) \/ DeleteConn(s) \/ DeleteRegistered(s) \/ CloseKeepalive(s)
  BY <1>2, <1>3, Zenon DEF CloseConn, DeleteLock, DeleteConn, DeleteRegistered, CloseKeepalive
<1> QED
  BY <1>1, <1>3, Zenon DEF HubUnregister, Unregister

LEMMA SessionStep ==
  SessionInv /\ [Next]_vars => SessionInv'
<1> SUFFICES ASSUME SessionInv, [Next]_vars
             PROVE  SessionInv'
  BY Zenon
<1>1. CASE UNCHANGED <<sess, registered, raced>>
  BY <1>1, Idle, Zenon
<1>2. CASE HubRegister
  BY <1>2, RegisterStep, Zenon
<1>3. CASE HubKeepalive
  <2>1. UNCHANGED <<sess, registered>> /\ (raced => raced')
    BY <1>3, Zenon DEF HubKeepalive, KeepaliveTimeout, CloseExpired, tableVars
  <2> QED
    BY <2>1, Idle, Zenon
<1>4. CASE \E s \in Sessions : Session(s)
  BY <1>4, LoopStep, UnregisterStep, Zenon DEF Session
<1>5. CASE CloudPanic \/ CloudCrash
  <2>1. sess' = [s \in Sessions |-> NoSession]
    BY <1>5, Zenon DEF CloudPanic, CloudCrash, PingPanics, NSRestart
  <2> QED
    BY <2>1, StartsEmpty, Zenon
<1>6. CASE Controller
  <2>1. CASE Worker
    <3>1. PICK r \in Resources : ReadResource(r) \/ Route(r) \/ Send(r)
      BY <2>1, Zenon DEF Worker
    <3>2. UNCHANGED <<sess, registered, raced>>
      BY <3>1, Zenon DEF ReadResource, Route, Send, DispatchResource, AddListMessageToQueue,
                         tableVars, nsVars
    <3> QED
      BY <1>1, <3>2, Zenon
  <2>2. CASE Handler
    <3>1. CASE SyncSend
      BY <1>1, <3>1, Zenon DEF SyncSend, DispatchResource, AddListMessageToQueue, tableVars
    <3>2. CASE SyncEnd \/ \E r \in Resources : SyncPick(r)
      BY <1>1, <3>2, Zenon DEF SyncEnd, SyncPick, nsVars
    <3> QED
      BY <2>2, <3>1, <3>2, Zenon DEF Handler
  <2> QED
    BY <1>6, <2>1, <2>2, Zenon DEF Controller
<1>7. CASE EdgeConnect \/ EdgePut \/ EdgeStep \/ EdgeUnInit
  BY <1>1, <1>7, Zenon DEF EdgeConnect, EdgePut, EdgeStep, EdgeUnInit, edgeOnly, nsOnly, tableVars
<1>8. CASE EdgeRoute \/ EdgePanic \/ EdgeCrash
  BY <1>1, <1>8, Zenon DEF EdgeRoute, EdgePanic, EdgeCrash, EdgeForgets, nsOnly, tableVars
<1>9. CASE Report \/ Rotate \/ Break
  BY <1>1, <1>9, Zenon DEF Report, EdgeForgets, Rotate, Break, edgeOnly, nsOnly, tableVars
<1>10. CASE NodeDelete
  BY <1>1, <1>10, Zenon DEF NodeDelete, AddListMessageToQueue, tableVars
<1>11. CASE (\E r \in Resources : Write(r)) \/ NodeReady \/ NodeNotReady
  BY <1>1, <1>11, Zenon DEF Write, NodeReady, NodeNotReady, nsVars
<1>12. CASE (\E i \in DOMAIN handed : EdgeApply(i)) \/ UNCHANGED vars
  BY <1>1, <1>12, Zenon DEF EdgeApply, vars, nsVars
<1> QED
  BY <1>2, <1>3, <1>4, <1>5, <1>6, <1>7, <1>8, <1>9, <1>10, <1>11, <1>12, Zenon
     DEF Next, Hub, Edge, Panic, Environment

\* OneLoop holds for any number of sessions, connections, queues, resources and
\* faults: what OnRegister, ServeConn and UnregisterNode keep to (SessionInv)
\* leaves one ListMessageWriteLoop at most, unless a connection has raced.
THEOREM OneLoopHolds == Spec => []OneLoop
<1>1. Init => SessionInv
  <2> SUFFICES ASSUME sess = [s \in Sessions |-> NoSession]
               PROVE  SessionInv
    BY Zenon DEF Init, NSInit
  <2> QED
    BY Zenon DEF SessionInv, SessOK, Solo, NoSession
<1>2. SessionInv => OneLoop
  BY Zenon DEF SessionInv, Solo, OneLoop
<1> QED
  BY <1>1, <1>2, SessionStep, PTL DEF Spec
-----------------------------------------------------------------------------
(* What is under way, and in which order.                                  *)

\* The message ListMessageWriteLoop has in hand.
WritingIn(ss) ==
  IF \E s \in Sessions : ss[s].loop = "write"
  THEN <<ss[CHOOSE s \in Sessions : ss[s].loop = "write"].msg>> ELSE << >>
Writing == WritingIn(sess)

\* The messages in the node's queue.
ListedIn(q, ls) == IF q = None THEN << >> ELSE ls[q].items
Listed == ListedIn(pool, lists)

\* UnregisterNode is at work; its session was told to stop by the queue, which
\* takes no message from then on.
Closing == {"close", "unlock", "forget", "unregister", "silence", "drop"}
Down == pool # None /\ lists[pool].down

Entry == Message \cup {Stop}
Lists == [Queues -> [items : Seq(Entry), down : BOOLEAN]]
Contents == [ver : Nat, live : BOOLEAN]
Stores == [Resources -> [ver : Nat, live : BOOLEAN, spec : Nat]]

LinkTypes ==
  /\ link \in [Conns -> {"open", "broken", "closed"}] /\ wire \in [Conns -> Seq(Message)]
  /\ conn \in Conns \cup {None} /\ expired \in Conns \cup {None} /\ client \in Conns \cup {None}
  /\ pool \in Queues \cup {None} /\ lists \in Lists /\ fifo \in Seq(Message)

CountTypes ==
  /\ store \in Stores /\ sent \in [Resources -> Nat] /\ changes \in Nat
  /\ copied \in [Resources -> Copy \cup {None}] /\ picked \in Pick \cup {None}
EdgeTypes == handed \in Seq(Message) /\ edge \in [Resources -> Contents]

\* The loop of the session serves the queue that DispatchMessage fills.
LoopsOK ==
  /\ \A s \in Sessions : sess[s].loop = "none" => sess[s].queue = None
  /\ \A s \in Sessions : sess[s].loop # "none" =>
       sess[s].loop \in {"get", "write"} /\ sess[s].queue = pool /\ pool # None
  /\ \A s \in Sessions : sess[s].loop = "write" => sess[s].msg \in Message /\ sess[s].via \in Conns
  /\ Down <=> \E s \in Sessions : sess[s].pc \in Closing

\* Only the connection of chClient is open, and messageFifo is empty once
\* routeToEdge has ended.
EdgeOK ==
  /\ epc \in {"connecting", "up", "closing", "waiting"}
  /\ Open \subseteq {client} /\ (epc = "connecting" <=> client = None)
  /\ (fifoOpen => reader) /\ (~reader => fifo = << >>) /\ (epc = "connecting" => ~reader)
  /\ epc = "waiting" => client \notin Open /\ OnWire = << >>

\* The order of two messages, as far as the resource r is concerned: what it
\* was before is not behind what it became.
Clear(n, r) == n = Stop \/ n.res # r
Before(r, m, n) == Clear(m, r) \/ Clear(n, r) \/ m.ver <= n.ver
Elements(q) == {q[i] : i \in 1..Len(q)}
Sorted(r, q) == \A i, j \in 1..Len(q) : i < j => Before(r, q[i], q[j])
Below(r, A, B) == \A m \in A, n \in B : Before(r, m, n)
Between(r, e, A, t) == \A m \in A : Clear(m, r) \/ (e <= m.ver /\ m.ver <= t)

\* From the version in the control plane's store (e) over the goroutines of
\* SendToGroup (G), messageFifo (F), the connection (W), the loop's hand (L) and
\* the queue (I) to the newest version sent (t).
Chain(r, e, G, F, W, L, I, t) ==
  /\ Sorted(r, G) /\ Sorted(r, F) /\ Sorted(r, W) /\ Sorted(r, I)
  /\ Below(r, Elements(G), Elements(F)) /\ Below(r, Elements(G), Elements(W))
  /\ Below(r, Elements(G), Elements(L)) /\ Below(r, Elements(G), Elements(I))
  /\ Below(r, Elements(F), Elements(W)) /\ Below(r, Elements(F), Elements(L))
  /\ Below(r, Elements(F), Elements(I)) /\ Below(r, Elements(W), Elements(L))
  /\ Below(r, Elements(W), Elements(I)) /\ Below(r, Elements(L), Elements(I))
  /\ Between(r, e, Elements(G), t) /\ Between(r, e, Elements(F), t)
  /\ Between(r, e, Elements(W), t) /\ Between(r, e, Elements(L), t)
  /\ Between(r, e, Elements(I), t)
  /\ e <= t
ChainOf(r) == Chain(r, edge[r].ver, handed, fifo, OnWire, Writing, Listed, sent[r])

\* A worker's copy is as the store has it, unless the resource is in the queue
\* again; what the loop of syncAllResourcesToEdgeNodes holds on to is older
\* once it has left the store.
CopyInv ==
  /\ \A r \in Resources :
       /\ sent[r] <= store[r].ver /\ 1 <= store[r].ver /\ store[r].ver <= changes + 1
       /\ store[r].spec <= store[r].ver /\ (~store[r].live => store[r].spec < store[r].ver)
       /\ copied[r] # None =>
            /\ copied[r].ver <= store[r].ver
            /\ r \notin queued => copied[r].ver = store[r].ver /\ copied[r].live = store[r].live
  /\ picked # None => picked.old < store[picked.res].ver
  /\ ~ranging => syncing = {} /\ picked = None

CtlInv == CountTypes /\ CopyInv
OrderInv == EdgeTypes /\ \A r \in Resources \ overtaken : ChainOf(r)

\* The last message about m.res in q is m; there is none about r in q.
LastIn(q, m) == \E i \in 1..Len(q) : q[i] = m /\ \A j \in 1..Len(q) : j > i => Clear(q[j], m.res)
NoneIn(q, r) == \A i \in 1..Len(q) : Clear(q[i], r)
Matches(c, m) == c.live = m.live /\ (m.live => c.ver = m.ver)

\* The newest message about m.res, wherever it is, is m; when none is under way
\* the control plane's store has what m says.
Carried(m, c, G, F, W, L, I) ==
  \/ LastIn(I, m)
  \/ /\ NoneIn(I, m.res)
     /\ \/ LastIn(L, m)
        \/ /\ NoneIn(L, m.res)
           /\ \/ LastIn(W, m)
              \/ /\ NoneIn(W, m.res)
                 /\ \/ LastIn(F, m)
                    \/ /\ NoneIn(F, m.res)
                       /\ LastIn(G, m) \/ (NoneIn(G, m.res) /\ Matches(c, m))

\* The resources that the controller has no reason to send again.
Claimed(r) ==
  /\ r \notin doubt \cup queued /\ copied[r] = None
  /\ store[r].live => ready /\ r \notin syncing /\ (picked = None \/ picked.res # r)
Current(r) == [res |-> r, ver |-> store[r].ver, live |-> store[r].live]

CarriedOn(r) ==
  /\ Carried(Current(r), edge[r], handed, fifo, OnWire, Writing, Listed)
  /\ Down => NoneIn(Listed, r)
CarryInv == \A r \in Resources : Claimed(r) => sent[r] = store[r].ver /\ CarriedOn(r)

LEMMA WritingIs ==
  ASSUME NEW ss, NEW s \in Sessions, ss[s].loop = "write",
         \A t \in Sessions : ss[t].loop = "write" => t = s
  PROVE  WritingIn(ss) = <<ss[s].msg>>
<1>1. (CHOOSE t \in Sessions : ss[t].loop = "write") = s
  BY Zenon
<1> QED
  BY <1>1, Zenon DEF WritingIn

LEMMA WritingNothing ==
  ASSUME NEW ss, \A t \in Sessions : ss[t].loop # "write"
  PROVE  WritingIn(ss) = << >>
BY Zenon DEF WritingIn

\* A new connection, queue or session is one that was not in use.
LEMMA FreeQueueIsFree ==
  ASSUME LoopsOK, pool = None
  PROVE  FreeQueue \in Queues /\ \A s \in Sessions : sess[s].loop = "none"
<1>1. \A s \in Sessions : sess[s].loop = "none" /\ sess[s].queue = None
  BY Zenon DEF LoopsOK
<1>2. \E q \in Queues : q # pool /\ \A s \in Sessions : sess[s].queue # q
  BY <1>1, QueuesAssumption, Zenon
<1> QED
  BY <1>1, <1>2, Zenon DEF FreeQueue

LEMMA FreeConnIsFree ==
  ASSUME \E c \in Conns : ~InUse(c)
  PROVE  FreeConn \in Conns
BY Zenon DEF FreeConn

\* What the invariants rest on while no connection has raced.
Sound == SessOK /\ Solo /\ LinkTypes /\ LoopsOK /\ EdgeOK

\* Every step of the controller or of cloudhub leaves the edge's part alone.
LEMMA EdgeIdle ==
  ASSUME EdgeOK, UNCHANGED <<ehVars, wire>>, Open' \subseteq Open
  PROVE  EdgeOK'
BY Zenon DEF EdgeOK, ehVars, OnWire

LEMMA SameLink ==
  ASSUME EdgeOK, UNCHANGED <<ehVars, wire, link>>
  PROVE  EdgeOK'
BY Zenon DEF EdgeOK, ehVars, OnWire, Open

\* GetNodeListQueue makes the queue when there is none.
LEMMA QueueMade ==
  ASSUME Sound
  PROVE  /\ NodeListQueue \in Queues /\ Ensured \in Lists
         /\ Ensured[NodeListQueue].items = Listed /\ (Ensured[NodeListQueue].down <=> Down)
         /\ pool # None => NodeListQueue = pool /\ Ensured = lists
<1>1. CASE pool = None
  <2>1. FreeQueue \in Queues
    BY <1>1, FreeQueueIsFree, Zenon DEF Sound
  <2>2. NoList \in [items : Seq(Entry), down : BOOLEAN]
    BY DEF NoList
  <2>3. NodeListQueue = FreeQueue /\ Ensured = [lists EXCEPT ![FreeQueue] = NoList]
    BY <1>1, Zenon DEF NodeListQueue, Ensured
  <2>4. Ensured \in Lists /\ Ensured[FreeQueue] = NoList
    BY <2>1, <2>2, <2>3, Zenon DEF Sound, LinkTypes, Lists
  <2> QED
    BY <1>1, <2>1, <2>3, <2>4 DEF NoList, Listed, ListedIn, Down
<1>2. CASE pool # None
  BY <1>2, Zenon DEF Sound, LinkTypes, NodeListQueue, Ensured, Listed, ListedIn, Down, Lists
<1> QED
  BY <1>1, <1>2, Zenon

\* DispatchMessage puts a message into the queue, unless it was shut down.
LEMMA QueueGrows ==
  ASSUME Sound, NEW m \in Entry, AddListMessageToQueue(m)
  PROVE  /\ pool' \in Queues /\ lists' \in Lists /\ (Down' <=> Down)
         /\ pool # None => pool' = pool
         /\ Down => lists' = Ensured /\ Listed' = Listed
         /\ ~Down => lists' # Ensured /\ Listed' = Append(Listed, m)
<1>1. pool' = NodeListQueue /\ pool' \in Queues /\ pool' # None
  BY QueueMade, QueuesAssumption, Zenon DEF AddListMessageToQueue
<1>2. Ensured \in Lists /\ Ensured[pool'].items = Listed /\ (Ensured[pool'].down <=> Down)
  BY <1>1, QueueMade, Zenon
<1>3. CASE Down
  <2>1. lists' = Ensured
    BY <1>2, <1>3, Zenon DEF AddListMessageToQueue
  <2> QED
    BY <1>1, <1>2, <1>3, <2>1, QueueMade, Zenon DEF Listed, ListedIn, Down
<1>4. CASE ~Down
  <2>1. lists' = [Ensured EXCEPT ![pool'].items = Append(@, m)]
    BY <1>2, <1>4, Zenon DEF AddListMessageToQueue
  <2>2. Listed \in Seq(Entry)
    BY <1>1, <1>2, Zenon DEF Lists
  <2>3. lists' \in Lists /\ lists'[pool'].items = Append(Listed, m)
        /\ lists'[pool'].down = Ensured[pool'].down
    <3>1. Append(Listed, m) \in Seq(Entry)
      BY <2>2
    <3>2. PICK q : q = pool' /\ q \in Queues
      BY <1>1, Zenon
    <3>3. PICK ls \in Lists : ls = Ensured
      BY <1>2, Zenon
    <3>4. [ls EXCEPT ![q].items = Append(@, m)]
            = [ls EXCEPT ![q] = [items |-> Append(Listed, m), down |-> ls[q].down]]
      <4>1. ls[q] = [items |-> Listed, down |-> ls[q].down]
        BY <1>2, <3>2, <3>3, Zenon DEF Lists
      <4>2. [ls[q] EXCEPT !.items = Append(@, m)] = [items |-> Append(Listed, m), down |-> ls[q].down]
        BY <4>1, SMTT(20)
      <4> QED
        BY <4>2, Zenon
    <3>5. [items |-> Append(Listed, m), down |-> ls[q].down] \in [items : Seq(Entry), down : BOOLEAN]
      BY <3>1, <3>2, Zenon DEF Lists
    <3>6. PICK rec \in [items : Seq(Entry), down : BOOLEAN] :
            rec = [items |-> Append(Listed, m), down |-> ls[q].down]
      BY <3>5, Zenon
    <3>7. rec.items = Append(Listed, m) /\ rec.down = ls[q].down
      BY <3>6
    <3>8. lists' = [ls EXCEPT ![q] = rec]
      BY <2>1, <3>2, <3>3, <3>4, <3>6, Zenon
    <3>9. lists' \in Lists /\ lists'[q] = rec
      BY <3>2, <3>8, Zenon DEF Lists
    <3> QED
      BY <3>2, <3>3, <3>7, <3>9, Zenon
  <2>4. Append(Listed, m) # Listed
    BY <2>2
  <2>5. lists' # Ensured
    BY <1>2, <2>3, <2>4, Zenon
  <2> QED
    BY <1>1, <1>2, <1>4, <2>3, <2>5, QueueMade, Zenon DEF Listed, ListedIn, Down
<1> QED
  BY <1>3, <1>4, Zenon

\* So a step of the controller keeps everything.
LEMMA ControllerKeeps ==
  ASSUME Sound, NEW m \in Entry, AddListMessageToQueue(m), UNCHANGED ehVars
  PROVE  LinkTypes' /\ LoopsOK' /\ EdgeOK' /\ UNCHANGED <<OnWire, Writing>>
<1>1. UNCHANGED <<link, wire, conn, expired, sess>>
  BY Zenon DEF AddListMessageToQueue
<1>2. LinkTypes'
  BY <1>1, QueueGrows, Zenon DEF Sound, LinkTypes, ehVars
<1>3. LoopsOK'
  BY <1>1, QueueGrows, QueuesAssumption, Zenon DEF Sound, LoopsOK
<1> QED
  BY <1>1, <1>2, <1>3, SameLink, Zenon DEF Sound, OnWire, Writing, ehVars

\* While a session is busy it is the only one.
LEMMA Alone ==
  ASSUME Solo, NEW s \in Sessions, sess[s].pc # "none"
  PROVE  /\ \A t \in Sessions : t # s => sess[t] = NoSession
         /\ sess[s].loop # "none" => sess[s].pc = "serve"
BY Zenon DEF Solo

LEMMA OneWriting ==
  ASSUME NEW ss, NEW s \in Sessions, \A t \in Sessions : t # s => ss[t] = NoSession
  PROVE  WritingIn(ss) = IF ss[s].loop = "write" THEN <<ss[s].msg>> ELSE << >>
<1>1. \A t \in Sessions : t # s => ss[t].loop = "none"
  BY DEF NoSession
<1>2. CASE ss[s].loop = "write"
  BY <1>1, <1>2, WritingIs, Zenon
<1>3. CASE ss[s].loop # "write"
  BY <1>1, <1>3, WritingNothing, Zenon
<1> QED
  BY <1>2, <1>3, Zenon

\* What the only busy session has to see to.
LEMMA OneLoopOK ==
  ASSUME NEW s \in Sessions, \A t \in Sessions : t # s => sess'[t] = NoSession,
         sess'[s].loop = "none" => sess'[s].queue = None,
         sess'[s].loop # "none" =>
           sess'[s].loop \in {"get", "write"} /\ sess'[s].queue = pool' /\ pool' # None,
         sess'[s].loop = "write" => sess'[s].msg \in Message /\ sess'[s].via \in Conns,
         Down' <=> sess'[s].pc \in Closing
  PROVE  LoopsOK'
<1>1. \A t \in Sessions : t # s => sess'[t].loop = "none" /\ sess'[t].queue = None
                                   /\ sess'[t].pc \notin Closing
  BY DEF NoSession, Closing
<1> QED
  BY <1>1, Zenon DEF LoopsOK

\* A session that is replaced by r, with the other ones out of use.
LEMMA OneMoves ==
  ASSUME Sound, NEW s \in Sessions, sess[s].pc # "none", NEW r, sess' = [sess EXCEPT ![s] = r]
  PROVE  /\ sess'[s] = r /\ (\A t \in Sessions : t # s => sess'[t] = NoSession)
         /\ Writing = (IF sess[s].loop = "write" THEN <<sess[s].msg>> ELSE << >>)
         /\ Writing' = (IF r.loop = "write" THEN <<r.msg>> ELSE << >>)
         /\ (Down <=> sess[s].pc \in Closing)
<1>1. \A t \in Sessions : t # s => sess[t] = NoSession
  BY Alone, Zenon DEF Sound
<1>2. sess'[s] = r /\ \A t \in Sessions : t # s => sess'[t] = NoSession
  BY <1>1, Zenon DEF Sound, SessOK
<1>3. Down <=> sess[s].pc \in Closing
  BY <1>1 DEF Sound, LoopsOK, NoSession, Closing
<1>4. Writing = IF sess[s].loop = "write" THEN <<sess[s].msg>> ELSE << >>
  BY <1>1, OneWriting, Zenon DEF Writing
<1>5. Writing' = IF r.loop = "write" THEN <<r.msg>> ELSE << >>
  <2>1. PICK ss : ss = sess'
    BY Zenon
  <2>2. WritingIn(ss) = IF ss[s].loop = "write" THEN <<ss[s].msg>> ELSE << >>
    BY <1>2, <2>1, OneWriting, Zenon
  <2> QED
    BY <1>2, <2>1, <2>2, Zenon DEF Writing
<1> QED
  BY <1>2, <1>3, <1>4, <1>5, Zenon

\* ServeConn
LEMMA ServeKeeps ==
  ASSUME Sound, NEW s \in Sessions, HubServe(s)
  PROVE  /\ LinkTypes' /\ LoopsOK' /\ EdgeOK'
         /\ UNCHANGED <<OnWire, Writing, Listed>> /\ (Down' <=> Down)
<1>1. /\ sess[s].pc = "register" /\ UNCHANGED <<link, wire, conn, expired, ehVars>>
      /\ sess[s].pc # "none" /\ sess[s].pc \notin Closing
  BY Zenon DEF HubServe, RegisterNode, hubOnly, Closing
<1>2. EdgeOK' /\ UNCHANGED OnWire
  BY <1>1, SameLink, Zenon DEF Sound, OnWire, ehVars
<1>3. sess[s].loop # "write"
  BY <1>1, Alone, Zenon DEF Sound
<1>4. CASE conn = None
  <2>1. sess' = [sess EXCEPT ![s] = NoSession] /\ UNCHANGED <<pool, lists>>
    BY <1>4, Zenon DEF HubServe, RegisterNode
  <2>2. /\ sess'[s] = NoSession /\ (\A t \in Sessions : t # s => sess'[t] = NoSession)
        /\ UNCHANGED Writing /\ ~Down
    <3>1. NoSession.loop # "write"
      BY Zenon DEF NoSession
    <3> QED
      BY <1>1, <1>3, <2>1, <3>1, OneMoves, Zenon
  <2>3. UNCHANGED Listed /\ (Down' <=> Down)
    BY <2>1, Zenon DEF Listed, Down
  <2>4. LoopsOK'
    BY <2>2, <2>3, OneLoopOK DEF NoSession, Closing
  <2>5. LinkTypes'
    BY <1>1, <2>1, Zenon DEF Sound, LinkTypes, ehVars
  <2> QED
    BY <1>2, <2>2, <2>3, <2>4, <2>5, Zenon
<1>5. CASE conn # None
  <2> DEFINE r == [pc |-> "serve", loop |-> "get", queue |-> pool', msg |-> None, via |-> None]
  <2>1. sess' = [sess EXCEPT ![s] = r] /\ pool' = NodeListQueue /\ lists' = Ensured
    BY <1>5, Zenon DEF HubServe, RegisterNode
  <2>2. /\ sess'[s] = r /\ (\A t \in Sessions : t # s => sess'[t] = NoSession)
        /\ UNCHANGED Writing /\ ~Down
    <3>1. r.loop # "write"
      BY Zenon
    <3> HIDE DEF r
    <3> QED
      BY <1>1, <1>3, <2>1, <3>1, OneMoves, Zenon
  <2>3. /\ pool' \in Queues /\ lists' \in Lists /\ pool' # None
        /\ lists'[pool'].items = Listed /\ (lists'[pool'].down <=> Down)
    BY <2>1, QueueMade, QueuesAssumption, Zenon
  <2>4. UNCHANGED Listed /\ (Down' <=> Down)
    BY <2>3, Zenon DEF Listed, ListedIn, Down
  <2>5. LoopsOK'
    BY <2>2, <2>3, <2>4, OneLoopOK DEF Closing
  <2>6. LinkTypes'
    BY <1>1, <2>3, Zenon DEF Sound, LinkTypes, ehVars
  <2> QED
    BY <1>2, <2>2, <2>4, <2>5, <2>6, Zenon
<1> QED
  BY <1>4, <1>5, Zenon

\* ListMessageWriteLoop takes a message: it goes from the queue into the loop's
\* hand, or it is dropped; the one that says that the node was deleted shuts
\* the queue down.
Drops == Listed' = Tail(Listed) /\ UNCHANGED <<OnWire, Writing>>
Takes == Listed' = Tail(Listed) /\ Writing' = <<Head(Listed)>> /\ Writing = << >> /\ UNCHANGED OnWire

LEMMA GetKeeps ==
  ASSUME Sound, NEW s \in Sessions, HubGet(s)
  PROVE  /\ LinkTypes' /\ LoopsOK' /\ EdgeOK'
         /\ Listed # << >> /\ lists[sess[s].queue].items = Listed /\ ~Down
         /\ \/ Drops /\ Head(Listed) = Stop /\ Down'
            \/ Drops /\ Head(Listed) # Stop /\ conn = None /\ ~Down'
            \/ Takes /\ Head(Listed) # Stop /\ ~Down'
<1>1. /\ GetMessage(s) /\ UNCHANGED <<link, wire, conn, expired, pool, ehVars>>
      /\ sess[s].loop = "get"
  BY Zenon DEF HubGet, GetMessage, hubOnly
<1>2. EdgeOK' /\ UNCHANGED OnWire
  BY <1>1, SameLink, Zenon DEF Sound, OnWire, ehVars
<1>3. /\ sess[s].pc = "serve" /\ sess[s].pc # "none" /\ sess[s].pc \notin Closing
      /\ sess[s].queue = pool /\ pool \in Queues /\ pool # None
  BY <1>1, Zenon DEF Sound, Solo, LoopsOK, LinkTypes, Closing
<1>4. Listed = lists[pool].items /\ Listed \in Seq(Entry) /\ Listed # << >>
  BY <1>1, <1>3, Zenon DEF GetMessage, Listed, ListedIn, Sound, LinkTypes, Lists
<1>5. Tail(Listed) \in Seq(Entry) /\ Head(Listed) \in Entry
  BY <1>4
<1>6. /\ \A t \in Sessions : t # s => sess[t] = NoSession
      /\ Writing = << >> /\ ~Down
  <2>1. \A t \in Sessions : t # s => sess[t] = NoSession
    BY <1>3, Alone, Zenon DEF Sound
  <2>2. Writing = << >>
    BY <1>1, <2>1, OneWriting, Zenon DEF Writing
  <2> QED
    BY <1>3, <2>1, <2>2 DEF Sound, LoopsOK, NoSession, Closing
<1>7. ASSUME NEW d \in BOOLEAN,
             lists' = [lists EXCEPT ![pool] = [items |-> Tail(Listed), down |-> d]]
      PROVE  LinkTypes' /\ Listed' = Tail(Listed) /\ (Down' <=> d)
  <2>1. [items |-> Tail(Listed), down |-> d] \in [items : Seq(Entry), down : BOOLEAN]
    BY <1>5, Zenon
  <2>2. lists' \in Lists /\ lists'[pool] = [items |-> Tail(Listed), down |-> d]
    BY <1>3, <1>7, <2>1, Zenon DEF Sound, LinkTypes, Lists
  <2>3. LinkTypes'
    BY <1>1, <2>2, Zenon DEF Sound, LinkTypes, ehVars
  <2> QED
    BY <1>1, <1>3, <2>2, <2>3 DEF Listed, ListedIn, Down
<1>8. CASE Head(Listed) = Stop
  <2>1. /\ lists' = [lists EXCEPT ![pool] = [items |-> Tail(Listed), down |-> TRUE]]
        /\ sess' = [sess EXCEPT ![s] = [NoSession EXCEPT !.pc = "close"]]
    BY <1>1, <1>3, <1>4, <1>8, Zenon DEF GetMessage
  <2>2. LinkTypes' /\ Listed' = Tail(Listed) /\ Down'
    BY <1>7, <2>1, Zenon
  <2> DEFINE r == [NoSession EXCEPT !.pc = "close"]
  <2>3. r.pc = "close" /\ r.loop = "none" /\ r.queue = None
    BY Zenon DEF NoSession
  <2> HIDE DEF r
  <2>4. /\ sess'[s] = r /\ (\A t \in Sessions : t # s => sess'[t] = NoSession)
        /\ Writing' = << >>
    BY <1>3, <2>1, <2>3, OneMoves, Zenon DEF r
  <2>5. LoopsOK'
    BY <2>2, <2>3, <2>4, OneLoopOK, Zenon DEF Closing
  <2> QED
    BY <1>2, <1>3, <1>4, <1>6, <1>8, <2>2, <2>4, <2>5, Zenon DEF Drops
<1>9. CASE Head(Listed) # Stop
  <2>1. lists' = [lists EXCEPT ![pool].items = Tail(@)]
    BY <1>1, <1>3, <1>4, <1>9, Zenon DEF GetMessage
  <2>2. lists' = [lists EXCEPT ![pool] = [items |-> Tail(Listed), down |-> lists[pool].down]]
    <3>1. lists[pool] = [items |-> Listed, down |-> lists[pool].down]
      BY <1>3, <1>4, Zenon DEF Sound, LinkTypes, Lists
    <3>2. PICK t : t = Tail(Listed)
      BY Zenon
    <3>3. [lists[pool] EXCEPT !.items = Tail(@)] = [lists[pool] EXCEPT !.items = t]
      BY <1>4, <3>2, Zenon
    <3>4. [lists[pool] EXCEPT !.items = t] = [items |-> t, down |-> lists[pool].down]
      BY <3>1
    <3> QED
      BY <2>1, <3>2, <3>3, <3>4, Zenon
  <2>3. LinkTypes' /\ Listed' = Tail(Listed) /\ ~Down'
    <3>1. lists[pool].down \in BOOLEAN /\ ~lists[pool].down
      BY <1>3, <1>6, Zenon DEF Sound, LinkTypes, Lists, Down
    <3> QED
      BY <1>7, <2>2, <3>1, Zenon
  <2>4. CASE conn = None
    <3>1. sess' = sess
      BY <1>1, <1>3, <1>4, <1>9, <2>4, Zenon DEF GetMessage
    <3>2. LoopsOK' /\ UNCHANGED Writing
      BY <1>1, <1>6, <2>3, <3>1, Zenon DEF Sound, LoopsOK, Writing
    <3> QED
      BY <1>2, <1>3, <1>4, <1>6, <1>9, <2>3, <2>4, <3>2, Zenon DEF Drops
  <2>5. CASE conn # None
    <3> DEFINE r == [pc |-> sess[s].pc, loop |-> "write", queue |-> sess[s].queue,
                     msg |-> Head(Listed), via |-> conn]
    <3>1. sess' = [sess EXCEPT ![s] = r]
      BY <1>1, <1>3, <1>4, <1>9, <2>5, Zenon DEF GetMessage, Looping
    <3>2. /\ r.pc = "serve" /\ r.loop = "write" /\ r.queue = pool'
          /\ r.msg = Head(Listed) /\ r.via = conn
      BY <1>1, <1>3, Zenon
    <3> HIDE DEF r
    <3>3. /\ sess'[s] = r /\ (\A t \in Sessions : t # s => sess'[t] = NoSession)
          /\ Writing' = <<Head(Listed)>>
      BY <1>3, <3>1, <3>2, OneMoves, Zenon
    <3>4. Head(Listed) \in Message /\ conn \in Conns
      BY <1>5, <1>9, <2>5, Zenon DEF Entry, Sound, LinkTypes
    <3>5. LoopsOK'
      BY <1>1, <1>3, <2>3, <3>2, <3>3, <3>4, OneLoopOK, Zenon DEF Closing
    <3> QED
      BY <1>2, <1>3, <1>4, <1>6, <1>9, <2>3, <3>3, <3>5, Zenon DEF Takes
  <2> QED
    BY <2>4, <2>5, Zenon
<1> QED
  BY <1>8, <1>9, Zenon

\* It writes the message: a connection that is open is the one of chClient.
LEMMA WriteKeeps ==
  ASSUME Sound, NEW s \in Sessions, HubWrite(s)
  PROVE  /\ LinkTypes' /\ LoopsOK' /\ EdgeOK' /\ (Down' <=> Down)
         /\ sess[s].msg \in Message /\ Writing = <<sess[s].msg>> /\ Writing' = << >>
         /\ UNCHANGED Listed
         /\ OnWire' = IF Writable(s) THEN Append(OnWire, sess[s].msg) ELSE OnWire
<1> DEFINE m == sess[s].msg
<1>1. /\ sess[s].loop = "write" /\ UNCHANGED <<link, conn, expired, pool, lists, ehVars>>
      /\ wire' = IF Writable(s) THEN [wire EXCEPT ![sess[s].via] = Append(@, m)] ELSE wire
  BY Zenon DEF HubWrite, WriteMessage, hubOnly
<1>2. /\ sess[s].pc = "serve" /\ sess[s].pc # "none" /\ sess[s].pc \notin Closing
      /\ sess[s].queue = pool /\ pool # None
      /\ sess[s].msg \in Message /\ sess[s].via \in Conns
  BY <1>1, Zenon DEF Sound, Solo, LoopsOK, Closing
<1>3. UNCHANGED Listed /\ (Down' <=> Down)
  BY <1>1, Zenon DEF Listed, Down
<1>4. LoopsOK' /\ Writing = <<m>> /\ Writing' = << >>
  <2> DEFINE r == [pc |-> sess[s].pc, loop |-> "get", queue |-> sess[s].queue,
                   msg |-> None, via |-> None]
  <2>1. sess' = [sess EXCEPT ![s] = r]
    BY Zenon DEF HubWrite, WriteMessage, Looping
  <2>2. r.pc = "serve" /\ r.loop = "get" /\ r.queue = pool'
    BY <1>1, <1>2, Zenon
  <2> HIDE DEF r
  <2>3. /\ sess'[s] = r /\ (\A t \in Sessions : t # s => sess'[t] = NoSession)
        /\ Writing = <<m>> /\ Writing' = << >> /\ ~Down
    BY <1>1, <1>2, <2>1, <2>2, OneMoves, Zenon
  <2> QED
    BY <1>1, <1>2, <1>3, <2>2, <2>3, OneLoopOK, Zenon DEF Closing
<1>5. CASE Writable(s)
  <2>1. sess[s].via = client /\ client \in Open /\ client \in Conns
    BY <1>2, <1>5, ConnsAssumption, Zenon DEF Writable, Sound, EdgeOK, Open
  <2>2. wire' = [wire EXCEPT ![client] = Append(@, m)]
    BY <1>1, <1>5, <2>1, Zenon
  <2>3. wire[client] \in Seq(Message) /\ client # None
    BY <2>1, ConnsAssumption, Zenon DEF Sound, LinkTypes
  <2>4. wire' \in [Conns -> Seq(Message)] /\ wire'[client] = Append(wire[client], m)
    BY <1>2, <2>1, <2>2, <2>3 DEF Sound, LinkTypes
  <2>5. LinkTypes'
    BY <1>1, <2>4, Zenon DEF Sound, LinkTypes, ehVars
  <2>6. OnWire' = Append(OnWire, m)
    BY <1>1, <2>3, <2>4, Zenon DEF OnWire, ehVars
  <2>7. EdgeOK'
    BY <1>1, <2>1, Zenon DEF Sound, EdgeOK, ehVars, Open
  <2> QED
    BY <1>2, <1>3, <1>4, <1>5, <2>5, <2>6, <2>7, Zenon
<1>6. CASE ~Writable(s)
  <2>1. wire' = wire
    BY <1>1, <1>6, Zenon
  <2>2. EdgeOK' /\ UNCHANGED OnWire
    BY <1>1, <2>1, SameLink, Zenon DEF Sound, OnWire, ehVars
  <2>3. LinkTypes'
    BY <1>1, <2>1, Zenon DEF Sound, LinkTypes, ehVars
  <2> QED
    BY <1>2, <1>3, <1>4, <1>6, <2>2, <2>3, Zenon
<1> QED
  BY <1>5, <1>6, Zenon

\* Closing a connection opens none.
LEMMA Shut ==
  ASSUME LinkTypes, NEW c, link' = [link EXCEPT ![c] = "closed"]
  PROVE  link' \in [Conns -> {"open", "broken", "closed"}] /\ Open' \subseteq Open
BY Zenon DEF LinkTypes, Open

\* UnregisterNode: the queue it deletes was shut down.
LEMMA UnregisterKeeps ==
  ASSUME Sound, NEW s \in Sessions, HubUnregister(s)
  PROVE  /\ LinkTypes' /\ LoopsOK' /\ EdgeOK' /\ UNCHANGED <<OnWire, Writing>>
         /\ \/ UNCHANGED Listed /\ (Down' <=> Down)
            \/ Listed' = << >> /\ Down /\ ~Down'
<1>1. UNCHANGED <<wire, expired, lists, ehVars, OnWire>>
  BY Zenon DEF HubUnregister, Quit, Unregister, CloseConn, DeleteLock, DeleteConn, DeleteRegistered,
         CloseKeepalive, CloseQueues, hubOnly, OnWire, ehVars
<1>2. ~Quit(s)
  <2> SUFFICES ASSUME Quit(s)
               PROVE  FALSE
    BY Zenon
  <2>1. sess[s].loop = "get" /\ lists[sess[s].queue].down
    BY DEF Quit
  <2>2. sess[s].pc = "serve" /\ sess[s].queue = pool /\ pool # None
    BY <2>1, Zenon DEF Sound, Solo, LoopsOK
  <2>3. PICK t \in Sessions : sess[t].pc \in Closing
    BY <2>1, <2>2, Zenon DEF Sound, LoopsOK, Down
  <2> QED
    BY <2>2, <2>3, Zenon DEF Sound, Solo, Closing
<1>3. link' \in [Conns -> {"open", "broken", "closed"}] /\ Open' \subseteq Open
  <2>1. CASE UNCHANGED link
    BY <2>1, Zenon DEF Sound, LinkTypes, Open
  <2>2. CASE link' = [link EXCEPT ![conn] = "closed"]
    BY <2>2, Shut, Zenon DEF Sound
  <2> QED
    BY <1>2, <2>1, <2>2, Zenon DEF HubUnregister, Unregister, CloseConn, DeleteLock, DeleteConn,
         DeleteRegistered, CloseKeepalive, CloseQueues
<1>4. EdgeOK'
  BY <1>1, <1>3, EdgeIdle, Zenon DEF Sound
<1>5. conn' \in Conns \cup {None}
  BY <1>2, Zenon DEF HubUnregister, Unregister, CloseConn, DeleteLock, DeleteConn, DeleteRegistered,
         CloseKeepalive, CloseQueues, Sound, LinkTypes
<1>6. ASSUME sess[s].pc \in Closing
      PROVE  sess[s].pc # "none" /\ sess[s].loop = "none" /\ sess[s].queue = None /\ Down
  BY <1>6, Zenon DEF Sound, Solo, LoopsOK, Closing
<1>7. ASSUME NEW from \in Closing, NEW to \in Closing, Step(s, from, to), UNCHANGED pool
      PROVE  LinkTypes' /\ LoopsOK' /\ UNCHANGED <<Writing, Listed>> /\ (Down' <=> Down)
  <2> DEFINE r == [pc |-> to, loop |-> sess[s].loop, queue |-> sess[s].queue,
                   msg |-> sess[s].msg, via |-> sess[s].via]
  <2>1. sess[s].pc \in Closing /\ sess' = [sess EXCEPT ![s] = r]
    BY <1>7, WithPc, Zenon DEF Step, Sound
  <2>2. r.pc = to /\ r.loop = "none" /\ r.queue = None
    BY <1>6, <2>1, Zenon
  <2> HIDE DEF r
  <2>3. /\ sess'[s] = r /\ (\A t \in Sessions : t # s => sess'[t] = NoSession)
        /\ Writing = << >> /\ Writing' = << >>
    BY <1>6, <2>1, <2>2, OneMoves, Zenon
  <2>4. UNCHANGED Listed /\ (Down' <=> Down) /\ Down
    BY <1>1, <1>6, <1>7, <2>1, Zenon DEF Listed, Down
  <2>5. LoopsOK'
    BY <1>7, <2>2, <2>3, <2>4, OneLoopOK, Zenon
  <2> QED
    BY <1>1, <1>3, <1>5, <1>7, <2>3, <2>4, <2>5, Zenon DEF Sound, LinkTypes, ehVars
<1>8. CASE CloseQueues(s)
  <2>1. sess[s].pc \in Closing /\ sess' = [sess EXCEPT ![s] = NoSession] /\ pool' = None
    BY <1>8, Zenon DEF CloseQueues, Closing
  <2>2. NoSession.pc = "none" /\ NoSession.loop = "none" /\ NoSession.queue = None
    BY Zenon DEF NoSession
  <2>3. /\ sess'[s] = NoSession /\ (\A t \in Sessions : t # s => sess'[t] = NoSession)
        /\ Writing = << >> /\ Writing' = << >>
    BY <1>6, <2>1, <2>2, OneMoves, Zenon
  <2>4. Listed' = << >> /\ Down /\ ~Down'
    BY <1>6, <2>1, Zenon DEF Listed, ListedIn, Down
  <2>5. LoopsOK'
    BY <2>2, <2>3, <2>4, OneLoopOK, Zenon DEF Closing
  <2> QED
    BY <1>1, <1>3, <1>4, <1>5, <2>1, <2>3, <2>4, <2>5, Zenon DEF Sound, LinkTypes, ehVars
<1>9. CASE CloseConn(s) \/ DeleteLock(s) \/ DeleteConn(s) \/ DeleteRegistered(s) \/ CloseKeepalive(s)
  <2>1. LinkTypes' /\ LoopsOK' /\ UNCHANGED <<Writing, Listed>> /\ (Down' <=> Down)
    BY <1>7, <1>9, Zenon DEF CloseConn, DeleteLock, DeleteConn, DeleteRegistered, CloseKeepalive, Closing
  <2> QED
    BY <1>1, <1>4, <2>1, Zenon
<1> QED
  BY <1>2, <1>8, <1>9, Zenon DEF HubUnregister, Unregister

\* OnRegister
LEMMA RegisterKeeps ==
  ASSUME Sound, HubRegister, ~raced'
  PROVE  /\ LinkTypes' /\ LoopsOK' /\ EdgeOK'
         /\ UNCHANGED <<OnWire, Writing, Listed>> /\ (Down' <=> Down)
<1>1. PICK c \in Conns : EnsureKeepalive(c) \/ OnRegister(c)
  BY Zenon DEF HubRegister
<1>2. UNCHANGED <<wire, expired, pool, lists, ehVars>> /\ conn' \in Conns \cup {None}
  BY <1>1, Zenon DEF HubRegister, hubOnly, EnsureKeepalive, OnRegister, Sound, LinkTypes
<1>3. UNCHANGED <<OnWire, Listed>> /\ (Down' <=> Down)
  BY <1>2, Zenon DEF OnWire, Listed, Down, ehVars
<1>4. link' \in [Conns -> {"open", "broken", "closed"}] /\ Open' \subseteq Open
  <2>1. CASE UNCHANGED link
    BY <2>1, Zenon DEF Sound, LinkTypes, Open
  <2>2. CASE link' = [link EXCEPT ![conn] = "closed"]
    BY <2>2, Shut, Zenon DEF Sound
  <2> QED
    BY <1>1, <2>1, <2>2, Zenon DEF EnsureKeepalive, OnRegister
<1>5. LinkTypes' /\ EdgeOK'
  BY <1>2, <1>4, EdgeIdle, Zenon DEF Sound, LinkTypes, ehVars
<1>6. CASE UNCHANGED sess
  BY <1>2, <1>3, <1>5, <1>6, Zenon DEF Sound, LoopsOK, Writing
<1>7. CASE ~UNCHANGED sess
  <2>1. /\ ~registered /\ arriving' \subseteq arriving
        /\ sess' = [sess EXCEPT ![FreeSession].pc = "register"]
    BY <1>1, <1>7, Zenon DEF EnsureKeepalive, OnRegister
  <2>2. Settled
    BY <2>1, Zenon DEF HubRegister
  <2>3. \A s \in Sessions : sess[s] = NoSession
    BY <2>1, <2>2, Zenon DEF Sound, Solo, Settled
  <2>4. FreeSession \in Sessions
    BY <2>3, SessionsAssumption, Zenon DEF FreeSession
  <2>5. /\ sess'[FreeSession] = [NoSession EXCEPT !.pc = "register"]
        /\ \A s \in Sessions : s # FreeSession => sess'[s] = NoSession
    BY <2>1, <2>3, <2>4, Zenon DEF Sound, SessOK
  <2>6. \A s \in Sessions : sess'[s].loop = "none" /\ sess'[s].queue = None /\ sess'[s].pc \notin Closing
    BY <2>5 DEF NoSession, Closing
  <2>7. \A s \in Sessions : sess[s].loop = "none" /\ sess[s].pc \notin Closing
    BY <2>3 DEF NoSession, Closing
  <2>8. LoopsOK'
    BY <1>3, <2>6, <2>7, Zenon DEF Sound, LoopsOK
  <2>9. Writing = << >>
    BY <2>7, WritingNothing, Zenon DEF Writing
  <2>10. Writing' = << >>
    <3>1. PICK ss : ss = sess'
      BY Zenon
    <3> QED
      BY <2>6, <3>1, WritingNothing, Zenon DEF Writing
  <2> QED
    BY <1>3, <1>5, <2>8, <2>9, <2>10, Zenon
<1> QED
  BY <1>6, <1>7, Zenon

\* KeepaliveCheckLoop
LEMMA KeepaliveKeeps ==
  ASSUME Sound, HubKeepalive
  PROVE  /\ LinkTypes' /\ LoopsOK' /\ EdgeOK'
         /\ UNCHANGED <<OnWire, Writing, Listed>> /\ (Down' <=> Down)
<1>1. /\ UNCHANGED <<wire, pool, lists, sess, ehVars>>
      /\ conn' \in Conns \cup {None} /\ expired' \in Conns \cup {None}
  BY Zenon DEF HubKeepalive, hubOnly, KeepaliveTimeout, CloseExpired, Sound, LinkTypes
<1>2. UNCHANGED <<OnWire, Listed, Writing>> /\ (Down' <=> Down)
  BY <1>1, Zenon DEF OnWire, Listed, Down, Writing, ehVars
<1>3. link' \in [Conns -> {"open", "broken", "closed"}] /\ Open' \subseteq Open
  <2>1. CASE UNCHANGED link
    BY <2>1, Zenon DEF Sound, LinkTypes, Open
  <2>2. CASE link' = [link EXCEPT ![expired] = "closed"]
    BY <2>2, Shut, Zenon DEF Sound
  <2> QED
    BY <2>1, <2>2, Zenon DEF HubKeepalive, KeepaliveTimeout, CloseExpired
<1>4. LinkTypes' /\ EdgeOK'
  BY <1>1, <1>3, EdgeIdle, Zenon DEF Sound, LinkTypes, ehVars
<1>5. LoopsOK'
  BY <1>1, <1>2, Zenon DEF Sound, LoopsOK
<1> QED
  BY <1>2, <1>4, <1>5, Zenon

\* cloudcore starts again.
LEMMA RestartKeeps ==
  ASSUME Sound, NSRestart, UNCHANGED ehVars
  PROVE  /\ LinkTypes' /\ LoopsOK' /\ EdgeOK'
         /\ UNCHANGED OnWire /\ Writing' = << >> /\ Listed' = << >> /\ ~Down'
<1>1. NoList \in [items : Seq(Entry), down : BOOLEAN]
  BY DEF NoList
<1>2. LinkTypes'
  BY <1>1, Zenon DEF NSRestart, Sound, LinkTypes, Lists, ehVars
<1>3. Open' \subseteq Open
  BY Zenon DEF NSRestart, Open
<1>4. EdgeOK' /\ UNCHANGED OnWire
  BY <1>3, EdgeIdle, Zenon DEF Sound, NSRestart, OnWire, ehVars
<1>5. Listed' = << >> /\ ~Down'
  BY Zenon DEF NSRestart, Listed, ListedIn, Down
<1>6. \A s \in Sessions : sess'[s].loop = "none" /\ sess'[s].queue = None /\ sess'[s].pc \notin Closing
  BY Zenon DEF NSRestart, NoSession, Closing
<1>7. LoopsOK'
  BY <1>5, <1>6, Zenon DEF LoopsOK
<1>8. Writing' = << >>
  <2>1. PICK ss : ss = sess'
    BY Zenon
  <2> QED
    BY <1>6, <2>1, WritingNothing, Zenon DEF Writing
<1> QED
  BY <1>2, <1>4, <1>5, <1>7, <1>8, Zenon

\* Every step of the edge leaves cloudhub's part alone.
LEMMA HubIdle ==
  ASSUME LoopsOK, UNCHANGED nsOnly
  PROVE  LoopsOK' /\ UNCHANGED <<Writing, Listed>> /\ (Down' <=> Down)
BY Zenon DEF LoopsOK, nsOnly, Writing, Listed, Down

\* Start connects, waits and tries again: nothing is under way then.
LEMMA ConnectKeeps ==
  ASSUME Sound, EdgeConnect
  PROVE  LinkTypes' /\ EdgeOK' /\ UNCHANGED <<fifo, OnWire>>
<1> DEFINE c == FreeConn
<1>1. c \in Conns /\ c # None
  BY FreeConnIsFree, ConnsAssumption, Zenon DEF EdgeConnect
<1> HIDE DEF c
<1>2. /\ epc = "connecting" /\ epc' = "up" /\ client' = c /\ fifo' = << >> /\ fifoOpen' /\ reader'
      /\ link' = [link EXCEPT ![c] = "open"] /\ wire' = [wire EXCEPT ![c] = << >>]
      /\ UNCHANGED <<conn, expired, pool, lists>>
  BY Zenon DEF EdgeConnect, Connect, edgeOnly, nsOnly, c
<1>3. client = None /\ fifo = << >> /\ Open = {}
  BY <1>2, ConnsAssumption, Zenon DEF Sound, EdgeOK, Open
<1>4. /\ link' \in [Conns -> {"open", "broken", "closed"}] /\ wire' \in [Conns -> Seq(Message)]
      /\ wire'[c] = << >>
  BY <1>1, <1>2 DEF Sound, LinkTypes
<1>5. Open' \subseteq {c}
  BY <1>1, <1>2, <1>3, Zenon DEF Sound, LinkTypes, Open
<1>6. OnWire = << >> /\ OnWire' = << >>
  BY <1>1, <1>2, <1>3, <1>4, Zenon DEF OnWire
<1> QED
  BY <1>1, <1>2, <1>3, <1>4, <1>5, <1>6, Zenon DEF Sound, LinkTypes, EdgeOK

LEMMA WaitKeeps ==
  ASSUME Sound, EdgeStep \/ Rotate \/ (RouteToCloudFails /\ UNCHANGED edgeOnly)
  PROVE  LinkTypes' /\ EdgeOK' /\ UNCHANGED <<fifo, OnWire>>
<1>1. UNCHANGED <<link, wire, conn, expired, pool, lists, fifo>>
  BY Zenon DEF EdgeStep, Rotate, RotationDone, RouteToCloudFails, edgeOnly, nsOnly,
         ReadFails, KeepaliveFails, Reconnect, Retry
<1>2. CASE Retry
  <2>1. /\ epc = "waiting" /\ epc' = "connecting" /\ client' = None /\ ~reader'
        /\ UNCHANGED <<fifoOpen, reader>>
    BY <1>2, Zenon DEF Retry
  <2>2. Open = {} /\ OnWire = << >> /\ OnWire' = << >>
    BY <2>1, Zenon DEF Sound, EdgeOK, OnWire
  <2> QED
    BY <1>1, <2>1, <2>2, Zenon DEF Sound, LinkTypes, EdgeOK, Open
<1>3. CASE ~Retry
  <2>1. UNCHANGED client /\ (epc' = epc \/ (epc = "up" /\ epc' = "closing"))
    BY <1>3, Zenon DEF EdgeStep, Rotate, RotationDone, RouteToCloudFails,
                      ReadFails, KeepaliveFails, Reconnect
  <2>2. \/ UNCHANGED <<fifoOpen, reader>>
        \/ reader' = reader /\ ~fifoOpen'
        \/ ~reader' /\ ~fifoOpen' /\ fifo = << >>
    BY <1>3, Zenon DEF EdgeStep, Rotate, RotationDone, RouteToCloudFails,
                      ReadFails, KeepaliveFails, Reconnect
  <2>3. UNCHANGED <<OnWire, Open>>
    BY <1>1, <2>1, Zenon DEF OnWire, Open
  <2> QED
    BY <1>1, <2>1, <2>2, <2>3 DEF Sound, LinkTypes, EdgeOK
<1> QED
  BY <1>2, <1>3, Zenon

\* handleMessage
LEMMA PutKeeps ==
  ASSUME Sound, EdgePut
  PROVE  /\ LinkTypes' /\ EdgeOK' /\ OnWire \in Seq(Message) /\ OnWire # << >> /\ OnWire' = Tail(OnWire)
         /\ fifo' = Append(IF Len(fifo) = FifoSize THEN Tail(fifo) ELSE fifo, Head(OnWire))
         /\ Len(fifo) = FifoSize => fifo # << >>
<1>1. /\ client # None /\ wire[client] # << >> /\ fifoOpen
      /\ fifo' = Append(IF Len(fifo) = FifoSize THEN Tail(fifo) ELSE fifo, Head(wire[client]))
      /\ wire' = [wire EXCEPT ![client] = Tail(@)]
      /\ UNCHANGED <<link, epc, client, fifoOpen, reader, conn, expired, pool, lists>>
  BY Zenon DEF EdgePut, Put, Arrived, edgeOnly, nsOnly
<1>2. client \in Conns /\ wire[client] \in Seq(Message) /\ fifo \in Seq(Message)
  BY <1>1, Zenon DEF Sound, LinkTypes
<1>3. Len(fifo) = FifoSize => fifo # << >>
  BY <1>2, FifoSizeAssumption, Zenon
<1>4. Tail(wire[client]) \in Seq(Message) /\ Head(wire[client]) \in Message
  BY <1>1, <1>2
<1>5. wire' \in [Conns -> Seq(Message)] /\ wire'[client] = Tail(wire[client])
  BY <1>1, <1>2, <1>4, Zenon DEF Sound, LinkTypes
<1>6. (IF Len(fifo) = FifoSize THEN Tail(fifo) ELSE fifo) \in Seq(Message)
  BY <1>2, <1>3
<1>7. fifo' \in Seq(Message)
  BY <1>1, <1>4, <1>6
<1>8. OnWire = wire[client] /\ OnWire' = Tail(OnWire)
  BY <1>1, <1>5, Zenon DEF OnWire
<1>9. LinkTypes'
  BY <1>1, <1>5, <1>7, Zenon DEF Sound, LinkTypes
<1>10. EdgeOK'
  BY <1>1, <1>8, Zenon DEF Sound, EdgeOK, Open
<1> QED
  BY <1>1, <1>2, <1>3, <1>8, <1>9, <1>10, Zenon

\* routeToEdge
LEMMA RouteKeeps ==
  ASSUME Sound, EdgeRoute
  PROVE  LinkTypes' /\ EdgeOK' /\ fifo # << >> /\ fifo' = Tail(fifo) /\ UNCHANGED OnWire
<1>1. /\ fifo # << >> /\ fifo' = Tail(fifo) /\ reader
      /\ UNCHANGED <<link, wire, epc, client, fifoOpen, reader, conn, expired, pool, lists>>
  BY Zenon DEF EdgeRoute, RouteToEdge, nsOnly
<1>2. Tail(fifo) \in Seq(Message)
  BY <1>1 DEF Sound, LinkTypes
<1> QED
  BY <1>1, <1>2, Zenon DEF Sound, LinkTypes, EdgeOK, Open, OnWire

\* A connection ends, by UnInit or by itself.
LEMMA CutKeeps ==
  ASSUME Sound, EdgeUnInit \/ Break
  PROVE  LinkTypes' /\ EdgeOK' /\ OnWire' = << >> /\ UNCHANGED fifo
<1>1. client # None /\ client \in Conns
  <2>1. CASE EdgeUnInit
    <3>1. epc = "closing"
      BY <2>1, Zenon DEF EdgeUnInit, UnInit
    <3> QED
      BY <3>1, Zenon DEF Sound, EdgeOK, LinkTypes
  <2>2. CASE Break
    BY <2>2, ConnsAssumption, Zenon DEF Break, Open
  <2> QED
    BY <2>1, <2>2, Zenon
<1>2. /\ UNCHANGED <<client, fifo, fifoOpen, reader, conn, expired, pool, lists>>
      /\ epc' = epc \/ (epc = "closing" /\ epc' = "waiting")
  BY Zenon DEF EdgeUnInit, Break, UnInit, edgeOnly, nsOnly, ehVars
<1>3. PICK l \in {"broken", "closed"} : link' = [link EXCEPT ![client] = l]
  BY <1>1, Zenon DEF EdgeUnInit, Break, UnInit, Hangup
<1>4. wire' = [wire EXCEPT ![client] = << >>]
  BY <1>1, Zenon DEF EdgeUnInit, Break, UnInit, Hangup
<1>5. /\ link' \in [Conns -> {"open", "broken", "closed"}] /\ wire' \in [Conns -> Seq(Message)]
      /\ wire'[client] = << >> /\ Open' = Open \ {client}
  BY <1>1, <1>3, <1>4 DEF Sound, LinkTypes, Open
<1>6. OnWire' = << >>
  BY <1>1, <1>2, <1>5, Zenon DEF OnWire
<1> QED
  BY <1>1, <1>2, <1>5, <1>6, Zenon DEF Sound, LinkTypes, EdgeOK

\* edgecore starts again.
LEMMA EdgeRestartKeeps ==
  ASSUME Sound, EHRestart, UNCHANGED nsOnly
  PROVE  LinkTypes' /\ EdgeOK' /\ fifo' = << >> /\ OnWire' = << >>
<1>1. /\ epc' = "connecting" /\ client' = None /\ fifo' = << >> /\ ~fifoOpen' /\ ~reader'
      /\ UNCHANGED <<conn, expired, pool, lists>>
  BY Zenon DEF EHRestart, nsOnly
<1>2. /\ link' \in [Conns -> {"open", "broken", "closed"}] /\ wire' \in [Conns -> Seq(Message)]
      /\ Open' = {}
  <2>1. CASE client = None
    <3>1. UNCHANGED <<link, wire>>
      BY <2>1, Zenon DEF EHRestart, Hangup
    <3> QED
      BY <2>1, <3>1, ConnsAssumption, Zenon DEF Sound, LinkTypes, EdgeOK, Open
  <2>2. CASE client # None
    <3>1. link' = [link EXCEPT ![client] = "closed"] /\ wire' = [wire EXCEPT ![client] = << >>]
      BY <2>2, Zenon DEF EHRestart, Hangup
    <3>2. client \in Conns /\ << >> \in Seq(Message)
      BY <2>2 DEF Sound, LinkTypes
    <3> QED
      BY <3>1, <3>2 DEF Sound, LinkTypes, EdgeOK, Open
  <2> QED
    BY <2>1, <2>2, Zenon
<1>3. OnWire' = << >>
  BY <1>1, Zenon DEF OnWire
<1> QED
  BY <1>1, <1>2, <1>3 DEF Sound, LinkTypes, EdgeOK
-----------------------------------------------------------------------------
(* The steps of cloudhub and of the edge, by what they move and what they  *)
(* write off (doubt).                                                      *)

ctlSame == UNCHANGED <<ctlVars, changes>>

Stays ==
  (Down' <=> Down) /\ UNCHANGED <<edgeVars, overtaken, fifo, OnWire, Writing, Listed, doubt>>
DropsQueue ==
  /\ Listed' = << >> /\ Down /\ ~Down'
  /\ UNCHANGED <<edgeVars, overtaken, fifo, OnWire, Writing, doubt>>
GetsStop ==
  /\ Listed # << >> /\ Head(Listed) = Stop /\ ~Down /\ Drops
  /\ doubt' = doubt \cup Newest(Listed) /\ UNCHANGED <<edgeVars, overtaken, fifo>>
DropsMessage ==
  /\ Listed # << >> /\ Head(Listed) # Stop /\ ~Down /\ Drops /\ ~Down'
  /\ doubt' = doubt \cup Newest(<<Head(Listed)>>) /\ UNCHANGED <<edgeVars, overtaken, fifo>>
TakesMessage ==
  /\ Listed # << >> /\ Head(Listed) # Stop /\ ~Down /\ Takes /\ ~Down'
  /\ doubt \subseteq doubt' /\ UNCHANGED <<edgeVars, overtaken, fifo>>
Writes(m) ==
  /\ Writing = <<m>> /\ Writing' = << >> /\ OnWire' = Append(OnWire, m)
  /\ (Down' <=> Down) /\ UNCHANGED <<edgeVars, overtaken, fifo, Listed, doubt>>
WriteFails(m) ==
  /\ Writing = <<m>> /\ Writing' = << >> /\ doubt' = doubt \cup Newest(<<m>>)
  /\ (Down' <=> Down) /\ UNCHANGED <<edgeVars, overtaken, fifo, Listed, OnWire>>

HubMoves ==
  \/ Stays \/ DropsQueue \/ GetsStop \/ DropsMessage \/ TakesMessage
  \/ \E m \in Message : Writes(m) \/ WriteFails(m)

Puts ==
  /\ OnWire # << >> /\ OnWire' = Tail(OnWire) /\ (Len(fifo) = FifoSize => fifo # << >>)
  /\ fifo' = Append(IF Len(fifo) = FifoSize THEN Tail(fifo) ELSE fifo, Head(OnWire))
  /\ doubt' = IF Len(fifo) = FifoSize THEN doubt \cup Newest(<<Head(fifo)>>) ELSE doubt
  /\ (Down' <=> Down) /\ UNCHANGED <<edgeVars, overtaken, Writing, Listed>>
Routes ==
  /\ fifo # << >> /\ fifo' = Tail(fifo) /\ handed' = Append(handed, Head(fifo))
  /\ (Down' <=> Down) /\ UNCHANGED <<edge, overtaken, OnWire, Writing, Listed, doubt>>
Ahead(i) == \E j \in 1..(i - 1) : handed[j].res = handed[i].res
Applies(i) ==
  /\ handed' = Without(handed, i)
  /\ edge' = [edge EXCEPT ![handed[i].res] = [ver |-> handed[i].ver, live |-> handed[i].live]]
  /\ overtaken' = IF Ahead(i) THEN overtaken \cup {handed[i].res} ELSE overtaken
  /\ doubt' = IF Ahead(i) THEN doubt \cup Newest(<<handed[i]>>) ELSE doubt
  /\ (Down' <=> Down) /\ UNCHANGED <<fifo, OnWire, Writing, Listed>>
Cuts ==
  /\ OnWire' = << >> /\ doubt' = doubt \cup Newest(OnWire)
  /\ (Down' <=> Down) /\ UNCHANGED <<edgeVars, overtaken, fifo, Writing, Listed>>
Forgets ==
  /\ handed' = << >> /\ fifo' = << >> /\ OnWire' = << >> /\ edge' = [r \in Resources |-> Nothing]
  /\ doubt' = doubt \cup {r \in Resources : edge[r] # Nothing} \cup Newest(OnWire \o fifo \o handed)
  /\ (Down' <=> Down) /\ UNCHANGED <<overtaken, Writing, Listed>>

EdgeMoves ==
  Stays \/ Puts \/ Routes \/ Cuts \/ Forgets \/ \E i \in DOMAIN handed : Applies(i)

LinkOK == LinkTypes /\ LoopsOK /\ EdgeOK

LEMMA NothingMoves ==
  ASSUME Sound, UNCHANGED <<nsVars, ehVars>>
  PROVE  LinkOK' /\ UNCHANGED <<fifo, OnWire, Writing, Listed>> /\ (Down' <=> Down)
<1>1. LinkTypes'
  BY Zenon DEF Sound, LinkTypes, nsVars, ehVars
<1>2. LoopsOK' /\ (Down' <=> Down)
  BY Zenon DEF Sound, LoopsOK, Down, nsVars
<1>3. EdgeOK'
  BY SameLink, Zenon DEF Sound, nsVars
<1> QED
  BY <1>1, <1>2, <1>3, Zenon DEF LinkOK, nsVars, ehVars, OnWire, Writing, Listed

LEMMA HubStep ==
  ASSUME Sound, Hub, ~raced'
  PROVE  LinkOK' /\ ctlSame /\ HubMoves
<1>1. CASE HubRegister \/ HubKeepalive
  <2>1. UNCHANGED <<ehVars, ctlVars, edgeVars, overtaken, boundVars, doubt>>
    BY <1>1, Zenon DEF HubRegister, HubKeepalive, hubOnly
  <2> QED
    BY <1>1, <2>1, RegisterKeeps, KeepaliveKeeps, Zenon
       DEF LinkOK, ctlSame, HubMoves, Stays, ehVars, boundVars
<1>2. ASSUME NEW s \in Sessions, Session(s)
      PROVE  LinkOK' /\ ctlSame /\ HubMoves
  <2>1. CASE HubServe(s)
    <3>1. UNCHANGED <<ehVars, ctlVars, edgeVars, overtaken, boundVars, doubt>>
      BY <2>1, Zenon DEF HubServe, hubOnly
    <3> QED
      BY <2>1, <3>1, ServeKeeps, Zenon DEF LinkOK, ctlSame, HubMoves, Stays, ehVars, boundVars
  <2>2. CASE HubGet(s)
    <3>1. UNCHANGED <<ehVars, ctlVars, edgeVars, overtaken, boundVars>>
      BY <2>2, Zenon DEF HubGet, hubOnly
    <3>2. lists[sess[s].queue].items = Listed
      BY <2>2, GetKeeps, Zenon
    <3>3. doubt' = CASE Head(Listed) = Stop -> doubt \cup Newest(Listed)
                     [] Head(Listed) # Stop /\ conn = None -> doubt \cup Newest(<<Head(Listed)>>)
                     [] OTHER -> doubt
      BY <2>2, <3>2, Zenon DEF HubGet
    <3>4. /\ Head(Listed) = Stop => doubt' = doubt \cup Newest(Listed)
          /\ Head(Listed) # Stop /\ conn = None => doubt' = doubt \cup Newest(<<Head(Listed)>>)
          /\ Head(Listed) # Stop => doubt \subseteq doubt'
      BY <3>3, Zenon
    <3> QED
      BY <2>2, <3>1, <3>4, GetKeeps, Zenon
         DEF LinkOK, ctlSame, HubMoves, GetsStop, DropsMessage, TakesMessage, ehVars, boundVars
  <2>3. CASE HubWrite(s)
    <3>1. UNCHANGED <<ehVars, ctlVars, edgeVars, overtaken, boundVars>>
      BY <2>3, Zenon DEF HubWrite, hubOnly
    <3>2. doubt' = IF Writable(s) THEN doubt ELSE doubt \cup Newest(<<sess[s].msg>>)
      BY <2>3, Zenon DEF HubWrite
    <3>3. Writes(sess[s].msg) \/ WriteFails(sess[s].msg)
      BY <2>3, <3>1, <3>2, WriteKeeps, Zenon DEF Writes, WriteFails, ehVars
    <3> QED
      BY <2>3, <3>1, <3>3, WriteKeeps, Zenon DEF LinkOK, ctlSame, HubMoves, boundVars
  <2>4. CASE HubUnregister(s)
    <3>1. UNCHANGED <<ehVars, ctlVars, edgeVars, overtaken, boundVars, doubt>>
      BY <2>4, Zenon DEF HubUnregister, hubOnly
    <3> QED
      BY <2>4, <3>1, UnregisterKeeps, Zenon
         DEF LinkOK, ctlSame, HubMoves, Stays, DropsQueue, ehVars, boundVars
  <2> QED
    BY <1>2, <2>1, <2>2, <2>3, <2>4, Zenon DEF Session
<1> QED
  BY <1>1, <1>2, Zenon DEF Hub

LEMMA EdgeHubStep ==
  ASSUME Sound, Edge \/ EdgePanic \/ EdgeCrash \/ Report \/ Rotate \/ Break
  PROVE  LinkOK' /\ ctlSame /\ EdgeMoves /\ UNCHANGED raced
<1>1. UNCHANGED <<nsOnly, ctlVars, changes, raced>>
  BY Zenon DEF Edge, EdgePanic, EdgeCrash, Report, Rotate, Break, EdgeForgets, EdgeConnect,
               EdgePut, EdgeStep, EdgeUnInit, EdgeRoute, EdgeApply, edgeOnly, nsOnly,
               nsVars, tableVars, boundVars
<1>2. LoopsOK' /\ UNCHANGED <<Writing, Listed>> /\ (Down' <=> Down)
  BY <1>1, HubIdle, Zenon DEF Sound
<1>3. CASE \/ EdgeConnect \/ EdgeStep \/ Rotate
           \/ RouteToCloudFails /\ UNCHANGED <<edgeOnly, doubt, boundVars>>
  <2>1. UNCHANGED <<edgeVars, overtaken, doubt>>
    BY <1>3, Zenon DEF EdgeConnect, EdgeStep, Rotate, edgeOnly
  <2> QED
    BY <1>1, <1>2, <1>3, <2>1, ConnectKeeps, WaitKeeps, Zenon DEF LinkOK, ctlSame, EdgeMoves, Stays
<1>4. CASE EdgePut
  <2>1. UNCHANGED <<edgeVars, overtaken>>
        /\ doubt' = IF Len(fifo) = FifoSize THEN doubt \cup Newest(<<Head(fifo)>>) ELSE doubt
    BY <1>4, Zenon DEF EdgePut, edgeOnly
  <2> QED
    BY <1>1, <1>2, <1>4, <2>1, PutKeeps, Zenon DEF LinkOK, ctlSame, EdgeMoves, Puts
<1>5. CASE EdgeRoute
  <2>1. UNCHANGED <<edge, overtaken, doubt>> /\ handed' = Append(handed, Head(fifo))
    BY <1>5, Zenon DEF EdgeRoute
  <2> QED
    BY <1>1, <1>2, <1>5, <2>1, RouteKeeps, Zenon DEF LinkOK, ctlSame, EdgeMoves, Routes
<1>6. CASE EdgeUnInit \/ Break
  <2>1. UNCHANGED <<edgeVars, overtaken>> /\ doubt' = doubt \cup Newest(OnWire)
    BY <1>6, Zenon DEF EdgeUnInit, Break, edgeOnly
  <2> QED
    BY <1>1, <1>2, <1>6, <2>1, CutKeeps, Zenon DEF LinkOK, ctlSame, EdgeMoves, Cuts
<1>7. CASE EHRestart /\ EdgeForgets
  BY <1>1, <1>2, <1>7, EdgeRestartKeeps, Zenon DEF LinkOK, ctlSame, EdgeMoves, Forgets, EdgeForgets
<1>8. CASE \E i \in DOMAIN handed : EdgeApply(i)
  <2>1. PICK i \in DOMAIN handed : EdgeApply(i)
    BY <1>8, Zenon
  <2>2. LinkOK' /\ UNCHANGED <<fifo, OnWire, Writing, Listed>> /\ (Down' <=> Down)
    BY <2>1, NothingMoves, Zenon DEF EdgeApply
  <2>3. Applies(i)
    BY <2>1, <2>2, Zenon DEF EdgeApply, Applies, Ahead
  <2> QED
    BY <1>1, <2>2, <2>3, Zenon DEF ctlSame, EdgeMoves
<1> QED
  BY <1>3, <1>4, <1>5, <1>6, <1>7, <1>8, Zenon
     DEF Edge, EdgePanic, PutPanics, EdgeCrash, Report, SendPanics

(* The steps of the controller, and of its environment.                    *)

Sends(m) ==
  /\ sent' = IF m.ver < sent[m.res] THEN sent ELSE [sent EXCEPT ![m.res] = m.ver]
  /\ overtaken' = IF m.ver < sent[m.res] THEN overtaken \cup {m.res} ELSE overtaken
  /\ doubt' = IF Down \/ m.ver # store[m.res].ver THEN doubt \cup {m.res} ELSE doubt \ {m.res}
  /\ Listed' = IF Down THEN Listed ELSE Append(Listed, m)
  /\ (Down' <=> Down) /\ UNCHANGED <<edgeVars, fifo, OnWire, Writing, store, changes>>
Tells ==
  /\ Listed' = Listed \/ Listed' = Append(Listed, Stop)
  /\ (Down' <=> Down) /\ (Down => Listed' = Listed)
  /\ UNCHANGED <<edgeVars, overtaken, fifo, OnWire, Writing, doubt, store, sent, changes>>
Restarts ==
  /\ Writing' = << >> /\ Listed' = << >> /\ ~Down'
  /\ UNCHANGED <<edgeVars, overtaken, fifo, OnWire, store, sent, changes>>

LEMMA SendStep ==
  ASSUME Sound, NEW m \in Message, DispatchResource(m), UNCHANGED <<ehVars, store, edgeVars, changes>>
  PROVE  LinkOK' /\ Sends(m)
<1>1. m \in Entry
  BY Zenon DEF Entry
<1>2. /\ AddListMessageToQueue(m)
      /\ doubt' = IF lists' = Ensured \/ m.ver # store[m.res].ver
                  THEN doubt \cup {m.res} ELSE doubt \ {m.res}
  BY Zenon DEF DispatchResource
<1>3. LinkOK' /\ UNCHANGED <<OnWire, Writing>>
  BY <1>1, <1>2, ControllerKeeps, Zenon DEF LinkOK
<1>4. /\ (Down' <=> Down)
      /\ Down => lists' = Ensured /\ Listed' = Listed
      /\ ~Down => lists' # Ensured /\ Listed' = Append(Listed, m)
  BY <1>1, <1>2, QueueGrows, Zenon
<1>5. doubt' = IF Down \/ m.ver # store[m.res].ver THEN doubt \cup {m.res} ELSE doubt \ {m.res}
  BY <1>2, <1>4, Zenon
<1> QED
  BY <1>3, <1>4, <1>5, Zenon DEF Sends, DispatchResource, ehVars

LEMMA DeleteStep ==
  ASSUME Sound, NodeDelete
  PROVE  LinkOK' /\ Tells
<1>1. /\ Stop \in Entry /\ AddListMessageToQueue(Stop)
      /\ UNCHANGED <<ehVars, store, edgeVars, overtaken, doubt, sent, changes>>
  BY Zenon DEF Entry, NodeDelete
<1>2. LinkOK' /\ UNCHANGED <<OnWire, Writing>>
  BY <1>1, ControllerKeeps, Zenon DEF LinkOK
<1> QED
  BY <1>1, <1>2, QueueGrows, Zenon DEF Tells, ehVars

LEMMA CloudStep ==
  ASSUME Sound, CloudCrash \/ CloudPanic
  PROVE  LinkOK' /\ Restarts /\ CloudRestart
<1>1. NSRestart /\ CloudRestart /\ UNCHANGED <<ehVars, edgeVars, overtaken, store, sent, changes>>
  BY Zenon DEF CloudCrash, CloudPanic, PingPanics, CloudRestart
<1> QED
  BY <1>1, RestartKeeps, Zenon DEF LinkOK, Restarts, ehVars
-----------------------------------------------------------------------------
(* The order.                                                              *)

LEMMA ElementsEmpty ==
  ASSUME NEW r
  PROVE  Elements(<< >>) = {} /\ Sorted(r, << >>)
BY DEF Elements, Sorted

LEMMA ElementsOne ==
  ASSUME NEW m
  PROVE  Elements(<<m>>) = {m}
BY DEF Elements

LEMMA ElementsIn ==
  ASSUME NEW S, NEW q \in Seq(S)
  PROVE  Elements(q) \subseteq S
BY DEF Elements

LEMMA ElementsHead ==
  ASSUME NEW r, NEW S, NEW q \in Seq(S), q # << >>
  PROVE  /\ Elements(q) = {Head(q)} \cup Elements(Tail(q))
         /\ Sorted(r, q) => Sorted(r, Tail(q)) /\ Below(r, {Head(q)}, Elements(Tail(q)))
<1>1. /\ Len(q) \in Nat \ {0} /\ Tail(q) \in Seq(S) /\ Len(Tail(q)) = Len(q) - 1
      /\ Head(q) = q[1] /\ \A i \in 1..Len(Tail(q)) : Tail(q)[i] = q[i + 1]
  OBVIOUS
<1> DEFINE t == Tail(q)
<1> HIDE DEF t
<1>2. Elements(q) \subseteq {q[1]} \cup Elements(t)
  <2> SUFFICES ASSUME NEW i \in 1..Len(q)
               PROVE  q[i] = q[1] \/ \E j \in 1..Len(t) : q[i] = t[j]
    BY DEF Elements
  <2>1. i = 1 \/ (i - 1 \in 1..Len(t) /\ q[i] = t[i - 1])
    BY <1>1 DEF t
  <2> QED
    BY <2>1, Zenon
<1>3. {q[1]} \cup Elements(t) \subseteq Elements(q)
  BY <1>1 DEF Elements, t
<1>4. ASSUME Sorted(r, q)
      PROVE  Sorted(r, t) /\ Below(r, {q[1]}, Elements(t))
  <2>1. \A i, j \in 1..Len(t) : i < j => Before(r, t[i], t[j])
    <3> SUFFICES ASSUME NEW i \in 1..Len(t), NEW j \in 1..Len(t), i < j
                 PROVE  Before(r, t[i], t[j])
      BY Zenon
    <3>1. i + 1 \in 1..Len(q) /\ j + 1 \in 1..Len(q) /\ i + 1 < j + 1
          /\ t[i] = q[i + 1] /\ t[j] = q[j + 1]
      BY <1>1 DEF t
    <3> QED
      BY <1>4, <3>1, Zenon DEF Sorted
  <2>2. \A j \in 1..Len(t) : Before(r, q[1], t[j])
    <3> SUFFICES ASSUME NEW j \in 1..Len(t)
                 PROVE  Before(r, q[1], t[j])
      BY Zenon
    <3>1. 1 \in 1..Len(q) /\ j + 1 \in 1..Len(q) /\ 1 < j + 1 /\ t[j] = q[j + 1]
      BY <1>1 DEF t
    <3> QED
      BY <1>4, <3>1, Zenon DEF Sorted
  <2> QED
    BY <2>1, <2>2, Zenon DEF Sorted, Below, Elements
<1> QED
  BY <1>1, <1>2, <1>3, <1>4, Zenon DEF t

LEMMA ElementsAppend ==
  ASSUME NEW r, NEW S, NEW q \in Seq(S), NEW m \in S
  PROVE  /\ Elements(Append(q, m)) = Elements(q) \cup {m}
         /\ Sorted(r, q) /\ Below(r, Elements(q), {m}) => Sorted(r, Append(q, m))
<1> DEFINE a == Append(q, m)
<1>1. /\ Len(q) \in Nat /\ Len(a) = Len(q) + 1 /\ a[Len(q) + 1] = m
      /\ \A i \in 1..Len(q) : a[i] = q[i]
  OBVIOUS
<1> HIDE DEF a
<1>2. Elements(a) = Elements(q) \cup {m}
  <2>1. Elements(a) \subseteq Elements(q) \cup {m}
    <3> SUFFICES ASSUME NEW i \in 1..Len(a)
                 PROVE  a[i] = m \/ \E j \in 1..Len(q) : a[i] = q[j]
      BY Zenon DEF Elements
    <3>1. i = Len(q) + 1 \/ i \in 1..Len(q)
      BY <1>1
    <3> QED
      BY <1>1, <3>1, Zenon
  <2>2. Elements(q) \cup {m} \subseteq Elements(a)
    <3>1. Len(q) + 1 \in 1..Len(a) /\ 1..Len(q) \subseteq 1..Len(a)
      BY <1>1
    <3> QED
      BY <1>1, <3>1, Zenon DEF Elements
  <2> QED
    BY <2>1, <2>2, Zenon
<1>3. ASSUME Sorted(r, q), Below(r, Elements(q), {m})
      PROVE  Sorted(r, a)
  <2> SUFFICES ASSUME NEW i \in 1..Len(a), NEW j \in 1..Len(a), i < j
               PROVE  Before(r, a[i], a[j])
    BY Zenon DEF Sorted
  <2>1. i \in 1..Len(q) /\ a[i] = q[i] /\ (j \in 1..Len(q) \/ j = Len(q) + 1)
    BY <1>1
  <2>2. CASE j \in 1..Len(q)
    BY <1>1, <1>3, <2>1, <2>2, Zenon DEF Sorted
  <2>3. CASE j = Len(q) + 1
    BY <1>1, <1>3, <2>1, <2>3, Zenon DEF Below, Elements
  <2> QED
    BY <2>1, <2>2, <2>3, Zenon
<1> QED
  BY <1>2, <1>3, Zenon DEF a

\* What is left when EdgeApply has taken the message at i.
LEMMA WithoutIs ==
  ASSUME NEW S, NEW q \in Seq(S), NEW i \in 1..Len(q), NEW w, w = Without(q, i)
  PROVE  /\ w \in Seq(S) /\ Len(q) \in Nat /\ Len(w) = Len(q) - 1
         /\ \A j \in 1..Len(w) : w[j] = IF j < i THEN q[j] ELSE q[j + 1]
<1> DEFINE a == SubSeq(q, 1, i - 1)
           b == SubSeq(q, i + 1, Len(q))
<1>1. /\ a \in Seq(S) /\ Len(a) = i - 1 /\ \A j \in 1..Len(a) : a[j] = q[j]
  OBVIOUS
<1>2. /\ b \in Seq(S) /\ Len(b) = Len(q) - i /\ \A j \in 1..Len(b) : b[j] = q[i + j]
  OBVIOUS
<1>3. w = a \o b
  BY Zenon DEF Without
<1> HIDE DEF a, b
<1>4. w \in Seq(S) /\ Len(w) = Len(q) - 1 /\ Len(q) \in Nat
  <2>1. a \o b \in Seq(S)
    BY <1>1, <1>2
  <2>2. ASSUME NEW x \in Seq(S), NEW y \in Seq(S)
        PROVE  Len(x \o y) = Len(x) + Len(y)
    OBVIOUS
  <2>3. Len(q) \in Nat
    OBVIOUS
  <2> QED
    BY <1>1, <1>2, <1>3, <2>1, <2>2, <2>3
<1>5. ASSUME NEW j \in 1..Len(w)
      PROVE  w[j] = IF j < i THEN q[j] ELSE q[j + 1]
  <2>1. w[j] = IF j <= Len(a) THEN a[j] ELSE b[j - Len(a)]
    BY <1>1, <1>2, <1>3, <1>4
  <2>2. CASE j < i
    BY <1>1, <2>1, <2>2
  <2>3. CASE ~(j < i)
    <3>1. j - Len(a) \in 1..Len(b) /\ i + (j - Len(a)) = j + 1 /\ ~(j <= Len(a))
      BY <1>1, <1>2, <1>4, <2>3
    <3> QED
      BY <1>2, <2>1, <2>3, <3>1, Zenon
  <2> QED
    BY <2>2, <2>3, Zenon
<1> QED
  BY <1>4, <1>5, Zenon

LEMMA ElementsWithout ==
  ASSUME NEW r, NEW S, NEW q \in Seq(S), NEW i \in 1..Len(q), NEW w, w = Without(q, i), Sorted(r, q)
  PROVE  /\ Elements(w) \subseteq Elements(q) /\ Sorted(r, w)
         /\ (\A j \in 1..(i - 1) : Clear(q[j], r)) => Below(r, {q[i]}, Elements(w))
<1> DEFINE at(j) == IF j < i THEN j ELSE j + 1
<1>1. \A j \in 1..Len(w) : at(j) \in 1..Len(q) /\ at(j) # i /\ w[j] = q[at(j)]
  BY WithoutIs
<1>2. \A j, k \in 1..Len(w) : j < k => at(j) < at(k)
  BY WithoutIs
<1>3. \A j \in 1..Len(w) : at(j) \in 1..(i - 1) \/ i < at(j)
  BY WithoutIs
<1> HIDE DEF at
<1>4. Elements(w) \subseteq Elements(q)
  <2> SUFFICES ASSUME NEW j \in 1..Len(w)
               PROVE  \E k \in 1..Len(q) : w[j] = q[k]
    BY DEF Elements
  <2> QED
    BY <1>1, Zenon
<1>5. Sorted(r, w)
  BY <1>1, <1>2, Zenon DEF Sorted
<1>6. ASSUME \A j \in 1..(i - 1) : Clear(q[j], r), NEW j \in 1..Len(w)
      PROVE  Before(r, q[i], w[j])
  <2>1. CASE at(j) \in 1..(i - 1)
    BY <1>1, <1>6, <2>1, Zenon DEF Before
  <2>2. CASE i < at(j)
    BY <1>1, <2>2, Zenon DEF Sorted
  <2> QED
    BY <1>3, <2>1, <2>2, Zenon
<1> QED
  BY <1>4, <1>5, <1>6, Zenon DEF Below, Elements

\* The chain stays one when messages are lost anywhere,
LEMMA ChainShrinks ==
  ASSUME NEW r, NEW e, NEW G, NEW F, NEW W, NEW L, NEW I, NEW t, Chain(r, e, G, F, W, L, I, t),
         NEW G2, NEW F2, NEW W2, NEW L2, NEW I2,
         Sorted(r, G2), Sorted(r, F2), Sorted(r, W2), Sorted(r, I2),
         Elements(G2) \subseteq Elements(G), Elements(F2) \subseteq Elements(F),
         Elements(W2) \subseteq Elements(W), Elements(L2) \subseteq Elements(L),
         Elements(I2) \subseteq Elements(I)
  PROVE  Chain(r, e, G2, F2, W2, L2, I2, t)
BY Zenon DEF Chain, Below, Between

\* when ListMessageWriteLoop takes a message,
LEMMA ChainTakes ==
  ASSUME NEW r, NEW e, NEW G, NEW F, NEW W, NEW I \in Seq(Entry), NEW t,
         Chain(r, e, G, F, W, << >>, I, t), I # << >>
  PROVE  Chain(r, e, G, F, W, <<Head(I)>>, Tail(I), t)
<1>1. /\ Elements(I) = {Head(I)} \cup Elements(Tail(I)) /\ Sorted(r, Tail(I))
      /\ Below(r, {Head(I)}, Elements(Tail(I))) /\ Elements(<<Head(I)>>) = {Head(I)}
  BY ElementsHead, ElementsOne, Zenon DEF Chain
<1> QED
  BY <1>1, Zenon DEF Chain, Below, Between

\* and writes it,
LEMMA ChainWrites ==
  ASSUME NEW r, NEW e, NEW G, NEW F, NEW W \in Seq(Message), NEW m \in Message, NEW I, NEW t,
         Chain(r, e, G, F, W, <<m>>, I, t)
  PROVE  Chain(r, e, G, F, Append(W, m), << >>, I, t)
<1>1. Elements(<<m>>) = {m} /\ Elements(<< >>) = {}
  BY ElementsOne, ElementsEmpty, Zenon
<1>2. Elements(Append(W, m)) = Elements(W) \cup {m} /\ Sorted(r, Append(W, m))
  BY <1>1, ElementsAppend DEF Chain
<1> QED
  BY <1>1, <1>2, Zenon DEF Chain, Below, Between

\* when it goes on from a queue to the one before,
LEMMA PassesOn ==
  ASSUME NEW r, NEW A \in Seq(Message), NEW B \in Seq(Message), B # << >>, NEW A2, NEW B2,
         A2 = Append(A, Head(B)), B2 = Tail(B), Sorted(r, A), Sorted(r, B),
         Below(r, Elements(A), Elements(B))
  PROVE  /\ Sorted(r, A2) /\ Sorted(r, B2) /\ Below(r, Elements(A2), Elements(B2))
         /\ Elements(A2) \subseteq Elements(A) \cup Elements(B) /\ Elements(B2) \subseteq Elements(B)
<1>0. Head(B) \in Message
  OBVIOUS
<1>1. /\ Elements(B) = {Head(B)} \cup Elements(B2) /\ Sorted(r, B2)
      /\ Below(r, {Head(B)}, Elements(B2))
  BY ElementsHead, Zenon
<1>2. Below(r, Elements(A), {Head(B)})
  BY <1>1, Zenon DEF Below
<1>3. Elements(A2) = Elements(A) \cup {Head(B)} /\ Sorted(r, A2)
  BY <1>0, <1>2, ElementsAppend
<1> QED
  BY <1>1, <1>3, Zenon DEF Below

\* into messageFifo (handleMessage)
LEMMA ChainPuts ==
  ASSUME NEW r, NEW e, NEW G, NEW F \in Seq(Message), NEW W \in Seq(Message), NEW L, NEW I, NEW t,
         Chain(r, e, G, F, W, L, I, t), W # << >>
  PROVE  Chain(r, e, G, Append(F, Head(W)), Tail(W), L, I, t)
<1> DEFINE F2 == Append(F, Head(W))
           W2 == Tail(W)
<1>1. /\ Sorted(r, F2) /\ Sorted(r, W2) /\ Below(r, Elements(F2), Elements(W2))
      /\ Elements(F2) \subseteq Elements(F) \cup Elements(W) /\ Elements(W2) \subseteq Elements(W)
  BY PassesOn, Zenon DEF Chain
<1> HIDE DEF F2, W2
<1>2. Chain(r, e, G, F2, W2, L, I, t)
  BY <1>1, Zenon DEF Chain, Below, Between
<1> QED
  BY <1>2, Zenon DEF F2, W2

\* or to SendToGroup (routeToEdge),
LEMMA ChainRoutes ==
  ASSUME NEW r, NEW e, NEW G \in Seq(Message), NEW F \in Seq(Message), NEW W, NEW L, NEW I, NEW t,
         Chain(r, e, G, F, W, L, I, t), F # << >>
  PROVE  Chain(r, e, Append(G, Head(F)), Tail(F), W, L, I, t)
<1> DEFINE G2 == Append(G, Head(F))
           F2 == Tail(F)
<1>1. /\ Sorted(r, G2) /\ Sorted(r, F2) /\ Below(r, Elements(G2), Elements(F2))
      /\ Elements(G2) \subseteq Elements(G) \cup Elements(F) /\ Elements(F2) \subseteq Elements(F)
  BY PassesOn, Zenon DEF Chain
<1> HIDE DEF G2, F2
<1>2. Chain(r, e, G2, F2, W, L, I, t)
  BY <1>1, Zenon DEF Chain, Below, Between
<1> QED
  BY <1>2, Zenon DEF G2, F2

\* and when a goroutine with nothing about r before it comes to the control plane.
LEMMA ChainApplies ==
  ASSUME NEW r, NEW e, NEW G \in Seq(Message), NEW F, NEW W, NEW L, NEW I, NEW t,
         Chain(r, e, G, F, W, L, I, t), NEW i \in 1..Len(G), G[i].res = r,
         \A j \in 1..(i - 1) : Clear(G[j], r), NEW w, w = Without(G, i)
  PROVE  Chain(r, G[i].ver, w, F, W, L, I, t) /\ e <= G[i].ver
<1> DEFINE h == G[i]
<1>1. h \in Elements(G) /\ h \in Message
  BY DEF Elements
<1>2. ~Clear(h, r)
  BY <1>1, StopAssumption, Zenon DEF Clear
<1>3. Elements(w) \subseteq Elements(G) /\ Sorted(r, w) /\ Below(r, {h}, Elements(w))
  BY ElementsWithout, Zenon DEF Chain
<1> HIDE DEF h
<1>4. /\ Below(r, {h}, Elements(F)) /\ Below(r, {h}, Elements(W)) /\ Below(r, {h}, Elements(L))
      /\ Below(r, {h}, Elements(I))
  BY <1>1, Zenon DEF Chain, Below
<1>5. ASSUME NEW A, Below(r, {h}, A), Between(r, e, A, t)
      PROVE  Between(r, h.ver, A, t)
  BY <1>2, <1>5, Zenon DEF Between, Below, Before
<1>6. Chain(r, e, w, F, W, L, I, t)
  BY <1>3, Zenon DEF Chain, Below, Between
<1>7. e <= h.ver /\ h.ver <= t
  BY <1>1, <1>2, Zenon DEF Chain, Between
<1>8. Chain(r, h.ver, w, F, W, L, I, t)
  BY <1>3, <1>4, <1>5, <1>6, <1>7, Zenon DEF Chain
<1> QED
  BY <1>7, <1>8, Zenon DEF h

\* An edge node that starts again begins the chain anew,
LEMMA ChainForgets ==
  ASSUME NEW r, NEW e, NEW G, NEW F, NEW W, NEW L, NEW I, NEW t \in Nat, Chain(r, e, G, F, W, L, I, t),
         Elements(L) \subseteq Entry, Elements(I) \subseteq Entry
  PROVE  Chain(r, 0, << >>, << >>, << >>, L, I, t)
<1>1. \A m \in Entry : m # Stop => m.ver \in Nat
  BY Zenon DEF Entry, Message
<1>2. Between(r, 0, Elements(L), t) /\ Between(r, 0, Elements(I), t)
  BY <1>1 DEF Chain, Between, Clear
<1>3. /\ Between(r, 0, {}, t) /\ Below(r, {}, {}) /\ Below(r, {}, Elements(L))
      /\ Below(r, {}, Elements(I))
  BY Zenon DEF Between, Below
<1>4. 0 <= t
  OBVIOUS
<1> QED
  BY <1>2, <1>3, <1>4, ElementsEmpty, Zenon DEF Chain

\* and dispatchResource goes on with it when it sends nothing older than before.
LEMMA ChainSends ==
  ASSUME NEW r, NEW e \in Nat, NEW G, NEW F, NEW W, NEW L, NEW I \in Seq(Entry), NEW t \in Nat,
         Chain(r, e, G, F, W, L, I, t), Elements(G) \cup Elements(F) \subseteq Entry,
         Elements(W) \cup Elements(L) \subseteq Entry,
         NEW t2 \in Nat, t <= t2, NEW m \in Entry, Clear(m, r) \/ m.ver = t2
  PROVE  Chain(r, e, G, F, W, L, I, t2) /\ Chain(r, e, G, F, W, L, Append(I, m), t2)
<1>1. \A n \in Entry : n # Stop => n.ver \in Nat
  BY Zenon DEF Entry, Message
<1>2. Elements(I) \subseteq Entry
  BY ElementsIn, Zenon
<1>3. ASSUME NEW A \in SUBSET Entry, Between(r, e, A, t)
      PROVE  Between(r, e, A, t2) /\ Below(r, A, {m})
  <2> SUFFICES ASSUME NEW n \in A, ~Clear(n, r)
               PROVE  e <= n.ver /\ n.ver <= t2 /\ (Clear(m, r) \/ n.ver <= m.ver)
    BY Zenon DEF Between, Below, Before
  <2>1. e <= n.ver /\ n.ver <= t /\ n.ver \in Nat
    BY <1>1, <1>3, Zenon DEF Between, Clear
  <2>2. n.ver <= t2
    BY <2>1
  <2> QED
    BY <2>1, <2>2, Zenon
<1>4. e <= t2
  BY DEF Chain
<1>5. /\ Between(r, e, Elements(G), t2) /\ Between(r, e, Elements(F), t2)
      /\ Between(r, e, Elements(W), t2) /\ Between(r, e, Elements(L), t2)
      /\ Between(r, e, Elements(I), t2)
  BY <1>2, <1>3, Zenon DEF Chain
<1>6. /\ Below(r, Elements(G), {m}) /\ Below(r, Elements(F), {m}) /\ Below(r, Elements(W), {m})
      /\ Below(r, Elements(L), {m}) /\ Below(r, Elements(I), {m})
  BY <1>2, <1>3, Zenon DEF Chain
<1>7. Chain(r, e, G, F, W, L, I, t2)
  BY <1>4, <1>5, Zenon DEF Chain
<1>8. Elements(Append(I, m)) = Elements(I) \cup {m} /\ Sorted(r, Append(I, m))
  BY <1>6, ElementsAppend DEF Chain
<1>9. t2 <= t2
  OBVIOUS
<1>10. Between(r, e, Elements(Append(I, m)), t2)
  BY <1>4, <1>5, <1>8, <1>9, Zenon DEF Between
<1>11. \A A : Below(r, A, Elements(I)) /\ Below(r, A, {m}) => Below(r, A, Elements(Append(I, m)))
  BY <1>8, Zenon DEF Below
<1> QED
  BY <1>6, <1>7, <1>8, <1>10, <1>11, Zenon DEF Chain

LEMMA PipeTypes ==
  ASSUME Sound
  PROVE  /\ fifo \in Seq(Message) /\ OnWire \in Seq(Message) /\ Listed \in Seq(Entry)
         /\ Writing \in Seq(Message) /\ Message \subseteq Entry
         /\ Elements(fifo) \subseteq Entry /\ Elements(OnWire) \subseteq Entry
         /\ Elements(Writing) \subseteq Entry /\ Elements(Listed) \subseteq Entry
<1>1. fifo \in Seq(Message) /\ OnWire \in Seq(Message)
  BY DEF Sound, LinkTypes, OnWire
<1>2. Listed \in Seq(Entry)
  BY DEF Sound, LinkTypes, Lists, Listed, ListedIn
<1>3. Writing \in Seq(Message)
  BY DEF Sound, LoopsOK, Writing, WritingIn
<1>4. Message \subseteq Entry
  BY Zenon DEF Entry
<1> QED
  BY <1>1, <1>2, <1>3, <1>4, ElementsIn, Zenon

\* Cloudhub's steps keep the order,
LEMMA HubOrder ==
  ASSUME Sound, OrderInv, ctlSame, HubMoves
  PROVE  OrderInv' /\ UNCHANGED edge
<1>1. UNCHANGED <<sent, edge, handed, fifo, overtaken>>
  BY Zenon DEF ctlSame, ctlVars, HubMoves, Stays, DropsQueue, GetsStop, DropsMessage, TakesMessage,
         Writes, WriteFails, edgeVars
<1> SUFFICES ASSUME NEW r \in Resources \ overtaken
             PROVE  Chain(r, edge[r].ver, handed, fifo, OnWire', Writing', Listed', sent[r])
  BY <1>1, Zenon DEF OrderInv, EdgeTypes, ChainOf
<1> DEFINE e == edge[r].ver
           t == sent[r]
<1>2. Chain(r, e, handed, fifo, OnWire, Writing, Listed, t)
  BY Zenon DEF OrderInv, ChainOf
<1> HIDE DEF e, t
<1>3. Sorted(r, handed) /\ Sorted(r, fifo) /\ Sorted(r, OnWire) /\ Sorted(r, Listed)
  BY <1>2, Zenon DEF Chain
<1>4. SUFFICES Chain(r, e, handed, fifo, OnWire', Writing', Listed', t)
  BY Zenon DEF e, t
<1>5. CASE Stays
  BY <1>2, <1>5, Zenon DEF Stays
<1>6. CASE DropsQueue
  BY <1>2, <1>3, <1>6, ElementsEmpty, ChainShrinks, Zenon DEF DropsQueue
<1>7. CASE GetsStop \/ DropsMessage
  <2>1. Listed # << >> /\ Listed' = Tail(Listed) /\ UNCHANGED <<OnWire, Writing>>
    BY <1>7, Zenon DEF GetsStop, DropsMessage, Drops
  <2>2. Sorted(r, Tail(Listed)) /\ Elements(Tail(Listed)) \subseteq Elements(Listed)
    BY <1>3, <2>1, ElementsHead, PipeTypes, Zenon
  <2> QED
    BY <1>2, <1>3, <2>1, <2>2, ChainShrinks, Zenon
<1>8. CASE TakesMessage
  BY <1>2, <1>8, PipeTypes, ChainTakes, Zenon DEF TakesMessage, Takes
<1>9. ASSUME NEW m \in Message, Writes(m)
      PROVE  Chain(r, e, handed, fifo, OnWire', Writing', Listed', t)
  BY <1>2, <1>9, PipeTypes, ChainWrites, Zenon DEF Writes
<1>10. ASSUME NEW m \in Message, WriteFails(m)
       PROVE  Chain(r, e, handed, fifo, OnWire', Writing', Listed', t)
  BY <1>2, <1>3, <1>10, ElementsEmpty, ChainShrinks, Zenon DEF WriteFails
<1> QED
  BY <1>5, <1>6, <1>7, <1>8, <1>9, <1>10, Zenon DEF HubMoves

\* so do those of the edge, which do not go back to an older version of a
\* resource that was not overtaken,
NotBack == \A r \in Resources \ overtaken' : edge'[r].ver >= edge[r].ver \/ edge'[r] = Nothing

LEMMA EdgeSame ==
  ASSUME EdgeTypes, UNCHANGED edge
  PROVE  NotBack
<1>1. \A r \in Resources : edge[r].ver >= edge[r].ver
  BY DEF EdgeTypes, Contents
<1> QED
  BY <1>1, Zenon DEF NotBack

LEMMA EdgeOrder ==
  ASSUME Sound, CtlInv, OrderInv, ctlSame, EdgeMoves
  PROVE  OrderInv' /\ NotBack
<1>1. UNCHANGED <<sent, Writing, Listed>> /\ overtaken \subseteq overtaken'
  BY Zenon DEF ctlSame, ctlVars, EdgeMoves, Stays, Puts, Routes, Applies, Cuts, Forgets
<1>2. EdgeTypes /\ \A r \in Resources : edge[r].ver \in Nat /\ sent[r] \in Nat
  BY Zenon DEF OrderInv, EdgeTypes, Contents, CtlInv, CountTypes
<1>3. /\ handed \in Seq(Message) /\ fifo \in Seq(Message) /\ OnWire \in Seq(Message)
      /\ Elements(Writing) \subseteq Entry /\ Elements(Listed) \subseteq Entry
  BY <1>2, PipeTypes, Zenon DEF EdgeTypes
<1>4. ASSUME EdgeTypes', NotBack,
             \A r \in Resources \ overtaken' :
               Chain(r, edge'[r].ver, handed', fifo', OnWire', Writing, Listed, sent[r])
      PROVE  OrderInv' /\ NotBack
  BY <1>1, <1>4, Zenon DEF OrderInv, ChainOf
<1>5. ASSUME NEW r \in Resources \ overtaken
      PROVE  /\ Chain(r, edge[r].ver, handed, fifo, OnWire, Writing, Listed, sent[r])
             /\ Sorted(r, handed) /\ Sorted(r, fifo) /\ Sorted(r, OnWire) /\ Sorted(r, Listed)
  BY <1>5, Zenon DEF OrderInv, ChainOf, Chain
<1>6. CASE Stays
  BY <1>2, <1>4, <1>5, <1>6, EdgeSame, Zenon DEF Stays, EdgeTypes, edgeVars
<1>7. CASE Puts
  <2> DEFINE F == IF Len(fifo) = FifoSize THEN Tail(fifo) ELSE fifo
  <2>1. /\ UNCHANGED <<edge, handed, overtaken>> /\ fifo' = Append(F, Head(OnWire))
        /\ OnWire' = Tail(OnWire) /\ OnWire # << >> /\ (Len(fifo) = FifoSize => fifo # << >>)
    BY <1>7, Zenon DEF Puts, edgeVars
  <2>2. fifo # << >> => Tail(fifo) \in Seq(Message)
    BY <1>3
  <2>3. F \in Seq(Message)
    BY <1>3, <2>1, <2>2, Zenon
  <2>4. ASSUME NEW r \in Resources \ overtaken
        PROVE  Chain(r, edge[r].ver, handed, Append(F, Head(OnWire)), Tail(OnWire), Writing, Listed,
                     sent[r])
    <3>1. Sorted(r, F) /\ Elements(F) \subseteq Elements(fifo)
      BY <1>3, <1>5, <2>1, <2>4, ElementsHead, Zenon
    <3> HIDE DEF F
    <3>2. Chain(r, edge[r].ver, handed, F, OnWire, Writing, Listed, sent[r])
      BY <1>5, <2>4, <3>1, ChainShrinks, Zenon
    <3> QED
      BY <1>3, <2>1, <2>3, <3>2, ChainPuts, Zenon
  <2> HIDE DEF F
  <2> QED
    BY <1>2, <1>4, <2>1, <2>4, EdgeSame, Zenon DEF EdgeTypes
<1>8. CASE Routes
  <2>1. /\ UNCHANGED <<edge, overtaken, OnWire>> /\ fifo # << >> /\ fifo' = Tail(fifo)
        /\ handed' = Append(handed, Head(fifo))
    BY <1>8, Zenon DEF Routes
  <2>2. Append(handed, Head(fifo)) \in Seq(Message)
    BY <1>3, <2>1
  <2>3. ASSUME NEW r \in Resources \ overtaken
        PROVE  Chain(r, edge[r].ver, Append(handed, Head(fifo)), Tail(fifo), OnWire, Writing, Listed,
                     sent[r])
    BY <1>3, <1>5, <2>1, <2>3, ChainRoutes, Zenon
  <2> QED
    BY <1>2, <1>4, <2>1, <2>2, <2>3, EdgeSame, Zenon DEF EdgeTypes
<1>9. CASE Cuts
  <2>1. UNCHANGED <<edge, handed, overtaken, fifo>> /\ OnWire' = << >>
    BY <1>9, Zenon DEF Cuts, edgeVars
  <2>2. ASSUME NEW r \in Resources \ overtaken
        PROVE  Chain(r, edge[r].ver, handed, fifo, << >>, Writing, Listed, sent[r])
    BY <1>5, <2>2, ElementsEmpty, ChainShrinks, Zenon
  <2> QED
    BY <1>2, <1>4, <2>1, <2>2, EdgeSame, Zenon DEF EdgeTypes
<1>10. CASE Forgets
  <2>1. /\ edge' = [r \in Resources |-> Nothing] /\ UNCHANGED overtaken
        /\ handed' = << >> /\ fifo' = << >> /\ OnWire' = << >>
    BY <1>10, Zenon DEF Forgets
  <2>2. /\ Nothing \in Contents /\ Nothing.ver = 0
    BY Zenon DEF Nothing, Contents
  <2>3. << >> \in Seq(Message)
    OBVIOUS
  <2>4. /\ EdgeTypes' /\ \A r \in Resources : edge'[r] = Nothing /\ edge'[r].ver = 0
    BY <2>1, <2>2, <2>3, Zenon DEF EdgeTypes
  <2>5. ASSUME NEW r \in Resources \ overtaken
        PROVE  Chain(r, 0, << >>, << >>, << >>, Writing, Listed, sent[r])
    BY <1>2, <1>3, <1>5, <2>5, ChainForgets, Zenon
  <2> QED
    BY <1>4, <2>1, <2>4, <2>5, Zenon DEF NotBack
<1>11. ASSUME NEW i \in DOMAIN handed, Applies(i)
       PROVE  OrderInv' /\ NotBack
  <2> DEFINE h == handed[i]
             w == Without(handed, i)
  <2>1. /\ edge' = [edge EXCEPT ![h.res] = [ver |-> h.ver, live |-> h.live]] /\ handed' = w
        /\ UNCHANGED <<fifo, OnWire>>
        /\ overtaken' = IF Ahead(i) THEN overtaken \cup {h.res} ELSE overtaken
    BY <1>11, Zenon DEF Applies
  <2>2. i \in 1..Len(handed) /\ h \in Message
    BY <1>3
  <2>3. h.res \in Resources /\ h.ver \in Nat /\ h.live \in BOOLEAN
    BY <2>2, Zenon DEF Message
  <2>4. w \in Seq(Message)
    BY <1>3, <2>2, WithoutIs, Zenon
  <2> HIDE DEF h, w
  <2>5. EdgeTypes' /\ edge'[h.res].ver = h.ver /\ \A r \in Resources : r # h.res => edge'[r] = edge[r]
    BY <1>2, <2>1, <2>3, <2>4, Zenon DEF EdgeTypes, Contents
  <2>6. ASSUME NEW r \in Resources \ overtaken'
        PROVE  /\ Chain(r, edge'[r].ver, w, fifo, OnWire, Writing, Listed, sent[r])
               /\ edge'[r].ver >= edge[r].ver
    <3>1. r \in Resources \ overtaken
      BY <1>1, <2>6, Zenon
    <3>2. CASE r = h.res
      <4>1. \A j \in 1..(i - 1) : Clear(handed[j], r)
        BY <2>1, <2>6, <3>2, Zenon DEF Ahead, Clear, h
      <4>2. Chain(r, h.ver, w, fifo, OnWire, Writing, Listed, sent[r]) /\ edge[r].ver <= h.ver
        BY <1>3, <1>5, <2>2, <3>1, <3>2, <4>1, ChainApplies, Zenon DEF h, w
      <4>3. h.ver >= edge[r].ver
        BY <1>2, <2>3, <3>1, <4>2
      <4> QED
        BY <2>5, <3>2, <4>2, <4>3, Zenon
    <3>3. CASE r # h.res
      <4>1. Elements(w) \subseteq Elements(handed) /\ Sorted(r, w)
        BY <1>3, <1>5, <2>2, <3>1, ElementsWithout, Zenon DEF w
      <4>2. Chain(r, edge[r].ver, w, fifo, OnWire, Writing, Listed, sent[r])
        BY <1>5, <3>1, <4>1, ChainShrinks, Zenon
      <4>3. edge[r].ver >= edge[r].ver
        BY <1>2, <3>1
      <4> QED
        BY <2>5, <3>1, <3>3, <4>2, <4>3, Zenon
    <3> QED
      BY <3>2, <3>3, Zenon
  <2> QED
    BY <1>4, <2>1, <2>5, <2>6, Zenon DEF NotBack
<1> QED
  BY <1>6, <1>7, <1>8, <1>9, <1>10, <1>11, Zenon DEF EdgeMoves

\* and those of the controller and of its environment.
LEMMA SendOrder ==
  ASSUME Sound, CtlInv, OrderInv, NEW m \in Message, Sends(m)
  PROVE  OrderInv' /\ UNCHANGED edge
<1>1. /\ sent' = IF m.ver < sent[m.res] THEN sent ELSE [sent EXCEPT ![m.res] = m.ver]
      /\ overtaken' = IF m.ver < sent[m.res] THEN overtaken \cup {m.res} ELSE overtaken
      /\ Listed' = Listed \/ Listed' = Append(Listed, m)
      /\ UNCHANGED <<edge, handed, fifo, OnWire, Writing>>
  BY Zenon DEF Sends, edgeVars
<1>2. m \in Entry /\ m.res \in Resources /\ m.ver \in Nat
  BY Zenon DEF Entry, Message
<1>3. /\ handed \in Seq(Message) /\ sent \in [Resources -> Nat]
      /\ \A r \in Resources : edge[r].ver \in Nat
  BY Zenon DEF OrderInv, EdgeTypes, Contents, CtlInv, CountTypes
<1>4. Elements(handed) \subseteq Entry
  BY <1>3, ElementsIn, PipeTypes, Zenon
<1> SUFFICES ASSUME NEW r \in Resources \ overtaken'
             PROVE  Chain(r, edge[r].ver, handed, fifo, OnWire, Writing, Listed', sent'[r])
  BY <1>1, Zenon DEF OrderInv, EdgeTypes, ChainOf
<1> DEFINE t == sent[r]
           t2 == sent'[r]
<1>5. Chain(r, edge[r].ver, handed, fifo, OnWire, Writing, Listed, t) /\ r \in Resources
  BY <1>1, Zenon DEF OrderInv, ChainOf
<1>6. t \in Nat /\ t2 \in Nat /\ t <= t2 /\ (m.res # r \/ m.ver = t2)
  <2>1. CASE m.ver < sent[m.res]
    BY <1>1, <1>3, <1>5, <2>1
  <2>2. CASE ~(m.ver < sent[m.res])
    BY <1>1, <1>2, <1>3, <1>5, <2>2
  <2> QED
    BY <2>1, <2>2, Zenon
<1>7. Clear(m, r) \/ m.ver = t2
  BY <1>6, Zenon DEF Clear
<1> HIDE DEF t, t2
<1>8. /\ Chain(r, edge[r].ver, handed, fifo, OnWire, Writing, Listed, t2)
      /\ Chain(r, edge[r].ver, handed, fifo, OnWire, Writing, Append(Listed, m), t2)
  BY <1>2, <1>3, <1>4, <1>5, <1>6, <1>7, PipeTypes, ChainSends, Zenon
<1> QED
  BY <1>1, <1>8, Zenon DEF t2

-----------------------------------------------------------------------------
(* The newest message of a resource.                                       *)

LEMMA EndEmpty ==
  ASSUME NEW m, NEW r
  PROVE  NoneIn(<< >>, r) /\ ~LastIn(<< >>, m)
BY DEF NoneIn, LastIn

LEMMA EndOne ==
  ASSUME NEW n, NEW m, NEW r
  PROVE  (NoneIn(<<n>>, r) <=> Clear(n, r)) /\ (LastIn(<<n>>, m) <=> n = m)
<1>1. Len(<<n>>) = 1 /\ <<n>>[1] = n /\ 1..1 = {1}
  OBVIOUS
<1> QED
  BY <1>1 DEF NoneIn, LastIn

\* A message m is about its resource.
LEMMA NotClear ==
  ASSUME NEW m \in Message
  PROVE  ~Clear(m, m.res)
BY StopAssumption, Zenon DEF Clear

LEMMA EndBoth ==
  ASSUME NEW q, NEW m \in Message
  PROVE  ~(LastIn(q, m) /\ NoneIn(q, m.res))
BY NotClear, Zenon DEF LastIn, NoneIn

LEMMA EndHead ==
  ASSUME NEW S, NEW q \in Seq(S), q # << >>, NEW m \in Message
  PROVE  /\ NoneIn(q, m.res) <=> Clear(Head(q), m.res) /\ NoneIn(Tail(q), m.res)
         /\ LastIn(q, m) <=> LastIn(Tail(q), m) \/ (Head(q) = m /\ NoneIn(Tail(q), m.res))
<1> DEFINE t == Tail(q)
<1>1. /\ Len(q) \in Nat \ {0} /\ Len(t) = Len(q) - 1
      /\ Head(q) = q[1] /\ \A i \in 1..Len(t) : t[i] = q[i + 1]
  OBVIOUS
<1>2. /\ 1 \in 1..Len(q)
      /\ \A i \in 1..Len(t) : i + 1 \in 1..Len(q)
      /\ \A i \in 1..Len(q) : i = 1 \/ (i - 1 \in 1..Len(t) /\ q[i] = t[i - 1])
      /\ \A i \in 1..Len(q) : i > 1 => i - 1 \in 1..Len(t)
  BY <1>1
<1> HIDE DEF t
<1>3. NoneIn(q, m.res) <=> Clear(q[1], m.res) /\ NoneIn(t, m.res)
  <2>1. NoneIn(q, m.res) => Clear(q[1], m.res) /\ NoneIn(t, m.res)
    BY <1>1, <1>2, Zenon DEF NoneIn
  <2>2. Clear(q[1], m.res) /\ NoneIn(t, m.res) => NoneIn(q, m.res)
    BY <1>2, Zenon DEF NoneIn
  <2> QED
    BY <2>1, <2>2, Zenon
<1>4. ASSUME LastIn(q, m)
      PROVE  LastIn(t, m) \/ (q[1] = m /\ NoneIn(t, m.res))
  <2>1. PICK i \in 1..Len(q) : q[i] = m /\ \A j \in 1..Len(q) : j > i => Clear(q[j], m.res)
    BY <1>4, Zenon DEF LastIn
  <2>2. CASE i = 1
    <3>1. \A j \in 1..Len(t) : Clear(t[j], m.res)
      <4> SUFFICES ASSUME NEW j \in 1..Len(t)
                   PROVE  Clear(t[j], m.res)
        BY Zenon
      <4>1. j + 1 \in 1..Len(q) /\ j + 1 > i /\ t[j] = q[j + 1]
        BY <1>1, <2>2
      <4> QED
        BY <2>1, <4>1, Zenon
    <3> QED
      BY <2>1, <2>2, <3>1, Zenon DEF NoneIn
  <2>3. CASE i # 1
    <3>1. i - 1 \in 1..Len(t) /\ t[i - 1] = m
      BY <1>2, <2>1, <2>3, Zenon
    <3>2. \A j \in 1..Len(t) : j > i - 1 => Clear(t[j], m.res)
      <4> SUFFICES ASSUME NEW j \in 1..Len(t), j > i - 1
                   PROVE  Clear(t[j], m.res)
        BY Zenon
      <4>1. j + 1 \in 1..Len(q) /\ j + 1 > i /\ t[j] = q[j + 1]
        BY <1>1
      <4> QED
        BY <2>1, <4>1, Zenon
    <3> QED
      BY <3>1, <3>2, Zenon DEF LastIn
  <2> QED
    BY <2>2, <2>3, Zenon
<1>5. ASSUME LastIn(t, m)
      PROVE  LastIn(q, m)
  <2>1. PICK i \in 1..Len(t) : t[i] = m /\ \A j \in 1..Len(t) : j > i => Clear(t[j], m.res)
    BY <1>5, Zenon DEF LastIn
  <2>2. i + 1 \in 1..Len(q) /\ q[i + 1] = m
    BY <1>1, <1>2, <2>1, Zenon
  <2>3. \A j \in 1..Len(q) : j > i + 1 => Clear(q[j], m.res)
    <3> SUFFICES ASSUME NEW j \in 1..Len(q), j > i + 1
                 PROVE  Clear(q[j], m.res)
      BY Zenon
    <3>1. j - 1 \in 1..Len(t) /\ j - 1 > i /\ q[j] = t[j - 1]
      BY <1>1
    <3> QED
      BY <2>1, <3>1, Zenon
  <2> QED
    BY <2>2, <2>3, Zenon DEF LastIn
<1>6. ASSUME q[1] = m, NoneIn(t, m.res)
      PROVE  LastIn(q, m)
  <2>1. \A j \in 1..Len(q) : j > 1 => Clear(q[j], m.res)
    <3> SUFFICES ASSUME NEW j \in 1..Len(q), j > 1
                 PROVE  Clear(q[j], m.res)
      BY Zenon
    <3>1. j - 1 \in 1..Len(t) /\ q[j] = t[j - 1]
      BY <1>1
    <3> QED
      BY <1>6, <3>1, Zenon DEF NoneIn
  <2> QED
    BY <1>2, <1>6, <2>1, Zenon DEF LastIn
<1> QED
  BY <1>1, <1>3, <1>4, <1>5, <1>6, Zenon DEF t

LEMMA EndAppend ==
  ASSUME NEW S, NEW q \in Seq(S), NEW n \in S, NEW m \in Message
  PROVE  /\ NoneIn(Append(q, n), m.res) <=> NoneIn(q, m.res) /\ Clear(n, m.res)
         /\ LastIn(Append(q, n), m) <=> n = m \/ (LastIn(q, m) /\ Clear(n, m.res))
<1> DEFINE a == Append(q, n)
<1>1. /\ Len(q) \in Nat /\ Len(a) = Len(q) + 1 /\ a[Len(q) + 1] = n
      /\ \A i \in 1..Len(q) : a[i] = q[i]
  OBVIOUS
<1>2. /\ Len(q) + 1 \in 1..Len(a) /\ 1..Len(q) \subseteq 1..Len(a)
      /\ \A i \in 1..Len(a) : i \in 1..Len(q) \/ i = Len(q) + 1
      /\ \A i \in 1..Len(q) : Len(q) + 1 > i
      /\ \A i \in 1..Len(a) : ~(i > Len(q) + 1)
  BY <1>1
<1> HIDE DEF a
<1>3. NoneIn(a, m.res) <=> NoneIn(q, m.res) /\ Clear(n, m.res)
  <2>1. NoneIn(a, m.res) => NoneIn(q, m.res) /\ Clear(n, m.res)
    BY <1>1, <1>2, Zenon DEF NoneIn
  <2>2. NoneIn(q, m.res) /\ Clear(n, m.res) => NoneIn(a, m.res)
    BY <1>1, <1>2, Zenon DEF NoneIn
  <2> QED
    BY <2>1, <2>2, Zenon
<1>4. n = m => LastIn(a, m)
  BY <1>1, <1>2, Zenon DEF LastIn
<1>5. ASSUME LastIn(q, m), Clear(n, m.res)
      PROVE  LastIn(a, m)
  <2>1. PICK i \in 1..Len(q) : q[i] = m /\ \A j \in 1..Len(q) : j > i => Clear(q[j], m.res)
    BY <1>5, Zenon DEF LastIn
  <2>2. i \in 1..Len(a) /\ a[i] = m /\ \A j \in 1..Len(a) : j > i => Clear(a[j], m.res)
    BY <1>1, <1>2, <1>5, <2>1, Zenon
  <2> QED
    BY <2>2, Zenon DEF LastIn
<1>6. ASSUME LastIn(a, m), n # m
      PROVE  LastIn(q, m) /\ Clear(n, m.res)
  <2>1. PICK i \in 1..Len(a) : a[i] = m /\ \A j \in 1..Len(a) : j > i => Clear(a[j], m.res)
    BY <1>6, Zenon DEF LastIn
  <2>2. i \in 1..Len(q)
    BY <1>1, <1>2, <1>6, <2>1, Zenon
  <2>3. Clear(n, m.res) /\ q[i] = m /\ \A j \in 1..Len(q) : j > i => Clear(q[j], m.res)
    BY <1>1, <1>2, <2>1, <2>2, Zenon
  <2> QED
    BY <2>2, <2>3, Zenon DEF LastIn
<1> QED
  BY <1>3, <1>4, <1>5, <1>6, Zenon DEF a

\* What is written off is the newest message of a resource.
LEMMA LostIsNewest ==
  ASSUME NEW q, NEW m \in Message, LastIn(q, m), m.ver = sent[m.res], DOMAIN q = 1..Len(q)
  PROVE  m.res \in Newest(q)
<1>1. m # Stop /\ m \in {q[i] : i \in DOMAIN q}
  BY StopAssumption, Zenon DEF LastIn
<1> QED
  BY <1>1, Zenon DEF Newest

LEMMA LostOne ==
  ASSUME NEW n, NEW m \in Message, m.ver = sent[m.res], m.res \notin Newest(<<n>>)
  PROVE  n # m
<1>1. DOMAIN <<n>> = 1..Len(<<n>>)
  OBVIOUS
<1> QED
  BY <1>1, EndOne, LostIsNewest, Zenon

LEMMA ElementsBoth ==
  ASSUME NEW p \in Seq(Message), NEW q \in Seq(Message), NEW w, w = p \o q
  PROVE  w \in Seq(Message) /\ Elements(p) \subseteq Elements(w) /\ Elements(q) \subseteq Elements(w)
<1>1. /\ w \in Seq(Message) /\ Len(w) = Len(p) + Len(q) /\ Len(p) \in Nat /\ Len(q) \in Nat
      /\ \A i \in 1..Len(p) : w[i] = p[i]
      /\ \A i \in 1..Len(q) : w[Len(p) + i] = q[i]
  OBVIOUS
<1>2. \A i \in 1..Len(p) : \E j \in 1..Len(w) : w[j] = p[i]
  BY <1>1
<1>3. \A i \in 1..Len(q) : \E j \in 1..Len(w) : w[j] = q[i]
  <2> SUFFICES ASSUME NEW i \in 1..Len(q)
               PROVE  \E j \in 1..Len(w) : w[j] = q[i]
    BY Zenon
  <2>1. Len(p) + i \in 1..Len(w)
    BY <1>1
  <2> QED
    BY <1>1, <2>1, Zenon
<1>4. \A x \in Elements(p) \cup Elements(q) : \E j \in 1..Len(w) : w[j] = x
  BY <1>2, <1>3, Zenon DEF Elements
<1>5. \A x : (\E j \in 1..Len(w) : w[j] = x) => x \in Elements(w)
  BY Zenon DEF Elements
<1> QED
  BY <1>1, <1>4, <1>5, Zenon

LEMMA LostAll ==
  ASSUME NEW p \in Seq(Message), NEW q \in Seq(Message), NEW s \in Seq(Message), NEW m \in Message,
         m.ver = sent[m.res], m.res \notin Newest(p \o q \o s)
  PROVE  ~LastIn(p, m) /\ ~LastIn(q, m) /\ ~LastIn(s, m)
<1> DEFINE v == p \o q
           w == p \o q \o s
<1>1. v \in Seq(Message) /\ Elements(p) \subseteq Elements(v) /\ Elements(q) \subseteq Elements(v)
  BY ElementsBoth, Zenon
<1>2. w \in Seq(Message) /\ Elements(v) \subseteq Elements(w) /\ Elements(s) \subseteq Elements(w)
  BY <1>1, ElementsBoth, Zenon
<1>3. DOMAIN w = 1..Len(w)
  BY <1>2
<1>4. m \notin Elements(w)
  BY <1>3, StopAssumption, Zenon DEF Newest, Elements
<1> HIDE DEF v, w
<1>5. \A x : LastIn(x, m) => m \in Elements(x)
  BY Zenon DEF LastIn, Elements
<1> QED
  BY <1>1, <1>2, <1>4, <1>5, Zenon

\* What EdgeApply leaves of the messages about a resource: the last one, unless
\* it has taken that.
LEMMA EndWithout ==
  ASSUME NEW q \in Seq(Message), NEW i \in 1..Len(q), NEW w, w = Without(q, i), NEW m \in Message
  PROVE  /\ NoneIn(q, m.res) => NoneIn(w, m.res)
         /\ LastIn(q, m) => \/ LastIn(w, m)
                            \/ q[i] = m /\ \A j \in 1..Len(q) : j > i => Clear(q[j], m.res)
         /\ (\A j \in 1..Len(q) : j # i => Clear(q[j], m.res)) => NoneIn(w, m.res)
<1> DEFINE at(j) == IF j < i THEN j ELSE j + 1
           from(k) == IF k < i THEN k ELSE k - 1
<1>1. \A j \in 1..Len(w) : at(j) \in 1..Len(q) /\ at(j) # i /\ w[j] = q[at(j)]
  BY WithoutIs
<1>2. \A j \in 1..Len(w), k \in 1..Len(q) : k # i /\ j > from(k) => at(j) > k
  BY WithoutIs
<1>3. ASSUME NEW k \in 1..Len(q), k # i
      PROVE  from(k) \in 1..Len(w) /\ w[from(k)] = q[k]
  <2>1. /\ Len(q) \in Nat /\ Len(w) = Len(q) - 1
        /\ \A j \in 1..Len(w) : w[j] = IF j < i THEN q[j] ELSE q[j + 1]
    BY WithoutIs
  <2>2. from(k) \in 1..Len(w) /\ (from(k) < i => from(k) = k) /\ (~(from(k) < i) => from(k) + 1 = k)
    BY <1>3, <2>1
  <2> HIDE DEF from
  <2> QED
    BY <2>1, <2>2, Zenon
<1> HIDE DEF at, from
<1>4. (\A j \in 1..Len(q) : j # i => Clear(q[j], m.res)) => NoneIn(w, m.res)
  BY <1>1, Zenon DEF NoneIn
<1>5. ASSUME LastIn(q, m)
      PROVE  LastIn(w, m) \/ (q[i] = m /\ \A j \in 1..Len(q) : j > i => Clear(q[j], m.res))
  <2>1. PICK k \in 1..Len(q) : q[k] = m /\ \A j \in 1..Len(q) : j > k => Clear(q[j], m.res)
    BY <1>5, Zenon DEF LastIn
  <2>2. CASE k = i
    BY <2>1, <2>2, Zenon
  <2>3. CASE k # i
    <3>1. from(k) \in 1..Len(w) /\ w[from(k)] = m
      BY <1>3, <2>1, <2>3, Zenon
    <3>2. \A j \in 1..Len(w) : j > from(k) => Clear(w[j], m.res)
      BY <1>1, <1>2, <2>1, <2>3, Zenon
    <3> QED
      BY <3>1, <3>2, Zenon DEF LastIn
  <2> QED
    BY <2>2, <2>3, Zenon
<1> QED
  BY <1>4, <1>5, Zenon DEF NoneIn

LEMMA CurrentIs ==
  ASSUME CtlInv, NEW r \in Resources
  PROVE  Current(r) \in Message /\ Current(r).res = r /\ Current(r).ver = store[r].ver
         /\ Current(r).live = store[r].live
BY Zenon DEF CtlInv, CountTypes, Stores, Current, Message

\* Cloudhub passes the newest message on, or writes it off,
LEMMA HubCarries ==
  ASSUME Sound, CtlInv, ctlSame, HubMoves, NEW r \in Resources, r \notin doubt',
         sent[r] = store[r].ver, CarriedOn(r)
  PROVE  CarriedOn(r)'
<1> DEFINE m == Current(r)
<1>1. m \in Message /\ m.res = r /\ m.ver = sent[m.res]
  BY CurrentIs, Zenon
<1>2. UNCHANGED <<store, edge, handed, fifo>> /\ m' = m
  BY Zenon DEF ctlSame, ctlVars, edgeVars, HubMoves, Stays, DropsQueue, GetsStop, DropsMessage, TakesMessage,
         Writes, WriteFails, Current
<1> HIDE DEF m
<1>3. /\ Carried(m, edge[r], handed, fifo, OnWire, Writing, Listed)
      /\ Down => NoneIn(Listed, r)
  BY Zenon DEF CarriedOn, m
<1>4. SUFFICES /\ Carried(m, edge[r], handed, fifo, OnWire', Writing', Listed')
               /\ Down' => NoneIn(Listed', r)
  BY <1>2, Zenon DEF CarriedOn, m
<1>5. CASE Stays
  BY <1>3, <1>5, Zenon DEF Stays
<1>6. CASE DropsQueue
  <2>1. ~LastIn(Listed, m)
    BY <1>1, <1>3, <1>6, EndBoth, Zenon DEF DropsQueue
  <2>2. NoneIn(<< >>, r)
    BY EndEmpty, Zenon
  <2>3. Listed' = << >> /\ UNCHANGED <<OnWire, Writing>>
    BY <1>6, Zenon DEF DropsQueue
  <2> QED
    BY <1>1, <1>3, <2>1, <2>2, <2>3, Zenon DEF Carried
<1>7. CASE GetsStop
  <2>1. Listed \in Seq(Entry) /\ DOMAIN Listed = 1..Len(Listed)
    BY PipeTypes
  <2>2. r \notin Newest(Listed)
    BY <1>7, Zenon DEF GetsStop
  <2>3. ~LastIn(Listed, m)
    BY <1>1, <2>1, <2>2, LostIsNewest, Zenon
  <2>4. NoneIn(Listed, r)
    BY <1>1, <1>3, <2>3, Zenon DEF Carried
  <2>5. NoneIn(Tail(Listed), r)
    BY <1>1, <1>7, <2>1, <2>4, EndHead, Zenon DEF GetsStop
  <2>6. Listed' = Tail(Listed) /\ UNCHANGED <<OnWire, Writing>>
    BY <1>7, Zenon DEF GetsStop, Drops
  <2> QED
    BY <1>1, <1>3, <2>3, <2>5, <2>6, Zenon DEF Carried
<1>8. CASE DropsMessage
  <2>1. Listed \in Seq(Entry) /\ Listed # << >> /\ r \notin Newest(<<Head(Listed)>>)
    BY <1>8, PipeTypes, Zenon DEF DropsMessage
  <2>2. Head(Listed) # m
    BY <1>1, <2>1, LostOne, Zenon
  <2>3. /\ LastIn(Listed, m) => LastIn(Tail(Listed), m)
        /\ NoneIn(Listed, r) => NoneIn(Tail(Listed), r)
    BY <1>1, <2>1, <2>2, EndHead, Zenon
  <2>4. Listed' = Tail(Listed) /\ ~Down' /\ UNCHANGED <<OnWire, Writing>>
    BY <1>8, Zenon DEF DropsMessage, Drops
  <2> QED
    BY <1>1, <1>3, <2>3, <2>4, Zenon DEF Carried
<1>9. CASE TakesMessage
  <2>1. /\ Listed \in Seq(Entry) /\ Listed # << >> /\ Listed' = Tail(Listed) /\ Writing = << >>
        /\ Writing' = <<Head(Listed)>> /\ ~Down' /\ UNCHANGED OnWire
    BY <1>9, PipeTypes, Zenon DEF TakesMessage, Takes
  <2>2. /\ NoneIn(Listed, r) <=> Clear(Head(Listed), r) /\ NoneIn(Tail(Listed), r)
        /\ LastIn(Listed, m) <=> LastIn(Tail(Listed), m) \/ (Head(Listed) = m /\ NoneIn(Tail(Listed), r))
    BY <1>1, <2>1, EndHead, Zenon
  <2>3. NoneIn(<< >>, r) /\ ~LastIn(<< >>, m)
    BY EndEmpty, Zenon
  <2>4. /\ NoneIn(<<Head(Listed)>>, r) <=> Clear(Head(Listed), r)
        /\ LastIn(<<Head(Listed)>>, m) <=> Head(Listed) = m
    BY EndOne, Zenon
  <2> QED
    BY <1>1, <1>3, <2>1, <2>2, <2>3, <2>4, Zenon DEF Carried
<1>10. ASSUME NEW n \in Message, Writes(n)
       PROVE  /\ Carried(m, edge[r], handed, fifo, OnWire', Writing', Listed')
              /\ Down' => NoneIn(Listed', r)
  <2>1. /\ OnWire \in Seq(Message) /\ Writing = <<n>> /\ Writing' = << >>
        /\ OnWire' = Append(OnWire, n) /\ (Down' <=> Down) /\ UNCHANGED Listed
    BY <1>10, PipeTypes, Zenon DEF Writes
  <2>2. /\ NoneIn(OnWire', r) <=> NoneIn(OnWire, r) /\ Clear(n, r)
        /\ LastIn(OnWire', m) <=> n = m \/ (LastIn(OnWire, m) /\ Clear(n, r))
    BY <1>1, <2>1, EndAppend, Zenon
  <2>3. (NoneIn(<<n>>, r) <=> Clear(n, r)) /\ (LastIn(<<n>>, m) <=> n = m)
    BY EndOne, Zenon
  <2>4. NoneIn(<< >>, r) /\ ~LastIn(<< >>, m)
    BY EndEmpty, Zenon
  <2> QED
    BY <1>1, <1>3, <2>1, <2>2, <2>3, <2>4, Zenon DEF Carried
<1>11. ASSUME NEW n \in Message, WriteFails(n)
       PROVE  /\ Carried(m, edge[r], handed, fifo, OnWire', Writing', Listed')
              /\ Down' => NoneIn(Listed', r)
  <2>1. /\ Writing = <<n>> /\ Writing' = << >> /\ r \notin Newest(<<n>>)
        /\ (Down' <=> Down) /\ UNCHANGED <<Listed, OnWire>>
    BY <1>11, Zenon DEF WriteFails
  <2>2. n # m
    BY <1>1, <2>1, LostOne, Zenon
  <2>3. ~LastIn(<<n>>, m) /\ NoneIn(<< >>, r)
    BY <2>2, EndOne, EndEmpty, Zenon
  <2> QED
    BY <1>1, <1>3, <2>1, <2>3, Zenon DEF Carried
<1> QED
  BY <1>5, <1>6, <1>7, <1>8, <1>9, <1>10, <1>11, Zenon DEF HubMoves

\* so does the edge until it has applied it,
LEMMA EdgeCarries ==
  ASSUME Sound, CtlInv, EdgeTypes, ctlSame, EdgeMoves, NEW r \in Resources, r \notin doubt',
         sent[r] = store[r].ver, CarriedOn(r)
  PROVE  CarriedOn(r)'
<1> DEFINE m == Current(r)
<1>1. m \in Message /\ m.res = r /\ m.ver = sent[m.res]
  BY CurrentIs, Zenon
<1>2. UNCHANGED <<store, Writing, Listed>> /\ (Down' <=> Down) /\ m' = m
  BY Zenon DEF ctlSame, ctlVars, EdgeMoves, Stays, Puts, Routes, Applies, Cuts, Forgets,
         Current
<1> HIDE DEF m
<1>3. /\ Carried(m, edge[r], handed, fifo, OnWire, Writing, Listed)
      /\ Down => NoneIn(Listed, r)
  BY Zenon DEF CarriedOn, m
<1>4. SUFFICES Carried(m, edge'[r], handed', fifo', OnWire', Writing, Listed)
  BY <1>2, <1>3, Zenon DEF CarriedOn, m
<1>5. CASE Stays
  BY <1>3, <1>5, Zenon DEF Stays, edgeVars
<1>6. CASE Puts
  <2> DEFINE F == IF Len(fifo) = FifoSize THEN Tail(fifo) ELSE fifo
  <2>1. /\ fifo \in Seq(Message) /\ OnWire \in Seq(Message) /\ OnWire # << >>
        /\ UNCHANGED <<edge, handed>>
        /\ OnWire' = Tail(OnWire) /\ fifo' = Append(F, Head(OnWire)) /\ Head(OnWire) \in Message
    BY <1>6, PipeTypes DEF Puts, edgeVars
  <2>2. /\ F \in Seq(Message)
        /\ LastIn(fifo, m) => LastIn(F, m)
        /\ NoneIn(fifo, r) => NoneIn(F, r)
    <3>1. CASE Len(fifo) = FifoSize
      <4>1. F = Tail(fifo) /\ fifo # << >> /\ r \notin Newest(<<Head(fifo)>>)
        BY <1>6, <3>1, Zenon DEF Puts
      <4>2. Head(fifo) # m
        BY <1>1, <4>1, LostOne, Zenon
      <4>3. F \in Seq(Message)
        BY <2>1, <4>1
      <4> QED
        BY <1>1, <2>1, <4>1, <4>2, <4>3, EndHead, Zenon
    <3>2. CASE Len(fifo) # FifoSize
      BY <2>1, <3>2, Zenon
    <3> QED
      BY <3>1, <3>2, Zenon
  <2> HIDE DEF F
  <2>3. /\ NoneIn(OnWire, r) <=> Clear(Head(OnWire), r) /\ NoneIn(Tail(OnWire), r)
        /\ LastIn(OnWire, m) <=> LastIn(Tail(OnWire), m) \/ (Head(OnWire) = m /\ NoneIn(Tail(OnWire), r))
    BY <1>1, <2>1, EndHead, Zenon
  <2>4. /\ NoneIn(fifo', r) <=> NoneIn(F, r) /\ Clear(Head(OnWire), r)
        /\ LastIn(fifo', m) <=> Head(OnWire) = m \/ (LastIn(F, m) /\ Clear(Head(OnWire), r))
    BY <1>1, <2>1, <2>2, EndAppend, Zenon
  <2> QED
    BY <1>1, <1>3, <2>1, <2>2, <2>3, <2>4, Zenon DEF Carried
<1>7. CASE Routes
  <2>1. /\ handed \in Seq(Message) /\ fifo \in Seq(Message) /\ fifo # << >>
        /\ UNCHANGED <<edge, OnWire>>
        /\ fifo' = Tail(fifo) /\ handed' = Append(handed, Head(fifo)) /\ Head(fifo) \in Message
    BY <1>7, PipeTypes DEF Routes, EdgeTypes
  <2>2. /\ NoneIn(fifo, r) <=> Clear(Head(fifo), r) /\ NoneIn(Tail(fifo), r)
        /\ LastIn(fifo, m) <=> LastIn(Tail(fifo), m) \/ (Head(fifo) = m /\ NoneIn(Tail(fifo), r))
    BY <1>1, <2>1, EndHead, Zenon
  <2>3. /\ NoneIn(handed', r) <=> NoneIn(handed, r) /\ Clear(Head(fifo), r)
        /\ LastIn(handed', m) <=> Head(fifo) = m \/ (LastIn(handed, m) /\ Clear(Head(fifo), r))
    BY <1>1, <2>1, EndAppend, Zenon
  <2> QED
    BY <1>1, <1>3, <2>1, <2>2, <2>3, Zenon DEF Carried
<1>8. CASE Cuts
  <2>1. OnWire' = << >> /\ UNCHANGED <<edge, handed, fifo>> /\ r \notin Newest(OnWire)
    BY <1>8, Zenon DEF Cuts, edgeVars
  <2>2. DOMAIN OnWire = 1..Len(OnWire)
    BY PipeTypes
  <2>3. ~LastIn(OnWire, m) /\ NoneIn(<< >>, r)
    BY <1>1, <2>1, <2>2, LostIsNewest, EndEmpty, Zenon
  <2> QED
    BY <1>1, <1>3, <2>1, <2>3, Zenon DEF Carried
<1>9. CASE Forgets
  <2>1. /\ handed' = << >> /\ fifo' = << >> /\ OnWire' = << >>
        /\ edge'[r] = Nothing /\ edge[r] = Nothing /\ r \notin Newest(OnWire \o fifo \o handed)
    BY <1>9, Zenon DEF Forgets
  <2>2. handed \in Seq(Message)
    BY Zenon DEF EdgeTypes
  <2>3. ~LastIn(OnWire, m) /\ ~LastIn(fifo, m) /\ ~LastIn(handed, m) /\ NoneIn(<< >>, r)
    BY <1>1, <2>1, <2>2, PipeTypes, LostAll, EndEmpty, Zenon
  <2> QED
    BY <1>1, <1>3, <2>1, <2>3, Zenon DEF Carried
<1>10. ASSUME NEW i \in DOMAIN handed, Applies(i)
       PROVE  Carried(m, edge'[r], handed', fifo', OnWire', Writing, Listed)
  <2> DEFINE h == handed[i]
  <2>1. /\ edge' = [edge EXCEPT ![h.res] = [ver |-> h.ver, live |-> h.live]]
        /\ handed' = Without(handed, i) /\ UNCHANGED <<fifo, OnWire>>
        /\ Ahead(i) => r \notin Newest(<<h>>)
    BY <1>10, Zenon DEF Applies
  <2>2. handed \in Seq(Message) /\ i \in 1..Len(handed) /\ h \in Message
    BY DEF EdgeTypes
  <2>3. h # Stop /\ h.res \in Resources /\ edge \in [Resources -> Contents]
    BY <2>2, StopAssumption, Zenon DEF Message, EdgeTypes
  <2>4. Ahead(i) => h # m
    BY <1>1, <2>1, LostOne, Zenon
  <2>5. /\ NoneIn(handed, r) => NoneIn(handed', r)
        /\ LastIn(handed, m) =>
             LastIn(handed', m) \/ (h = m /\ \A j \in 1..Len(handed) : j > i => Clear(handed[j], r))
        /\ (\A j \in 1..Len(handed) : j # i => Clear(handed[j], r)) => NoneIn(handed', r)
    <3>1. ASSUME NEW w, w = Without(handed, i)
          PROVE  /\ NoneIn(handed, m.res) => NoneIn(w, m.res)
                 /\ LastIn(handed, m) =>
                      \/ LastIn(w, m)
                      \/ h = m /\ \A j \in 1..Len(handed) : j > i => Clear(handed[j], m.res)
                 /\ (\A j \in 1..Len(handed) : j # i => Clear(handed[j], m.res)) => NoneIn(w, m.res)
      BY <1>1, <2>2, <3>1, EndWithout, Zenon
    <3> QED
      BY <1>1, <2>1, <3>1, Zenon
  <2>6. ASSUME h = m, \A j \in 1..Len(handed) : j > i => Clear(handed[j], r)
        PROVE  NoneIn(handed', r) /\ Matches(edge'[r], m)
    <3>1. \A j \in 1..(i - 1) : Clear(handed[j], r)
      BY <1>1, <2>4, <2>6, Zenon DEF Ahead, Clear
    <3>2. \A j \in 1..Len(handed) : j # i => j > i \/ j \in 1..(i - 1)
      BY <2>2
    <3>3. NoneIn(handed', r)
      BY <2>5, <2>6, <3>1, <3>2, Zenon
    <3>4. Matches(edge'[r], m)
      BY <1>1, <2>1, <2>3, <2>6, Zenon DEF Matches
    <3> QED
      BY <3>3, <3>4, Zenon
  <2>7. NoneIn(handed, r) => edge'[r] = edge[r]
    BY <2>1, <2>2, <2>3, Zenon DEF NoneIn, Clear
  <2> HIDE DEF h
  <2> QED
    BY <1>1, <1>3, <2>1, <2>5, <2>6, <2>7, Zenon DEF Carried
<1> QED
  BY <1>5, <1>6, <1>7, <1>8, <1>9, <1>10, Zenon DEF EdgeMoves

\* and no resource gets claimed by their steps.
LEMMA ClaimsKept ==
  ASSUME CarryInv, ctlSame, doubt \subseteq doubt',
         \A r \in Resources : r \notin doubt' /\ sent[r] = store[r].ver /\ CarriedOn(r) => CarriedOn(r)'
  PROVE  CarryInv'
<1>1. UNCHANGED <<store, queued, copied, ready, syncing, picked, sent>>
  BY Zenon DEF ctlSame, ctlVars, workVars, nodeVars
<1>2. \A r \in Resources : Claimed(r)' => Claimed(r) /\ r \notin doubt'
  BY <1>1, Zenon DEF Claimed
<1> QED
  BY <1>1, <1>2, Zenon DEF CarryInv

\* dispatchResource sends the newest one of one resource, or puts it in doubt,
LEMMA SendCarries ==
  ASSUME Sound, CtlInv, CarryInv, NEW n \in Message, Sends(n),
         \A x \in Resources : x # n.res /\ Claimed(x)' => Claimed(x),
         Claimed(n.res)' /\ n.ver = store[n.res].ver => n.live = store[n.res].live
  PROVE  CarryInv'
<1>1. /\ UNCHANGED <<edge, handed, fifo, OnWire, Writing, store>> /\ (Down' <=> Down)
      /\ Listed' = IF Down THEN Listed ELSE Append(Listed, n)
      /\ sent' = IF n.ver < sent[n.res] THEN sent ELSE [sent EXCEPT ![n.res] = n.ver]
      /\ doubt' = IF Down \/ n.ver # store[n.res].ver THEN doubt \cup {n.res} ELSE doubt \ {n.res}
  BY Zenon DEF Sends, edgeVars
<1>2. /\ sent \in [Resources -> Nat] /\ Listed \in Seq(Entry) /\ n \in Entry /\ n.res \in Resources
  BY PipeTypes, Zenon DEF CtlInv, CountTypes, Message
<1>3. ASSUME NEW x \in Resources, x # n.res, Claimed(x)'
      PROVE  sent'[x] = store'[x].ver /\ CarriedOn(x)'
  <2> DEFINE m == Current(x)
  <2>1. sent[x] = store[x].ver /\ CarriedOn(x)
    BY <1>3, Zenon DEF CarryInv
  <2>2. sent'[x] = sent[x] /\ Current(x)' = Current(x) /\ store'[x] = store[x]
    BY <1>1, <1>2, <1>3, Zenon DEF Current
  <2>3. m \in Message /\ m.res = x
    BY CurrentIs, Zenon
  <2>4. Clear(n, x) /\ n # m
    BY <1>3, <2>3, Zenon DEF Clear
  <2> HIDE DEF m
  <2>5. /\ NoneIn(Append(Listed, n), x) <=> NoneIn(Listed, x)
        /\ LastIn(Append(Listed, n), m) <=> LastIn(Listed, m)
    BY <1>2, <2>3, <2>4, EndAppend, Zenon
  <2>6. /\ Carried(m, edge[x], handed, fifo, OnWire, Writing, Listed)
        /\ Down => NoneIn(Listed, x)
    BY <2>1, Zenon DEF CarriedOn, m
  <2>7. Carried(m, edge[x], handed, fifo, OnWire, Writing, Listed')
    BY <1>1, <2>3, <2>5, <2>6, Zenon DEF Carried
  <2>8. Down' => NoneIn(Listed', x)
    BY <1>1, <2>6, Zenon
  <2> QED
    BY <1>1, <2>1, <2>2, <2>7, <2>8, Zenon DEF CarriedOn, m
<1>4. ASSUME Claimed(n.res)'
      PROVE  sent'[n.res] = store'[n.res].ver /\ CarriedOn(n.res)'
  <2> DEFINE r == n.res
             m == Current(r)
  <2>1. r \notin doubt'
    BY <1>4, Zenon DEF Claimed
  <2>2. ~Down /\ n.ver = store[r].ver
    BY <1>1, <2>1, Zenon
  <2>3. n.live = store[r].live
    BY <1>4, <2>2, Zenon
  <2>4. n = m
    BY <2>2, <2>3 DEF Current, Message
  <2>5. ~(n.ver < sent[r])
    BY <1>2, <2>2 DEF CtlInv, CopyInv, CountTypes, Stores
  <2>6. sent'[r] = store'[r].ver /\ m' = m
    BY <1>1, <1>2, <2>2, <2>5, Zenon DEF Current
  <2> HIDE DEF m
  <2>7. LastIn(Listed', m)
    BY <1>1, <1>2, <2>2, <2>4, EndAppend, Zenon
  <2>8. Carried(m, edge'[r], handed', fifo', OnWire', Writing', Listed')
    BY <2>7, Zenon DEF Carried
  <2>9. CarriedOn(r)'
    BY <1>1, <2>2, <2>6, <2>8, Zenon DEF CarriedOn, m
  <2> QED
    BY <2>6, <2>9, Zenon
<1> QED
  BY <1>3, <1>4, Zenon DEF CarryInv

\* The other steps change what is claimed, and not what is under way.
LEMMA ClaimsShrink ==
  ASSUME CarryInv, UNCHANGED <<edgeVars, fifo, OnWire, Writing, Listed, sent>>, Down' <=> Down,
         \A r \in Resources : Claimed(r)' => Claimed(r) /\ store'[r] = store[r]
  PROVE  CarryInv'
<1> SUFFICES ASSUME NEW r \in Resources, Claimed(r)'
             PROVE  sent'[r] = store'[r].ver /\ CarriedOn(r)'
  BY Zenon DEF CarryInv
<1>1. Claimed(r) /\ store'[r] = store[r] /\ sent' = sent
  BY Zenon
<1>2. sent[r] = store[r].ver /\ CarriedOn(r)
  BY <1>1, Zenon DEF CarryInv
<1>3. Current(r)' = Current(r)
  BY <1>1, Zenon DEF Current
<1>4. CarriedOn(r)'
  BY <1>2, <1>3, Zenon DEF CarriedOn, edgeVars
<1> QED
  BY <1>1, <1>2, <1>4, Zenon
-----------------------------------------------------------------------------
(* The copies of the controller.                                           *)

LEMMA CtlTypes ==
  ASSUME CtlInv
  PROVE  /\ \A r \in Resources : /\ store[r].ver \in Nat /\ store[r].spec \in Nat
                                 /\ store[r].live \in BOOLEAN /\ sent[r] \in Nat
         /\ \A r \in Resources :
              copied[r] # None => copied[r].ver \in Nat /\ copied[r].live \in BOOLEAN
         /\ picked # None => picked.res \in Resources /\ picked.old \in Nat
         /\ changes \in Nat
<1>1. \A r \in Resources : store[r] \in [ver : Nat, live : BOOLEAN, spec : Nat] /\ sent[r] \in Nat
  BY Zenon DEF CtlInv, CountTypes, Stores
<1>2. \A r \in Resources : copied[r] # None => copied[r] \in Copy
  BY Zenon DEF CtlInv, CountTypes
<1>3. picked # None => picked \in Pick
  BY Zenon DEF CtlInv, CountTypes
<1> QED
  BY <1>1, <1>2, <1>3, Zenon DEF CtlInv, CountTypes, Copy, Pick

\* What the range statement has yielded is sent as the version it was picked
\* with, or as the Spec that is there by then; the newest version is live.
LEMMA PickedVersion ==
  ASSUME CtlInv, picked # None
  PROVE  LET r == picked.res
             v == IF picked.old = 0 THEN store[r].spec ELSE picked.old
         IN  /\ r \in Resources /\ v \in Nat /\ v <= store[r].ver
             /\ v = store[r].ver => store[r].live = TRUE
<1> DEFINE r == picked.res
<1>1. r \in Resources /\ picked.old \in Nat /\ picked.old < store[r].ver
  BY CtlTypes, Zenon DEF CtlInv, CopyInv
<1>2. /\ store[r].spec \in Nat /\ store[r].ver \in Nat /\ store[r].live \in BOOLEAN
      /\ store[r].spec <= store[r].ver /\ (~store[r].live => store[r].spec < store[r].ver)
  BY <1>1, CtlTypes, Zenon DEF CtlInv, CopyInv
<1> HIDE DEF r
<1>3. /\ picked.old <= store[r].ver /\ picked.old # store[r].ver
      /\ store[r].spec = store[r].ver => store[r].live = TRUE
  BY <1>1, <1>2
<1> QED
  BY <1>1, <1>2, <1>3, Zenon DEF r

\* A worker that copies a resource, goes on with the copy or sends it,
LEMMA CopiesKept ==
  ASSUME CtlInv, NEW r \in Resources, ReadResource(r) \/ Route(r) \/ Send(r)
  PROVE  CtlInv'
<1>1. UNCHANGED <<store, ranging, syncing, changes>>
  BY Zenon DEF ReadResource, Route, Send, nodeVars, boundVars
<1>2. CASE ReadResource(r)
  <2> DEFINE c == [pc |-> "route", ver |-> store[r].ver, live |-> store[r].live]
             p == [picked EXCEPT !.old = store[r].spec]
  <2>1. /\ queued' = queued \ {r} /\ copied' = [copied EXCEPT ![r] = c] /\ UNCHANGED sent
        /\ picked' = picked \/ (picked = [res |-> r, old |-> 0] /\ ~store[r].live /\ picked' = p)
    BY <1>2, Zenon DEF ReadResource
  <2>2. c \in Copy /\ c.ver = store[r].ver /\ c.live = store[r].live
    BY CtlTypes, Zenon DEF Copy
  <2>3. ASSUME picked = [res |-> r, old |-> 0]
        PROVE  p \in Pick /\ p.res = r /\ p.old = store[r].spec
    BY <2>3, CtlTypes DEF Pick
  <2> HIDE DEF c, p
  <2>4. CountTypes'
    BY <1>1, <2>1, <2>2, <2>3, Zenon DEF CtlInv, CountTypes
  <2>5. ASSUME NEW x \in Resources, copied'[x] # None
        PROVE  /\ copied'[x].ver <= store[x].ver
               /\ x \notin queued' => copied'[x].ver = store[x].ver /\ copied'[x].live = store[x].live
    <3>1. CASE x = r
      <4>1. copied'[x] = c /\ store[x].ver <= store[x].ver
        BY <2>1, <3>1, CtlTypes DEF CtlInv, CountTypes
      <4> QED
        BY <2>2, <3>1, <4>1, Zenon
    <3>2. CASE x # r
      <4>1. copied'[x] = copied[x] /\ (x \notin queued' => x \notin queued)
        BY <2>1, <3>2, Zenon DEF CtlInv, CountTypes
      <4> QED
        BY <2>5, <4>1, Zenon DEF CtlInv, CopyInv
    <3> QED
      BY <3>1, <3>2, Zenon
  <2>6. ASSUME picked' # None
        PROVE  picked'.old < store[picked'.res].ver
    BY <2>1, <2>3, <2>6, Zenon DEF CtlInv, CopyInv
  <2>7. ~ranging => picked' = None
    <3>1. ~ranging => picked = None
      BY Zenon DEF CtlInv, CopyInv
    <3>2. [res |-> r, old |-> 0] # None
      BY NoneAssumption DEF Pick
    <3> QED
      BY <2>1, <3>1, <3>2, Zenon
  <2>8. CopyInv'
    BY <1>1, <2>1, <2>5, <2>6, <2>7, Zenon DEF CtlInv, CopyInv
  <2> QED
    BY <2>4, <2>8, Zenon DEF CtlInv
<1>3. CASE Route(r)
  <2> DEFINE c == [copied[r] EXCEPT !.pc = "send"]
  <2>1. /\ copied[r] # None /\ UNCHANGED <<queued, picked, sent>>
        /\ copied' = [copied EXCEPT ![r] = IF ready THEN c ELSE None]
    BY <1>3, Zenon DEF Route, nodeVars
  <2>2. copied[r] \in Copy
    BY <2>1, Zenon DEF CtlInv, CountTypes
  <2>3. c \in Copy /\ c.ver = copied[r].ver /\ c.live = copied[r].live
    BY <2>2 DEF Copy
  <2> HIDE DEF c
  <2>4. CountTypes'
    BY <1>1, <2>1, <2>3, Zenon DEF CtlInv, CountTypes
  <2>5. ASSUME NEW x \in Resources, copied'[x] # None
        PROVE  copied'[x].ver = copied[x].ver /\ copied'[x].live = copied[x].live /\ copied[x] # None
    <3>1. CASE x = r
      BY <2>1, <2>3, <2>5, <3>1 DEF CtlInv, CountTypes
    <3>2. CASE x # r
      BY <2>1, <2>5, <3>2, Zenon DEF CtlInv, CountTypes
    <3> QED
      BY <3>1, <3>2, Zenon
  <2>6. CopyInv'
    BY <1>1, <2>1, <2>5, Zenon DEF CtlInv, CopyInv
  <2> QED
    BY <2>4, <2>6, Zenon DEF CtlInv
<1>4. CASE Send(r)
  <2> DEFINE v == copied[r].ver
  <2>1. /\ copied[r] # None /\ UNCHANGED <<queued, picked>>
        /\ copied' = [copied EXCEPT ![r] = None]
        /\ sent' = IF v < sent[r] THEN sent ELSE [sent EXCEPT ![r] = v]
    BY <1>4 DEF Send, DispatchResource, nodeVars
  <2>2. v \in Nat /\ v <= store[r].ver
    BY <2>1, CtlTypes, Zenon DEF CtlInv, CopyInv
  <2> HIDE DEF v
  <2>3. CountTypes'
    BY <1>1, <2>1, <2>2, Zenon DEF CtlInv, CountTypes
  <2>4. \A x \in Resources : sent'[x] <= store[x].ver
    BY <2>1, <2>2, Zenon DEF CtlInv, CountTypes, CopyInv
  <2>5. \A x \in Resources : copied'[x] = copied[x] \/ copied'[x] = None
    BY <2>1, Zenon DEF CtlInv, CountTypes
  <2>6. CopyInv'
    BY <1>1, <2>1, <2>4, <2>5, Zenon DEF CtlInv, CopyInv
  <2> QED
    BY <2>3, <2>6, Zenon DEF CtlInv
<1> QED
  BY <1>2, <1>3, <1>4, Zenon

\* the loop of syncAllResourcesToEdgeNodes,
LEMMA PicksKept ==
  ASSUME CtlInv, SyncSend \/ SyncEnd \/ \E r \in Resources : SyncPick(r)
  PROVE  CtlInv'
<1>1. UNCHANGED <<store, copied, queued, changes>>
  BY Zenon DEF SyncSend, SyncEnd, SyncPick, workVars, boundVars
<1>2. ASSUME NEW r \in Resources, SyncPick(r)
      PROVE  CtlInv'
  <2> DEFINE p == [res |-> r, old |-> 0]
  <2>1. /\ r \in syncing /\ syncing' = syncing \ {r} /\ UNCHANGED <<sent, ranging>>
        /\ picked' = p \/ picked' = None
    BY <1>2, Zenon DEF SyncPick
  <2>2. p \in Pick /\ p.res = r /\ p.old = 0
    BY DEF Pick
  <2>3. 0 < store[r].ver
    BY CtlTypes DEF CtlInv, CopyInv
  <2> HIDE DEF p
  <2>4. CountTypes'
    BY <1>1, <2>1, <2>2, Zenon DEF CtlInv, CountTypes
  <2>5. ranging
    BY <2>1, Zenon DEF CtlInv, CopyInv
  <2>6. CopyInv'
    BY <1>1, <2>1, <2>2, <2>3, <2>5, Zenon DEF CtlInv, CopyInv
  <2> QED
    BY <2>4, <2>6, Zenon DEF CtlInv
<1>3. CASE SyncSend
  <2> DEFINE r == picked.res
             v == IF picked.old = 0 THEN store[r].spec ELSE picked.old
  <2>1. /\ picked # None /\ picked' = None /\ UNCHANGED <<ranging, syncing>>
        /\ sent' = IF v < sent[r] THEN sent ELSE [sent EXCEPT ![r] = v]
    BY <1>3 DEF SyncSend, DispatchResource
  <2>2. r \in Resources /\ v \in Nat /\ v <= store[r].ver
    BY <2>1, PickedVersion, Zenon
  <2> HIDE DEF r, v
  <2>3. CountTypes'
    BY <1>1, <2>1, <2>2, Zenon DEF CtlInv, CountTypes
  <2>4. \A x \in Resources : sent'[x] <= store[x].ver
    BY <2>1, <2>2, Zenon DEF CtlInv, CountTypes, CopyInv
  <2>5. CopyInv'
    BY <1>1, <2>1, <2>4, Zenon DEF CtlInv, CopyInv
  <2> QED
    BY <2>3, <2>5, Zenon DEF CtlInv
<1>4. CASE SyncEnd
  BY <1>1, <1>4, Zenon DEF SyncEnd, CtlInv, CountTypes, CopyInv
<1> QED
  BY <1>2, <1>3, <1>4, Zenon

\* an ingress worker,
LEMMA StoreKept ==
  ASSUME CtlInv, NEW r \in Resources, Write(r)
  PROVE  CtlInv'
<1>1. /\ UNCHANGED <<copied, picked, ranging, sent>> /\ changes' = changes + 1
      /\ queued' = queued \cup {r} /\ (~ranging => UNCHANGED syncing)
  BY Zenon DEF Write
<1>2. PICK live \in BOOLEAN :
        store' = [store EXCEPT ![r] = [ver |-> changes + 2, live |-> live,
                                       spec |-> IF live THEN changes + 2 ELSE @.spec]]
  BY Zenon DEF Write
<1> DEFINE s == IF live THEN changes + 2 ELSE store[r].spec
           n == [ver |-> changes + 2, live |-> live, spec |-> s]
<1>3. store' = [store EXCEPT ![r] = n]
  BY <1>2, Zenon
<1>4. /\ s \in Nat /\ n \in [ver : Nat, live : BOOLEAN, spec : Nat]
      /\ n.ver = changes + 2 /\ n.live = live /\ n.spec = s
  BY CtlTypes
<1>5. s <= changes + 2 /\ (~live => s < changes + 2)
  BY CtlTypes DEF CtlInv, CopyInv
<1> HIDE DEF s, n
<1>6. /\ store' \in Stores /\ store'[r] = n /\ \A x \in Resources : x # r => store'[x] = store[x]
  BY <1>3, <1>4, Zenon DEF CtlInv, CountTypes, Stores
<1>7. CountTypes'
  BY <1>1, <1>6, CtlTypes DEF CtlInv, CountTypes
<1>8. \A x \in Resources : /\ store[x].ver <= store'[x].ver /\ store'[x].ver <= changes' + 1
                           /\ 1 <= store'[x].ver /\ store'[x].ver \in Nat
  BY <1>1, <1>4, <1>6, CtlTypes DEF CtlInv, CopyInv
<1>9. ASSUME NEW x \in Resources
      PROVE  /\ sent[x] <= store'[x].ver
             /\ store'[x].spec <= store'[x].ver /\ (~store'[x].live => store'[x].spec < store'[x].ver)
  <2>1. /\ sent[x] <= store[x].ver /\ store[x].ver <= store'[x].ver
        /\ sent[x] \in Nat /\ store[x].ver \in Nat /\ store'[x].ver \in Nat
    BY <1>8, CtlTypes, Zenon DEF CtlInv, CopyInv
  <2>2. sent[x] <= store'[x].ver
    BY <2>1
  <2>3. CASE x = r
    BY <1>4, <1>5, <1>6, <2>2, <2>3, CtlTypes
  <2>4. CASE x # r
    BY <1>6, <2>2, <2>4, Zenon DEF CtlInv, CopyInv
  <2> QED
    BY <2>3, <2>4, Zenon
<1>10. ASSUME NEW x \in Resources, copied[x] # None
       PROVE  /\ copied[x].ver <= store'[x].ver
              /\ x \notin queued' => copied[x].ver = store'[x].ver /\ copied[x].live = store'[x].live
  <2>1. copied[x].ver <= store'[x].ver
    BY <1>8, <1>10, CtlTypes DEF CtlInv, CopyInv
  <2>2. x \notin queued' => x \notin queued /\ x # r
    BY <1>1, Zenon
  <2> QED
    BY <1>6, <1>10, <2>1, <2>2, Zenon DEF CtlInv, CopyInv
<1>11. picked # None => picked.old < store'[picked.res].ver
  BY <1>8, CtlTypes DEF CtlInv, CopyInv
<1>12. CopyInv'
  BY <1>1, <1>8, <1>9, <1>10, <1>11, Zenon DEF CtlInv, CopyInv
<1> QED
  BY <1>7, <1>12, Zenon DEF CtlInv

\* and the rest.
LEMMA CtlKept ==
  ASSUME CtlInv, [Next]_vars
  PROVE  CtlInv'
<1>1. ASSUME ctlSame
      PROVE  CtlInv'
  BY <1>1, Zenon DEF ctlSame, ctlVars, workVars, nodeVars, CtlInv, CountTypes, CopyInv
<1>2. CASE Hub
  <2>1. UNCHANGED hubOnly
    BY <1>2, Zenon DEF Hub, Session, HubRegister, HubKeepalive, HubServe, HubGet, HubWrite, HubUnregister
  <2> QED
    BY <1>1, <2>1, Zenon DEF hubOnly, boundVars, ctlSame
<1>3. CASE Edge \/ EdgePanic \/ EdgeCrash \/ Report \/ Rotate \/ Break \/ UNCHANGED vars
  <2>1. ctlSame
    BY <1>3, Zenon DEF Edge, EdgePanic, EdgeCrash, Report, Rotate, Break, EdgeForgets, EdgeConnect,
         EdgePut, EdgeStep, EdgeUnInit, EdgeRoute, EdgeApply, edgeOnly, boundVars, vars, ctlSame
  <2> QED
    BY <1>1, <2>1, Zenon
<1>4. CASE Controller
  BY <1>4, CopiesKept, PicksKept, Zenon DEF Controller, Worker, Handler
<1>5. CASE \E r \in Resources : Write(r)
  BY <1>5, StoreKept, Zenon
<1>6. CASE NodeReady \/ NodeNotReady \/ NodeDelete
  <2>1. UNCHANGED <<store, queued, copied, picked, sent, changes>>
    BY <1>6, Zenon DEF NodeReady, NodeNotReady, NodeDelete, workVars, boundVars
  <2>2. ranging' \/ UNCHANGED <<ranging, syncing>>
    BY <1>6, Zenon DEF NodeReady, NodeNotReady, NodeDelete
  <2> QED
    BY <2>1, <2>2, Zenon DEF CtlInv, CountTypes, CopyInv
<1>7. CASE CloudPanic \/ CloudCrash
  <2>1. /\ UNCHANGED <<store, sent, changes>> /\ syncing' = {} /\ picked' = None
        /\ copied' = [r \in Resources |-> None]
    BY <1>7, Zenon DEF CloudPanic, CloudCrash, CloudRestart
  <2> QED
    BY <2>1, Zenon DEF CtlInv, CountTypes, CopyInv
<1> QED
  BY <1>2, <1>3, <1>4, <1>5, <1>6, <1>7, Zenon DEF Next, Panic, Environment

-----------------------------------------------------------------------------
LinkInv == SessionInv /\ CtlInv /\ (~raced => LinkOK /\ OrderInv /\ CarryInv)
Kept == LinkOK' /\ OrderInv' /\ CarryInv' /\ NotBack

LEMMA HubKept ==
  ASSUME Sound, CtlInv, OrderInv, CarryInv, Hub, ~raced'
  PROVE  Kept
<1>1. LinkOK' /\ ctlSame /\ HubMoves
  BY HubStep, Zenon
<1>2. OrderInv' /\ NotBack
  BY <1>1, HubOrder, EdgeSame, Zenon DEF OrderInv
<1>3. doubt \subseteq doubt'
  BY <1>1, Zenon DEF HubMoves, Stays, DropsQueue, GetsStop, DropsMessage, TakesMessage, Writes, WriteFails
<1>4. CarryInv'
  BY <1>1, <1>3, HubCarries, ClaimsKept, Zenon
<1> QED
  BY <1>1, <1>2, <1>4, Zenon DEF Kept

LEMMA EdgeKept ==
  ASSUME Sound, CtlInv, OrderInv, CarryInv,
         Edge \/ EdgePanic \/ EdgeCrash \/ Report \/ Rotate \/ Break
  PROVE  Kept
<1>1. LinkOK' /\ ctlSame /\ EdgeMoves
  BY EdgeHubStep, Zenon
<1>2. OrderInv' /\ NotBack
  BY <1>1, EdgeOrder, Zenon
<1>3. doubt \subseteq doubt'
  BY <1>1, Zenon DEF EdgeMoves, Stays, Puts, Routes, Applies, Cuts, Forgets
<1>4. CarryInv'
  BY <1>1, <1>3, EdgeCarries, ClaimsKept, Zenon DEF OrderInv
<1> QED
  BY <1>1, <1>2, <1>4, Zenon DEF Kept

\* The controller sends something, or nothing,
LEMMA SentKept ==
  ASSUME Sound, CtlInv, OrderInv, CarryInv, NEW m \in Message, DispatchResource(m),
         UNCHANGED <<ehVars, store, edgeVars, changes>>,
         \A x \in Resources : x # m.res /\ Claimed(x)' => Claimed(x),
         Claimed(m.res)' /\ m.ver = store[m.res].ver => m.live = store[m.res].live
  PROVE  Kept
<1>1. LinkOK' /\ Sends(m)
  BY SendStep, Zenon
<1>2. OrderInv' /\ NotBack
  BY <1>1, SendOrder, EdgeSame, Zenon DEF OrderInv
<1>3. CarryInv'
  BY <1>1, SendCarries, Zenon
<1> QED
  BY <1>1, <1>2, <1>3, Zenon DEF Kept

LEMMA SilentKept ==
  ASSUME Sound, OrderInv, CarryInv, UNCHANGED <<nsVars, ehVars, edgeVars, overtaken, sent>>,
         \A x \in Resources : Claimed(x)' => Claimed(x) /\ store'[x] = store[x]
  PROVE  Kept
<1>1. LinkOK' /\ UNCHANGED <<fifo, OnWire, Writing, Listed>> /\ (Down' <=> Down)
  BY NothingMoves, Zenon
<1>2. OrderInv' /\ NotBack
  BY <1>1, EdgeSame, Zenon DEF OrderInv, EdgeTypes, ChainOf, edgeVars
<1>3. CarryInv'
  BY <1>1, ClaimsShrink, Zenon
<1> QED
  BY <1>1, <1>2, <1>3, Zenon DEF Kept

LEMMA WorkerKept ==
  ASSUME Sound, CtlInv, OrderInv, CarryInv, NEW r \in Resources,
         ReadResource(r) \/ Route(r) \/ Send(r)
  PROVE  Kept
<1>1. CASE ReadResource(r)
  <2>1. /\ UNCHANGED <<nsVars, ehVars, edgeVars, overtaken, sent, store, ready, syncing, doubt>>
        /\ queued' = queued \ {r} /\ copied'[r] # None
        /\ \A x \in Resources : x # r => copied'[x] = copied[x]
    <3> DEFINE c == [pc |-> "route", ver |-> store[r].ver, live |-> store[r].live]
    <3>1. c \in Copy
      BY CtlTypes, Zenon DEF Copy
    <3>2. c # None
      BY <3>1, NoneAssumption, Zenon
    <3> HIDE DEF c
    <3>3. copied' = [copied EXCEPT ![r] = c]
      BY <1>1, Zenon DEF ReadResource, c
    <3>4. copied'[r] = c /\ \A x \in Resources : x # r => copied'[x] = copied[x]
      BY <3>3, Zenon DEF CtlInv, CountTypes
    <3> QED
      BY <1>1, <3>2, <3>4, Zenon DEF ReadResource
  <2>2. \A x \in Resources : picked' = None \/ picked'.res # x => picked = None \/ picked.res # x
    <3>1. CASE picked = [res |-> r, old |-> 0] /\ picked' = [picked EXCEPT !.old = store[r].spec]
      <4>1. picked' = [res |-> r, old |-> store[r].spec]
        BY <3>1
      <4>2. picked' \in Pick
        BY <4>1, CtlTypes, Zenon DEF Pick
      <4>3. picked' # None /\ picked'.res = picked.res
        BY <3>1, <4>1, <4>2, NoneAssumption, Zenon
      <4> QED
        BY <4>3, Zenon
    <3>2. CASE picked' = picked
      BY <3>2, Zenon
    <3> QED
      BY <1>1, <3>1, <3>2, Zenon DEF ReadResource
  <2>3. \A x \in Resources : Claimed(x)' => Claimed(x) /\ store'[x] = store[x]
    BY <2>1, <2>2, Zenon DEF Claimed
  <2> QED
    BY <2>1, <2>3, SilentKept, Zenon
<1>2. CASE Route(r)
  <2>1. /\ UNCHANGED <<nsVars, ehVars, edgeVars, overtaken, sent, store, queued, ready, syncing, picked>>
        /\ copied[r] # None
        /\ copied' = [copied EXCEPT ![r] = IF ready THEN [copied[r] EXCEPT !.pc = "send"] ELSE None]
        /\ doubt' = IF ready \/ copied[r].live THEN doubt ELSE doubt \cup {r}
    BY <1>2, Zenon DEF Route, nodeVars
  <2>2. \A x \in Resources : x # r => copied'[x] = copied[x]
    BY <2>1, Zenon DEF CtlInv, CountTypes
  <2>3. ready => copied'[r] # None
    <3> DEFINE c == [copied[r] EXCEPT !.pc = "send"]
    <3>1. c \in Copy
      BY <2>1 DEF CtlInv, CountTypes, Copy
    <3> HIDE DEF c
    <3>2. ready => copied'[r] = c
      BY <2>1, Zenon DEF CtlInv, CountTypes, c
    <3> QED
      BY <3>1, <3>2, NoneAssumption, Zenon
  <2>4. ~ready => r \in doubt' \/ r \in queued \/ store[r].live
    BY <2>1, CtlTypes, Zenon DEF CtlInv, CopyInv
  <2>5. ~Claimed(r)'
    BY <2>1, <2>3, <2>4, Zenon DEF Claimed
  <2>6. \A x \in Resources : Claimed(x)' => Claimed(x) /\ store'[x] = store[x]
    BY <2>1, <2>2, <2>5, Zenon DEF Claimed
  <2> QED
    BY <2>1, <2>6, SilentKept, Zenon
<1>3. CASE Send(r)
  <2>0. PICK m : m = [res |-> r, ver |-> copied[r].ver, live |-> copied[r].live]
    BY Zenon
  <2>1. /\ copied[r] # None /\ DispatchResource(m) /\ copied' = [copied EXCEPT ![r] = None]
        /\ UNCHANGED <<ehVars, store, queued, ready, syncing, picked, edgeVars, changes>>
    BY <1>3, <2>0, Zenon DEF Send, nodeVars, boundVars
  <2>2. /\ m \in Message /\ m.res = r /\ m.ver = copied[r].ver /\ m.live = copied[r].live
    BY <2>0, <2>1, CtlTypes, Zenon DEF Message
  <2>3. /\ \A x \in Resources : x # r => copied'[x] = copied[x]
        /\ \A x \in Resources : x # r /\ x \notin doubt' => x \notin doubt
    BY <2>1, <2>2, Zenon DEF CtlInv, CountTypes, DispatchResource
  <2>4. \A x \in Resources : x # m.res /\ Claimed(x)' => Claimed(x)
    BY <2>1, <2>2, <2>3, Zenon DEF Claimed
  <2>5. Claimed(m.res)' /\ m.ver = store[m.res].ver => m.live = store[m.res].live
    BY <2>1, <2>2, Zenon DEF Claimed, CtlInv, CopyInv
  <2> QED
    BY <2>1, <2>2, <2>4, <2>5, SentKept, Zenon
<1> QED
  BY <1>1, <1>2, <1>3, Zenon

LEMMA HandlerKept ==
  ASSUME Sound, CtlInv, OrderInv, CarryInv, SyncSend \/ SyncEnd \/ \E r \in Resources : SyncPick(r)
  PROVE  Kept
<1>1. CASE SyncEnd
  <2>1. UNCHANGED <<nsVars, ehVars, edgeVars, overtaken, sent, store, queued, copied, ready, syncing,
                    picked, doubt>>
    BY <1>1, Zenon DEF SyncEnd, workVars
  <2> QED
    BY <2>1, SilentKept, Zenon DEF Claimed
<1>2. ASSUME NEW r \in Resources, SyncPick(r)
      PROVE  Kept
  <2> DEFINE p == [res |-> r, old |-> 0]
  <2>1. /\ UNCHANGED <<nsVars, ehVars, edgeVars, overtaken, sent, store, queued, copied, ready, doubt>>
        /\ syncing' = syncing \ {r} /\ picked = None /\ picked' = IF r \in Stored THEN p ELSE None
    BY <1>2, Zenon DEF SyncPick, workVars
  <2>2. p \in Pick /\ p.res = r
    BY DEF Pick
  <2>3. p # None
    BY <2>2, NoneAssumption, Zenon
  <2> HIDE DEF p
  <2>4. Claimed(r)' => Claimed(r)
    <3>1. CASE r \in Stored
      BY <2>1, <2>2, <2>3, <3>1, Zenon DEF Claimed
    <3>2. CASE r \notin Stored
      BY <2>1, <3>2, Zenon DEF Claimed, Stored
    <3> QED
      BY <3>1, <3>2, Zenon
  <2>5. \A x \in Resources : Claimed(x)' => Claimed(x) /\ store'[x] = store[x]
    BY <2>1, <2>4, Zenon DEF Claimed
  <2> QED
    BY <2>1, <2>5, SilentKept, Zenon
<1>3. CASE SyncSend
  <2> DEFINE r == picked.res
             v == IF picked.old = 0 THEN store[r].spec ELSE picked.old
  <2>0. PICK m : m = [res |-> r, live |-> TRUE, ver |-> v]
    BY Zenon
  <2>1. /\ picked # None /\ picked' = None /\ DispatchResource(m)
        /\ UNCHANGED <<ehVars, store, queued, copied, ready, syncing, edgeVars, changes>>
    BY <1>3, <2>0, Zenon DEF SyncSend, workVars, boundVars
  <2>2. /\ r \in Resources /\ v \in Nat /\ (v = store[r].ver => store[r].live = TRUE)
    BY <2>1, PickedVersion, Zenon
  <2> HIDE DEF v
  <2>3. m \in Message /\ m.res = r /\ m.live = TRUE /\ m.ver = v
    BY <2>0, <2>2, Zenon DEF Message
  <2>4. \A x \in Resources : x # r /\ x \notin doubt' => x \notin doubt
    BY <2>1, <2>3, Zenon DEF DispatchResource
  <2>5. \A x \in Resources : x # m.res /\ Claimed(x)' => Claimed(x)
    BY <2>1, <2>3, <2>4, Zenon DEF Claimed
  <2>6. Claimed(m.res)' /\ m.ver = store[m.res].ver => m.live = store[m.res].live
    BY <2>2, <2>3, Zenon
  <2> QED
    BY <2>1, <2>3, <2>5, <2>6, SentKept, Zenon
<1> QED
  BY <1>1, <1>2, <1>3, Zenon

LEMMA NodeKept ==
  ASSUME Sound, OrderInv, CarryInv, NodeReady \/ NodeNotReady \/ UNCHANGED vars
  PROVE  Kept
<1>1. UNCHANGED <<nsVars, ehVars, store, sent, edgeVars, overtaken, queued, copied, picked, doubt>>
  BY Zenon DEF NodeReady, NodeNotReady, vars, ctlVars, workVars, nodeVars
<1>2. \A r \in Resources : Claimed(r)' => Claimed(r) /\ store'[r] = store[r]
  <2>1. CASE NodeReady
    BY <1>1, <2>1, Zenon DEF NodeReady, Claimed, Stored
  <2>2. CASE NodeNotReady
    BY <1>1, <2>2, Zenon DEF NodeNotReady, Claimed
  <2>3. CASE UNCHANGED vars
    BY <1>1, <2>3, Zenon DEF vars, ctlVars, nodeVars, Claimed
  <2> QED
    BY <2>1, <2>2, <2>3, Zenon
<1> QED
  BY <1>1, <1>2, SilentKept, Zenon

LEMMA WriteKept ==
  ASSUME Sound, CtlInv, OrderInv, CarryInv, NEW r \in Resources, Write(r)
  PROVE  Kept
<1>1. /\ UNCHANGED <<nsVars, ehVars, edgeVars, overtaken, sent, copied, ready, picked, doubt>>
      /\ queued' = queued \cup {r} /\ syncing \subseteq syncing'
  BY Zenon DEF Write
<1>2. \A x \in Resources : x # r => store'[x] = store[x]
  <2>1. PICK n : store' = [store EXCEPT ![r] = n]
    BY Zenon DEF Write
  <2> QED
    BY <2>1, Zenon DEF CtlInv, CountTypes, Stores
<1>3. \A x \in Resources : Claimed(x)' => Claimed(x) /\ store'[x] = store[x]
  BY <1>1, <1>2, Zenon DEF Claimed
<1> QED
  BY <1>1, <1>3, SilentKept, Zenon

LEMMA DeleteKept ==
  ASSUME Sound, CtlInv, OrderInv, CarryInv, NodeDelete
  PROVE  Kept
<1>1. LinkOK' /\ Tells
  BY DeleteStep, Zenon
<1>2. /\ UNCHANGED <<edge, handed, overtaken, fifo, OnWire, Writing, doubt, store, sent, queued, copied,
                     ready, syncing, picked>>
      /\ (Down' <=> Down) /\ (Down => Listed' = Listed)
      /\ Listed' = Listed \/ Listed' = Append(Listed, Stop)
  BY <1>1, Zenon DEF Tells, NodeDelete, edgeVars, workVars
<1>3. Listed \in Seq(Entry) /\ Stop \in Entry /\ \A r : Clear(Stop, r)
  BY PipeTypes, Zenon DEF Entry, Clear
<1>4. ASSUME NEW r \in Resources \ overtaken
      PROVE  Chain(r, edge[r].ver, handed, fifo, OnWire, Writing, Listed', sent[r])
  <2>1. /\ Chain(r, edge[r].ver, handed, fifo, OnWire, Writing, Listed, sent[r])
        /\ handed \in Seq(Message) /\ edge[r].ver \in Nat /\ sent[r] \in Nat
    BY <1>4, CtlTypes, Zenon DEF OrderInv, ChainOf, EdgeTypes, Contents
  <2>2. Elements(handed) \subseteq Entry
    BY <2>1, ElementsIn, PipeTypes, Zenon
  <2>3. sent[r] <= sent[r]
    <3>1. \A n \in Nat : n <= n
      OBVIOUS
    <3> QED
      BY <2>1, <3>1, Zenon
  <2>4. Chain(r, edge[r].ver, handed, fifo, OnWire, Writing, Append(Listed, Stop), sent[r])
    BY <1>3, <2>1, <2>2, <2>3, PipeTypes, ChainSends, Zenon
  <2> QED
    BY <1>2, <2>1, <2>4, Zenon
<1>5. OrderInv' /\ NotBack
  BY <1>2, <1>4, EdgeSame, Zenon DEF OrderInv, EdgeTypes, ChainOf
<1>6. ASSUME NEW r \in Resources, Claimed(r)'
      PROVE  sent'[r] = store'[r].ver /\ CarriedOn(r)'
  <2> DEFINE m == Current(r)
  <2>1. Claimed(r)
    BY <1>2, <1>6, Zenon DEF Claimed
  <2>2. sent[r] = store[r].ver /\ CarriedOn(r) /\ m' = m
    BY <1>2, <2>1, Zenon DEF CarryInv, Current
  <2>3. m \in Message /\ m.res = r /\ Stop # m
    BY CurrentIs, StopAssumption, Zenon
  <2> HIDE DEF m
  <2>4. /\ NoneIn(Append(Listed, Stop), r) <=> NoneIn(Listed, r)
        /\ LastIn(Append(Listed, Stop), m) <=> LastIn(Listed, m)
    BY <1>3, <2>3, EndAppend, Zenon
  <2>5. Carried(m, edge[r], handed, fifo, OnWire, Writing, Listed) /\ (Down => NoneIn(Listed, r))
    BY <2>2, Zenon DEF CarriedOn, m
  <2>6. Carried(m, edge[r], handed, fifo, OnWire, Writing, Listed')
    BY <1>2, <2>3, <2>4, <2>5, Zenon DEF Carried
  <2>7. CarriedOn(r)'
    BY <1>2, <2>2, <2>5, <2>6, Zenon DEF CarriedOn, m
  <2> QED
    BY <1>2, <2>2, <2>7, Zenon
<1> QED
  BY <1>1, <1>5, <1>6, Zenon DEF Kept, CarryInv

LEMMA CloudKept ==
  ASSUME Sound, OrderInv, CarryInv, CloudCrash \/ CloudPanic
  PROVE  Kept
<1>1. LinkOK' /\ Restarts /\ CloudRestart
  BY CloudStep, Zenon
<1>2. ASSUME NEW r \in Resources \ overtaken
      PROVE  Chain(r, edge[r].ver, handed, fifo, OnWire, << >>, << >>, sent[r])
  <2>1. /\ Chain(r, edge[r].ver, handed, fifo, OnWire, Writing, Listed, sent[r])
        /\ Sorted(r, handed) /\ Sorted(r, fifo) /\ Sorted(r, OnWire) /\ Sorted(r, << >>)
    BY <1>2, ElementsEmpty, Zenon DEF OrderInv, ChainOf, Chain
  <2>2. Elements(<< >>) \subseteq Elements(Writing) /\ Elements(<< >>) \subseteq Elements(Listed)
    BY ElementsEmpty
  <2> QED
    BY <2>1, <2>2, ChainShrinks, Zenon
<1>3. OrderInv' /\ NotBack
  BY <1>1, <1>2, EdgeSame, Zenon DEF Restarts, OrderInv, EdgeTypes, ChainOf, edgeVars
<1>4. \A r \in Resources : ~Claimed(r)'
  BY <1>1, Zenon DEF CloudRestart, Claimed
<1> QED
  BY <1>1, <1>3, <1>4, Zenon DEF Kept, CarryInv

\* Once a connection has raced it stays so; only cloudhub notices, and the
\* control plane's store is not concerned.
LEMMA RacedStays ==
  ASSUME [Next]_vars
  PROVE  (raced => raced') /\ (raced' = raced \/ UNCHANGED edge)
<1>1. CASE Hub
  <2>1. CASE HubRegister \/ HubKeepalive
    BY <2>1, Zenon DEF HubRegister, HubKeepalive, hubOnly, edgeVars
  <2>2. ASSUME NEW s \in Sessions, Session(s)
        PROVE  (raced => raced') /\ UNCHANGED edge
    <3>1. CASE HubServe(s) \/ HubWrite(s)
      BY <3>1 DEF HubServe, HubWrite, hubOnly, edgeVars
    <3>2. CASE HubGet(s)
      BY <3>2, Zenon DEF HubGet, hubOnly, edgeVars
    <3>3. CASE HubUnregister(s)
      BY <3>3, Zenon DEF HubUnregister, hubOnly, edgeVars
    <3> QED
      BY <2>2, <3>1, <3>2, <3>3, Zenon DEF Session
  <2> QED
    BY <1>1, <2>1, <2>2, Zenon DEF Hub
<1>2. CASE Controller \/ \E r \in Resources : Write(r)
  <2>1. raced' = raced
    <3>1. CASE \E r \in Resources : ReadResource(r) \/ Route(r) \/ Send(r) \/ Write(r)
      BY <3>1, Zenon DEF ReadResource, Route, Send, Write
    <3>2. CASE SyncSend \/ SyncEnd \/ \E r \in Resources : SyncPick(r)
      BY <3>2, Zenon DEF SyncSend, SyncEnd, SyncPick
    <3> QED
      BY <1>2, <3>1, <3>2, Zenon DEF Controller, Worker, Handler
  <2> QED
    BY <2>1, Zenon
<1>3. CASE Edge \/ EdgePanic \/ EdgeCrash \/ Report \/ Rotate \/ Break
  <2>1. raced' = raced
    BY <1>3, Zenon DEF Edge, EdgePanic, EdgeCrash, Report, Rotate, Break, EdgeForgets, EdgeConnect,
              EdgePut, EdgeStep, EdgeUnInit, EdgeRoute, EdgeApply, edgeOnly
  <2> QED
    BY <2>1, Zenon
<1>4. CASE CloudPanic \/ CloudCrash
  BY <1>4 DEF CloudPanic, CloudCrash, CloudRestart
<1>5. CASE NodeReady \/ NodeNotReady \/ NodeDelete \/ UNCHANGED vars
  BY <1>5 DEF NodeReady, NodeNotReady, NodeDelete, vars
<1> QED
  BY <1>1, <1>2, <1>3, <1>4, <1>5, Zenon DEF Next, Panic, Environment

LEMMA LinkStep ==
  LinkInv /\ [Next]_vars => LinkInv' /\ (~raced => NotBack)
<1> SUFFICES ASSUME LinkInv, [Next]_vars
             PROVE  LinkInv' /\ (~raced => NotBack)
  BY Zenon
<1>1. SessionInv' /\ CtlInv'
  BY SessionStep, CtlKept, Zenon DEF LinkInv
<1>2. ASSUME ~raced', ~raced
      PROVE  Kept
  <2>1. Sound /\ CtlInv /\ OrderInv /\ CarryInv
    BY <1>2, Zenon DEF LinkInv, SessionInv, LinkOK, Sound
  <2>2. CASE Controller
    BY <2>1, <2>2, WorkerKept, HandlerKept, Zenon DEF Controller, Worker, Handler
  <2>3. CASE Hub
    BY <1>2, <2>1, <2>3, HubKept, Zenon
  <2>4. CASE Edge \/ EdgePanic \/ EdgeCrash \/ Report \/ Rotate \/ Break
    BY <2>1, <2>4, EdgeKept, Zenon
  <2>5. CASE CloudPanic \/ CloudCrash
    BY <2>1, <2>5, CloudKept, Zenon
  <2>6. CASE \E r \in Resources : Write(r)
    BY <2>1, <2>6, WriteKept, Zenon
  <2>7. CASE NodeReady \/ NodeNotReady \/ UNCHANGED vars
    BY <2>1, <2>7, NodeKept, Zenon
  <2>8. CASE NodeDelete
    BY <2>1, <2>8, DeleteKept, Zenon
  <2> QED
    BY <2>2, <2>3, <2>4, <2>5, <2>6, <2>7, <2>8, Zenon DEF Next, Panic, Environment
<1>3. (raced => raced') /\ (raced' = raced \/ UNCHANGED edge)
  BY RacedStays, Zenon
<1>4. ASSUME ~raced, raced'
      PROVE  NotBack
  BY <1>3, <1>4, EdgeSame, Zenon DEF LinkInv, OrderInv
<1> QED
  BY <1>1, <1>2, <1>3, <1>4, Zenon DEF Kept, LinkInv

LEMMA LinkInit == Init => LinkInv
<1> SUFFICES ASSUME Init
             PROVE  LinkInv
  BY Zenon
<1>1. SessionInv /\ \A s \in Sessions : sess[s] = NoSession
  BY Zenon DEF Init, NSInit, SessionInv, SessOK, Solo, NoSession
<1>2. OnWire = << >> /\ Listed = << >> /\ fifo = << >> /\ handed = << >> /\ ~Down
  BY Zenon DEF Init, NSInit, EHInit, OnWire, Listed, ListedIn, Down
<1>3. Writing = << >>
  BY <1>1, WritingNothing DEF Writing, NoSession
<1>4. LinkTypes
  BY DEF Init, NSInit, EHInit, LinkTypes, Lists, NoList
<1>5. LoopsOK
  BY <1>1, <1>2 DEF LoopsOK, NoSession, Closing
<1>6. EdgeOK
  BY <1>2, Zenon DEF Init, NSInit, EHInit, EdgeOK, Open
<1>7. CountTypes
  BY DEF Init, CountTypes, Stores
<1>8. CopyInv
  BY DEF Init, CopyInv
<1>9. EdgeTypes /\ \A r \in Resources : edge[r].ver = 0 /\ sent[r] = 0
  BY DEF Init, EdgeTypes, Contents, Nothing
<1>10. \A r \in Resources : Chain(r, 0, << >>, << >>, << >>, << >>, << >>, 0)
  BY ElementsEmpty DEF Chain, Below, Between
<1>11. OrderInv
  BY <1>2, <1>3, <1>9, <1>10, Zenon DEF OrderInv, ChainOf
<1>12. CarryInv
  BY Zenon DEF Init, CarryInv, Claimed
<1> QED
  BY <1>1, <1>4, <1>5, <1>6, <1>7, <1>8, <1>11, <1>12, Zenon DEF LinkInv, LinkOK, CtlInv

\* InOrder for any number of resources, changes, connections, queues and
\* faults: what is under way to the node is sorted from the goroutines of
\* SendToGroup back to dispatchResource (OrderInv), so the control plane applies
\* no older state of a resource after a newer one, unless a connection has raced
\* or a message was sent, or delivered, before an older one.
THEOREM InOrderHolds == Spec => InOrder
<1>1. LinkInv /\ [Next]_vars
        => [\A r \in Resources \ overtaken' :
              ~raced => edge'[r].ver >= edge[r].ver \/ edge'[r] = Nothing]_vars
  BY LinkStep, Zenon DEF NotBack
<1>2. LinkInv /\ [Next]_vars => LinkInv'
  BY LinkStep, Zenon
<1> QED
  BY <1>1, <1>2, LinkInit, PTL DEF Spec, InOrder

\* InSync for any number of them: what the controller has sent last of a
\* resource is under way until the control plane has it (CarryInv), whatever is
\* copied and sent late by syncEnvoyResource, syncAllResourcesToEdgeNodes and
\* SendToGroup, unless one of the losses that the code is seen to accept, or an
\* older message that came after it, has written it off.
THEOREM InSyncHolds == Spec => []InSync
<1>1. LinkInv => InSync
  <2> SUFFICES ASSUME LinkInv, Quiet, ready, ~raced, NEW r \in Resources \ doubt
               PROVE  edge[r].live = store[r].live /\ (store[r].live => edge[r].ver = store[r].ver)
    BY Zenon DEF InSync
  <2> DEFINE m == Current(r)
  <2>1. Sound /\ CtlInv /\ CarryInv
    BY Zenon DEF LinkInv, SessionInv, LinkOK, Sound
  <2>2. Claimed(r)
    BY <2>1, Zenon DEF Quiet, Claimed, CtlInv, CopyInv
  <2>3. Carried(m, edge[r], handed, fifo, OnWire, Writing, Listed)
    BY <2>1, <2>2, Zenon DEF CarryInv, CarriedOn
  <2>4. handed = << >> /\ fifo = << >> /\ OnWire = << >> /\ Listed = << >>
    BY <2>1, Zenon DEF Quiet, Listed, ListedIn, Sound, LinkTypes
  <2>5. Writing = << >>
    BY WritingNothing, Zenon DEF Quiet, Writing
  <2>6. ~LastIn(<< >>, m)
    BY EndEmpty, Zenon
  <2>7. Matches(edge[r], m)
    BY <2>3, <2>4, <2>5, <2>6, Zenon DEF Carried
  <2>8. m.live = store[r].live /\ m.ver = store[r].ver
    BY Zenon DEF Current
  <2> QED
    BY <2>7, <2>8, Zenon DEF Matches
<1>2. LinkInv /\ [Next]_vars => LinkInv'
  BY LinkStep, Zenon
<1> QED
  BY <1>1, <1>2, LinkInit, PTL DEF Spec
=============================================================================
