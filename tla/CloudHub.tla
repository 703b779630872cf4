------------------------------ MODULE CloudHub ------------------------------
(***************************************************************************)
(* cloudhub's reliable delivery to one node (cloud/pkg/cloudhub): the      *)
(* queue and the store of the node, fed by DispatchMessage, and the        *)
(* MessageWriteLoop that sends one message at a time, waits for its        *)
(* acknowledgement with a few repetitions and records what was             *)
(* acknowledged as an ObjectSync in the API server.                        *)
(*                                                                         *)
(* A connection is up, dead (the peer is gone and nobody has noticed) or   *)
(* closed (removed from nodeConns).  Writing to a dead connection may      *)
(* still succeed; the message is lost then.                                *)
(***************************************************************************)
EXTENDS ObjectMessages

CONSTANTS MaxRetry,     \* repetitions of sendMsg (4)
          MaxFaults     \* bound on broken connections, crashes and failed calls

VARIABLES
  toHub,       \* the channel of module cloudhub
  dirty,       \* keys in nodeQueue, delayed ones in its rate limiter
  delayed,
  nodeStore,   \* nodeStore[k]: the stored message, or None
  loop,        \* MessageWriteLoop: where it is, its message and repetitions, and
               \* whether the connection it writes to is still the node's
  sync,        \* sync[u]: the ObjectSync of the object with this UID, or None
  syncSeen,    \* the lister's copy of sync
  conn,        \* state of the node's connection
  down, up,    \* messages and acknowledged messages under way
  faults

queueVars == <<dirty, delayed, nodeStore>>
linkVars == <<conn, down, up>>
chVars == <<toHub, queueVars, loop, sync, syncSeen, linkVars, faults>>

ObjectSync == [key : Keys, version : 0..MaxVersion]
Idle == [pc |-> "get", msg |-> None, current |-> TRUE, retry |-> 0]

CHTypeOK ==
  /\ toHub \in Seq(Message)
  /\ dirty \subseteq Keys /\ delayed \subseteq Keys
  /\ nodeStore \in [Keys -> Message \cup {None}]
  /\ loop.pc \in {"get", "send", "wait", "save", "status", "unsave"}
  /\ loop.msg \in Message \cup {None} /\ (loop.msg = None <=> loop.pc = "get")
  /\ loop.current \in BOOLEAN /\ loop.retry \in 0..MaxRetry
  /\ {sync, syncSeen} \subseteq [UIDs -> ObjectSync \cup {None}]
  /\ conn \in {"up", "dead", "closed"}
  /\ down \in Seq(Message) /\ up \in Seq(Message)
  /\ faults \in 0..MaxFaults

CHInit ==
  /\ toHub = << >> /\ dirty = {} /\ delayed = {}
  /\ nodeStore = [k \in Keys |-> None]
  /\ loop = Idle
  /\ sync = [u \in UIDs |-> None] /\ syncSeen = sync
  /\ conn = "up" /\ down = << >> /\ up = << >>
  /\ faults = 0
-----------------------------------------------------------------------------
(* DispatchMessage.                                                        *)

IsDeleteMessage(m) == m.op = "delete" \/ m.terminating

\* Whether addMessageToQueue keeps m: an old version is discarded, and so is
\* everything that is not a deletion while a deletion is stored.
Accepted(m) ==
  \/ IsDeleteMessage(m)
  \/ /\ nodeStore[m.key] = None
     /\ \/ syncSeen[m.uid] = None
        \/ m.rv > syncSeen[m.uid].version
  \/ /\ nodeStore[m.key] # None
     /\ ~IsDeleteMessage(nodeStore[m.key])
     /\ m.rv > nodeStore[m.key].rv

\* m with an id that no other message with its contents has.
InUse == {nodeStore[k] : k \in Keys} \cup {loop.msg}
         \cup {down[i] : i \in DOMAIN down} \cup {up[i] : i \in DOMAIN up}
Stamped(m) ==
  LET free == {i \in MessageIDs : [m EXCEPT !.id = i] \notin InUse}
  IN  [m EXCEPT !.id = CHOOSE i \in free : \A j \in free : i <= j]

AddMessageToQueue ==
  /\ toHub # << >>
  /\ LET m == Head(toHub)
     IN  IF Accepted(m)
         THEN /\ nodeStore' = [nodeStore EXCEPT ![m.key] = Stamped(m)]
              /\ dirty' = dirty \cup {m.key}
         ELSE UNCHANGED <<nodeStore, dirty>>
  /\ toHub' = Tail(toHub)
  /\ UNCHANGED <<delayed, loop, sync, syncSeen, linkVars, faults>>
-----------------------------------------------------------------------------
(* MessageWriteLoop.                                                       *)

GetMessage(k) ==
  /\ loop.pc = "get" /\ k \in dirty
  /\ dirty' = dirty \ {k}
  /\ loop' = IF nodeStore[k] = None THEN loop
             ELSE [Idle EXCEPT !.pc = "send", !.msg = nodeStore[k]]
  /\ UNCHANGED <<toHub, delayed, nodeStore, sync, syncSeen, linkVars, faults>>

\* Mutant: the key is not queued again after a failed write.
WriteForgets(next) ==
  \/ /\ loop.current /\ conn = "up" /\ Len(down) < LinkSize
     /\ down' = Append(down, loop.msg) /\ loop' = next /\ UNCHANGED delayed
  \/ /\ loop.current /\ conn = "dead"
     /\ loop' = next /\ UNCHANGED <<down, delayed>>
  \/ /\ ~loop.current \/ conn # "up"
     /\ loop' = Idle /\ UNCHANGED <<down, delayed>>

\* A write to the connection arrives, is lost, or fails.
Write(next) ==
  \/ /\ loop.current /\ conn = "up" /\ Len(down) < LinkSize
     /\ down' = Append(down, loop.msg) /\ loop' = next /\ UNCHANGED delayed
  \/ /\ loop.current /\ conn = "dead"
     /\ loop' = next /\ UNCHANGED <<down, delayed>>
  \/ /\ ~loop.current \/ conn # "up"
     /\ delayed' = delayed \cup {loop.msg.key} /\ loop' = Idle /\ UNCHANGED down

\* The loop waits for a connection and sendMsg registers for the
\* acknowledgement and sends.
SendMsg ==
  /\ loop.pc = "send" /\ conn # "closed"
  /\ Write([loop EXCEPT !.pc = "wait"])
  /\ UNCHANGED <<toHub, dirty, nodeStore, sync, syncSeen, conn, up, faults>>

\* Mutant: one repetition too many.
ResendMore ==
  /\ loop.pc = "wait" /\ loop.retry <= MaxRetry
  /\ Write([loop EXCEPT !.retry = @ + 1])
  /\ UNCHANGED <<toHub, dirty, nodeStore, sync, syncSeen, conn, up, faults>>

\* The ticker of sendMsg fires: send again on the same connection, or give up.
Resend ==
  /\ loop.pc = "wait" /\ loop.retry < MaxRetry
  /\ Write([loop EXCEPT !.retry = @ + 1])
  /\ UNCHANGED <<toHub, dirty, nodeStore, sync, syncSeen, conn, up, faults>>

GiveUp ==
  /\ loop.pc = "wait" /\ loop.retry = MaxRetry
  /\ loop' = Idle
  /\ UNCHANGED <<toHub, queueVars, sync, syncSeen, linkVars, faults>>

\* Mutant: any acknowledgement is taken for that of the message sent.
HandleAnyAck ==
  /\ up # << >> /\ conn = "up"
  /\ loop' = IF loop.pc = "wait" THEN [loop EXCEPT !.pc = "save"] ELSE loop
  /\ up' = Tail(up)
  /\ UNCHANGED <<toHub, queueVars, sync, syncSeen, conn, down, faults>>

\* HandleServer closes the channel registered for the acknowledged message
\* and sendMsg goes on.  An acknowledgement nobody waits for has no effect.
HandleAck ==
  /\ up # << >> /\ conn = "up"
  /\ loop' = IF loop.pc = "wait" /\ loop.msg = Head(up) THEN [loop EXCEPT !.pc = "save"]
             ELSE loop
  /\ up' = Tail(up)
  /\ UNCHANGED <<toHub, queueVars, sync, syncSeen, conn, down, faults>>
-----------------------------------------------------------------------------
(* saveSuccessPoint: the calls of the API server are steps of their own.   *)

SaveDelete ==
  /\ loop.pc = "save" /\ loop.msg.op = "delete"
  /\ nodeStore' = [nodeStore EXCEPT ![loop.msg.key] = None]
  /\ loop' = [loop EXCEPT !.pc = "unsave"]
  /\ UNCHANGED <<toHub, dirty, delayed, sync, syncSeen, linkVars, faults>>

DeleteSuccessPoint ==
  /\ loop.pc = "unsave"
  /\ sync' = [sync EXCEPT ![loop.msg.uid] = None]
  /\ loop' = Idle
  /\ UNCHANGED <<toHub, queueVars, syncSeen, linkVars, faults>>

SaveVersion(v) ==
  sync' = [sync EXCEPT ![loop.msg.uid] = [key |-> loop.msg.key, version |-> v]]

\* Mutant: the record is created anew for every message.
CreateSyncAlways ==
  /\ loop.pc = "save" /\ loop.msg.op # "delete"
  /\ SaveVersion(0)
  /\ loop' = [loop EXCEPT !.pc = "status"]
  /\ UNCHANGED <<toHub, queueVars, syncSeen, linkVars, faults>>

CreateSync ==
  /\ loop.pc = "save" /\ loop.msg.op # "delete"
  /\ sync[loop.msg.uid] = None
  /\ SaveVersion(0)
  /\ loop' = [loop EXCEPT !.pc = "status"]
  /\ UNCHANGED <<toHub, queueVars, syncSeen, linkVars, faults>>

SaveStatus ==
  /\ \/ loop.pc = "status"
     \/ loop.pc = "save" /\ loop.msg.op # "delete" /\ sync[loop.msg.uid] # None
  /\ SaveVersion(loop.msg.rv)
  /\ loop' = Idle
  /\ UNCHANGED <<toHub, queueVars, syncSeen, linkVars, faults>>

\* A call of the API server fails; saveSuccessPoint logs it and returns.
SaveFails ==
  /\ \/ loop.pc \in {"status", "unsave"}
     \/ loop.pc = "save" /\ loop.msg.op # "delete"
  /\ faults < MaxFaults /\ faults' = faults + 1
  /\ loop' = Idle
  /\ UNCHANGED <<toHub, queueVars, sync, syncSeen, linkVars>>

\* The rate limiter gives a key back.
Requeue(k) ==
  /\ k \in delayed
  /\ delayed' = delayed \ {k}
  /\ dirty' = dirty \cup {k}
  /\ UNCHANGED <<toHub, nodeStore, loop, sync, syncSeen, linkVars, faults>>

\* The informer of ObjectSyncs catches up.
RefreshLister ==
  /\ syncSeen # sync
  /\ syncSeen' = sync
  /\ UNCHANGED <<toHub, queueVars, loop, sync, linkVars, faults>>
-----------------------------------------------------------------------------
(* The connection.                                                         *)

\* What a broken connection leaves: the messages that have arrived at the
\* edge and the acknowledgements the edge has not written yet.
Cut(n, m) ==
  /\ n \in 0..Len(down) /\ m \in 0..Len(up)
  /\ down' = SubSeq(down, 1, n) /\ up' = SubSeq(up, m + 1, Len(up))

\* The network fails.
Break ==
  /\ conn = "up"
  /\ faults < MaxFaults /\ faults' = faults + 1
  /\ conn' = "dead"
  /\ \E n \in 0..Len(down), m \in 0..Len(up) : Cut(n, m)
  /\ UNCHANGED <<toHub, queueVars, loop, sync, syncSeen>>

\* KeepaliveCheckLoop closes the connection and removes it from nodeConns.
KeepaliveTimeout ==
  /\ conn = "dead"
  /\ conn' = "closed"
  /\ UNCHANGED <<toHub, queueVars, loop, sync, syncSeen, down, up, faults>>

\* edgehub connects again: OnRegister closes the old connection and stores
\* the new one.
Reconnect ==
  /\ conn # "up"
  /\ conn' = "up"
  /\ loop' = [loop EXCEPT !.current = loop.pc # "wait"]
  /\ UNCHANGED <<toHub, queueVars, sync, syncSeen, down, up, faults>>

\* cloudcore ends and starts again; WaitForCacheSync fills the lister.
CHRestart ==
  /\ faults < MaxFaults /\ faults' = faults + 1
  /\ dirty' = {} /\ delayed' = {} /\ nodeStore' = [k \in Keys |-> None]
  /\ loop' = Idle
  /\ syncSeen' = sync
  /\ conn' = "closed"
  /\ \E n \in 0..Len(down), m \in 0..Len(up) : Cut(n, m)
  /\ UNCHANGED sync
=============================================================================
