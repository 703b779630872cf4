--------------------------- MODULE ObjectDelivery ---------------------------
(***************************************************************************)
(* How an object of the API server gets to the database of an edge node:   *)
(* edge controller, cloudhub, connection, edgehub, metaManager, and the    *)
(* sync controller that looks after what was not delivered.                *)
(*                                                                         *)
(* The code loses track of an object in a few situations.  The variable    *)
(* lost records the keys they happened to, so that the properties below    *)
(* say precisely when delivery can be relied on.                           *)
(***************************************************************************)
EXTENDS EdgeController

CONSTANTS MaxRetry, MaxFaults

ASSUME RetryAssumption == {MaxRetry, MaxFaults} \subseteq Nat

VARIABLES dirty, delayed, nodeStore, loop, sync, syncSeen, conn, down, up, faults,
          meta, managing,
          lost         \* keys the code has lost track of

Hub == INSTANCE CloudHub
Edge == INSTANCE EdgeStore
Syncer == INSTANCE SyncController

ASSUME NoneIsNothing ==
  None \notin Object /\ None \notin Message /\ None \notin Hub!ObjectSync /\ None \notin Edge!Saved

hubVars == <<dirty, delayed, nodeStore, loop, sync, syncSeen, conn, faults>>
vars == <<ecVars, hubVars, down, up, meta, managing, lost>>

TypeOK ==
  /\ ECTypeOK /\ Hub!CHTypeOK /\ Edge!ESTypeOK
  /\ managing \in Message \cup {None}
  /\ lost \subseteq Keys

Init == ECInit /\ Hub!CHInit /\ Edge!ESInit /\ Syncer!SCInit /\ lost = {}
-----------------------------------------------------------------------------
Controller(A) ==
  A /\ UNCHANGED <<hubVars, down, up, meta, managing, lost>>

HubStep(A) ==
  A /\ UNCHANGED <<api, clock, events, cachedPods, located,
                   meta, managing>>

\* A new object is discarded because the deletion of its predecessor is
\* still stored.
Dispatch ==
  /\ HubStep(Hub!AddMessageToQueue)
  /\ LET m == Head(toHub)
     IN  lost' = IF ~Hub!Accepted(m) /\ nodeStore[m.key] # None /\ nodeStore[m.key].uid # m.uid
                 THEN lost \cup {m.key} ELSE lost

\* After the last repetition the message stays in the store and keeps the
\* sync controller's copy of it out.
GiveUp ==
  /\ HubStep(Hub!GiveUp)
  /\ lost' = lost \cup {loop.msg.key}

\* Acknowledged, but not recorded.
SaveFails ==
  /\ HubStep(Hub!SaveFails)
  /\ lost' = lost \cup {loop.msg.key}

HubWork ==
  \/ \E k \in Keys : Hub!GetMessage(k)
  \/ Hub!SendMsg \/ Hub!Resend
  \/ Hub!HandleAck
  \/ Hub!SaveDelete \/ Hub!DeleteSuccessPoint \/ Hub!CreateSync \/ Hub!SaveStatus

Link ==
  \/ Hub!Break
  \/ Hub!KeepaliveTimeout \/ Hub!Reconnect

EdgeStep(A) ==
  A /\ UNCHANGED <<ecVars, hubVars, managing>>

\* A message overtakes another one about the same object, or an insert finds
\* an older row.
Process(i) ==
  /\ EdgeStep(Edge!Process(i))
  /\ LET m == down[i]
         overtaken == \E j \in 1..i-1 : down[j].key = m.key /\ down[j] # m
         ignored == m.op = "insert" /\ meta[m.key] \notin {None, [uid |-> m.uid, rv |-> m.rv]}
     IN  lost' = IF overtaken \/ ignored THEN lost \cup {m.key} ELSE lost

RestartEdge ==
  /\ conn = "up" /\ faults < MaxFaults /\ faults' = faults + 1
  /\ Edge!ESRestart
  /\ conn' = "dead"
  /\ UNCHANGED <<ecVars, dirty, delayed, nodeStore, loop, sync, syncSeen, managing, lost>>

\* A deletion that was not delivered before cloudcore ends is never sent.
RestartCloud ==
  /\ Hub!CHRestart /\ ECRestart
  /\ Syncer!SCRestart
  /\ LET old(k) == {down'[i].uid : i \in {j \in DOMAIN down' : down'[j].key = k}}
                   \cup (IF meta[k] = None THEN {} ELSE {meta[k].uid})
         current(k) == IF api[k] = None THEN {} ELSE {api[k].uid}
     IN  lost' = lost \cup {k \in Keys : ~(old(k) \subseteq current(k))}
  /\ UNCHANGED <<meta>>

\* The last message about k is still on its way to the edge.
Pending(k) ==
  \/ \E i \in DOMAIN toHub : toHub[i].key = k
  \/ k \in dirty \cup delayed
  \/ loop.msg # None /\ loop.msg.key = k

\* Bound: the sweeps of the sync controller that find a message about the
\* object on its way are left out.
Manage ==
  /\ \E u \in UIDs : syncSeen[u] # None /\ ~Pending(syncSeen[u].key) /\ Syncer!ManageObject(u)
  /\ UNCHANGED <<clock, events, cachedPods, located, dirty, delayed,
                 nodeStore, loop, sync, conn, faults, down, up, meta, lost>>

\* The deletion of the old object hits the new one; the object read is gone
\* by the time its update is sent.
SendEvents ==
  /\ Syncer!SendEvents
  /\ lost' = IF managing.op = "delete" \/ api[managing.key] = None \/ api[managing.key].uid # managing.uid
             THEN lost \cup {managing.key} ELSE lost
  /\ UNCHANGED <<clock, events, cachedPods, located, dirty, delayed,
                 nodeStore, loop, sync, conn, faults, down, up, meta>>

Next ==
  \/ Controller(ApiServer) \/ Controller(SyncPod)
  \/ Controller(SyncConfigMap) \/ Controller(SyncSecret) \/ Controller(SyncService)
  \/ Dispatch \/ GiveUp \/ SaveFails
  \/ HubStep(HubWork) /\ UNCHANGED lost
  \/ HubStep(\E k \in Keys : Hub!Requeue(k)) /\ UNCHANGED lost
  \/ HubStep(Hub!RefreshLister) /\ UNCHANGED lost
  \/ HubStep(Link) /\ UNCHANGED lost
  \/ \E i \in 1..Len(down) : Process(i)
  \/ RestartEdge \/ RestartCloud
  \/ Manage \/ SendEvents

Spec == Init /\ [][Next]_vars

FairSpec ==
  /\ Spec
  /\ WF_vars(Controller(SyncPod))
  /\ WF_vars(Controller(SyncConfigMap)) /\ WF_vars(Controller(SyncSecret))
  /\ WF_vars(Controller(SyncService))
  /\ WF_vars(Dispatch) /\ WF_vars(GiveUp)
  /\ WF_vars(HubStep(HubWork) /\ UNCHANGED lost)
  /\ WF_vars(HubStep(\E k \in Keys : Hub!Requeue(k)) /\ UNCHANGED lost)
  /\ WF_vars(HubStep(Hub!RefreshLister) /\ UNCHANGED lost)
  /\ WF_vars(HubStep(Hub!Reconnect) /\ UNCHANGED lost)
  /\ WF_vars(\E i \in 1..Len(down) : Process(i))
  /\ WF_vars(Manage) /\ WF_vars(SendEvents)

-----------------------------------------------------------------------------
Lives(k, u) == api[k] # None /\ api[k].uid = u /\ ~api[k].terminating

\* A message in the node's store is on its way to the edge or has been recorded
\* as delivered: a store entry that is neither would keep later messages of its
\* version out, with nothing left that sends it.
StoredIsPending ==
  \A k \in Keys \ lost :
    nodeStore[k] = None \/ Pending(k)
      \/ LET s == sync[nodeStore[k].uid]
         IN  s # None /\ s.key = k /\ s.version = nodeStore[k].rv

\* The ObjectSync of a living object never claims a version newer than the one
\* in the database of the edge, whatever is repeated, overtaken by a broken
\* connection or forgotten in a restart.
PersistedAsRecorded ==
  \A u \in UIDs :
    sync[u] # None =>
      LET k == sync[u].key
      IN  Lives(k, u) /\ k \notin lost
            => meta[k] # None /\ meta[k].uid = u /\ sync[u].version <= meta[k].rv

\* saveSuccessPoint never moves the recorded version of a living object back:
\* the acknowledgement of an old message is not taken for that of a new one.
\* (Of an object the code has lost track of it may: when the sync controller's
\* deletion of an old object hits the new one and the ObjectSync cannot be
\* deleted, an event older than the record is accepted again.)
RecordGrows ==
  [][\A u \in UIDs :
       (sync[u] # None /\ sync'[u] # None /\ Lives(sync[u].key, u) /\ sync[u].key \notin lost)
         => sync[u].version <= sync'[u].version]_vars

\* The edge has what the API server has.  A config map or a secret need not be
\* at the edge: it goes to nodes with a pod that uses it.
UpToDate(k) ==
  IF api[k] = None THEN meta[k] = None
  ELSE \/ meta[k] = [uid |-> api[k].uid, rv |-> api[k].rv]
       \/ meta[k] = None /\ k \in ConfigMaps \cup Secrets

\* Once the API server is quiet the database of the edge gets to its state and
\* stays there, for every object the code has not lost track of: lost messages
\* are repeated, a broken connection is made again, and the sync controller
\* sends what a merge or a restart left out.
Converges == \A k \in Keys : <>[]UpToDate(k) \/ <>(k \in lost)
=============================================================================
