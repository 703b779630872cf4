-------------------------- MODULE EnvoyControlPlane --------------------------
(***************************************************************************)
(* The envoy control plane of an edge node (edge/pkg/envoycontrolplane)    *)
(* and how messages of the cloud get to it: edgehub reads them from the    *)
(* connection in order and gives each to SendToGroup of beehive, which     *)
(* starts a goroutine per message to put it into the module's channel.     *)
(*                                                                         *)
(* One goroutine takes messages from the channel, updates the map of the   *)
(* resource's type and then the table in sqlite.  Another builds snapshots *)
(* for the xDS cache, one type after the other.  A resource's contents are *)
(* the number of the message that brought them, 0 when there is none.      *)
(***************************************************************************)
EXTENDS Naturals, Sequences

CONSTANTS Resources,
          TypeOf,          \* TypeOf[r]: one of the five resource types
          BadMessages,     \* numbers of messages that cannot be decoded
          ChannelSize,
          MaxMessages,     \* bound on the messages of the cloud
          MaxFaults,       \* bound on crashes, panics and failed writes to sqlite
          VersionBound,    \* versions are counted modulo this
          None

Types == <<"Secret", "Endpoint", "Cluster", "Route", "Listener">>

ASSUME TypeOfAssumption == TypeOf \in [Resources -> {Types[t] : t \in DOMAIN Types}]
ASSUME BoundsAssumption ==
  /\ ChannelSize \in Nat \ {0} /\ VersionBound \in Nat \ {0, 1}
  /\ MaxMessages \in Nat /\ MaxFaults \in Nat

VARIABLES
  wire,         \* messages on the connection
  sends,        \* messages in goroutines of SendToGroup
  channel,      \* the module's channel
  busy,         \* the message whose write to sqlite is due, or None
  store, db,    \* the five maps, the five tables
  fpc, part,    \* the flush goroutine: type to read next, resources collected
  seen,         \* seen[r]: contents store[r] had since the flush began
  version, snapshot,
  served,       \* StartGrpcServer has created the snapshot cache
  up,           \* the process runs
  newest,       \* newest[r]: contents after the last message sent about r
  overtaken,    \* resources about which messages entered the channel out of order
  sent, faults

inVars == <<wire, sends, channel>>
flushVars == <<fpc, part, version, snapshot>>
sentVars == <<newest, overtaken, sent, faults>>
vars == <<inVars, busy, store, db, flushVars, seen, served, up, sentVars>>

Contents == 0..MaxMessages
Message == [num : 1..MaxMessages, res : Resources, opr : {"insert", "delete"}]
ASSUME NoneAssumption == None \notin Message

TypeOK ==
  /\ wire \in Seq(Message) /\ sends \subseteq Message
  /\ channel \in Seq(Message) /\ Len(channel) <= ChannelSize
  /\ busy \in Message \cup {None}
  /\ {store, db, part, snapshot, newest} \subseteq [Resources -> Contents]
  /\ overtaken \subseteq Resources
  /\ fpc \in 0..Len(Types) + 1
  /\ seen \in [Resources -> SUBSET Contents]
  /\ version \in 0..VersionBound - 1
  /\ served \in BOOLEAN /\ up \in BOOLEAN
  /\ sent \in 0..MaxMessages /\ faults \in 0..MaxFaults

Empty == [r \in Resources |-> 0]

Init ==
  /\ wire = << >> /\ sends = {} /\ channel = << >> /\ busy = None
  /\ store = Empty /\ db = Empty /\ part = Empty /\ snapshot = Empty /\ newest = Empty
  /\ overtaken = {}
  /\ fpc = 0 /\ seen = [r \in Resources |-> {0}] /\ version = 0
  /\ served = FALSE /\ up = TRUE
  /\ sent = 0 /\ faults = 0
-----------------------------------------------------------------------------
(* Messages on their way in.                                               *)

After(m) == IF m.opr = "insert" THEN m.num ELSE 0

CloudSend(r, opr) ==
  LET m == [num |-> sent + 1, res |-> r, opr |-> opr]
  IN  /\ sent < MaxMessages
      /\ sent' = sent + 1
      /\ wire' = Append(wire, m)
      /\ newest' = [newest EXCEPT ![r] = IF m.num \in BadMessages THEN @ ELSE After(m)]
      /\ UNCHANGED <<sends, channel, busy, store, db, flushVars, seen, served, up, overtaken, faults>>

\* routeToEdge, dispatch and SendToGroup.
Dispatch ==
  /\ up /\ wire # << >>
  /\ sends' = sends \cup {Head(wire)}
  /\ wire' = Tail(wire)
  /\ UNCHANGED <<channel, busy, store, db, flushVars, seen, served, up, sentVars>>

\* The channel has one place too many.
DeliverOverfull(m) ==
  /\ up /\ m \in sends /\ Len(channel) <= ChannelSize
  /\ sends' = sends \ {m}
  /\ channel' = Append(channel, m)
  /\ UNCHANGED <<wire, busy, store, db, flushVars, seen, served, up, sentVars>>

\* A goroutine's send, which waits while the channel is full.
Deliver(m) ==
  /\ up /\ m \in sends /\ Len(channel) < ChannelSize
  /\ sends' = sends \ {m}
  /\ channel' = Append(channel, m)
  /\ overtaken' = IF \E n \in sends : n.res = m.res /\ n.num < m.num
                  THEN overtaken \cup {m.res} ELSE overtaken
  /\ UNCHANGED <<wire, busy, store, db, flushVars, seen, served, up, newest, sent, faults>>
-----------------------------------------------------------------------------
(* runEnvoyControlPlane.                                                   *)

\* (deletions without a body are rejected too)
RejectDeletions ==
  /\ up /\ busy = None /\ channel # << >>
  /\ Head(channel).num \in BadMessages \/ Head(channel).opr = "delete"
  /\ channel' = Tail(channel)
  /\ UNCHANGED <<wire, sends, busy, store, db, flushVars, seen, served, up, sentVars>>

\* The content cannot be unquoted or decoded from base64.  An insertion that
\* cannot be unmarshalled is rejected too; a deletion goes on, as in Process.
Reject ==
  /\ up /\ busy = None /\ channel # << >>
  /\ Head(channel).num \in BadMessages
  /\ channel' = Tail(channel)
  /\ UNCHANGED <<wire, sends, busy, store, db, flushVars, seen, served, up, sentVars>>

\* processInsert and processDelete update the map of the type.
Process ==
  LET m == Head(channel)
  IN  /\ up /\ busy = None /\ channel # << >>
      /\ m.num \notin BadMessages
      /\ channel' = Tail(channel)
      /\ busy' = m
      /\ store' = [store EXCEPT ![m.res] = After(m)]
      /\ seen' = [seen EXCEPT ![m.res] = @ \cup {After(m)}]
      /\ UNCHANGED <<wire, sends, db, flushVars, served, up, sentVars>>

\* Only insertions are written.
PersistInserts ==
  /\ up /\ busy # None
  /\ db' = IF busy.opr = "insert" THEN [db EXCEPT ![busy.res] = busy.num] ELSE db
  /\ busy' = None
  /\ UNCHANGED <<inVars, store, flushVars, seen, served, up, sentVars>>

\* InsertOrUpdateResource and DeleteResource.
Persist ==
  /\ up /\ busy # None
  /\ db' = [db EXCEPT ![busy.res] = After(busy)]
  /\ busy' = None
  /\ UNCHANGED <<inVars, store, flushVars, seen, served, up, sentVars>>

\* The write to sqlite fails, or the conversion to JSON before it.
PersistFails ==
  /\ up /\ busy # None
  /\ faults < MaxFaults
  /\ faults' = faults + 1
  /\ busy' = None
  /\ UNCHANGED <<inVars, store, db, flushVars, seen, served, up, newest, overtaken, sent>>
-----------------------------------------------------------------------------
(* FlushXDSCache.                                                          *)

FlushStart ==
  /\ up /\ fpc = 0
  /\ fpc' = 1
  /\ seen' = [r \in Resources |-> {store[r]}]
  /\ UNCHANGED <<inVars, busy, store, db, part, version, snapshot, served, up, sentVars>>

\* Resources that are gone stay in the collection.
FlushReadAdds ==
  /\ up /\ fpc \in DOMAIN Types
  /\ part' = [r \in Resources |-> IF TypeOf[r] = Types[fpc] /\ store[r] # 0
                                  THEN store[r] ELSE part[r]]
  /\ fpc' = fpc + 1
  /\ UNCHANGED <<inVars, busy, store, db, version, snapshot, seen, served, up, sentVars>>

\* The map of one type is read under its lock.
FlushRead ==
  /\ up /\ fpc \in DOMAIN Types
  /\ part' = [r \in Resources |-> IF TypeOf[r] = Types[fpc] THEN store[r] ELSE part[r]]
  /\ fpc' = fpc + 1
  /\ UNCHANGED <<inVars, busy, store, db, version, snapshot, seen, served, up, sentVars>>

Generate ==
  /\ up /\ fpc = Len(Types) + 1 /\ served
  /\ version' = (version + 1) % VersionBound
  /\ snapshot' = part
  /\ fpc' = 0
  /\ UNCHANGED <<inVars, busy, store, db, part, seen, served, up, sentVars>>

\* NewSnapshotCache, in the goroutine that runs Start.
StartGrpcServer ==
  /\ up /\ ~served
  /\ served' = TRUE
  /\ UNCHANGED <<inVars, busy, store, db, flushVars, seen, up, sentVars>>

\* What a process loses when it ends.
Down ==
  /\ up' = FALSE /\ served' = FALSE
  /\ sends' = {} /\ channel' = << >> /\ busy' = None
  /\ store' = Empty /\ snapshot' = Empty
  /\ fpc' = 0 /\ part' = Empty /\ version' = 0
  /\ seen' = [r \in Resources |-> {0}]
  /\ UNCHANGED <<wire, db, newest, overtaken, sent>>

\* SetSnapshot is called on the nil cache, and the panic ends the process.
FlushPanics ==
  /\ up /\ fpc = Len(Types) + 1 /\ ~served
  /\ faults < MaxFaults
  /\ faults' = faults + 1
  /\ Down

Crash ==
  /\ up /\ faults < MaxFaults
  /\ faults' = faults + 1
  /\ Down

\* Start and newControlPlane: the maps are empty.
Restart ==
  /\ ~up
  /\ up' = TRUE
  /\ UNCHANGED <<inVars, busy, store, db, flushVars, seen, served, sentVars>>

Flush == FlushStart \/ FlushRead \/ Generate \/ FlushPanics

Next ==
  \/ \E r \in Resources, opr \in {"insert", "delete"} : CloudSend(r, opr)
  \/ Dispatch \/ \E m \in sends : Deliver(m)
  \/ Reject \/ Process \/ Persist \/ PersistFails
  \/ Flush \/ StartGrpcServer \/ Crash \/ Restart

Spec == Init /\ [][Next]_vars

\* The goroutines of a running process run on and a supervisor restarts it.
FairSpec ==
  /\ Spec
  /\ WF_vars(Dispatch) /\ WF_vars(\E m \in sends : Deliver(m))
  /\ WF_vars(Reject \/ Process \/ Persist)
  /\ WF_vars(Flush) /\ WF_vars(StartGrpcServer) /\ WF_vars(Restart)
-----------------------------------------------------------------------------
Drained == up /\ wire = << >> /\ sends = {} /\ channel = << >> /\ busy = None

(* A snapshot is put together while messages change the maps under it, but *)
(* what it has of a resource is what the map had at some moment of this    *)
(* flush, deletions included.                                              *)
SnapshotIsRecent ==
  fpc = Len(Types) + 1 => \A r \in Resources : part[r] \in seen[r]

(* Without failures the tables are the maps whenever no message is being   *)
(* processed, so that what is in sqlite could replace them.                *)
DbIsStore == up /\ busy = None /\ faults = 0 => db = store

(* Once the messages stop, envoy is served exactly what the maps hold.     *)
SnapshotFollows == <>[](snapshot = store)

(* When all messages are processed each resource has the contents of the   *)
(* last message about it, unless the goroutines of SendToGroup put two     *)
(* messages about it into the channel in the wrong order: nothing compares *)
(* their versions.                                                         *)
LatestWins == Drained /\ faults = 0 => \A r \in Resources \ overtaken : store[r] = newest[r]

(* "after the edge is disconnected or the node restarts the configuration  *)
(* is quickly recovered from the edge" (README): after a restart what is   *)
(* in sqlite is served.                                                    *)
Recovered == <>[](\A r \in Resources : db[r] # 0 => snapshot[r] # 0)
=============================================================================
