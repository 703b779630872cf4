---------------------- MODULE EnvoyControlPlaneProofs ----------------------
(***************************************************************************)
(* For any resources, types, messages, channel size and faults: snapshots  *)
(* are recent, and without failures the tables follow the maps and the     *)
(* last message about a resource wins.                                     *)
(***************************************************************************)
EXTENDS EnvoyControlPlane, TLAPS

\* The types that the proofs below need.
MessagesOK == wire \in Seq(Message) /\ sends \subseteq Message /\ channel \in Seq(Message)
MapsOK ==
  /\ store \in [Resources -> Contents] /\ db \in [Resources -> Contents]
  /\ part \in [Resources -> Contents] /\ seen \in [Resources -> SUBSET Contents]
CountsOK == sent \in Nat /\ faults \in Nat /\ fpc \in 0..6
DataOK == MessagesOK /\ busy \in Message \cup {None} /\ MapsOK /\ CountsOK

LEMMA AfterType == \A m \in Message : After(m) \in Contents
BY BoundsAssumption DEF After, Message, Contents

LEMMA EmptyType == Empty \in [Resources -> Contents]
BY BoundsAssumption DEF Empty, Contents

LEMMA SeenType == [r \in Resources |-> {0}] \in [Resources -> SUBSET Contents]
BY BoundsAssumption DEF Contents

LEMMA TypesLen == Len(Types) = 5 /\ DOMAIN Types = 1..5
BY DEF Types

LEMMA DataInit == Init => DataOK
BY EmptyType, SeenType DEF Init, DataOK, MessagesOK, MapsOK, CountsOK

LEMMA DataStep ==
  ASSUME DataOK, [Next]_vars
  PROVE  DataOK'
<1> USE DEF DataOK, MessagesOK, MapsOK, CountsOK
<1>1. CASE UNCHANGED vars
  BY <1>1, Zenon DEF vars, inVars, flushVars, sentVars
<1>2. ASSUME NEW r \in Resources, NEW opr \in {"insert", "delete"}, CloudSend(r, opr)
      PROVE  DataOK'
  <2>1. [num |-> sent + 1, res |-> r, opr |-> opr] \in Message
    BY <1>2, BoundsAssumption DEF CloudSend, Message
  <2> QED
    BY <1>2, <2>1 DEF CloudSend, flushVars
<1>3. CASE Dispatch
  BY <1>3 DEF Dispatch, flushVars, sentVars
<1>4. ASSUME NEW m \in sends, Deliver(m)
      PROVE  DataOK'
  BY <1>4 DEF Deliver, flushVars
<1>5. CASE Reject
  BY <1>5 DEF Reject, flushVars, sentVars
<1>6. CASE Process
  <2> DEFINE m == Head(channel)
  <2>1. m \in Message /\ Tail(channel) \in Seq(Message)
    BY <1>6 DEF Process
  <2>2. After(m) \in Contents
    BY <2>1, AfterType, Zenon
  <2>3. store' \in [Resources -> Contents] /\ seen' \in [Resources -> SUBSET Contents]
    BY <1>6, <2>2, Zenon DEF Process
  <2> QED
    BY <1>6, <2>1, <2>3, Zenon DEF Process, flushVars, sentVars
<1>7. CASE Persist
  BY <1>7, AfterType, Zenon DEF Persist, inVars, flushVars, sentVars
<1>8. CASE PersistFails
  BY <1>8 DEF PersistFails, inVars, flushVars
<1>9. CASE FlushStart
  BY <1>9 DEF FlushStart, inVars, sentVars
<1>10. CASE FlushRead
  <2>1. part' \in [Resources -> Contents]
    BY <1>10, Zenon DEF FlushRead
  <2>2. fpc' \in 0..6
    BY <1>10, TypesLen DEF FlushRead
  <2> QED
    BY <1>10, <2>1, <2>2, Zenon DEF FlushRead, inVars, sentVars
<1>11. CASE Generate
  BY <1>11 DEF Generate, inVars, sentVars
<1>12. CASE FlushPanics \/ Crash
  <2>1. Down /\ faults' \in Nat
    BY <1>12 DEF FlushPanics, Crash
  <2>2. store' = Empty /\ part' = Empty /\ db' = db /\ seen' = [r \in Resources |-> {0}]
    BY <2>1, Zenon DEF Down
  <2>3. MapsOK'
    BY <2>2, EmptyType, SeenType, Zenon
  <2>4. MessagesOK' /\ busy' = None /\ fpc' \in 0..6 /\ sent' \in Nat
    BY <2>1 DEF Down
  <2> QED
    BY <2>1, <2>3, <2>4, Zenon
<1>13. CASE StartGrpcServer
  BY <1>13, Zenon DEF StartGrpcServer, inVars, flushVars, sentVars
<1>14. CASE Restart
  BY <1>14, Zenon DEF Restart, inVars, flushVars, sentVars
<1> QED
  BY <1>1, <1>2, <1>3, <1>4, <1>5, <1>6, <1>7, <1>8, <1>9, <1>10, <1>11, <1>12, <1>13, <1>14, Zenon
     DEF Next, Flush

\* The bounds that TypeOK has besides: the channel's size, the version.
BoundsOK ==
  /\ Len(channel) <= ChannelSize
  /\ snapshot \in [Resources -> Contents] /\ newest \in [Resources -> Contents]
  /\ overtaken \subseteq Resources /\ version \in 0..VersionBound - 1
  /\ sent \in 0..MaxMessages /\ faults \in 0..MaxFaults

FlagsOK == served \in BOOLEAN /\ up \in BOOLEAN

LEMMA ShorterChannel ==
  ASSUME DataOK, channel # << >>
  PROVE  Len(Tail(channel)) = Len(channel) - 1 /\ Len(channel) \in Nat
BY DEF DataOK, MessagesOK

LEMMA BoundsStep ==
  ASSUME DataOK, BoundsOK, [Next]_vars
  PROVE  BoundsOK'
<1> USE DEF BoundsOK
<1>1. CASE UNCHANGED <<channel, snapshot, newest, overtaken, version, sent, faults>>
  BY <1>1, Zenon
<1>2. ASSUME NEW r \in Resources, NEW opr \in {"insert", "delete"}, CloudSend(r, opr)
      PROVE  BoundsOK'
  <2> DEFINE m == [num |-> sent + 1, res |-> r, opr |-> opr]
  <2>1. m \in Message /\ sent' \in 0..MaxMessages
    BY <1>2, BoundsAssumption DEF CloudSend, Message
  <2>2. After(m) \in Contents
    BY <2>1, AfterType, Zenon
  <2>3. newest' = [newest EXCEPT ![r] = IF m.num \in BadMessages THEN @ ELSE After(m)]
    BY <1>2, Zenon DEF CloudSend
  <2> HIDE DEF m
  <2>4. newest' \in [Resources -> Contents]
    BY <2>2, <2>3, Zenon
  <2> QED
    BY <1>2, <2>1, <2>4, Zenon DEF CloudSend, flushVars
<1>3. ASSUME NEW m \in sends, Deliver(m)
      PROVE  BoundsOK'
  <2>1. m \in Message /\ channel \in Seq(Message)
    BY Zenon DEF DataOK, MessagesOK
  <2>2. m.res \in Resources
    BY <2>1, Zenon DEF Message
  <2>3. Len(channel') <= ChannelSize
    BY <1>3, <2>1, BoundsAssumption DEF Deliver
  <2> QED
    BY <1>3, <2>2, <2>3, Zenon DEF Deliver, flushVars
<1>4. CASE Reject \/ Process
  <2>1. Len(channel') <= ChannelSize
    BY <1>4, ShorterChannel, BoundsAssumption DEF Reject, Process
  <2> QED
    BY <1>4, <2>1, Zenon DEF Reject, Process, flushVars, sentVars
<1>5. CASE PersistFails
  BY <1>5, BoundsAssumption DEF PersistFails, inVars, flushVars
<1>6. CASE Generate
  <2>1. version' \in 0..VersionBound - 1
    BY <1>6, BoundsAssumption DEF Generate
  <2> QED
    BY <1>6, <2>1, Zenon DEF Generate, inVars, sentVars, DataOK, MapsOK
<1>7. CASE FlushPanics \/ Crash
  <2>1. Down /\ faults' \in 0..MaxFaults
    BY <1>7, BoundsAssumption DEF FlushPanics, Crash
  <2> QED
    BY <2>1, EmptyType, BoundsAssumption DEF Down
<1>8. CASE Dispatch \/ Persist \/ FlushStart \/ FlushRead \/ StartGrpcServer \/ Restart
  BY <1>1, <1>8, Zenon DEF Dispatch, Persist, FlushStart, FlushRead, StartGrpcServer, Restart, inVars,
     flushVars, sentVars
<1>9. CASE UNCHANGED vars
  BY <1>1, <1>9, Zenon DEF vars, inVars, flushVars, sentVars
<1> QED
  BY <1>2, <1>3, <1>4, <1>5, <1>6, <1>7, <1>8, <1>9, Zenon DEF Next, Flush

LEMMA FlagsStep ==
  ASSUME FlagsOK, [Next]_vars
  PROVE  FlagsOK'
BY Zenon DEF FlagsOK, Next, Flush, vars, inVars, CloudSend, Dispatch, Deliver, Reject, Process, Persist,
   PersistFails, FlushStart, FlushRead, Generate, FlushPanics, Down, StartGrpcServer, Crash, Restart

\* Of any resources, messages and faults: messages, maps, tables and snapshot
\* keep their types, the channel of the module never holds more than its size
\* (SendToGroup's goroutines wait) and the version stays within its bound.
THEOREM ControlPlaneTypes == Spec => []TypeOK
<1>1. Init => DataOK /\ BoundsOK /\ FlagsOK
  <2> SUFFICES ASSUME Init PROVE BoundsOK /\ FlagsOK
    BY DataInit, Zenon
  <2>1. BoundsOK
    BY EmptyType, BoundsAssumption DEF Init, BoundsOK
  <2>2. FlagsOK
    BY Zenon DEF Init, FlagsOK
  <2> QED
    BY <2>1, <2>2, Zenon
<1>2. DataOK /\ BoundsOK /\ FlagsOK /\ [Next]_vars => (DataOK /\ BoundsOK /\ FlagsOK)'
  BY DataStep, BoundsStep, FlagsStep, Zenon
<1>3. DataOK /\ BoundsOK /\ FlagsOK => TypeOK
  <2> SUFFICES ASSUME DataOK, BoundsOK, FlagsOK PROVE TypeOK
    BY Zenon
  <2>1. fpc \in 0..Len(Types) + 1
    BY TypesLen DEF DataOK, CountsOK
  <2> QED
    BY <2>1, Zenon DEF DataOK, MessagesOK, MapsOK, BoundsOK, FlagsOK, TypeOK
<1> QED
  BY <1>1, <1>2, <1>3, PTL DEF Spec
-----------------------------------------------------------------------------
\* A resource of a type that FlushXDSCache has read has in the collection what
\* its map had since the flush began.  The map's contents now are among that.
RecentInv ==
  \A r \in Resources :
    /\ store[r] \in seen[r]
    /\ \A t \in 1..5 : t < fpc /\ TypeOf[r] = Types[t] => part[r] \in seen[r]

LEMMA RecentStep ==
  ASSUME DataOK, RecentInv, [Next]_vars
  PROVE  RecentInv'
<1> USE DEF RecentInv
<1>1. CASE UNCHANGED <<store, seen, part, fpc>>
  BY <1>1, Zenon
<1>2. CASE Process
  <2>1. \A r \in Resources : seen[r] \subseteq seen'[r]
    BY <1>2, Zenon DEF Process, DataOK, MapsOK
  <2>2. \A r \in Resources : store'[r] \in seen'[r]
    BY <1>2, Zenon DEF Process, DataOK, MapsOK
  <2> QED
    BY <1>2, <2>1, <2>2, Zenon DEF Process, flushVars
<1>3. CASE FlushStart
  BY <1>3 DEF FlushStart
<1>4. CASE FlushRead
  <2>1. fpc \in 1..5 /\ fpc' = fpc + 1 /\ UNCHANGED <<store, seen>>
    BY <1>4, TypesLen, Zenon DEF FlushRead
  <2>2. ASSUME NEW r \in Resources, NEW t \in 1..5, t < fpc', TypeOf[r] = Types[t]
        PROVE  part'[r] \in seen'[r]
    <3>1. CASE TypeOf[r] = Types[fpc]
      BY <1>4, <2>1, <3>1, Zenon DEF FlushRead
    <3>2. CASE TypeOf[r] # Types[fpc]
      <4>1. t < fpc
        BY <2>1, <2>2, <3>2
      <4>2. part'[r] = part[r]
        BY <1>4, <3>2, Zenon DEF FlushRead
      <4> QED
        BY <2>1, <2>2, <4>1, <4>2, Zenon
    <3> QED
      BY <3>1, <3>2, Zenon
  <2> QED
    BY <2>1, <2>2, Zenon
<1>5. CASE Generate
  BY <1>5 DEF Generate
<1>6. CASE FlushPanics \/ Crash
  BY <1>6 DEF FlushPanics, Crash, Down, Empty
<1> QED
  BY <1>1, <1>2, <1>3, <1>4, <1>5, <1>6, ZenonT(30)
     DEF Next, Flush, vars, CloudSend, Dispatch, Deliver, Reject, Persist, PersistFails,
         StartGrpcServer, Restart, flushVars

\* SnapshotIsRecent for any number of resources of any types: however messages
\* change the maps while FlushXDSCache reads them one after the other, the
\* snapshot has of each resource what its map had during this flush.
THEOREM SnapshotsAreRecent == Spec => []SnapshotIsRecent
<1>1. Init => DataOK /\ RecentInv
  BY DataInit DEF Init, RecentInv, Empty
<1>2. DataOK /\ RecentInv /\ [Next]_vars => (DataOK /\ RecentInv)'
  BY DataStep, RecentStep, Zenon
<1>3. RecentInv => SnapshotIsRecent
  <2>0. Len(Types) + 1 = 6
    BY TypesLen
  <2> SUFFICES ASSUME RecentInv, fpc = 6, NEW r \in Resources
               PROVE  part[r] \in seen[r]
    BY <2>0, Zenon DEF SnapshotIsRecent
  <2>1. PICK t \in 1..5 : TypeOf[r] = Types[t]
    <3>1. TypeOf[r] \in {Types[t] : t \in DOMAIN Types}
      BY TypeOfAssumption, Zenon
    <3> QED
      BY <3>1, TypesLen, Zenon
  <2> QED
    BY <2>1 DEF RecentInv
<1> QED
  BY <1>1, <1>2, <1>3, PTL DEF Spec
-----------------------------------------------------------------------------
\* Until something fails, the map is one message ahead of the table while the
\* message is being processed, and equal to it otherwise.
DbInv ==
  faults = 0 =>
    /\ up
    /\ busy = None => db = store
    /\ busy # None => store = [db EXCEPT ![busy.res] = After(busy)]

LEMMA DbStep ==
  ASSUME DataOK, DbInv, [Next]_vars
  PROVE  DbInv'
<1> USE DEF DbInv
<1>1. CASE UNCHANGED <<busy, db, store, up, faults>>
  BY <1>1, Zenon DEF After
<1>2. CASE Process
  <2>1. Head(channel) # None
    BY <1>2, NoneAssumption DEF Process, DataOK, MessagesOK
  <2> QED
    BY <1>2, <2>1, Zenon DEF Process, sentVars, After
<1>3. CASE Persist
  BY <1>3, Zenon DEF Persist, sentVars, After
<1>4. CASE faults' = faults + 1
  BY <1>4 DEF DataOK, CountsOK
<1>5. CASE Restart
  BY <1>5, Zenon DEF Restart, sentVars, After
<1> QED
  BY <1>1, <1>2, <1>3, <1>4, <1>5, ZenonT(30)
     DEF Next, Flush, vars, CloudSend, Dispatch, Deliver, Reject, PersistFails, FlushStart,
         FlushRead, Generate, FlushPanics, Crash, StartGrpcServer, sentVars, inVars

\* DbIsStore for any number of resources and messages: processInsert and
\* processDelete leave the map and the table of the type with the same contents.
THEOREM TablesFollowMaps == Spec => []DbIsStore
<1>1. Init => DataOK /\ DbInv
  BY DataInit, Zenon DEF Init, DbInv
<1>2. DataOK /\ DbInv /\ [Next]_vars => (DataOK /\ DbInv)'
  BY DataStep, DbStep, Zenon
<1>3. DbInv => DbIsStore
  BY Zenon DEF DbInv, DbIsStore
<1> QED
  BY <1>1, <1>2, <1>3, PTL DEF Spec
-----------------------------------------------------------------------------
\* The messages that have not been processed.
Elements(s) == {s[i] : i \in 1..Len(s)}
InTransit == sends \cup Elements(wire) \cup Elements(channel)

\* Those that processInsert or processDelete will apply to r.
Pending(r) == {m \in InTransit : m.res = r /\ m.num \notin BadMessages}

\* The connection keeps messages in the order they were sent in, and the
\* channel those about a resource until one has overtaken another.
WireInOrder ==
  /\ \A i \in 1..Len(wire) : wire[i].num <= sent
  /\ \A i, j \in 1..Len(wire) : i < j => wire[i].num < wire[j].num
SendsInOrder ==
  /\ \A m \in sends : m.num <= sent /\ \A i \in 1..Len(wire) : m.num < wire[i].num
  /\ \A m, n \in sends : m.num = n.num => m = n
ChannelInOrder ==
  /\ \A i \in 1..Len(channel) :
       channel[i].num <= sent /\ \A j \in 1..Len(wire) : channel[i].num < wire[j].num
  /\ \A i, j \in 1..Len(channel) :
       i < j /\ channel[i].res = channel[j].res /\ channel[i].res \notin overtaken
         => channel[i].num < channel[j].num
  /\ \A i \in 1..Len(channel), m \in sends :
       channel[i].res = m.res /\ m.res \notin overtaken => channel[i].num < m.num
OrderInv == WireInOrder /\ SendsInOrder /\ ChannelInOrder

\* What the last message about r will make of it, or has made of it.
LatestOf(r) ==
  /\ Pending(r) = {} => store[r] = newest[r]
  /\ \A m \in Pending(r) :
       (\A n \in Pending(r) : n.num <= m.num) => newest[r] = After(m)
LatestInv == faults = 0 => up /\ \A r \in Resources \ overtaken : LatestOf(r)

LEMMA AppendElements ==
  ASSUME NEW s \in Seq(Message), NEW x \in Message
  PROVE  Elements(Append(s, x)) = Elements(s) \cup {x}
<1> DEFINE t == Append(s, x)
<1>1. Len(t) = Len(s) + 1 /\ t[Len(s) + 1] = x /\ \A i \in 1..Len(s) : t[i] = s[i]
  OBVIOUS
<1> HIDE DEF t
<1>2. Len(s) \in Nat
  OBVIOUS
<1> QED
  BY <1>1, <1>2 DEF Elements

LEMMA TailElements ==
  ASSUME NEW s \in Seq(Message), s # << >>
  PROVE  Elements(s) = {Head(s)} \cup Elements(Tail(s))
<1> DEFINE t == Tail(s)
<1>1. Len(t) = Len(s) - 1 /\ Head(s) = s[1] /\ \A i \in 1..Len(t) : t[i] = s[i + 1]
  OBVIOUS
<1> HIDE DEF t
<1>2. Len(s) \in Nat \ {0}
  OBVIOUS
<1>3. \A j \in 1..Len(s) : j = 1 \/ (j - 1 \in 1..Len(t) /\ s[j] = t[j - 1])
  BY <1>1, <1>2
<1>4. \A i \in 1..Len(t) : i + 1 \in 1..Len(s)
  BY <1>1, <1>2
<1> QED
  BY <1>1, <1>2, <1>3, <1>4 DEF Elements

LEMMA OrderStep ==
  ASSUME DataOK, OrderInv, [Next]_vars
  PROVE  OrderInv'
<1> USE DEF OrderInv, WireInOrder, SendsInOrder, ChannelInOrder
<1>0. \A m \in Message : m.num \in Nat
  BY DEF Message
<1>1. CASE UNCHANGED <<wire, sends, channel, overtaken, sent>>
  BY <1>1
<1>2. ASSUME NEW r \in Resources, NEW opr \in {"insert", "delete"}, CloudSend(r, opr)
      PROVE  OrderInv'
  <2> DEFINE m == [num |-> sent + 1, res |-> r, opr |-> opr]
  <2>1. wire' = Append(wire, m) /\ UNCHANGED <<sends, channel, overtaken>> /\ sent' = sent + 1
    BY <1>2, Zenon DEF CloudSend
  <2>2. m.num = sent + 1
    BY Zenon
  <2>3. m \in Message
    BY <1>2, BoundsAssumption DEF CloudSend, Message, DataOK, CountsOK
  <2> HIDE DEF m
  <2>4. Len(wire') = Len(wire) + 1 /\ wire'[Len(wire) + 1] = m
    BY <2>1, <2>3 DEF DataOK, MessagesOK
  <2>5. \A i \in 1..Len(wire) : wire'[i] = wire[i] /\ wire[i].num \in Nat
    BY <2>1, <2>3, <1>0 DEF DataOK, MessagesOK
  <2>6. Len(wire) \in Nat /\ sent \in Nat
    BY DEF DataOK, MessagesOK, CountsOK
  <2>7. \A i \in 1..Len(wire') : i \in 1..Len(wire) \/ wire'[i] = m
    BY <2>4, <2>6
  <2>8. WireInOrder'
    <3>1. \A i \in 1..Len(wire') : wire'[i].num <= sent'
      BY <2>1, <2>2, <2>5, <2>6, <2>7
    <3>2. \A i, j \in 1..Len(wire') : i < j => i \in 1..Len(wire)
      BY <2>4, <2>6
    <3>3. \A i \in 1..Len(wire) : wire'[i].num < m.num
      BY <2>2, <2>5, <2>6
    <3>4. \A i, j \in 1..Len(wire) : i < j => wire'[i].num < wire'[j].num
      BY <2>5, Zenon
    <3> QED
      BY <2>7, <3>1, <3>2, <3>3, <3>4, Zenon
  <2>9. SendsInOrder'
    BY <2>1, <2>2, <2>5, <2>6, <2>7, <1>0 DEF DataOK, MessagesOK
  <2>10. ChannelInOrder'
    <3>1. \A i \in 1..Len(channel) : channel[i].num \in Nat
      BY <1>0 DEF DataOK, MessagesOK
    <3>2. \A i \in 1..Len(channel) : channel[i].num <= sent' /\ channel[i].num < m.num
      BY <2>1, <2>2, <2>6, <3>1
    <3>3. \A i \in 1..Len(channel), j \in 1..Len(wire) : channel[i].num < wire'[j].num
      BY <2>5, Zenon
    <3> QED
      BY <2>1, <2>7, <3>2, <3>3, Zenon
  <2> QED
    BY <2>8, <2>9, <2>10, Zenon
<1>3. CASE Dispatch
  <2> DEFINE m == Head(wire)
  <2>1. wire' = Tail(wire) /\ sends' = sends \cup {m} /\ UNCHANGED <<channel, overtaken, sent>>
    BY <1>3, Zenon DEF Dispatch, sentVars
  <2>2. Len(wire) \in Nat \ {0} /\ Len(wire') = Len(wire) - 1 /\ m = wire[1] /\ m \in Message
    BY <1>3 DEF Dispatch, DataOK, MessagesOK
  <2>3. \A i \in 1..Len(wire') : i + 1 \in 1..Len(wire) /\ wire'[i] = wire[i + 1]
    BY <2>1, <2>2 DEF DataOK, MessagesOK
  <2> HIDE DEF m
  <2>4. WireInOrder'
    BY <2>1, <2>2, <2>3
  <2>5. SendsInOrder'
    <3>1. \A n \in sends : n.num < m.num /\ n.num \in Nat
      BY <2>2, <1>0 DEF DataOK, MessagesOK
    <3>2. \A i \in 1..Len(wire') : m.num < wire'[i].num /\ m.num <= sent
      BY <2>2, <2>3
    <3>3. \A n \in sends : \A i \in 1..Len(wire') : n.num < wire'[i].num
      BY <2>3, Zenon
    <3>4. m.num <= sent /\ m.num \in Nat
      BY <2>2, <1>0
    <3> QED
      BY <2>1, <3>1, <3>2, <3>3, <3>4
  <2>6. ChannelInOrder'
    <3>1. \A i \in 1..Len(channel) : channel[i].num < m.num
      BY <2>2
    <3>2. \A i \in 1..Len(channel), j \in 1..Len(wire') : channel[i].num < wire'[j].num
      BY <2>3, Zenon
    <3> QED
      BY <2>1, <3>1, <3>2
  <2> QED
    BY <2>4, <2>5, <2>6, Zenon
<1>4. ASSUME NEW m \in sends, Deliver(m)
      PROVE  OrderInv'
  <2>1. /\ sends' = sends \ {m} /\ channel' = Append(channel, m)
        /\ UNCHANGED <<wire, sent>> /\ overtaken \subseteq overtaken'
    BY <1>4, Zenon DEF Deliver
  <2>2. m.res \notin overtaken' => \A n \in sends : n.res = m.res => ~(n.num < m.num)
    BY <1>4, Zenon DEF Deliver
  <2>3. m \in Message
    BY Zenon DEF DataOK, MessagesOK
  <2>4. Len(channel) \in Nat /\ Len(channel') = Len(channel) + 1 /\ channel'[Len(channel) + 1] = m
    BY <2>1, <2>3 DEF DataOK, MessagesOK
  <2>5. \A i \in 1..Len(channel) : channel'[i] = channel[i] /\ channel[i].num \in Nat
    BY <2>1, <2>3, <1>0 DEF DataOK, MessagesOK
  <2>6. \A i \in 1..Len(channel') : i \in 1..Len(channel) \/ (i = Len(channel) + 1 /\ channel'[i] = m)
    BY <2>4
  <2>7. WireInOrder' /\ SendsInOrder'
    BY <2>1, Zenon
  <2>8. \A i \in 1..Len(channel') :
          channel'[i].num <= sent' /\ \A j \in 1..Len(wire') : channel'[i].num < wire'[j].num
    BY <2>1, <2>5, <2>6
  <2>9. \A i, j \in 1..Len(channel') :
          i < j /\ channel'[i].res = channel'[j].res /\ channel'[i].res \notin overtaken'
            => channel'[i].num < channel'[j].num
    BY <2>1, <2>4, <2>5, <2>6
  <2>10. \A n \in sends' : n.res = m.res /\ m.res \notin overtaken' => m.num < n.num
    BY <2>1, <2>2, <2>3, <1>0 DEF DataOK, MessagesOK
  <2>11. \A i \in 1..Len(channel'), n \in sends' :
           channel'[i].res = n.res /\ n.res \notin overtaken' => channel'[i].num < n.num
    BY <2>1, <2>5, <2>6, <2>10
  <2> QED
    BY <2>7, <2>8, <2>9, <2>11, Zenon
<1>5. CASE Reject \/ Process
  <2>1. channel # << >> /\ channel' = Tail(channel) /\ UNCHANGED <<wire, sends, overtaken, sent>>
    BY <1>5, Zenon DEF Reject, Process, sentVars
  <2>2. Len(channel) \in Nat \ {0} /\ Len(channel') = Len(channel) - 1
    BY <2>1 DEF DataOK, MessagesOK
  <2>3. \A i \in 1..Len(channel') : i + 1 \in 1..Len(channel) /\ channel'[i] = channel[i + 1]
    BY <2>1, <2>2 DEF DataOK, MessagesOK
  <2>4. WireInOrder' /\ SendsInOrder'
    BY <2>1, Zenon
  <2>5. ChannelInOrder'
    BY <2>1, <2>2, <2>3
  <2> QED
    BY <2>4, <2>5, Zenon
<1>6. CASE FlushPanics \/ Crash
  BY <1>6 DEF FlushPanics, Crash, Down
<1> QED
  BY <1>1, <1>2, <1>3, <1>4, <1>5, <1>6, ZenonT(30)
     DEF Next, Flush, vars, Persist, PersistFails, FlushStart, FlushRead, Generate,
         StartGrpcServer, Restart, inVars, sentVars

\* A step that moves messages on without applying one.
LEMMA SamePending ==
  ASSUME LatestInv, UNCHANGED <<store, newest, faults, up>>, overtaken \subseteq overtaken',
         \A r \in Resources : Pending(r)' = Pending(r)
  PROVE  LatestInv'
<1>1. \A r \in Resources : LatestOf(r) => LatestOf(r)'
  BY Zenon DEF LatestOf, After
<1> QED
  BY <1>1, Zenon DEF LatestInv

LEMMA LatestStep ==
  ASSUME DataOK, newest \in [Resources -> Contents], OrderInv, LatestInv, [Next]_vars
  PROVE  LatestInv'
<1>1. CASE UNCHANGED <<wire, sends, channel, overtaken, store, newest, faults, up>>
  BY <1>1, SamePending, Zenon DEF Pending, InTransit
<1>2. ASSUME NEW r \in Resources, NEW opr \in {"insert", "delete"}, CloudSend(r, opr)
      PROVE  LatestInv'
  <2> DEFINE m == [num |-> sent + 1, res |-> r, opr |-> opr]
  <2>1. /\ wire' = Append(wire, m) /\ UNCHANGED <<sends, channel, overtaken, store, faults, up>>
        /\ newest' = [newest EXCEPT ![r] = IF m.num \in BadMessages THEN @ ELSE After(m)]
    BY <1>2, Zenon DEF CloudSend
  <2>2. m.num = sent + 1 /\ m.res = r
    BY Zenon
  <2>3. m \in Message
    BY <1>2, BoundsAssumption DEF CloudSend, Message, DataOK, CountsOK
  <2> HIDE DEF m
  <2>4. InTransit' = InTransit \cup {m}
    BY <2>1, <2>3, AppendElements DEF InTransit, DataOK, MessagesOK
  <2>5. \A n \in InTransit : n.num <= sent /\ n.num \in Nat
    <3>1. \A n \in InTransit : n \in Message
      BY DEF InTransit, Elements, DataOK, MessagesOK
    <3>2. \A n \in InTransit : n.num <= sent
      BY Zenon DEF InTransit, Elements, OrderInv, WireInOrder, SendsInOrder, ChannelInOrder
    <3> QED
      BY <3>1, <3>2 DEF Message
  <2>6. sent \in Nat
    BY Zenon DEF DataOK, CountsOK
  <2>7. ASSUME NEW q \in Resources, LatestOf(q)
        PROVE  LatestOf(q)'
    <3>1. CASE q # r \/ m.num \in BadMessages
      <4>1. Pending(q)' = Pending(q) /\ newest'[q] = newest[q] /\ store' = store
        BY <2>1, <2>2, <2>4, <3>1, Zenon DEF Pending
      <4> QED
        BY <2>7, <4>1, Zenon DEF LatestOf, After
    <3>2. CASE q = r /\ m.num \notin BadMessages
      <4>1. Pending(q)' = Pending(q) \cup {m} /\ newest'[q] = After(m)
        BY <2>1, <2>2, <2>4, <3>2, Zenon DEF Pending
      <4>2. \A n \in Pending(q) : ~(m.num <= n.num)
        BY <2>2, <2>5, <2>6 DEF Pending
      <4> QED
        BY <4>1, <4>2, Zenon DEF LatestOf, After
    <3> QED
      BY <3>1, <3>2, Zenon
  <2> QED
    BY <2>1, <2>7, Zenon DEF LatestInv
<1>3. CASE Dispatch
  <2>1. /\ wire # << >> /\ wire' = Tail(wire) /\ sends' = sends \cup {Head(wire)}
        /\ UNCHANGED <<channel, overtaken, store, newest, faults, up>>
    BY <1>3, Zenon DEF Dispatch, sentVars
  <2>2. InTransit' = InTransit
    BY <2>1, TailElements, Zenon DEF InTransit, DataOK, MessagesOK
  <2> QED
    BY <2>1, <2>2, SamePending, Zenon DEF Pending
<1>4. ASSUME NEW m \in sends, Deliver(m)
      PROVE  LatestInv'
  <2>1. /\ sends' = sends \ {m} /\ channel' = Append(channel, m) /\ overtaken \subseteq overtaken'
        /\ UNCHANGED <<wire, store, newest, faults, up>>
    BY <1>4, Zenon DEF Deliver
  <2>2. InTransit' = InTransit
    BY <2>1, AppendElements DEF InTransit, DataOK, MessagesOK
  <2> QED
    BY <2>1, <2>2, SamePending, Zenon DEF Pending
<1>5. CASE Reject
  <2>1. /\ channel # << >> /\ channel' = Tail(channel) /\ Head(channel).num \in BadMessages
        /\ UNCHANGED <<wire, sends, overtaken, store, newest, faults, up>>
    BY <1>5, Zenon DEF Reject, sentVars
  <2>2. InTransit = InTransit' \cup {Head(channel)}
    BY <2>1, TailElements, Zenon DEF InTransit, DataOK, MessagesOK
  <2>3. \A r \in Resources : Pending(r)' = Pending(r)
    BY <2>1, <2>2, Zenon DEF Pending
  <2> QED
    BY <2>1, <2>3, SamePending, Zenon
<1>6. CASE Process
  <2> DEFINE m == Head(channel)
  <2>1. /\ channel # << >> /\ channel' = Tail(channel) /\ m.num \notin BadMessages
        /\ store' = [store EXCEPT ![m.res] = After(m)]
        /\ UNCHANGED <<wire, sends, overtaken, newest, faults, up>>
    BY <1>6, Zenon DEF Process, sentVars
  <2>2. InTransit = InTransit' \cup {m}
    BY <2>1, TailElements, Zenon DEF InTransit, DataOK, MessagesOK
  <2>3. m \in Message /\ m = channel[1] /\ 1 \in 1..Len(channel)
    BY <2>1 DEF DataOK, MessagesOK
  <2> HIDE DEF m
  <2>4. ASSUME m.res \notin overtaken, NEW n \in InTransit', n.res = m.res
        PROVE  m.num < n.num
    <3>1. CASE n \in sends
      BY <2>3, <2>4, <3>1, Zenon DEF OrderInv, ChannelInOrder
    <3>2. CASE n \in Elements(wire)
      BY <2>3, <3>2, Zenon DEF Elements, OrderInv, ChannelInOrder
    <3>3. CASE n \in Elements(Tail(channel))
      <4>1. PICK i \in 1..Len(Tail(channel)) : n = Tail(channel)[i]
        BY <3>3, Zenon DEF Elements
      <4>2. i + 1 \in 1..Len(channel) /\ n = channel[i + 1] /\ 1 < i + 1
        BY <2>1, <4>1 DEF DataOK, MessagesOK
      <4> QED
        BY <2>3, <2>4, <4>2, Zenon DEF OrderInv, ChannelInOrder
    <3> QED
      BY <2>1, <2>4, <3>1, <3>2, <3>3, Zenon DEF InTransit
  <2>5. ASSUME NEW q \in Resources \ overtaken, LatestOf(q)
        PROVE  LatestOf(q)'
    <3>1. CASE q # m.res
      <4>1. Pending(q)' = Pending(q) /\ newest' = newest /\ store'[q] = store[q]
        BY <2>1, <2>2, <3>1, Zenon DEF Pending, DataOK, MapsOK
      <4> QED
        BY <2>5, <4>1, Zenon DEF LatestOf, After
    <3>2. CASE q = m.res
      <4>1. Pending(q) = Pending(q)' \cup {m}
        BY <2>1, <2>2, <3>2, Zenon DEF Pending
      <4>2. \A n \in Pending(q)' : m.num < n.num
        BY <2>4, <2>5, <3>2, Zenon DEF Pending
      <4>3. store'[q] = After(m) /\ newest' = newest
        BY <2>1, <3>2, Zenon DEF DataOK, MapsOK
      <4>4. Pending(q)' = {} => newest[q] = After(m)
        <5>1. m.num <= m.num
          BY <2>3 DEF Message
        <5> QED
          BY <2>5, <4>1, <5>1, Zenon DEF LatestOf
      <4>5. ASSUME NEW n \in Pending(q)', \A k \in Pending(q)' : k.num <= n.num
            PROVE  newest[q] = After(n)
        <5>1. m.num < n.num
          BY <4>2, <4>5, Zenon
        <5>2. n \in Message
          <6>1. n \in InTransit
            BY <2>2, <4>5, Zenon DEF Pending
          <6> QED
            BY <6>1 DEF InTransit, Elements, DataOK, MessagesOK
        <5>3. m.num <= n.num
          BY <2>3, <5>1, <5>2 DEF Message
        <5> QED
          BY <2>5, <4>1, <4>5, <5>3, Zenon DEF LatestOf
      <4> QED
        BY <4>3, <4>4, <4>5, Zenon DEF LatestOf, After
    <3> QED
      BY <3>1, <3>2, Zenon
  <2> QED
    BY <2>1, <2>5, Zenon DEF LatestInv
<1>7. CASE faults' = faults + 1
  BY <1>7 DEF LatestInv, DataOK, CountsOK
<1>8. CASE Restart
  BY <1>8, Zenon DEF Restart, LatestInv, sentVars
<1> QED
  BY <1>1, <1>2, <1>3, <1>4, <1>5, <1>6, <1>7, <1>8, ZenonT(30)
     DEF Next, Flush, vars, Persist, PersistFails, FlushStart, FlushRead, Generate,
         FlushPanics, Crash, StartGrpcServer, inVars, sentVars

LEMMA NewestStep ==
  ASSUME DataOK, newest \in [Resources -> Contents], [Next]_vars
  PROVE  newest' \in [Resources -> Contents]
<1>1. ASSUME NEW r \in Resources, NEW opr \in {"insert", "delete"}, CloudSend(r, opr)
      PROVE  newest' \in [Resources -> Contents]
  <2> DEFINE m == [num |-> sent + 1, res |-> r, opr |-> opr]
  <2>1. m \in Message
    BY <1>1, BoundsAssumption DEF CloudSend, Message, DataOK, CountsOK
  <2>2. newest' = [newest EXCEPT ![r] = IF m.num \in BadMessages THEN @ ELSE After(m)]
    BY <1>1, Zenon DEF CloudSend
  <2> HIDE DEF m
  <2> QED
    BY <2>1, <2>2, AfterType, Zenon
<1>2. CASE UNCHANGED newest
  BY <1>2, Zenon
<1> QED
  BY <1>1, <1>2, ZenonT(30)
     DEF Next, Flush, vars, Dispatch, Deliver, Reject, Process, Persist, PersistFails, FlushStart,
         FlushRead, Generate, FlushPanics, Crash, Down, StartGrpcServer, Restart, sentVars

\* LatestWins for any number of resources, messages and goroutines of
\* SendToGroup: if nothing failed, a resource about which the channel got the
\* messages in order ends with the contents of the last one that can be decoded.
THEOREM LastMessageWins == Spec => []LatestWins
<1> DEFINE Inv == DataOK /\ newest \in [Resources -> Contents] /\ OrderInv /\ LatestInv
<1>1. Init => Inv
  <2> SUFFICES ASSUME Init PROVE Inv
    BY Zenon
  <2>1. DataOK /\ newest \in [Resources -> Contents]
    BY DataInit, EmptyType, Zenon DEF Init
  <2>2. OrderInv
    BY DEF Init, OrderInv, WireInOrder, SendsInOrder, ChannelInOrder
  <2>3. InTransit = {}
    BY DEF Init, InTransit, Elements
  <2>4. LatestInv
    BY <2>3, Zenon DEF Init, LatestInv, LatestOf, Pending
  <2> QED
    BY <2>1, <2>2, <2>4, Zenon
<1>2. Inv /\ [Next]_vars => Inv'
  BY DataStep, NewestStep, OrderStep, LatestStep, Zenon
<1>3. Inv => LatestWins
  <2> SUFFICES ASSUME LatestInv, Drained, faults = 0, NEW r \in Resources \ overtaken
               PROVE  store[r] = newest[r]
    BY Zenon DEF LatestWins
  <2>1. Pending(r) = {}
    BY DEF Drained, Pending, InTransit, Elements
  <2> QED
    BY <2>1, Zenon DEF LatestInv, LatestOf
<1> QED
  BY <1>1, <1>2, <1>3, PTL DEF Spec
=============================================================================
