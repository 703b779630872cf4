---------------------------- MODULE MCDeviceTwin ----------------------------
(***************************************************************************)
(* The device twin of an edge node with messages from the cloud and from   *)
(* applications in any order.                                              *)
(***************************************************************************)
EXTENDS DeviceTwin

CONSTANTS MaxMessages, Kinds

VARIABLE sent
vars == <<dtVars, sent>>

Blank == [expected |-> None, ev |-> None, actual |-> None, av |-> None, deleted |-> FALSE]

\* What the device controller sends: a desired value with the resource version
\* of the device, or, in an update, a property the device no longer has.
FromCloud(deleted) ==
  [Properties -> {[Blank EXCEPT !.expected = v, !.ev = [cloud |-> sent + 1, edge |-> 0], !.deleted = b] :
                    v \in Values, b \in deleted}]

\* What an application reports, asks for or removes.
FromApp ==
  [Properties -> {[Blank EXCEPT !.actual = v] : v \in Values \cup Invalid}
                   \cup {[Blank EXCEPT !.expected = v] : v \in Values} \cup {Nil}]

Attrs == [Attributes -> {[value |-> v, optional |-> b] : v \in Values, b \in {None, TRUE}} \cup {Nil}]

Online == CHOOSE s \in States : TRUE

Message ==
  UNION {CASE k = "add" -> {[kind |-> k, d |-> d, state |-> Online, twin |-> t] :
                              d \in Devices, t \in FromCloud({FALSE})}
           [] k = "remove" -> {[kind |-> k, d |-> d] : d \in Devices}
           [] k = "detail" -> {[kind |-> k, devs |-> f, state |-> Online] :
                                 f \in UNION {[D -> FromCloud({FALSE})] : D \in SUBSET Devices}}
           [] k = "sync" -> {[kind |-> k, d |-> d, twin |-> t] : d \in Devices, t \in FromCloud(BOOLEAN)}
           [] k = "rest" -> {[kind |-> k, d |-> d, twin |-> t] : d \in Devices, t \in FromApp}
           [] k = "state" -> {[kind |-> k, d |-> d, state |-> s] : d \in Devices, s \in States \ {Online}}
           [] k = "attr" -> {[kind |-> k, d |-> d, attr |-> a] : d \in Devices, a \in Attrs}
         : k \in Kinds}

Desired == [expected |-> CHOOSE v \in Values : TRUE, ev |-> [cloud |-> 1, edge |-> 0],
            actual |-> None, av |-> None, deleted |-> FALSE, optional |-> FALSE]
Removed == [expected |-> None, ev |-> [cloud |-> 0, edge |-> 2],
            actual |-> None, av |-> None, deleted |-> TRUE, optional |-> TRUE]

\* What sqlite holds at first: no device; devices with a desired value;
\* devices with a property that an application made and removed.
Stored(twin) ==
  [Empty EXCEPT !.dev = [d \in Devices |-> Online],
                !.twin = [d \in Devices |-> [p \in Properties |-> twin]]]

Init == sent = 1 /\ \E tables \in {Empty, Stored(Desired), Stored(Removed)} : DTInit(tables)

Sends == sent <= MaxMessages /\ sent' = sent + 1 /\ \E m \in Message : DistributeMsg(m)

\* CommWorker takes a message.
CommTakes ==
  /\ comm # << >> /\ comm' = Tail(comm)
  /\ UNCHANGED <<list, sqlite, locks, work, chan, beats, marks, faults, sent>>

Next ==
  \/ Sends \/ CommTakes
  \/ \E w \in Goroutines : Step(w) /\ UNCHANGED sent
  \/ \E n \in Workers : HealthCheck(n) /\ UNCHANGED sent
  \/ (HeartBeatFull \/ Restart) /\ UNCHANGED sent

Spec == Init /\ [][Next]_vars

\* Nothing goes on: no worker can take a step, CommWorker has taken everything
\* and runDeviceTwin has no worker to start again that is gone.
Quiet ==
  /\ comm = << >>
  /\ \A w \in Goroutines : ~ENABLED Step(w)
  /\ \A n \in Workers : ~(Gone(n) /\ ENABLED HealthCheck(n))

\* Workers do not wait for each other for good.  When nothing goes on any more,
\* every worker has come to the end of its message, also when statements failed,
\* others had the locks or the channel of CommWorker was full, and a worker that
\* panicked has been started again (Lock, LockAll, CommTo, runDeviceTwin).  The
\* exceptions: a mutex that is lost, because its worker panicked or a membership
\* detail removed the device before Unlock, and the read lock with it, once a
\* membership detail waits for the write lock; a worker that panicked before it
\* had answered a heartbeat stays away, and nobody is started again once its
\* heartbeats fill their channel; a device that was added or removed while
\* another worker had it.
WorkersFinish ==
  Quiet /\ raced = {} =>
    /\ \A w \in Goroutines :
         \/ work[w].pc \in {"idle", "dead"}
         \/ work[w].pc = "mutex" /\ work[w].mutex \in lost
         \/ Details # {} /\ lost # {}
    /\ \A n \in Workers : Gone(n) => Abandoned # {}

\* A race and a fault are not looked at together.
RaceOrFault == raced = {} \/ faults = 0

Symmetry == Permutations(Devices)
=============================================================================
