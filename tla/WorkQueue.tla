----------------------------- MODULE WorkQueue -----------------------------
(***************************************************************************)
(* The rate-limited work queue of client-go (vendor/k8s.io/client-go/util/ *)
(* workqueue) with the worker loop of the envoy ingress controller around  *)
(* it: Get, work, AddRateLimited when the work failed, Done.  Every method *)
(* runs under the queue's own mutex, so each is one action.                *)
(***************************************************************************)
EXTENDS Naturals, Sequences

CONSTANTS Items, Workers, None

ASSUME NoneAssumption == None \notin Items

VARIABLES queue,         \* the order in which items are worked on
          dirty,         \* items that need processing
          processing,    \* items being processed
          waiting,       \* items the delaying queue holds back
          shuttingDown,
          wpc,           \* worker: "idle", "working", "failed" or "quit"
          item           \* item[w]: what worker w got, or None

vars == <<queue, dirty, processing, waiting, shuttingDown, wpc, item>>

TypeOK ==
  /\ queue \in Seq(Items)
  /\ dirty \subseteq Items
  /\ processing \subseteq Items
  /\ waiting \subseteq Items
  /\ shuttingDown \in BOOLEAN
  /\ wpc \in [Workers -> {"idle", "working", "failed", "quit"}]
  /\ item \in [Workers -> Items \cup {None}]

Init ==
  /\ queue = << >>
  /\ dirty = {}
  /\ processing = {}
  /\ waiting = {}
  /\ shuttingDown = FALSE
  /\ wpc = [w \in Workers |-> "idle"]
  /\ item = [w \in Workers |-> None]

\* Mutant: an item that is being processed is queued a second time.
InsertWhileProcessing(x) ==
  IF shuttingDown \/ x \in dirty
  THEN UNCHANGED <<queue, dirty>>
  ELSE dirty' = dirty \cup {x} /\ queue' = Append(queue, x)

\* Mutant: Add does not look at shuttingDown.
InsertWhenShuttingDown(x) ==
  IF x \in dirty
  THEN UNCHANGED <<queue, dirty>>
  ELSE /\ dirty' = dirty \cup {x}
       /\ queue' = IF x \in processing THEN queue ELSE Append(queue, x)

Insert(x) ==
  IF shuttingDown \/ x \in dirty
  THEN UNCHANGED <<queue, dirty>>
  ELSE /\ dirty' = dirty \cup {x}
       /\ queue' = IF x \in processing THEN queue ELSE Append(queue, x)

Add(x) ==
  /\ Insert(x)
  /\ UNCHANGED <<processing, waiting, shuttingDown, wpc, item>>

\* Mutant: the item is not marked as being processed.
GetUnmarked(w) ==
  /\ wpc[w] = "idle"
  /\ queue # << >>
  /\ queue' = Tail(queue)
  /\ dirty' = dirty \ {Head(queue)}
  /\ item' = [item EXCEPT ![w] = Head(queue)]
  /\ wpc' = [wpc EXCEPT ![w] = "working"]
  /\ UNCHANGED <<processing, waiting, shuttingDown>>

\* Mutant: the item stays dirty.
GetKeepsDirty(w) ==
  /\ wpc[w] = "idle"
  /\ queue # << >>
  /\ queue' = Tail(queue)
  /\ processing' = processing \cup {Head(queue)}
  /\ item' = [item EXCEPT ![w] = Head(queue)]
  /\ wpc' = [wpc EXCEPT ![w] = "working"]
  /\ UNCHANGED <<dirty, waiting, shuttingDown>>

Get(w) ==
  /\ wpc[w] = "idle"
  /\ queue # << >>
  /\ queue' = Tail(queue)
  /\ processing' = processing \cup {Head(queue)}
  /\ dirty' = dirty \ {Head(queue)}
  /\ item' = [item EXCEPT ![w] = Head(queue)]
  /\ wpc' = [wpc EXCEPT ![w] = "working"]
  /\ UNCHANGED <<waiting, shuttingDown>>

\* Get returns shutdown = true and the worker's loop ends.
GetQuit(w) ==
  /\ wpc[w] = "idle"
  /\ queue = << >> /\ shuttingDown
  /\ wpc' = [wpc EXCEPT ![w] = "quit"]
  /\ UNCHANGED <<queue, dirty, processing, waiting, shuttingDown, item>>

\* Mutant: the retry comes after Done, when the worker has no item any more.
AddRateLimitedAfterDone(w) ==
  /\ wpc[w] = "idle"
  /\ waiting' = IF shuttingDown THEN waiting ELSE waiting \cup {item[w]}
  /\ UNCHANGED <<queue, dirty, processing, shuttingDown, wpc, item>>

AddRateLimited(w) ==
  /\ wpc[w] = "working"
  /\ waiting' = IF shuttingDown THEN waiting ELSE waiting \cup {item[w]}
  /\ wpc' = [wpc EXCEPT ![w] = "failed"]
  /\ UNCHANGED <<queue, dirty, processing, shuttingDown, item>>

\* Mutant: an item added while it was processed is not queued again.
DoneForgets(w) ==
  /\ wpc[w] \in {"working", "failed"}
  /\ processing' = processing \ {item[w]}
  /\ item' = [item EXCEPT ![w] = None]
  /\ wpc' = [wpc EXCEPT ![w] = "idle"]
  /\ UNCHANGED <<queue, dirty, waiting, shuttingDown>>

Done(w) ==
  /\ wpc[w] \in {"working", "failed"}
  /\ processing' = processing \ {item[w]}
  /\ queue' = IF item[w] \in dirty THEN Append(queue, item[w]) ELSE queue
  /\ item' = [item EXCEPT ![w] = None]
  /\ wpc' = [wpc EXCEPT ![w] = "idle"]
  /\ UNCHANGED <<dirty, waiting, shuttingDown>>

\* The waiting loop adds an item whose delay is over; it ends at shutdown.
WaitingLoop(x) ==
  /\ ~shuttingDown
  /\ x \in waiting
  /\ waiting' = waiting \ {x}
  /\ Insert(x)
  /\ UNCHANGED <<processing, shuttingDown, wpc, item>>

ShutDown ==
  /\ ~shuttingDown
  /\ shuttingDown' = TRUE
  /\ UNCHANGED <<queue, dirty, processing, waiting, wpc, item>>

Next ==
  \/ \E x \in Items : Add(x) \/ WaitingLoop(x)
  \/ \E w \in Workers : Get(w) \/ GetQuit(w) \/ AddRateLimited(w) \/ Done(w)
  \/ ShutDown

Spec == Init /\ [][Next]_vars

\* A worker goroutine runs on: Get returns once there is an item, and the
\* work on an item ends with Done.  Nothing else is assumed.
FairSpec ==
  Spec /\ \A w \in Workers : WF_vars(Get(w)) /\ WF_vars(GetQuit(w)) /\ WF_vars(Done(w))
-----------------------------------------------------------------------------
Elements(s) == {s[i] : i \in 1..Len(s)}

(* The comment on Type.queue ("Every element of queue should be in the     *)
(* dirty set and not in the processing set"), with its converse: an item   *)
(* that needs processing and is not being processed is queued, and once    *)
(* only, so no Add is lost and none is served twice.                       *)
QueueIsDirtyIdle ==
  /\ Elements(queue) = dirty \ processing
  /\ \A i, j \in 1..Len(queue) : queue[i] = queue[j] => i = j

(* Items in processing are exactly the ones workers hold, and no two       *)
(* workers hold the same item: this is what makes syncEnvoyIngress and     *)
(* syncEnvoyResource single-threaded per key.                              *)
OneHolder ==
  /\ processing = {item[w] : w \in Workers} \ {None}
  /\ \A v, w \in Workers : item[v] = item[w] /\ item[v] # None => v = w

(* OneHolder, QueueIsDirtyIdle and the worker's program counter together   *)
(* are inductive: a worker holds an item exactly while it works on it.     *)
QueueInv ==
  /\ TypeOK
  /\ QueueIsDirtyIdle
  /\ OneHolder
  /\ \A w \in Workers : item[w] # None <=> wpc[w] \in {"working", "failed"}

(* No item starves: whatever needs processing is taken by some worker,     *)
(* also when the queue is shutting down ("As soon as the worker goroutines *)
(* have drained the existing items in the queue, they will be instructed   *)
(* to exit").  FIFO order is what makes weak fairness enough.              *)
NoStarvation == \A x \in Items : x \in dirty ~> x \notin dirty

(* After ShutDown every worker's loop ends.                                *)
Drains == shuttingDown ~> \A w \in Workers : wpc[w] = "quit"

KW == INSTANCE KeyedWork
        WITH pending <- dirty, busy <- item, later <- waiting

(* The FIFO queue implements the keyed work set its users reason with.     *)
ImplementsKeyedWork == KW!KWSpec
=============================================================================
