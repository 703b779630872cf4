---------------------------- MODULE IngressSync ----------------------------
(***************************************************************************)
(* The heart of the envoy ingress controller (cloud/pkg/                   *)
(* envoyingresscontroller/envoyingresscontroller.go): the ingress workers  *)
(* run syncEnvoyIngress, which turns ingresses into envoy resources in     *)
(* resourceStore; the dispatch workers run syncEnvoyResource, which sends  *)
(* a resource to the edge or, when no ingress refers to it any more,       *)
(* deletes it.  The two work queues are KeyedWork sets (module WorkQueue   *)
(* implements them).                                                       *)
(*                                                                         *)
(* Abstractions.  What the get...ForIngress functions build from an        *)
(* ingress and the services, endpoints and secrets behind it is part of    *)
(* the object: the set of resource keys, one spec value for them and the   *)
(* node groups of the annotation.  The sends of syncEnvoyResource to the   *)
(* nodes of the groups are one step; module NodeDispatch has the nodes.    *)
(* Critical sections of ingressToResourceNameStoreLock and of a resource's *)
(* RWLock contain no blocking call, so they are parts of one step.         *)
(***************************************************************************)
EXTENDS Naturals

CONSTANTS Ingresses, Resources, Specs, Groups,
          Changes,          \* what an ingress may change to; None if it may be deleted
          Broken,           \* specs proto.Marshal rejects
          Versions,         \* API versions the ingresses are listed in
          IngressWorkers, DispatchWorkers,
          MaxChanges,       \* bound on changes of ingresses
          None

Object == [class : BOOLEAN, built : SUBSET Resources, spec : Specs,
           groups : SUBSET Groups]

ASSUME ChangesAssumption == Changes \subseteq Object \cup {None}
ASSUME SpecsAssumption == Specs # {} /\ Broken \subseteq Specs
ASSUME VersionsAssumption == Versions \subseteq {"v1", "v1beta1"}
ASSUME BoundAssumption == MaxChanges \in Nat
ASSUME NoneIsNoKey == None \notin Ingresses \cup Resources \cup Object
                        \cup IngressWorkers

\* The ingress.class annotation is the controller's.
IsEnvoy(o) == o # None /\ o.class

Messages == [opr : {"none", "insert", "delete"}, spec : Specs, groups : SUBSET Groups]

VARIABLES
  lister,          \* the informer's store of ingresses
  notified,        \* keys whose handler call is outstanding
  changes,         \* number of changes so far
  phase,           \* of Run: "starting", "initiating", "running"
  listed,          \* what initiateEnvoyResources has listed
  initTodo,        \* the (version, key) pairs it still has to treat
  resourceStore,   \* keys present in resourceStore, and per key its fields:
  IngressRef, Spec, NodeGroup,
  names,           \* ingressToResourceNameStore
  named,           \* the keys that have a (non-nil) map in it
  writer,          \* resourceStoreLock: who has called Lock, or None
  readers,         \* who holds it for reading
  leaked,          \* some RLock is never released
  iPending, iBusy, iLater,   \* eic.queue
  rPending, rBusy, rLater,   \* eic.resourceQueue
  ipc, obj, todo,  \* ingress worker: step, ingress object, names left
  dpc, dmsg,       \* dispatch worker: step, message to send
  sent             \* last message sent for a resource

informerVars == <<lister, notified, changes>>
startVars == <<phase, listed, initTodo>>
storeVars == <<resourceStore, IngressRef, Spec, NodeGroup>>
nameVars == <<names, named>>
lockVars == <<writer, readers, leaked>>
iqVars == <<iPending, iBusy, iLater>>
rqVars == <<rPending, rBusy, rLater>>
iwVars == <<ipc, obj, todo>>
dwVars == <<dpc, dmsg, sent>>
vars == <<informerVars, startVars, storeVars, nameVars, lockVars, iqVars, rqVars,
          iwVars, dwVars>>

IQ == INSTANCE KeyedWork WITH Items <- Ingresses, Workers <- IngressWorkers,
        pending <- iPending, busy <- iBusy, later <- iLater
RQ == INSTANCE KeyedWork WITH Items <- Resources, Workers <- DispatchWorkers,
        pending <- rPending, busy <- rBusy, later <- rLater

TypeOK ==
  /\ lister \in [Ingresses -> Object \cup {None}]
  /\ notified \subseteq Ingresses
  /\ changes \in Nat
  /\ phase \in {"starting", "initiating", "running"}
  /\ listed \in [Ingresses -> Object \cup {None}]
  /\ initTodo \subseteq Versions \X Ingresses
  /\ resourceStore \subseteq Resources
  /\ IngressRef \in [Resources -> SUBSET Ingresses]
  /\ Spec \in [Resources -> Specs]
  /\ NodeGroup \in [Resources -> SUBSET Groups]
  /\ names \in [Ingresses -> SUBSET Resources]
  /\ named \subseteq Ingresses
  /\ writer \in IngressWorkers \cup {None}
  /\ readers \subseteq DispatchWorkers
  /\ leaked \in BOOLEAN
  /\ IQ!KWTypeOK
  /\ RQ!KWTypeOK
  /\ ipc \in [IngressWorkers -> {"idle", "lookup", "delete", "deleting", "stale",
                                 "pruning", "inserting", "ok", "failed"}]
  /\ obj \in [IngressWorkers -> Object \cup {None}]
  /\ todo \in [IngressWorkers -> SUBSET Resources]
  /\ dpc \in [DispatchWorkers -> {"idle", "rlock", "reading", "send", "ok", "failed"}]
  /\ dmsg \in [DispatchWorkers -> Messages]
  /\ sent \in [Resources -> Messages]

NoMessage == [opr |-> "none", spec |-> CHOOSE s \in Specs : TRUE, groups |-> {}]

\* initializeFields and NewEnvoyIngressController, with empty informer stores.
Init ==
  /\ lister = [k \in Ingresses |-> None]
  /\ notified = {}
  /\ changes = 0
  /\ phase = "starting"
  /\ listed = [k \in Ingresses |-> None]
  /\ initTodo = {}
  /\ resourceStore = {}
  /\ IngressRef = [r \in Resources |-> {}]
  /\ Spec = [r \in Resources |-> CHOOSE s \in Specs : TRUE]
  /\ NodeGroup = [r \in Resources |-> {}]
  /\ names = [k \in Ingresses |-> {}]
  /\ named = {}
  /\ writer = None
  /\ readers = {}
  /\ leaked = FALSE
  /\ IQ!KWInit
  /\ RQ!KWInit
  /\ ipc = [w \in IngressWorkers |-> "idle"]
  /\ obj = [w \in IngressWorkers |-> None]
  /\ todo = [w \in IngressWorkers |-> {}]
  /\ dpc = [d \in DispatchWorkers |-> "idle"]
  /\ dmsg = [d \in DispatchWorkers |-> NoMessage]
  /\ sent = [r \in Resources |-> NoMessage]
-----------------------------------------------------------------------------
(* The API server and the informer: the store changes first, the handler   *)
(* is called later.  Only a v1 ingress with unchanged UID is modelled      *)
(* here; InformerEvents has the handlers in full.                          *)
Change(k, o) ==
  /\ changes < MaxChanges
  /\ o # lister[k]
  /\ lister' = [lister EXCEPT ![k] = o]
  /\ changes' = changes + 1
  /\ notified' = IF o = None \/ IsEnvoy(o) THEN notified \cup {k} ELSE notified
  /\ UNCHANGED <<startVars, storeVars, nameVars, lockVars, iqVars, rqVars, iwVars, dwVars>>

\* addIngress, updateIngress and deleteIngress end in queue.Add(key).
Handle(k) ==
  /\ k \in notified
  /\ notified' = notified \ {k}
  /\ IQ!Add({k})
  /\ UNCHANGED <<lister, changes, startVars, storeVars, nameVars, lockVars, rqVars,
                 iwVars, dwVars>>
-----------------------------------------------------------------------------
(* Run: initiateEnvoyResources lists the ingresses of every API version    *)
(* and treats them one by one, before the workers start.                   *)
ListIngresses ==
  /\ phase = "starting"
  /\ phase' = "initiating"
  /\ listed' = lister
  /\ initTodo' = {p \in Versions \X Ingresses :
                    IsEnvoy(lister[p[2]])}
  /\ UNCHANGED <<informerVars, storeVars, nameVars, lockVars, iqVars, rqVars, iwVars,
                 dwVars>>

\* Mutant: a resource that exists already does not get the reference.
PutUnreferenced(k, o) ==
  /\ resourceStore' = resourceStore \cup o.built
  /\ IngressRef' = [r \in Resources |-> IF r \in o.built \ resourceStore THEN {k}
                                                                        ELSE IngressRef[r]]
  /\ Spec' = [r \in Resources |-> IF r \in o.built THEN o.spec ELSE Spec[r]]
  /\ NodeGroup' = [r \in Resources |-> IF r \in o.built \ resourceStore THEN o.groups
                                                                       ELSE NodeGroup[r]]

\* The resources built from ingress k go into the store.  One that is there
\* already gets the reference and the spec; its node groups stay.
Put(k, o) ==
  /\ resourceStore' = resourceStore \cup o.built
  /\ IngressRef' = [r \in Resources |->
                      IF r \notin o.built THEN IngressRef[r]
                      ELSE IF r \in resourceStore THEN IngressRef[r] \cup {k} ELSE {k}]
  /\ Spec' = [r \in Resources |-> IF r \in o.built THEN o.spec ELSE Spec[r]]
  /\ NodeGroup' = [r \in Resources |-> IF r \in o.built \ resourceStore THEN o.groups
                                                                       ELSE NodeGroup[r]]

\* The first loop of initiateEnvoyResources enqueues what is new or changed
\* and starts the ingress's map of names afresh.
InitiateIngress(v, k) ==
  LET built == listed[k].built
      new == built \ resourceStore
      changed == {r \in built \cap resourceStore : Spec[r] # listed[k].spec}
  IN  /\ phase = "initiating"
      /\ <<v, k>> \in initTodo
      /\ v = "v1" \/ \A p \in initTodo : p[1] # "v1"
      /\ initTodo' = initTodo \ {<<v, k>>}
      /\ Put(k, listed[k])
      /\ names' = [names EXCEPT ![k] = new]
      /\ named' = named \cup {k}
      /\ RQ!Add(new \cup changed)
      /\ UNCHANGED <<informerVars, phase, listed, lockVars, iqVars, iwVars, dwVars>>

StartWorkers ==
  /\ phase = "initiating" /\ initTodo = {}
  /\ phase' = "running"
  /\ UNCHANGED <<informerVars, listed, initTodo, storeVars, nameVars, lockVars, iqVars,
                 rqVars, iwVars, dwVars>>
-----------------------------------------------------------------------------
(* An ingress worker: processNextIngressWorkItem and syncEnvoyIngress.     *)
IngressGet(w, k) ==
  /\ phase = "running"
  /\ ipc[w] = "idle"
  /\ IQ!Take(w, k)
  /\ ipc' = [ipc EXCEPT ![w] = "lookup"]
  /\ UNCHANGED <<informerVars, startVars, storeVars, nameVars, lockVars, rqVars, obj, todo,
                 dwVars>>

\* The ingress is gone: take over its names and forget them.
LookupDeleted(w) ==
  LET k == iBusy[w]
  IN  /\ ipc[w] = "lookup" /\ lister[k] = None
      /\ todo' = [todo EXCEPT ![w] = names[k]]
      /\ names' = [names EXCEPT ![k] = {}]
      /\ named' = named \ {k}
      /\ ipc' = [ipc EXCEPT ![w] = "delete"]
      /\ UNCHANGED <<informerVars, startVars, storeVars, lockVars, iqVars, rqVars, obj,
                     dwVars>>

\* Not an envoy ingress (any more): an error.
LookupForeign(w) ==
  LET o == lister[iBusy[w]]
  IN  /\ ipc[w] = "lookup" /\ o # None /\ ~IsEnvoy(o)
      /\ ipc' = [ipc EXCEPT ![w] = "failed"]
      /\ UNCHANGED <<informerVars, startVars, storeVars, nameVars, lockVars, iqVars, rqVars,
                     obj, todo, dwVars>>

\* Mutant: no map is made for an ingress that has none.
LookupUnnamed(w) ==
  LET k == iBusy[w]
      o == lister[k]
  IN  /\ ipc[w] = "lookup" /\ IsEnvoy(o)
      /\ obj' = [obj EXCEPT ![w] = o]
      /\ todo' = [todo EXCEPT ![w] = names[k] \ o.built]
      /\ ipc' = [ipc EXCEPT ![w] = "stale"]
      /\ UNCHANGED <<informerVars, startVars, storeVars, nameVars, lockVars, iqVars, rqVars,
                     dwVars>>

\* Build the resources; the recorded names that are not built any more are stale.
LookupEnvoy(w) ==
  LET k == iBusy[w]
      o == lister[k]
  IN  /\ ipc[w] = "lookup" /\ IsEnvoy(o)
      /\ obj' = [obj EXCEPT ![w] = o]
      /\ todo' = [todo EXCEPT ![w] = names[k] \ o.built]
      /\ named' = named \cup {k}
      /\ ipc' = [ipc EXCEPT ![w] = "stale"]
      /\ UNCHANGED <<informerVars, startVars, storeVars, names, lockVars, iqVars, rqVars,
                     dwVars>>

\* Mutant: Lock does not exclude other writers.
LockShared(w) ==
  /\ \/ /\ ipc[w] = "delete" /\ todo[w] # {}
        /\ ipc' = [ipc EXCEPT ![w] = "deleting"]
     \/ /\ ipc[w] = "stale" /\ todo[w] # {}
        /\ ipc' = [ipc EXCEPT ![w] = "pruning"]
     \/ /\ ipc[w] = "stale" /\ todo[w] = {}
        /\ ipc' = [ipc EXCEPT ![w] = "inserting"]
  /\ writer' = w
  /\ UNCHANGED <<informerVars, startVars, storeVars, nameVars, readers, leaked, iqVars,
                 rqVars, obj, todo, dwVars>>

\* resourceStoreLock.Lock() is called; from here on new readers wait.
Lock(w) ==
  /\ writer = None
  /\ \/ /\ ipc[w] = "delete" /\ todo[w] # {}
        /\ ipc' = [ipc EXCEPT ![w] = "deleting"]
     \/ /\ ipc[w] = "stale" /\ todo[w] # {}
        /\ ipc' = [ipc EXCEPT ![w] = "pruning"]
     \/ /\ ipc[w] = "stale" /\ todo[w] = {}
        /\ ipc' = [ipc EXCEPT ![w] = "inserting"]
  /\ writer' = w
  /\ UNCHANGED <<informerVars, startVars, storeVars, nameVars, readers, leaked, iqVars,
                 rqVars, obj, todo, dwVars>>

\* Lock() has returned.
Locked(w) == writer = w /\ readers = {} /\ ~leaked

\* The ingress gives up its reference; a resource nobody refers to is queued
\* for deletion.
Unref(k, r) ==
  /\ IngressRef' = [IngressRef EXCEPT ![r] = @ \ {k}]
  /\ RQ!Add(IF IngressRef[r] \subseteq {k} THEN {r} ELSE {})
  /\ UNCHANGED <<resourceStore, Spec, NodeGroup>>

\* One round of the loop of the deleted branch.  A missing resource makes the
\* loop continue without Unlock.
DeleteName(w, r) ==
  /\ ipc[w] = "deleting" /\ Locked(w)
  /\ r \in todo[w]
  /\ todo' = [todo EXCEPT ![w] = @ \ {r}]
  /\ ipc' = [ipc EXCEPT ![w] = "delete"]
  /\ IF r \in resourceStore
     THEN writer' = None /\ Unref(iBusy[w], r)
     ELSE UNCHANGED <<writer, storeVars, rqVars>>
  /\ UNCHANGED <<informerVars, startVars, nameVars, readers, leaked, iqVars, obj, dwVars>>

DeleteDone(w) ==
  /\ ipc[w] = "delete" /\ todo[w] = {}
  /\ names' = [names EXCEPT ![iBusy[w]] = {}]
  /\ named' = named \ {iBusy[w]}
  /\ ipc' = [ipc EXCEPT ![w] = "ok"]
  /\ UNCHANGED <<informerVars, startVars, storeVars, lockVars, iqVars, rqVars, obj, todo,
                 dwVars>>

\* Mutant: the name of a deleted resource is not removed.
PruneKeepsName(w, r) ==
  /\ ipc[w] = "pruning" /\ Locked(w)
  /\ r \in todo[w]
  /\ todo' = [todo EXCEPT ![w] = @ \ {r}]
  /\ ipc' = [ipc EXCEPT ![w] = "stale"]
  /\ writer' = None
  /\ IF r \in resourceStore THEN Unref(iBusy[w], r) ELSE UNCHANGED <<storeVars, rqVars>>
  /\ UNCHANGED <<informerVars, startVars, nameVars, readers, leaked, iqVars, obj, dwVars>>

\* One round of the deletion loop.  The name is kept while others refer to it.
Prune(w, r) ==
  LET k == iBusy[w]
  IN  /\ ipc[w] = "pruning" /\ Locked(w)
      /\ r \in todo[w]
      /\ todo' = [todo EXCEPT ![w] = @ \ {r}]
      /\ ipc' = [ipc EXCEPT ![w] = "stale"]
      /\ writer' = None
      /\ IF r \in resourceStore
         THEN /\ Unref(k, r)
              /\ names' = [names EXCEPT ![k] = IF IngressRef[r] \subseteq {k}
                                               THEN @ \ {r} ELSE @]
         ELSE UNCHANGED <<names, storeVars, rqVars>>
      /\ UNCHANGED <<informerVars, startVars, named, readers, leaked, iqVars, obj, dwVars>>

\* Mutant: only new resources are enqueued, changed ones are not.
InsertQueuesNew(w) ==
  LET k == iBusy[w]
      o == obj[w]
      new == o.built \ resourceStore
  IN  /\ ipc[w] = "inserting" /\ Locked(w)
      /\ Put(k, o)
      /\ names' = [names EXCEPT ![k] = @ \cup new]
      /\ RQ!Add(new)
      /\ writer' = None
      /\ ipc' = [ipc EXCEPT ![w] = "ok"]
      /\ UNCHANGED <<informerVars, startVars, named, readers, leaked, iqVars, obj, todo,
                     dwVars>>

\* The insertion loop: the name is recorded only for a resource that is new.
Insert(w) ==
  LET k == iBusy[w]
      o == obj[w]
      new == o.built \ resourceStore
  IN  /\ ipc[w] = "inserting" /\ Locked(w)
      /\ Put(k, o)
      /\ names' = [names EXCEPT ![k] = @ \cup new]
      /\ RQ!Add(o.built)
      /\ writer' = None
      /\ ipc' = [ipc EXCEPT ![w] = "ok"]
      /\ UNCHANGED <<informerVars, startVars, named, readers, leaked, iqVars, obj, todo,
                     dwVars>>

\* Forget and Done, or AddRateLimited and Done.
IngressDone(w) ==
  /\ \/ ipc[w] = "ok" /\ IQ!Finish(w)
     \/ ipc[w] = "failed" /\ IQ!RetryAndFinish(w)
  /\ ipc' = [ipc EXCEPT ![w] = "idle"]
  /\ obj' = [obj EXCEPT ![w] = None]
  /\ UNCHANGED <<informerVars, startVars, storeVars, nameVars, lockVars, rqVars, todo, dwVars>>
-----------------------------------------------------------------------------
(* A dispatch worker: processNextEnvoyResourceWorkItem and                 *)
(* syncEnvoyResource.                                                      *)
DispatchGet(d, r) ==
  /\ phase = "running"
  /\ dpc[d] = "idle"
  /\ RQ!Take(d, r)
  /\ dpc' = [dpc EXCEPT ![d] = "rlock"]
  /\ UNCHANGED <<informerVars, startVars, storeVars, nameVars, lockVars, iqVars, iwVars,
                 dmsg, sent>>

\* RLock() waits behind a writer that has called Lock.
RLock(d) ==
  /\ dpc[d] = "rlock"
  /\ writer = None
  /\ readers' = readers \cup {d}
  /\ dpc' = [dpc EXCEPT ![d] = "reading"]
  /\ UNCHANGED <<informerVars, startVars, storeVars, nameVars, writer, leaked, iqVars, rqVars,
                 iwVars, dmsg, sent>>

\* The key is not in the store: an error, returned with the read lock held.
ReadMissing(d) ==
  /\ dpc[d] = "reading" /\ rBusy[d] \notin resourceStore
  /\ readers' = readers \ {d}
  /\ leaked' = TRUE
  /\ dpc' = [dpc EXCEPT ![d] = "failed"]
  /\ UNCHANGED <<informerVars, startVars, storeVars, nameVars, writer, iqVars, rqVars, iwVars,
                 dmsg, sent>>

\* Mutant: the read lock is kept.
ReadResourceHeld(d) ==
  LET r == rBusy[d]
      live == IngressRef[r] # {}
  IN  /\ dpc[d] = "reading" /\ r \in resourceStore
      /\ dmsg' = [dmsg EXCEPT ![d] = [opr |-> IF live THEN "insert" ELSE "delete",
                                      spec |-> Spec[r], groups |-> NodeGroup[r]]]
      /\ resourceStore' = IF live THEN resourceStore ELSE resourceStore \ {r}
      /\ dpc' = [dpc EXCEPT ![d] = "send"]
      /\ UNCHANGED <<informerVars, startVars, IngressRef, Spec, NodeGroup, nameVars, writer, readers,
                     leaked, iqVars, rqVars, iwVars, sent>>

\* Copy the resource; one without references is removed from the store.
ReadResource(d) ==
  LET r == rBusy[d]
      live == IngressRef[r] # {}
  IN  /\ dpc[d] = "reading" /\ r \in resourceStore
      /\ dmsg' = [dmsg EXCEPT ![d] = [opr |-> IF live THEN "insert" ELSE "delete",
                                      spec |-> Spec[r], groups |-> NodeGroup[r]]]
      /\ resourceStore' = IF live THEN resourceStore ELSE resourceStore \ {r}
      /\ readers' = readers \ {d}
      /\ dpc' = [dpc EXCEPT ![d] = "send"]
      /\ UNCHANGED <<informerVars, startVars, IngressRef, Spec, NodeGroup, nameVars, writer,
                     leaked, iqVars, rqVars, iwVars, sent>>

\* dispatchResource for every node to send to; it fails on a spec that
\* cannot be marshalled.
Dispatch(d) ==
  /\ dpc[d] = "send"
  /\ IF dmsg[d].spec \in Broken
     THEN /\ dpc' = [dpc EXCEPT ![d] = "failed"]
          /\ UNCHANGED sent
     ELSE /\ dpc' = [dpc EXCEPT ![d] = "ok"]
          /\ sent' = [sent EXCEPT ![rBusy[d]] = dmsg[d]]
  /\ UNCHANGED <<informerVars, startVars, storeVars, nameVars, lockVars, iqVars, rqVars, iwVars,
                 dmsg>>

\* Mutant: a resource that could not be dispatched is not retried.
DispatchDoneNoRetry(d) ==
  /\ dpc[d] \in {"ok", "failed"}
  /\ RQ!Finish(d)
  /\ dpc' = [dpc EXCEPT ![d] = "idle"]
  /\ dmsg' = [dmsg EXCEPT ![d] = NoMessage]
  /\ UNCHANGED <<informerVars, startVars, storeVars, nameVars, lockVars, iqVars, iwVars, sent>>

DispatchDone(d) ==
  /\ \/ dpc[d] = "ok" /\ RQ!Finish(d)
     \/ dpc[d] = "failed" /\ RQ!RetryAndFinish(d)
  /\ dpc' = [dpc EXCEPT ![d] = "idle"]
  /\ dmsg' = [dmsg EXCEPT ![d] = NoMessage]
  /\ UNCHANGED <<informerVars, startVars, storeVars, nameVars, lockVars, iqVars, iwVars, sent>>

\* The rate limiters release a key.
Release ==
  \/ /\ \E k \in Ingresses : IQ!Ripen(k)
     /\ UNCHANGED <<informerVars, startVars, storeVars, nameVars, lockVars, rqVars, iwVars,
                    dwVars>>
  \/ /\ \E r \in Resources : RQ!Ripen(r)
     /\ UNCHANGED <<informerVars, startVars, storeVars, nameVars, lockVars, iqVars, iwVars,
                    dwVars>>
-----------------------------------------------------------------------------
Start == ListIngresses \/ StartWorkers \/ \E v \in Versions, k \in Ingresses : InitiateIngress(v, k)

IngressWorker(w) ==
  \/ \E k \in Ingresses : IngressGet(w, k)
  \/ LookupDeleted(w) \/ LookupForeign(w) \/ LookupEnvoy(w)
  \/ Lock(w) \/ DeleteDone(w) \/ Insert(w) \/ IngressDone(w)
  \/ \E r \in Resources : DeleteName(w, r) \/ Prune(w, r)

DispatchWorker(d) ==
  \/ \E r \in Resources : DispatchGet(d, r)
  \/ RLock(d) \/ ReadMissing(d) \/ ReadResource(d) \/ Dispatch(d) \/ DispatchDone(d)

Next ==
  \/ \E k \in Ingresses, o \in Changes : Change(k, o)
  \/ \E k \in Ingresses : Handle(k)
  \/ Start
  \/ \E w \in IngressWorkers : IngressWorker(w)
  \/ \E d \in DispatchWorkers : DispatchWorker(d)
  \/ Release

Safety == Init /\ [][Next]_vars
-----------------------------------------------------------------------------
(* Goroutines run on, handlers are called, Lock and RLock are granted in   *)
(* the end when the mutex is free again and again (Go's RWMutex starves    *)
(* neither side), a queued key is taken in the end (WorkQueue!NoStarvation)*)
(* and delays end.  Ingresses need not change.                             *)
Fairness ==
  /\ WF_vars(Start)
  /\ \A k \in Ingresses : WF_vars(Handle(k))
  /\ WF_vars(Release)
  /\ \A w \in IngressWorkers :
       /\ WF_vars(IngressWorker(w))
       /\ SF_vars(Lock(w))
  /\ \A k \in Ingresses : SF_vars(\E w \in IngressWorkers : IngressGet(w, k))
  /\ \A d \in DispatchWorkers :
       /\ WF_vars(DispatchWorker(d))
       /\ SF_vars(RLock(d))
  /\ \A r \in Resources : SF_vars(\E d \in DispatchWorkers : DispatchGet(d, r))

FairSpec == Safety /\ Fairness
-----------------------------------------------------------------------------
(* resourceStoreLock is never left locked for writing: the branch of the   *)
(* deleted case that continues without Unlock (a recorded name whose       *)
(* resource is not in the store) is never taken, whatever ingresses share  *)
(* and however the dispatch workers delete.                                *)
LockReleased == writer # None => ipc[writer] \in {"deleting", "pruning", "inserting"}

(* The insertion loop never writes to a nil map: the map of names made at  *)
(* the start of the sync is still there, since no other worker treats the  *)
(* same ingress.                                                           *)
MapAllocated ==
  \A w \in IngressWorkers :
    ipc[w] \in {"stale", "pruning", "inserting"} => iBusy[w] \in named

(* Message m tells the edge what the store says about r.                   *)
Tells(m, r) ==
  IF r \in resourceStore
  THEN /\ IngressRef[r] # {}
       /\ m = [opr |-> "insert", spec |-> Spec[r], groups |-> NodeGroup[r]]
  ELSE m.opr \in {"none", "delete"}

(* No update is lost between the store and the edge: when no worker has r  *)
(* and r is not queued, the last message sent for r agrees with the store. *)
(* This needs every change of the store to be followed by an enqueue and   *)
(* messages of one resource never to overtake each other.                  *)
DispatchedOrQueued ==
  \A r \in Resources :
    r \notin rPending \cup rLater \cup RQ!Held => Tells(sent[r], r)

Synced(k) == \A r \in lister[k].built : r \in resourceStore /\ k \in IngressRef[r]

(* No ingress is lost between the informer and the store: an envoy ingress *)
(* that is neither queued nor being synced has all its resources stored    *)
(* and holds a reference on each of them.                                  *)
SyncedOrQueued ==
  \A k \in Ingresses :
    IsEnvoy(lister[k]) /\ k \notin notified \cup iPending \cup iLater \cup IQ!Held
      => Synced(k)

(* When the ingresses stop changing, every envoy ingress gets all its      *)
(* resources to the edge, unless a dispatch worker found a queued resource *)
(* gone: it returns with resourceStoreLock locked for reading.             *)
Converges ==
  <>[](leaked \/ \A k \in Ingresses : IsEnvoy(lister[k]) =>
         \A r \in lister[k].built : k \in IngressRef[r] /\ Tells(sent[r], r))

(* When the ingresses stop changing, every worker comes back from the last *)
(* key it took, however ingresses came and went and workers wait for each  *)
(* other's locks: that forgotten unlock is the only way to block one.      *)
WorkersReturn ==
  <>[](leaked \/ /\ \A w \in IngressWorkers : ipc[w] = "idle"
                 /\ \A d \in DispatchWorkers : dpc[d] = "idle")
-----------------------------------------------------------------------------
(* Inductive forms of the invariants above.                                *)

\* An ingress owns the resources it has recorded, and while its deletion is
\* under way those whose reference is still to be dropped.
Owns(k, r) ==
  \/ r \in names[k]
  \/ \E w \in IngressWorkers :
       iBusy[w] = k /\ ipc[w] \in {"delete", "deleting"} /\ r \in todo[w]

(* What a worker's step says of the stores: ingress workers hold different *)
(* ingresses, hold the lock exactly in their critical sections, and their  *)
(* list of names to treat agrees with the name store.                      *)
WorkerInv ==
  /\ \A v, w \in IngressWorkers : iBusy[v] = iBusy[w] /\ iBusy[v] # None => v = w
  /\ \A w \in IngressWorkers :
       /\ iBusy[w] = None <=> ipc[w] = "idle"
       /\ phase # "running" => ipc[w] = "idle"
       /\ ipc[w] \in {"deleting", "pruning", "inserting"} => writer = w
       /\ ipc[w] \in {"delete", "deleting"} => names[iBusy[w]] = {}
       /\ ipc[w] \in {"stale", "pruning"} => todo[w] \subseteq names[iBusy[w]]
       /\ ipc[w] \in {"stale", "pruning", "inserting"} => IsEnvoy(obj[w])
  /\ phase = "initiating" => \A p \in initTodo : IsEnvoy(listed[p[2]])
  /\ LockReleased
  /\ MapAllocated

(* Why no name is ever missing from the store: a resource has at most one  *)
(* owner, and an owned resource is stored and referred to, if not by its   *)
(* owner then by an ingress that can never let go of it.                   *)
OwnerInv ==
  /\ \A k \in Ingresses, r \in Resources :
       Owns(k, r) => r \in resourceStore /\ IngressRef[r] # {}
  /\ \A j, k \in Ingresses, r \in Resources : Owns(j, r) /\ Owns(k, r) => j = k

(* DispatchedOrQueued of one resource at every step of its worker.         *)
Told(r) ==
  \/ r \in rPending \cup rLater
  \/ r \notin RQ!Held /\ Tells(sent[r], r)
  \/ \E d \in DispatchWorkers :
       /\ rBusy[d] = r
       /\ \/ dpc[d] \in {"rlock", "reading", "failed"}
          \/ dpc[d] = "send" /\ Tells(dmsg[d], r)
          \/ dpc[d] = "ok" /\ Tells(sent[r], r)

(* Dispatch workers hold different resources, and all of them are told.    *)
DispatchInv ==
  /\ \A c, d \in DispatchWorkers : rBusy[c] = rBusy[d] /\ rBusy[c] # None => c = d
  /\ \A d \in DispatchWorkers : rBusy[d] = None <=> dpc[d] = "idle"
  /\ \A r \in Resources : Told(r)

(* SyncedOrQueued of one ingress at every step of its worker.              *)
Kept(k) ==
  \/ k \in notified \cup iPending \cup iLater
  \/ k \notin IQ!Held /\ Synced(k)
  \/ \E w \in IngressWorkers :
       /\ iBusy[w] = k
       /\ \/ ipc[w] \in {"lookup", "failed"}
          \/ ipc[w] \in {"stale", "pruning", "inserting"} /\ obj[w] = lister[k]
          \/ ipc[w] = "ok" /\ Synced(k)

(* No envoy ingress is forgotten.                                          *)
SyncInv == \A k \in Ingresses : IsEnvoy(lister[k]) => Kept(k)

(* The inductive invariant the proofs of module IngressSyncProofs rest on. *)
InductiveInv == TypeOK /\ WorkerInv /\ OwnerInv /\ DispatchInv /\ SyncInv
=============================================================================
