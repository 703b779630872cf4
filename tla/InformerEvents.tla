--------------------------- MODULE InformerEvents ---------------------------
(***************************************************************************)
(* How changes of ingresses, services, endpoints and secrets reach the     *)
(* ingress workers: the event handlers of EnvoyIngressController           *)
(* (cloud/pkg/envoyingresscontroller/envoyingresscontroller.go) and what   *)
(* syncEnvoyIngress reads from the listers.                                *)
(*                                                                         *)
(* Every informer updates its store when the API server tells it, and one  *)
(* goroutine per informer calls the handlers in the order of the changes.  *)
(* The informers are not ordered among each other, and a handler sees the  *)
(* stores as they are when it runs.  What a worker builds is abstracted to *)
(* the objects it built it from; IngressSync has what becomes of it.       *)
(***************************************************************************)
EXTENDS Naturals, Sequences

CONSTANTS Ingresses, Services, Secrets,
          Versions,          \* API versions of ingresses that are served
          IngressObjects, ServiceObjects, EndpointObjects, SecretObjects,
          ReadyNodes,        \* names of the nodes that are ready
          Workers,
          MaxChanges,        \* bound on the changes of API objects
          None

\* The fields the handlers and the translation tell apart.  A service without
\* a selector has selector 0; endpoints and secrets are their contents.
IngressObject == [envoy : BOOLEAN, uid : Nat, service : Services, secret : Secrets,
                  groups : SUBSET STRING]
ServiceObject == [selector : Nat, ports : Nat]

ASSUME VersionsAssumption == Versions \subseteq {"v1", "v1beta1"} /\ Versions # {}
ASSUME ServiceObjectsAssumption == ServiceObjects \subseteq ServiceObject
ASSUME MaxChangesAssumption == MaxChanges \in Nat
ASSUME IngressObjectsAssumption == IngressObjects \subseteq IngressObject

Kinds == {"v1", "v1beta1", "service", "endpoints", "secret"}

VARIABLES
  api,            \* the ingresses of the API server
  ingressStore,   \* ingressStore[v][i]: the store of the informer for version v
  serviceStore, endpointStore, secretStore,
  events,         \* events[k]: notifications <<name, old, cur>> not handled yet
  pending, busy, later,
  pc, snap,       \* worker: step, what it has read
  built,          \* built[i]: what the resources of i were last built from
  ingressNodeGroupStore,
  changes

storeVars == <<api, ingressStore, serviceStore, endpointStore, secretStore, changes>>
queueVars == <<pending, busy, later>>
workerVars == <<pc, snap, built, ingressNodeGroupStore>>
vars == <<storeVars, events, queueVars, workerVars>>

Q == INSTANCE KeyedWork WITH Items <- Ingresses

Snapshot == [ingress : IngressObjects, secret : SecretObjects \cup {None},
             service : ServiceObjects \cup {None}, again : ServiceObjects \cup {None},
             endpoints : EndpointObjects \cup {None}]

ASSUME NoneIsNothing == None \notin Ingresses \cup ServiceObjects \cup IngressObjects \cup Snapshot

TypeOK ==
  /\ api \in [Ingresses -> IngressObjects \cup {None}]
  /\ ingressStore \in [Versions -> [Ingresses -> IngressObjects \cup {None}]]
  /\ serviceStore \in [Services -> ServiceObjects \cup {None}]
  /\ endpointStore \in [Services -> EndpointObjects \cup {None}]
  /\ secretStore \in [Secrets -> SecretObjects \cup {None}]
  /\ DOMAIN events = Kinds
  /\ Q!KWTypeOK
  /\ pc \in [Workers -> {"idle", "lookup", "secrets", "endpoints", "clusters", "write"}]
  /\ \A w \in Workers : /\ pc[w] = "idle" <=> busy[w] = None
                        /\ pc[w] \in {"idle", "lookup"} <=> snap[w] = None
                        /\ pc[w] = "write" => snap[w] \in Snapshot
  /\ \A i \in Ingresses : built[i] = None \/ built[i] \in Snapshot
  /\ changes \in 0..MaxChanges

Init ==
  /\ api = [i \in Ingresses |-> None]
  /\ ingressStore = [v \in Versions |-> [i \in Ingresses |-> None]]
  /\ serviceStore = [s \in Services |-> None]
  /\ endpointStore = [s \in Services |-> None]
  /\ secretStore = [t \in Secrets |-> None]
  /\ events = [k \in Kinds |-> << >>]
  /\ Q!KWInit
  /\ pc = [w \in Workers |-> "idle"]
  /\ snap = [w \in Workers |-> None]
  /\ built = [i \in Ingresses |-> None]
  /\ ingressNodeGroupStore = [i \in Ingresses |-> {}]
  /\ changes = 0
-----------------------------------------------------------------------------
(* The API server and the informers.                                       *)

Notify(k, name, old, cur) == events' = [events EXCEPT ![k] = Append(@, <<name, old, cur>>)]

ChangeIngress(i, o) ==
  /\ changes < MaxChanges /\ o # api[i]
  /\ api' = [api EXCEPT ![i] = o]
  /\ changes' = changes + 1
  /\ UNCHANGED <<ingressStore, serviceStore, endpointStore, secretStore, events, queueVars,
                 workerVars>>

\* The informers of the two versions learn of it each in their own time.
Receive(v, i) ==
  /\ ingressStore[v][i] # api[i]
  /\ ingressStore' = [ingressStore EXCEPT ![v][i] = api[i]]
  /\ Notify(v, i, ingressStore[v][i], api[i])
  /\ UNCHANGED <<api, serviceStore, endpointStore, secretStore, changes, queueVars, workerVars>>

ChangeService(s, o) ==
  /\ changes < MaxChanges /\ o # serviceStore[s]
  /\ serviceStore' = [serviceStore EXCEPT ![s] = o]
  /\ Notify("service", s, serviceStore[s], o)
  /\ changes' = changes + 1
  /\ UNCHANGED <<api, ingressStore, endpointStore, secretStore, queueVars, workerVars>>

ChangeEndpoints(s, o) ==
  /\ changes < MaxChanges /\ o # endpointStore[s]
  /\ endpointStore' = [endpointStore EXCEPT ![s] = o]
  /\ Notify("endpoints", s, endpointStore[s], o)
  /\ changes' = changes + 1
  /\ UNCHANGED <<api, ingressStore, serviceStore, secretStore, queueVars, workerVars>>

ChangeSecret(t, o) ==
  /\ changes < MaxChanges /\ o # secretStore[t]
  /\ secretStore' = [secretStore EXCEPT ![t] = o]
  /\ Notify("secret", t, secretStore[t], o)
  /\ changes' = changes + 1
  /\ UNCHANGED <<api, ingressStore, serviceStore, endpointStore, queueVars, workerVars>>
-----------------------------------------------------------------------------
(* The handlers: which keys they enqueue.                                  *)

IsEnvoy(o) == o # None /\ o.envoy

\* What the listers have: the v1 ingress, or else the v1beta1 one.
Listed(i) == {ingressStore[v][i] : v \in Versions} \ {None}
Current(i) ==
  IF "v1" \in Versions /\ ingressStore["v1"][i] # None THEN ingressStore["v1"][i]
  ELSE IF "v1beta1" \in Versions THEN ingressStore["v1beta1"][i] ELSE None

getIngressesForService(s, o) ==
  IF o = None \/ o.selector = 0 THEN {}
  ELSE {i \in Ingresses : \E c \in Listed(i) : c.envoy /\ c.service = s}

getIngressesForSecret(t) ==
  {i \in Ingresses : \E c \in Listed(i) : c.envoy /\ c.secret = t}

\* updateIngress: a change of the UID counts as deletion of the old ingress.
updateIngress(i, old, cur) ==
  IF cur.envoy \/ (cur.uid # old.uid /\ old.envoy) THEN {i} ELSE {}

\* The deletion of a v1beta1 ingress is left to the v1 informer.
IngressKeysOnce(v, i, old, cur) ==
  IF cur = None THEN (IF v = "v1" THEN {i} ELSE {})
  ELSE IF old = None THEN (IF cur.envoy THEN {i} ELSE {})
  ELSE IF v = "v1" THEN updateIngress(i, old, cur) ELSE updateIngress(i, cur, old)

\* updateV1beta1Ingress hands (cur, old) to updateIngress.
IngressKeys(v, i, old, cur) ==
  IF cur = None THEN {i}
  ELSE IF old = None THEN (IF cur.envoy THEN {i} ELSE {})
  ELSE IF v = "v1" THEN updateIngress(i, old, cur) ELSE updateIngress(i, cur, old)

\* Deletions are not announced.
ServiceKeysAdded(s, old, cur) == getIngressesForService(s, cur)

\* An update matters only when the selector changed.
ServiceKeys(s, old, cur) ==
  IF old # None /\ cur # None /\ old.selector = cur.selector THEN {}
  ELSE getIngressesForService(s, old) \cup getIngressesForService(s, cur)

\* Endpoints go by the service of the same name, if there is one.
EndpointKeys(s) == getIngressesForService(s, serviceStore[s])

HandleIngress(v) ==
  LET e == Head(events[v])
      i == e[1]
      added == e[2] = None /\ IsEnvoy(e[3])
  IN  /\ events[v] # << >>
      /\ events' = [events EXCEPT ![v] = Tail(@)]
      /\ Q!Add(IngressKeys(v, i, e[2], e[3]))
      /\ ingressNodeGroupStore' =
           [ingressNodeGroupStore EXCEPT ![i] = IF added THEN @ \cup e[3].groups ELSE @]
      /\ UNCHANGED <<storeVars, pc, snap, built>>

HandleService ==
  LET e == Head(events["service"])
  IN  /\ events["service"] # << >>
      /\ events' = [events EXCEPT !["service"] = Tail(@)]
      /\ Q!Add(ServiceKeys(e[1], e[2], e[3]))
      /\ UNCHANGED <<storeVars, workerVars>>

HandleEndpoints ==
  /\ events["endpoints"] # << >>
  /\ events' = [events EXCEPT !["endpoints"] = Tail(@)]
  /\ Q!Add(EndpointKeys(Head(events["endpoints"])[1]))
  /\ UNCHANGED <<storeVars, workerVars>>

HandleSecret ==
  /\ events["secret"] # << >>
  /\ events' = [events EXCEPT !["secret"] = Tail(@)]
  /\ Q!Add(getIngressesForSecret(Head(events["secret"])[1]))
  /\ UNCHANGED <<storeVars, workerVars>>
-----------------------------------------------------------------------------
(* syncEnvoyIngress: one read of the listers after the other.              *)

Get(w, i) ==
  /\ pc[w] = "idle"
  /\ Q!Take(w, i)
  /\ pc' = [pc EXCEPT ![w] = "lookup"]
  /\ UNCHANGED <<storeVars, events, snap, built, ingressNodeGroupStore>>

\* The deleted ingress's key is never marked done.
LookupDeletedHeld(w) ==
  /\ pc[w] = "lookup" /\ Current(busy[w]) = None
  /\ built' = [built EXCEPT ![busy[w]] = None]
  /\ pc' = [pc EXCEPT ![w] = "idle"]
  /\ UNCHANGED <<storeVars, events, queueVars, snap, ingressNodeGroupStore>>

LookupDeleted(w) ==
  /\ pc[w] = "lookup" /\ Current(busy[w]) = None
  /\ built' = [built EXCEPT ![busy[w]] = None]
  /\ Q!Finish(w)
  /\ pc' = [pc EXCEPT ![w] = "idle"]
  /\ UNCHANGED <<storeVars, events, snap, ingressNodeGroupStore>>

LookupForeign(w) ==
  /\ pc[w] = "lookup" /\ Current(busy[w]) # None /\ ~IsEnvoy(Current(busy[w]))
  /\ Q!RetryAndFinish(w)
  /\ pc' = [pc EXCEPT ![w] = "idle"]
  /\ UNCHANGED <<storeVars, events, snap, built, ingressNodeGroupStore>>

LookupEnvoy(w) ==
  /\ pc[w] = "lookup" /\ IsEnvoy(Current(busy[w]))
  /\ snap' = [snap EXCEPT ![w] = [ingress |-> Current(busy[w]), secret |-> None, service |-> None,
                                  endpoints |-> None, again |-> None]]
  /\ pc' = [pc EXCEPT ![w] = "secrets"]
  /\ UNCHANGED <<storeVars, events, queueVars, built, ingressNodeGroupStore>>

ReadSecrets(w) ==
  /\ pc[w] = "secrets"
  /\ snap' = [snap EXCEPT ![w].secret = secretStore[snap[w].ingress.secret]]
  /\ pc' = [pc EXCEPT ![w] = "endpoints"]
  /\ UNCHANGED <<storeVars, events, queueVars, built, ingressNodeGroupStore>>

\* No service, no endpoints.
EndpointsOf(s) == IF serviceStore[s] = None THEN None ELSE endpointStore[s]

ReadEndpoints(w) ==
  LET s == snap[w].ingress.service
  IN  /\ pc[w] = "endpoints"
      /\ snap' = [snap EXCEPT ![w].service = serviceStore[s], ![w].endpoints = EndpointsOf(s)]
      /\ pc' = [pc EXCEPT ![w] = "clusters"]
      /\ UNCHANGED <<storeVars, events, queueVars, built, ingressNodeGroupStore>>

\* Clusters, routes and listeners look the service up again.
ReadClusters(w) ==
  /\ pc[w] = "clusters"
  /\ snap' = [snap EXCEPT ![w].again = serviceStore[snap[w].ingress.service]]
  /\ pc' = [pc EXCEPT ![w] = "write"]
  /\ UNCHANGED <<storeVars, events, queueVars, built, ingressNodeGroupStore>>

\* The node group names are looked up among the nodes.
WriteResources(w) ==
  /\ pc[w] = "write"
  /\ built' = [built EXCEPT ![busy[w]] = snap[w]]
  /\ ingressNodeGroupStore' =
       [ingressNodeGroupStore EXCEPT ![busy[w]] = snap[w].ingress.groups \cap ReadyNodes]
  /\ Q!Finish(w)
  /\ snap' = [snap EXCEPT ![w] = None]
  /\ pc' = [pc EXCEPT ![w] = "idle"]
  /\ UNCHANGED <<storeVars, events>>

Release ==
  /\ \E i \in Ingresses : Q!Ripen(i)
  /\ UNCHANGED <<storeVars, events, workerVars>>

Handle ==
  \/ \E v \in Versions : HandleIngress(v) \/ \E i \in Ingresses : Receive(v, i)
  \/ HandleService \/ HandleEndpoints \/ HandleSecret

Work(w) ==
  \/ LookupDeleted(w) \/ LookupForeign(w) \/ LookupEnvoy(w)
  \/ ReadSecrets(w) \/ ReadEndpoints(w) \/ ReadClusters(w) \/ WriteResources(w)

Next ==
  \/ \E i \in Ingresses, o \in IngressObjects \cup {None} : ChangeIngress(i, o)
  \/ \E s \in Services, o \in ServiceObjects \cup {None} : ChangeService(s, o)
  \/ \E s \in Services, o \in EndpointObjects \cup {None} : ChangeEndpoints(s, o)
  \/ \E t \in Secrets, o \in SecretObjects \cup {None} : ChangeSecret(t, o)
  \/ Handle
  \/ \E w \in Workers : Work(w) \/ \E i \in Ingresses : Get(w, i)
  \/ Release

Spec == Init /\ [][Next]_vars

\* The informer goroutines and the workers run on; the queue is first-in
\* first-out, so a key that waits is taken.
FairSpec ==
  /\ Spec
  /\ \A v \in Versions, i \in Ingresses : WF_vars(Receive(v, i))
  /\ \A v \in Versions : WF_vars(HandleIngress(v))
  /\ WF_vars(HandleService) /\ WF_vars(HandleEndpoints) /\ WF_vars(HandleSecret)
  /\ \A w \in Workers : WF_vars(Work(w))
  /\ \A i \in Ingresses : SF_vars(\E w \in Workers : Get(w, i))
-----------------------------------------------------------------------------
\* What a sync of i builds from when the stores do not change.
Fresh(i) ==
  LET c == Current(i)
  IN  IF c = None THEN None
      ELSE [ingress |-> c, secret |-> secretStore[c.secret],
            service |-> serviceStore[c.service], again |-> serviceStore[c.service],
            endpoints |-> EndpointsOf(c.service)]

Foreign(i) == Current(i) # None /\ ~IsEnvoy(Current(i))

(* No change is lost: when all informers have caught up and the key of an  *)
(* envoy or deleted ingress is with no worker and not queued, its          *)
(* resources were built from the objects as they are now in the stores of  *)
(* all informers, whatever the order in which they learned of the changes. *)
BuiltFromStores ==
  (\A k \in Kinds : events[k] = << >>) /\ (\A v \in Versions : ingressStore[v] = api) =>
    \A i \in Ingresses :
      i \in pending \cup later \cup Q!Held \/ Foreign(i) \/ built[i] = Fresh(i)

(* Every envoy ingress is in the end built from the objects in the API     *)
(* server, and nothing is kept for one that is deleted there.              *)
EventuallyFresh ==
  <>[](\A i \in Ingresses :
         /\ Current(i) = api[i]
         /\ Foreign(i) \/ built[i] = Fresh(i))
=============================================================================
