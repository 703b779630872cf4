--------------------------- MODULE EdgeController ---------------------------
(***************************************************************************)
(* The downstream half of the edge controller (cloud/pkg/edgecontroller)   *)
(* for pods, config maps, secrets and services, and the API server it      *)
(* watches.  Every kind of object has its own goroutine; pods pass through *)
(* PodManager.merge first.  Config maps and secrets go to the nodes that   *)
(* the location cache knows to run a pod that uses them, services to every *)
(* edge node; the model follows one node.                                  *)
(***************************************************************************)
EXTENDS ObjectMessages

VARIABLES
  api,         \* api[k]: the object, or None
  clock,       \* the last resource version given
  events,      \* events of the managers, by kind; of pods those before merge
  cachedPods,  \* PodManager.pods: UID -> specification last seen, 0 when not cached
  located,     \* LocationCache.configMapNode and secretNode, as far as this node goes
  toHub        \* the channel of module cloudhub

ecVars == <<api, clock, events, cachedPods, located, toHub>>

Kinds == {"pod", "configmap", "secret", "service"}
Kind(k) == CASE k \in ConfigMaps -> "configmap" [] k \in Secrets -> "secret"
             [] k \in Services -> "service" [] OTHER -> "pod"

ECTypeOK ==
  /\ api \in [Keys -> Object \cup {None}] /\ clock \in 0..MaxVersion
  /\ events \in [Kinds -> Seq(Event)]
  /\ cachedPods \in [UIDs -> 0..MaxVersion]
  /\ located \subseteq ConfigMaps \cup Secrets
  /\ toHub \in Seq(Message) /\ Len(toHub) <= ChannelSize

Existing == {k \in Keys : api[k] # None}
InAnyOrder(T) ==
  CHOOSE q \in [1..Cardinality(T) -> T] : \A i, j \in DOMAIN q : q[i] = q[j] => i = j
Listed(S) == InAnyOrder({[type |-> "Added", key |-> k, obj |-> api[k]] : k \in S \cap Existing})

ECInit ==
  /\ api = [k \in Keys |-> None] /\ clock = 0
  /\ events = [n \in Kinds |-> << >>]
  /\ cachedPods = [u \in UIDs |-> 0]
  /\ located = {}
  /\ toHub = << >>
-----------------------------------------------------------------------------
(* The API server and the event handler of the informers.                  *)

Write(k, o, type) ==
  /\ clock < MaxVersion
  /\ clock' = clock + 1
  /\ api' = [api EXCEPT ![k] = IF type = "Deleted" THEN None ELSE o]
  /\ events' = [events EXCEPT ![Kind(k)] = Append(@, [type |-> type, key |-> k, obj |-> o])]
  /\ UNCHANGED <<cachedPods, located, toHub>>

CreateObject(k) ==
  /\ api[k] = None
  /\ LET v == clock + 1
     IN  Write(k, [uid |-> v, rv |-> v, spec |-> v, terminating |-> FALSE], "Added")

UpdateObject(k) ==
  /\ api[k] # None
  /\ Write(k, [api[k] EXCEPT !.rv = clock + 1, !.spec = clock + 1], "Modified")

\* The status of a pod is written.
UpdateStatus(p) ==
  /\ api[p] # None
  /\ Write(p, [api[p] EXCEPT !.rv = clock + 1], "Modified")

\* A pod is given a deletion timestamp first.
DeletePod(p) ==
  /\ api[p] # None /\ ~api[p].terminating
  /\ Write(p, [api[p] EXCEPT !.rv = clock + 1, !.spec = clock + 1, !.terminating = TRUE],
           "Modified")

RemoveObject(k) ==
  /\ api[k] # None
  /\ k \in Pods => api[k].terminating
  /\ Write(k, [api[k] EXCEPT !.rv = clock + 1], "Deleted")
-----------------------------------------------------------------------------
(* The goroutines of the controller.                                       *)

\* What PodManager.merge makes of an event: a change of the status alone is
\* dropped, a pod listed while it terminates is a modification.
Dropped(e) == e.type = "Modified" /\ cachedPods[e.obj.uid] = e.obj.spec
Merged(e) ==
  IF e.type = "Added" /\ e.obj.terminating THEN [e EXCEPT !.type = "Modified"] ELSE e

\* ContextMessageLayer.Send waits while the channel of cloudhub is full.
Send(m) ==
  /\ Len(toHub) < ChannelSize
  /\ toHub' = Append(toHub, m)

Operation(type, added) ==
  CASE type = "Added" -> added [] type = "Deleted" -> "delete" [] OTHER -> "update"

\* merge and syncPod.  merge shares nothing but its two channels with the
\* rest, so that its steps and those of syncPod are taken together.
SyncPod ==
  /\ events["pod"] # << >>
  /\ LET e == Head(events["pod"])
         o == e.obj
     IN  /\ cachedPods' = [cachedPods EXCEPT ![o.uid] = IF e.type = "Deleted" THEN 0 ELSE o.spec]
         /\ IF Dropped(e) THEN UNCHANGED <<located, toHub>>
            ELSE /\ located' = IF e.type = "Deleted" THEN located ELSE located \cup Uses[e.key]
                 /\ Send(NewMessage(Operation(Merged(e).type, "insert"), e.key, o))
  /\ events' = [events EXCEPT !["pod"] = Tail(@)]
  /\ UNCHANGED <<api, clock>>

\* (services, too, only go to nodes the location cache knows)
SyncEventLocated(n, added) ==
  /\ events[n] # << >>
  /\ LET e == Head(events[n])
     IN  /\ located' = IF e.type = "Deleted" THEN located \ {e.key} ELSE located
         /\ IF e.key \in located
            THEN Send(NewMessage(Operation(e.type, added), e.key, e.obj))
            ELSE UNCHANGED toHub
  /\ events' = [events EXCEPT ![n] = Tail(@)]
  /\ UNCHANGED <<api, clock, cachedPods>>

\* The nodes to send to are looked up before a deletion forgets them.
SyncEvent(n, added) ==
  /\ events[n] # << >>
  /\ LET e == Head(events[n])
     IN  /\ located' = IF e.type = "Deleted" THEN located \ {e.key} ELSE located
         /\ IF e.key \in located \cup Services
            THEN Send(NewMessage(Operation(e.type, added), e.key, e.obj))
            ELSE UNCHANGED toHub
  /\ events' = [events EXCEPT ![n] = Tail(@)]
  /\ UNCHANGED <<api, clock, cachedPods>>

SyncConfigMap == SyncEvent("configmap", "insert")
SyncSecret == SyncEvent("secret", "update")
SyncService == SyncEvent("service", "insert")

\* cloudcore starts again: initLocating reads the pods, the informers list
\* everything as added.
ECRestart ==
  /\ events' = [n \in Kinds |-> Listed({k \in Keys : Kind(k) = n})]
  /\ cachedPods' = [u \in UIDs |-> 0]
  /\ located' = UNION {Uses[p] : p \in Pods \cap Existing}
  /\ toHub' = << >>
  /\ UNCHANGED <<api, clock>>

ApiServer ==
  \/ \E k \in Keys : CreateObject(k) \/ UpdateObject(k) \/ RemoveObject(k)
  \/ \E p \in Pods : UpdateStatus(p) \/ DeletePod(p)
=============================================================================
