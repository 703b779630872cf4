------------------------ MODULE InformerEventsProofs ------------------------
(***************************************************************************)
(* For every set of ingresses, services, secrets, objects and workers, no  *)
(* change that the informers learn of is lost between their handlers and   *)
(* the workers' reads, as long as the handlers can tell the changes.       *)
(***************************************************************************)
EXTENDS InformerEvents, TLAPS

Elements(s) == {s[n] : n \in 1..Len(s)}

LEMMA AppendElements ==
  ASSUME NEW S, NEW s \in Seq(S), NEW x \in S
  PROVE  Append(s, x) \in Seq(S) /\ Elements(Append(s, x)) = Elements(s) \cup {x}
<1>1. Append(s, x) \in Seq(S) /\ Len(Append(s, x)) = Len(s) + 1 /\ Len(s) \in Nat
  OBVIOUS
<1>2. \A n \in 1..Len(s) : Append(s, x)[n] = s[n]
  OBVIOUS
<1>3. Append(s, x)[Len(s) + 1] = x
  OBVIOUS
<1>4. 1..(Len(s) + 1) = (1..Len(s)) \cup {Len(s) + 1}
  BY <1>1
<1> QED
  BY <1>1, <1>2, <1>3, <1>4 DEF Elements

LEMMA TailElements ==
  ASSUME NEW S, NEW s \in Seq(S), s # << >>
  PROVE  /\ Head(s) \in S /\ Tail(s) \in Seq(S)
         /\ Elements(s) \subseteq {Head(s)} \cup Elements(Tail(s))
<1>1. Len(s) \in Nat /\ Len(s) > 0 /\ Tail(s) \in Seq(S) /\ Len(Tail(s)) = Len(s) - 1
  OBVIOUS
<1>2. \A n \in 1..(Len(s) - 1) : Tail(s)[n] = s[n + 1]
  BY <1>1
<1>3. Head(s) = s[1] /\ Head(s) \in S
  BY <1>1
<1>4. ASSUME NEW n \in 1..Len(s), n # 1 PROVE s[n] \in Elements(Tail(s))
  <2>1. n - 1 \in 1..(Len(s) - 1) /\ (n - 1) + 1 = n
    BY <1>1, <1>4
  <2>2. Tail(s)[n - 1] = s[n]
    BY <2>1, <1>2, Zenon
  <2> QED
    BY <2>1, <2>2, <1>1, Zenon DEF Elements
<1> QED
  BY <1>1, <1>3, <1>4, Zenon DEF Elements
-----------------------------------------------------------------------------
(* The types of the state, event queues included.                          *)

Change(S, O) == {e \in S \X (O \cup {None}) \X (O \cup {None}) : e[2] # e[3]}

EventOf(k) ==
  IF k \in {"v1", "v1beta1"} THEN Change(Ingresses, IngressObjects)
  ELSE IF k = "service" THEN Change(Services, ServiceObjects)
  ELSE IF k = "endpoints" THEN Change(Services, EndpointObjects)
  ELSE Change(Secrets, SecretObjects)

StoreTypes ==
  /\ api \in [Ingresses -> IngressObjects \cup {None}]
  /\ ingressStore \in [Versions -> [Ingresses -> IngressObjects \cup {None}]]
  /\ serviceStore \in [Services -> ServiceObjects \cup {None}]
  /\ endpointStore \in [Services -> EndpointObjects \cup {None}]
  /\ secretStore \in [Secrets -> SecretObjects \cup {None}]
  /\ changes \in 0..MaxChanges

EventTypes == DOMAIN events = Kinds /\ \A k \in Kinds : events[k] \in Seq(EventOf(k))

WorkTypes ==
  /\ pending \subseteq Ingresses /\ later \subseteq Ingresses
  /\ busy \in [Workers -> Ingresses \cup {None}]
  /\ pc \in [Workers -> {"idle", "lookup", "secrets", "endpoints", "clusters", "write"}]
  /\ snap \in [Workers -> Snapshot \cup {None}]
  /\ built \in [Ingresses -> Snapshot \cup {None}]

AtHand(w) == /\ pc[w] = "idle" <=> busy[w] = None
             /\ pc[w] \in {"idle", "lookup"} <=> snap[w] = None

Types == StoreTypes /\ EventTypes /\ WorkTypes /\ \A w \in Workers : AtHand(w)

LEMMA ChangeFields ==
  ASSUME NEW S, NEW O
  PROVE  /\ \A e \in Change(S, O) : /\ e[1] \in S /\ e[2] # e[3]
                                    /\ e[2] \in O \cup {None} /\ e[3] \in O \cup {None}
         /\ \A n \in S, a, b \in O \cup {None} : a # b => <<n, a, b>> \in Change(S, O)
BY Zenon DEF Change

LEMMA TypesAreTypeOK == Types => TypeOK
<1> SUFFICES ASSUME Types PROVE TypeOK
  BY Zenon
<1>1. \A w \in Workers : pc[w] = "write" => snap[w] \in Snapshot
  BY Zenon DEF Types, WorkTypes, AtHand
<1>2. \A i \in Ingresses : built[i] = None \/ built[i] \in Snapshot
  BY Zenon DEF Types, WorkTypes
<1> QED
  BY <1>1, <1>2, Zenon DEF Types, StoreTypes, EventTypes, WorkTypes, AtHand, TypeOK, Q!KWTypeOK

LEMMA TypesInit == Init => Types
<1> SUFFICES ASSUME Init PROVE Types
  BY Zenon
<1>1. \A S : << >> \in Seq(S)
  OBVIOUS
<1>2. EventTypes
  BY <1>1, Zenon DEF Init, EventTypes
<1>3. StoreTypes
  BY MaxChangesAssumption DEF Init, StoreTypes
<1>4. WorkTypes /\ \A w \in Workers : AtHand(w)
  BY Zenon DEF Init, Q!KWInit, WorkTypes, AtHand
<1> QED
  BY <1>2, <1>3, <1>4, Zenon DEF Types

\* A handler that takes the first event, an informer that adds one.
LEMMA TakeEvent ==
  ASSUME EventTypes, NEW k \in Kinds, events[k] # << >>,
         events' = [events EXCEPT ![k] = Tail(@)]
  PROVE  /\ EventTypes' /\ Head(events[k]) \in EventOf(k)
         /\ Elements(events[k]) \subseteq {Head(events[k])} \cup Elements(events'[k])
         /\ \A l \in Kinds \ {k} : events'[l] = events[l]
<1>1. events[k] \in Seq(EventOf(k)) /\ events'[k] = Tail(events[k]) /\ DOMAIN events' = Kinds
  BY Zenon DEF EventTypes
<1>2. /\ Head(events[k]) \in EventOf(k) /\ events'[k] \in Seq(EventOf(k))
      /\ Elements(events[k]) \subseteq {Head(events[k])} \cup Elements(events'[k])
  BY <1>1, TailElements, Zenon
<1>3. \A l \in Kinds \ {k} : events'[l] = events[l]
  BY Zenon DEF EventTypes
<1> QED
  BY <1>1, <1>2, <1>3, Zenon DEF EventTypes

LEMMA AddEvent ==
  ASSUME EventTypes, NEW k \in Kinds, NEW name, NEW old, NEW cur, Notify(k, name, old, cur),
         <<name, old, cur>> \in EventOf(k)
  PROVE  /\ EventTypes'
         /\ Elements(events'[k]) = Elements(events[k]) \cup {<<name, old, cur>>}
         /\ \A l \in Kinds : Elements(events[l]) \subseteq Elements(events'[l])
<1> DEFINE e == <<name, old, cur>>
<1>1. /\ events[k] \in Seq(EventOf(k)) /\ DOMAIN events' = Kinds
      /\ events'[k] = Append(events[k], e)
  BY Zenon DEF EventTypes, Notify
<1>2. events'[k] \in Seq(EventOf(k)) /\ Elements(events'[k]) = Elements(events[k]) \cup {e}
  BY <1>1, AppendElements
<1>3. \A l \in Kinds \ {k} : events'[l] = events[l]
  BY Zenon DEF EventTypes, Notify
<1> QED
  BY <1>1, <1>2, <1>3, Zenon DEF EventTypes

LEMMA VersionKinds == Versions \subseteq Kinds
BY VersionsAssumption, Zenon DEF Kinds

\* What the changes add is an event of its kind.
LEMMA Announcements ==
  ASSUME Types
  PROVE  /\ \A v \in Versions, i \in Ingresses :
              ingressStore[v][i] # api[i] => <<i, ingressStore[v][i], api[i]>> \in EventOf(v)
         /\ \A s \in Services, o \in ServiceObjects \cup {None} :
              o # serviceStore[s] => <<s, serviceStore[s], o>> \in EventOf("service")
         /\ \A s \in Services, o \in EndpointObjects \cup {None} :
              o # endpointStore[s] => <<s, endpointStore[s], o>> \in EventOf("endpoints")
         /\ \A t \in Secrets, o \in SecretObjects \cup {None} :
              o # secretStore[t] => <<t, secretStore[t], o>> \in EventOf("secret")
<1>1. ASSUME NEW v \in Versions, NEW i \in Ingresses, ingressStore[v][i] # api[i]
      PROVE  <<i, ingressStore[v][i], api[i]>> \in EventOf(v)
  <2>1. EventOf(v) = Change(Ingresses, IngressObjects)
    BY VersionsAssumption, Zenon DEF EventOf
  <2>2. ingressStore[v][i] \in IngressObjects \cup {None} /\ api[i] \in IngressObjects \cup {None}
    BY Zenon DEF Types, StoreTypes
  <2> QED
    BY <1>1, <2>1, <2>2, ChangeFields
<1>2. ASSUME NEW s \in Services, NEW o \in ServiceObjects \cup {None}, o # serviceStore[s]
      PROVE  <<s, serviceStore[s], o>> \in EventOf("service")
  BY <1>2, ChangeFields, Zenon DEF Types, StoreTypes, EventOf
<1>3. ASSUME NEW s \in Services, NEW o \in EndpointObjects \cup {None}, o # endpointStore[s]
      PROVE  <<s, endpointStore[s], o>> \in EventOf("endpoints")
  BY <1>3, ChangeFields, Zenon DEF Types, StoreTypes, EventOf
<1>4. ASSUME NEW t \in Secrets, NEW o \in SecretObjects \cup {None}, o # secretStore[t]
      PROVE  <<t, secretStore[t], o>> \in EventOf("secret")
  BY <1>4, ChangeFields, Zenon DEF Types, StoreTypes, EventOf
<1> QED
  BY <1>1, <1>2, <1>3, <1>4, Zenon

\* The informer that learns of a change puts it at the end of its queue.
Tells(k, name) ==
  /\ EventTypes'
  /\ \A l \in Kinds : Elements(events[l]) \subseteq Elements(events'[l])
  /\ \E e \in Elements(events'[k]) : e[1] = name

LEMMA ChangesTold ==
  ASSUME Types
  PROVE  /\ \A s \in Services, o \in ServiceObjects \cup {None} :
              ChangeService(s, o) => Tells("service", s)
         /\ \A s \in Services, o \in EndpointObjects \cup {None} :
              ChangeEndpoints(s, o) => Tells("endpoints", s)
         /\ \A t \in Secrets, o \in SecretObjects \cup {None} :
              ChangeSecret(t, o) => Tells("secret", t)
<1>1. ASSUME NEW k \in Kinds, NEW name, NEW old, NEW cur, Notify(k, name, old, cur),
             <<name, old, cur>> \in EventOf(k)
      PROVE  Tells(k, name)
  <2>1. <<name, old, cur>> \in Elements(events'[k]) /\ <<name, old, cur>>[1] = name
    BY <1>1, AddEvent DEF Types
  <2>2. EventTypes' /\ \A l \in Kinds : Elements(events[l]) \subseteq Elements(events'[l])
    BY <1>1, AddEvent, Zenon DEF Types
  <2> QED
    BY <2>1, <2>2, Zenon DEF Tells
<1>2. "service" \in Kinds /\ "endpoints" \in Kinds /\ "secret" \in Kinds
  BY Zenon DEF Kinds
<1>3. ASSUME NEW s \in Services, NEW o \in ServiceObjects \cup {None}, ChangeService(s, o)
      PROVE  Tells("service", s)
  <2>1. Notify("service", s, serviceStore[s], o) /\ o # serviceStore[s]
    BY <1>3, Zenon DEF ChangeService
  <2> QED
    BY <1>1, <1>2, <2>1, Announcements, Zenon
<1>4. ASSUME NEW s \in Services, NEW o \in EndpointObjects \cup {None}, ChangeEndpoints(s, o)
      PROVE  Tells("endpoints", s)
  <2>1. Notify("endpoints", s, endpointStore[s], o) /\ o # endpointStore[s]
    BY <1>4, Zenon DEF ChangeEndpoints
  <2> QED
    BY <1>1, <1>2, <2>1, Announcements, Zenon
<1>5. ASSUME NEW t \in Secrets, NEW o \in SecretObjects \cup {None}, ChangeSecret(t, o)
      PROVE  Tells("secret", t)
  <2>1. Notify("secret", t, secretStore[t], o) /\ o # secretStore[t]
    BY <1>5, Zenon DEF ChangeSecret
  <2> QED
    BY <1>1, <1>2, <2>1, Announcements, Zenon
<1> QED
  BY <1>3, <1>4, <1>5, Zenon

LEMMA KeysAreIngresses ==
  /\ \A v, i, a, b : IngressKeys(v, i, a, b) \subseteq {i}
  /\ \A s, a, b : ServiceKeys(s, a, b) \subseteq Ingresses
  /\ \A s : EndpointKeys(s) \subseteq Ingresses
  /\ \A t : getIngressesForSecret(t) \subseteq Ingresses
<1>1. \A v, i, a, b : IngressKeys(v, i, a, b) \subseteq {i}
  BY Zenon DEF IngressKeys, updateIngress
<1>2. \A s, o : getIngressesForService(s, o) \subseteq Ingresses
  BY Zenon DEF getIngressesForService
<1>3. \A t : getIngressesForSecret(t) \subseteq Ingresses
  BY Zenon DEF getIngressesForSecret
<1> QED
  BY <1>1, <1>2, <1>3, Zenon DEF ServiceKeys, EndpointKeys

\* What the lookup of the ingress finds.
LEMMA CurrentListed ==
  ASSUME Types, NEW i \in Ingresses
  PROVE  /\ Current(i) \in IngressObjects \cup {None}
         /\ Current(i) # None => Current(i) \in Listed(i)
BY DEF Types, StoreTypes, Current, Listed

LEMMA SnapshotFields ==
  /\ \A r \in Snapshot : r.ingress.service \in Services /\ r.ingress.secret \in Secrets
  /\ \A o \in IngressObjects : o.service \in Services /\ o.secret \in Secrets
BY IngressObjectsAssumption, Zenon DEF Snapshot, IngressObject

LEMMA HandleTypes ==
  ASSUME Types, NEW k \in Kinds, NEW S, S \subseteq Ingresses, events[k] # << >>,
         events' = [events EXCEPT ![k] = Tail(@)], Q!Add(S),
         UNCHANGED <<storeVars, pc, snap, built>>
  PROVE  Types'
<1>1. EventTypes'
  BY TakeEvent, Zenon DEF Types
<1> QED
  BY <1>1, Zenon DEF Types, StoreTypes, WorkTypes, AtHand, Q!Add, storeVars

LEMMA TypesStep ==
  ASSUME Types, [Next]_vars
  PROVE  Types'
<1>1. ASSUME UNCHANGED vars PROVE Types'
  BY <1>1, Zenon
     DEF Types, StoreTypes, EventTypes, WorkTypes, AtHand, vars, storeVars, queueVars, workerVars
<1>2. ASSUME NEW i \in Ingresses, NEW o \in IngressObjects \cup {None}, ChangeIngress(i, o)
      PROVE  Types'
  <2>1. StoreTypes'
    BY <1>2, MaxChangesAssumption DEF ChangeIngress, Types, StoreTypes
  <2> QED
    BY <1>2, <2>1, Zenon DEF ChangeIngress, Types, EventTypes, WorkTypes, AtHand, queueVars, workerVars
<1>3. ASSUME NEW s \in Services, NEW o \in ServiceObjects \cup {None}, ChangeService(s, o)
      PROVE  Types'
  <2>1. StoreTypes'
    BY <1>3, MaxChangesAssumption DEF ChangeService, Types, StoreTypes
  <2>2. EventTypes'
    BY <1>3, ChangesTold, Zenon DEF Tells
  <2> QED
    BY <1>3, <2>1, <2>2, Zenon DEF ChangeService, Types, WorkTypes, AtHand, queueVars, workerVars
<1>4. ASSUME NEW s \in Services, NEW o \in EndpointObjects \cup {None}, ChangeEndpoints(s, o)
      PROVE  Types'
  <2>1. StoreTypes'
    BY <1>4, MaxChangesAssumption DEF ChangeEndpoints, Types, StoreTypes
  <2>2. EventTypes'
    BY <1>4, ChangesTold, Zenon DEF Tells
  <2> QED
    BY <1>4, <2>1, <2>2, Zenon DEF ChangeEndpoints, Types, WorkTypes, AtHand, queueVars, workerVars
<1>5. ASSUME NEW t \in Secrets, NEW o \in SecretObjects \cup {None}, ChangeSecret(t, o)
      PROVE  Types'
  <2>1. StoreTypes'
    BY <1>5, MaxChangesAssumption DEF ChangeSecret, Types, StoreTypes
  <2>2. EventTypes'
    BY <1>5, ChangesTold, Zenon DEF Tells
  <2> QED
    BY <1>5, <2>1, <2>2, Zenon DEF ChangeSecret, Types, WorkTypes, AtHand, queueVars, workerVars
<1>6. ASSUME NEW v \in Versions, NEW i \in Ingresses, Receive(v, i) PROVE Types'
  <2>1. StoreTypes'
    BY <1>6, Zenon DEF Receive, Types, StoreTypes
  <2>2. EventTypes'
    BY <1>6, Announcements, AddEvent, VersionKinds, Zenon DEF Receive, Types
  <2> QED
    BY <1>6, <2>1, <2>2, Zenon DEF Receive, Types, WorkTypes, AtHand, queueVars, workerVars
<1>7. ASSUME NEW v \in Versions, HandleIngress(v) PROVE Types'
  <2> DEFINE e == Head(events[v])
  <2>1. e \in EventOf(v) /\ v \in Kinds
    BY <1>7, TakeEvent, VersionKinds, Zenon DEF HandleIngress, Types
  <2>2. e[1] \in Ingresses
    BY <2>1, ChangeFields, VersionsAssumption, Zenon DEF EventOf
  <2>3. IngressKeys(v, e[1], e[2], e[3]) \subseteq Ingresses
    BY <2>2, KeysAreIngresses
  <2> QED
    BY <1>7, <2>1, <2>3, HandleTypes, Zenon DEF HandleIngress
<1>8. ASSUME HandleService PROVE Types'
  <2> DEFINE e == Head(events["service"])
  <2>1. ServiceKeys(e[1], e[2], e[3]) \subseteq Ingresses
    BY KeysAreIngresses, Zenon
  <2> QED
    BY <1>8, <2>1, HandleTypes, Zenon DEF HandleService, Kinds, workerVars
<1>9. ASSUME HandleEndpoints PROVE Types'
  <2>1. EndpointKeys(Head(events["endpoints"])[1]) \subseteq Ingresses
    BY KeysAreIngresses, Zenon
  <2> QED
    BY <1>9, <2>1, HandleTypes, Zenon DEF HandleEndpoints, Kinds, workerVars
<1>10. ASSUME HandleSecret PROVE Types'
  <2>1. getIngressesForSecret(Head(events["secret"])[1]) \subseteq Ingresses
    BY KeysAreIngresses, Zenon
  <2> QED
    BY <1>10, <2>1, HandleTypes, Zenon DEF HandleSecret, Kinds, workerVars
<1>11. ASSUME NEW w \in Workers, NEW i \in Ingresses, Get(w, i) PROVE Types'
  <2>1. StoreTypes' /\ EventTypes'
    BY <1>11, Zenon DEF Get, Types, StoreTypes, EventTypes, storeVars
  <2> QED
    BY <1>11, <2>1, NoneIsNothing, Zenon DEF Get, Q!Take, Types, WorkTypes, AtHand
<1>12. ASSUME Release PROVE Types'
  <2>1. StoreTypes' /\ EventTypes'
    BY <1>12, Zenon DEF Release, Types, StoreTypes, EventTypes, storeVars
  <2> QED
    BY <1>12, <2>1, Zenon DEF Release, Q!Ripen, Types, WorkTypes, AtHand, workerVars
<1>13. ASSUME NEW w \in Workers, Work(w) PROVE Types'
  <2>1. StoreTypes' /\ EventTypes'
    <3>1. UNCHANGED <<storeVars, events>>
      BY <1>13, Zenon DEF Work, LookupDeleted, LookupForeign, LookupEnvoy, ReadSecrets, ReadEndpoints,
         ReadClusters, WriteResources
    <3> QED
      BY <3>1, Zenon DEF Types, StoreTypes, EventTypes, storeVars
  <2>2. CASE LookupDeleted(w)
    BY <2>1, <2>2, Zenon DEF LookupDeleted, Q!Finish, Types, WorkTypes, AtHand
  <2>3. CASE LookupForeign(w)
    BY <2>1, <2>3, Zenon DEF LookupForeign, Q!RetryAndFinish, Types, WorkTypes, AtHand
  <2>4. CASE LookupEnvoy(w)
    <3>1. busy[w] \in Ingresses /\ Current(busy[w]) \in IngressObjects
      BY <2>4, CurrentListed, Zenon DEF LookupEnvoy, IsEnvoy, Types, WorkTypes, AtHand
    <3>2. [ingress |-> Current(busy[w]), secret |-> None, service |-> None,
           endpoints |-> None, again |-> None] \in Snapshot
      BY <3>1, Zenon DEF Snapshot
    <3> QED
      BY <2>1, <2>4, <3>2, NoneIsNothing, Zenon DEF LookupEnvoy, queueVars, Types, WorkTypes, AtHand
  <2>5. CASE ReadSecrets(w)
    <3>1. snap[w] \in Snapshot
      BY <2>5, Zenon DEF ReadSecrets, Types, WorkTypes, AtHand
    <3>2. secretStore[snap[w].ingress.secret] \in SecretObjects \cup {None}
      BY <3>1, SnapshotFields, Zenon DEF Types, StoreTypes
    <3>3. snap' \in [Workers -> Snapshot \cup {None}] /\ snap'[w] \in Snapshot
          /\ \A u \in Workers \ {w} : snap'[u] = snap[u]
      BY <2>5, <3>1, <3>2 DEF ReadSecrets, Types, WorkTypes, Snapshot
    <3> QED
      BY <2>1, <2>5, <3>3, NoneIsNothing DEF ReadSecrets, queueVars, Types, WorkTypes, AtHand
  <2>6. CASE ReadEndpoints(w)
    <3>1. snap[w] \in Snapshot
      BY <2>6, Zenon DEF ReadEndpoints, Types, WorkTypes, AtHand
    <3>2. /\ serviceStore[snap[w].ingress.service] \in ServiceObjects \cup {None}
          /\ EndpointsOf(snap[w].ingress.service) \in EndpointObjects \cup {None}
      BY <3>1, SnapshotFields, Zenon DEF Types, StoreTypes, EndpointsOf
    <3>3. PICK o \in ServiceObjects \cup {None}, e \in EndpointObjects \cup {None} :
            snap' = [snap EXCEPT ![w].service = o, ![w].endpoints = e]
      BY <2>6, <3>2, Zenon DEF ReadEndpoints
    <3>4. snap' \in [Workers -> Snapshot \cup {None}] /\ snap'[w] \in Snapshot
          /\ \A u \in Workers \ {w} : snap'[u] = snap[u]
      BY <3>1, <3>3, Zenon DEF Types, WorkTypes, Snapshot
    <3>5. pc' = [pc EXCEPT ![w] = "clusters"] /\ pc[w] = "endpoints" /\ UNCHANGED <<queueVars, built>>
      BY <2>6, Zenon DEF ReadEndpoints
    <3> QED
      BY <2>1, <3>4, <3>5, NoneIsNothing DEF queueVars, Types, WorkTypes, AtHand
  <2>7. CASE ReadClusters(w)
    <3>1. snap[w] \in Snapshot
      BY <2>7, Zenon DEF ReadClusters, Types, WorkTypes, AtHand
    <3>2. serviceStore[snap[w].ingress.service] \in ServiceObjects \cup {None}
      BY <3>1, SnapshotFields, Zenon DEF Types, StoreTypes
    <3>3. snap' \in [Workers -> Snapshot \cup {None}] /\ snap'[w] \in Snapshot
          /\ \A u \in Workers \ {w} : snap'[u] = snap[u]
      BY <2>7, <3>1, <3>2 DEF ReadClusters, Types, WorkTypes, Snapshot
    <3> QED
      BY <2>1, <2>7, <3>3, NoneIsNothing DEF ReadClusters, queueVars, Types, WorkTypes, AtHand
  <2>8. CASE WriteResources(w)
    BY <2>1, <2>8, Zenon DEF WriteResources, Q!Finish, Types, WorkTypes, AtHand
  <2> QED
    BY <1>13, <2>2, <2>3, <2>4, <2>5, <2>6, <2>7, <2>8, Zenon DEF Work
<1> QED
  BY <1>1, <1>2, <1>3, <1>4, <1>5, <1>6, <1>7, <1>8, <1>9, <1>10, <1>11, <1>12, <1>13, ZenonT(30)
     DEF Next, Handle
-----------------------------------------------------------------------------
(* Every ingress is built from the stores, or something will see to it.    *)

\* The handlers can tell the changes: services have selectors, one that is
\* changed has another selector, and with the v1beta1 informer alone an
\* ingress of another class has another UID.
Telling ==
  /\ \A a, b \in ServiceObjects : a.selector # 0 /\ (a.selector = b.selector => a = b)
  /\ "v1" \in Versions \/ \A a, b \in IngressObjects : a.uid = b.uid => a.envoy = b.envoy

\* The v1 informer has not heard of an ingress that the v1beta1 one has.
Lagging(i) == "v1" \in Versions /\ ingressStore["v1"][i] = None /\ Current(i) # None

\* The handler of event e of kind k enqueues i.
Wakes(k, e, i) ==
  \/ k \in Versions /\ e[1] = i /\ i \in IngressKeys(k, i, e[2], e[3])
  \/ /\ Current(i) # None
     /\ \/ k = "secret" /\ e[1] = Current(i).secret
        \/ k = "service" /\ e[1] = Current(i).service
        \/ k = "endpoints" /\ e[1] = Current(i).service /\ serviceStore[Current(i).service] # None

Awaited(i) == \E k \in Kinds : \E e \in Elements(events[k]) : Wakes(k, e, i)

\* What worker w has read for an ingress c is what the stores have.
Reads(w, c) ==
  pc[w] \in {"secrets", "endpoints", "clusters", "write"} =>
    /\ c # None /\ snap[w].ingress = c
    /\ pc[w] # "secrets" => snap[w].secret = secretStore[c.secret]
    /\ pc[w] \in {"clusters", "write"} => /\ snap[w].service = serviceStore[c.service]
                                          /\ snap[w].endpoints = EndpointsOf(c.service)
    /\ pc[w] = "write" => snap[w].again = serviceStore[c.service]

Settled(i) ==
  /\ \A w \in Workers : busy[w] = i => Reads(w, Current(i))
  /\ i \notin Q!Held => built[i] = Fresh(i)

Covered(i) == Foreign(i) \/ Lagging(i) \/ i \in pending \cup later \/ Awaited(i) \/ Settled(i)

BuiltInv == \A i \in Ingresses : Covered(i)

LEMMA StoresSame ==
  ASSUME UNCHANGED storeVars, NEW i
  PROVE  /\ Current(i)' = Current(i) /\ Fresh(i)' = Fresh(i)
         /\ Foreign(i) => Foreign(i)'
         /\ Lagging(i) => Lagging(i)'
         /\ \A k, e : Wakes(k, e, i) => Wakes(k, e, i)'
<1>1. Current(i)' = Current(i)
  BY Zenon DEF storeVars, Current
<1>2. Fresh(i)' = Fresh(i)
  BY <1>1, Zenon DEF storeVars, Fresh, EndpointsOf
<1>3. Foreign(i) => Foreign(i)'
  BY <1>1, Zenon DEF Foreign, IsEnvoy
<1>4. Lagging(i) => Lagging(i)'
  BY <1>1, Zenon DEF Lagging, storeVars
<1>5. ASSUME NEW k, NEW e, Wakes(k, e, i) PROVE Wakes(k, e, i)'
  BY <1>1, <1>5, Zenon DEF Wakes, storeVars
<1> QED
  BY <1>1, <1>2, <1>3, <1>4, <1>5, Zenon

\* The workers and the queue stand still and so does what they read for i.
LEMMA SameSettled ==
  ASSUME UNCHANGED <<queueVars, pc, snap, built>>, NEW i, Settled(i),
         NEW c, Current(i) = c, Current(i)' = c,
         c # None => /\ secretStore'[c.secret] = secretStore[c.secret]
                     /\ serviceStore'[c.service] = serviceStore[c.service]
                     /\ EndpointsOf(c.service)' = EndpointsOf(c.service)
  PROVE  Settled(i)'
<1>1. ASSUME NEW w \in Workers, Reads(w, c) PROVE Reads(w, c)'
  BY <1>1, Zenon DEF Reads
<1>2. Fresh(i)' = Fresh(i)
  BY Zenon DEF Fresh
<1>3. Q!Held' = Q!Held /\ busy' = busy
  BY Zenon DEF Q!Held, queueVars
<1> QED
  BY <1>1, <1>2, <1>3, Zenon DEF Settled

\* A handler: if its event is the one that accounts for i, it enqueues i.
LEMMA HandleCovers ==
  ASSUME Types, NEW i \in Ingresses, Covered(i),
         NEW k \in Kinds, NEW S, events[k] # << >>,
         events' = [events EXCEPT ![k] = Tail(@)], Q!Add(S),
         UNCHANGED <<storeVars, pc, snap, built>>,
         Wakes(k, Head(events[k]), i) => Foreign(i) \/ i \in S
  PROVE  Covered(i)'
<1>1. ASSUME Foreign(i) \/ Lagging(i) \/ i \in pending \cup later PROVE Covered(i)'
  BY <1>1, StoresSame, Zenon DEF Covered, Q!Add
<1>2. ASSUME Awaited(i) PROVE Covered(i)'
  <2>1. PICK l \in Kinds : \E e \in Elements(events[l]) : Wakes(l, e, i)
    BY <1>2, Zenon DEF Awaited
  <2>2. PICK e \in Elements(events[l]) : Wakes(l, e, i)
    BY <2>1, Zenon
  <2>3. CASE l = k /\ e = Head(events[k])
    BY <2>2, <2>3, <1>1, Zenon DEF Covered, Q!Add
  <2>4. CASE ~(l = k /\ e = Head(events[k]))
    <3>1. e \in Elements(events'[l])
      BY <2>2, <2>4, TakeEvent, Zenon DEF Types
    <3>2. Wakes(l, e, i)'
      BY <2>2, StoresSame, Zenon
    <3> QED
      BY <3>1, <3>2, Zenon DEF Covered, Awaited
  <2> QED
    BY <2>3, <2>4, Zenon
<1>3. ASSUME Settled(i) PROVE Covered(i)'
  <2>1. ASSUME NEW w \in Workers, NEW c, Reads(w, c) PROVE Reads(w, c)'
    BY <2>1, Zenon DEF Reads, EndpointsOf, storeVars
  <2>2. Current(i)' = Current(i) /\ Fresh(i)' = Fresh(i)
    BY StoresSame, Zenon
  <2>3. Q!Held' = Q!Held /\ busy' = busy
    BY Zenon DEF Q!Held, Q!Add
  <2> QED
    BY <1>3, <2>1, <2>2, <2>3, Zenon DEF Settled, Covered
<1> QED
  BY <1>1, <1>2, <1>3, Zenon DEF Covered

\* A handler finds the envoy ingresses that name its service or secret.
LEMMA HandlersFind ==
  ASSUME Types, Telling, NEW i \in Ingresses, Current(i) # None, ~Foreign(i)
  PROVE  /\ \A e \in EventOf("service") :
              e[1] = Current(i).service => i \in ServiceKeys(e[1], e[2], e[3])
         /\ serviceStore[Current(i).service] # None => i \in EndpointKeys(Current(i).service)
         /\ i \in getIngressesForSecret(Current(i).secret)
<1> DEFINE c == Current(i)
<1>1. c \in Listed(i) /\ c.envoy /\ c \in IngressObjects /\ c.service \in Services
  BY CurrentListed, SnapshotFields, Zenon DEF Foreign, IsEnvoy
<1>2. \A o \in ServiceObjects : i \in getIngressesForService(c.service, o)
  BY <1>1, NoneIsNothing, Zenon DEF getIngressesForService, Telling
<1>3. ASSUME NEW e \in EventOf("service"), e[1] = c.service
      PROVE  i \in ServiceKeys(e[1], e[2], e[3])
  <2>1. e[2] # e[3] /\ e[2] \in ServiceObjects \cup {None} /\ e[3] \in ServiceObjects \cup {None}
    BY ChangeFields, Zenon DEF EventOf
  <2>2. ~(e[2] # None /\ e[3] # None /\ e[2].selector = e[3].selector)
    BY <2>1, Zenon DEF Telling
  <2> QED
    BY <1>2, <1>3, <2>1, <2>2, Zenon DEF ServiceKeys
<1>4. serviceStore[c.service] # None => i \in EndpointKeys(c.service)
  BY <1>1, <1>2, Zenon DEF EndpointKeys, Types, StoreTypes
<1>5. i \in getIngressesForSecret(c.secret)
  BY <1>1, Zenon DEF getIngressesForSecret
<1> QED
  BY <1>3, <1>4, <1>5, Zenon

LEMMA HandleStep ==
  ASSUME Types, Telling, NEW i \in Ingresses, Covered(i),
         (\E v \in Versions : HandleIngress(v)) \/ HandleService \/ HandleEndpoints \/ HandleSecret
  PROVE  Covered(i)'
<1>1. ASSUME NEW v \in Versions, HandleIngress(v) PROVE Covered(i)'
  <2> DEFINE e == Head(events[v])
             S == IngressKeys(v, e[1], e[2], e[3])
  <2>1. v \in Kinds /\ v \notin {"secret", "service", "endpoints"}
    BY VersionsAssumption, VersionKinds, Zenon
  <2>2. Wakes(v, e, i) => i \in S
    BY <2>1, Zenon DEF Wakes
  <2>3. /\ events[v] # << >> /\ events' = [events EXCEPT ![v] = Tail(@)] /\ Q!Add(S)
        /\ UNCHANGED <<storeVars, pc, snap, built>>
    BY <1>1, Zenon DEF HandleIngress
  <2> QED
    BY <2>1, <2>2, <2>3, HandleCovers, Zenon
<1>2. ASSUME HandleService PROVE Covered(i)'
  <2> DEFINE e == Head(events["service"])
             S == ServiceKeys(e[1], e[2], e[3])
  <2>1. /\ events["service"] # << >> /\ events' = [events EXCEPT !["service"] = Tail(@)]
        /\ Q!Add(S) /\ UNCHANGED <<storeVars, pc, snap, built>> /\ "service" \in Kinds
    BY <1>2, Zenon DEF HandleService, workerVars, Kinds
  <2>2. e \in EventOf("service")
    BY <2>1, TakeEvent, Zenon DEF Types
  <2>3. Wakes("service", e, i) => Foreign(i) \/ i \in S
    BY <2>2, HandlersFind, VersionsAssumption, Zenon DEF Wakes
  <2> QED
    BY <2>1, <2>3, HandleCovers, Zenon
<1>3. ASSUME HandleEndpoints PROVE Covered(i)'
  <2> DEFINE e == Head(events["endpoints"])
             S == EndpointKeys(e[1])
  <2>1. /\ events["endpoints"] # << >> /\ events' = [events EXCEPT !["endpoints"] = Tail(@)]
        /\ Q!Add(S) /\ UNCHANGED <<storeVars, pc, snap, built>> /\ "endpoints" \in Kinds
    BY <1>3, Zenon DEF HandleEndpoints, workerVars, Kinds
  <2>2. Wakes("endpoints", e, i) => Foreign(i) \/ i \in S
    BY HandlersFind, VersionsAssumption, Zenon DEF Wakes
  <2> QED
    BY <2>1, <2>2, HandleCovers, Zenon
<1>4. ASSUME HandleSecret PROVE Covered(i)'
  <2> DEFINE e == Head(events["secret"])
             S == getIngressesForSecret(e[1])
  <2>1. /\ events["secret"] # << >> /\ events' = [events EXCEPT !["secret"] = Tail(@)]
        /\ Q!Add(S) /\ UNCHANGED <<storeVars, pc, snap, built>> /\ "secret" \in Kinds
    BY <1>4, Zenon DEF HandleSecret, workerVars, Kinds
  <2>2. Wakes("secret", e, i) => Foreign(i) \/ i \in S
    BY HandlersFind, VersionsAssumption, Zenon DEF Wakes
  <2> QED
    BY <2>1, <2>2, HandleCovers, Zenon
<1> QED
  BY <1>1, <1>2, <1>3, <1>4, Zenon

\* A step that adds events, and changes nothing that i is built from, or adds
\* an event that accounts for i.
LEMMA ChangeCovers ==
  ASSUME Types, NEW i \in Ingresses, Covered(i), UNCHANGED <<queueVars, pc, snap, built>>,
         \A k \in Kinds : Elements(events[k]) \subseteq Elements(events'[k]),
         NEW c, Current(i) = c, Current(i)' = c, Lagging(i) => Lagging(i)',
         c # None /\ serviceStore[c.service] # None => serviceStore'[c.service] # None \/ Awaited(i)',
         \/ Awaited(i)'
         \/ c # None => /\ secretStore'[c.secret] = secretStore[c.secret]
                        /\ serviceStore'[c.service] = serviceStore[c.service]
                        /\ EndpointsOf(c.service)' = EndpointsOf(c.service)
  PROVE  Covered(i)'
<1>1. ASSUME Foreign(i) \/ Lagging(i) \/ i \in pending \cup later PROVE Covered(i)'
  BY <1>1, Zenon DEF Covered, Foreign, IsEnvoy, queueVars
<1>2. ASSUME Awaited(i) PROVE Covered(i)'
  <2>1. PICK k \in Kinds : \E e \in Elements(events[k]) : Wakes(k, e, i)
    BY <1>2, Zenon DEF Awaited
  <2>2. PICK e \in Elements(events[k]) : Wakes(k, e, i)
    BY <2>1, Zenon
  <2>3. Wakes(k, e, i)' \/ Awaited(i)'
    BY <2>2, Zenon DEF Wakes
  <2> QED
    BY <2>2, <2>3, Zenon DEF Covered, Awaited
<1>3. ASSUME Settled(i) PROVE Covered(i)'
  BY <1>3, SameSettled, Zenon DEF Covered
<1> QED
  BY <1>1, <1>2, <1>3, Zenon DEF Covered

LEMMA ObjectStep ==
  ASSUME Types, NEW i \in Ingresses, Covered(i),
         \/ \E s \in Services, o \in ServiceObjects \cup {None} : ChangeService(s, o)
         \/ \E s \in Services, o \in EndpointObjects \cup {None} : ChangeEndpoints(s, o)
         \/ \E t \in Secrets, o \in SecretObjects \cup {None} : ChangeSecret(t, o)
  PROVE  Covered(i)'
<1> DEFINE c == Current(i)
<1>0. c # None => c.service \in Services /\ c.secret \in Secrets
  BY CurrentListed, SnapshotFields, Zenon
<1>1. ASSUME UNCHANGED ingressStore PROVE Current(i)' = c /\ (Lagging(i) => Lagging(i)')
  BY <1>1, Zenon DEF Current, Lagging
<1>2. ASSUME NEW s \in Services, NEW o \in ServiceObjects \cup {None}, ChangeService(s, o)
      PROVE  Covered(i)'
  <2>1. /\ UNCHANGED <<queueVars, pc, snap, built, ingressStore, secretStore, endpointStore>>
        /\ Current(i)' = c /\ (Lagging(i) => Lagging(i)')
    BY <1>1, <1>2, Zenon DEF ChangeService, workerVars
  <2>2. /\ \A k \in Kinds : Elements(events[k]) \subseteq Elements(events'[k])
        /\ \E e \in Elements(events'["service"]) : e[1] = s
    BY <1>2, ChangesTold, Zenon DEF Tells
  <2>3. CASE c # None /\ c.service = s
    <3>1. PICK e \in Elements(events'["service"]) : e[1] = s
      BY <2>2, Zenon
    <3>2. Wakes("service", e, i)'
      BY <2>1, <2>3, <3>1, Zenon DEF Wakes
    <3>3. Awaited(i)'
      BY <3>1, <3>2, Zenon DEF Awaited, Kinds
    <3> QED
      BY <2>1, <2>2, <3>3, ChangeCovers, Zenon
  <2>4. CASE ~(c # None /\ c.service = s)
    <3>1. c # None => /\ serviceStore'[c.service] = serviceStore[c.service]
                      /\ EndpointsOf(c.service)' = EndpointsOf(c.service)
      BY <1>0, <1>2, <2>1, <2>4, Zenon DEF ChangeService, EndpointsOf, Types, StoreTypes
    <3> QED
      BY <2>1, <2>2, <3>1, ChangeCovers, Zenon
  <2> QED
    BY <2>3, <2>4, Zenon
<1>3. ASSUME NEW s \in Services, NEW o \in EndpointObjects \cup {None}, ChangeEndpoints(s, o)
      PROVE  Covered(i)'
  <2>1. /\ UNCHANGED <<queueVars, pc, snap, built, ingressStore, secretStore, serviceStore>>
        /\ Current(i)' = c /\ (Lagging(i) => Lagging(i)')
    BY <1>1, <1>3, Zenon DEF ChangeEndpoints, workerVars
  <2>2. /\ \A k \in Kinds : Elements(events[k]) \subseteq Elements(events'[k])
        /\ \E e \in Elements(events'["endpoints"]) : e[1] = s
    BY <1>3, ChangesTold, Zenon DEF Tells
  <2>3. CASE c # None /\ c.service = s /\ serviceStore[s] # None
    <3>1. PICK e \in Elements(events'["endpoints"]) : e[1] = s
      BY <2>2, Zenon
    <3>2. Wakes("endpoints", e, i)'
      BY <2>1, <2>3, <3>1, Zenon DEF Wakes
    <3>3. Awaited(i)'
      BY <3>1, <3>2, Zenon DEF Awaited, Kinds
    <3> QED
      BY <2>1, <2>2, <3>3, ChangeCovers, Zenon
  <2>4. CASE ~(c # None /\ c.service = s /\ serviceStore[s] # None)
    <3>1. c # None => EndpointsOf(c.service)' = EndpointsOf(c.service)
      BY <1>0, <1>3, <2>1, <2>4, Zenon DEF ChangeEndpoints, EndpointsOf, Types, StoreTypes
    <3> QED
      BY <2>1, <2>2, <3>1, ChangeCovers, Zenon
  <2> QED
    BY <2>3, <2>4, Zenon
<1>4. ASSUME NEW t \in Secrets, NEW o \in SecretObjects \cup {None}, ChangeSecret(t, o)
      PROVE  Covered(i)'
  <2>1. /\ UNCHANGED <<queueVars, pc, snap, built, ingressStore, endpointStore, serviceStore>>
        /\ Current(i)' = c /\ (Lagging(i) => Lagging(i)')
    BY <1>1, <1>4, Zenon DEF ChangeSecret, workerVars
  <2>2. /\ \A k \in Kinds : Elements(events[k]) \subseteq Elements(events'[k])
        /\ \E e \in Elements(events'["secret"]) : e[1] = t
    BY <1>4, ChangesTold, Zenon DEF Tells
  <2>3. c # None => EndpointsOf(c.service)' = EndpointsOf(c.service)
    BY <2>1, Zenon DEF EndpointsOf
  <2>4. CASE c # None /\ c.secret = t
    <3>1. PICK e \in Elements(events'["secret"]) : e[1] = t
      BY <2>2, Zenon
    <3>2. Wakes("secret", e, i)'
      BY <2>1, <2>4, <3>1, Zenon DEF Wakes
    <3>3. Awaited(i)'
      BY <3>1, <3>2, Zenon DEF Awaited, Kinds
    <3> QED
      BY <2>1, <2>2, <3>3, ChangeCovers, Zenon
  <2>5. CASE ~(c # None /\ c.secret = t)
    <3>1. c # None => secretStore'[c.secret] = secretStore[c.secret]
      BY <1>0, <1>4, <2>5, Zenon DEF ChangeSecret, Types, StoreTypes
    <3> QED
      BY <2>1, <2>2, <2>3, <3>1, ChangeCovers, Zenon
  <2> QED
    BY <2>4, <2>5, Zenon
<1> QED
  BY <1>2, <1>3, <1>4, Zenon

\* The informer of a version tells of a change of j: the handler will enqueue
\* j, or the current j is of another class, or v1 still has to come.
LEMMA ReceiveStep ==
  ASSUME Types, Telling, NEW i \in Ingresses, Covered(i),
         NEW v \in Versions, NEW j \in Ingresses, Receive(v, j)
  PROVE  Covered(i)'
<1>0. PICK a, b : a = ingressStore[v][j] /\ b = api[j]
  BY Zenon
<1> DEFINE e == <<j, a, b>>
<1>1. /\ UNCHANGED <<queueVars, pc, snap, built, secretStore, endpointStore, serviceStore>>
      /\ a # b /\ ingressStore'[v][j] = b
      /\ a \in IngressObjects \cup {None} /\ b \in IngressObjects \cup {None}
      /\ \A u \in Versions, n \in Ingresses :
           u # v \/ n # j => ingressStore'[u][n] = ingressStore[u][n]
  BY <1>0, Zenon DEF Receive, workerVars, Types, StoreTypes
<1>2. /\ \A k \in Kinds : Elements(events[k]) \subseteq Elements(events'[k])
      /\ e \in Elements(events'[v]) /\ v \in Kinds
  BY <1>0, AddEvent, Announcements, VersionKinds DEF Receive, Types
<1>3. ASSUME Current(i)' = Current(i), Lagging(i) => Lagging(i)' PROVE Covered(i)'
  <2>1. \A s : EndpointsOf(s)' = EndpointsOf(s)
    BY <1>1, Zenon DEF EndpointsOf
  <2> QED
    BY <1>1, <1>2, <1>3, <2>1, ChangeCovers, Zenon
<1>4. CASE i # j
  <2>1. Current(i)' = Current(i) /\ (Lagging(i) => Lagging(i)')
    BY <1>1, <1>4, Zenon DEF Current, Lagging
  <2> QED
    BY <1>3, <2>1, Zenon
<1>5. CASE i = j
  <2>1. ASSUME i \in IngressKeys(v, j, a, b) PROVE Covered(i)'
    <3>1. Wakes(v, e, i)'
      BY <1>5, <2>1, Zenon DEF Wakes
    <3> QED
      BY <1>2, <3>1, Zenon DEF Covered, Awaited
  <2>2. b = None \/ (b.envoy /\ (a = None \/ v = "v1")) => i \in IngressKeys(v, j, a, b)
    BY <1>1, <1>5, Zenon DEF IngressKeys, updateIngress
  <2>3. CASE v = "v1"
    <3>1. b # None => Current(i)' = b
      BY <1>1, <1>5, <2>3, Zenon DEF Current
    <3>2. b # None /\ ~b.envoy => Foreign(i)'
      BY <3>1, Zenon DEF Foreign, IsEnvoy
    <3> QED
      BY <2>1, <2>2, <2>3, <3>2, Zenon DEF Covered
  <2>4. CASE v # "v1" /\ "v1" \in Versions
    <3>1. v = "v1beta1"
      BY <2>4, VersionsAssumption, Zenon
    <3>2. ingressStore'["v1"][i] = ingressStore["v1"][i]
      BY <1>1, <2>4, Zenon
    <3>3. CASE ingressStore["v1"][i] = None /\ b # None
      <4>1. Lagging(i)'
        BY <1>1, <1>5, <2>4, <3>1, <3>2, <3>3, Zenon DEF Lagging, Current
      <4> QED
        BY <4>1, Zenon DEF Covered
    <3>4. CASE ingressStore["v1"][i] # None
      <4>1. Current(i)' = Current(i) /\ ~Lagging(i)
        BY <2>4, <3>2, <3>4, Zenon DEF Lagging, Current
      <4> QED
        BY <1>3, <4>1, Zenon
    <3> QED
      BY <2>1, <2>2, <3>3, <3>4, Zenon
  <2>5. CASE "v1" \notin Versions
    <3>1. v = "v1beta1" /\ Current(i)' = b
      BY <1>1, <1>5, <2>5, VersionsAssumption, Zenon DEF Current
    <3>2. b # None /\ ~b.envoy => Foreign(i)'
      BY <3>1, Zenon DEF Foreign, IsEnvoy
    <3>3. ASSUME a # None, b # None, b.envoy PROVE i \in IngressKeys(v, j, a, b)
      <4>1. a.uid = b.uid => a.envoy
        BY <1>1, <2>5, <3>3, Zenon DEF Telling
      <4> QED
        BY <1>5, <3>1, <3>3, <4>1, Zenon DEF IngressKeys, updateIngress
    <3> QED
      BY <2>1, <2>2, <3>2, <3>3, Zenon DEF Covered
  <2> QED
    BY <2>3, <2>4, <2>5, Zenon
<1> QED
  BY <1>4, <1>5, Zenon

\* Steps of worker w that leave the queue of events alone: the keys that wait
\* keep waiting, and what accounts for an ingress still does.
LEMMA WaitingCovers ==
  ASSUME NEW i, UNCHANGED <<storeVars, events>>,
         i \in pending \cup later => i \in pending' \cup later' \/ Settled(i)',
         Settled(i) => Settled(i)' \/ i \in later'
  PROVE  Covered(i) => Covered(i)'
<1>1. Awaited(i) => Awaited(i)'
  BY StoresSame, Zenon DEF Awaited
<1> QED
  BY <1>1, StoresSame, Zenon DEF Covered

\* Worker w does not hold i before the step nor after it.
LEMMA OtherSettled ==
  ASSUME WorkTypes, NEW w \in Workers, NEW i, UNCHANGED storeVars,
         busy' \in [Workers -> Ingresses \cup {None}], busy[w] # i, busy'[w] # i,
         \A u \in Workers \ {w} : busy'[u] = busy[u] /\ pc'[u] = pc[u] /\ snap'[u] = snap[u],
         built'[i] = built[i], i # None
  PROVE  Settled(i) => Settled(i)'
<1> SUFFICES ASSUME Settled(i) PROVE Settled(i)'
  BY Zenon
<1>1. Current(i)' = Current(i) /\ Fresh(i)' = Fresh(i)
  BY StoresSame, Zenon
<1>2. ASSUME NEW u \in Workers \ {w}, NEW c, Reads(u, c) PROVE Reads(u, c)'
  BY <1>2, Zenon DEF Reads, EndpointsOf, storeVars
<1>3. ASSUME NEW u \in Workers, busy'[u] = i PROVE Reads(u, Current(i))'
  BY <1>1, <1>2, <1>3, Zenon DEF Settled
<1>4. i \in Q!Held => i \in Q!Held'
  BY Zenon DEF Q!Held
<1> QED
  BY <1>1, <1>3, <1>4, Zenon DEF Settled

\* Worker w reads on.
LEMMA ReadSettled ==
  ASSUME WorkTypes, NEW w \in Workers, NEW i, UNCHANGED <<storeVars, queueVars, built>>,
         \A u \in Workers \ {w} : pc'[u] = pc[u] /\ snap'[u] = snap[u],
         NEW c, Current(i) = c, busy[w] = i /\ Reads(w, c) => Reads(w, c)'
  PROVE  Settled(i) => Settled(i)'
<1> SUFFICES ASSUME Settled(i) PROVE Settled(i)'
  BY Zenon
<1>1. Current(i)' = c /\ Fresh(i)' = Fresh(i)
  BY StoresSame, Zenon
<1>2. ASSUME NEW u \in Workers \ {w}, Reads(u, c) PROVE Reads(u, c)'
  BY <1>2, Zenon DEF Reads, EndpointsOf, storeVars
<1>3. busy' = busy /\ Q!Held' = Q!Held
  BY Zenon DEF queueVars, Q!Held
<1> QED
  BY <1>1, <1>2, <1>3, Zenon DEF Settled

\* Worker w is done with its key and has left what it built.
LEMMA DoneSettled ==
  ASSUME Types, NEW w \in Workers, busy[w] \in Ingresses, UNCHANGED storeVars, Q!Finish(w),
         \A u \in Workers \ {w} : pc'[u] = pc[u] /\ snap'[u] = snap[u],
         \A j \in Ingresses : j # busy[w] => built'[j] = built[j],
         Settled(busy[w]) => built'[busy[w]] = Fresh(busy[w]),
         NEW i \in Ingresses
  PROVE  Settled(i) => Settled(i)'
<1>0. /\ busy' \in [Workers -> Ingresses \cup {None}] /\ busy'[w] = None
      /\ \A u \in Workers \ {w} : busy'[u] = busy[u]
      /\ None \notin Ingresses
  BY NoneIsNothing, Zenon DEF Types, WorkTypes, Q!Finish
<1>1. CASE i # busy[w]
  BY <1>0, <1>1, OtherSettled, Zenon DEF Types
<1>2. ASSUME i = busy[w], Settled(i) PROVE Settled(i)'
  <2>1. Current(i)' = Current(i) /\ Fresh(i)' = Fresh(i)
    BY StoresSame, Zenon
  <2>2. ASSUME NEW u \in Workers \ {w}, NEW c, Reads(u, c) PROVE Reads(u, c)'
    BY <2>2, Zenon DEF Reads, EndpointsOf, storeVars
  <2>3. ASSUME NEW u \in Workers, busy'[u] = i PROVE Reads(u, Current(i))'
    BY <1>0, <1>2, <2>1, <2>2, <2>3, Zenon DEF Settled
  <2>4. built'[i] = Fresh(i)'
    BY <1>2, <2>1, Zenon
  <2> QED
    BY <2>3, <2>4, Zenon DEF Settled
<1> QED
  BY <1>1, <1>2, Zenon

LEMMA WorkStep ==
  ASSUME Types, NEW i \in Ingresses, Covered(i), NEW w \in Workers, Work(w)
  PROVE  Covered(i)'
<1>0. PICK c : c = Current(i)
  BY Zenon
<1>1. ASSUME LookupDeleted(w) PROVE Covered(i)'
  <2>1. /\ UNCHANGED <<storeVars, events, pending, later>> /\ Q!Finish(w)
        /\ busy[w] \in Ingresses /\ Fresh(busy[w]) = None
        /\ \A u \in Workers \ {w} : pc'[u] = pc[u] /\ snap'[u] = snap[u]
    BY <1>1, Zenon DEF LookupDeleted, Q!Finish, Types, WorkTypes, AtHand, Fresh
  <2>2. built'[busy[w]] = None /\ \A j \in Ingresses : j # busy[w] => built'[j] = built[j]
    BY <1>1, <2>1, Zenon DEF LookupDeleted, Types, WorkTypes
  <2>3. Settled(i) => Settled(i)'
    BY <2>1, <2>2, DoneSettled, Zenon
  <2> QED
    BY <2>1, <2>3, WaitingCovers, Zenon
<1>2. ASSUME LookupForeign(w) PROVE Covered(i)'
  <2>1. /\ UNCHANGED <<storeVars, events, pending, built>> /\ later' = later \cup {busy[w]}
        /\ busy' \in [Workers -> Ingresses \cup {None}] /\ busy'[w] = None
        /\ \A u \in Workers \ {w} : busy'[u] = busy[u] /\ pc'[u] = pc[u] /\ snap'[u] = snap[u]
    BY <1>2, Zenon DEF LookupForeign, Q!RetryAndFinish, Types, WorkTypes
  <2>2. i # busy[w] => (Settled(i) => Settled(i)')
    BY <2>1, OtherSettled, NoneIsNothing, Zenon DEF Types
  <2> QED
    BY <2>1, <2>2, WaitingCovers, Zenon
<1>3. ASSUME LookupEnvoy(w) PROVE Covered(i)'
  <2>1. /\ UNCHANGED <<storeVars, events, queueVars, built>>
        /\ \A u \in Workers \ {w} : pc'[u] = pc[u] /\ snap'[u] = snap[u]
    BY <1>3, Zenon DEF LookupEnvoy, Types, WorkTypes
  <2>2. busy[w] = i => Reads(w, c)'
    BY <1>0, <1>3, Zenon DEF LookupEnvoy, IsEnvoy, Reads, Types, WorkTypes
  <2>3. Settled(i) => Settled(i)'
    BY <1>0, <2>1, <2>2, ReadSettled, Zenon DEF Types
  <2> QED
    BY <2>1, <2>3, WaitingCovers, Zenon DEF queueVars
<1>4. ASSUME ReadSecrets(w) PROVE Covered(i)'
  <2>1. /\ UNCHANGED <<storeVars, events, queueVars, built>>
        /\ \A u \in Workers \ {w} : pc'[u] = pc[u] /\ snap'[u] = snap[u]
    BY <1>4, Zenon DEF ReadSecrets, Types, WorkTypes
  <2>2. snap[w] \in Snapshot
    BY <1>4, Zenon DEF ReadSecrets, Types, WorkTypes, AtHand
  <2>3. /\ pc'[w] = "endpoints" /\ snap'[w].ingress = snap[w].ingress
        /\ snap'[w].secret = secretStore[snap[w].ingress.secret]
    BY <1>4, <2>2, Zenon DEF ReadSecrets, Types, WorkTypes, Snapshot
  <2>4. Reads(w, c) => Reads(w, c)'
    BY <1>4, <2>1, <2>3, Zenon DEF ReadSecrets, Reads, storeVars
  <2>5. Settled(i) => Settled(i)'
    BY <1>0, <2>1, <2>4, ReadSettled, Zenon DEF Types
  <2> QED
    BY <2>1, <2>5, WaitingCovers, Zenon DEF queueVars
<1>5. ASSUME ReadEndpoints(w) PROVE Covered(i)'
  <2>1. /\ UNCHANGED <<storeVars, events, queueVars, built>>
        /\ \A u \in Workers \ {w} : pc'[u] = pc[u] /\ snap'[u] = snap[u]
    BY <1>5, Zenon DEF ReadEndpoints, Types, WorkTypes
  <2>2. snap[w] \in Snapshot
    BY <1>5, Zenon DEF ReadEndpoints, Types, WorkTypes, AtHand
  <2>3. /\ pc'[w] = "clusters" /\ snap'[w].ingress = snap[w].ingress
        /\ snap'[w].secret = snap[w].secret
        /\ snap'[w].service = serviceStore[snap[w].ingress.service]
        /\ snap'[w].endpoints = EndpointsOf(snap[w].ingress.service)
    BY <1>5, <2>2, Zenon DEF ReadEndpoints, Types, WorkTypes, Snapshot
  <2>4. Reads(w, c) => Reads(w, c)'
    BY <1>5, <2>1, <2>3 DEF ReadEndpoints, Reads, EndpointsOf, storeVars
  <2>5. Settled(i) => Settled(i)'
    BY <1>0, <2>1, <2>4, ReadSettled, Zenon DEF Types
  <2> QED
    BY <2>1, <2>5, WaitingCovers, Zenon DEF queueVars
<1>6. ASSUME ReadClusters(w) PROVE Covered(i)'
  <2>1. /\ UNCHANGED <<storeVars, events, queueVars, built>>
        /\ \A u \in Workers \ {w} : pc'[u] = pc[u] /\ snap'[u] = snap[u]
    BY <1>6, Zenon DEF ReadClusters, Types, WorkTypes
  <2>2. snap[w] \in Snapshot
    BY <1>6, Zenon DEF ReadClusters, Types, WorkTypes, AtHand
  <2>3. /\ pc'[w] = "write" /\ snap'[w].ingress = snap[w].ingress
        /\ snap'[w].secret = snap[w].secret /\ snap'[w].service = snap[w].service
        /\ snap'[w].endpoints = snap[w].endpoints
        /\ snap'[w].again = serviceStore[snap[w].ingress.service]
    BY <1>6, <2>2, Zenon DEF ReadClusters, Types, WorkTypes, Snapshot
  <2>4. Reads(w, c) => Reads(w, c)'
    BY <1>6, <2>1, <2>3, Zenon DEF ReadClusters, Reads, EndpointsOf, storeVars
  <2>5. Settled(i) => Settled(i)'
    BY <1>0, <2>1, <2>4, ReadSettled, Zenon DEF Types
  <2> QED
    BY <2>1, <2>5, WaitingCovers, Zenon DEF queueVars
<1>7. ASSUME WriteResources(w) PROVE Covered(i)'
  <2>1. /\ UNCHANGED <<storeVars, events, pending, later>> /\ Q!Finish(w)
        /\ busy[w] \in Ingresses /\ snap[w] \in Snapshot
        /\ \A u \in Workers \ {w} : pc'[u] = pc[u] /\ snap'[u] = snap[u]
    BY <1>7, Zenon DEF WriteResources, Q!Finish, Types, WorkTypes, AtHand
  <2>2. built'[busy[w]] = snap[w] /\ \A j \in Ingresses : j # busy[w] => built'[j] = built[j]
    BY <1>7, <2>1, Zenon DEF WriteResources, Types, WorkTypes
  <2>3. ASSUME Settled(busy[w]) PROVE snap[w] = Fresh(busy[w])
    <3>1. Reads(w, Current(busy[w]))
      BY <2>3, Zenon DEF Settled
    <3>2. /\ Current(busy[w]) # None /\ snap[w].ingress = Current(busy[w])
          /\ snap[w].secret = secretStore[Current(busy[w]).secret]
          /\ snap[w].service = serviceStore[Current(busy[w]).service]
          /\ snap[w].again = serviceStore[Current(busy[w]).service]
          /\ snap[w].endpoints = EndpointsOf(Current(busy[w]).service)
      BY <1>7, <3>1, Zenon DEF WriteResources, Reads
    <3> QED
      BY <2>1, <3>2, Zenon DEF Fresh, Snapshot
  <2>4. Settled(i) => Settled(i)'
    BY <2>1, <2>2, <2>3, DoneSettled, Zenon
  <2> QED
    BY <2>1, <2>4, WaitingCovers, Zenon
<1> QED
  BY <1>1, <1>2, <1>3, <1>4, <1>5, <1>6, <1>7, Zenon DEF Work

LEMMA GetStep ==
  ASSUME Types, NEW i \in Ingresses, Covered(i), NEW w \in Workers, NEW j \in Ingresses, Get(w, j)
  PROVE  Covered(i)'
<1>1. /\ UNCHANGED <<storeVars, events, later, snap, built>> /\ pending' = pending \ {j}
      /\ j \notin Q!Held /\ busy[w] = None /\ pc'[w] = "lookup" /\ busy'[w] = j
      /\ busy' \in [Workers -> Ingresses \cup {None}] /\ None \notin Ingresses
      /\ \A u \in Workers \ {w} : busy'[u] = busy[u] /\ pc'[u] = pc[u] /\ snap'[u] = snap[u]
  BY NoneIsNothing, Zenon DEF Get, Q!Take, Types, WorkTypes
<1>2. CASE i = j
  <2>1. \A u \in Workers : busy'[u] = i => u = w
    BY <1>1, <1>2, Zenon DEF Q!Held
  <2>2. \A c : Reads(w, c)'
    BY <1>1, Zenon DEF Reads
  <2>3. i \in Q!Held'
    BY <1>1, <1>2, Zenon DEF Q!Held
  <2>4. Settled(i)'
    BY <2>1, <2>2, <2>3, Zenon DEF Settled
  <2> QED
    BY <2>4, Zenon DEF Covered
<1>3. CASE i # j
  <2>1. Settled(i) => Settled(i)'
    BY <1>1, <1>3, OtherSettled, Zenon DEF Types
  <2> QED
    BY <1>1, <1>3, <2>1, WaitingCovers, Zenon
<1> QED
  BY <1>2, <1>3, Zenon

\* Steps that change neither the informers' stores nor what the workers do.
LEMMA IdleStep ==
  ASSUME Types, NEW i \in Ingresses, Covered(i),
         \/ UNCHANGED vars
         \/ \E j \in Ingresses, o \in IngressObjects \cup {None} : ChangeIngress(j, o)
         \/ Release
  PROVE  Covered(i)'
<1>1. /\ UNCHANGED <<ingressStore, serviceStore, endpointStore, secretStore, events, busy, pc, snap,
                     built>>
      /\ pending \cup later \subseteq pending' \cup later'
  BY Zenon DEF vars, storeVars, queueVars, workerVars, ChangeIngress, Release, Q!Ripen
<1>2. /\ Current(i)' = Current(i) /\ Q!Held' = Q!Held
      /\ \A s : EndpointsOf(s)' = EndpointsOf(s)
  BY <1>1, Zenon DEF Current, Q!Held, EndpointsOf
<1>3. Fresh(i)' = Fresh(i) /\ (Foreign(i) => Foreign(i)') /\ (Lagging(i) => Lagging(i)')
  BY <1>1, <1>2, Zenon DEF Fresh, Foreign, IsEnvoy, Lagging
<1>4. ASSUME NEW k, NEW e, Wakes(k, e, i) PROVE Wakes(k, e, i)'
  BY <1>1, <1>2, <1>4, Zenon DEF Wakes
<1>5. Awaited(i) => Awaited(i)'
  BY <1>1, <1>4, Zenon DEF Awaited
<1>6. ASSUME NEW w \in Workers, NEW c, Reads(w, c) PROVE Reads(w, c)'
  BY <1>1, <1>2, <1>6, Zenon DEF Reads
<1>7. Settled(i) => Settled(i)'
  BY <1>1, <1>2, <1>3, <1>6, Zenon DEF Settled
<1> QED
  BY <1>1, <1>3, <1>5, <1>7, Zenon DEF Covered

LEMMA BuiltStep ==
  ASSUME Types, Telling, BuiltInv, [Next]_vars
  PROVE  BuiltInv'
<1> SUFFICES ASSUME NEW i \in Ingresses, Covered(i) PROVE Covered(i)'
  BY Zenon DEF BuiltInv
<1> USE IdleStep, ObjectStep, ReceiveStep, HandleStep, WorkStep, GetStep
<1>1. CASE Handle
  BY <1>1, Zenon DEF Handle
<1>2. CASE ~Handle
  BY <1>2, Zenon DEF Next
<1> QED
  BY <1>1, <1>2, Zenon

LEMMA BuiltInit == Init => BuiltInv
<1> SUFFICES ASSUME Init, NEW i \in Ingresses PROVE Settled(i)
  BY Zenon DEF BuiltInv, Covered
<1>1. Current(i) = None
  BY Zenon DEF Init, Current
<1>2. Fresh(i) = built[i]
  BY <1>1, Zenon DEF Fresh, Init
<1>3. ASSUME NEW w \in Workers PROVE busy[w] # i
  BY NoneIsNothing, Zenon DEF Init, Q!KWInit
<1> QED
  BY <1>2, <1>3, Zenon DEF Settled

\* When the informers are done, none is behind the API server.
LEMMA BuiltInvSuffices ==
  ASSUME Types, BuiltInv
  PROVE  BuiltFromStores
<1> SUFFICES ASSUME \A k \in Kinds : events[k] = << >>, \A v \in Versions : ingressStore[v] = api,
                    NEW i \in Ingresses, i \notin pending \cup later \cup Q!Held, ~Foreign(i)
             PROVE  built[i] = Fresh(i)
  BY Zenon DEF BuiltFromStores
<1>1. ~Awaited(i)
  <2>1. \A k \in Kinds : Elements(events[k]) = {}
    BY DEF Elements
  <2> QED
    BY <2>1, Zenon DEF Awaited
<1>2. ~Lagging(i)
  BY VersionsAssumption, Zenon DEF Lagging, Current
<1> QED
  BY <1>1, <1>2, Zenon DEF BuiltInv, Covered, Settled

\* The listers, the event queues, the work queue and the workers' reads of
\* syncEnvoyIngress have their types, and a worker has a snapshot exactly
\* between its lookup and its write.
THEOREM EventTypesHold == Spec => []TypeOK
<1>1. Init => Types
  BY TypesInit, Zenon
<1>2. Types /\ [Next]_vars => Types'
  BY TypesStep, Zenon
<1>3. Types => TypeOK
  BY TypesAreTypeOK, Zenon
<1> QED
  BY <1>1, <1>2, <1>3, PTL DEF Spec

\* No change is lost between the handlers of the informers and the workers of
\* syncEnvoyIngress, whatever the numbers of ingresses, services, secrets and
\* workers and the order of events: when all informers have caught up, an
\* envoy ingress that nobody holds or queues was built from what the stores
\* have.  updateService passes over a change that keeps the selector and
\* services without one, and updateV1beta1Ingress exchanges the old and the
\* new ingress; Telling leaves these changes out.
THEOREM NoChangeLost ==
  ASSUME Telling
  PROVE  Spec => []BuiltFromStores
<1>1. Init => Types /\ BuiltInv
  BY TypesInit, BuiltInit, Zenon
<1>2. Types /\ BuiltInv /\ [Next]_vars => (Types /\ BuiltInv)'
  BY TypesStep, BuiltStep, Zenon
<1>3. Types /\ BuiltInv => BuiltFromStores
  BY BuiltInvSuffices, Zenon
<1> QED
  BY <1>1, <1>2, <1>3, PTL DEF Spec
=============================================================================
