-------------------------- MODULE IngressSyncProofs -------------------------
(***************************************************************************)
(* Proofs about IngressSync, for any number of ingresses, resources,       *)
(* workers, changes and API versions.  The inductive invariant is          *)
(* InductiveInv.  IngressSyncOwners has the first of its parts; here are   *)
(* DispatchInv, by which the edge has been told, or will be, what the store*)
(* holds, and SyncInv, by which the store holds, or will hold, what an     *)
(* ingress asks for.  The theorems at the end read the properties off.     *)
(***************************************************************************)
EXTENDS IngressSyncOwners

USE DEF informerVars, startVars, storeVars, nameVars, lockVars, iqVars, rqVars, iwVars, dwVars

(* The dispatch workers: what the edge was told.                           *)

dispatchVars == <<resourceStore, IngressRef, Spec, NodeGroup, rPending, rBusy, rLater,
                  dpc, dmsg, sent>>

\* What worker d, at its present step, does for the resource r it holds.
Tending(d, r) ==
  \/ dpc[d] \in {"rlock", "reading", "failed"}
  \/ dpc[d] = "send" /\ Tells(dmsg[d], r)
  \/ dpc[d] = "ok" /\ Tells(sent[r], r)

LEMMA ToldCases ==
  ASSUME NEW r
  PROVE  Told(r) <=> \/ r \in rPending \cup rLater
                     \/ r \notin RQ!Held /\ Tells(sent[r], r)
                     \/ \E d \in DispatchWorkers : rBusy[d] = r /\ Tending(d, r)
  BY Zenon DEF Told, Tending

\* The worker that holds a resource is the one that tends it.
LEMMA HolderTends ==
  ASSUME DispatchInv, NEW d \in DispatchWorkers, rBusy[d] \in Resources,
         rBusy[d] \notin rPending \cup rLater
  PROVE  Tending(d, rBusy[d])
<1>1. Told(rBusy[d])
  BY Zenon DEF DispatchInv
<1>2. rBusy[d] # None
  BY NoneIsNoKey, Zenon
<1>3. rBusy[d] \in RQ!Held
  BY <1>2, Zenon DEF RQ!Held
<1>4. PICK c \in DispatchWorkers : rBusy[c] = rBusy[d] /\ Tending(c, rBusy[d])
  BY <1>1, <1>3, ToldCases, Zenon
<1>5. c = d
  BY <1>2, <1>4, Zenon DEF DispatchInv
<1> QED
  BY <1>4, <1>5, Zenon

\* A step of an ingress worker: it may queue more resources, and a message
\* that told the edge about a resource it does not queue still does.
LEMMA DispatchKeeps ==
  ASSUME DispatchInv, UNCHANGED <<rBusy, dwVars>>,
         rPending \cup rLater \subseteq rPending' \cup rLater',
         \A r \in Resources \ rPending' : \A m : Tells(m, r) => Tells(m, r)'
  PROVE  DispatchInv'
<1>u. rBusy' = rBusy /\ dpc' = dpc /\ dmsg' = dmsg /\ sent' = sent
  BY Zenon DEF dwVars
<1>1. ASSUME NEW r \in Resources PROVE Told(r)'
  <2>1. CASE r \in rPending' \cup rLater'
    BY <2>1, Zenon DEF Told
  <2>2. CASE r \notin rPending' \cup rLater'
    <3>1. r \notin rPending \cup rLater
      BY <2>2, Zenon
    <3>2. \A m : Tells(m, r) => Tells(m, r)'
      BY <2>2, Zenon
    <3>3. Told(r)
      BY Zenon DEF DispatchInv
    <3>4. Tells(sent[r], r) => Tells(sent[r], r)'
      BY <1>u, <3>2, Zenon DEF Tells
    <3>5. \A d \in DispatchWorkers : Tending(d, r) => Tending(d, r)'
      <4> TAKE d \in DispatchWorkers
      <4>1. Tells(dmsg[d], r) => Tells(dmsg[d], r)'
        BY <1>u, <3>2, Zenon DEF Tells
      <4> QED
        BY <1>u, <3>4, <4>1, Zenon DEF Tending
    <3>6. RQ!Held' = RQ!Held
      BY <1>u, Zenon DEF RQ!Held
    <3>7. CASE r \notin RQ!Held /\ Tells(sent[r], r)
      BY <3>4, <3>6, <3>7, Zenon DEF Told
    <3>8. ASSUME NEW d \in DispatchWorkers, rBusy[d] = r, Tending(d, r) PROVE Told(r)'
      <4>1. rBusy'[d] = r /\ Tending(d, r)'
        BY <1>u, <3>5, <3>8, Zenon
      <4> QED
        BY <4>1, Zenon DEF Told, Tending
    <3> QED
      BY <3>1, <3>3, <3>7, <3>8, ToldCases, Zenon
  <2> QED
    BY <2>1, <2>2, Zenon
<1>2. (\A c, d \in DispatchWorkers : rBusy[c] = rBusy[d] /\ rBusy[c] # None => c = d)'
  BY <1>u, Zenon DEF DispatchInv
<1>3. (\A d \in DispatchWorkers : rBusy[d] = None <=> dpc[d] = "idle")'
  BY <1>u, Zenon DEF DispatchInv
<1> QED
  BY <1>1, <1>2, <1>3, Zenon DEF DispatchInv

LEMMA DispatchUnchanged == DispatchInv /\ UNCHANGED dispatchVars => DispatchInv'
<1> SUFFICES ASSUME DispatchInv, UNCHANGED dispatchVars PROVE DispatchInv'
  BY Zenon
<1>1. \A r \in Resources \ rPending' : \A m : Tells(m, r) => Tells(m, r)'
  BY Zenon DEF Tells, dispatchVars
<1>2. UNCHANGED <<rBusy, dwVars>> /\ rPending \cup rLater \subseteq rPending' \cup rLater'
  BY Zenon DEF dispatchVars, dwVars
<1> QED
  BY <1>1, <1>2, DispatchKeeps, Zenon

\* A step of dispatch worker e on resource s leaves the other resources alone.
LEMMA ToldElsewhere ==
  ASSUME DispatchInv, NEW e \in DispatchWorkers, NEW s, NEW r \in Resources \ {s},
         rBusy[e] \in {s, None}, rBusy'[e] \in {s, None},
         \A d \in DispatchWorkers \ {e} :
           rBusy'[d] = rBusy[d] /\ dpc'[d] = dpc[d] /\ dmsg'[d] = dmsg[d],
         r \in rPending \cup rLater => r \in rPending' \cup rLater',
         sent'[r] = sent[r],
         r \in resourceStore' <=> r \in resourceStore,
         UNCHANGED <<IngressRef, Spec, NodeGroup>>
  PROVE  Told(r)'
<1>1. r # None /\ r # s
  BY NoneIsNoKey, Zenon
<1>2. Tells(sent[r], r) => Tells(sent[r], r)'
  BY Zenon DEF Tells
<1>3. Told(r)
  BY Zenon DEF DispatchInv
<1>4. CASE r \in rPending \cup rLater
  BY <1>4, Zenon DEF Told
<1>5. CASE r \notin RQ!Held /\ Tells(sent[r], r)
  <2>1. r \notin RQ!Held'
    BY <1>1, <1>5 DEF RQ!Held
  <2> QED
    BY <1>2, <1>5, <2>1, Zenon DEF Told
<1>6. ASSUME NEW d \in DispatchWorkers, rBusy[d] = r, Tending(d, r) PROVE Told(r)'
  <2>1. d # e
    BY <1>1, <1>6, Zenon
  <2>2. rBusy'[d] = r /\ dpc'[d] = dpc[d] /\ dmsg'[d] = dmsg[d]
    BY <1>6, <2>1, Zenon
  <2>3. Tells(dmsg[d], r) => Tells(dmsg[d], r)'
    BY <2>2, Zenon DEF Tells
  <2>4. Tending(d, r)'
    BY <1>2, <1>6, <2>2, <2>3, Zenon DEF Tending
  <2> QED
    BY <2>2, <2>4, Zenon DEF Told, Tending
<1> QED
  BY <1>3, <1>4, <1>5, <1>6, ToldCases, Zenon

\* So do all its steps that hold on to the resource.
LEMMA ToldHere ==
  ASSUME DispatchInv, NEW e \in DispatchWorkers, rBusy[e] \in Resources, rBusy' = rBusy,
         dpc[e] # "idle", dpc'[e] # "idle", Tending(e, rBusy[e])' \/ rBusy[e] \in rPending \cup rLater,
         \A d \in DispatchWorkers \ {e} : dpc'[d] = dpc[d] /\ dmsg'[d] = dmsg[d],
         \A r \in Resources \ {rBusy[e]} :
           sent'[r] = sent[r] /\ (r \in resourceStore' <=> r \in resourceStore),
         UNCHANGED <<rPending, rLater, IngressRef, Spec, NodeGroup>>
  PROVE  DispatchInv'
<1>1. Told(rBusy[e])'
  <2>1. CASE rBusy[e] \in rPending \cup rLater
    <3>1. rBusy'[e] \in rPending' \cup rLater'
      BY <2>1, Zenon
    <3> QED
      BY <3>1, Zenon DEF Told
  <2>2. CASE Tending(e, rBusy[e])'
    BY <2>2, Zenon DEF Told, Tending
  <2> QED
    BY <2>1, <2>2, Zenon
<1>2. ASSUME NEW r \in Resources \ {rBusy[e]} PROVE Told(r)'
  <2>1. rBusy'[e] \in {rBusy[e], None}
    BY Zenon
  <2>2. \A d \in DispatchWorkers \ {e} :
          rBusy'[d] = rBusy[d] /\ dpc'[d] = dpc[d] /\ dmsg'[d] = dmsg[d]
    BY Zenon
  <2>3. r \in rPending \cup rLater => r \in rPending' \cup rLater'
    BY Zenon
  <2>4. sent'[r] = sent[r] /\ (r \in resourceStore' <=> r \in resourceStore)
    BY Zenon
  <2> QED
    BY <2>1, <2>2, <2>3, <2>4, ToldElsewhere, Zenon
<1>3. (\A c, d \in DispatchWorkers : rBusy[c] = rBusy[d] /\ rBusy[c] # None => c = d)'
  BY Zenon DEF DispatchInv
<1>4. (\A d \in DispatchWorkers : rBusy[d] = None <=> dpc[d] = "idle")'
  <2>1. ASSUME NEW d \in DispatchWorkers PROVE rBusy'[d] = None <=> dpc'[d] = "idle"
    <3>1. CASE d = e
      BY <3>1, NoneIsNoKey, Zenon
    <3>2. CASE d # e
      BY <3>2, Zenon DEF DispatchInv
    <3> QED
      BY <3>1, <3>2, Zenon
  <2> QED
    BY <2>1, Zenon
<1>5. ASSUME NEW r \in Resources PROVE Told(r)'
  <2>1. CASE r = rBusy[e]
    <3>1. r = rBusy'[e]
      BY <2>1, Zenon
    <3> QED
      BY <1>1, <3>1, Zenon
  <2>2. CASE r # rBusy[e]
    BY <1>2, <2>2, Zenon
  <2> QED
    BY <2>1, <2>2, Zenon
<1> QED
  BY <1>3, <1>4, <1>5, Zenon DEF DispatchInv

LEMMA DispatchStep ==
  ASSUME TypeOK, WorkerInv, DispatchInv, [Next]_vars
  PROVE  DispatchInv'
<1> DEFINE Typed ==
      /\ rBusy \in [DispatchWorkers -> Resources \cup {None}]
      /\ dpc \in [DispatchWorkers -> {"idle", "rlock", "reading", "send", "ok", "failed"}]
      /\ dmsg \in [DispatchWorkers -> Messages]
      /\ sent \in [Resources -> Messages]
      /\ IngressRef \in [Resources -> SUBSET Ingresses]
      /\ Spec \in [Resources -> Specs]
      /\ NodeGroup \in [Resources -> SUBSET Groups]
<1>0. Typed
  BY Zenon DEF TypeOK, RQ!KWTypeOK
<1> HIDE DEF Typed
<1>1. CASE \E k \in Ingresses, o \in Changes : Change(k, o)
  BY <1>1, DispatchUnchanged, Zenon DEF Change, dispatchVars
<1>2. CASE \E k \in Ingresses : Handle(k)
  BY <1>2, DispatchUnchanged, Zenon DEF Handle, dispatchVars
<1>3. CASE ListIngresses \/ StartWorkers
  BY <1>3, DispatchUnchanged, Zenon DEF ListIngresses, StartWorkers, dispatchVars
<1>4. ASSUME NEW v \in Versions, NEW k \in Ingresses, InitiateIngress(v, k)
      PROVE  DispatchInv'
  <2>1. \A r \in Resources \ rPending' : \A m : Tells(m, r) => Tells(m, r)'
    BY <1>0, <1>4, Zenon DEF InitiateIngress, Put, RQ!Add, Tells, Typed
  <2> QED
    BY <1>4, <2>1, DispatchKeeps, Zenon DEF InitiateIngress, RQ!Add
<1>5. ASSUME NEW w \in IngressWorkers, Insert(w) PROVE DispatchInv'
  <2>1. \A r \in Resources \ rPending' : \A m : Tells(m, r) => Tells(m, r)'
    BY <1>0, <1>5, Zenon DEF Insert, Put, RQ!Add, Tells, Typed
  <2> QED
    BY <1>5, <2>1, DispatchKeeps, Zenon DEF Insert, RQ!Add
<1>6. ASSUME NEW k, NEW s \in Resources, Unref(k, s), UNCHANGED dwVars PROVE DispatchInv'
  <2>1. \A r \in Resources \ rPending' : \A m : Tells(m, r) => Tells(m, r)'
    BY <1>0, <1>6, Zenon DEF Unref, RQ!Add, Tells, Typed
  <2> QED
    BY <1>6, <2>1, DispatchKeeps, Zenon DEF Unref, RQ!Add
<1>7. ASSUME NEW w \in IngressWorkers, NEW r \in Resources, DeleteName(w, r) \/ Prune(w, r)
      PROVE  DispatchInv'
  <2>1. CASE r \in resourceStore
    BY <1>6, <1>7, <2>1, Zenon DEF DeleteName, Prune
  <2>2. CASE r \notin resourceStore
    BY <1>7, <2>2, DispatchUnchanged, Zenon DEF DeleteName, Prune, dispatchVars
  <2> QED
    BY <2>1, <2>2, Zenon
<1>8. ASSUME NEW w \in IngressWorkers,
             \/ \E k \in Ingresses : IngressGet(w, k)
             \/ LookupDeleted(w) \/ LookupForeign(w) \/ LookupEnvoy(w)
             \/ Lock(w) \/ DeleteDone(w) \/ IngressDone(w)
      PROVE  DispatchInv'
  <2>1. CASE \E k \in Ingresses : IngressGet(w, k)
    BY <2>1, DispatchUnchanged, Zenon DEF IngressGet, dispatchVars
  <2>2. CASE LookupDeleted(w) \/ LookupForeign(w) \/ LookupEnvoy(w)
    BY <2>2, DispatchUnchanged, Zenon DEF LookupDeleted, LookupForeign, LookupEnvoy, dispatchVars
  <2>3. CASE Lock(w) \/ DeleteDone(w) \/ IngressDone(w)
    BY <2>3, DispatchUnchanged, Zenon DEF Lock, DeleteDone, IngressDone, dispatchVars
  <2> QED
    BY <1>8, <2>1, <2>2, <2>3, Zenon
<1>9. ASSUME NEW e \in DispatchWorkers, NEW s \in Resources, DispatchGet(e, s)
      PROVE  DispatchInv'
  <2>1. /\ rBusy[e] = None /\ s \notin RQ!Held
        /\ rBusy' = [rBusy EXCEPT ![e] = s] /\ dpc' = [dpc EXCEPT ![e] = "rlock"]
        /\ rPending' = rPending \ {s} /\ rLater' = rLater
        /\ UNCHANGED <<resourceStore, IngressRef, Spec, NodeGroup, dmsg, sent>>
    BY <1>9, Zenon DEF DispatchGet, RQ!Take, storeVars
  <2>2. /\ rBusy'[e] = s /\ dpc'[e] = "rlock"
        /\ \A d \in DispatchWorkers \ {e} :
             rBusy'[d] = rBusy[d] /\ dpc'[d] = dpc[d] /\ dmsg'[d] = dmsg[d]
    BY <1>0, <2>1, Zenon DEF Typed
  <2>3. Told(s)'
    BY <2>2, Zenon DEF Told
  <2>4. ASSUME NEW r \in Resources \ {s} PROVE Told(r)'
    <3>1. r \in rPending \cup rLater => r \in rPending' \cup rLater'
      BY <2>1, Zenon
    <3>2. rBusy[e] \in {s, None} /\ rBusy'[e] \in {s, None}
      BY <2>1, <2>2, Zenon
    <3>3. sent'[r] = sent[r] /\ (r \in resourceStore' <=> r \in resourceStore)
      BY <2>1, Zenon
    <3> QED
      BY <2>1, <2>2, <3>1, <3>2, <3>3, ToldElsewhere, Zenon
  <2>5. \A d \in DispatchWorkers : rBusy[d] # s
    BY <2>1, NoneIsNoKey, Zenon DEF RQ!Held
  <2>6. (\A c, d \in DispatchWorkers : rBusy[c] = rBusy[d] /\ rBusy[c] # None => c = d)'
    <3> SUFFICES ASSUME NEW c \in DispatchWorkers, NEW d \in DispatchWorkers,
                        rBusy'[c] = rBusy'[d], rBusy'[c] # None
                 PROVE  c = d
      BY Zenon
    <3>1. CASE c # e /\ d # e
      BY <2>2, <3>1, Zenon DEF DispatchInv
    <3>2. CASE c = e \/ d = e
      BY <2>2, <2>5, <3>2, Zenon
    <3> QED
      BY <3>1, <3>2, Zenon
  <2>7. (\A d \in DispatchWorkers : rBusy[d] = None <=> dpc[d] = "idle")'
    <3> SUFFICES ASSUME NEW d \in DispatchWorkers PROVE rBusy'[d] = None <=> dpc'[d] = "idle"
      BY Zenon
    <3>1. CASE d = e
      BY <2>2, <3>1, NoneIsNoKey, Zenon
    <3>2. CASE d # e
      BY <2>2, <3>2, Zenon DEF DispatchInv
    <3> QED
      BY <3>1, <3>2, Zenon
  <2>8. \A r \in Resources : Told(r)'
    BY <2>3, <2>4, Zenon
  <2> QED
    BY <2>6, <2>7, <2>8, Zenon DEF DispatchInv
<1>h. ASSUME NEW e \in DispatchWorkers, dpc[e] # "idle" PROVE rBusy[e] \in Resources
  BY <1>0, <1>h, Zenon DEF DispatchInv, Typed
<1>10. ASSUME NEW e \in DispatchWorkers, RLock(e) \/ ReadMissing(e) PROVE DispatchInv'
  <2>1. /\ dpc[e] # "idle" /\ dpc'[e] \in {"reading", "failed"}
        /\ \A d \in DispatchWorkers \ {e} : dpc'[d] = dpc[d]
    BY <1>0, <1>10, Zenon DEF RLock, ReadMissing, Typed
  <2>2. UNCHANGED <<rPending, rBusy, rLater, resourceStore, IngressRef, Spec, NodeGroup,
                    dmsg, sent>>
    BY <1>10, Zenon DEF RLock, ReadMissing, storeVars, rqVars
  <2>3. Tending(e, rBusy[e])'
    BY <2>1, Zenon DEF Tending
  <2> QED
    BY <1>h, <2>1, <2>2, <2>3, ToldHere, Zenon
<1>11. ASSUME NEW e \in DispatchWorkers, ReadResource(e) PROVE DispatchInv'
  <2>1. rBusy[e] \in Resources
    BY <1>h, <1>11, Zenon DEF ReadResource
  <2>2. UNCHANGED <<rPending, rBusy, rLater, IngressRef, Spec, NodeGroup, sent>>
    BY <1>11, Zenon DEF ReadResource, rqVars
  <2>3. /\ dpc[e] # "idle" /\ dpc'[e] = "send"
        /\ \A d \in DispatchWorkers \ {e} : dpc'[d] = dpc[d] /\ dmsg'[d] = dmsg[d]
        /\ \A r \in Resources \ {rBusy[e]} : r \in resourceStore' <=> r \in resourceStore
    BY <1>0, <1>11, Zenon DEF ReadResource, Typed
  <2>4. Tells(dmsg[e], rBusy[e])'
    BY <1>0, <1>11, <2>1, <2>2, Zenon DEF ReadResource, Tells, Typed
  <2>5. Tending(e, rBusy[e])'
    BY <2>3, <2>4, Zenon DEF Tending
  <2> QED
    BY <2>1, <2>2, <2>3, <2>5, ToldHere, Zenon
<1>12. ASSUME NEW e \in DispatchWorkers, Dispatch(e) PROVE DispatchInv'
  <2>1. rBusy[e] \in Resources
    BY <1>h, <1>12, Zenon DEF Dispatch
  <2>2. UNCHANGED <<rPending, rBusy, rLater, resourceStore, IngressRef, Spec, NodeGroup, dmsg>>
    BY <1>12, Zenon DEF Dispatch, rqVars, storeVars
  <2>3. /\ dpc[e] = "send" /\ dpc'[e] \in {"ok", "failed"}
        /\ \A d \in DispatchWorkers \ {e} : dpc'[d] = dpc[d]
        /\ \A r \in Resources \ {rBusy[e]} : sent'[r] = sent[r]
        /\ dpc'[e] = "ok" => sent'[rBusy[e]] = dmsg[e]
    BY <1>0, <1>12, <2>1, Zenon DEF Dispatch, Typed
  <2>4. ASSUME rBusy[e] \notin rPending \cup rLater PROVE Tending(e, rBusy[e])'
    <3>1. Tells(dmsg[e], rBusy[e])
      BY <2>1, <2>3, <2>4, HolderTends, Zenon DEF Tending
    <3>2. dpc'[e] = "ok" => Tells(sent[rBusy[e]], rBusy[e])'
      BY <2>2, <2>3, <3>1, Zenon DEF Tells
    <3> QED
      BY <2>3, <3>2, Zenon DEF Tending
  <2> QED
    BY <2>1, <2>2, <2>3, <2>4, ToldHere, Zenon
<1>13. ASSUME NEW e \in DispatchWorkers, DispatchDone(e) PROVE DispatchInv'
  <2>1. rBusy[e] \in Resources
    BY <1>h, <1>13, Zenon DEF DispatchDone
  <2>2. /\ UNCHANGED <<resourceStore, IngressRef, Spec, NodeGroup, sent, rPending>>
        /\ rBusy' = [rBusy EXCEPT ![e] = None]
        /\ dpc' = [dpc EXCEPT ![e] = "idle"] /\ dmsg' = [dmsg EXCEPT ![e] = NoMessage]
        /\ \/ dpc[e] = "ok" /\ rLater' = rLater
           \/ dpc[e] = "failed" /\ rLater' = rLater \cup {rBusy[e]}
    BY <1>13, Zenon DEF DispatchDone, RQ!Finish, RQ!RetryAndFinish, storeVars
  <2>3. /\ rBusy'[e] = None /\ dpc'[e] = "idle"
        /\ \A d \in DispatchWorkers \ {e} :
             rBusy'[d] = rBusy[d] /\ dpc'[d] = dpc[d] /\ dmsg'[d] = dmsg[d]
    BY <1>0, <2>2, Zenon DEF Typed
  <2>4. ASSUME NEW r \in Resources \ {rBusy[e]} PROVE Told(r)'
    <3>1. r \in rPending \cup rLater => r \in rPending' \cup rLater'
      BY <2>2, Zenon
    <3>2. rBusy[e] \in {rBusy[e], None} /\ rBusy'[e] \in {rBusy[e], None}
      BY <2>3, Zenon
    <3>3. sent'[r] = sent[r] /\ (r \in resourceStore' <=> r \in resourceStore)
      BY <2>2, Zenon
    <3> QED
      BY <2>2, <2>3, <3>1, <3>2, <3>3, ToldElsewhere, Zenon
  <2>5. ASSUME NEW s \in Resources, s = rBusy[e] PROVE Told(s)'
    <3>1. \A d \in DispatchWorkers : rBusy'[d] # s
      BY <2>3, <2>5, NoneIsNoKey, Zenon DEF DispatchInv
    <3>2. s \notin RQ!Held'
      BY <3>1, Zenon DEF RQ!Held
    <3>3. CASE s \in rPending' \cup rLater'
      BY <3>3, Zenon DEF Told
    <3>4. CASE s \notin rPending' \cup rLater'
      <4>1. s \notin rPending \cup rLater /\ dpc[e] = "ok"
        BY <2>2, <2>5, <3>4, Zenon
      <4>2. Tells(sent[s], s)
        BY <2>1, <2>5, <4>1, HolderTends, Zenon DEF Tending
      <4>3. Tells(sent[s], s)'
        BY <2>2, <4>2, Zenon DEF Tells
      <4> QED
        BY <3>2, <4>3, Zenon DEF Told
    <3> QED
      BY <3>3, <3>4, Zenon
  <2>6. (\A c, d \in DispatchWorkers : rBusy[c] = rBusy[d] /\ rBusy[c] # None => c = d)'
    BY <2>3 DEF DispatchInv
  <2>7. (\A d \in DispatchWorkers : rBusy[d] = None <=> dpc[d] = "idle")'
    BY <2>3, Zenon DEF DispatchInv
  <2>8. \A r \in Resources : Told(r)'
    BY <2>1, <2>4, <2>5, Zenon
  <2> QED
    BY <2>6, <2>7, <2>8, Zenon DEF DispatchInv
<1>14. CASE Release
  <2>1. UNCHANGED <<resourceStore, IngressRef, Spec, NodeGroup, rBusy, dwVars>>
    BY <1>14, Zenon DEF Release, RQ!Ripen, rqVars, storeVars
  <2>2. rPending \cup rLater \subseteq rPending' \cup rLater'
    BY <1>14, Zenon DEF Release, RQ!Ripen, rqVars
  <2>3. \A r \in Resources \ rPending' : \A m : Tells(m, r) => Tells(m, r)'
    BY <2>1, Zenon DEF Tells
  <2> QED
    BY <2>1, <2>2, <2>3, DispatchKeeps, Zenon
<1>15. CASE UNCHANGED vars
  BY <1>15, DispatchUnchanged, Zenon DEF vars, dispatchVars
<1> QED
  BY <1>1, <1>2, <1>3, <1>4, <1>5, <1>7, <1>8, <1>9, <1>10, <1>11, <1>12, <1>13, <1>14, <1>15,
     Zenon
     DEF Next, Start, IngressWorker, DispatchWorker
-----------------------------------------------------------------------------
(* The ingress workers: what the store holds of an ingress.                *)

Queued(k) == k \in notified \cup iPending \cup iLater

\* What worker w, at its present step, does for the ingress k it holds.
Serving(w, k) ==
  \/ ipc[w] \in {"lookup", "failed"}
  \/ ipc[w] \in {"stale", "pruning", "inserting"} /\ obj[w] = lister[k]
  \/ ipc[w] = "ok" /\ Synced(k)

LEMMA KeptCases ==
  ASSUME NEW k
  PROVE  Kept(k) <=> \/ Queued(k)
                     \/ k \notin IQ!Held /\ Synced(k)
                     \/ \E w \in IngressWorkers : iBusy[w] = k /\ Serving(w, k)
  BY Zenon DEF Kept, Queued, Serving

LEMMA KeptQueued == ASSUME NEW k, Queued(k)' PROVE Kept(k)'
  BY Zenon DEF Kept, Queued

LEMMA KeptServed ==
  ASSUME NEW k, NEW w \in IngressWorkers, iBusy'[w] = k, Serving(w, k)'
  PROVE  Kept(k)'
  BY Zenon DEF Kept, Serving

\* The worker that holds an ingress is the one that serves it.
LEMMA HolderServes ==
  ASSUME WorkerInv, NEW w \in IngressWorkers, NEW k \in Ingresses, iBusy[w] = k,
         Kept(k), ~Queued(k)
  PROVE  Serving(w, k)
<1>1. k # None
  BY NoneIsNoKey, Zenon
<1>2. k \in IQ!Held
  BY <1>1, Zenon DEF IQ!Held
<1>3. PICK v \in IngressWorkers : iBusy[v] = k /\ Serving(v, k)
  BY <1>2, KeptCases, Zenon
<1>4. v = w
  BY <1>1, <1>3, Zenon DEF WorkerInv
<1> QED
  BY <1>3, <1>4, Zenon

\* A step that leaves the workers alone and keeps what is synced.
LEMMA KeptByOthers ==
  ASSUME NEW k \in Ingresses, Kept(k), UNCHANGED <<iBusy, ipc, obj>>,
         lister'[k] = lister[k], Queued(k) => Queued(k)', Synced(k) => Synced(k)'
  PROVE  Kept(k)'
<1>1. CASE Queued(k)
  BY <1>1, KeptQueued, Zenon
<1>2. CASE k \notin IQ!Held /\ Synced(k)
  <2>1. IQ!Held' = IQ!Held
    BY Zenon DEF IQ!Held
  <2> QED
    BY <1>2, <2>1, Zenon DEF Kept
<1>3. ASSUME NEW w \in IngressWorkers, iBusy[w] = k, Serving(w, k) PROVE Kept(k)'
  <2>1. iBusy'[w] = k /\ Serving(w, k)'
    BY <1>3, Zenon DEF Serving
  <2> QED
    BY <2>1, KeptServed, Zenon
<1> QED
  BY <1>1, <1>2, <1>3, KeptCases, Zenon

\* A step of worker v on another ingress.
LEMMA KeptElsewhere ==
  ASSUME NEW v \in IngressWorkers, NEW k \in Ingresses, Kept(k),
         iBusy[v] # k, iBusy'[v] # k,
         \A w \in IngressWorkers \ {v} :
           iBusy'[w] = iBusy[w] /\ ipc'[w] = ipc[w] /\ obj'[w] = obj[w],
         lister' = lister, Queued(k) => Queued(k)', Synced(k) => Synced(k)'
  PROVE  Kept(k)'
<1>1. CASE Queued(k)
  BY <1>1, KeptQueued, Zenon
<1>2. CASE k \notin IQ!Held /\ Synced(k)
  <2>1. k \notin IQ!Held'
    BY <1>2, NoneIsNoKey, Zenon DEF IQ!Held
  <2> QED
    BY <1>2, <2>1, Zenon DEF Kept
<1>3. ASSUME NEW w \in IngressWorkers, iBusy[w] = k, Serving(w, k) PROVE Kept(k)'
  <2>1. w # v
    BY <1>3, Zenon
  <2>2. iBusy'[w] = k /\ Serving(w, k)'
    BY <1>3, <2>1, Zenon DEF Serving
  <2> QED
    BY <2>2, KeptServed, Zenon
<1> QED
  BY <1>1, <1>2, <1>3, KeptCases, Zenon

LEMMA SyncStep ==
  ASSUME TypeOK, WorkerInv, SyncInv, [Next]_vars
  PROVE  SyncInv'
<1> DEFINE Typed ==
      /\ lister \in [Ingresses -> Object \cup {None}]
      /\ iBusy \in [IngressWorkers -> Ingresses \cup {None}]
      /\ ipc \in [IngressWorkers -> {"idle", "lookup", "delete", "deleting", "stale",
                                     "pruning", "inserting", "ok", "failed"}]
      /\ obj \in [IngressWorkers -> Object \cup {None}]
      /\ IngressRef \in [Resources -> SUBSET Ingresses]
<1>0. Typed
  BY Zenon DEF TypeOK, IQ!KWTypeOK
<1> HIDE DEF Typed
<1> SUFFICES ASSUME NEW j \in Ingresses, IsEnvoy(lister'[j]) PROVE Kept(j)'
  BY Zenon DEF SyncInv, IsEnvoy
<1>k. lister'[j] = lister[j] => Kept(j)
  BY Zenon DEF SyncInv
<1>t. \A w \in IngressWorkers : \A x :
        /\ [ipc EXCEPT ![w] = x][w] = x
        /\ \A v \in IngressWorkers \ {w} : [ipc EXCEPT ![w] = x][v] = ipc[v]
  BY <1>0, Zenon DEF Typed
<1>b. IsEnvoy(lister[j]) => lister[j].built \in SUBSET Resources
  BY <1>0, ObjectFields, Zenon DEF Typed
<1>s. UNCHANGED <<resourceStore, IngressRef>> /\ lister'[j] = lister[j] => (Synced(j) => Synced(j)')
  BY Zenon DEF Synced
<1>o. ASSUME UNCHANGED <<iBusy, ipc, obj>>, lister'[j] = lister[j], Queued(j) => Queued(j)',
             Synced(j) => Synced(j)'
      PROVE  Kept(j)'
  BY <1>k, <1>o, KeptByOthers, Zenon
<1>e. ASSUME NEW v \in IngressWorkers, iBusy[v] # j, iBusy'[v] # j,
             \A w \in IngressWorkers \ {v} :
               iBusy'[w] = iBusy[w] /\ ipc'[w] = ipc[w] /\ obj'[w] = obj[w],
             lister' = lister, Queued(j) => Queued(j)', Synced(j) => Synced(j)'
      PROVE  Kept(j)'
  BY <1>e, <1>k, KeptElsewhere, Zenon
<1>h. ASSUME NEW w \in IngressWorkers, ipc[w] # "idle" PROVE iBusy[w] \in Ingresses
  BY <1>0, <1>h DEF WorkerInv, Typed
<1>1. ASSUME NEW k \in Ingresses, NEW o \in Changes, Change(k, o) PROVE Kept(j)'
  <2>1. CASE j = k
    <3>1. Queued(j)'
      BY <1>0, <1>1, <2>1, Zenon DEF Change, Queued, Typed
    <3> QED
      BY <3>1, KeptQueued, Zenon
  <2>2. CASE j # k
    <3>1. /\ lister'[j] = lister[j]
          /\ UNCHANGED <<iBusy, ipc, obj, resourceStore, IngressRef>>
      BY <1>0, <1>1, <2>2, Zenon DEF Change, iqVars, iwVars, storeVars, Typed
    <3>2. Queued(j) => Queued(j)'
      BY <1>1, Zenon DEF Change, Queued, iqVars
    <3> QED
      BY <1>o, <1>s, <3>1, <3>2, Zenon
  <2> QED
    BY <2>1, <2>2, Zenon
<1>2. ASSUME NEW k \in Ingresses, Handle(k) PROVE Kept(j)'
  <2>1. UNCHANGED <<lister, iBusy, ipc, obj, resourceStore, IngressRef>>
    BY <1>2, Zenon DEF Handle, IQ!Add, iwVars, storeVars
  <2>2. Queued(j) => Queued(j)'
    BY <1>2, Zenon DEF Handle, IQ!Add, Queued, IsEnvoy
  <2> QED
    BY <1>o, <1>s, <2>1, <2>2, Zenon
<1>3. CASE ListIngresses \/ StartWorkers
  <2>1. UNCHANGED <<lister, notified, iPending, iLater, iBusy, ipc, obj, resourceStore, IngressRef>>
    BY <1>3, Zenon DEF ListIngresses, StartWorkers, informerVars, iqVars, iwVars, storeVars
  <2>2. Queued(j) => Queued(j)'
    BY <2>1, Zenon DEF Queued
  <2> QED
    BY <1>o, <1>s, <2>1, <2>2, Zenon
<1>4. ASSUME NEW k \in Ingresses, NEW o, Put(k, o), lister' = lister
      PROVE  Synced(j) => Synced(j)'
  BY <1>b, <1>4, Zenon DEF Put, Synced
<1>5. ASSUME NEW v \in Versions, NEW k \in Ingresses, InitiateIngress(v, k) PROVE Kept(j)'
  <2>1. UNCHANGED <<lister, notified, iPending, iLater, iBusy, ipc, obj>>
    BY <1>5, Zenon DEF InitiateIngress, informerVars, iqVars, iwVars
  <2>2. Queued(j) => Queued(j)'
    BY <2>1, Zenon DEF Queued
  <2>3. Synced(j) => Synced(j)'
    BY <1>4, <1>5, <2>1, Zenon DEF InitiateIngress
  <2> QED
    BY <1>o, <2>1, <2>2, <2>3, Zenon
<1>6. ASSUME NEW w \in IngressWorkers, NEW k \in Ingresses, IngressGet(w, k) PROVE Kept(j)'
  <2>1. /\ UNCHANGED <<lister, notified, iLater, obj, resourceStore, IngressRef>>
        /\ iBusy[w] = None /\ iPending' = iPending \ {k}
        /\ iBusy' = [iBusy EXCEPT ![w] = k] /\ ipc' = [ipc EXCEPT ![w] = "lookup"]
    BY <1>6, Zenon DEF IngressGet, IQ!Take, informerVars, storeVars
  <2>2. /\ iBusy'[w] = k /\ ipc'[w] = "lookup"
        /\ \A v \in IngressWorkers \ {w} :
             iBusy'[v] = iBusy[v] /\ ipc'[v] = ipc[v] /\ obj'[v] = obj[v]
    BY <1>0, <2>1, Zenon DEF Typed
  <2>3. CASE j = k
    <3>1. Serving(w, j)'
      BY <2>2, Zenon DEF Serving
    <3> QED
      BY <2>2, <2>3, <3>1, KeptServed, Zenon
  <2>4. CASE j # k
    <3>1. Queued(j) => Queued(j)'
      BY <2>1, <2>4, Zenon DEF Queued
    <3>2. iBusy[w] # j /\ iBusy'[w] # j
      BY <2>1, <2>2, <2>4, NoneIsNoKey, Zenon
    <3> QED
      BY <1>e, <1>s, <2>1, <2>2, <3>1, <3>2, Zenon
  <2> QED
    BY <2>3, <2>4, Zenon
<1>7. ASSUME NEW w \in IngressWorkers,
             \/ LookupDeleted(w) \/ LookupForeign(w) \/ LookupEnvoy(w)
             \/ Lock(w) \/ DeleteDone(w)
      PROVE  Kept(j)'
  <2>1. UNCHANGED <<lister, notified, iPending, iLater, iBusy, resourceStore, IngressRef>>
    <3>1. UNCHANGED <<informerVars, iqVars, storeVars>>
      <4>1. CASE LookupDeleted(w) \/ LookupForeign(w) \/ LookupEnvoy(w)
        BY <4>1, Zenon DEF LookupDeleted, LookupForeign, LookupEnvoy
      <4>2. CASE Lock(w) \/ DeleteDone(w)
        BY <4>2, Zenon DEF Lock, DeleteDone
      <4> QED
        BY <1>7, <4>1, <4>2, Zenon
    <3> QED
      BY <3>1, Zenon DEF informerVars, iqVars, storeVars
  <2>2. \A v \in IngressWorkers \ {w} : ipc'[v] = ipc[v] /\ obj'[v] = obj[v]
    BY <1>0, <1>7, Zenon DEF LookupDeleted, LookupForeign, LookupEnvoy, Lock, DeleteDone, Typed
  <2>3. Queued(j) => Queued(j)'
    BY <2>1, Zenon DEF Queued
  <2>4. CASE j # iBusy[w]
    BY <1>e, <1>s, <2>1, <2>2, <2>3, <2>4, Zenon
  <2>5. CASE j = iBusy[w] /\ ~Queued(j)
    <3>1. IsEnvoy(lister[j])
      BY <2>1, Zenon
    <3>0. Serving(w, j)
      BY <1>k, <2>1, <2>5, HolderServes, Zenon
    <3>2. CASE LookupDeleted(w)
      <4>1. lister[iBusy[w]] = None
        BY <3>2, Zenon DEF LookupDeleted
      <4> QED
        BY <2>5, <3>1, <4>1, Zenon DEF IsEnvoy
    <3>3. CASE LookupForeign(w)
      BY <2>5, <3>1, <3>3, Zenon DEF LookupForeign
    <3>4. CASE LookupEnvoy(w)
      <4>1. ipc'[w] = "stale" /\ obj'[w] = lister'[j]
        BY <1>0, <2>1, <2>5, <3>4, Zenon DEF LookupEnvoy, Typed
      <4>2. Serving(w, j)'
        BY <4>1, Zenon DEF Serving
      <4> QED
        BY <2>1, <2>5, <4>2, KeptServed, Zenon
    <3>5. CASE Lock(w)
      <4>1. /\ ipc[w] \in {"delete", "stale"}
            /\ ipc[w] = "stale" => ipc'[w] \in {"pruning", "inserting"}
            /\ obj'[w] = obj[w]
        BY <1>0, <3>5, Zenon DEF Lock, Typed
      <4>2. Serving(w, j)'
        BY <2>1, <3>0, <4>1, Zenon DEF Serving
      <4> QED
        BY <2>1, <2>5, <4>2, KeptServed, Zenon
    <3>6. CASE DeleteDone(w)
      BY <3>0, <3>6, Zenon DEF DeleteDone, Serving
    <3> QED
      BY <1>7, <3>2, <3>3, <3>4, <3>5, <3>6, Zenon
  <2>6. CASE Queued(j)
    BY <2>3, <2>6, KeptQueued, Zenon
  <2> QED
    BY <2>4, <2>5, <2>6, Zenon
<1>8. ASSUME NEW w \in IngressWorkers, Insert(w) PROVE Kept(j)'
  <2>1. /\ UNCHANGED <<lister, notified, iPending, iLater, iBusy, obj>>
        /\ ipc[w] = "inserting" /\ Put(iBusy[w], obj[w])
        /\ ipc' = [ipc EXCEPT ![w] = "ok"]
    BY <1>8, Zenon DEF Insert, informerVars, iqVars
  <2>2. ipc'[w] = "ok" /\ \A v \in IngressWorkers \ {w} : ipc'[v] = ipc[v]
    BY <1>0, <2>1, Zenon DEF Typed
  <2>3. Queued(j) => Queued(j)'
    BY <2>1, Zenon DEF Queued
  <2>4. CASE j # iBusy[w]
    <3>1. iBusy[w] \in Ingresses
      BY <1>h, <2>1, Zenon
    <3>2. Synced(j) => Synced(j)'
      BY <1>4, <2>1, <3>1, Zenon
    <3> QED
      BY <1>e, <2>1, <2>2, <2>3, <2>4, <3>2, Zenon
  <2>5. CASE j = iBusy[w] /\ ~Queued(j)
    <3>1. Serving(w, j)
      BY <1>k, <2>1, <2>5, HolderServes, Zenon
    <3>2. obj[w] = lister[j]
      BY <2>1, <3>1, Zenon DEF Serving
    <3>3. Put(j, lister[j]) /\ lister[j].built \in SUBSET Resources
      BY <1>b, <2>1, <2>5, <3>2, Zenon
    <3>4. Synced(j)'
      BY <2>1, <3>3 DEF Put, Synced
    <3>5. Serving(w, j)'
      BY <2>2, <3>4, Zenon DEF Serving
    <3> QED
      BY <2>1, <2>5, <3>5, KeptServed, Zenon
  <2>6. CASE Queued(j)
    BY <2>3, <2>6, KeptQueued, Zenon
  <2> QED
    BY <2>4, <2>5, <2>6, Zenon
<1>9. ASSUME NEW w \in IngressWorkers, IngressDone(w) PROVE Kept(j)'
  <2>1. /\ UNCHANGED <<lister, notified, iPending, resourceStore, IngressRef>>
        /\ iBusy' = [iBusy EXCEPT ![w] = None]
        /\ ipc' = [ipc EXCEPT ![w] = "idle"] /\ obj' = [obj EXCEPT ![w] = None]
        /\ \/ ipc[w] = "ok" /\ iLater' = iLater
           \/ ipc[w] = "failed" /\ iLater' = iLater \cup {iBusy[w]}
    BY <1>9, Zenon DEF IngressDone, IQ!Finish, IQ!RetryAndFinish, informerVars, storeVars
  <2>2. /\ iBusy'[w] = None
        /\ \A v \in IngressWorkers \ {w} :
             iBusy'[v] = iBusy[v] /\ ipc'[v] = ipc[v] /\ obj'[v] = obj[v]
    BY <1>0, <2>1, Zenon DEF Typed
  <2>3. Queued(j) => Queued(j)'
    BY <2>1, Zenon DEF Queued
  <2>4. CASE j # iBusy[w]
    <3>1. iBusy'[w] # j
      BY <2>2, NoneIsNoKey, Zenon
    <3> QED
      BY <1>e, <1>s, <2>1, <2>2, <2>3, <2>4, <3>1, Zenon
  <2>5. CASE j = iBusy[w] /\ ~Queued(j)
    <3>1. Serving(w, j)
      BY <1>k, <2>1, <2>5, HolderServes, Zenon
    <3>2. CASE ipc[w] = "failed"
      <4>1. Queued(j)'
        BY <2>1, <2>5, <3>2, Zenon DEF Queued
      <4> QED
        BY <4>1, KeptQueued, Zenon
    <3>3. CASE ipc[w] = "ok"
      <4>1. Synced(j)
        BY <3>1, <3>3, Zenon DEF Serving
      <4>2. Synced(j)'
        BY <1>s, <2>1, <4>1, Zenon
      <4>3. \A v \in IngressWorkers : iBusy'[v] # j
        <5>1. j # None
          BY NoneIsNoKey, Zenon
        <5>2. \A v \in IngressWorkers \ {w} : iBusy[v] # j
          BY <2>5, <5>1, Zenon DEF WorkerInv
        <5> QED
          BY <2>2, <5>1, <5>2, Zenon
      <4>4. j \notin IQ!Held'
        BY <4>3, Zenon DEF IQ!Held
      <4> QED
        BY <4>2, <4>4, Zenon DEF Kept
    <3> QED
      BY <2>1, <3>2, <3>3, Zenon
  <2>6. CASE Queued(j)
    BY <2>3, <2>6, KeptQueued, Zenon
  <2> QED
    BY <2>4, <2>5, <2>6, Zenon
<1>10. ASSUME NEW w \in IngressWorkers, NEW s \in Resources, DeleteName(w, s) \/ Prune(w, s)
       PROVE  Kept(j)'
  <2>1. UNCHANGED <<lister, notified, iPending, iLater, iBusy, obj, resourceStore>>
    <3>1. CASE DeleteName(w, s)
      BY <3>1, Zenon DEF DeleteName, Unref, informerVars, iqVars, storeVars
    <3>2. CASE Prune(w, s)
      BY <3>2, Zenon DEF Prune, Unref, informerVars, iqVars, storeVars
    <3> QED
      BY <1>10, <3>1, <3>2, Zenon
  <2>0. \/ ipc[w] = "deleting" /\ ipc' = [ipc EXCEPT ![w] = "delete"]
        \/ ipc[w] = "pruning" /\ ipc' = [ipc EXCEPT ![w] = "stale"]
    BY <1>10, Zenon DEF DeleteName, Prune
  <2>2. \A v \in IngressWorkers \ {w} : ipc'[v] = ipc[v]
    BY <1>t, <2>0
  <2>7. ipc[w] = "deleting" \/ (ipc[w] = "pruning" /\ ipc'[w] = "stale")
    BY <1>t, <2>0
  <2>3. Queued(j) => Queued(j)'
    BY <2>1, Zenon DEF Queued
  <2>4. CASE j # iBusy[w]
    <3>1. \A r \in Resources : j \in IngressRef[r] => j \in IngressRef'[r]
      <4>1. \/ IngressRef' = IngressRef
            \/ IngressRef' = [IngressRef EXCEPT ![s] = @ \ {iBusy[w]}]
        BY <1>10, Zenon DEF DeleteName, Prune, Unref, storeVars
      <4> QED
        BY <1>0, <2>4, <4>1, Zenon DEF Typed
    <3>2. Synced(j) => Synced(j)'
      BY <1>b, <2>1, <3>1, Zenon DEF Synced
    <3> QED
      BY <1>e, <2>1, <2>2, <2>3, <2>4, <3>2, Zenon
  <2>5. CASE j = iBusy[w] /\ ~Queued(j)
    <3>1. Serving(w, j)
      BY <1>k, <2>1, <2>5, HolderServes, Zenon
    <3>2. Serving(w, j)'
      BY <2>1, <2>7, <3>1, Zenon DEF Serving
    <3> QED
      BY <2>1, <2>5, <3>2, KeptServed, Zenon
  <2>6. CASE Queued(j)
    BY <2>3, <2>6, KeptQueued, Zenon
  <2> QED
    BY <2>4, <2>5, <2>6, Zenon
<1>11. ASSUME NEW d \in DispatchWorkers, ReadResource(d) PROVE Kept(j)'
  <2>1. UNCHANGED <<lister, notified, iPending, iLater, iBusy, ipc, obj>>
    BY <1>11, Zenon DEF ReadResource, informerVars, iqVars, iwVars
  <2>2. Queued(j) => Queued(j)'
    BY <2>1, Zenon DEF Queued
  <2>3. Synced(j) => Synced(j)'
    BY <1>11, <2>1, Zenon DEF ReadResource, Synced
  <2> QED
    BY <1>o, <2>1, <2>2, <2>3, Zenon
<1>12. ASSUME NEW d \in DispatchWorkers,
              \/ \E r \in Resources : DispatchGet(d, r)
              \/ RLock(d) \/ ReadMissing(d) \/ Dispatch(d) \/ DispatchDone(d)
       PROVE  Kept(j)'
  <2>1. UNCHANGED <<informerVars, iqVars, iwVars, storeVars>>
    <3>1. CASE \E r \in Resources : DispatchGet(d, r)
      BY <3>1, Zenon DEF DispatchGet
    <3>2. CASE RLock(d) \/ ReadMissing(d)
      BY <3>2, Zenon DEF RLock, ReadMissing
    <3>3. CASE Dispatch(d)
      BY <3>3, Zenon DEF Dispatch
    <3>4. CASE DispatchDone(d)
      BY <3>4, Zenon DEF DispatchDone
    <3> QED
      BY <1>12, <3>1, <3>2, <3>3, <3>4, Zenon
  <2>2. UNCHANGED <<lister, notified, iPending, iLater, iBusy, ipc, obj, resourceStore,
                    IngressRef>>
    BY <2>1, Zenon DEF informerVars, iqVars, iwVars, storeVars
  <2>3. Queued(j) => Queued(j)'
    BY <2>2, Zenon DEF Queued
  <2> QED
    BY <1>o, <1>s, <2>2, <2>3, Zenon
<1>13. CASE Release
  <2>1. UNCHANGED <<lister, notified, iBusy, ipc, obj, resourceStore, IngressRef>>
    BY <1>13, Zenon DEF Release, IQ!Ripen, informerVars, iqVars, iwVars, storeVars
  <2>2. iPending \cup iLater \subseteq iPending' \cup iLater'
    BY <1>13, Zenon DEF Release, IQ!Ripen, iqVars
  <2>3. Queued(j) => Queued(j)'
    BY <2>1, <2>2, Zenon DEF Queued
  <2> QED
    BY <1>o, <1>s, <2>1, <2>3, Zenon
<1>14. CASE UNCHANGED vars
  <2>1. UNCHANGED <<lister, notified, iPending, iLater, iBusy, ipc, obj, resourceStore,
                    IngressRef>>
    BY <1>14, Zenon DEF vars, informerVars, iqVars, iwVars, storeVars
  <2>2. Queued(j) => Queued(j)'
    BY <2>1, Zenon DEF Queued
  <2> QED
    BY <1>o, <1>s, <2>1, <2>2, Zenon
<1> QED
  BY <1>1, <1>2, <1>3, <1>5, <1>6, <1>7, <1>8, <1>9, <1>10, <1>11, <1>12, <1>13, <1>14, Zenon
     DEF Next, Start, IngressWorker, DispatchWorker
-----------------------------------------------------------------------------
(* The theorems.                                                           *)

LEMMA InitInductive == Init => InductiveInv
<1> SUFFICES ASSUME Init PROVE InductiveInv
  BY Zenon
<1> USE NoneIsNoKey DEF Init, IQ!KWInit, RQ!KWInit
<1>1. TypeOK
  BY InitType, Zenon
<1>2. WorkerInv
  BY Zenon DEF WorkerInv, LockReleased, MapAllocated
<1>3. OwnerInv
  BY Zenon DEF OwnerInv, Owns
<1>4. DispatchInv
  BY Zenon DEF DispatchInv, Told, RQ!Held, Tells, NoMessage
<1>5. SyncInv
  BY Zenon DEF SyncInv, IsEnvoy
<1> QED
  BY <1>1, <1>2, <1>3, <1>4, <1>5, Zenon DEF InductiveInv

(* InductiveInv holds in every reachable state: each resource has at most  *)
(* one owner, which is what makes the deletions of syncEnvoyIngress find   *)
(* every resource they look for.                                           *)
THEOREM SyncInductive == Safety => []InductiveInv
<1>1. InductiveInv /\ [Next]_vars => InductiveInv'
  BY TypeStep, WorkerStep, OwnerStep, DispatchStep, SyncStep, Zenon DEF InductiveInv
<1>2. QED
  BY <1>1, InitInductive, PTL DEF Safety

(* syncEnvoyIngress never leaves resourceStoreLock locked for writing,     *)
(* although one of its branches would.                                     *)
THEOREM LockAlwaysReleased == Safety => []LockReleased
<1>1. InductiveInv => LockReleased
  BY Zenon DEF InductiveInv, WorkerInv
<1>2. QED
  BY <1>1, SyncInductive, PTL

(* syncEnvoyIngress never writes to a nil map of names.                    *)
THEOREM MapAlwaysAllocated == Safety => []MapAllocated
<1>1. InductiveInv => MapAllocated
  BY Zenon DEF InductiveInv, WorkerInv
<1>2. QED
  BY <1>1, SyncInductive, PTL

(* No change of resourceStore is lost on the way to the edge: what         *)
(* syncEnvoyResource last sent agrees with the store whenever the resource *)
(* is neither queued nor in a worker's hands.                              *)
THEOREM NoUpdateLost == Safety => []DispatchedOrQueued
<1>1. InductiveInv => DispatchedOrQueued
  BY DEF InductiveInv, DispatchInv, Told, DispatchedOrQueued, RQ!Held
<1>2. QED
  BY <1>1, SyncInductive, PTL

(* No envoy ingress is lost on the way into resourceStore.                 *)
THEOREM NoIngressLost == Safety => []SyncedOrQueued
<1>1. InductiveInv => SyncedOrQueued
  BY NoneIsNoKey DEF InductiveInv, SyncInv, Kept, SyncedOrQueued, IQ!Held
<1>2. QED
  BY <1>1, SyncInductive, PTL
=============================================================================
