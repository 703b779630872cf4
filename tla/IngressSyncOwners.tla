-------------------------- MODULE IngressSyncOwners -------------------------
(***************************************************************************)
(* Proofs about IngressSync, first part: every step keeps TypeOK and       *)
(* WorkerInv (what a worker knows at each of its steps), and OwnerInv, by  *)
(* which a resource of the store has at most one owner.                    *)
(***************************************************************************)
EXTENDS IngressSync, TLAPS

USE DEF informerVars, startVars, storeVars, nameVars, lockVars, iqVars, rqVars, iwVars, dwVars

\* What is built from an envoy ingress.
LEMMA ObjectFields ==
  ASSUME NEW o \in Object \cup {None}, IsEnvoy(o)
  PROVE  o \in Object /\ o.built \in SUBSET Resources /\ o.spec \in Specs
         /\ o.groups \in SUBSET Groups
  BY Zenon DEF IsEnvoy, Object

\* The message of a resource that nothing was sent for.
LEMMA NoMessageType == NoMessage \in Messages
  BY SpecsAssumption, Zenon DEF NoMessage, Messages

-----------------------------------------------------------------------------
(* Types.                                                                  *)

LEMMA InitType == Init => TypeOK
<1> SUFFICES ASSUME Init PROVE TypeOK
  BY Zenon
<1>1. leaked \in BOOLEAN
  BY Zenon DEF Init
<1>2. /\ lister \in [Ingresses -> Object \cup {None}]
      /\ notified \subseteq Ingresses
      /\ changes \in Nat
      /\ phase \in {"starting", "initiating", "running"}
      /\ listed \in [Ingresses -> Object \cup {None}]
      /\ initTodo \subseteq Versions \X Ingresses
  BY Zenon DEF Init
<1>3. /\ resourceStore \subseteq Resources
      /\ IngressRef \in [Resources -> SUBSET Ingresses]
      /\ Spec \in [Resources -> Specs]
      /\ NodeGroup \in [Resources -> SUBSET Groups]
      /\ names \in [Ingresses -> SUBSET Resources]
      /\ named \subseteq Ingresses
      /\ writer \in IngressWorkers \cup {None}
      /\ readers \subseteq DispatchWorkers
  BY SpecsAssumption, Zenon DEF Init
<1>4. IQ!KWTypeOK /\ RQ!KWTypeOK
  BY Zenon DEF Init, IQ!KWTypeOK, RQ!KWTypeOK, IQ!KWInit, RQ!KWInit
<1>5. /\ ipc \in [IngressWorkers -> {"idle", "lookup", "delete", "deleting", "stale",
                                     "pruning", "inserting", "ok", "failed"}]
      /\ obj \in [IngressWorkers -> Object \cup {None}]
      /\ todo \in [IngressWorkers -> SUBSET Resources]
      /\ dpc \in [DispatchWorkers -> {"idle", "rlock", "reading", "send", "ok", "failed"}]
      /\ dmsg \in [DispatchWorkers -> Messages]
      /\ sent \in [Resources -> Messages]
  BY NoMessageType, Zenon DEF Init
<1> QED
  BY <1>1, <1>2, <1>3, <1>4, <1>5, Zenon DEF TypeOK

LEMMA TypeStep ==
  ASSUME TypeOK, WorkerInv, DispatchInv, [Next]_vars
  PROVE  TypeOK'
<1> USE DEF TypeOK, IQ!KWTypeOK, RQ!KWTypeOK
<1>1. ASSUME NEW k \in Ingresses, NEW o \in Changes, Change(k, o) PROVE TypeOK'
  BY <1>1, ChangesAssumption DEF Change
<1>2. ASSUME NEW k \in Ingresses, Handle(k) PROVE TypeOK'
  BY <1>2, Zenon DEF Handle, IQ!Add
<1>3. CASE ListIngresses
  BY <1>3, Zenon DEF ListIngresses
<1>4. CASE StartWorkers
  BY <1>4, Zenon DEF StartWorkers
<1>5. ASSUME NEW v \in Versions, NEW k \in Ingresses, InitiateIngress(v, k) PROVE TypeOK'
  <2>1. IsEnvoy(listed[k]) /\ listed[k] \in Object \cup {None}
    BY <1>5, Zenon DEF InitiateIngress, WorkerInv
  <2>2. listed[k].built \in SUBSET Resources /\ listed[k].spec \in Specs
        /\ listed[k].groups \in SUBSET Groups
    BY <2>1, ObjectFields, Zenon
  <2> QED
    BY <1>5, <2>2, Zenon DEF InitiateIngress, Put, RQ!Add
<1>6. ASSUME NEW w \in IngressWorkers, NEW k \in Ingresses, IngressGet(w, k) PROVE TypeOK'
  BY <1>6, Zenon DEF IngressGet, IQ!Take
<1>7. ASSUME NEW w \in IngressWorkers, LookupDeleted(w) PROVE TypeOK'
  BY <1>7 DEF LookupDeleted, WorkerInv
<1>8. ASSUME NEW w \in IngressWorkers, LookupForeign(w) PROVE TypeOK'
  BY <1>8, Zenon DEF LookupForeign
<1>9. ASSUME NEW w \in IngressWorkers, LookupEnvoy(w) PROVE TypeOK'
  BY <1>9 DEF LookupEnvoy, WorkerInv
<1>10. ASSUME NEW w \in IngressWorkers, Lock(w) PROVE TypeOK'
  BY <1>10, Zenon DEF Lock
<1>11. ASSUME NEW w \in IngressWorkers, DeleteDone(w) PROVE TypeOK'
  BY <1>11, Zenon DEF DeleteDone, WorkerInv
<1>12. ASSUME NEW w \in IngressWorkers, Insert(w) PROVE TypeOK'
  <2>1. IsEnvoy(obj[w]) /\ obj[w] \in Object \cup {None} /\ iBusy[w] \in Ingresses
    BY <1>12 DEF Insert, WorkerInv
  <2>2. obj[w].built \in SUBSET Resources /\ obj[w].spec \in Specs
        /\ obj[w].groups \in SUBSET Groups
    BY <2>1, ObjectFields, Zenon
  <2> QED
    BY <1>12, <2>1, <2>2, Zenon DEF Insert, Put, RQ!Add
<1>13. ASSUME NEW w \in IngressWorkers, IngressDone(w) PROVE TypeOK'
  BY <1>13 DEF IngressDone, IQ!Finish, IQ!RetryAndFinish
<1>14. ASSUME NEW w \in IngressWorkers, NEW r \in Resources, DeleteName(w, r) PROVE TypeOK'
  BY <1>14 DEF DeleteName, Unref, RQ!Add
<1>15. ASSUME NEW w \in IngressWorkers, NEW r \in Resources, Prune(w, r) PROVE TypeOK'
  BY <1>15 DEF Prune, Unref, RQ!Add
<1>16. ASSUME NEW d \in DispatchWorkers, NEW r \in Resources, DispatchGet(d, r) PROVE TypeOK'
  BY <1>16, Zenon DEF DispatchGet, RQ!Take
<1>17. ASSUME NEW d \in DispatchWorkers, RLock(d) PROVE TypeOK'
  BY <1>17, Zenon DEF RLock
<1>18. ASSUME NEW d \in DispatchWorkers, ReadMissing(d) PROVE TypeOK'
  <2>1. leaked' \in BOOLEAN
    BY <1>18, Zenon DEF ReadMissing
  <2>2. /\ readers' \subseteq DispatchWorkers
        /\ dpc' \in [DispatchWorkers -> {"idle", "rlock", "reading", "send", "ok", "failed"}]
    BY <1>18, Zenon DEF ReadMissing
  <2> QED
    BY <1>18, <2>1, <2>2, Zenon DEF ReadMissing
<1>19. ASSUME NEW d \in DispatchWorkers, ReadResource(d) PROVE TypeOK'
  BY <1>19 DEF ReadResource, DispatchInv, Messages
<1>20. ASSUME NEW d \in DispatchWorkers, Dispatch(d) PROVE TypeOK'
  <2>1. rBusy[d] \in Resources
    BY <1>20 DEF Dispatch, DispatchInv
  <2>2. sent' \in [Resources -> Messages]
    BY <1>20, <2>1, Zenon DEF Dispatch
  <2>3. dpc' \in [DispatchWorkers -> {"idle", "rlock", "reading", "send", "ok", "failed"}]
    BY <1>20 DEF Dispatch
  <2> QED
    BY <1>20, <2>2, <2>3, Zenon DEF Dispatch
<1>21. ASSUME NEW d \in DispatchWorkers, DispatchDone(d) PROVE TypeOK'
  BY <1>21, NoMessageType DEF DispatchDone, RQ!Finish, RQ!RetryAndFinish
<1>22. CASE Release
  BY <1>22, Zenon DEF Release, IQ!Ripen, RQ!Ripen
<1>23. CASE UNCHANGED vars
  BY <1>23, Zenon DEF vars
<1> QED
  BY <1>1, <1>2, <1>3, <1>4, <1>5, <1>6, <1>7, <1>8, <1>9, <1>10, <1>11, <1>12, <1>13,
     <1>14, <1>15, <1>16, <1>17, <1>18, <1>19, <1>20, <1>21, <1>22, <1>23, Zenon
     DEF Next, Start, IngressWorker, DispatchWorker
-----------------------------------------------------------------------------
(* The ingress workers and resourceStoreLock.                              *)

workerVars == <<names, named, writer, iBusy, ipc, obj, todo, phase, initTodo, listed>>

LEMMA WorkerUnchanged == WorkerInv /\ UNCHANGED workerVars => WorkerInv'
  BY DEF WorkerInv, workerVars, LockReleased, MapAllocated

\* What a dispatch worker leaves alone.
LEMMA DispatchWorkerFrame ==
  ASSUME NEW d \in DispatchWorkers, DispatchWorker(d)
  PROVE  UNCHANGED <<informerVars, startVars, nameVars, writer, iqVars, iwVars>>
<1>1. CASE \E r \in Resources : DispatchGet(d, r)
  BY <1>1, Zenon DEF DispatchGet
<1>2. CASE RLock(d)
  BY <1>2, Zenon DEF RLock
<1>3. CASE ReadMissing(d)
  BY <1>3, Zenon DEF ReadMissing
<1>4. CASE ReadResource(d)
  BY <1>4, Zenon DEF ReadResource
<1>5. CASE Dispatch(d)
  BY <1>5, Zenon DEF Dispatch
<1>6. CASE DispatchDone(d)
  BY <1>6, Zenon DEF DispatchDone
<1> QED
  BY <1>1, <1>2, <1>3, <1>4, <1>5, <1>6, Zenon DEF DispatchWorker

LEMMA WorkerStep ==
  ASSUME TypeOK, WorkerInv, OwnerInv, [Next]_vars
  PROVE  WorkerInv'
<1> USE NoneIsNoKey DEF WorkerInv, LockReleased, MapAllocated
<1> DEFINE Typed ==
      /\ named \subseteq Ingresses
      /\ names \in [Ingresses -> SUBSET Resources]
      /\ writer \in IngressWorkers \cup {None}
      /\ iBusy \in [IngressWorkers -> Ingresses \cup {None}]
      /\ ipc \in [IngressWorkers -> {"idle", "lookup", "delete", "deleting", "stale",
                                     "pruning", "inserting", "ok", "failed"}]
      /\ obj \in [IngressWorkers -> Object \cup {None}]
      /\ todo \in [IngressWorkers -> SUBSET Resources]
<1>0. Typed
  BY Zenon DEF TypeOK, IQ!KWTypeOK
<1> HIDE DEF Typed
<1>1. CASE \E k \in Ingresses, o \in Changes : Change(k, o)
  BY <1>1, WorkerUnchanged, Zenon DEF Change, workerVars
<1>2. CASE \E k \in Ingresses : Handle(k)
  BY <1>2, WorkerUnchanged, Zenon DEF Handle, IQ!Add, workerVars
<1>3. CASE ListIngresses
  BY <1>3, Zenon DEF ListIngresses
<1>4. CASE StartWorkers
  BY <1>4, Zenon DEF StartWorkers
<1>5. ASSUME NEW v \in Versions, NEW k \in Ingresses, InitiateIngress(v, k)
      PROVE  WorkerInv'
  BY <1>5, Zenon DEF InitiateIngress
<1>6. ASSUME NEW w \in IngressWorkers, NEW k \in Ingresses, IngressGet(w, k)
      PROVE  WorkerInv'
  BY <1>0, <1>6 DEF IngressGet, IQ!Take, IQ!Held, Typed
<1>7. ASSUME NEW w \in IngressWorkers, LookupDeleted(w) PROVE WorkerInv'
  BY <1>0, <1>7 DEF LookupDeleted, Typed
<1>8. ASSUME NEW w \in IngressWorkers, LookupForeign(w) PROVE WorkerInv'
  BY <1>0, <1>8 DEF LookupForeign, Typed
<1>9. ASSUME NEW w \in IngressWorkers, LookupEnvoy(w) PROVE WorkerInv'
  BY <1>0, <1>9 DEF LookupEnvoy, Typed
<1>10. ASSUME NEW w \in IngressWorkers, Lock(w) PROVE WorkerInv'
  BY <1>0, <1>10 DEF Lock, Typed
<1>11. ASSUME NEW w \in IngressWorkers, DeleteDone(w) PROVE WorkerInv'
  BY <1>0, <1>11 DEF DeleteDone, Typed
<1>12. ASSUME NEW w \in IngressWorkers, Insert(w) PROVE WorkerInv'
  BY <1>0, <1>12 DEF Insert, Locked, Typed
<1>13. ASSUME NEW w \in IngressWorkers, IngressDone(w) PROVE WorkerInv'
  BY <1>0, <1>13 DEF IngressDone, IQ!Finish, IQ!RetryAndFinish, Typed
<1>14. ASSUME NEW w \in IngressWorkers, NEW r \in Resources, DeleteName(w, r)
       PROVE  WorkerInv'
  \* The name is owned, so its resource is in the store and the lock is released.
  <2>1. Owns(iBusy[w], r)
    BY <1>14, Zenon DEF DeleteName, Owns
  <2>2. r \in resourceStore
    BY <1>0, <1>14, <2>1 DEF DeleteName, OwnerInv, Typed
  <2> QED
    BY <1>0, <1>14, <2>2, Zenon DEF DeleteName, Locked, Unref, Typed
<1>15. ASSUME NEW w \in IngressWorkers, NEW r \in Resources, Prune(w, r)
       PROVE  WorkerInv'
  BY <1>0, <1>15 DEF Prune, Locked, Unref, Typed
<1>16. ASSUME NEW d \in DispatchWorkers, DispatchWorker(d) PROVE WorkerInv'
  <2>1. UNCHANGED workerVars
    BY <1>16, DispatchWorkerFrame, Zenon DEF workerVars
  <2> QED
    BY <2>1, WorkerUnchanged, Zenon
<1>17. CASE Release \/ UNCHANGED vars
  <2>1. UNCHANGED workerVars
    BY <1>17, Zenon DEF Release, IQ!Ripen, vars, workerVars
  <2> QED
    BY <2>1, WorkerUnchanged, Zenon
<1> QED
  BY <1>1, <1>2, <1>3, <1>4, <1>5, <1>6, <1>7, <1>8, <1>9, <1>10, <1>11, <1>12, <1>13,
     <1>14, <1>15, <1>16, <1>17, Zenon DEF Next, Start, IngressWorker
-----------------------------------------------------------------------------
(* Owners.                                                                 *)

ownerVars == <<names, iBusy, ipc, todo, resourceStore, IngressRef>>

LEMMA OwnerUnchanged == OwnerInv /\ UNCHANGED ownerVars => OwnerInv'
  BY DEF OwnerInv, Owns, ownerVars

\* A step after which every ingress owns no more than before, and in which
\* only references or resources of nobody's names go, keeps OwnerInv.
LEMMA OwnerShrinks ==
  ASSUME OwnerInv,
         \A k \in Ingresses, r \in Resources :
           Owns(k, r)' => Owns(k, r) /\ (r \in resourceStore' /\ IngressRef'[r] # {})
  PROVE  OwnerInv'
  BY Zenon DEF OwnerInv

\* A step that gives ingress k the resources of B that are not in the store.
LEMMA OwnerGrows ==
  ASSUME OwnerInv, NEW k \in Ingresses, NEW B,
         \A j \in Ingresses, r \in Resources :
           Owns(j, r)' => Owns(j, r) \/ (j = k /\ r \in B \ resourceStore),
         \A r \in Resources : r \in B \/ (r \in resourceStore /\ IngressRef[r] # {})
                              => r \in resourceStore' /\ IngressRef'[r] # {}
  PROVE  OwnerInv'
<1>1. ASSUME NEW j \in Ingresses, NEW r \in Resources, Owns(j, r)'
      PROVE  r \in resourceStore' /\ IngressRef'[r] # {}
  <2>1. Owns(j, r) \/ r \in B
    BY <1>1, Zenon
  <2>2. Owns(j, r) => r \in resourceStore /\ IngressRef[r] # {}
    BY Zenon DEF OwnerInv
  <2> QED
    BY <2>1, <2>2, Zenon
<1>2. ASSUME NEW i \in Ingresses, NEW j \in Ingresses, NEW r \in Resources,
             Owns(i, r)', Owns(j, r)'
      PROVE  i = j
  <2>1. Owns(i, r) \/ (i = k /\ r \in B \ resourceStore)
    BY <1>2, Zenon
  <2>2. Owns(j, r) \/ (j = k /\ r \in B \ resourceStore)
    BY <1>2, Zenon
  <2>3. Owns(i, r) \/ Owns(j, r) => r \in resourceStore
    BY Zenon DEF OwnerInv
  <2>4. Owns(i, r) /\ Owns(j, r) => i = j
    BY Zenon DEF OwnerInv
  <2> QED
    BY <2>1, <2>2, <2>3, <2>4, Zenon
<1> QED
  BY <1>1, <1>2, Zenon DEF OwnerInv

LEMMA PutReferences ==
  ASSUME NEW k \in Ingresses, NEW o, Put(k, o), IngressRef \in [Resources -> SUBSET Ingresses]
  PROVE  \A r \in Resources : r \in o.built \/ (r \in resourceStore /\ IngressRef[r] # {})
                              => r \in resourceStore' /\ IngressRef'[r] # {}
  BY Zenon DEF Put

LEMMA OwnerStep ==
  ASSUME TypeOK, WorkerInv, OwnerInv, [Next]_vars
  PROVE  OwnerInv'
<1> DEFINE Typed ==
      /\ names \in [Ingresses -> SUBSET Resources]
      /\ iBusy \in [IngressWorkers -> Ingresses \cup {None}]
      /\ ipc \in [IngressWorkers -> {"idle", "lookup", "delete", "deleting", "stale",
                                     "pruning", "inserting", "ok", "failed"}]
      /\ todo \in [IngressWorkers -> SUBSET Resources]
      /\ IngressRef \in [Resources -> SUBSET Ingresses]
<1>0. Typed
  BY Zenon DEF TypeOK, IQ!KWTypeOK
<1> HIDE DEF Typed
<1>1. CASE \E k \in Ingresses, o \in Changes : Change(k, o)
  BY <1>1, OwnerUnchanged, Zenon DEF Change, ownerVars
<1>2. CASE \E k \in Ingresses : Handle(k)
  BY <1>2, OwnerUnchanged, Zenon DEF Handle, IQ!Add, ownerVars
<1>3. CASE ListIngresses \/ StartWorkers
  BY <1>3, OwnerUnchanged, Zenon DEF ListIngresses, StartWorkers, ownerVars
<1>4. ASSUME NEW v \in Versions, NEW k \in Ingresses, InitiateIngress(v, k)
      PROVE  OwnerInv'
  <2>1. \A w \in IngressWorkers : ipc[w] = "idle" /\ ipc'[w] = "idle"
    BY <1>4, Zenon DEF InitiateIngress, WorkerInv
  <2>2. \A j \in Ingresses, r \in Resources :
          Owns(j, r)' => Owns(j, r) \/ (j = k /\ r \in listed[k].built \ resourceStore)
    <3>1. names' = [names EXCEPT ![k] = listed[k].built \ resourceStore]
      BY <1>4, Zenon DEF InitiateIngress
    <3> SUFFICES ASSUME NEW j \in Ingresses, NEW r \in Resources, Owns(j, r)'
                 PROVE  Owns(j, r) \/ (j = k /\ r \in listed[k].built \ resourceStore)
      BY Zenon
    <3>2. r \in names'[j]
      BY <2>1, Zenon DEF Owns
    <3>3. CASE j = k
      BY <1>0, <3>1, <3>2, <3>3, Zenon DEF Typed
    <3>4. CASE j # k
      <4>1. r \in names[j]
        BY <1>0, <3>1, <3>2, <3>4, Zenon DEF Typed
      <4> QED
        BY <4>1, Zenon DEF Owns
    <3> QED
      BY <3>3, <3>4, Zenon
  <2>3. Put(k, listed[k]) /\ IngressRef \in [Resources -> SUBSET Ingresses]
    BY <1>0, <1>4, Zenon DEF InitiateIngress, Typed
  <2> QED
    <3>1. \A r \in Resources : r \in listed[k].built \/ (r \in resourceStore /\ IngressRef[r] # {})
                               => r \in resourceStore' /\ IngressRef'[r] # {}
      BY <2>3, PutReferences, Zenon
    <3> QED
      BY <2>2, <3>1, OwnerGrows, Zenon
<1>5. ASSUME NEW w \in IngressWorkers, NEW k \in Ingresses, IngressGet(w, k)
      PROVE  OwnerInv'
  <2>1. \A j \in Ingresses, r \in Resources : Owns(j, r)' <=> Owns(j, r)
    BY <1>0, <1>5, Zenon DEF IngressGet, IQ!Take, Owns, Typed
  <2> QED
    BY <1>5, <2>1, Zenon DEF IngressGet, OwnerInv
<1>6. ASSUME NEW w \in IngressWorkers, LookupDeleted(w) PROVE OwnerInv'
  <2>1. \A j \in Ingresses, r \in Resources : Owns(j, r)' => Owns(j, r)
    BY <1>0, <1>6, Zenon DEF LookupDeleted, Owns, Typed
  <2> QED
    BY <1>6, <2>1, OwnerShrinks, Zenon DEF LookupDeleted, OwnerInv
<1>7. ASSUME NEW w \in IngressWorkers, LookupForeign(w) \/ LookupEnvoy(w)
      PROVE  OwnerInv'
  <2>1. \A j \in Ingresses, r \in Resources : Owns(j, r)' => Owns(j, r)
    BY <1>0, <1>7, Zenon DEF LookupForeign, LookupEnvoy, Owns, Typed
  <2> QED
    BY <1>7, <2>1, OwnerShrinks, Zenon DEF LookupForeign, LookupEnvoy, OwnerInv
<1>8. ASSUME NEW w \in IngressWorkers, Lock(w) PROVE OwnerInv'
  <2>1. \A j \in Ingresses, r \in Resources : Owns(j, r)' => Owns(j, r)
    BY <1>0, <1>8, Zenon DEF Lock, Owns, Typed
  <2> QED
    BY <1>8, <2>1, OwnerShrinks, Zenon DEF Lock, OwnerInv
<1>9. ASSUME NEW w \in IngressWorkers, DeleteDone(w) PROVE OwnerInv'
  <2>1. \A j \in Ingresses, r \in Resources : Owns(j, r)' => Owns(j, r)
    BY <1>0, <1>9, Zenon DEF DeleteDone, Owns, Typed
  <2> QED
    BY <1>9, <2>1, OwnerShrinks, Zenon DEF DeleteDone, OwnerInv
<1>10. ASSUME NEW w \in IngressWorkers, Insert(w) PROVE OwnerInv'
  <2>1. iBusy[w] \in Ingresses
    BY <1>0, <1>10, Zenon DEF Insert, WorkerInv, Typed
  <2>2. \A j \in Ingresses, r \in Resources :
          Owns(j, r)' => \/ Owns(j, r)
                         \/ j = iBusy[w] /\ r \in obj[w].built \ resourceStore
    BY <1>0, <1>10, <2>1, Zenon DEF Insert, Owns, Typed
  <2>3. Put(iBusy[w], obj[w]) /\ IngressRef \in [Resources -> SUBSET Ingresses]
    BY <1>0, <1>10, Zenon DEF Insert, Typed
  <2> QED
    <3>1. \A r \in Resources : r \in obj[w].built \/ (r \in resourceStore /\ IngressRef[r] # {})
                               => r \in resourceStore' /\ IngressRef'[r] # {}
      BY <2>1, <2>3, PutReferences, Zenon
    <3> QED
      BY <2>1, <2>2, <3>1, OwnerGrows, Zenon
<1>11. ASSUME NEW w \in IngressWorkers, IngressDone(w) PROVE OwnerInv'
  <2>1. \A j \in Ingresses, r \in Resources : Owns(j, r)' => Owns(j, r)
    BY <1>0, <1>11, Zenon DEF IngressDone, IQ!Finish, IQ!RetryAndFinish, Owns, Typed
  <2> QED
    BY <1>11, <2>1, OwnerShrinks, Zenon DEF IngressDone, OwnerInv
<1>12. ASSUME NEW w \in IngressWorkers, NEW s \in Resources, DeleteName(w, s)
       PROVE  OwnerInv'
  <2>1. iBusy[w] \in Ingresses /\ Owns(iBusy[w], s)
    BY <1>0, <1>12, Zenon DEF DeleteName, WorkerInv, Owns, Typed
  <2>2. \A j \in Ingresses, r \in Resources : Owns(j, r)' => Owns(j, r)
    BY <1>0, <1>12, Zenon DEF DeleteName, Owns, Typed
  <2>3. \A j \in Ingresses : ~Owns(j, s)'
    <3> SUFFICES ASSUME NEW j \in Ingresses, Owns(j, s)' PROVE FALSE
      BY Zenon
    <3>1. j = iBusy[w]
      BY <2>1, <2>2, Zenon DEF OwnerInv
    <3> QED
      BY <1>0, <1>12, <3>1, Zenon DEF DeleteName, WorkerInv, Owns, Typed
  <2>4. \A r \in Resources \ {s} : IngressRef'[r] = IngressRef[r]
    BY <1>0, <1>12, Zenon DEF DeleteName, Unref, Typed
  <2>5. resourceStore' = resourceStore
    BY <1>12, Zenon DEF DeleteName, Unref
  <2> QED
    BY <2>2, <2>3, <2>4, <2>5, OwnerShrinks, Zenon DEF OwnerInv
<1>13. ASSUME NEW w \in IngressWorkers, NEW s \in Resources, Prune(w, s)
       PROVE  OwnerInv'
  <2>1. iBusy[w] \in Ingresses /\ Owns(iBusy[w], s)
    BY <1>0, <1>13 DEF Prune, WorkerInv, Owns, Typed
  <2>2. \A j \in Ingresses, r \in Resources : Owns(j, r)' => Owns(j, r)
    BY <1>0, <1>13 DEF Prune, Owns, Typed
  <2>3. IngressRef[s] \subseteq {iBusy[w]} => \A j \in Ingresses : ~Owns(j, s)'
    <3> SUFFICES ASSUME IngressRef[s] \subseteq {iBusy[w]},
                        NEW j \in Ingresses, Owns(j, s)'
                 PROVE  FALSE
      BY Zenon
    <3>1. j = iBusy[w] /\ s \in resourceStore
      BY <2>1, <2>2, Zenon DEF OwnerInv
    <3> QED
      BY <1>0, <1>13, <3>1 DEF Prune, WorkerInv, Owns, Typed
  <2>4. \A r \in Resources \ {s} : IngressRef'[r] = IngressRef[r]
    BY <1>0, <1>13, Zenon DEF Prune, Unref, Typed
  <2>5. ~(IngressRef[s] \subseteq {iBusy[w]}) => IngressRef'[s] # {}
    BY <1>0, <1>13 DEF Prune, Unref, Typed
  <2>6. resourceStore' = resourceStore
    BY <1>13, Zenon DEF Prune, Unref
  <2>7. ASSUME NEW k \in Ingresses, NEW r \in Resources, Owns(k, r)'
        PROVE  r \in resourceStore' /\ IngressRef'[r] # {}
    <3>1. r \in resourceStore /\ IngressRef[r] # {}
      BY <2>2, <2>7, Zenon DEF OwnerInv
    <3>2. CASE r = s
      BY <2>3, <2>5, <2>6, <2>7, <3>1, <3>2, Zenon
    <3>3. CASE r # s
      BY <2>4, <2>6, <3>1, <3>3, Zenon
    <3> QED
      BY <3>2, <3>3, Zenon
  <2> QED
    BY <2>2, <2>7, OwnerShrinks, Zenon
<1>14. ASSUME NEW d \in DispatchWorkers, ReadResource(d) PROVE OwnerInv'
  <2>1. \A j \in Ingresses, r \in Resources : Owns(j, r)' <=> Owns(j, r)
    BY <1>14, Zenon DEF ReadResource, Owns
  <2> QED
    BY <1>14, <2>1, Zenon DEF ReadResource, OwnerInv
<1>15. ASSUME NEW d \in DispatchWorkers,
              \/ \E r \in Resources : DispatchGet(d, r)
              \/ RLock(d) \/ ReadMissing(d) \/ Dispatch(d) \/ DispatchDone(d)
       PROVE  OwnerInv'
  BY <1>15, OwnerUnchanged, Zenon
     DEF DispatchGet, RLock, ReadMissing, Dispatch, DispatchDone, ownerVars
<1>16. CASE Release \/ UNCHANGED vars
  BY <1>16, OwnerUnchanged, Zenon DEF Release, IQ!Ripen, vars, ownerVars
<1> QED
  BY <1>1, <1>2, <1>3, <1>4, <1>5, <1>6, <1>7, <1>8, <1>9, <1>10, <1>11, <1>12, <1>13,
     <1>14, <1>15, <1>16, Zenon DEF Next, Start, IngressWorker, DispatchWorker
=============================================================================
