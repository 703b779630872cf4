-------------------------- MODULE WorkQueueProofs --------------------------
(***************************************************************************)
(* For every set of items and workers, the client-go queue keeps its       *)
(* documented invariant, gives an item to one worker at a time, and        *)
(* implements the keyed work set.                                          *)
(***************************************************************************)
EXTENDS WorkQueue, TLAPS

\* What Append does to the elements of a queue without duplicates.
LEMMA AppendElements ==
  ASSUME NEW S, NEW s \in Seq(S), NEW x \in S
  PROVE  /\ Append(s, x) \in Seq(S)
         /\ Elements(Append(s, x)) = Elements(s) \cup {x}
         /\ (\A i, j \in 1..Len(s) : s[i] = s[j] => i = j) /\ x \notin Elements(s)
            => \A i, j \in 1..Len(Append(s, x)) :
                 Append(s, x)[i] = Append(s, x)[j] => i = j
<1>1. Append(s, x) \in Seq(S) /\ Len(Append(s, x)) = Len(s) + 1 /\ Len(s) \in Nat
  OBVIOUS
<1>2. \A i \in 1..Len(s) : Append(s, x)[i] = s[i]
  OBVIOUS
<1>3. Append(s, x)[Len(s) + 1] = x
  OBVIOUS
<1>4. 1..(Len(s) + 1) = (1..Len(s)) \cup {Len(s) + 1}
  BY <1>1
<1>5. Elements(Append(s, x)) = Elements(s) \cup {x}
  BY <1>1, <1>2, <1>3, <1>4 DEF Elements
<1>6. ASSUME \A i, j \in 1..Len(s) : s[i] = s[j] => i = j, x \notin Elements(s),
             NEW i \in 1..(Len(s) + 1), NEW j \in 1..(Len(s) + 1),
             Append(s, x)[i] = Append(s, x)[j]
      PROVE  i = j
  BY <1>1, <1>2, <1>3, <1>4, <1>6 DEF Elements
<1>7. QED
  BY <1>1, <1>5, <1>6

\* Tail removes exactly the head when the queue has no duplicates.
LEMMA TailElements ==
  ASSUME NEW S, NEW s \in Seq(S), s # << >>,
         \A i, j \in 1..Len(s) : s[i] = s[j] => i = j
  PROVE  /\ Tail(s) \in Seq(S)
         /\ Head(s) \in S
         /\ Head(s) \in Elements(s)
         /\ Elements(Tail(s)) = Elements(s) \ {Head(s)}
         /\ \A i, j \in 1..Len(Tail(s)) : Tail(s)[i] = Tail(s)[j] => i = j
<1>1. Len(s) \in Nat /\ Len(s) > 0 /\ Tail(s) \in Seq(S) /\ Len(Tail(s)) = Len(s) - 1
  OBVIOUS
<1>2. \A i \in 1..(Len(s) - 1) : Tail(s)[i] = s[i + 1]
  BY <1>1
<1>3. Head(s) = s[1] /\ Head(s) \in S
  BY <1>1
<1>4. Elements(Tail(s)) \subseteq Elements(s) \ {Head(s)}
  <2> SUFFICES ASSUME NEW i \in 1..(Len(s) - 1)
               PROVE  Tail(s)[i] \in Elements(s) /\ Tail(s)[i] # Head(s)
    BY <1>1 DEF Elements
  <2>1. i + 1 \in 1..Len(s) /\ 1 \in 1..Len(s) /\ i + 1 # 1
    BY <1>1
  <2> QED
    BY <2>1, <1>2, <1>3 DEF Elements
<1>5. Elements(s) \ {Head(s)} \subseteq Elements(Tail(s))
  <2> SUFFICES ASSUME NEW i \in 1..Len(s), s[i] # Head(s)
               PROVE  s[i] \in Elements(Tail(s))
    BY DEF Elements
  <2>1. i # 1 /\ i - 1 \in 1..(Len(s) - 1) /\ (i - 1) + 1 = i
    BY <1>1, <1>3
  <2>2. Tail(s)[i - 1] = s[i]
    BY <2>1, <1>2
  <2> QED
    BY <2>1, <2>2, <1>1 DEF Elements
<1>6. ASSUME NEW i \in 1..(Len(s) - 1), NEW j \in 1..(Len(s) - 1),
             Tail(s)[i] = Tail(s)[j]
      PROVE  i = j
  <2>1. i + 1 \in 1..Len(s) /\ j + 1 \in 1..Len(s)
    BY <1>1
  <2>2. s[i + 1] = s[j + 1]
    BY <1>2, <1>6
  <2>3. i + 1 = j + 1
    BY <2>1, <2>2
  <2> QED
    BY <2>3
<1>7. Head(s) \in Elements(s)
  BY <1>1, <1>3 DEF Elements
<1>8. QED
  BY <1>1, <1>3, <1>4, <1>5, <1>6, <1>7
-----------------------------------------------------------------------------
\* Insert, the body of Add and of the waiting loop, keeps queue and dirty in step.
LEMMA InsertStep ==
  ASSUME QueueInv, NEW x \in Items, Insert(x), UNCHANGED processing
  PROVE  /\ queue' \in Seq(Items)
         /\ dirty' \subseteq Items
         /\ QueueIsDirtyIdle'
<1>1. CASE shuttingDown \/ x \in dirty
  BY <1>1 DEF QueueInv, TypeOK, QueueIsDirtyIdle, Insert, Elements
<1>2. CASE ~(shuttingDown \/ x \in dirty) /\ x \in processing
  BY <1>2 DEF QueueInv, TypeOK, QueueIsDirtyIdle, Insert, Elements
<1>3. CASE ~(shuttingDown \/ x \in dirty) /\ x \notin processing
  <2>1. queue' = Append(queue, x) /\ dirty' = dirty \cup {x} /\ queue \in Seq(Items)
    BY <1>3 DEF Insert, QueueInv, TypeOK
  <2>2. x \notin Elements(queue)
    BY <1>3 DEF QueueInv, QueueIsDirtyIdle
  <2>3. /\ queue' \in Seq(Items)
        /\ Elements(queue') = Elements(queue) \cup {x}
        /\ \A i, j \in 1..Len(queue') : queue'[i] = queue'[j] => i = j
    BY <2>1, <2>2, AppendElements DEF QueueInv, QueueIsDirtyIdle
  <2>4. Elements(queue') = dirty' \ processing'
    BY <1>3, <2>1, <2>3 DEF QueueInv, QueueIsDirtyIdle
  <2>5. Elements(queue)' = Elements(queue')
    BY DEF Elements
  <2> QED
    BY <2>1, <2>3, <2>4, <2>5 DEF QueueIsDirtyIdle, QueueInv, TypeOK
<1>4. QED
  BY <1>1, <1>2, <1>3

\* QueueInv is inductive.
LEMMA QueueInvStep == QueueInv /\ [Next]_vars => QueueInv'
<1> SUFFICES ASSUME QueueInv, [Next]_vars PROVE QueueInv'
  OBVIOUS
<1> USE NoneAssumption
<1>1. ASSUME NEW x \in Items, Add(x) PROVE QueueInv'
  <2>1. queue' \in Seq(Items) /\ dirty' \subseteq Items /\ QueueIsDirtyIdle'
    BY <1>1, InsertStep DEF Add
  <2> QED
    BY <1>1, <2>1 DEF Add, QueueInv, TypeOK, OneHolder
<1>2. ASSUME NEW x \in Items, WaitingLoop(x) PROVE QueueInv'
  <2>1. queue' \in Seq(Items) /\ dirty' \subseteq Items /\ QueueIsDirtyIdle'
    BY <1>2, InsertStep DEF WaitingLoop
  <2> QED
    BY <1>2, <2>1 DEF WaitingLoop, QueueInv, TypeOK, OneHolder
<1>3. ASSUME NEW w \in Workers, Get(w) PROVE QueueInv'
  <2> DEFINE h == Head(queue)
  <2>1. /\ queue' \in Seq(Items)
        /\ h \in Items
        /\ h \in Elements(queue)
        /\ Elements(queue') = Elements(queue) \ {h}
        /\ \A i, j \in 1..Len(queue') : queue'[i] = queue'[j] => i = j
    BY <1>3, TailElements DEF Get, QueueInv, TypeOK, QueueIsDirtyIdle
  <2>2. h \notin processing
    BY <2>1 DEF QueueInv, QueueIsDirtyIdle
  <2>3. item[w] = None
    BY <1>3 DEF Get, QueueInv
  <2>4. QueueIsDirtyIdle'
    <3>1. Elements(queue)' = Elements(queue')
      BY DEF Elements
    <3>2. Elements(queue') = dirty' \ processing'
      BY <1>3, <2>1 DEF Get, QueueInv, QueueIsDirtyIdle
    <3> QED
      BY <3>1, <3>2, <2>1 DEF QueueIsDirtyIdle
  <2>5. OneHolder'
    <3>1. \A v \in Workers : item'[v] = IF v = w THEN h ELSE item[v]
      BY <1>3 DEF Get, QueueInv, TypeOK
    <3>2. \A v \in Workers : item[v] # h
      BY <2>1, <2>2 DEF QueueInv, OneHolder
    <3>3. processing' = processing \cup {h}
      BY <1>3 DEF Get
    <3>4. {item'[v] : v \in Workers} \ {None} = ({item[v] : v \in Workers} \ {None}) \cup {h}
      BY <3>1, <2>1, <2>3
    <3> QED
      BY <3>1, <3>2, <3>3, <3>4 DEF QueueInv, OneHolder
  <2>6. TypeOK'
    BY <1>3, <2>1 DEF Get, QueueInv, TypeOK
  <2>7. \A v \in Workers : item'[v] # None <=> wpc'[v] \in {"working", "failed"}
    BY <1>3, <2>1 DEF Get, QueueInv, TypeOK
  <2> QED
    BY <2>4, <2>5, <2>6, <2>7 DEF QueueInv
<1>4. ASSUME NEW w \in Workers, GetQuit(w) PROVE QueueInv'
  BY <1>4 DEF GetQuit, QueueInv, TypeOK, QueueIsDirtyIdle, OneHolder, Elements
<1>5. ASSUME NEW w \in Workers, AddRateLimited(w) PROVE QueueInv'
  <2>1. item[w] \in Items
    BY <1>5 DEF AddRateLimited, QueueInv, TypeOK
  <2> QED
    BY <1>5, <2>1 DEF AddRateLimited, QueueInv, TypeOK, QueueIsDirtyIdle, OneHolder, Elements
<1>6. ASSUME NEW w \in Workers, Done(w) PROVE QueueInv'
  <2> DEFINE x == item[w]
  <2>1. x \in Items /\ x \in processing
    BY <1>6 DEF Done, QueueInv, TypeOK, OneHolder
  <2>2. x \notin Elements(queue)
    BY <2>1 DEF QueueInv, QueueIsDirtyIdle
  <2>3. QueueIsDirtyIdle' /\ queue' \in Seq(Items)
    <3>1. Elements(queue)' = Elements(queue')
      BY DEF Elements
    <3>2. CASE x \in dirty
      <4>1. queue' = Append(queue, x)
        BY <1>6, <3>2 DEF Done
      <4>2. /\ queue' \in Seq(Items)
            /\ Elements(queue') = Elements(queue) \cup {x}
            /\ \A i, j \in 1..Len(queue') : queue'[i] = queue'[j] => i = j
        BY <4>1, <2>1, <2>2, AppendElements DEF QueueInv, TypeOK, QueueIsDirtyIdle
      <4>3. Elements(queue') = dirty' \ processing'
        BY <1>6, <3>2, <4>2 DEF Done, QueueInv, QueueIsDirtyIdle
      <4> QED
        BY <3>1, <4>2, <4>3 DEF QueueIsDirtyIdle
    <3>3. CASE x \notin dirty
      <4>1. queue' = queue
        BY <1>6, <3>3 DEF Done
      <4>2. Elements(queue) = dirty' \ processing'
        BY <1>6, <3>3 DEF Done, QueueInv, QueueIsDirtyIdle
      <4> QED
        BY <3>1, <4>1, <4>2 DEF QueueIsDirtyIdle, QueueInv, TypeOK
    <3> QED
      BY <3>2, <3>3
  <2>4. OneHolder'
    <3>1. \A v \in Workers : item'[v] = IF v = w THEN None ELSE item[v]
      BY <1>6 DEF Done, QueueInv, TypeOK
    <3>2. processing' = processing \ {x}
      BY <1>6 DEF Done
    <3>3. \A v \in Workers : v # w => item[v] # x
      BY <2>1 DEF QueueInv, OneHolder
    <3>4. {item'[v] : v \in Workers} \ {None} = ({item[v] : v \in Workers} \ {None}) \ {x}
      BY <3>1, <3>3
    <3> QED
      BY <3>1, <3>2, <3>4 DEF QueueInv, OneHolder
  <2>5. TypeOK'
    BY <1>6, <2>3 DEF Done, QueueInv, TypeOK
  <2>6. \A v \in Workers : item'[v] # None <=> wpc'[v] \in {"working", "failed"}
    BY <1>6 DEF Done, QueueInv, TypeOK
  <2> QED
    BY <2>3, <2>4, <2>5, <2>6 DEF QueueInv
<1>7. ASSUME ShutDown PROVE QueueInv'
  <2>1. TypeOK' /\ OneHolder'
    BY <1>7 DEF ShutDown, QueueInv, TypeOK, OneHolder
  <2>2. QueueIsDirtyIdle'
    BY <1>7 DEF ShutDown, QueueInv, QueueIsDirtyIdle, Elements
  <2> QED
    BY <1>7, <2>1, <2>2 DEF ShutDown, QueueInv
<1>8. CASE UNCHANGED vars
  BY <1>8 DEF vars, QueueInv, TypeOK, QueueIsDirtyIdle, OneHolder, Elements
<1>9. QED
  BY <1>1, <1>2, <1>3, <1>4, <1>5, <1>6, <1>7, <1>8 DEF Next

(* The inductive invariant of the queue and its workers holds initially    *)
(* and after every Add, Get, Done, AddRateLimited and ShutDown.            *)
LEMMA QueueInvariant == Spec => []QueueInv
<1>1. Init => QueueInv
  <2> SUFFICES ASSUME Init PROVE QueueInv
    OBVIOUS
  <2> USE NoneAssumption DEF Init
  <2>1. TypeOK
    <3>1. shuttingDown \in BOOLEAN
      BY Zenon
    <3>2. queue \in Seq(Items)
      BY DEF Init
    <3> QED
      BY <3>1, <3>2, Zenon DEF TypeOK
  <2>2. QueueIsDirtyIdle
    BY DEF QueueIsDirtyIdle, Elements
  <2>3. OneHolder
    BY DEF OneHolder
  <2> QED
    BY <2>1, <2>2, <2>3 DEF QueueInv
<1>2. QED
  BY <1>1, QueueInvStep, PTL DEF Spec

(* The documented invariant of the queue and the exclusiveness of workers  *)
(* hold for all items and workers: Add, Get and Done never lose a key that *)
(* needs work and never give one key to two workers.                       *)
THEOREM QueueCorrect == Spec => [](TypeOK /\ QueueIsDirtyIdle /\ OneHolder)
<1>1. QueueInv => TypeOK /\ QueueIsDirtyIdle /\ OneHolder
  BY DEF QueueInv
<1>2. QED
  BY <1>1, QueueInvariant, PTL

(* For all items and workers the queue holds, once each, exactly the keys  *)
(* that are dirty and in nobody's processing set: insert skips a key that  *)
(* is dirty, and Done brings back one that was added while it was held.    *)
THEOREM QueueHoldsDirty == Spec => []QueueIsDirtyIdle
<1>1. QueueInv => QueueIsDirtyIdle
  BY DEF QueueInv
<1>2. QED
  BY <1>1, QueueInvariant, PTL

(* Every step of the FIFO queue is a step of the keyed work set with dirty *)
(* for its pending keys, or leaves the work set unchanged.                 *)
THEOREM QueueImplementsKeyedWork == Spec => ImplementsKeyedWork
<1>1. Init => KW!KWInit
  BY DEF Init, KW!KWInit
<1>2. QueueInv /\ [Next]_vars => [KW!KWNext]_(KW!kwVars)
  <2> SUFFICES ASSUME QueueInv, [Next]_vars
               PROVE  KW!KWNext \/ UNCHANGED KW!kwVars
    OBVIOUS
  <2> USE NoneAssumption DEF KW!kwVars
  <2>1. ASSUME NEW x \in Items, Add(x) PROVE KW!Add({x}) \/ UNCHANGED KW!kwVars
    BY <2>1 DEF Add, Insert, KW!Add
  <2>2. ASSUME NEW x \in Items, WaitingLoop(x) PROVE KW!Ripen(x)
    BY <2>2 DEF WaitingLoop, Insert, KW!Ripen
  <2>3. ASSUME NEW w \in Workers, Get(w) PROVE \E x \in Items : KW!Take(w, x)
    <3> DEFINE h == Head(queue)
    <3>1. h \in Items /\ h \in Elements(queue)
      BY <2>3, TailElements DEF Get, QueueInv, TypeOK, QueueIsDirtyIdle
    <3>2. h \in dirty \ KW!Held
      BY <3>1 DEF QueueInv, QueueIsDirtyIdle, OneHolder, KW!Held
    <3>3. item[w] = None
      BY <2>3 DEF Get, QueueInv
    <3>4. KW!Take(w, h)
      BY <2>3, <3>2, <3>3 DEF Get, KW!Take
    <3> QED
      BY <3>1, <3>4
  <2>4. ASSUME NEW w \in Workers, AddRateLimited(w)
        PROVE  KW!Retry(w) \/ UNCHANGED KW!kwVars
    BY <2>4 DEF AddRateLimited, KW!Retry, QueueInv
  <2>5. ASSUME NEW w \in Workers, Done(w) PROVE KW!Finish(w)
    BY <2>5 DEF Done, KW!Finish, QueueInv
  <2>6. ASSUME NEW w \in Workers, GetQuit(w) PROVE UNCHANGED KW!kwVars
    BY <2>6 DEF GetQuit
  <2>7. CASE ShutDown \/ UNCHANGED vars
    BY <2>7 DEF ShutDown, vars
  <2> QED
    BY <2>1, <2>2, <2>3, <2>4, <2>5, <2>6, <2>7 DEF Next, KW!KWNext
<1>3. QED
  BY <1>1, <1>2, QueueInvariant, PTL DEF Spec, ImplementsKeyedWork, KW!KWSpec
=============================================================================
