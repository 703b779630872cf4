------------------------- MODULE ObjectDeliveryTypes -------------------------
EXTENDS ObjectDelivery, SequenceTheorems, FiniteSetTheorems, WellFoundedInduction, TLAPS

Elements(s) == {s[i] : i \in 1..Len(s)}

\* The elements of s come in an order of the relation R.
Ordered(s, R) == \A i, j \in 1..Len(s) : i < j => <<s[i], s[j]>> \in R

LEMMA ElementTypes ==
  ASSUME NEW S, NEW s \in Seq(S)
  PROVE  \A x \in Elements(s) : x \in S
  BY ElementOfSeq DEF Elements

LEMMA EmptySequence ==
  ASSUME NEW S, NEW R
  PROVE  /\ << >> \in Seq(S) /\ Len(<< >>) = 0
         /\ Elements(<< >>) = {} /\ Ordered(<< >>, R)
<1>1. << >> \in Seq(S) /\ Len(<< >>) = 0 /\ 1..0 = {}
  OBVIOUS
<1> QED
  BY <1>1, Zenon DEF Elements, Ordered

LEMMA AppendedSequence ==
  ASSUME NEW S, NEW R, NEW s \in Seq(S), NEW x \in S
  PROVE  /\ Append(s, x) \in Seq(S) /\ Len(Append(s, x)) = Len(s) + 1
         /\ Elements(Append(s, x)) = Elements(s) \cup {x}
         /\ Ordered(s, R) /\ (\A y \in Elements(s) : <<y, x>> \in R) => Ordered(Append(s, x), R)
<1> DEFINE t == Append(s, x)
<1>1. /\ t \in Seq(S) /\ Len(s) \in Nat /\ Len(t) = Len(s) + 1
      /\ t[Len(s) + 1] = x /\ \A i \in 1..Len(s) : t[i] = s[i]
  BY AppendProperties, LenProperties
<1> HIDE DEF t
<1>2. Elements(t) = Elements(s) \cup {x}
  BY <1>1 DEF Elements
<1>3. ASSUME Ordered(s, R), \A y \in Elements(s) : <<y, x>> \in R,
             NEW i \in 1..Len(t), NEW j \in 1..Len(t), i < j
      PROVE  <<t[i], t[j]>> \in R
  <2>1. i \in 1..Len(s) /\ (j \in 1..Len(s) \/ j = Len(s) + 1)
    BY <1>1, <1>3
  <2>2. CASE j \in 1..Len(s)
    BY <1>1, <1>3, <2>1, <2>2, Zenon DEF Ordered
  <2>3. CASE j = Len(s) + 1
    BY <1>1, <1>3, <2>1, <2>3, Zenon DEF Elements
  <2> QED
    BY <2>1, <2>2, <2>3, Zenon
<1> QED
  BY <1>1, <1>2, <1>3, Zenon DEF Ordered, t

LEMMA RestOfSequence ==
  ASSUME NEW S, NEW R, NEW s \in Seq(S), s # << >>
  PROVE  /\ Tail(s) \in Seq(S) /\ Len(Tail(s)) = Len(s) - 1
         /\ Head(s) \in S /\ Head(s) \in Elements(s)
         /\ Elements(Tail(s)) \subseteq Elements(s)
         /\ Elements(s) \subseteq Elements(Tail(s)) \cup {Head(s)}
         /\ Ordered(s, R) => /\ Ordered(Tail(s), R)
                             /\ \A y \in Elements(Tail(s)) : <<Head(s), y>> \in R
<1> DEFINE t == Tail(s)
<1>1. /\ t \in Seq(S) /\ Len(s) \in Nat \ {0} /\ Len(t) = Len(s) - 1
      /\ Head(s) = s[1] /\ s[1] \in S /\ \A i \in 1..Len(t) : t[i] = s[i + 1]
  <2>1. Len(s) \in Nat \ {0}
    BY EmptySeq, LenProperties
  <2> QED
    BY <2>1, HeadTailProperties
<1> HIDE DEF t
<1>2. 1 \in 1..Len(s) /\ \A i \in 1..Len(t) : i + 1 \in 1..Len(s) /\ 1 < i + 1
  BY <1>1
<1>3. \A i, j \in 1..Len(t) : i < j => i + 1 < j + 1
  BY <1>1
<1>4. \A i \in 1..Len(s) : i = 1 \/ \E j \in 1..Len(t) : i = j + 1
  BY <1>1
<1>5. Ordered(s, R) => Ordered(t, R) /\ \A y \in Elements(t) : <<s[1], y>> \in R
  BY <1>1, <1>2, <1>3 DEF Ordered, Elements
<1>6. Elements(t) \subseteq Elements(s) /\ s[1] \in Elements(s)
  BY <1>1, <1>2 DEF Elements
<1>7. Elements(s) \subseteq Elements(t) \cup {s[1]}
  <2> SUFFICES ASSUME NEW i \in 1..Len(s), i # 1 PROVE s[i] \in Elements(t)
    BY Zenon DEF Elements
  <2>1. PICK j \in 1..Len(t) : i = j + 1
    BY <1>4, Zenon
  <2>2. s[i] = t[j]
    BY <1>1, <2>1, Zenon
  <2> QED
    BY <2>2, Zenon DEF Elements
<1> QED
  BY <1>1, <1>5, <1>6, <1>7, Zenon DEF t

\* The same of messages, in the form it is used in.
LEMMA RestOfMessages ==
  ASSUME NEW s \in Seq(Message), s # << >>
  PROVE  /\ Head(s) \in Message /\ Head(s) \in Elements(s)
         /\ Elements(Tail(s)) \subseteq Elements(s)
         /\ \A R : Ordered(s, R) => /\ Ordered(Tail(s), R)
                                    /\ \A y \in Elements(Tail(s)) : <<Head(s), y>> \in R
<1> SUFFICES ASSUME NEW R
             PROVE  /\ Head(s) \in Message /\ Head(s) \in Elements(s)
                    /\ Elements(Tail(s)) \subseteq Elements(s)
                    /\ Ordered(s, R) => /\ Ordered(Tail(s), R)
                                        /\ \A y \in Elements(Tail(s)) : <<Head(s), y>> \in R
  OBVIOUS
<1> QED
  BY RestOfSequence

LEMMA MoreMessages ==
  ASSUME NEW s \in Seq(Message), NEW x \in Message
  PROVE  /\ Elements(Append(s, x)) = Elements(s) \cup {x}
         /\ \A R : Ordered(s, R) /\ (\A y \in Elements(s) : <<y, x>> \in R) => Ordered(Append(s, x), R)
<1> SUFFICES ASSUME NEW R
             PROVE  /\ Elements(Append(s, x)) = Elements(s) \cup {x}
                    /\ Ordered(s, R) /\ (\A y \in Elements(s) : <<y, x>> \in R) => Ordered(Append(s, x), R)
  OBVIOUS
<1> QED
  BY AppendedSequence

LEMMA PartOfSequence ==
  ASSUME NEW S, NEW R, NEW s \in Seq(S), NEW m \in 1..(Len(s) + 1), NEW n \in 0..Len(s)
  PROVE  /\ SubSeq(s, m, n) \in Seq(S)
         /\ Len(SubSeq(s, m, n)) <= Len(s)
         /\ Elements(SubSeq(s, m, n)) \subseteq Elements(s)
         /\ Ordered(s, R) => Ordered(SubSeq(s, m, n), R)
<1> DEFINE t == SubSeq(s, m, n)
<1>0. Len(s) \in Nat /\ \A i \in 1..Len(s) : s[i] \in S
  BY LenProperties, ElementOfSeq
<1>1. /\ t \in Seq(S) /\ Len(t) = IF m <= n THEN n - m + 1 ELSE 0
      /\ \A i \in 1..(n - m + 1) : t[i] = s[m + i - 1]
  <2>1. \A i \in m..n : s[i] \in S
    BY <1>0
  <2>2. m \in Int /\ n \in Int
    BY <1>0
  <2> QED
    BY <2>1, <2>2, SubSeqProperties
<1> HIDE DEF t
<1>2. \A i \in 1..Len(t) : t[i] = s[m + i - 1] /\ m + i - 1 \in 1..Len(s)
  BY <1>0, <1>1
<1>3. \A i, j \in 1..Len(t) : i < j => m + i - 1 < m + j - 1
  BY <1>0, <1>1
<1>4. Len(t) <= Len(s)
  BY <1>0, <1>1
<1>5. Ordered(s, R) => Ordered(t, R)
  BY <1>2, <1>3, Zenon DEF Ordered
<1>6. Elements(t) \subseteq Elements(s)
  BY <1>2, Zenon DEF Elements
<1> QED
  BY <1>1, <1>4, <1>5, <1>6, Zenon DEF t

\* The message that comes i-th is taken out.
Without(s, i) == SubSeq(s, 1, i - 1) \o SubSeq(s, i + 1, Len(s))

LEMMA WithoutOne ==
  ASSUME NEW S, NEW R, NEW s \in Seq(S), NEW i \in 1..Len(s)
  PROVE  /\ Without(s, i) \in Seq(S) /\ Len(Without(s, i)) = Len(s) - 1
         /\ \A j \in 1..(Len(s) - 1) : Without(s, i)[j] = IF j < i THEN s[j] ELSE s[j + 1]
         /\ Elements(Without(s, i)) \subseteq Elements(s)
         /\ Ordered(s, R) => Ordered(Without(s, i), R)
<1> DEFINE a == SubSeq(s, 1, i - 1)
           b == SubSeq(s, i + 1, Len(s))
           t == a \o b
<1>0. Len(s) \in Nat /\ \A j \in 1..Len(s) : s[j] \in S
  BY LenProperties, ElementOfSeq
<1>1. a \in Seq(S) /\ Len(a) = i - 1 /\ \A j \in 1..(i - 1) : a[j] = s[j]
  <2>1. \A j \in 1..(i - 1) : s[j] \in S
    BY <1>0
  <2>2. 1 \in Int /\ i - 1 \in Int
    BY <1>0
  <2>3. /\ a \in Seq(S) /\ Len(a) = IF 1 <= i - 1 THEN (i - 1) - 1 + 1 ELSE 0
        /\ \A j \in 1..((i - 1) - 1 + 1) : a[j] = s[1 + j - 1]
    BY <2>1, <2>2, SubSeqProperties
  <2> HIDE DEF a
  <2> QED
    BY <1>0, <2>3
<1>2. b \in Seq(S) /\ Len(b) = Len(s) - i /\ \A j \in 1..(Len(s) - i) : b[j] = s[i + j]
  <2>1. \A j \in (i + 1)..Len(s) : s[j] \in S
    BY <1>0
  <2>2. i + 1 \in Int /\ Len(s) \in Int
    BY <1>0
  <2>3. /\ b \in Seq(S) /\ Len(b) = IF i + 1 <= Len(s) THEN Len(s) - (i + 1) + 1 ELSE 0
        /\ \A j \in 1..(Len(s) - (i + 1) + 1) : b[j] = s[(i + 1) + j - 1]
    BY <2>1, <2>2, SubSeqProperties
  <2> HIDE DEF b
  <2> QED
    BY <1>0, <2>3
<1> HIDE DEF a, b
<1>3. /\ t \in Seq(S) /\ Len(t) = Len(a) + Len(b)
      /\ \A j \in 1..(Len(a) + Len(b)) : t[j] = IF j <= Len(a) THEN a[j] ELSE b[j - Len(a)]
  BY <1>1, <1>2, ConcatProperties
<1> HIDE DEF t
<1>4. Len(t) = Len(s) - 1 /\ \A j \in 1..(Len(s) - 1) : t[j] = IF j < i THEN s[j] ELSE s[j + 1]
  <2>1. Len(a) + Len(b) = Len(s) - 1
    BY <1>0, <1>1, <1>2
  <2> SUFFICES ASSUME NEW j \in 1..(Len(s) - 1)
               PROVE  t[j] = IF j < i THEN s[j] ELSE s[j + 1]
    BY <2>1, <1>3, Zenon
  <2>2. CASE j < i
    <3>1. j \in 1..(i - 1) /\ j <= Len(a)
      BY <1>0, <1>1, <2>2
    <3> QED
      BY <1>1, <1>3, <2>1, <2>2, <3>1, Zenon
  <2>3. CASE ~(j < i)
    <3>1. j - Len(a) \in 1..(Len(s) - i) /\ ~(j <= Len(a)) /\ i + (j - Len(a)) = j + 1
      BY <1>0, <1>1, <2>3
    <3>2. t[j] = b[j - Len(a)]
      BY <1>3, <2>1, <3>1, Zenon
    <3>3. b[j - Len(a)] = s[i + (j - Len(a))]
      BY <1>2, <3>1, Zenon
    <3> QED
      BY <2>3, <3>1, <3>2, <3>3, Zenon
  <2> QED
    BY <2>2, <2>3, Zenon
<1>5. Elements(t) \subseteq Elements(s)
  BY <1>0, <1>4 DEF Elements
<1>6. ASSUME Ordered(s, R), NEW j \in 1..Len(t), NEW l \in 1..Len(t), j < l
      PROVE  <<t[j], t[l]>> \in R
  <2> DEFINE f(x) == IF x < i THEN x ELSE x + 1
  <2>1. f(j) \in 1..Len(s) /\ f(l) \in 1..Len(s) /\ f(j) < f(l)
    BY <1>0, <1>4, <1>6
  <2>2. t[j] = s[f(j)] /\ t[l] = s[f(l)]
    BY <1>0, <1>4
  <2> QED
    BY <1>6, <2>1, <2>2, Zenon DEF Ordered
<1> QED
  BY <1>3, <1>4, <1>5, <1>6, Zenon DEF Without, Ordered, t, a, b
-----------------------------------------------------------------------------
(* Types.                                                                  *)

LoopRecord == [pc : {"get", "send", "wait", "save", "status", "unsave"}, msg : Message \cup {None},
               current : BOOLEAN, retry : 0..MaxRetry]

CloudTypes ==
  /\ api \in [Keys -> Object \cup {None}] /\ clock \in 0..MaxVersion
  /\ events \in [Kinds -> Seq(Event)]
  /\ \A n \in Kinds : \A e \in Elements(events[n]) : Kind(e.key) = n
  /\ cachedPods \in [UIDs -> 0..MaxVersion]
  /\ located \subseteq ConfigMaps \cup Secrets
HubTypes ==
  /\ toHub \in Seq(Message) /\ Len(toHub) <= ChannelSize
  /\ dirty \subseteq Keys /\ delayed \subseteq Keys
  /\ nodeStore \in [Keys -> Message \cup {None}]
  /\ \A k \in Keys : nodeStore[k] # None => nodeStore[k].key = k
LoopTypes == loop \in LoopRecord /\ (loop.msg = None <=> loop.pc = "get")
RecordTypes ==
  /\ sync \in [UIDs -> Hub!ObjectSync \cup {None}]
  /\ syncSeen \in [UIDs -> Hub!ObjectSync \cup {None}]
WireTypes ==
  /\ conn \in {"up", "dead", "closed"} /\ faults \in 0..MaxFaults
  /\ down \in Seq(Message) /\ Len(down) <= LinkSize
  /\ up \in Seq(Message) /\ Len(up) <= LinkSize
EdgeTypes ==
  /\ meta \in [Keys -> Edge!Saved \cup {None}]
  /\ managing \in Message \cup {None} /\ lost \subseteq Keys

Typed == CloudTypes /\ HubTypes /\ LoopTypes /\ RecordTypes /\ WireTypes /\ EdgeTypes

\* The three instances have the messages of ObjectMessages.
LEMMA SameMessages ==
  /\ Hub!Keys = Keys /\ Edge!Keys = Keys /\ Hub!UIDs = UIDs /\ Edge!UIDs = UIDs
  /\ Hub!MessageIDs = MessageIDs /\ Hub!Message = Message
  /\ \A op, k, o : Syncer!NewMessage(op, k, o) = NewMessage(op, k, o)
<1>1. /\ Hub!Keys = Keys /\ Edge!Keys = Keys /\ Hub!UIDs = UIDs /\ Edge!UIDs = UIDs
      /\ Hub!MessageIDs = MessageIDs
  BY Zenon DEF Hub!Keys, Edge!Keys, Keys, Hub!UIDs, Edge!UIDs, UIDs, Hub!MessageIDs, MessageIDs
<1>2. Hub!Message = Message
  BY <1>1, Zenon DEF Hub!Message, Message
<1> QED
  BY <1>1, <1>2, Zenon DEF Syncer!NewMessage, NewMessage

LEMMA TypedIsTypeOK == Typed => TypeOK
<1> SUFFICES ASSUME Typed PROVE TypeOK
  OBVIOUS
<1>1. ECTypeOK
  BY Zenon DEF Typed, CloudTypes, HubTypes, ECTypeOK
<1>2. Hub!CHTypeOK
  <2>1. loop.pc \in {"get", "send", "wait", "save", "status", "unsave"} /\ loop.msg \in Message \cup {None}
        /\ loop.current \in BOOLEAN /\ loop.retry \in 0..MaxRetry
    BY Zenon DEF Typed, LoopTypes, LoopRecord
  <2>2. {sync, syncSeen} \subseteq [UIDs -> Hub!ObjectSync \cup {None}]
    BY Zenon DEF Typed, RecordTypes
  <2> QED
    BY <2>1, <2>2, SameMessages, Zenon DEF Typed, HubTypes, LoopTypes, WireTypes, Hub!CHTypeOK
<1> QED
  BY <1>1, <1>2, SameMessages, Zenon DEF Typed, EdgeTypes, TypeOK, Edge!ESTypeOK

LEMMA SmallNumbers == MaxVersion \in Nat /\ LinkSize \in Nat \ {0} /\ ChannelSize \in Nat \ {0} /\ MaxRetry \in Nat /\ MaxFaults \in Nat
  BY BoundsAssumption, RetryAssumption

LEMMA KindIsKind == \A k \in Keys : Kind(k) \in Kinds
  BY DEF Kind, Kinds

LEMMA NewMessageType ==
  ASSUME NEW op \in {"insert", "update", "delete"}, NEW k \in Keys, NEW o \in Object
  PROVE  /\ NewMessage(op, k, o) \in Message
         /\ NewMessage(op, k, o).op = op /\ NewMessage(op, k, o).key = k
         /\ NewMessage(op, k, o).uid = o.uid /\ NewMessage(op, k, o).rv = o.rv
         /\ NewMessage(op, k, o).terminating = o.terminating
<1>1. 0 \in MessageIDs
  BY SmallNumbers DEF MessageIDs
<1> QED
  BY <1>1 DEF NewMessage, Message, Object

LEMMA IdleIs ==
  /\ Hub!Idle \in LoopRecord /\ Hub!Idle.pc = "get" /\ Hub!Idle.msg = None
<1>1. 0 \in 0..MaxRetry
  BY SmallNumbers
<1> QED
  BY <1>1, Zenon DEF Hub!Idle, LoopRecord

LEMMA LoopGoes ==
  ASSUME NEW l \in LoopRecord, NEW p \in {"get", "send", "wait", "save", "status", "unsave"}
  PROVE  /\ [l EXCEPT !.pc = p] \in LoopRecord
         /\ [l EXCEPT !.pc = p].pc = p /\ [l EXCEPT !.pc = p].msg = l.msg
         /\ [l EXCEPT !.pc = p].current = l.current
  BY DEF LoopRecord

LEMMA LoopTakes ==
  ASSUME NEW m \in Message
  PROVE  LET l == [Hub!Idle EXCEPT !.pc = "send", !.msg = m]
         IN  l \in LoopRecord /\ l.pc = "send" /\ l.msg = m
<1> PICK i \in LoopRecord : i = Hub!Idle
  BY IdleIs, Zenon
<1>1. LET l == [i EXCEPT !.pc = "send", !.msg = m]
      IN  l \in LoopRecord /\ l.pc = "send" /\ l.msg = m
  BY DEF LoopRecord
<1> QED
  BY <1>1, Zenon

LEMMA LoopRetries ==
  ASSUME NEW l \in LoopRecord, l.retry < MaxRetry
  PROVE  LET n == [l EXCEPT !.retry = @ + 1]
         IN  n \in LoopRecord /\ n.pc = l.pc /\ n.msg = l.msg
  BY SmallNumbers DEF LoopRecord

LEMMA LoopConnects ==
  ASSUME NEW l \in LoopRecord, NEW b \in BOOLEAN
  PROVE  LET n == [l EXCEPT !.current = b]
         IN  n \in LoopRecord /\ n.pc = l.pc /\ n.msg = l.msg
  BY DEF LoopRecord

LEMMA SmallestExists ==
  ASSUME NEW S \in SUBSET Nat, S # {}
  PROVE  \E i \in S : \A j \in S : i <= j
<1>1. PICK i \in S : \A j \in S : ~ (<<j, i>> \in OpToRel(<, Nat))
  BY WFMin, NatLessThanWellFounded
<1>2. \A j \in S : ~(j < i)
  <2> SUFFICES ASSUME NEW j \in S, j < i PROVE FALSE
    OBVIOUS
  <2>1. <<j, i>> \in Nat \X Nat
    OBVIOUS
  <2>2. <<j, i>>[1] < <<j, i>>[2]
    OBVIOUS
  <2> QED
    BY <1>1, <2>1, <2>2 DEF OpToRel
<1> QED
  BY <1>2

\* At most n of n + 1 numbers are in use.
LEMMA ImageSize ==
  ASSUME NEW n \in Nat, NEW f
  PROVE  LET S == {f[i] : i \in 1..n} IN IsFiniteSet(S) /\ Cardinality(S) <= n
<1> DEFINE S == {f[i] : i \in 1..n}
           g == [i \in 1..n |-> f[i]]
<1>1. g \in Surjection(1..n, S)
  BY Zenon DEF Surjection
<1>2. IsFiniteSet(1..n) /\ Cardinality(1..n) = n
  <2>1. 1 \in Int /\ n \in Int
    OBVIOUS
  <2> QED
    BY <2>1, FS_Interval
<1> HIDE DEF g, S
<1>3. IsFiniteSet(S) /\ Cardinality(S) <= Cardinality(1..n)
  BY <1>1, <1>2, FS_Surjection, Zenon
<1> QED
  BY <1>2, <1>3, Zenon DEF S

\* cloudhub's dispatcher finds an id that tells the message apart: of the
\* messages with its contents there is one in the store, one in the loop, and
\* those under way.
LEMMA StampedIs ==
  ASSUME Typed, NEW m \in Message
  PROVE  LET n == Hub!Stamped(m)
         IN  /\ n \in Message /\ n.key = m.key /\ n.uid = m.uid /\ n.rv = m.rv
             /\ n.op = m.op /\ n.terminating = m.terminating
<1> DEFINE free == {i \in MessageIDs : [m EXCEPT !.id = i] \notin Hub!InUse}
           i0 == CHOOSE i \in free : \A j \in free : i <= j
           Ids(q) == {[j \in 1..Len(q) |-> q[j].id][i] : i \in 1..Len(q)}
           used == ({nodeStore[m.key].id, loop.msg.id} \cup Ids(down)) \cup Ids(up)
<1>t. /\ nodeStore \in [Keys -> Message \cup {None}]
      /\ \A k \in Keys : nodeStore[k] # None => nodeStore[k].key = k
      /\ down \in Seq(Message) /\ up \in Seq(Message) /\ Len(down) <= LinkSize /\ Len(up) <= LinkSize
  BY Zenon DEF Typed, HubTypes, WireTypes
<1>l. Len(down) \in Nat /\ Len(up) \in Nat /\ LinkSize \in Nat
  BY <1>t, LenProperties, SmallNumbers
<1>1. ASSUME NEW i \in MessageIDs, [m EXCEPT !.id = i] \in Hub!InUse PROVE i \in used
  <2> DEFINE x == [m EXCEPT !.id = i]
  <2>1. x.id = i /\ x.key = m.key /\ x \in Message /\ m.key \in Keys
    BY DEF Message
  <2> HIDE DEF x
  <2>2. x # None
    BY <2>1, NoneIsNothing, Zenon
  <2>3. CASE \E k \in Keys : x = nodeStore[k]
    BY <2>1, <2>2, <2>3, <1>t, Zenon
  <2>4. CASE x = loop.msg
    BY <2>1, <2>4, Zenon
  <2>5. ASSUME NEW q \in Seq(Message), NEW j \in DOMAIN q, x = q[j] PROVE i \in Ids(q)
    <3>1. DOMAIN q = 1..Len(q)
      BY LenProperties, Zenon
    <3> QED
      BY <2>1, <2>5, <3>1, Zenon
  <2>6. \/ \E k \in Keys : x = nodeStore[k]
        \/ x = loop.msg
        \/ \E j \in DOMAIN down : x = down[j]
        \/ \E j \in DOMAIN up : x = up[j]
    BY <1>1, SameMessages, Zenon DEF Hub!InUse, x
  <2> HIDE DEF Ids
  <2> QED
    BY <2>3, <2>4, <2>5, <2>6, <1>t, Zenon
<1>2. IsFiniteSet(used) /\ Cardinality(used) <= 2 * LinkSize + 2
  <2>1. \A q : Len(q) \in Nat => IsFiniteSet(Ids(q)) /\ Cardinality(Ids(q)) <= Len(q)
    BY ImageSize, Zenon
  <2>2. \A x, y : IsFiniteSet({x, y}) /\ Cardinality({x, y}) <= 2
    <3> SUFFICES ASSUME NEW x, NEW y PROVE IsFiniteSet({x, y}) /\ Cardinality({x, y}) <= 2
      OBVIOUS
    <3>1. {x, y} = {x} \cup {y}
      OBVIOUS
    <3>2. IsFiniteSet({x}) /\ Cardinality({x}) = 1
      BY FS_Singleton, Zenon
    <3>3. IsFiniteSet({x, y}) /\ Cardinality({x, y}) = IF y \in {x} THEN Cardinality({x}) ELSE Cardinality({x}) + 1
      BY <3>1, <3>2, FS_AddElement
    <3> QED
      BY <3>2, <3>3
  <2> HIDE DEF Ids
  <2> DEFINE A == {nodeStore[m.key].id, loop.msg.id}
             B == A \cup Ids(down)
  <2>3. IsFiniteSet(A) /\ IsFiniteSet(Ids(down)) /\ IsFiniteSet(Ids(up))
    BY <1>l, <2>1, <2>2, Zenon
  <2>4. /\ Cardinality(A) <= 2 /\ Cardinality(Ids(down)) <= LinkSize /\ Cardinality(Ids(up)) <= LinkSize
        /\ Cardinality(A) \in Nat /\ Cardinality(Ids(down)) \in Nat /\ Cardinality(Ids(up)) \in Nat
    <3>1. Cardinality(A) \in Nat /\ Cardinality(Ids(down)) \in Nat /\ Cardinality(Ids(up)) \in Nat
      BY <2>3, FS_CardinalityType, Zenon
    <3>2. Cardinality(A) <= 2 /\ Cardinality(Ids(down)) <= Len(down) /\ Cardinality(Ids(up)) <= Len(up)
      BY <1>l, <2>1, <2>2, Zenon
    <3> HIDE DEF A
    <3> QED
      BY <1>t, <1>l, <3>1, <3>2
  <2> HIDE DEF A
  <2>5. /\ IsFiniteSet(B) /\ Cardinality(B) = Cardinality(A) + Cardinality(Ids(down)) - Cardinality(A \cap Ids(down))
        /\ Cardinality(A \cap Ids(down)) \in Nat
    BY <2>3, FS_Union, FS_Intersection, FS_CardinalityType
  <2> HIDE DEF B
  <2>6. /\ IsFiniteSet(B \cup Ids(up))
        /\ Cardinality(B \cup Ids(up)) = Cardinality(B) + Cardinality(Ids(up)) - Cardinality(B \cap Ids(up))
        /\ Cardinality(B \cap Ids(up)) \in Nat
    BY <2>3, <2>5, FS_Union, FS_Intersection, FS_CardinalityType
  <2>7. Cardinality(B \cup Ids(up)) <= 2 * LinkSize + 2
    BY <2>4, <2>5, <2>6, <1>l
  <2> QED
    BY <2>6, <2>7, Zenon DEF A, B
<1>3. free # {}
  <2> SUFFICES ASSUME free = {} PROVE FALSE
    OBVIOUS
  <2>1. MessageIDs \subseteq used
    BY <1>1, Zenon
  <2> HIDE DEF used, free
  <2>2. Cardinality(MessageIDs) <= Cardinality(used)
    BY <1>2, <2>1, FS_Subset
  <2>3. Cardinality(MessageIDs) = 2 * LinkSize + 3
    <3>1. 0 \in Int /\ 2 * LinkSize + 2 \in Int /\ ~(0 > 2 * LinkSize + 2)
      BY <1>l
    <3>2. Cardinality(0..(2 * LinkSize + 2)) = (2 * LinkSize + 2) - 0 + 1
      BY <3>1, FS_Interval
    <3> QED
      BY <1>l, <3>2 DEF MessageIDs
  <2>4. Cardinality(used) \in Nat
    BY <1>2, FS_CardinalityType, Zenon
  <2> QED
    BY <1>2, <1>l, <2>2, <2>3, <2>4
<1>4. free \subseteq Nat
  BY <1>l DEF MessageIDs
<1>5. i0 \in free
  <2> HIDE DEF free
  <2>1. \E i \in free : \A j \in free : i <= j
    BY <1>3, <1>4, SmallestExists, Zenon
  <2> QED
    BY <2>1, Zenon
<1>6. i0 \in MessageIDs
  BY <1>5, Zenon
<1>7. Hub!Stamped(m) = [m EXCEPT !.id = i0]
  BY SameMessages, Zenon DEF Hub!Stamped
<1> HIDE DEF i0
<1> QED
  BY <1>6, <1>7 DEF Message
LEMMA ListedIs ==
  ASSUME Typed, NEW S \in SUBSET Keys
  PROVE  /\ Listed(S) \in Seq(Event)
         /\ \A e \in Elements(Listed(S)) :
              e.type = "Added" /\ e.key \in S /\ api[e.key] # None /\ e.obj = api[e.key]
<1> DEFINE e(k) == [type |-> "Added", key |-> k, obj |-> api[k]]
           T == {e(k) : k \in S \cap Existing}
           g == [k \in S \cap Existing |-> e(k)]
           q == InAnyOrder(T)
<1>1. IsFiniteSet(T)
  <2>1. IsFiniteSet(S \cap Existing)
    BY FS_Subset, ObjectsAssumption
  <2>2. g \in Surjection(S \cap Existing, T)
    BY Zenon DEF Surjection
  <2> HIDE DEF g, T
  <2> QED
    BY <2>1, <2>2, FS_Surjection, Zenon
<1>2. \A x \in T : x \in Event /\ x.type = "Added" /\ x.key \in S /\ api[x.key] # None /\ x.obj = api[x.key]
  <2> SUFFICES ASSUME NEW x \in T
               PROVE  x \in Event /\ x.type = "Added" /\ x.key \in S /\ api[x.key] # None /\ x.obj = api[x.key]
    OBVIOUS
  <2>1. PICK k \in S \cap Existing : x = e(k)
    BY Zenon
  <2>2. api[k] \in Object /\ k \in Keys /\ k \in S /\ api[k] # None
    BY Zenon DEF Typed, CloudTypes, Existing
  <2>3. e(k) \in Event /\ e(k).type = "Added" /\ e(k).key = k /\ e(k).obj = api[k]
    BY <2>2, Zenon DEF Event
  <2> QED
    BY <2>1, <2>2, <2>3, Zenon
<1> HIDE DEF T
<1>3. q \in [1..Cardinality(T) -> T] /\ Cardinality(T) \in Nat
  <2>1. Cardinality(T) \in Nat /\ \E f \in [1..Cardinality(T) -> T] : IsInjective(f)
    BY <1>1, FS_CardinalityType, Zenon DEF ExistsBijection, Bijection, Injection
  <2> QED
    BY <2>1, Zenon DEF InAnyOrder, IsInjective
<1>4. q \in Seq(T)
  BY <1>3
<1>5. q \in Seq(Event) /\ \A i \in 1..Len(q) : q[i] \in T
  <2> HIDE DEF q
  <2>1. Len(q) \in Nat /\ DOMAIN q = 1..Len(q) /\ \A i \in 1..Len(q) : q[i] \in T
    BY <1>4, LenProperties, ElementOfSeq
  <2>2. q \in [1..Len(q) -> Event]
    BY <1>2, <1>3, <2>1, Zenon
  <2> QED
    BY <2>1, <2>2
<1> QED
  BY <1>2, <1>5, Zenon DEF Elements, Listed, T
-----------------------------------------------------------------------------
(* The types are kept.                                                     *)

LEMMA TypedInit == Init => Typed
<1> SUFFICES ASSUME Init PROVE Typed
  OBVIOUS
<1>1. CloudTypes
  <2>1. 0 \in 0..MaxVersion
    BY SmallNumbers
  <2>2. \A n \in Kinds : events[n] = << >> /\ Elements(events[n]) = {} /\ events[n] \in Seq(Event)
    BY EmptySequence, Zenon DEF Init, ECInit
  <2>3. events \in [Kinds -> Seq(Event)]
    BY <2>2, Zenon DEF Init, ECInit
  <2> QED
    BY <2>1, <2>2, <2>3, Zenon DEF Init, ECInit, CloudTypes
<1>2. HubTypes
  <2>1. toHub \in Seq(Message) /\ Len(toHub) <= ChannelSize
    BY EmptySequence, SmallNumbers DEF Init, ECInit
  <2> QED
    BY <2>1, SameMessages, Zenon DEF Init, Hub!CHInit, HubTypes
<1>3. LoopTypes
  BY IdleIs, Zenon DEF Init, Hub!CHInit, LoopTypes
<1>4. RecordTypes
  BY SameMessages, Zenon DEF Init, Hub!CHInit, RecordTypes
<1>5. WireTypes
  <2>1. down \in Seq(Message) /\ Len(down) <= LinkSize /\ up \in Seq(Message) /\ Len(up) <= LinkSize
    BY EmptySequence, SmallNumbers DEF Init, Hub!CHInit
  <2>2. faults \in 0..MaxFaults
    BY SmallNumbers DEF Init, Hub!CHInit
  <2> QED
    BY <2>1, <2>2, Zenon DEF Init, Hub!CHInit, WireTypes
<1>6. EdgeTypes
  BY SameMessages, Zenon DEF Init, Edge!ESInit, Syncer!SCInit, EdgeTypes
<1> QED
  BY <1>1, <1>2, <1>3, <1>4, <1>5, <1>6, Zenon DEF Typed

LEMMA SameTypes ==
  /\ CloudTypes /\ UNCHANGED <<api, clock, events, cachedPods, located>> => CloudTypes'
  /\ HubTypes /\ UNCHANGED <<toHub, dirty, delayed, nodeStore>> => HubTypes'
  /\ LoopTypes /\ UNCHANGED loop => LoopTypes'
  /\ RecordTypes /\ UNCHANGED <<sync, syncSeen>> => RecordTypes'
  /\ WireTypes /\ UNCHANGED <<conn, faults, down, up>> => WireTypes'
  /\ EdgeTypes /\ UNCHANGED <<meta, managing, lost>> => EdgeTypes'
<1>1. CloudTypes /\ UNCHANGED <<api, clock, events, cachedPods, located>> => CloudTypes'
  <2> SUFFICES ASSUME CloudTypes, UNCHANGED <<api, clock, events, cachedPods, located>> PROVE CloudTypes'
    BY Zenon
  <2>1. \A n \in Kinds : \A e \in Elements(events'[n]) : Kind(e.key) = n
    BY Zenon DEF CloudTypes
  <2> QED
    BY <2>1, Zenon DEF CloudTypes, Elements
<1>2. HubTypes /\ UNCHANGED <<toHub, dirty, delayed, nodeStore>> => HubTypes'
  BY Zenon DEF HubTypes
<1>3. LoopTypes /\ UNCHANGED loop => LoopTypes'
  BY Zenon DEF LoopTypes, LoopRecord
<1>4. RecordTypes /\ UNCHANGED <<sync, syncSeen>> => RecordTypes'
  BY Zenon DEF RecordTypes
<1>5. WireTypes /\ UNCHANGED <<conn, faults, down, up>> => WireTypes'
  BY Zenon DEF WireTypes
<1>6. EdgeTypes /\ UNCHANGED <<meta, managing, lost>> => EdgeTypes'
  BY Zenon DEF EdgeTypes
<1> QED
  BY <1>1, <1>2, <1>3, <1>4, <1>5, <1>6, Zenon

\* A change of the API server and the event the informer makes of it.
LEMMA TypedWrite ==
  ASSUME Typed, NEW k \in Keys, NEW o \in Object, NEW type \in {"Added", "Modified", "Deleted"},
         Controller(Write(k, o, type))
  PROVE  Typed'
<1> DEFINE e == [type |-> type, key |-> k, obj |-> o]
           n == Kind(k)
<1>1. e \in Event /\ e.key = k
  BY DEF Event
<1> HIDE DEF e
<1>2. n \in Kinds
  BY KindIsKind, Zenon
<1>3. api' \in [Keys -> Object \cup {None}]
  BY Zenon DEF Controller, Write, Typed, CloudTypes
<1>4. clock' \in 0..MaxVersion
  BY SmallNumbers DEF Controller, Write, Typed, CloudTypes
<1>5. events' = [events EXCEPT ![n] = Append(@, e)]
  BY Zenon DEF Controller, Write, e
<1>6. events \in [Kinds -> Seq(Event)] /\ \A j \in Kinds : \A x \in Elements(events[j]) : Kind(x.key) = j
  BY Zenon DEF Typed, CloudTypes
<1>7. Append(events[n], e) \in Seq(Event) /\ Elements(Append(events[n], e)) = Elements(events[n]) \cup {e}
  <2>1. events[n] \in Seq(Event)
    BY <1>2, <1>6, Zenon
  <2> HIDE DEF n
  <2> QED
    BY <1>1, <2>1, AppendedSequence
<1>8. events' \in [Kinds -> Seq(Event)] /\ \A j \in Kinds : \A x \in Elements(events'[j]) : Kind(x.key) = j
  <2>1. \A j \in Kinds : events'[j] = IF j = n THEN Append(events[n], e) ELSE events[j]
    BY <1>5, <1>6, Zenon
  <2>2. \A j \in Kinds : events'[j] \in Seq(Event)
    BY <1>6, <1>7, <2>1, Zenon
  <2>3. events' \in [Kinds -> Seq(Event)]
    BY <1>5, <1>6, <2>2, Zenon
  <2>4. ASSUME NEW j \in Kinds, NEW x \in Elements(events'[j]) PROVE Kind(x.key) = j
    BY <1>1, <1>6, <1>7, <2>1, Zenon
  <2> QED
    BY <2>3, <2>4, Zenon
<1>9. CloudTypes'
  BY <1>3, <1>4, <1>8, Zenon DEF Controller, Write, Typed, CloudTypes, Elements
<1> QED
  BY <1>9, Zenon DEF Controller, Write, hubVars, Typed, HubTypes, LoopTypes, LoopRecord, RecordTypes, WireTypes, EdgeTypes, Elements
LEMMA ChangedObject ==
  ASSUME NEW o \in Object, NEW r \in UIDs
  PROVE  /\ LET n == [o EXCEPT !.rv = r]
            IN  n \in Object /\ n.uid = o.uid /\ n.rv = r /\ n.terminating = o.terminating
         /\ LET n == [o EXCEPT !.rv = r, !.spec = r]
            IN  n \in Object /\ n.uid = o.uid /\ n.rv = r /\ n.terminating = o.terminating
  BY Zenon DEF Object

\* What the API server does to the object k: it is created, changed, or removed.
ObjectWritten(k, o, type) ==
  /\ o.rv = clock + 1 /\ clock < MaxVersion
  /\ \/ api[k] = None /\ type = "Added" /\ o.uid = clock + 1 /\ ~o.terminating
     \/ /\ api[k] # None /\ o.uid = api[k].uid /\ type \in {"Modified", "Deleted"}
        /\ api[k].terminating => o.terminating
  /\ Controller(Write(k, o, type))

LEMMA ApiWrites ==
  ASSUME Typed, Controller(ApiServer)
  PROVE  \E k \in Keys, o \in Object, type \in {"Added", "Modified", "Deleted"} : ObjectWritten(k, o, type)
<1> DEFINE v == clock + 1
<1>1. ASSUME clock < MaxVersion PROVE v \in UIDs
  BY <1>1, SmallNumbers DEF UIDs, Typed, CloudTypes
<1>2. api \in [Keys -> Object \cup {None}]
  BY Zenon DEF Typed, CloudTypes
<1>3. ASSUME NEW k \in Keys, CreateObject(k) PROVE \E o \in Object : ObjectWritten(k, o, "Added")
  <2>1. PICK f \in BOOLEAN : f = FALSE
    OBVIOUS
  <2> DEFINE o == [uid |-> v, rv |-> v, spec |-> v, terminating |-> f]
  <2>2. clock < MaxVersion /\ api[k] = None
    BY <1>3, Zenon DEF CreateObject, Write
  <2> HIDE DEF v
  <2>3. o \in Object /\ o.uid = v /\ o.rv = v /\ o.terminating = f
    BY <1>1, <2>2, Zenon DEF Object
  <2>4. Controller(Write(k, o, "Added"))
    BY <1>3, <2>1, Zenon DEF Controller, CreateObject, v
  <2> HIDE DEF o
  <2> QED
    BY <2>1, <2>2, <2>3, <2>4, Zenon DEF ObjectWritten, v
<1>4. ASSUME NEW k \in Keys, UpdateObject(k) PROVE \E o \in Object : ObjectWritten(k, o, "Modified")
  <2>2. clock < MaxVersion /\ api[k] # None
    BY <1>4, Zenon DEF UpdateObject, Write
  <2> DEFINE o == [api[k] EXCEPT !.rv = v, !.spec = v]
  <2>4. Controller(Write(k, o, "Modified"))
    BY <1>4, Zenon DEF Controller, UpdateObject
  <2> HIDE DEF v
  <2>3. o \in Object /\ o.uid = api[k].uid /\ o.rv = v /\ o.terminating = api[k].terminating
    <3>1. api[k] \in Object /\ v \in UIDs
      BY <1>1, <1>2, <2>2, Zenon
    <3> QED
      BY <3>1, ChangedObject, Zenon
  <2> HIDE DEF o
  <2> QED
    BY <2>2, <2>3, <2>4, Zenon DEF ObjectWritten, v
<1>5. ASSUME NEW k \in Keys, RemoveObject(k) PROVE \E o \in Object : ObjectWritten(k, o, "Deleted")
  <2>2. clock < MaxVersion /\ api[k] # None
    BY <1>5, Zenon DEF RemoveObject, Write
  <2> DEFINE o == [api[k] EXCEPT !.rv = v]
  <2>4. Controller(Write(k, o, "Deleted"))
    BY <1>5, Zenon DEF Controller, RemoveObject
  <2> HIDE DEF v
  <2>3. o \in Object /\ o.uid = api[k].uid /\ o.rv = v /\ o.terminating = api[k].terminating
    <3>1. api[k] \in Object /\ v \in UIDs
      BY <1>1, <1>2, <2>2, Zenon
    <3> QED
      BY <3>1, ChangedObject, Zenon
  <2> HIDE DEF o
  <2> QED
    BY <2>2, <2>3, <2>4, Zenon DEF ObjectWritten, v
<1>6. ASSUME NEW k \in Keys, UpdateStatus(k) PROVE \E o \in Object : ObjectWritten(k, o, "Modified")
  <2>2. clock < MaxVersion /\ api[k] # None
    BY <1>6, Zenon DEF UpdateStatus, Write
  <2> DEFINE o == [api[k] EXCEPT !.rv = v]
  <2>4. Controller(Write(k, o, "Modified"))
    BY <1>6, Zenon DEF Controller, UpdateStatus
  <2> HIDE DEF v
  <2>3. o \in Object /\ o.uid = api[k].uid /\ o.rv = v /\ o.terminating = api[k].terminating
    <3>1. api[k] \in Object /\ v \in UIDs
      BY <1>1, <1>2, <2>2, Zenon
    <3> QED
      BY <3>1, ChangedObject, Zenon
  <2> HIDE DEF o
  <2> QED
    BY <2>2, <2>3, <2>4, Zenon DEF ObjectWritten, v
<1>7. ASSUME NEW k \in Keys, DeletePod(k) PROVE \E o \in Object : ObjectWritten(k, o, "Modified")
  <2>1. PICK t \in BOOLEAN : t = TRUE
    OBVIOUS
  <2>2. clock < MaxVersion /\ api[k] # None
    BY <1>7, Zenon DEF DeletePod, Write
  <2> DEFINE o == [api[k] EXCEPT !.rv = v, !.spec = v, !.terminating = t]
  <2>4. Controller(Write(k, o, "Modified"))
    BY <1>7, <2>1, Zenon DEF Controller, DeletePod
  <2> HIDE DEF v
  <2>3. o \in Object /\ o.uid = api[k].uid /\ o.rv = v /\ o.terminating = t
    <3>1. api[k] \in Object /\ v \in UIDs
      BY <1>1, <1>2, <2>2, Zenon
    <3>2. t \in BOOLEAN
      BY <2>1, Zenon
    <3> QED
      BY <3>1, <3>2, Zenon DEF Object
  <2> HIDE DEF o
  <2> QED
    BY <2>1, <2>2, <2>3, <2>4, Zenon DEF ObjectWritten, v
<1> QED
  BY <1>3, <1>4, <1>5, <1>6, <1>7, Zenon DEF Controller, ApiServer, Keys

\* What the goroutine of a kind does with its next event.
Sends(e, m) ==
  /\ m \in Message /\ m.key = e.key /\ m.uid = e.obj.uid /\ m.rv = e.obj.rv
  /\ m.op = "delete" <=> e.type = "Deleted"
  /\ m.terminating = e.obj.terminating
EventTaken(n) ==
  /\ events[n] # << >> /\ events' = [events EXCEPT ![n] = Tail(@)]
  /\ \/ UNCHANGED toHub
     \/ \E m : Sends(Head(events[n]), m) /\ Len(toHub) < ChannelSize /\ toHub' = Append(toHub, m)
  /\ cachedPods' \in [UIDs -> 0..MaxVersion] /\ located' \subseteq ConfigMaps \cup Secrets
  /\ UNCHANGED <<api, clock, hubVars, down, up, meta, managing, lost>>

LEMMA EventIs ==
  ASSUME Typed, NEW n \in Kinds, events[n] # << >>
  PROVE  /\ Head(events[n]) \in Event /\ Kind(Head(events[n]).key) = n
         /\ \A added \in {"insert", "update"} : \A type :
              type = "Deleted" <=> Head(events[n]).type = "Deleted"
                => Sends(Head(events[n]), NewMessage(Operation(type, added), Head(events[n]).key, Head(events[n]).obj))
<1> DEFINE e == Head(events[n])
<1>1. e \in Event /\ Kind(e.key) = n
  <2>1. events[n] \in Seq(Event)
    BY Zenon DEF Typed, CloudTypes
  <2>2. e \in Event /\ e \in Elements(events[n])
    BY <2>1, RestOfSequence
  <2> QED
    BY <2>2, Zenon DEF Typed, CloudTypes
<1> HIDE DEF e
<1>2. e.key \in Keys /\ e.obj \in Object
  BY <1>1 DEF Event
<1>3. ASSUME NEW added \in {"insert", "update"}, NEW type, type = "Deleted" <=> e.type = "Deleted"
      PROVE  Sends(e, NewMessage(Operation(type, added), e.key, e.obj))
  <2> DEFINE op == Operation(type, added)
  <2>1. op \in {"insert", "update", "delete"} /\ (op = "delete" <=> type = "Deleted")
    BY DEF Operation
  <2> HIDE DEF op
  <2>2. Sends(e, NewMessage(op, e.key, e.obj))
    <3>1. PICK m : m = NewMessage(op, e.key, e.obj)
      OBVIOUS
    <3>2. /\ m \in Message /\ m.op = op /\ m.key = e.key /\ m.uid = e.obj.uid /\ m.rv = e.obj.rv
          /\ m.terminating = e.obj.terminating
      BY <1>2, <2>1, <3>1, NewMessageType
    <3> QED
      BY <1>3, <2>1, <3>1, <3>2, Zenon DEF Sends
  <2> QED
    BY <2>2, Zenon DEF op
<1> QED
  BY <1>1, <1>3, Zenon DEF e

LEMMA SyncTakes ==
  ASSUME Typed,
         Controller(SyncPod) \/ Controller(SyncConfigMap) \/ Controller(SyncSecret) \/ Controller(SyncService)
  PROVE  \E n \in Kinds : EventTaken(n)
<1>t. cachedPods \in [UIDs -> 0..MaxVersion] /\ located \subseteq ConfigMaps \cup Secrets
  BY Zenon DEF Typed, CloudTypes
<1>1. ASSUME Controller(SyncPod) PROVE EventTaken("pod")
  <2> DEFINE e == Head(events["pod"])
             m == NewMessage(Operation(Merged(e).type, "insert"), e.key, e.obj)
  <2>1. events["pod"] # << >> /\ "pod" \in Kinds
    BY <1>1, Zenon DEF Controller, SyncPod, Kinds
  <2>2. e \in Event /\ Kind(e.key) = "pod"
    BY <2>1, EventIs, Zenon
  <2>3. Sends(e, m)
    <3> HIDE DEF e
    <3>1. Merged(e).type = "Deleted" <=> e.type = "Deleted"
      BY <2>2 DEF Merged, Event
    <3> QED
      BY <2>1, <3>1, EventIs, Zenon DEF e
  <2>4. cachedPods' \in [UIDs -> 0..MaxVersion]
    <3> HIDE DEF e
    <3>1. e.obj.uid \in UIDs /\ e.obj.spec \in 0..MaxVersion /\ 0 \in 0..MaxVersion
      BY <2>2, SmallNumbers DEF Event, Object, UIDs
    <3>2. cachedPods' = [cachedPods EXCEPT ![e.obj.uid] = IF e.type = "Deleted" THEN 0 ELSE e.obj.spec]
      BY <1>1, Zenon DEF Controller, SyncPod, e
    <3> QED
      BY <1>t, <3>1, <3>2, Zenon
  <2>5. located' \subseteq ConfigMaps \cup Secrets
    <3> HIDE DEF e
    <3>1. e.key \in Pods
      BY <2>2 DEF Event, Keys, Kind
    <3>2. Uses[e.key] \subseteq ConfigMaps \cup Secrets
      BY <3>1, ObjectsAssumption, Zenon
    <3>3. located' = located \/ located' = located \cup Uses[e.key]
      BY <1>1, Zenon DEF Controller, SyncPod, e
    <3> QED
      BY <1>t, <3>2, <3>3, Zenon
  <2>6. UNCHANGED toHub \/ (Len(toHub) < ChannelSize /\ toHub' = Append(toHub, m))
    BY <1>1, Zenon DEF Controller, SyncPod, Send
  <2> HIDE DEF m
  <2> QED
    BY <1>1, <2>1, <2>3, <2>4, <2>5, <2>6, Zenon DEF Controller, SyncPod, EventTaken
<1>2. ASSUME NEW n \in Kinds, NEW added \in {"insert", "update"}, Controller(SyncEvent(n, added))
      PROVE  EventTaken(n)
  <2> DEFINE e == Head(events[n])
             m == NewMessage(Operation(e.type, added), e.key, e.obj)
  <2>1. events[n] # << >>
    BY <1>2, Zenon DEF Controller, SyncEvent
  <2>2. Sends(e, m)
    BY <2>1, EventIs, Zenon
  <2>3. located' \subseteq ConfigMaps \cup Secrets
    BY <1>t, <1>2, Zenon DEF Controller, SyncEvent
  <2>4. UNCHANGED toHub \/ (Len(toHub) < ChannelSize /\ toHub' = Append(toHub, m))
    BY <1>2, Zenon DEF Controller, SyncEvent, Send
  <2> HIDE DEF m
  <2> QED
    BY <1>t, <1>2, <2>1, <2>2, <2>3, <2>4, Zenon DEF Controller, SyncEvent, EventTaken
<1>3. {"pod", "configmap", "secret", "service"} = Kinds
  BY Zenon DEF Kinds
<1> QED
  BY <1>1, <1>2, <1>3, Zenon DEF SyncConfigMap, SyncSecret, SyncService

LEMMA TypedTaken ==
  ASSUME Typed, NEW n \in Kinds, EventTaken(n)
  PROVE  Typed'
<1>1. events \in [Kinds -> Seq(Event)] /\ \A j \in Kinds : \A x \in Elements(events[j]) : Kind(x.key) = j
  BY Zenon DEF Typed, CloudTypes
<1>2. Tail(events[n]) \in Seq(Event) /\ Elements(Tail(events[n])) \subseteq Elements(events[n])
  <2>1. events[n] \in Seq(Event) /\ events[n] # << >>
    BY <1>1, Zenon DEF EventTaken
  <2> QED
    BY <2>1, RestOfSequence
<1>3. events' \in [Kinds -> Seq(Event)] /\ \A j \in Kinds : \A x \in Elements(events'[j]) : Kind(x.key) = j
  <2>1. \A j \in Kinds : events'[j] = IF j = n THEN Tail(events[n]) ELSE events[j]
    BY <1>1, Zenon DEF EventTaken
  <2>2. \A j \in Kinds : events'[j] \in Seq(Event)
    BY <1>1, <1>2, <2>1, Zenon
  <2>3. events' \in [Kinds -> Seq(Event)]
    BY <1>1, <2>2, Zenon DEF EventTaken
  <2>4. ASSUME NEW j \in Kinds, NEW x \in Elements(events'[j]) PROVE Kind(x.key) = j
    BY <1>1, <1>2, <2>1, Zenon
  <2> QED
    BY <2>3, <2>4, Zenon
<1>4. CloudTypes'
  BY <1>3, Zenon DEF EventTaken, Typed, CloudTypes, Elements
<1>5. toHub' \in Seq(Message) /\ Len(toHub') <= ChannelSize
  <2>1. toHub \in Seq(Message) /\ Len(toHub) <= ChannelSize
    BY Zenon DEF Typed, HubTypes
  <2>2. CASE UNCHANGED toHub
    BY <2>1, <2>2, Zenon
  <2>3. ASSUME NEW m, Sends(Head(events[n]), m), Len(toHub) < ChannelSize, toHub' = Append(toHub, m)
        PROVE  toHub' \in Seq(Message) /\ Len(toHub') <= ChannelSize
    <3>1. m \in Message
      BY <2>3, Zenon DEF Sends
    <3>2. Append(toHub, m) \in Seq(Message) /\ Len(Append(toHub, m)) = Len(toHub) + 1 /\ Len(toHub) \in Nat
      BY <2>1, <3>1, AppendedSequence, LenProperties
    <3> QED
      BY <2>1, <2>3, <3>2, SmallNumbers
  <2> QED
    BY <2>2, <2>3, Zenon DEF EventTaken
<1>6. HubTypes'
  BY <1>5, Zenon DEF EventTaken, hubVars, Typed, HubTypes
<1> QED
  BY <1>4, <1>6, Zenon DEF EventTaken, hubVars, Typed, LoopTypes, LoopRecord, RecordTypes, WireTypes, EdgeTypes

\* What addMessageToQueue does with the next message.
Queued(m, n) ==
  /\ n \in Message /\ n.key = m.key /\ n.uid = m.uid /\ n.rv = m.rv /\ n.op = m.op
  /\ n.terminating = m.terminating
  /\ nodeStore' = [nodeStore EXCEPT ![m.key] = n] /\ dirty' = dirty \cup {m.key}

LEMMA DispatchIs ==
  ASSUME Typed, Dispatch
  PROVE  /\ toHub # << >> /\ Head(toHub) \in Message /\ Head(toHub).key \in Keys /\ toHub' = Tail(toHub)
         /\ \/ Hub!Accepted(Head(toHub)) /\ \E n : Queued(Head(toHub), n)
            \/ ~Hub!Accepted(Head(toHub)) /\ UNCHANGED <<nodeStore, dirty>>
<1>1. toHub # << >> /\ toHub' = Tail(toHub)
  BY Zenon DEF Dispatch, HubStep, Hub!AddMessageToQueue
<1>2. Head(toHub) \in Message
  <2>1. toHub \in Seq(Message)
    BY Zenon DEF Typed, HubTypes
  <2> QED
    BY <1>1, <2>1, RestOfSequence
<1>3. PICK m : m = Head(toHub)
  BY Zenon
<1>4. m.key \in Keys
  BY <1>2, <1>3 DEF Message
<1>5. CASE Hub!Accepted(m)
  <2>1. nodeStore' = [nodeStore EXCEPT ![m.key] = Hub!Stamped(m)] /\ dirty' = dirty \cup {m.key}
    BY <1>3, <1>5, Zenon DEF Dispatch, HubStep, Hub!AddMessageToQueue
  <2>2. Queued(m, Hub!Stamped(m))
    BY <1>2, <1>3, <2>1, StampedIs, Zenon DEF Queued
  <2> QED
    BY <1>1, <1>2, <1>3, <1>4, <1>5, <2>2, Zenon
<1>6. CASE ~Hub!Accepted(m)
  <2>1. UNCHANGED <<nodeStore, dirty>>
    BY <1>3, <1>6, Zenon DEF Dispatch, HubStep, Hub!AddMessageToQueue
  <2> QED
    BY <1>1, <1>2, <1>3, <1>4, <1>6, <2>1, Zenon
<1> QED
  BY <1>5, <1>6, Zenon

LEMMA TypedDispatch == Typed /\ Dispatch => Typed'
<1> SUFFICES ASSUME Typed, Dispatch PROVE Typed'
  OBVIOUS
<1>1. PICK m : m = Head(toHub)
  BY Zenon
<1>2. /\ toHub # << >> /\ m \in Message /\ m.key \in Keys /\ toHub' = Tail(toHub)
      /\ (\E n : Queued(m, n)) \/ UNCHANGED <<nodeStore, dirty>>
  BY <1>1, DispatchIs, Zenon
<1>3. toHub' \in Seq(Message) /\ Len(toHub') <= ChannelSize
  <2>1. toHub \in Seq(Message) /\ Len(toHub) <= ChannelSize
    BY Zenon DEF Typed, HubTypes
  <2>2. Tail(toHub) \in Seq(Message) /\ Len(Tail(toHub)) = Len(toHub) - 1 /\ Len(toHub) \in Nat
    BY <1>2, <2>1, RestOfSequence, LenProperties
  <2> QED
    BY <1>2, <2>1, <2>2, SmallNumbers
<1>4. /\ dirty' \subseteq Keys /\ nodeStore' \in [Keys -> Message \cup {None}]
      /\ \A k \in Keys : nodeStore'[k] # None => nodeStore'[k].key = k
  <2>1. /\ dirty \subseteq Keys /\ nodeStore \in [Keys -> Message \cup {None}]
        /\ \A k \in Keys : nodeStore[k] # None => nodeStore[k].key = k
    BY Zenon DEF Typed, HubTypes
  <2>2. CASE UNCHANGED <<nodeStore, dirty>>
    BY <2>1, <2>2, Zenon
  <2>3. ASSUME NEW n, Queued(m, n) PROVE <1>4
    <3>1. \A k \in Keys : nodeStore'[k] = IF k = m.key THEN n ELSE nodeStore[k]
      BY <2>1, <2>3, Zenon DEF Queued
    <3> QED
      BY <1>2, <2>1, <2>3, <3>1, Zenon DEF Queued
  <2> QED
    BY <1>2, <2>2, <2>3, Zenon
<1>5. HubTypes'
  BY <1>3, <1>4, Zenon DEF Dispatch, HubStep, Hub!AddMessageToQueue, Typed, HubTypes
<1>6. lost' \subseteq Keys
  BY <1>1, <1>2, Zenon DEF Dispatch, Typed, EdgeTypes
<1> QED
  BY <1>5, <1>6, SameTypes, Zenon DEF Dispatch, HubStep, Hub!AddMessageToQueue, Hub!linkVars, Typed, EdgeTypes

\* sendMsg writes its message for the first time or again.
Written ==
  /\ loop.pc \in {"send", "wait"}
  /\ \/ /\ loop' \in LoopRecord /\ loop'.pc = "wait" /\ loop'.msg = loop.msg /\ UNCHANGED delayed
        /\ UNCHANGED down \/ (Len(down) < LinkSize /\ down' = Append(down, loop.msg))
     \/ loop' = Hub!Idle /\ delayed' = delayed \cup {loop.msg.key} /\ UNCHANGED down
  /\ UNCHANGED <<toHub, dirty, nodeStore, sync, syncSeen, conn, up, faults>>

LEMMA WriteIs ==
  ASSUME Typed, Hub!SendMsg \/ Hub!Resend
  PROVE  Written
<1>1. ASSUME NEW next \in LoopRecord, next.pc = "wait", next.msg = loop.msg, loop.pc \in {"send", "wait"}, Hub!Write(next),
             UNCHANGED <<toHub, dirty, nodeStore, sync, syncSeen, conn, up, faults>>
      PROVE  Written
  BY <1>1, Zenon DEF Hub!Write, Written
<1>2. loop \in LoopRecord
  BY Zenon DEF Typed, LoopTypes
<1>3. CASE Hub!SendMsg
  <2> DEFINE next == [loop EXCEPT !.pc = "wait"]
  <2>1. next \in LoopRecord /\ next.pc = "wait" /\ next.msg = loop.msg
    BY <1>2, LoopGoes
  <2>2. loop.pc \in {"send", "wait"} /\ Hub!Write(next)
        /\ UNCHANGED <<toHub, dirty, nodeStore, sync, syncSeen, conn, up, faults>>
    BY <1>3, Zenon DEF Hub!SendMsg
  <2> HIDE DEF next
  <2> QED
    BY <1>1, <2>1, <2>2, Zenon
<1>4. CASE Hub!Resend
  <2> DEFINE next == [loop EXCEPT !.retry = @ + 1]
  <2>1. loop.pc = "wait" /\ loop.retry < MaxRetry /\ Hub!Write(next)
        /\ UNCHANGED <<toHub, dirty, nodeStore, sync, syncSeen, conn, up, faults>>
    BY <1>4, Zenon DEF Hub!Resend
  <2>2. next \in LoopRecord /\ next.pc = loop.pc /\ next.msg = loop.msg
    BY <1>2, <2>1, LoopRetries
  <2> HIDE DEF next
  <2> QED
    BY <1>1, <2>1, <2>2, Zenon
<1> QED
  BY <1>3, <1>4, Zenon

LEMMA TypedHubWork ==
  ASSUME Typed, HubStep(HubWork), UNCHANGED lost
  PROVE  Typed'
<1>t. CloudTypes /\ HubTypes /\ LoopTypes /\ RecordTypes /\ WireTypes /\ EdgeTypes
  BY Zenon DEF Typed
<1>c. CloudTypes' /\ EdgeTypes'
  BY <1>t, SameTypes, Zenon DEF HubStep
<1>l. loop \in LoopRecord /\ (loop.msg = None <=> loop.pc = "get") /\ loop.msg \in Message \cup {None}
  BY <1>t, Zenon DEF LoopTypes, LoopRecord
<1>m. ASSUME loop.pc # "get" PROVE loop.msg \in Message /\ loop.msg.key \in Keys /\ loop.msg.uid \in UIDs
  BY <1>l, <1>m DEF Message
<1>1. ASSUME NEW k \in Keys, Hub!GetMessage(k) PROVE Typed'
  <2>1. HubTypes' /\ RecordTypes' /\ WireTypes'
    BY <1>1, <1>t, SameTypes, Zenon DEF Hub!GetMessage, Hub!linkVars, HubTypes
  <2>2. LoopTypes'
    <3>1. CASE nodeStore[k] = None
      BY <1>1, <1>t, <3>1, SameTypes, Zenon DEF Hub!GetMessage
    <3>2. CASE nodeStore[k] # None
      <4>1. nodeStore[k] \in Message
        BY <1>t, <3>2, Zenon DEF HubTypes
      <4>2. nodeStore[k] # None /\ loop' = [Hub!Idle EXCEPT !.pc = "send", !.msg = nodeStore[k]]
        BY <1>1, <3>2, Zenon DEF Hub!GetMessage
      <4>3. loop' \in LoopRecord /\ loop'.pc = "send" /\ loop'.msg = nodeStore[k]
        BY <4>1, <4>2, LoopTakes, Zenon
      <4> QED
        BY <3>2, <4>3, Zenon DEF LoopTypes, LoopRecord
    <3> QED
      BY <3>1, <3>2, Zenon
  <2> QED
    BY <1>c, <2>1, <2>2, Zenon DEF Typed
<1>2. ASSUME Hub!SendMsg \/ Hub!Resend PROVE Typed'
  <2>1. Written
    BY <1>2, WriteIs, Zenon
  <2>2. loop.pc # "get"
    BY <2>1 DEF Written
  <2>3. loop.msg \in Message /\ loop.msg.key \in Keys
    BY <2>2, <1>m, Zenon
  <2>4. HubTypes'
    BY <1>t, <2>1, <2>3, Zenon DEF Written, HubTypes
  <2>5. RecordTypes'
    BY <1>t, <2>1, SameTypes, Zenon DEF Written
  <2>6. LoopTypes'
    BY <2>1, <1>l, <2>2, IdleIs, Zenon DEF Written, LoopTypes, LoopRecord
  <2>7. down' \in Seq(Message) /\ Len(down') <= LinkSize
    <3>1. down \in Seq(Message) /\ Len(down) <= LinkSize
      BY <1>t, Zenon DEF WireTypes
    <3>2. /\ Append(down, loop.msg) \in Seq(Message) /\ Len(Append(down, loop.msg)) = Len(down) + 1
          /\ Len(down) \in Nat
      BY <2>3, <3>1, AppendedSequence, LenProperties
    <3>3. Len(down) < LinkSize => Len(down) + 1 <= LinkSize
      BY <3>2, SmallNumbers
    <3> QED
      BY <2>1, <3>1, <3>2, <3>3, Zenon DEF Written
  <2>8. WireTypes'
    BY <1>t, <2>1, <2>7, Zenon DEF Written, WireTypes
  <2> QED
    BY <1>c, <2>4, <2>5, <2>6, <2>8, Zenon DEF Typed
<1>3. ASSUME Hub!HandleAck PROVE Typed'
  <2>1. HubTypes' /\ RecordTypes'
    BY <1>3, <1>t, SameTypes, Zenon DEF Hub!HandleAck, Hub!queueVars
  <2>2. LoopTypes'
    <3>1. [loop EXCEPT !.pc = "save"] \in LoopRecord /\ [loop EXCEPT !.pc = "save"].pc = "save"
          /\ [loop EXCEPT !.pc = "save"].msg = loop.msg
      BY <1>l, LoopGoes
    <3>2. loop' = loop \/ (loop.pc = "wait" /\ loop' = [loop EXCEPT !.pc = "save"])
      BY <1>3, Zenon DEF Hub!HandleAck
    <3> QED
      BY <1>l, <3>1, <3>2, Zenon DEF LoopTypes, LoopRecord
  <2>3. up' \in Seq(Message) /\ Len(up') <= LinkSize
    <3>1. up \in Seq(Message) /\ Len(up) <= LinkSize /\ up # << >> /\ up' = Tail(up)
      BY <1>3, <1>t, Zenon DEF WireTypes, Hub!HandleAck
    <3>2. Tail(up) \in Seq(Message) /\ Len(Tail(up)) = Len(up) - 1 /\ Len(up) \in Nat
      BY <3>1, RestOfSequence, LenProperties
    <3> QED
      BY <3>1, <3>2, SmallNumbers
  <2>4. WireTypes'
    BY <1>3, <1>t, <2>3, Zenon DEF Hub!HandleAck, WireTypes
  <2> QED
    BY <1>c, <2>1, <2>2, <2>4, Zenon DEF Typed
<1>4. ASSUME Hub!SaveDelete PROVE Typed'
  <2>1. loop.msg.key \in Keys /\ loop.msg # None
    BY <1>4, <1>l, <1>m, Zenon DEF Hub!SaveDelete
  <2>2. HubTypes'
    BY <1>4, <1>t, <2>1, Zenon DEF Hub!SaveDelete, HubTypes
  <2>3. LoopTypes'
    BY <1>4, <1>l, <2>1, LoopGoes DEF Hub!SaveDelete, LoopTypes
  <2>4. RecordTypes' /\ WireTypes'
    BY <1>4, <1>t, SameTypes, Zenon DEF Hub!SaveDelete, Hub!linkVars
  <2> QED
    BY <1>c, <2>2, <2>3, <2>4, Zenon DEF Typed
<1>5. ASSUME Hub!DeleteSuccessPoint PROVE Typed'
  <2>1. HubTypes' /\ WireTypes'
    BY <1>5, <1>t, SameTypes, Zenon DEF Hub!DeleteSuccessPoint, Hub!queueVars, Hub!linkVars
  <2>2. LoopTypes'
    BY <1>5, IdleIs, Zenon DEF Hub!DeleteSuccessPoint, LoopTypes, LoopRecord
  <2>3. RecordTypes'
    BY <1>5, <1>t, Zenon DEF Hub!DeleteSuccessPoint, RecordTypes
  <2> QED
    BY <1>c, <2>1, <2>2, <2>3, Zenon DEF Typed
<1>6. ASSUME NEW v \in 0..MaxVersion, loop.pc # "get", Hub!SaveVersion(v), UNCHANGED syncSeen PROVE RecordTypes'
  <2>1. loop.msg.uid \in UIDs /\ loop.msg.key \in Keys
    BY <1>m, <1>6, Zenon
  <2>2. [key |-> loop.msg.key, version |-> v] \in Hub!ObjectSync
    BY <2>1, SameMessages, Zenon DEF Hub!ObjectSync
  <2> QED
    BY <1>6, <1>t, <2>2, Zenon DEF Hub!SaveVersion, RecordTypes
<1>7. ASSUME Hub!CreateSync PROVE Typed'
  <2>1. HubTypes' /\ WireTypes'
    BY <1>7, <1>t, SameTypes, Zenon DEF Hub!CreateSync, Hub!queueVars, Hub!linkVars
  <2>2. LoopTypes'
    BY <1>7, <1>l, LoopGoes DEF Hub!CreateSync, LoopTypes
  <2>3. 0 \in 0..MaxVersion
    BY SmallNumbers
  <2>4. RecordTypes'
    BY <1>6, <1>7, <2>3 DEF Hub!CreateSync
  <2> QED
    BY <1>c, <2>1, <2>2, <2>4, Zenon DEF Typed
<1>8. ASSUME Hub!SaveStatus PROVE Typed'
  <2>1. HubTypes' /\ WireTypes'
    BY <1>8, <1>t, SameTypes, Zenon DEF Hub!SaveStatus, Hub!queueVars, Hub!linkVars
  <2>2. LoopTypes'
    BY <1>8, IdleIs, Zenon DEF Hub!SaveStatus, LoopTypes, LoopRecord
  <2>3. loop.pc # "get"
    BY <1>8 DEF Hub!SaveStatus
  <2>4. loop.msg.rv \in 0..MaxVersion
    BY <1>m, <2>3 DEF Message, UIDs
  <2>5. RecordTypes'
    BY <1>6, <1>8, <2>3, <2>4, Zenon DEF Hub!SaveStatus
  <2> QED
    BY <1>c, <2>1, <2>2, <2>5, Zenon DEF Typed
<1> QED
  BY <1>1, <1>2, <1>3, <1>4, <1>5, <1>7, <1>8, Zenon DEF HubStep, HubWork

\* What a broken connection leaves.
LEMMA CutTypes ==
  ASSUME WireTypes, NEW n \in 0..Len(down), NEW m \in 0..Len(up), Hub!Cut(n, m)
  PROVE  down' \in Seq(Message) /\ Len(down') <= LinkSize /\ up' \in Seq(Message) /\ Len(up') <= LinkSize
<1>1. down \in Seq(Message) /\ Len(down) <= LinkSize /\ up \in Seq(Message) /\ Len(up) <= LinkSize
  BY Zenon DEF WireTypes
<1>2. Len(down) \in Nat /\ Len(up) \in Nat
  BY <1>1, LenProperties
<1>3. 1 \in 1..(Len(down) + 1) /\ m + 1 \in 1..(Len(up) + 1) /\ Len(up) \in 0..Len(up)
  BY <1>2
<1>4. SubSeq(down, 1, n) \in Seq(Message) /\ Len(SubSeq(down, 1, n)) <= Len(down) /\ Len(SubSeq(down, 1, n)) \in Nat
  BY <1>1, <1>3, PartOfSequence, LenProperties
<1>5. SubSeq(up, m + 1, Len(up)) \in Seq(Message) /\ Len(SubSeq(up, m + 1, Len(up))) <= Len(up)
      /\ Len(SubSeq(up, m + 1, Len(up))) \in Nat
  BY <1>1, <1>3, PartOfSequence, LenProperties
<1>6. down' = SubSeq(down, 1, n) /\ up' = SubSeq(up, m + 1, Len(up))
  BY Zenon DEF Hub!Cut
<1> QED
  BY <1>1, <1>2, <1>4, <1>5, <1>6, SmallNumbers

LEMMA TypedHubRest ==
  ASSUME Typed,
         \/ GiveUp \/ SaveFails
         \/ HubStep(\E k \in Keys : Hub!Requeue(k)) /\ UNCHANGED lost
         \/ HubStep(Hub!RefreshLister) /\ UNCHANGED lost
         \/ HubStep(Link) /\ UNCHANGED lost
  PROVE  Typed'
<1>t. CloudTypes /\ HubTypes /\ LoopTypes /\ RecordTypes /\ WireTypes /\ EdgeTypes
  BY Zenon DEF Typed
<1>l. loop \in LoopRecord /\ (loop.msg = None <=> loop.pc = "get") /\ loop.msg \in Message \cup {None}
  BY <1>t, Zenon DEF LoopTypes, LoopRecord
<1>m. ASSUME loop.pc # "get" PROVE loop.msg.key \in Keys
  BY <1>l, <1>m DEF Message
<1>i. loop' = Hub!Idle => LoopTypes'
  BY IdleIs, Zenon DEF LoopTypes, LoopRecord
<1>1. ASSUME GiveUp PROVE Typed'
  <2>1. loop.pc # "get"
    BY <1>1, Zenon DEF GiveUp, HubStep, Hub!GiveUp
  <2>2. EdgeTypes'
    BY <1>1, <1>t, <1>m, <2>1, Zenon DEF GiveUp, HubStep, EdgeTypes
  <2> QED
    BY <1>1, <1>t, <1>i, <2>2, SameTypes, Zenon DEF GiveUp, HubStep, Hub!GiveUp, Hub!queueVars, Hub!linkVars, Typed
<1>2. ASSUME SaveFails PROVE Typed'
  <2>1. loop.pc # "get"
    BY <1>2, Zenon DEF SaveFails, HubStep, Hub!SaveFails
  <2>2. EdgeTypes'
    BY <1>2, <1>t, <1>m, <2>1, Zenon DEF SaveFails, HubStep, EdgeTypes
  <2>3. faults' \in 0..MaxFaults
    BY <1>2, <1>t, SmallNumbers DEF SaveFails, HubStep, Hub!SaveFails, WireTypes
  <2>4. WireTypes'
    BY <1>2, <1>t, <2>3, Zenon DEF SaveFails, HubStep, Hub!SaveFails, Hub!linkVars, WireTypes
  <2> QED
    BY <1>2, <1>t, <1>i, <2>2, <2>4, SameTypes, Zenon DEF SaveFails, HubStep, Hub!SaveFails, Hub!queueVars, Typed
<1>3. ASSUME NEW k \in Keys, HubStep(Hub!Requeue(k)), UNCHANGED lost PROVE Typed'
  <2>1. HubTypes'
    BY <1>3, <1>t, Zenon DEF HubStep, Hub!Requeue, HubTypes
  <2> QED
    BY <1>3, <1>t, <2>1, SameTypes, Zenon DEF HubStep, Hub!Requeue, Hub!linkVars, Typed
<1>4. ASSUME HubStep(Hub!RefreshLister), UNCHANGED lost PROVE Typed'
  <2>1. RecordTypes'
    BY <1>4, <1>t, Zenon DEF HubStep, Hub!RefreshLister, RecordTypes
  <2> QED
    BY <1>4, <1>t, <2>1, SameTypes, Zenon DEF HubStep, Hub!RefreshLister, Hub!queueVars, Hub!linkVars, Typed
<1>5. ASSUME HubStep(Hub!Break), UNCHANGED lost PROVE Typed'
  <2>1. PICK n \in 0..Len(down), m \in 0..Len(up) : Hub!Cut(n, m)
    BY <1>5, Zenon DEF HubStep, Hub!Break
  <2>2. down' \in Seq(Message) /\ Len(down') <= LinkSize /\ up' \in Seq(Message) /\ Len(up') <= LinkSize
    BY <1>t, <2>1, CutTypes, Zenon
  <2>3. faults' \in 0..MaxFaults
    BY <1>5, <1>t, SmallNumbers DEF HubStep, Hub!Break, WireTypes
  <2>4. WireTypes'
    BY <1>5, <2>2, <2>3 DEF HubStep, Hub!Break, WireTypes
  <2> QED
    BY <1>5, <1>t, <2>4, SameTypes, Zenon DEF HubStep, Hub!Break, Hub!queueVars, Typed
<1>6. ASSUME HubStep(Hub!KeepaliveTimeout), UNCHANGED lost PROVE Typed'
  <2>1. WireTypes'
    BY <1>6, <1>t, Zenon DEF HubStep, Hub!KeepaliveTimeout, WireTypes
  <2> QED
    BY <1>6, <1>t, <2>1, SameTypes, Zenon DEF HubStep, Hub!KeepaliveTimeout, Hub!queueVars, Typed
<1>7. ASSUME HubStep(Hub!Reconnect), UNCHANGED lost PROVE Typed'
  <2>1. WireTypes'
    BY <1>7, <1>t, Zenon DEF HubStep, Hub!Reconnect, WireTypes
  <2>2. LoopTypes'
    <3>1. PICK b \in BOOLEAN : b = (loop.pc # "wait")
      OBVIOUS
    <3>2. b \in BOOLEAN /\ loop' = [loop EXCEPT !.current = b]
      BY <1>7, <3>1, Zenon DEF HubStep, Hub!Reconnect
    <3> QED
      BY <1>l, <3>2, LoopConnects, Zenon DEF LoopTypes, LoopRecord
  <2> QED
    BY <1>7, <1>t, <2>1, <2>2, SameTypes, Zenon DEF HubStep, Hub!Reconnect, Hub!queueVars, Typed
<1> QED
  BY <1>1, <1>2, <1>3, <1>4, <1>5, <1>6, <1>7, Zenon DEF HubStep, Link

LEMMA TypedProcess ==
  ASSUME Typed, NEW i \in 1..Len(down), Process(i)
  PROVE  Typed'
<1>t. CloudTypes /\ HubTypes /\ LoopTypes /\ RecordTypes /\ WireTypes /\ EdgeTypes
  BY Zenon DEF Typed
<1>1. PICK m : m = down[i]
  BY Zenon
<1>2. /\ down \in Seq(Message) /\ Len(down) <= LinkSize /\ Len(down) \in Nat
      /\ up \in Seq(Message) /\ Len(up) < LinkSize /\ Len(up) \in Nat
  <2>1. down \in Seq(Message) /\ Len(down) <= LinkSize /\ up \in Seq(Message) /\ Len(up) < LinkSize
    BY <1>t, Zenon DEF WireTypes, Process, EdgeStep, Edge!Process
  <2> QED
    BY <2>1, LenProperties
<1>3. m \in Message
  BY <1>1, <1>2, ElementOfSeq
<1>4. up' = Append(up, m) /\ down' = Without(down, i)
  BY <1>1, Zenon DEF Process, EdgeStep, Edge!Process, Without
<1>5. up' \in Seq(Message) /\ Len(up') <= LinkSize
  <2>1. Append(up, m) \in Seq(Message) /\ Len(Append(up, m)) = Len(up) + 1
    BY <1>2, <1>3, AppendedSequence
  <2> QED
    BY <1>2, <1>4, <2>1, SmallNumbers
<1>6. down' \in Seq(Message) /\ Len(down') <= LinkSize
  <2>1. Without(down, i) \in Seq(Message) /\ Len(Without(down, i)) = Len(down) - 1
    BY <1>2, WithoutOne
  <2> QED
    BY <1>2, <1>4, <2>1, SmallNumbers
<1>7. m.key \in Keys /\ [uid |-> m.uid, rv |-> m.rv] \in Edge!Saved
  BY <1>3, SameMessages DEF Message, Edge!Saved
<1>8. meta' \in [Keys -> Edge!Saved \cup {None}]
  <2>1. \/ meta' = [meta EXCEPT ![m.key] = [uid |-> m.uid, rv |-> m.rv]]
        \/ meta' = meta \/ meta' = [meta EXCEPT ![m.key] = None]
    BY <1>1, Zenon DEF Process, EdgeStep, Edge!Process, Edge!ProcessInsert, Edge!ProcessUpdate, Edge!ProcessDelete, Edge!Save
  <2> QED
    BY <1>t, <1>7, <2>1, Zenon DEF EdgeTypes
<1>9. EdgeTypes'
  BY <1>t, <1>1, <1>7, <1>8, Zenon DEF EdgeTypes, Process, EdgeStep
<1>10. WireTypes'
  BY <1>t, <1>5, <1>6, Zenon DEF WireTypes, Process, EdgeStep, hubVars
<1> QED
  BY <1>t, <1>9, <1>10, SameTypes, Zenon DEF Typed, Process, EdgeStep, ecVars, hubVars

LEMMA TypedRestarts ==
  ASSUME Typed, RestartEdge \/ RestartCloud
  PROVE  Typed'
<1>t. CloudTypes /\ HubTypes /\ LoopTypes /\ RecordTypes /\ WireTypes /\ EdgeTypes
  BY Zenon DEF Typed
<1>n. \A S : << >> \in Seq(S) /\ Len(<< >>) = 0
  OBVIOUS
<1>1. ASSUME RestartEdge PROVE Typed'
  <2>1. faults' \in 0..MaxFaults
    BY <1>1, <1>t, SmallNumbers DEF RestartEdge, WireTypes
  <2>2. down' \in Seq(Message) /\ Len(down') <= LinkSize /\ up' \in Seq(Message) /\ Len(up') <= LinkSize
    BY <1>1, <1>n, SmallNumbers DEF RestartEdge, Edge!ESRestart
  <2>3. WireTypes'
    BY <1>1, <2>1, <2>2, Zenon DEF RestartEdge, WireTypes
  <2> QED
    BY <1>1, <1>t, <2>3, SameTypes, Zenon DEF RestartEdge, Edge!ESRestart, ecVars, Typed
<1>2. ASSUME RestartCloud PROVE Typed'
  <2>1. PICK n \in 0..Len(down), m \in 0..Len(up) : Hub!Cut(n, m)
    BY <1>2, Zenon DEF RestartCloud, Hub!CHRestart
  <2>2. down' \in Seq(Message) /\ Len(down') <= LinkSize /\ up' \in Seq(Message) /\ Len(up') <= LinkSize
    BY <1>t, <2>1, CutTypes, Zenon
  <2>3. faults' \in 0..MaxFaults
    BY <1>2, <1>t, SmallNumbers DEF RestartCloud, Hub!CHRestart, WireTypes
  <2>4. WireTypes'
    BY <1>2, <2>2, <2>3, Zenon DEF RestartCloud, Hub!CHRestart, WireTypes
  <2>5. \A j \in Kinds : /\ Listed({k \in Keys : Kind(k) = j}) \in Seq(Event)
                         /\ \A e \in Elements(Listed({k \in Keys : Kind(k) = j})) : Kind(e.key) = j
    <3> SUFFICES ASSUME NEW j \in Kinds, NEW S, S = {k \in Keys : Kind(k) = j}
                 PROVE  Listed(S) \in Seq(Event) /\ \A e \in Elements(Listed(S)) : Kind(e.key) = j
      BY Zenon
    <3>1. S \in SUBSET Keys
      BY Zenon
    <3>2. Listed(S) \in Seq(Event) /\ \A e \in Elements(Listed(S)) : e.key \in S
      BY <3>1, ListedIs, Zenon
    <3> QED
      BY <3>2, Zenon
  <2>6. events' = [j \in Kinds |-> Listed({k \in Keys : Kind(k) = j})]
    BY <1>2, Zenon DEF RestartCloud, ECRestart
  <2>7. events' \in [Kinds -> Seq(Event)] /\ \A j \in Kinds : \A e \in Elements(events'[j]) : Kind(e.key) = j
    BY <2>5, <2>6, Zenon
  <2>8. cachedPods' \in [UIDs -> 0..MaxVersion]
    <3>1. 0 \in 0..MaxVersion
      BY SmallNumbers
    <3> QED
      BY <1>2, <3>1, Zenon DEF RestartCloud, ECRestart
  <2>9. located' \subseteq ConfigMaps \cup Secrets
    <3>1. located' = UNION {Uses[p] : p \in Pods \cap Existing}
      BY <1>2, Zenon DEF RestartCloud, ECRestart
    <3>2. \A p \in Pods : Uses[p] \subseteq ConfigMaps \cup Secrets
      BY ObjectsAssumption, Zenon
    <3> QED
      BY <3>1, <3>2, Zenon
  <2>10. CloudTypes'
    BY <1>2, <1>t, <2>7, <2>8, <2>9, Zenon DEF RestartCloud, ECRestart, CloudTypes, Elements
  <2>11. HubTypes'
    <3>1. toHub' \in Seq(Message) /\ Len(toHub') <= ChannelSize
      BY <1>2, <1>n, SmallNumbers DEF RestartCloud, ECRestart
    <3> QED
      BY <1>2, <3>1, SameMessages, Zenon DEF RestartCloud, Hub!CHRestart, HubTypes
  <2>12. LoopTypes'
    BY <1>2, IdleIs, Zenon DEF RestartCloud, Hub!CHRestart, LoopTypes, LoopRecord
  <2>13. RecordTypes'
    BY <1>2, <1>t, Zenon DEF RestartCloud, Hub!CHRestart, RecordTypes
  <2>14. EdgeTypes'
    BY <1>2, <1>t, Zenon DEF RestartCloud, Syncer!SCRestart, EdgeTypes
  <2> QED
    BY <2>4, <2>10, <2>11, <2>12, <2>13, <2>14, Zenon DEF Typed
<1> QED
  BY <1>1, <1>2, Zenon

\* What manageObject reads.
LEMMA ManageIs ==
  ASSUME Typed, Manage
  PROVE  \E u \in UIDs, m \in Message :
           /\ managing = None /\ managing' = m
           /\ syncSeen[u] # None /\ m.key = syncSeen[u].key /\ m.key \in Keys /\ api[m.key] # None
           /\ m.uid = api[m.key].uid /\ m.rv = api[m.key].rv /\ m.terminating = api[m.key].terminating
           /\ m.op # "delete" => m.op = "update" /\ m.uid = u
<1>1. PICK u \in UIDs : syncSeen[u] # None /\ Syncer!ManageObject(u)
  BY Zenon DEF Manage
<1>2. syncSeen[u] \in Hub!ObjectSync
  BY <1>1, Zenon DEF Typed, RecordTypes
<1>3. syncSeen[u].key \in Keys
  BY <1>2, SameMessages DEF Hub!ObjectSync
<1>4. PICK k \in Keys : k = syncSeen[u].key
  BY <1>3, Zenon
<1>5. /\ managing = None /\ api[k] # None
      /\ \/ managing' = NewMessage("delete", k, api[k])
         \/ api[k].uid = u /\ managing' = NewMessage("update", k, api[k])
  BY <1>1, <1>4, SameMessages, Zenon DEF Syncer!ManageObject
<1>6. api[k] \in Object
  BY <1>5, Zenon DEF Typed, CloudTypes
<1>7. \A op \in {"delete", "update"} :
        LET m == NewMessage(op, k, api[k])
        IN  /\ m \in Message /\ m.op = op /\ m.key = k /\ m.uid = api[k].uid /\ m.rv = api[k].rv
            /\ m.terminating = api[k].terminating
  BY <1>6, NewMessageType
<1>8. PICK m : m = managing'
  BY Zenon
<1>9. /\ m \in Message /\ m.key = k /\ m.uid = api[k].uid /\ m.rv = api[k].rv
      /\ m.terminating = api[k].terminating /\ (m.op # "delete" => m.op = "update" /\ m.uid = u)
  BY <1>5, <1>7, <1>8, Zenon
<1> QED
  BY <1>1, <1>4, <1>5, <1>8, <1>9, Zenon

LEMMA TypedSyncer ==
  ASSUME Typed, Manage \/ SendEvents
  PROVE  Typed'
<1>t. CloudTypes /\ HubTypes /\ LoopTypes /\ RecordTypes /\ WireTypes /\ EdgeTypes
  BY Zenon DEF Typed
<1>1. ASSUME Manage PROVE Typed'
  <2>1. managing' \in Message
    BY <1>1, ManageIs, Zenon
  <2>2. EdgeTypes'
    BY <1>1, <1>t, <2>1, Zenon DEF Manage, EdgeTypes
  <2>3. UNCHANGED <<api, syncSeen, toHub>>
    BY <1>1, Zenon DEF Manage, Syncer!ManageObject
  <2> QED
    BY <1>1, <1>t, <2>2, <2>3, SameTypes, Zenon DEF Manage, Typed
<1>2. ASSUME SendEvents PROVE Typed'
  <2>1. /\ managing # None /\ Len(toHub) < ChannelSize /\ toHub' = Append(toHub, managing) /\ managing' = None
        /\ UNCHANGED <<api, syncSeen>>
    BY <1>2, Zenon DEF SendEvents, Syncer!SendEvents
  <2>2. managing \in Message
    BY <1>t, <2>1, Zenon DEF EdgeTypes
  <2>3. managing.key \in Keys
    BY <2>2 DEF Message
  <2>4. toHub' \in Seq(Message) /\ Len(toHub') <= ChannelSize
    <3>1. toHub \in Seq(Message)
      BY <1>t, Zenon DEF HubTypes
    <3>2. Append(toHub, managing) \in Seq(Message) /\ Len(Append(toHub, managing)) = Len(toHub) + 1 /\ Len(toHub) \in Nat
      BY <2>2, <3>1, AppendedSequence, LenProperties
    <3> QED
      BY <2>1, <3>2, SmallNumbers
  <2>5. HubTypes'
    BY <1>2, <1>t, <2>4, Zenon DEF SendEvents, HubTypes
  <2>6. EdgeTypes'
    BY <1>2, <1>t, <2>1, <2>3, Zenon DEF SendEvents, EdgeTypes
  <2> QED
    BY <1>2, <1>t, <2>1, <2>5, <2>6, SameTypes, Zenon DEF SendEvents, Typed
<1> QED
  BY <1>1, <1>2, Zenon

LEMMA TypedStep == Typed /\ [Next]_vars => Typed'
<1> SUFFICES ASSUME Typed, [Next]_vars PROVE Typed'
  OBVIOUS
<1>1. CASE UNCHANGED vars
  <2>1. /\ UNCHANGED <<api, clock, events, cachedPods, located>> /\ UNCHANGED <<toHub, dirty, delayed, nodeStore>>
        /\ UNCHANGED loop /\ UNCHANGED <<sync, syncSeen>> /\ UNCHANGED <<conn, faults, down, up>>
        /\ UNCHANGED <<meta, managing, lost>>
    BY <1>1, Zenon DEF vars, ecVars, hubVars
  <2> QED
    BY <2>1, SameTypes, Zenon DEF Typed
<1>2. CASE Controller(ApiServer)
  BY <1>2, ApiWrites, TypedWrite, Zenon DEF ObjectWritten
<1>3. CASE Controller(SyncPod) \/ Controller(SyncConfigMap) \/ Controller(SyncSecret) \/ Controller(SyncService)
  BY <1>3, SyncTakes, TypedTaken, Zenon
<1>4. CASE Dispatch
  BY <1>4, TypedDispatch, Zenon
<1>5. CASE HubStep(HubWork) /\ UNCHANGED lost
  BY <1>5, TypedHubWork, Zenon
<1>6. CASE \/ GiveUp \/ SaveFails
           \/ HubStep(\E k \in Keys : Hub!Requeue(k)) /\ UNCHANGED lost
           \/ HubStep(Hub!RefreshLister) /\ UNCHANGED lost
           \/ HubStep(Link) /\ UNCHANGED lost
  BY <1>6, TypedHubRest, Zenon
<1>7. CASE \E i \in 1..Len(down) : Process(i)
  BY <1>7, TypedProcess, Zenon
<1>8. CASE RestartEdge \/ RestartCloud
  BY <1>8, TypedRestarts, Zenon
<1>9. CASE Manage \/ SendEvents
  BY <1>9, TypedSyncer, Zenon
<1> QED
  BY <1>1, <1>2, <1>3, <1>4, <1>5, <1>6, <1>7, <1>8, <1>9, Zenon DEF Next

\* The types of TypeOK hold in every reachable state, whatever the keys, versions
\* and bounds are.
THEOREM DeliveryTypes == Spec => []TypeOK
<1>1. Spec => []Typed
  BY TypedInit, TypedStep, PTL DEF Spec
<1> QED
  BY <1>1, TypedIsTypeOK, PTL
==============================================================================
