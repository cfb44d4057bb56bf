----------------------------- MODULE BusProofs -----------------------------
(***************************************************************************)
(* Theorems about Bus, for any subscriptions, envelopes, types, rooms and   *)
(* any nesting of publish in handlers.                                      *)
(***************************************************************************)
EXTENDS Bus, SequenceTheorems, TLAPS

(* A place before the end has a next one. *)
LEMMA NextPlace == \A a \in Nat, n \in Nat : a < n => a + 1 \in 1..n
OBVIOUS

(* The numbering that leaves out k gives no number twice. *)
LEMMA LeavesOut ==
  ASSUME NEW i \in Nat, NEW j \in Nat, NEW k \in Nat,
         (IF i < k THEN i ELSE i + 1) = (IF j < k THEN j ELSE j + 1)
  PROVE  i = j
OBVIOUS

LEMMA Topmost ==
  ASSUME NEW S, NEW q \in Seq(S), q # <<>>
  PROVE  /\ Len(q) \in Nat /\ DOMAIN q = 1..Len(q) /\ 1 \in DOMAIN q
         /\ Head(q) = q[1] /\ q[1] \in S
OBVIOUS

(* What is in a sequence without repetition, and what is left without s. *)
LEMMA Removal ==
  ASSUME NEW S, NEW list \in Seq(S), IsInjective(list), NEW s \in S
  PROVE  /\ RemoveFirst(list, s) \in Seq(S)
         /\ IsInjective(RemoveFirst(list, s))
         /\ Range(RemoveFirst(list, s)) = Range(list) \ {s}
<1> DEFINE n == Len(list)
<1>1. n \in Nat /\ DOMAIN list = 1..n /\ \A i \in 1..n : list[i] \in S
  BY LenProperties, ElementOfSeq
<1>2. CASE ~\E i \in 1..n : list[i] = s
  <2>1. RemoveFirst(list, s) = list
    BY <1>2 DEF RemoveFirst
  <2>2. s \notin Range(list)
    BY <1>1, <1>2 DEF Range
  <2> QED
    BY <2>1, <2>2
<1>3. ASSUME NEW k \in 1..n, list[k] = s
      PROVE  /\ RemoveFirst(list, s) \in Seq(S)
             /\ IsInjective(RemoveFirst(list, s))
             /\ Range(RemoveFirst(list, s)) = Range(list) \ {s}
  <2>1. {i \in 1..n : list[i] = s} = {k}
    BY <1>1, <1>3 DEF IsInjective
  <2>2. SelectInSeq(list, LAMBDA v : v = s) = k
    <3>1. Min({k}) = k
      BY DEF Min
    <3> QED
      BY <2>1, <3>1 DEF SelectInSeq
  <2>3. RemoveFirst(list, s) = SubSeq(list, 1, k - 1) \o SubSeq(list, k + 1, n)
    BY <1>3, <2>2 DEF RemoveFirst, RemoveAt
  <2> DEFINE a == SubSeq(list, 1, k - 1)
             b == SubSeq(list, k + 1, n)
             r == RemoveFirst(list, s)
  <2>4. a \in Seq(S) /\ Len(a) = k - 1 /\ \A i \in 1..k - 1 : a[i] = list[i]
    <3>1. 1 \in Int /\ k - 1 \in Int /\ \A i \in 1..k - 1 : list[i] \in S
      BY <1>1
    <3> QED
      BY <1>1, <3>1, SubSeqProperties
  <2>5. b \in Seq(S) /\ Len(b) = n - k /\ \A i \in 1..n - k : b[i] = list[k + i]
    <3>1. k + 1 \in Int /\ n \in Int /\ \A i \in k + 1..n : list[i] \in S
      BY <1>1
    <3> HIDE DEF n
    <3>2. /\ b \in Seq(S)
          /\ Len(b) = IF k + 1 <= n THEN n - (k + 1) + 1 ELSE 0
          /\ \A i \in 1..n - (k + 1) + 1 : b[i] = list[(k + 1) + i - 1]
      BY <3>1, SubSeqProperties
    <3> QED
      BY <1>1, <3>2
  <2>6. /\ r \in Seq(S) /\ Len(r) = n - 1
        /\ \A i \in 1..n - 1 : r[i] = IF i < k THEN list[i] ELSE list[i + 1]
    <3> HIDE DEF a, b, n
    <3>1. /\ a \o b \in Seq(S) /\ Len(a \o b) = Len(a) + Len(b)
          /\ \A i \in 1..Len(a) + Len(b) :
               (a \o b)[i] = IF i <= Len(a) THEN a[i] ELSE b[i - Len(a)]
      BY <2>4, <2>5, ConcatProperties
    <3>2. r = a \o b
      BY <2>3 DEF a, b, n
    <3> QED
      BY <1>1, <2>4, <2>5, <3>1, <3>2
  <2> HIDE DEF r, n
  <2>7. DOMAIN r = 1..n - 1
    BY <2>6
  <2>a. 1..n - 1 \subseteq Nat /\ 1..n \subseteq Nat
    OBVIOUS
  <2>8. IsInjective(r)
    <3>1. ASSUME NEW i \in 1..n - 1, NEW j \in 1..n - 1, r[i] = r[j]
          PROVE  i = j
      <4> DEFINE At(l) == IF l < k THEN l ELSE l + 1
      <4>1. At(i) \in 1..n /\ At(j) \in 1..n
        BY <1>1
      <4>2. list[At(i)] = list[At(j)]
        BY <2>6, <3>1
      <4>3. At(i) = At(j)
        BY <1>1, <4>1, <4>2 DEF IsInjective
      <4>4. i \in Nat /\ j \in Nat /\ k \in Nat
        BY <2>a
      <4> QED
        BY <4>3, <4>4, LeavesOut
    <3> QED
      BY <2>7, <3>1 DEF IsInjective
  <2>9. Range(r) = Range(list) \ {s}
    <3>1. ASSUME NEW x \in Range(r)
          PROVE  x \in Range(list) /\ x # s
      <4>1. PICK i \in 1..n - 1 : r[i] = x
        BY <2>7, <3>1 DEF Range
      <4>2. PICK l \in 1..n : l # k /\ list[l] = x
        <5>1. CASE i < k
          <6>1. i \in 1..n /\ i # k
            BY <1>1, <5>1
          <6> QED
            BY <2>6, <4>1, <5>1, <6>1
        <5>2. CASE ~(i < k)
          <6>1. i + 1 \in 1..n /\ i + 1 # k
            BY <1>1, <5>2
          <6> QED
            BY <2>6, <4>1, <5>2, <6>1
        <5> QED
          BY <5>1, <5>2
      <4>3. x # s
        BY <1>1, <1>3, <4>2 DEF IsInjective
      <4> QED
        BY <1>1, <4>2, <4>3 DEF Range
    <3>2. ASSUME NEW x \in Range(list), x # s
          PROVE  x \in Range(r)
      <4>1. PICK i \in 1..n : list[i] = x
        BY <1>1, <3>2 DEF Range
      <4>2. CASE i < k
        <5>1. i \in 1..n - 1
          BY <1>1, <4>2
        <5> QED
          BY <2>6, <2>7, <4>1, <4>2, <5>1 DEF Range
      <4>3. CASE i > k
        <5>1. i - 1 \in 1..n - 1 /\ ~(i - 1 < k) /\ (i - 1) + 1 = i
          BY <1>1, <4>3
        <5> QED
          BY <2>6, <2>7, <4>1, <5>1 DEF Range
      <4> QED
        BY <1>1, <1>3, <3>2, <4>1, <4>2, <4>3
    <3> QED
      BY <3>1, <3>2
  <2> QED
    BY <2>6, <2>8, <2>9 DEF r
<1> QED
  BY <1>2, <1>3

-----------------------------------------------------------------------------
(* The arrays in the map hold the subscriptions that were made and not given *)
(* up, each of them once and under its type.                                *)
ArraysOK ==
  \A t \in Type :
    /\ IsInjective(subscriptions[t])
    /\ \A s \in Range(subscriptions[t]) : s \in made \ left /\ SubType[s] = t

(* What a loop knows of its array, and what it has done with it so far: the *)
(* array only grows, at its end, and nobody else calls for its envelope.    *)
ListOK(f) ==
  /\ IsInjective(f.list)
  /\ \A s \in Range(f.list) :
       s \in made /\ SubType[s] = EnvType[f.envelope] /\ s \notin former[f.envelope]
  /\ f.shared => f.list = subscriptions[EnvType[f.envelope]]
  /\ promised[f.envelope] \subseteq Range(f.list)

TurnsOK(f) ==
  /\ f.at <= Len(f.list)
  /\ f.envelope \in seen
  /\ \A k \in 1..Len(f.list) :
       calls[f.list[k]][f.envelope] =
         IF k <= f.at /\ RoomMatches(f.list[k], f.envelope) THEN 1 ELSE 0

LoopsOK ==
  /\ \A i \in DOMAIN stack : ListOK(stack[i]) /\ TurnsOK(stack[i])
  /\ \A i, j \in DOMAIN stack : stack[i].envelope = stack[j].envelope => i = j

(* Whoever was called was made, and matches; what was promised matches too. *)
CallsOK ==
  /\ \A s \in Sub, v \in Envelope :
       /\ calls[s][v] > 0 => s \in made /\ v \in seen
       /\ s \in promised[v] => RoomMatches(s, v)
  /\ \A v \in Envelope : former[v] \subseteq made

BusInv ==
  /\ TypeOK /\ ArraysOK /\ LoopsOK /\ CallsOK
  /\ AtMostOnce /\ NobodySkipped /\ OnlySubscribers

LEMMA InitBus == Init => BusInv
<1> SUFFICES ASSUME Init
             PROVE  BusInv
  OBVIOUS
<1>1. stack = <<>> /\ DOMAIN stack = {} /\ Len(stack) = 0
  BY DEF Init
<1>2. TypeOK
  BY <1>1, DepthType DEF Init, TypeOK
<1>3. ArraysOK
  BY DEF Init, ArraysOK, IsInjective, Range
<1>4. LoopsOK
  BY <1>1 DEF LoopsOK
<1>5. CallsOK /\ AtMostOnce /\ NobodySkipped /\ OnlySubscribers
  BY DEF Init, CallsOK, AtMostOnce, NobodySkipped, OnlySubscribers
<1> QED
  BY <1>2, <1>3, <1>4, <1>5 DEF BusInv

LEMMA Framed ==
  ASSUME TypeOK, NEW i \in DOMAIN stack
  PROVE  /\ stack[i] \in Frame /\ stack[i].envelope \in Envelope /\ stack[i].list \in Seq(Sub)
         /\ stack[i].shared \in BOOLEAN /\ stack[i].at \in Nat /\ stack[i].running \in BOOLEAN
         /\ EnvType[stack[i].envelope] \in Type
<1>1. stack \in Seq(Frame) /\ i \in 1..Len(stack)
  BY LenProperties DEF TypeOK
<1>2. stack[i] \in Frame
  BY <1>1, ElementOfSeq
<1> QED
  BY <1>2, EnvTypeType DEF Frame

LEMMA Pushed ==
  ASSUME NEW S, NEW list \in Seq(S), IsInjective(list), NEW s \in S, s \notin Range(list)
  PROVE  /\ Append(list, s) \in Seq(S)
         /\ IsInjective(Append(list, s))
         /\ Range(Append(list, s)) = Range(list) \union {s}
<1>1. /\ Len(list) \in Nat /\ DOMAIN list = 1..Len(list)
      /\ Append(list, s) \in Seq(S) /\ Len(Append(list, s)) = Len(list) + 1
      /\ DOMAIN Append(list, s) = 1..Len(list) + 1
      /\ \A i \in 1..Len(list) : Append(list, s)[i] = list[i]
      /\ Append(list, s)[Len(list) + 1] = s
  BY AppendProperties, LenProperties
<1>2. \A i \in 1..Len(list) : list[i] # s
  BY <1>1 DEF Range
<1>3. IsInjective(Append(list, s))
  BY <1>1, <1>2 DEF IsInjective
<1>4. Range(Append(list, s)) = Range(list) \union {s}
  <2>1. ASSUME NEW x \in Range(list) \union {s}
        PROVE  x \in Range(Append(list, s))
    <3>1. CASE x = s
      <4>1. Len(list) + 1 \in 1..Len(list) + 1
        BY <1>1
      <4> QED
        BY <1>1, <3>1, <4>1 DEF Range
    <3>2. CASE x \in Range(list)
      BY <1>1, <3>2 DEF Range
    <3> QED
      BY <3>1, <3>2
  <2>2. ASSUME NEW x \in Range(Append(list, s))
        PROVE  x \in Range(list) \union {s}
    BY <1>1 DEF Range
  <2> QED
    BY <2>1, <2>2
<1> QED
  BY <1>1, <1>3, <1>4

(* Nobody has called for a new subscription, or knows it. *)
LEMMA SubscribeKeeps ==
  ASSUME BusInv, NEW s \in Sub, Subscribe(s)
  PROVE  BusInv'
<1> DEFINE t == SubType[s]
<1> USE DEF BusInv
<1>0. /\ t \in Type /\ s \notin made /\ made' = made \union {s}
      /\ subscriptions' = [subscriptions EXCEPT ![t] = Append(@, s)]
      /\ UNCHANGED <<left, seen, calls, promised, former, aborted>>
  BY SubTypeType DEF Subscribe
<1>1. /\ DOMAIN stack' = DOMAIN stack
      /\ \A i \in DOMAIN stack :
           stack'[i] = IF stack[i].shared /\ EnvType[stack[i].envelope] = t
                       THEN [stack[i] EXCEPT !.list = Append(@, s)] ELSE stack[i]
  BY DEF Subscribe
<1> HIDE DEF t
<1>2. \A u \in Type : subscriptions[u] \in Seq(Sub) /\ s \notin Range(subscriptions[u])
  BY <1>0 DEF TypeOK, ArraysOK
<1>3. /\ subscriptions'[t] = Append(subscriptions[t], s)
      /\ \A u \in Type \ {t} : subscriptions'[u] = subscriptions[u]
  BY <1>0 DEF TypeOK
<1>4. ASSUME NEW i \in DOMAIN stack
      PROVE  /\ stack'[i].envelope = stack[i].envelope /\ stack'[i].shared = stack[i].shared
             /\ stack'[i].at = stack[i].at /\ stack'[i] \in Frame
             /\ \/ stack'[i].list = Append(stack[i].list, s)
                   /\ stack[i].shared /\ EnvType[stack[i].envelope] = t
                \/ stack'[i].list = stack[i].list
                   /\ ~(stack[i].shared /\ EnvType[stack[i].envelope] = t)
  <2>1. stack[i] \in Frame
    BY Framed
  <2>2. Append(stack[i].list, s) \in Seq(Sub)
    BY Framed, AppendProperties
  <2> QED
    BY <1>1, <2>1, <2>2 DEF Frame
<1>5. TypeOK'
  <2>1. stack' \in Seq(Frame) /\ Len(stack') = Len(stack)
    <3>1. stack \in Seq(Frame) /\ Len(stack) \in Nat /\ DOMAIN stack = 1..Len(stack)
      BY LenProperties DEF TypeOK
    <3>2. stack' = [i \in 1..Len(stack) |-> stack'[i]]
      BY <3>1 DEF Subscribe
    <3>3. stack' \in [1..Len(stack) -> Frame]
      BY <1>4, <3>1, <3>2
    <3> QED
      BY <3>1, <3>3, SeqDef
  <2>2. subscriptions' \in [Type -> Seq(Sub)]
    BY <1>0, <1>2, AppendProperties DEF TypeOK
  <2> QED
    BY <1>0, <2>1, <2>2 DEF TypeOK
<1>6. ArraysOK'
  <2>1. /\ IsInjective(subscriptions'[t])
        /\ Range(subscriptions'[t]) = Range(subscriptions[t]) \union {s}
    BY <1>0, <1>2, <1>3, Pushed DEF ArraysOK
  <2>2. s \notin left
    BY <1>0 DEF TypeOK
  <2> QED
    BY <1>0, <1>3, <2>1, <2>2 DEF ArraysOK, t
<1>7. LoopsOK'
  <2>1. ASSUME NEW i \in DOMAIN stack
        PROVE  ListOK(stack[i])' /\ TurnsOK(stack[i])'
    <3> DEFINE f == stack[i]
               g == stack'[i]
               v == stack[i].envelope
    <3>1. f.list \in Seq(Sub) /\ v \in Envelope /\ f.at \in Nat
      BY Framed
    <3>2. s \notin Range(f.list) /\ ListOK(f) /\ TurnsOK(f)
      BY <1>0 DEF LoopsOK, ListOK
    <3>3. s \notin former[v] /\ calls[s][v] = 0
      BY <1>0, <3>1 DEF CallsOK, TypeOK
    <3>4. CASE g.list = f.list /\ ~(f.shared /\ EnvType[v] = t)
      <4>1. f.shared => EnvType[v] \in Type /\ EnvType[v] # t
        BY <3>4, Framed
      <4> QED
        BY <1>0, <1>3, <1>4, <3>2, <3>4, <4>1 DEF ListOK, TurnsOK
    <3>5. CASE g.list = Append(f.list, s) /\ f.shared /\ EnvType[v] = t
      <4>1. /\ IsInjective(g.list) /\ Range(g.list) = Range(f.list) \union {s}
        BY <3>1, <3>2, <3>5, Pushed DEF ListOK
      <4>2. ListOK(stack[i])'
        BY <1>0, <1>3, <1>4, <3>2, <3>3, <3>5, <4>1 DEF ListOK, t
      <4>3. /\ Len(f.list) \in Nat /\ Len(g.list) = Len(f.list) + 1
            /\ \A k \in 1..Len(f.list) : g.list[k] = f.list[k]
            /\ g.list[Len(f.list) + 1] = s
        BY <3>1, <3>5, AppendProperties, LenProperties
      <4>4. TurnsOK(stack[i])'
        <5> HIDE DEF f, g, v
        <5>1. /\ g.at = f.at /\ f.at <= Len(f.list) /\ g.envelope = v /\ v \in seen'
              /\ UNCHANGED calls
          BY <1>0, <1>4, <3>2 DEF TurnsOK, f, g, v
        <5>2. \A k \in 1..Len(f.list) :
                calls[f.list[k]][v] = IF k <= f.at /\ RoomMatches(f.list[k], v) THEN 1 ELSE 0
          BY <3>2 DEF TurnsOK, f, v
        <5>3. ASSUME NEW k \in 1..Len(g.list)
              PROVE  calls[g.list[k]][v] =
                       IF k <= g.at /\ RoomMatches(g.list[k], v) THEN 1 ELSE 0
          <6>1. CASE k \in 1..Len(f.list)
            BY <4>3, <5>1, <5>2, <6>1
          <6>2. CASE k = Len(f.list) + 1
            BY <3>1, <3>3, <4>3, <5>1, <6>2
          <6> QED
            BY <4>3, <6>1, <6>2
        <5>4. g.at <= Len(g.list)
          BY <3>1, <4>3, <5>1
        <5> QED
          BY <5>1, <5>3, <5>4 DEF TurnsOK, RoomMatches, g
      <4> QED
        BY <4>2, <4>4
    <3> QED
      BY <1>4, <3>4, <3>5
  <2> QED
    BY <1>1, <1>4, <2>1 DEF LoopsOK
<1>8. CallsOK' /\ AtMostOnce' /\ OnlySubscribers'
  BY <1>0 DEF CallsOK, AtMostOnce, OnlySubscribers, RoomMatches
<1>9. NobodySkipped'
  <2>1. InProgress' = InProgress
    BY <1>1, <1>4 DEF InProgress
  <2> QED
    BY <1>0, <2>1 DEF NobodySkipped
<1> QED
  BY <1>5, <1>6, <1>7, <1>8, <1>9

(* Whoever is given up leaves the array in the map; loops keep the old one. *)
LEMMA UnsubscribeKeeps ==
  ASSUME BusInv, NEW s \in Sub, Unsubscribe(s)
  PROVE  BusInv'
<1> DEFINE t == SubType[s]
<1> USE DEF BusInv
<1>0. /\ t \in Type /\ s \in made /\ left' = left \union {s}
      /\ subscriptions' = [subscriptions EXCEPT ![t] = RemoveFirst(@, s)]
      /\ UNCHANGED <<made, seen, calls, promised, former, aborted>>
  BY SubTypeType DEF Unsubscribe
<1>1. /\ DOMAIN stack' = DOMAIN stack
      /\ \A i \in DOMAIN stack :
           stack'[i] = IF EnvType[stack[i].envelope] = t
                       THEN [stack[i] EXCEPT !.shared = FALSE] ELSE stack[i]
  BY DEF Unsubscribe
<1>2. /\ RemoveFirst(subscriptions[t], s) \in Seq(Sub)
      /\ IsInjective(RemoveFirst(subscriptions[t], s))
      /\ Range(RemoveFirst(subscriptions[t], s)) = Range(subscriptions[t]) \ {s}
  BY <1>0, Removal DEF TypeOK, ArraysOK
<1>3. /\ subscriptions'[t] = RemoveFirst(subscriptions[t], s)
      /\ \A u \in Type \ {t} : subscriptions'[u] = subscriptions[u]
  BY <1>0 DEF TypeOK
<1>4. ASSUME NEW i \in DOMAIN stack
      PROVE  /\ stack'[i].envelope = stack[i].envelope /\ stack'[i].list = stack[i].list
             /\ stack'[i].at = stack[i].at /\ stack'[i] \in Frame
             /\ stack'[i].shared => stack[i].shared /\ EnvType[stack[i].envelope] # t
  <2>1. stack[i] \in Frame
    BY Framed
  <2> QED
    BY <1>1, <2>1 DEF Frame
<1>5. TypeOK'
  <2>1. stack' \in Seq(Frame) /\ Len(stack') = Len(stack)
    <3>1. stack \in Seq(Frame) /\ Len(stack) \in Nat /\ DOMAIN stack = 1..Len(stack)
      BY LenProperties DEF TypeOK
    <3>2. stack' = [i \in 1..Len(stack) |-> stack'[i]]
      BY <3>1 DEF Unsubscribe
    <3>3. stack' \in [1..Len(stack) -> Frame]
      BY <1>4, <3>1, <3>2
    <3> QED
      BY <3>1, <3>3, SeqDef
  <2>2. subscriptions' \in [Type -> Seq(Sub)]
    BY <1>0, <1>2 DEF TypeOK
  <2> QED
    BY <1>0, <2>1, <2>2 DEF TypeOK
<1>6. ArraysOK'
  <2>1. Range(subscriptions'[t]) = Range(subscriptions[t]) \ {s} /\ IsInjective(subscriptions'[t])
    BY <1>2, <1>3
  <2>2. \A u \in Type \ {t} : s \notin Range(subscriptions[u])
    BY DEF ArraysOK, t
  <2> HIDE DEF t
  <2> QED
    BY <1>0, <1>3, <2>1, <2>2 DEF ArraysOK
<1>7. LoopsOK'
  <2>1. ASSUME NEW i \in DOMAIN stack
        PROVE  ListOK(stack[i])' /\ TurnsOK(stack[i])'
    <3>1. EnvType[stack[i].envelope] \in Type /\ ListOK(stack[i]) /\ TurnsOK(stack[i])
      BY Framed DEF LoopsOK
    <3> QED
      BY <1>0, <1>3, <1>4, <3>1 DEF ListOK, TurnsOK
  <2> QED
    BY <1>1, <1>4, <2>1 DEF LoopsOK
<1>8. CallsOK' /\ AtMostOnce' /\ OnlySubscribers'
  BY <1>0 DEF CallsOK, AtMostOnce, OnlySubscribers, RoomMatches
<1>9. NobodySkipped'
  <2>1. InProgress' = InProgress
    BY <1>1, <1>4 DEF InProgress
  <2> QED
    BY <1>0, <2>1 DEF NobodySkipped
<1> QED
  BY <1>5, <1>6, <1>7, <1>8, <1>9

(* A new loop begins with the array in the map. *)
LEMMA PublishKeeps ==
  ASSUME BusInv, NEW v \in Envelope, Publish(v)
  PROVE  BusInv'
<1> DEFINE t == EnvType[v]
           new == [envelope |-> v, list |-> subscriptions[t],
                   shared |-> \E s \in made : SubType[s] = t, at |-> 0, running |-> FALSE]
<1> USE DEF BusInv
<1>0. /\ t \in Type /\ v \notin seen /\ seen' = seen \union {v}
      /\ promised' = [promised EXCEPT ![v] = {s \in Range(subscriptions[t]) : RoomMatches(s, v)}]
      /\ former' = [former EXCEPT ![v] = left]
      /\ UNCHANGED <<subscriptions, made, left, calls, aborted>>
  BY EnvTypeType DEF Publish
<1>1. stack' = <<new>> \o stack /\ Len(stack) < MaxDepth
  BY DEF Publish
<1>2. new \in Frame
  <2>1. (\E s \in made : SubType[s] = t) \in BOOLEAN
    OBVIOUS
  <2> QED
    BY <1>0, <2>1 DEF TypeOK, Frame
<1>3. /\ new.envelope = v /\ new.list = subscriptions[t] /\ new.at = 0
  OBVIOUS
<1> HIDE DEF new
<1>4. /\ stack' \in Seq(Frame) /\ Len(stack') = Len(stack) + 1 /\ Len(stack) \in Nat
      /\ DOMAIN stack = 1..Len(stack) /\ DOMAIN stack' = 1..Len(stack) + 1
      /\ stack'[1] = new /\ \A i \in 1..Len(stack) : stack'[i + 1] = stack[i]
  <2>1. stack \in Seq(Frame) /\ <<new>> \in Seq(Frame) /\ Len(<<new>>) = 1 /\ <<new>>[1] = new
    BY <1>2 DEF TypeOK
  <2>2. /\ <<new>> \o stack \in Seq(Frame)
        /\ Len(<<new>> \o stack) = 1 + Len(stack)
        /\ \A i \in 1..1 + Len(stack) :
             (<<new>> \o stack)[i] = IF i <= 1 THEN <<new>>[i] ELSE stack[i - 1]
    BY <2>1, ConcatProperties
  <2>3. Len(stack) \in Nat /\ DOMAIN stack = 1..Len(stack) /\ DOMAIN stack' = 1..Len(stack')
    BY <1>1, <2>1, <2>2, LenProperties
  <2>4. Len(stack') = Len(stack) + 1
    BY <1>1, <2>2, <2>3
  <2>5. stack'[1] = new
    BY <1>1, <2>1, <2>2, <2>3
  <2>6. \A i \in 1..Len(stack) : i + 1 \in 1..1 + Len(stack) /\ ~(i + 1 <= 1) /\ (i + 1) - 1 = i
    BY <2>3
  <2>7. \A i \in 1..Len(stack) : stack'[i + 1] = stack[i]
    BY <1>1, <2>2, <2>6
  <2> QED
    BY <1>1, <2>2, <2>3, <2>4, <2>5, <2>7
<1>5. \A j \in DOMAIN stack' : j = 1 \/ \E i \in DOMAIN stack : j = i + 1
  <2>1. \A j \in 1..Len(stack) + 1 : j = 1 \/ (j - 1 \in 1..Len(stack) /\ j = (j - 1) + 1)
    BY <1>4
  <2> QED
    BY <1>4, <2>1
<1>6. TypeOK'
  <2>1. Len(stack') <= MaxDepth
    BY <1>1, <1>4, DepthType
  <2>2. promised' \in [Envelope -> SUBSET Sub] /\ former' \in [Envelope -> SUBSET Sub]
    BY <1>0, RangeOfSeq DEF TypeOK
  <2> QED
    BY <1>0, <1>4, <2>1, <2>2 DEF TypeOK
<1>7. ArraysOK'
  BY <1>0 DEF ArraysOK
<1>8. \A i \in DOMAIN stack : stack[i].envelope # v
  BY <1>0 DEF LoopsOK, TurnsOK
<1>9. ASSUME NEW f, f = new
      PROVE  /\ IsInjective(f.list)
             /\ \A s \in Range(f.list) :
                  s \in made' /\ SubType[s] = EnvType[f.envelope] /\ s \notin former'[f.envelope]
             /\ f.shared => f.list = subscriptions'[EnvType[f.envelope]]
             /\ promised'[f.envelope] \subseteq Range(f.list)
             /\ f.at <= Len(f.list) /\ f.envelope \in seen'
             /\ \A k \in 1..Len(f.list) :
                  calls'[f.list[k]][f.envelope] =
                    IF k <= f.at /\ RoomMatches(f.list[k], f.envelope) THEN 1 ELSE 0
  <2>1. f.envelope = v /\ f.list = subscriptions[t] /\ f.at = 0
    BY <1>3, <1>9
  <2>2. former'[v] = left /\ promised'[v] \subseteq Range(subscriptions[t])
    BY <1>0 DEF TypeOK
  <2>3. /\ IsInjective(subscriptions[t])
        /\ \A s \in Range(subscriptions[t]) : s \in made \ left /\ SubType[s] = t
    BY <1>0 DEF ArraysOK
  <2>4. Len(subscriptions[t]) \in Nat /\ \A k \in 1..Len(subscriptions[t]) :
          subscriptions[t][k] \in Sub /\ ~(k <= 0)
    BY <1>0, LenProperties, ElementOfSeq DEF TypeOK
  <2>5. \A s \in Sub : calls[s][v] = 0
    BY <1>0 DEF CallsOK, TypeOK
  <2> QED
    BY <1>0, <2>1, <2>2, <2>3, <2>4, <2>5
<1>10. LoopsOK'
  <2>1. ListOK(stack[1])' /\ TurnsOK(stack[1])'
    BY <1>4, <1>9 DEF ListOK, TurnsOK, RoomMatches
  <2>2. ASSUME NEW i \in DOMAIN stack, NEW j \in DOMAIN stack', j = i + 1
        PROVE  /\ stack'[j] = stack[i] /\ ListOK(stack[j])' /\ TurnsOK(stack[j])'
    <3>1. stack'[j] = stack[i] /\ ListOK(stack[i]) /\ TurnsOK(stack[i])
      BY <1>4, <2>2 DEF LoopsOK
    <3>2. stack[i].envelope \in Envelope /\ stack[i].envelope # v
      BY <1>8, Framed
    <3>3. /\ former'[stack[i].envelope] = former[stack[i].envelope]
          /\ promised'[stack[i].envelope] = promised[stack[i].envelope]
      BY <1>0, <3>2 DEF TypeOK
    <3> QED
      BY <1>0, <3>1, <3>3 DEF ListOK, TurnsOK, RoomMatches
  <2>3. \A j \in DOMAIN stack' : ListOK(stack[j])' /\ TurnsOK(stack[j])'
    BY <1>5, <2>1, <2>2
  <2>4. ASSUME NEW i \in DOMAIN stack', NEW j \in DOMAIN stack',
               stack'[i].envelope = stack'[j].envelope
        PROVE  i = j
    <3>1. stack'[1].envelope = v
      BY <1>3, <1>4
    <3>2. ASSUME NEW k \in DOMAIN stack
          PROVE  stack'[k + 1].envelope # v
      BY <1>4, <1>8
    <3>3. CASE i = 1 \/ j = 1
      BY <1>5, <2>4, <3>1, <3>2, <3>3
    <3>4. CASE i # 1 /\ j # 1
      <4>1. PICK a \in DOMAIN stack : i = a + 1
        BY <1>5, <3>4
      <4>2. PICK b \in DOMAIN stack : j = b + 1
        BY <1>5, <3>4
      <4>3. a = b
        BY <1>4, <2>4, <4>1, <4>2 DEF LoopsOK
      <4> QED
        BY <4>1, <4>2, <4>3
    <3> QED
      BY <3>3, <3>4
  <2> QED
    BY <2>3, <2>4 DEF LoopsOK
<1>11. CallsOK' /\ AtMostOnce' /\ OnlySubscribers'
  <2>1. \A s \in Sub : calls[s][v] = 0
    BY <1>0 DEF CallsOK, TypeOK
  <2>2. \A w \in Envelope \ {v} : former'[w] = former[w] /\ promised'[w] = promised[w]
    BY <1>0 DEF TypeOK
  <2>3. former'[v] = left /\ left \subseteq made /\ \A s \in promised'[v] : RoomMatches(s, v)
    BY <1>0 DEF TypeOK
  <2>4. CallsOK'
    BY <1>0, <2>2, <2>3 DEF CallsOK, RoomMatches
  <2> QED
    BY <1>0, <2>1, <2>2, <2>4 DEF AtMostOnce, OnlySubscribers, RoomMatches
<1>12. NobodySkipped'
  <2>1. InProgress' = InProgress \union {v}
    <3>1. ASSUME NEW w \in InProgress \union {v}
          PROVE  w \in InProgress'
      <4>1. CASE w = v
        BY <1>3, <1>4, <4>1 DEF InProgress
      <4>2. CASE w \in InProgress
        <5>1. PICK i \in 1..Len(stack) : stack[i].envelope = w
          BY <1>4, <4>2 DEF InProgress
        <5>2. i + 1 \in DOMAIN stack' /\ stack'[i + 1].envelope = w
          BY <1>4, <5>1
        <5> QED
          BY <5>2 DEF InProgress
      <4> QED
        BY <4>1, <4>2
    <3>2. ASSUME NEW w \in InProgress'
          PROVE  w \in InProgress \union {v}
      <4>1. PICK j \in DOMAIN stack' : stack'[j].envelope = w
        BY DEF InProgress
      <4> QED
        BY <1>3, <1>4, <1>5, <4>1 DEF InProgress
    <3> QED
      BY <3>1, <3>2
  <2>2. \A w \in Envelope \ {v} : promised'[w] = promised[w]
    BY <1>0 DEF TypeOK
  <2> QED
    BY <1>0, <2>1, <2>2 DEF NobodySkipped, TypeOK
<1> QED
  BY <1>6, <1>7, <1>10, <1>11, <1>12

LEMMA Turned ==
  ASSUME NEW f \in Frame, NEW n \in Nat, NEW b \in BOOLEAN
  PROVE  /\ [f EXCEPT !.at = n, !.running = b] \in Frame
         /\ [f EXCEPT !.at = n, !.running = b].envelope = f.envelope
         /\ [f EXCEPT !.at = n, !.running = b].list = f.list
         /\ [f EXCEPT !.at = n, !.running = b].shared = f.shared
         /\ [f EXCEPT !.at = n, !.running = b].at = n
<1> DEFINE g == [f EXCEPT !.at = n, !.running = b]
<1>1. /\ g.envelope = f.envelope /\ g.list = f.list /\ g.shared = f.shared /\ g.at = n
  BY DEF Frame
<1>2. CASE b = TRUE
  BY <1>2 DEF Frame
<1>3. CASE b = FALSE
  BY <1>3 DEF Frame
<1> QED
  BY <1>1, <1>2, <1>3

(* A loop calls for its own envelope only, and each entry in its turn. *)
LEMMA VisitKeeps ==
  ASSUME BusInv, Visit
  PROVE  BusInv'
<1> DEFINE f == Head(stack)
           s == f.list[f.at + 1]
           v == f.envelope
           matches == RoomMatches(s, v)
<1> USE DEF BusInv
<1>0. /\ stack # <<>> /\ ~f.running /\ f.at < Len(f.list)
      /\ stack' = [stack EXCEPT ![1] = [f EXCEPT !.at = f.at + 1, !.running = matches]]
      /\ calls' = IF matches THEN [calls EXCEPT ![s][v] = @ + 1] ELSE calls
      /\ UNCHANGED <<subscriptions, made, left, seen, promised, former, aborted>>
  BY DEF Visit
<1>1. stack \in Seq(Frame) /\ 1 \in DOMAIN stack /\ f = stack[1] /\ DOMAIN stack = 1..Len(stack)
  <2>1. stack \in Seq(Frame)
    BY DEF TypeOK
  <2> QED
    BY <1>0, <2>1, Topmost
<1>2. /\ f \in Frame /\ v \in Envelope /\ f.list \in Seq(Sub) /\ f.at \in Nat
  BY <1>1, Framed
<1>3. ListOK(f) /\ TurnsOK(f)
  BY <1>1 DEF LoopsOK
<1>4. /\ Len(f.list) \in Nat /\ f.at + 1 \in 1..Len(f.list) /\ s \in Sub
      /\ DOMAIN f.list = 1..Len(f.list)
      /\ \A k \in 1..Len(f.list) : f.list[k] \in Sub
  <2>1. Len(f.list) \in Nat /\ DOMAIN f.list = 1..Len(f.list)
    BY <1>2, LenProperties
  <2>2. f.at + 1 \in 1..Len(f.list)
    BY <1>0, <1>2, <2>1, NextPlace
  <2> QED
    BY <1>2, <2>1, <2>2, ElementOfSeq
<1>5. s \in made /\ SubType[s] = EnvType[v] /\ s \notin former[v] /\ v \in seen
  BY <1>3, <1>4 DEF ListOK, TurnsOK, Range
<1>6. calls[s][v] = 0
  BY <1>2, <1>3, <1>4 DEF TurnsOK
<1> HIDE DEF matches, s
<1>7. /\ calls'[s][v] = IF matches THEN 1 ELSE 0
      /\ \A x \in Sub, w \in Envelope : x # s \/ w # v => calls'[x][w] = calls[x][w]
      /\ calls' \in [Sub -> [Envelope -> Nat]]
  BY <1>0, <1>2, <1>4, <1>6 DEF TypeOK
<1>8. /\ stack'[1] \in Frame /\ stack'[1].envelope = v /\ stack'[1].list = f.list
      /\ stack'[1].shared = f.shared /\ stack'[1].at = f.at + 1
      /\ DOMAIN stack' = DOMAIN stack /\ \A i \in DOMAIN stack \ {1} : stack'[i] = stack[i]
      /\ stack' \in Seq(Frame) /\ Len(stack') = Len(stack)
  <2>1. PICK b \in BOOLEAN : b = matches
    BY DEF matches, RoomMatches
  <2> DEFINE g == [f EXCEPT !.at = f.at + 1, !.running = b]
  <2>2. /\ g \in Frame /\ g.envelope = v /\ g.list = f.list /\ g.shared = f.shared
        /\ g.at = f.at + 1
    <3>1. PICK h \in Frame : h = f
      BY <1>2
    <3>2. PICK n \in Nat : n = f.at + 1
      BY <1>2
    <3>3. /\ [h EXCEPT !.at = n, !.running = b] \in Frame
          /\ [h EXCEPT !.at = n, !.running = b].envelope = h.envelope
          /\ [h EXCEPT !.at = n, !.running = b].list = h.list
          /\ [h EXCEPT !.at = n, !.running = b].shared = h.shared
          /\ [h EXCEPT !.at = n, !.running = b].at = n
      BY Turned
    <3> QED
      BY <3>1, <3>2, <3>3
  <2>3. stack' = [stack EXCEPT ![1] = g]
    BY <1>0, <2>1
  <2> HIDE DEF g
  <2> QED
    BY <1>1, <2>2, <2>3, ExceptSeq
<1>9. TypeOK'
  BY <1>0, <1>7, <1>8 DEF TypeOK
<1>10. ArraysOK'
  BY <1>0 DEF ArraysOK
<1>11. LoopsOK'
  <2>1. ListOK(stack[1])'
    BY <1>0, <1>1, <1>3, <1>8 DEF ListOK
  <2>2. TurnsOK(stack[1])'
    <3>1. ASSUME NEW k \in 1..Len(f.list)
          PROVE  calls'[f.list[k]][v] =
                   IF k <= f.at + 1 /\ RoomMatches(f.list[k], v) THEN 1 ELSE 0
      <4>1. CASE k = f.at + 1
        BY <1>2, <1>4, <1>7, <4>1 DEF s, matches
      <4>2. CASE k # f.at + 1
        <5>1. f.list[k] # s
          BY <1>3, <1>4, <4>2 DEF s, ListOK, IsInjective
        <5>2. calls'[f.list[k]][v] = calls[f.list[k]][v]
          BY <1>2, <1>4, <1>7, <5>1
        <5>3. k <= f.at <=> k <= f.at + 1
          <6>1. f.at \in Nat /\ k \in Int
            BY <1>2
          <6> QED
            BY <4>2, <6>1
        <5>4. calls[f.list[k]][v] =
                IF k <= f.at /\ RoomMatches(f.list[k], v) THEN 1 ELSE 0
          BY <1>3 DEF TurnsOK
        <5> QED
          BY <5>2, <5>3, <5>4
      <4> QED
        BY <4>1, <4>2
    <3>2. f.at + 1 <= Len(f.list)
      BY <1>4
    <3>3. /\ stack'[1].envelope = v /\ stack'[1].list = f.list /\ stack'[1].at = f.at + 1
          /\ v \in seen'
      BY <1>0, <1>5, <1>8
    <3>4. \A k \in 1..Len(f.list) :
            calls'[f.list[k]][v] =
              IF k <= f.at + 1 /\ RoomMatches(f.list[k], v) THEN 1 ELSE 0
      BY <3>1
    <3> QED
      BY <3>2, <3>3, <3>4 DEF TurnsOK, RoomMatches
  <2>3. ASSUME NEW i \in DOMAIN stack \ {1}
        PROVE  ListOK(stack[i])' /\ TurnsOK(stack[i])'
    <3>1. stack'[i] = stack[i] /\ ListOK(stack[i]) /\ TurnsOK(stack[i])
      BY <1>8 DEF LoopsOK
    <3>2. stack[i].envelope \in Envelope /\ stack[i].envelope # v
      BY <1>1, Framed DEF LoopsOK
    <3>3. \A k \in 1..Len(stack[i].list) : stack[i].list[k] \in Sub
      BY Framed, ElementOfSeq
    <3>4. \A k \in 1..Len(stack[i].list) :
            calls'[stack[i].list[k]][stack[i].envelope] = calls[stack[i].list[k]][stack[i].envelope]
      BY <1>7, <3>2, <3>3
    <3> QED
      BY <1>0, <3>1, <3>4 DEF ListOK, TurnsOK, RoomMatches
  <2>4. ASSUME NEW i \in DOMAIN stack'
        PROVE  stack'[i].envelope = stack[i].envelope
    BY <1>1, <1>8
  <2> QED
    BY <1>8, <2>1, <2>2, <2>3, <2>4 DEF LoopsOK
<1>12. CallsOK'
  BY <1>0, <1>5, <1>7 DEF CallsOK, RoomMatches
<1>13. AtMostOnce' /\ OnlySubscribers'
  <2>1. \A x \in Sub, w \in Envelope : x # s \/ w # v => calls'[x][w] = calls[x][w]
    BY <1>7
  <2>2. calls'[s][v] <= 1 /\ (calls'[s][v] > 0 => matches)
    BY <1>7
  <2> QED
    BY <1>0, <1>5, <2>1, <2>2 DEF AtMostOnce, OnlySubscribers, RoomMatches, matches
<1>14. NobodySkipped'
  <2>1. InProgress' = InProgress /\ v \in InProgress
    BY <1>1, <1>8 DEF InProgress
  <2>2. \A x \in Sub, w \in Envelope : w # v => calls'[x][w] = calls[x][w]
    BY <1>7
  <2>3. seen \subseteq Envelope /\ \A w \in Envelope : promised[w] \subseteq Sub
    BY DEF TypeOK
  <2> QED
    BY <1>0, <2>1, <2>2, <2>3 DEF NobodySkipped
<1> QED
  BY <1>9, <1>10, <1>11, <1>12, <1>13, <1>14

LEMMA HandlerReturnsKeeps ==
  ASSUME BusInv, HandlerReturns
  PROVE  BusInv'
<1> USE DEF BusInv
<1>0. /\ stack # <<>> /\ stack' = [stack EXCEPT ![1].running = FALSE]
      /\ UNCHANGED <<subscriptions, made, left, seen, calls, promised, former, aborted>>
  BY DEF HandlerReturns
<1>1. stack \in Seq(Frame) /\ 1 \in 1..Len(stack) /\ DOMAIN stack = 1..Len(stack)
  BY <1>0 DEF TypeOK
<1>2. stack[1] \in Frame /\ [stack[1] EXCEPT !.running = FALSE] \in Frame
  BY <1>1, Framed DEF Frame
<1>3. /\ stack' \in Seq(Frame) /\ Len(stack') = Len(stack) /\ DOMAIN stack' = DOMAIN stack
      /\ stack'[1] = [stack[1] EXCEPT !.running = FALSE]
      /\ \A i \in DOMAIN stack \ {1} : stack'[i] = stack[i]
  BY <1>0, <1>1, <1>2, ExceptSeq
<1>4. \A i \in DOMAIN stack :
        /\ stack'[i].envelope = stack[i].envelope /\ stack'[i].list = stack[i].list
        /\ stack'[i].shared = stack[i].shared /\ stack'[i].at = stack[i].at
  <2>1. /\ stack'[1].envelope = stack[1].envelope /\ stack'[1].list = stack[1].list
        /\ stack'[1].shared = stack[1].shared /\ stack'[1].at = stack[1].at
    BY <1>2, <1>3 DEF Frame
  <2> QED
    BY <1>3, <2>1
<1>5. TypeOK' /\ ArraysOK'
  BY <1>0, <1>3 DEF TypeOK, ArraysOK
<1>6. LoopsOK'
  <2>1. ASSUME NEW i \in DOMAIN stack
        PROVE  ListOK(stack[i])' /\ TurnsOK(stack[i])'
    <3>1. ListOK(stack[i]) /\ TurnsOK(stack[i])
      BY DEF LoopsOK
    <3> QED
      BY <1>0, <1>4, <3>1 DEF ListOK, TurnsOK, RoomMatches
  <2>2. ASSUME NEW i \in DOMAIN stack, NEW j \in DOMAIN stack,
               stack'[i].envelope = stack'[j].envelope
        PROVE  i = j
    BY <1>4, <2>2 DEF LoopsOK
  <2> QED
    BY <1>3, <2>1, <2>2 DEF LoopsOK
<1>7. CallsOK' /\ AtMostOnce' /\ OnlySubscribers'
  BY <1>0 DEF CallsOK, AtMostOnce, OnlySubscribers, RoomMatches
<1>8. NobodySkipped'
  <2>1. InProgress' = InProgress
    BY <1>3, <1>4 DEF InProgress
  <2> QED
    BY <1>0, <2>1 DEF NobodySkipped
<1> QED
  BY <1>5, <1>6, <1>7, <1>8

(* A publish ends at the end of its array, with everyone called who was     *)
(* promised, or with an exception.                                          *)
LEMMA EndKeeps ==
  ASSUME BusInv, HandlerThrows \/ Return
  PROVE  BusInv'
<1> DEFINE v == Head(stack).envelope
<1> USE DEF BusInv
<1>0. /\ stack # <<>> /\ stack' = Tail(stack)
      /\ \/ aborted' = aborted \union {v}
         \/ Head(stack).at = Len(Head(stack).list) /\ UNCHANGED aborted
      /\ UNCHANGED <<subscriptions, made, left, seen, calls, promised, former>>
  BY DEF HandlerThrows, Return
<1>1. /\ stack \in Seq(Frame) /\ 1 \in DOMAIN stack /\ Head(stack) = stack[1]
      /\ DOMAIN stack = 1..Len(stack) /\ Len(stack) \in Nat
  BY <1>0 DEF TypeOK
<1>2. /\ stack' \in Seq(Frame) /\ Len(stack') = Len(stack) - 1
      /\ DOMAIN stack' = 1..Len(stack) - 1
      /\ \A i \in 1..Len(stack) - 1 : stack'[i] = stack[i + 1]
  BY <1>0, <1>1, HeadTailProperties, LenProperties
<1>3. \A i \in DOMAIN stack' : i + 1 \in DOMAIN stack /\ i + 1 # 1
  BY <1>1, <1>2
<1>4. TypeOK'
  <2>1. v \in Envelope
    BY <1>1, Framed
  <2>2. Len(stack') <= MaxDepth
    BY <1>1, <1>2, DepthType DEF TypeOK
  <2> QED
    BY <1>0, <1>2, <2>1, <2>2 DEF TypeOK
<1>5. ArraysOK'
  BY <1>0 DEF ArraysOK
<1>6. LoopsOK'
  <2>1. ASSUME NEW i \in DOMAIN stack'
        PROVE  ListOK(stack[i])' /\ TurnsOK(stack[i])'
    <3>1. stack'[i] = stack[i + 1] /\ ListOK(stack[i + 1]) /\ TurnsOK(stack[i + 1])
      BY <1>2, <1>3 DEF LoopsOK
    <3> QED
      BY <1>0, <3>1 DEF ListOK, TurnsOK, RoomMatches
  <2>2. ASSUME NEW i \in DOMAIN stack', NEW j \in DOMAIN stack',
               stack'[i].envelope = stack'[j].envelope
        PROVE  i = j
    <3>1. i + 1 = j + 1
      BY <1>2, <1>3, <2>2 DEF LoopsOK
    <3> QED
      BY <1>2, <3>1
  <2> QED
    BY <2>1, <2>2 DEF LoopsOK
<1>7. CallsOK' /\ AtMostOnce' /\ OnlySubscribers'
  BY <1>0 DEF CallsOK, AtMostOnce, OnlySubscribers, RoomMatches
<1>8. NobodySkipped'
  <2>1. ASSUME NEW w \in InProgress
        PROVE  w = v \/ w \in InProgress'
    <3>1. PICK i \in 1..Len(stack) : stack[i].envelope = w
      BY <1>1 DEF InProgress
    <3>2. CASE i = 1
      BY <1>1, <3>1, <3>2
    <3>3. CASE i # 1
      <4>1. i - 1 \in 1..Len(stack) - 1 /\ (i - 1) + 1 = i
        BY <1>1, <3>3
      <4> QED
        BY <1>2, <3>1, <4>1 DEF InProgress
    <3> QED
      BY <3>2, <3>3
  <2>2. v \in aborted' \/ \A s \in promised[v] : calls[s][v] = 1
    <3>1. CASE Head(stack).at = Len(Head(stack).list)
      <4>1. ListOK(stack[1]) /\ TurnsOK(stack[1])
        BY <1>1 DEF LoopsOK
      <4>2. stack[1].list \in Seq(Sub) /\ v \in Envelope
        BY <1>1, Framed
      <4>3. ASSUME NEW s \in promised[v]
            PROVE  calls[s][v] = 1
        <5>1. PICK k \in 1..Len(stack[1].list) : s = stack[1].list[k]
          BY <1>1, <4>1, <4>2, LenProperties DEF ListOK, Range
        <5>2. RoomMatches(s, v)
          BY <4>2 DEF CallsOK, TypeOK
        <5>3. k <= stack[1].at
          BY <1>1, <3>1, <4>2, LenProperties
        <5> QED
          BY <1>1, <4>1, <5>1, <5>2, <5>3 DEF TurnsOK
      <4> QED
        BY <4>3
    <3> QED
      BY <1>0, <3>1
  <2> HIDE DEF v
  <2> QED
    BY <1>0, <2>1, <2>2 DEF NobodySkipped
<1> QED
  BY <1>4, <1>5, <1>6, <1>7, <1>8

LEMMA NextBus == BusInv /\ [Next]_vars => BusInv'
<1> SUFFICES ASSUME BusInv, [Next]_vars
             PROVE  BusInv'
  OBVIOUS
<1>1. CASE UNCHANGED vars
  BY <1>1 DEF vars, BusInv, TypeOK, ArraysOK, LoopsOK, ListOK, TurnsOK, CallsOK, AtMostOnce,
              NobodySkipped, OnlySubscribers, InProgress, RoomMatches
<1> QED
  BY <1>1, SubscribeKeeps, UnsubscribeKeeps, PublishKeeps, VisitKeeps, HandlerReturnsKeeps,
     EndKeeps DEF Next

(* The inductive invariant: a loop's array only grows and holds nobody      *)
(* twice, and the loop has called exactly those of the visited part whose   *)
(* room matches, while no other loop is about the same envelope.            *)
THEOREM BusInvariant == Spec => []BusInv
BY InitBus, NextBus, PTL DEF Spec

(* Every variable keeps its type: the map holds arrays of subscriptions     *)
(* whatever handlers do to it.                                              *)
THEOREM BusTyped == Spec => []TypeOK
<1>1. BusInv => TypeOK
  BY DEF BusInv
<1> QED
  BY <1>1, BusInvariant, PTL

(* No handler is called twice for an event, however publish, subscribe and  *)
(* unsubscribe are called from within handlers.                             *)
THEOREM CalledAtMostOnce == Spec => []AtMostOnce
<1>1. BusInv => AtMostOnce
  BY DEF BusInv
<1> QED
  BY <1>1, BusInvariant, PTL

(* A publish that returns has called everyone who was subscribed when it    *)
(* began and whose room matches, even those who left during the loop.       *)
THEOREM EveryoneCalled == Spec => []NobodySkipped
<1>1. BusInv => NobodySkipped
  BY DEF BusInv
<1> QED
  BY <1>1, BusInvariant, PTL

(* Nobody is called for another type or room, or for an envelope published  *)
(* after the subscription was given up.                                     *)
THEOREM SubscribersOnly == Spec => []OnlySubscribers
<1>1. BusInv => OnlySubscribers
  BY DEF BusInv
<1> QED
  BY <1>1, BusInvariant, PTL
=============================================================================
