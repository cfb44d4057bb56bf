------------------------- MODULE StunMessageProofs -------------------------
(***************************************************************************)
(* Theorems about StunMessage, for messages of any length with any number   *)
(* of attributes: what the parser reads is what the message says.           *)
(***************************************************************************)
EXTENDS StunMessage, WellFoundedInduction, SequenceTheorems, TLAPS

(* Induction over data, as the principle of the least number of a set. *)
LEMMA Least ==
  ASSUME NEW T, T \subseteq Nat, T # {}
  PROVE  \E x \in T : \A y \in T : x <= y
<1> DEFINE R == OpToRel(<, Nat)
<1>1. \A x, y \in Nat : <<x, y>> \in R <=> x < y
  BY DEF OpToRel
<1>2. IsWellFoundedOn(R, Nat)
  BY NatLessThanWellFounded
<1> HIDE DEF R
<1>3. PICK x \in T : \A y \in T : ~(<<y, x>> \in R)
  BY <1>2, WFMin
<1>4. \A y \in T : ~(y < x)
  BY <1>1, <1>3
<1> QED
  BY <1>3, <1>4

Turn(m, f, o) ==
  IF o + 4 > EndOf(m) \/ o + 4 > Len(m) THEN Null
  ELSE IF IsAddress(m, o) /\ o + 4 + UInt16(m, o + 2) <= Len(m) THEN EndpointAt(m, o)
  ELSE f[o + Size(UInt16(m, o + 2))]

From(m) == CHOOSE f : f = [o \in Nat |-> Turn(m, f, o)]

LEMMA ScanIsFrom == ASSUME NEW m PROVE Scan(m) = From(m)[20]
BY DEF Scan, From, Turn, EndOf, IsAddress

LEMMA SizeType == \A k \in Nat : Size(k) \in Nat /\ Size(k) >= 4
BY DEF Size

LEMMA UInt16Type ==
  ASSUME NEW m \in Seq(0..255), NEW o \in Nat, o + 2 <= Len(m)
  PROVE  UInt16(m, o) \in Nat
<1>1. o + 1 \in 1..Len(m) /\ (o + 1) + 1 \in 1..Len(m)
  OBVIOUS
<1>2. m[o + 1] \in 0..255 /\ m[(o + 1) + 1] \in 0..255
  BY <1>1, ElementOfSeq
<1>3. PICK x \in 0..255, y \in 0..255 : UInt16(m, o) = 256 * x + y
  BY <1>2 DEF UInt16, Byte
<1>4. 256 * x + y \in Nat
  OBVIOUS
<1> QED
  BY <1>3, <1>4

(* Where the scan goes on is behind where it is. *)
LEMMA Advances ==
  ASSUME NEW m \in Seq(0..255), NEW o \in Nat, o + 4 <= Len(m)
  PROVE  o + Size(UInt16(m, o + 2)) \in Nat /\ o + Size(UInt16(m, o + 2)) > o
<1>1. UInt16(m, o + 2) \in Nat
  <2>1. o + 2 \in Nat /\ (o + 2) + 2 <= Len(m)
    OBVIOUS
  <2> QED
    BY <2>1, UInt16Type
<1>2. PICK k \in Nat : k = Size(UInt16(m, o + 2)) /\ k >= 4
  BY <1>1, SizeType
<1>3. o + k \in Nat /\ o + k > o
  BY <1>2
<1> QED
  BY <1>2, <1>3

(* What the scan finds at o depends on what it finds behind o only. *)
LEMMA TurnLooksAhead ==
  ASSUME NEW m \in Seq(0..255), NEW o \in Nat, NEW f, NEW g,
         \A p \in Nat : p > o => f[p] = g[p]
  PROVE  Turn(m, f, o) = Turn(m, g, o)
<1>1. CASE o + 4 > Len(m)
  BY <1>1 DEF Turn
<1>2. CASE o + 4 <= Len(m)
  BY <1>2, Advances DEF Turn
<1> QED
  BY <1>1, <1>2, LenProperties

(* The scan is well defined: it can be computed from the end of the message. *)
LEMMA FromExists ==
  ASSUME NEW m \in Seq(0..255)
  PROVE  \E f : f = [o \in Nat |-> Turn(m, f, o)]
<1>0. PICK l \in Nat : l = Len(m)
  BY LenProperties
<1> DEFINE Good(k, f) == f = [o \in Nat |-> IF o + k >= l THEN Turn(m, f, o) ELSE Null]
           Bad == {k \in Nat : ~ \E f : Good(k, f)}
<1>1. Bad = {}
  <2> SUFFICES ASSUME Bad # {} PROVE FALSE
    OBVIOUS
  <2>1. PICK k \in Nat : k \in Bad /\ \A j \in Bad : k <= j
    <3>1. Bad \subseteq Nat
      OBVIOUS
    <3> HIDE DEF Bad
    <3> QED
      BY <3>1, Least
  <2>2. k # 0
    <3>1. \A o \in Nat : o + 0 >= l => Turn(m, [x \in Nat |-> Null], o) = Null
      BY <1>0 DEF Turn
    <3>2. Good(0, [x \in Nat |-> Null])
      BY <3>1
    <3> QED
      BY <2>1, <3>2
  <2>3. PICK j \in Nat : k = j + 1 /\ j \notin Bad
    <3>1. PICK j \in Nat : k = j + 1
      BY <2>2
    <3>2. ~(j + 1 <= j)
      OBVIOUS
    <3> HIDE DEF Bad
    <3> QED
      BY <2>1, <3>1, <3>2
  <2>4. PICK f : Good(j, f)
    BY <2>3
  <2>5. \A o \in Nat : f[o] = IF o + j >= l THEN Turn(m, f, o) ELSE Null
    BY <2>4
  <2>6. CASE k > l
    <3>1. \A o \in Nat : o + k >= l /\ o + j >= l
      BY <2>3, <2>6
    <3>2. Good(k, f)
      BY <2>4, <3>1
    <3> QED
      BY <2>1, <3>2
  <2>7. CASE k <= l
    <3>1. PICK b \in Nat : l = b + k
      BY <2>7
    <3> DEFINE g == [o \in Nat |-> IF o = b THEN Turn(m, f, b) ELSE f[o]]
    <3>2. \A o \in Nat : g[o] = IF o + k >= l THEN Turn(m, g, o) ELSE Null
      <4>1. \A o \in Nat : o >= b => Turn(m, g, o) = Turn(m, f, o)
        <5>1. \A o, p \in Nat : o >= b /\ p > o => g[p] = f[p]
          OBVIOUS
        <5> HIDE DEF g
        <5> QED
          BY <5>1, TurnLooksAhead
      <4>2. \A o \in Nat : o + k >= l <=> o >= b
        BY <3>1
      <4>3. \A o \in Nat : o + j >= l <=> o > b
        BY <2>3, <3>1
      <4>4. \A o \in Nat : o >= b <=> o = b \/ o > b
        OBVIOUS
      <4>5. g[b] = Turn(m, f, b) /\ \A o \in Nat : o # b => g[o] = f[o]
        OBVIOUS
      <4> HIDE DEF g
      <4>6. \A o \in Nat : o > b => o # b
        OBVIOUS
      <4> QED
        BY <2>5, <4>1, <4>2, <4>3, <4>4, <4>5, <4>6
    <3>3. Good(k, g)
      <4>1. g = [o \in Nat |-> g[o]]
        OBVIOUS
      <4> HIDE DEF g
      <4> QED
        BY <3>2, <4>1
    <3> QED
      BY <2>1, <3>3
  <2> QED
    BY <2>6, <2>7
<1>2. PICK f : Good(l, f)
  BY <1>1
<1>3. \A o \in Nat : o + l >= l
  OBVIOUS
<1> QED
  BY <1>2, <1>3

LEMMA FromTurns ==
  ASSUME NEW m \in Seq(0..255), NEW o \in Nat
  PROVE  From(m)[o] = Turn(m, From(m), o)
<1>1. From(m) = [p \in Nat |-> Turn(m, From(m), p)]
  BY FromExists DEF From
<1> QED
  BY <1>1

-----------------------------------------------------------------------------
(* Distances to a later offset. *)
LEMMA Distance == \A x, y \in Nat : x <= y => \E k \in Nat : x + k = y
<1> SUFFICES ASSUME NEW x \in Nat, NEW y \in Nat, x <= y
             PROVE  \E k \in Nat : x + k = y
  OBVIOUS
<1>1. y - x \in Nat /\ x + (y - x) = y
  OBVIOUS
<1> QED
  BY <1>1

LEMMA Nearer ==
  ASSUME NEW q \in Nat, NEW n \in Nat, NEW e \in Nat, NEW k \in Nat,
         q + k = e, q < n, n <= e
  PROVE  \E j \in Nat : n + j = e /\ j < k
<1>1. PICK j \in Nat : n + j = e
  BY Distance
<1>2. j < k
  BY <1>1
<1> QED
  BY <1>1, <1>2

LEMMA Within == \A q, l, e \in Nat : q + 4 + l <= e => q <= e
OBVIOUS

(* From the end of one attribute to the beginning of the next. *)
LEMMA RoundsUp ==
  ASSUME NEW o \in Nat, NEW k \in Nat, NEW n \in Nat,
         o % 4 = 0, n % 4 = 0, n - (o + 4 + k) \in 0..3
  PROVE  n = o + Size(k)
BY DEF Size

LEMMA AttributesType ==
  ASSUME NEW m \in Seq(0..255), NEW S \in SUBSET Begins(m), Attributes(m, S)
  PROVE  /\ Len(m) \in Nat /\ EndOf(m) \in Nat /\ EndOf(m) <= Len(m) /\ EndOf(m) >= 20
         /\ \A o \in S : /\ o \in Nat /\ o % 4 = 0 /\ o + 4 <= Len(m)
                         /\ UInt16(m, o + 2) \in Nat
                         /\ o + 4 + UInt16(m, o + 2) <= EndOf(m)
<1>1. Len(m) \in Nat /\ Len(m) >= 20
  BY LenProperties DEF Attributes, IsResponse
<1>2. EndOf(m) \in Nat /\ EndOf(m) >= 20
  <2>1. 2 \in Nat /\ 2 + 2 <= Len(m)
    BY <1>1
  <2>2. PICK k \in Nat : k = UInt16(m, 2)
    BY <2>1, UInt16Type
  <2>3. 20 + k \in Nat /\ 20 + k >= 20
    OBVIOUS
  <2> QED
    BY <2>2, <2>3 DEF EndOf
<1>3. ASSUME NEW o \in S
      PROVE  o \in Nat /\ o % 4 = 0 /\ o + 4 <= Len(m) /\ UInt16(m, o + 2) \in Nat
  <2>1. o \in 20..Len(m) - 4 /\ o % 4 = 0
    BY DEF Begins
  <2>2. o \in Nat /\ o + 4 <= Len(m) /\ o + 2 \in Nat /\ (o + 2) + 2 <= Len(m)
    BY <1>1, <2>1
  <2> QED
    BY <2>1, <2>2, UInt16Type
<1> QED
  BY <1>1, <1>2, <1>3 DEF Attributes

(* At an attribute that is no address the scan goes on with the next one. *)
LEMMA PassesOver ==
  ASSUME NEW m \in Seq(0..255), NEW S \in SUBSET Begins(m), Attributes(m, S),
         NEW o \in S, ~IsAddress(m, o)
  PROVE  \E n \in S \union {EndOf(m)} :
           /\ n \in Nat /\ n > o /\ From(m)[o] = From(m)[n]
           /\ \A p \in S : o < p => n <= p
<1>1. /\ EndOf(m) \in Nat /\ EndOf(m) <= Len(m) /\ Len(m) \in Nat
      /\ o \in Nat /\ o % 4 = 0 /\ UInt16(m, o + 2) \in Nat
      /\ o + 4 + UInt16(m, o + 2) <= EndOf(m) /\ o + 4 <= Len(m)
  BY AttributesType
<1>2. PICK n \in S \union {EndOf(m)} : Follows(m, o, n) /\ \A p \in S : o < p => n <= p
  BY DEF Attributes
<1>3. n \in Nat
  BY <1>1, AttributesType
<1>4. PICK k \in Nat : k = UInt16(m, o + 2)
  BY <1>1
<1>5. n % 4 = 0 /\ n - (o + 4 + k) \in 0..3
  BY <1>2, <1>4 DEF Follows
<1>6. n = o + Size(k)
  BY <1>1, <1>3, <1>5, RoundsUp
<1>7. n > o
  BY <1>1, <1>3, <1>5
<1>8. o + 4 <= EndOf(m)
  BY <1>1, <1>4
<1>9. From(m)[o] = From(m)[n]
  <2>1. ~(o + 4 > EndOf(m)) /\ ~(o + 4 > Len(m))
    BY <1>1, <1>8
  <2>2. From(m)[o] = Turn(m, From(m), o)
    BY <1>1, FromTurns
  <2> QED
    BY <1>4, <1>6, <2>1, <2>2 DEF Turn
<1> QED
  BY <1>2, <1>3, <1>7, <1>9

(* What an answer says is what the parser reads, however many attributes of  *)
(* whatever length come before the address.                                  *)
THEOREM AnswerIsRead ==
  ASSUME NEW m \in Seq(0..255), NEW endpoint \in [ip : Seq(0..255), port : Seq(0..255)],
         Says(m, endpoint)
  PROVE  Parse(m) = endpoint
<1>0. PICK S \in SUBSET Begins(m) :
        /\ Attributes(m, S)
        /\ \E o \in S : /\ \A p \in S : IsAddress(m, p) <=> p = o
                        /\ UInt16(m, o + 2) = 8 /\ Byte(m, o + 5) = IPv4
                        /\ Unmask(Bytes(m, o + 8, 4)) = endpoint.ip
                        /\ Unmask(Bytes(m, o + 6, 2)) = endpoint.port
  BY DEF Says
<1>1. PICK o \in S :
        /\ Attributes(m, S)
        /\ \A p \in S : IsAddress(m, p) <=> p = o
        /\ UInt16(m, o + 2) = 8 /\ Byte(m, o + 5) = IPv4
        /\ Unmask(Bytes(m, o + 8, 4)) = endpoint.ip
        /\ Unmask(Bytes(m, o + 6, 2)) = endpoint.port
  BY <1>0
<1>2. /\ EndOf(m) \in Nat /\ EndOf(m) <= Len(m) /\ Len(m) \in Nat
      /\ \A p \in S : p \in Nat /\ p + 4 + UInt16(m, p + 2) <= EndOf(m)
  BY <1>1, AttributesType
<1>3. From(m)[o] = endpoint
  <2>1. o \in Nat /\ o + 4 + 8 <= EndOf(m)
    BY <1>1, <1>2
  <2>2. ~(o + 4 > EndOf(m)) /\ ~(o + 4 > Len(m)) /\ o + 4 + 8 <= Len(m)
    BY <1>2, <2>1
  <2>3. From(m)[o] = EndpointAt(m, o)
    BY <1>1, <2>1, <2>2, FromTurns DEF Turn
  <2> QED
    BY <1>1, <2>3 DEF EndpointAt
<1> DEFINE Missed == {k \in Nat : \E q \in S : q + k = o /\ From(m)[q] # endpoint}
<1>4. Missed = {}
  <2> SUFFICES ASSUME Missed # {} PROVE FALSE
    OBVIOUS
  <2>1. PICK k \in Nat : k \in Missed /\ \A j \in Missed : k <= j
    <3>1. Missed \subseteq Nat
      OBVIOUS
    <3> HIDE DEF Missed
    <3> QED
      BY <3>1, Least
  <2>2. PICK q \in S : q + k = o /\ From(m)[q] # endpoint
    BY <2>1
  <2>3. q \in Nat /\ o \in Nat /\ q < o
    <3>1. q \in Nat /\ o \in Nat /\ q # o
      BY <1>2, <1>3, <2>2
    <3> QED
      BY <2>2, <3>1
  <2>4. ~IsAddress(m, q)
    BY <1>1, <2>2, <1>3
  <2>5. PICK n \in S \union {EndOf(m)} : /\ n \in Nat /\ n > q /\ From(m)[q] = From(m)[n]
                                         /\ \A p \in S : q < p => n <= p
    <3>1. Attributes(m, S)
      BY <1>1
    <3> QED
      BY <2>4, <3>1, PassesOver
  <2>6. n <= o
    BY <2>3, <2>5
  <2>7. n \in S
    <3>1. o + 4 + 8 <= EndOf(m)
      BY <1>1, <1>2
    <3>2. n # EndOf(m)
      BY <1>2, <2>3, <2>5, <2>6, <3>1
    <3> QED
      BY <2>5, <3>2
  <2>8. PICK j \in Nat : n + j = o /\ j < k
    BY <2>2, <2>3, <2>5, <2>6, Nearer
  <2>9. j \in Missed
    BY <2>2, <2>5, <2>7, <2>8
  <2> QED
    BY <2>1, <2>8, <2>9
<1>5. \A q \in S : q <= o => From(m)[q] = endpoint
  <2> SUFFICES ASSUME NEW q \in S, q <= o
               PROVE  From(m)[q] = endpoint
    OBVIOUS
  <2>1. PICK k \in Nat : q + k = o
    BY <1>2, Distance
  <2> QED
    BY <1>4, <2>1
<1>6. 20 \in S /\ 20 <= o
  <2>1. o \in 20..Len(m) - 4 /\ o + 4 + 8 <= EndOf(m)
    BY <1>1, <1>2 DEF Begins
  <2>2. 20 # EndOf(m) /\ 20 <= o
    BY <1>2, <2>1
  <2> QED
    BY <1>1, <2>2 DEF Attributes
<1>7. From(m)[20] = endpoint
  BY <1>5, <1>6
<1> QED
  BY <1>1, <1>7, ScanIsFrom DEF Parse, Attributes, IsResponse

(* The address of an answer is not the empty one of Null. *)
LEMMA SaysSomething ==
  ASSUME NEW m \in Seq(0..255), NEW endpoint, Says(m, endpoint)
  PROVE  endpoint.ip # <<>>
<1>1. PICK S \in SUBSET Begins(m) :
        /\ Attributes(m, S)
        /\ \E o \in S : UInt16(m, o + 2) = 8 /\ Unmask(Bytes(m, o + 8, 4)) = endpoint.ip
  BY DEF Says
<1>2. PICK o \in S : UInt16(m, o + 2) = 8 /\ Unmask(Bytes(m, o + 8, 4)) = endpoint.ip
  BY <1>1
<1>3. o \in Nat /\ o + 4 + 8 <= EndOf(m) /\ EndOf(m) <= Len(m) /\ EndOf(m) \in Nat /\ Len(m) \in Nat
  BY <1>1, <1>2, AttributesType
<1>4. PICK a \in Nat, b \in Nat : a = o + 8 + 1 /\ b = o + 8 + 4 /\ b <= Len(m)
  BY <1>3
<1>5. Len(SubSeq(m, a, b)) = b - a + 1
  <2>1. a \in 1..Len(m) + 1 /\ b \in a - 1..Len(m)
    BY <1>3, <1>4
  <2> QED
    BY <2>1, SubSeqProperties
<1>6. b - a + 1 = 4
  BY <1>3, <1>4
<1>7. Len(Bytes(m, o + 8, 4)) = 4
  BY <1>4, <1>5, <1>6 DEF Bytes
<1>8. DOMAIN Unmask(Bytes(m, o + 8, 4)) = 1..4
  BY <1>7 DEF Unmask
<1>9. DOMAIN <<>> # 1..4
  OBVIOUS
<1> QED
  BY <1>2, <1>8, <1>9

(* A message that says nothing is read as nothing. *)
THEOREM NothingIsRead ==
  ASSUME NEW m \in Seq(0..255), SaysNothing(m)
  PROVE  Parse(m) = Null
<1>1. CASE ~IsResponse(m)
  BY <1>1, LenProperties DEF Parse, IsResponse
<1>2. ASSUME NEW S \in SUBSET Begins(m), Attributes(m, S),
             \A o \in S : IsAddress(m, o) => UInt16(m, o + 2) >= 2 /\ Byte(m, o + 5) # IPv4
      PROVE  Parse(m) = Null
  <2>1. /\ EndOf(m) \in Nat /\ EndOf(m) <= Len(m) /\ Len(m) \in Nat
        /\ \A p \in S : p \in Nat /\ p + 4 + UInt16(m, p + 2) <= EndOf(m)
    BY <1>2, AttributesType
  <2>2. From(m)[EndOf(m)] = Null
    <3>1. EndOf(m) + 4 > EndOf(m)
      BY <2>1
    <3> QED
      BY <2>1, <3>1, FromTurns DEF Turn
  <2> DEFINE Missed == {k \in Nat : \E q \in S : q + k = EndOf(m) /\ From(m)[q] # Null}
  <2>3. Missed = {}
    <3> SUFFICES ASSUME Missed # {} PROVE FALSE
      OBVIOUS
    <3>1. PICK k \in Nat : k \in Missed /\ \A j \in Missed : k <= j
      <4>1. Missed \subseteq Nat
        OBVIOUS
      <4> HIDE DEF Missed
      <4> QED
        BY <4>1, Least
    <3>2. PICK q \in S : q + k = EndOf(m) /\ From(m)[q] # Null
      BY <3>1
    <3>3. ~IsAddress(m, q)
      <4> SUFFICES ASSUME IsAddress(m, q) PROVE FALSE
        OBVIOUS
      <4>1. PICK l \in Nat : l = UInt16(m, q + 2)
        BY <1>2, AttributesType
      <4>2. Byte(m, q + 5) # IPv4
        BY <1>2
      <4>3. q \in Nat /\ q + 4 + l <= EndOf(m)
        BY <2>1, <4>1
      <4>4. ~(q + 4 > EndOf(m)) /\ ~(q + 4 > Len(m)) /\ q + 4 + l <= Len(m)
        BY <2>1, <4>3
      <4>5. From(m)[q] = EndpointAt(m, q)
        BY <4>1, <4>3, <4>4, FromTurns DEF Turn
      <4> QED
        BY <3>2, <4>2, <4>5 DEF EndpointAt
    <3>4. PICK n \in S \union {EndOf(m)} : n \in Nat /\ n > q /\ From(m)[q] = From(m)[n]
      BY <1>2, <3>3, PassesOver
    <3>5. n \in S
      BY <2>2, <3>2, <3>4
    <3>6. PICK j \in Nat : n + j = EndOf(m) /\ j < k
      <4>1. PICK l \in Nat : l = UInt16(m, n + 2)
        BY <1>2, <3>5, AttributesType
      <4>2. n + 4 + l <= EndOf(m) /\ n \in Nat /\ q \in Nat
        BY <2>1, <3>5, <4>1
      <4>3. n <= EndOf(m)
        BY <2>1, <4>2, Within
      <4>4. PICK e \in Nat : e = EndOf(m)
        BY <2>1
      <4>5. n <= e /\ q + k = e /\ q < n
        BY <3>2, <3>4, <4>2, <4>3, <4>4
      <4>6. \E j \in Nat : n + j = e /\ j < k
        BY <4>2, <4>5, Nearer
      <4> QED
        BY <4>4, <4>6
    <3>7. j \in Missed
      BY <3>2, <3>4, <3>5, <3>6
    <3> QED
      BY <3>1, <3>6, <3>7
  <2>4. \A q \in S : From(m)[q] = Null
    <3> SUFFICES ASSUME NEW q \in S PROVE From(m)[q] = Null
      OBVIOUS
    <3>1. PICK l \in Nat : l = UInt16(m, q + 2)
      BY <1>2, AttributesType
    <3>2. PICK k \in Nat : q + k = EndOf(m)
      BY <2>1, <3>1, Within, Distance
    <3> QED
      BY <2>3, <3>2
  <2>5. From(m)[20] = Null
    BY <1>2, <2>2, <2>4 DEF Attributes
  <2> QED
    BY <2>5, ScanIsFrom DEF Parse
<1> QED
  BY <1>1, <1>2 DEF SaysNothing

=============================================================================
