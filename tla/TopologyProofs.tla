--------------------------- MODULE TopologyProofs ---------------------------
(***************************************************************************)
(* For any number of switches and any cabling: the adjacency lists are the *)
(* discovered links, no alarm is raised without a loop, and a ring that is *)
(* a whole component is found.                                             *)
(***************************************************************************)
EXTENDS Topology, NetworkGraphProofs

Device == [device_num : Nat \ {0},
           next : Seq([device_num : Nat \ {0}, port_num : 0..255])]

(* A device has the number of its place.                                   *)
Numbered == \A i \in DOMAIN devices : devices[i].device_num = i

Ends == \A l \in found : \E a, b \in DOMAIN devices : l = {a, b}

Linked(i) == {n \in DOMAIN devices : {i, n} \in found}

(* Lists name only what is linked, and all of it unless the device is      *)
(* linked to itself.                                                       *)
Listed ==
    \A i \in DOMAIN devices :
       /\ Named(devices[i]) \subseteq Linked(i)
       /\ {i} \notin found => Linked(i) \subseteq Named(devices[i])

IInv ==
    /\ devices \in Seq(Device)
    /\ Numbered /\ Ends /\ Listed
    /\ \A i \in DOMAIN devices : Once(devices[i])

-----------------------------------------------------------------------------
LEMMA NumsAreDomain ==
    ASSUME devices \in Seq(Device), Numbered
    PROVE  Nums(devices) = DOMAIN devices
BY DEF Nums, Numbered

LEMMA IndexIs ==
    ASSUME devices \in Seq(Device), Numbered, NEW n \in DOMAIN devices
    PROVE  index(devices, n) = n
BY DEF index, Numbered

LEMMA InvImplies ==
    ASSUME IInv
    PROVE  TypeOK /\ GraphExact
<1>1. /\ devices \in Seq(Device) /\ Numbered
      /\ Nums(devices) = DOMAIN devices
  BY NumsAreDomain DEF IInv
<1>2. TypeOK
  BY <1>1 DEF IInv, TypeOK, Ends, Device
<1>3. ASSUME NEW i \in DOMAIN devices
      PROVE  /\ devices[i].device_num = i
             /\ Neighbours(devices, i) =
                  [k \in DOMAIN devices[i].next |-> devices[i].next[k].device_num]
  BY <1>1, IndexIs DEF Numbered, Neighbours
<1>4. ASSUME NEW i \in DOMAIN devices, NEW list,
             list = Neighbours(devices, devices[i].device_num)
      PROVE  /\ \A n \in Nums(devices) :
                  /\ (\E k \in DOMAIN list : list[k] = n)
                       => {devices[i].device_num, n} \in found
                  /\ /\ {devices[i].device_num, n} \in found
                     /\ {devices[i].device_num} \notin found
                     => \E k \in DOMAIN list : list[k] = n
             /\ \A k, l \in DOMAIN list : list[k] = list[l] => k = l
  <2>1. /\ devices[i].device_num = i
        /\ list = [k \in DOMAIN devices[i].next |-> devices[i].next[k].device_num]
    BY <1>3, <1>4
  <2>2. \A n \in DOMAIN devices :
          /\ n \in Named(devices[i]) => {i, n} \in found
          /\ {i, n} \in found /\ {i} \notin found => n \in Named(devices[i])
    BY DEF IInv, Listed, Linked
  <2>3. Once(devices[i])
    BY DEF IInv
  <2>4. /\ DOMAIN list = DOMAIN devices[i].next
        /\ \A k \in DOMAIN list : list[k] = devices[i].next[k].device_num
    BY <2>1
  <2>5. \A n : (\E k \in DOMAIN list : list[k] = n) <=> n \in Named(devices[i])
    BY <2>4 DEF Named
  <2>6. \A k, l \in DOMAIN list : list[k] = list[l] => k = l
    BY <2>3, <2>4 DEF Once
  <2> QED
    BY <1>1, <2>1, <2>2, <2>5, <2>6
<1>5. GraphExact
  BY <1>4, Zenon DEF GraphExact
<1> QED
  BY <1>2, <1>5

LEMMA InitIInv == Init => IInv
BY EmptySeq DEF Init, IInv, Numbered, Ends, Listed

LEMMA JoinIInv ==
    ASSUME IInv, Join
    PROVE  IInv'
<1> DEFINE n == Len(devices) + 1
<1>1. /\ devices \in Seq(Device) /\ n \in Nat \ {0}
      /\ devices' = Append(devices, Head0(n)) /\ found' = found
  BY LenProperties DEF IInv, Join, join
<1>2. Head0(n) \in Device
  <2>1. << >> \in Seq([device_num : Nat \ {0}, port_num : 0..255])
    BY EmptySeq
  <2> QED
    BY <1>1, <2>1 DEF Head0, Device
<1>3. /\ devices' \in Seq(Device)
      /\ DOMAIN devices = 1..(n - 1) /\ DOMAIN devices' = 1..n
      /\ \A i \in 1..(n - 1) : devices'[i] = devices[i]
      /\ devices'[n] = Head0(n)
  BY <1>1, <1>2, AppendProperties, LenProperties
<1>4. \A l \in found : n \notin l
  BY <1>1, <1>3 DEF IInv, Ends
<1>5. Numbered'
  BY <1>1, <1>3 DEF IInv, Numbered, Head0
<1>6. Ends'
  BY <1>1, <1>3 DEF IInv, Ends
<1>7. Listed'
  <2>1. ASSUME NEW i \in 1..(n - 1)
        PROVE  {k \in 1..n : {i, k} \in found} = Linked(i)
    BY <1>1, <1>3, <1>4 DEF Linked
  <2>2. Named(devices'[n]) = {} /\ {k \in 1..n : {n, k} \in found} = {}
    BY <1>3, <1>4 DEF Named, Head0
  <2>3. ASSUME NEW i \in 1..n
        PROVE  /\ Named(devices'[i]) \subseteq {k \in 1..n : {i, k} \in found}
               /\ {i} \notin found =>
                    {k \in 1..n : {i, k} \in found} \subseteq Named(devices'[i])
    <3>1. i \in 1..(n - 1) \/ i = n
      BY <1>1
    <3>2. CASE i \in 1..(n - 1)
      BY <1>3, <2>1, <3>2 DEF IInv, Listed
    <3> QED
      BY <2>2, <3>1, <3>2
  <2>4. DOMAIN devices' = 1..n /\ found' = found
    BY <1>1, <1>3
  <2> HIDE DEF n
  <2> QED
    BY <2>3, <2>4 DEF Listed, Named, Linked
<1>8. \A i \in DOMAIN devices' : Once(devices'[i])
  <2>1. Once(devices'[n])
    BY <1>3 DEF Once, Head0
  <2> QED
    BY <1>1, <1>3, <2>1 DEF IInv
<1> QED
  BY <1>3, <1>5, <1>6, <1>7, <1>8 DEF IInv

(* Entering a new name at the end of a list.                               *)
LEMMA EnterName ==
    ASSUME NEW d \in Device, NEW n \in Nat \ {0}, NEW p \in 0..255,
           Once(d), n \notin Named(d),
           NEW e, e = [d EXCEPT !.next = Append(@, [device_num |-> n, port_num |-> p])]
    PROVE  /\ e \in Device /\ e.device_num = d.device_num
           /\ Named(e) = Named(d) \cup {n}
           /\ Once(e)
<1> DEFINE x == [device_num |-> n, port_num |-> p]
           S == [device_num : Nat \ {0}, port_num : 0..255]
<1>1. d.next \in Seq(S) /\ x \in S /\ x.device_num = n
  BY DEF Device
<1> HIDE DEF x, S
<1>2. e.next = Append(d.next, x) /\ e.device_num = d.device_num
  BY DEF Device, x
<1>3. /\ e.next \in Seq(S)
      /\ DOMAIN d.next = 1..Len(d.next) /\ DOMAIN e.next = 1..(Len(d.next) + 1)
      /\ Len(d.next) \in Nat
      /\ \A k \in 1..Len(d.next) : e.next[k] = d.next[k]
      /\ e.next[Len(d.next) + 1] = x
  BY <1>1, <1>2, AppendProperties, LenProperties
<1>4. e \in Device
  BY <1>3 DEF Device, S
<1>5. Named(e) = Named(d) \cup {n}
  BY <1>1, <1>3 DEF Named
<1>6. Once(e)
  BY <1>1, <1>3 DEF Once, Named
<1> QED
  BY <1>2, <1>4, <1>5, <1>6

LEMMA DiscoverIInv ==
    ASSUME IInv, Discover
    PROVE  IInv'
<1>1. PICK c \in Cables :
        /\ {c[1], c[2]} \subseteq Nums(devices)
        /\ devices' = connect(devices, c[1], c[2], 0, c[2])
        /\ found' = found \cup {{c[1], c[2]}}
  BY DEF Discover
<1> DEFINE dest == c[1]
           src == c[2]
<1>2. /\ devices \in Seq(Device) /\ Numbered /\ Ends /\ Listed
      /\ \A i \in DOMAIN devices : Once(devices[i]) /\ devices[i] \in Device
      /\ Nums(devices) = DOMAIN devices
      /\ DOMAIN devices \subseteq Nat \ {0}
  BY NumsAreDomain, ElementOfSeq, LenProperties DEF IInv
<1>3. dest \in DOMAIN devices /\ src \in DOMAIN devices
  BY <1>1, <1>2
<1>4. found' = found \cup {{dest, src}}
  BY <1>1
<1>5. devices' = connect(devices, dest, src, 0, src)
  BY <1>1
<1> HIDE DEF dest, src
<1>6. DOMAIN devices' = DOMAIN devices
  BY <1>5 DEF connect
(* One of the ends, and the other.                                         *)
<1>7. ASSUME NEW i \in {dest, src}, NEW o, o = (IF i = dest THEN src ELSE dest)
      PROVE  /\ devices'[i] \in Device /\ devices'[i].device_num = i
             /\ Once(devices'[i])
             /\ Named(devices[i]) \subseteq Named(devices'[i])
             /\ Named(devices'[i]) \subseteq Named(devices[i]) \cup {o}
             /\ {i} \notin found' => o \in Named(devices'[i])
  <2> DEFINE d == devices[i]
             duplicate == \E k \in DOMAIN d.next : d.next[k].device_num \in {dest, src}
             p == IF i = dest THEN src % 256 ELSE 0 % 256
  <2>1. /\ i \in DOMAIN devices /\ o \in DOMAIN devices /\ {i, o} = {dest, src}
    BY <1>3, <1>7
  <2>2. d \in Device /\ d.device_num = i /\ Once(d) /\ o \in Nat \ {0}
    BY <1>2, <2>1 DEF Numbered
  <2>3. CASE duplicate
    <3>1. devices'[i] = d
      BY <1>5, <2>1, <2>3 DEF connect
    <3>2. ASSUME {i} \notin found' PROVE o \in Named(d)
      <4>1. {i, i} = {i}
        OBVIOUS
      <4>2. {i} \notin found
        BY <1>4, <3>2
      <4>3. i \notin Named(d)
        BY <1>2, <2>1, <4>1, <4>2 DEF Listed, Linked
      <4> QED
        BY <2>1, <2>3, <4>3 DEF Named
    <3> QED
      BY <2>2, <3>1, <3>2
  <2>4. CASE ~duplicate
    <3>1. p \in 0..255
      <4>1. src \in Nat
        BY <1>2, <1>3
      <4>2. \A x \in Nat : x % 256 \in 0..255
        OBVIOUS
      <4> QED
        BY <4>1, <4>2
    <3>2. devices'[i] = [d EXCEPT !.next = Append(@, [device_num |-> o, port_num |-> p])]
      BY <1>5, <1>7, <2>1, <2>2, <2>4 DEF connect, Link
    <3>3. o \notin Named(d)
      BY <2>1, <2>4 DEF Named
    <3> DEFINE e == devices'[i]
    <3>5. /\ d \in Device /\ Once(d) /\ o \in Nat \ {0}
          /\ e = [d EXCEPT !.next = Append(@, [device_num |-> o, port_num |-> p])]
      BY <2>2, <3>2
    <3> HIDE DEF p, d, e
    <3>4. /\ e \in Device /\ e.device_num = d.device_num
          /\ Named(e) = Named(d) \cup {o} /\ Once(e)
      BY <3>1, <3>3, <3>5, EnterName, Zenon
    <3> QED
      BY <2>2, <3>4 DEF d, e
  <2> QED
    BY <2>3, <2>4
<1>8. ASSUME NEW i \in DOMAIN devices, i \notin {dest, src}
      PROVE  devices'[i] = devices[i]
  BY <1>2, <1>5, <1>8 DEF connect, Numbered
<1>9. ASSUME NEW i \in DOMAIN devices
      PROVE  /\ devices'[i] \in Device /\ devices'[i].device_num = i
             /\ Named(devices'[i]) \subseteq {n \in DOMAIN devices : {i, n} \in found'}
             /\ {i} \notin found' =>
                  {n \in DOMAIN devices : {i, n} \in found'} \subseteq Named(devices'[i])
             /\ Once(devices'[i])
  <2> DEFINE L == {n \in DOMAIN devices : {i, n} \in found'}
  <2>1. /\ Named(devices[i]) \subseteq Linked(i)
        /\ {i} \notin found => Linked(i) \subseteq Named(devices[i])
    BY <1>2 DEF Listed
  <2>2. {i} \notin found' => {i} \notin found
    BY <1>4
  <2>3. CASE i \in {dest, src}
    <3> DEFINE o == IF i = dest THEN src ELSE dest
    <3>1. /\ devices'[i] \in Device /\ devices'[i].device_num = i
          /\ Once(devices'[i])
          /\ Named(devices[i]) \subseteq Named(devices'[i])
          /\ Named(devices'[i]) \subseteq Named(devices[i]) \cup {o}
          /\ {i} \notin found' => o \in Named(devices'[i])
      BY <1>7, <2>3
    <3>2. o \in DOMAIN devices /\ {i, o} = {dest, src}
      BY <1>3, <2>3
    <3> HIDE DEF o
    <3>3. L = Linked(i) \cup {o}
      <4>1. \A n \in DOMAIN devices : {i, n} = {i, o} <=> n = o
        OBVIOUS
      <4> QED
        BY <1>4, <3>2, <4>1 DEF Linked
    <3> HIDE DEF L
    <3> QED
      BY <2>1, <2>2, <3>1, <3>3 DEF L
  <2>4. CASE i \notin {dest, src}
    <3>1. \A n \in DOMAIN devices : {i, n} # {dest, src}
      BY <2>4
    <3>2. L = Linked(i)
      BY <1>4, <3>1 DEF Linked
    <3>3. devices'[i] = devices[i] /\ devices[i].device_num = i
      BY <1>2, <1>8, <2>4 DEF Numbered
    <3> QED
      BY <1>2, <2>1, <2>2, <3>2, <3>3
  <2> QED
    BY <2>3, <2>4
<1>10. Ends'
  BY <1>2, <1>3, <1>4, <1>6 DEF Ends
<1>11. devices' \in Seq(Device)
  <2>1. devices' \in [1..Len(devices) -> Device]
    <3>1. devices' = [i \in DOMAIN devices |-> devices'[i]]
      BY <1>5 DEF connect
    <3>2. DOMAIN devices = 1..Len(devices)
      BY <1>2, LenProperties
    <3>3. \A i \in 1..Len(devices) : devices'[i] \in Device
      BY <1>9, <3>2
    <3> QED
      BY <3>1, <3>2, <3>3
  <2>2. Len(devices) \in Nat
    BY <1>2, LenProperties
  <2> QED
    BY <2>1, <2>2, SeqDef
<1>12. Numbered' /\ Listed' /\ \A i \in DOMAIN devices' : Once(devices'[i])
  BY <1>6, <1>9 DEF Numbered, Listed, Linked
<1> QED
  BY <1>10, <1>11, <1>12 DEF IInv

-----------------------------------------------------------------------------
LEMMA Invariance == Spec => []IInv
<1>1. Init => IInv
  BY InitIInv
<1>2. IInv /\ [Next]_vars => IInv'
  <2> SUFFICES ASSUME IInv, [Next]_vars PROVE IInv'
    OBVIOUS
  <2>1. CASE Join
    BY <2>1, JoinIInv
  <2>2. CASE Discover
    BY <2>2, DiscoverIInv
  <2>3. CASE UNCHANGED vars
    BY <2>3 DEF vars, IInv, Numbered, Ends, Listed, Linked
  <2> QED
    BY <2>1, <2>2, <2>3 DEF Next
<1> QED
  BY <1>1, <1>2, PTL DEF Spec

(* The variables keep their types.                                         *)
THEOREM TypeCorrect == Spec => []TypeOK
<1>1. IInv => TypeOK
  BY InvImplies
<1> QED
  BY <1>1, Invariance, PTL

(* Whatever switches join and whatever probes come in, in any order and    *)
(* any number of times, the lists name exactly the links discovered, each  *)
(* at both its ends and once; a switch that is cabled to itself may miss   *)
(* some in its own list, and in no other one (add_connection).             *)
THEOREM ListsAreLinks == Spec => []GraphExact
<1>1. IInv => GraphExact
  BY InvImplies
<1> QED
  BY <1>1, Invariance, PTL

-----------------------------------------------------------------------------
(* The graph as the lemmas about loop_exists want it.                      *)
LEMMA GraphOfLists ==
    ASSUME IInv, \A i \in DOMAIN devices : {i} \notin found
    PROVE  /\ devices \in Seq(Node)
           /\ Nums(devices) = DOMAIN devices
           /\ Lists(devices, found) /\ ListedOnce(devices)
<1>1. /\ devices \in Seq(Device) /\ Numbered /\ Ends /\ Listed
      /\ Nums(devices) = DOMAIN devices
      /\ \A i \in DOMAIN devices : Once(devices[i]) /\ devices[i] \in Device
      /\ Len(devices) \in Nat /\ DOMAIN devices = 1..Len(devices)
  BY NumsAreDomain, ElementOfSeq, LenProperties DEF IInv
<1> DEFINE P == [device_num : Nat, port_num : 0..255]
           Q == [device_num : Nat \ {0}, port_num : 0..255]
<1>2. \A d \in Device : d \in Node
  <2> SUFFICES ASSUME NEW d \in Device PROVE d \in Node
    OBVIOUS
  <2>1. d = [device_num |-> d.device_num, next |-> d.next] /\ d.device_num \in Nat
    BY DEF Device
  <2>2. d.next \in Seq(Q)
    BY DEF Device
  <2>3. \A q \in Q : q \in P
    OBVIOUS
  <2> DEFINE s == d.next
  <2> HIDE DEF P, Q, s
  <2>4. s \in [1..Len(s) -> Q] /\ Len(s) \in Nat
    BY <2>2, LenProperties, ElementOfSeq DEF s
  <2>5. s \in [1..Len(s) -> P]
    BY <2>3, <2>4
  <2>6. s \in Seq(P)
    BY <2>4, <2>5, SeqDef
  <2> QED
    BY <2>1, <2>6 DEF Node, P, s
<1>3. devices \in Seq(Node)
  <2>1. devices \in [1..Len(devices) -> Node]
    <3>1. devices \in [1..Len(devices) -> Device]
      BY <1>1, LenProperties
    <3> QED
      BY <1>2, <3>1
  <2> QED
    BY <1>1, <2>1, SeqDef
<1>4. ASSUME NEW a \in DOMAIN devices
      PROVE  LET s == Neighbours(devices, a)
             IN  /\ {s[k] : k \in 1..Len(s)} = Beside(Nums(devices), found, a)
                 /\ \A k, l \in 1..Len(s) : s[k] = s[l] => k = l
  <2>1. Once(devices[a]) /\ Named(devices[a]) = Linked(a)
    BY <1>1 DEF Listed
  <2>2. Linked(a) = Beside(Nums(devices), found, a)
    BY <1>1 DEF Linked, Beside
  <2>3. \A i \in DOMAIN devices : devices[i].device_num = i
    BY <1>1 DEF Numbered
  <2> QED
    BY <1>3, <2>1, <2>2, <2>3, ListNames
<1>5. Pairs(Nums(devices), found)
  BY <1>1 DEF Pairs, Ends
<1> QED
  BY <1>1, <1>3, <1>4, <1>5 DEF Lists, ListedOnce

LEMMA SidesAreReachable ==
    ASSUME NEW a, NEW b \in Nums(devices), NEW l
    PROVE  b \in Side(Nums(devices), found, a, l) <=> Reachable(a, b, l)
BY DEF Side, Closed, Reachable

LEMMA NoneWithoutCycle ==
    ASSUME IInv, \A n \in Nums(devices) : ~OnCycle(n)
    PROVE  loop_exists(devices) = 0
<1> DEFINE V == Nums(devices)
<1>1. V = DOMAIN devices
  BY NumsAreDomain DEF IInv
<1>2. \A a \in V : {a} \notin found
  BY DEF OnCycle
<1>3. ASSUME NEW a \in V, NEW b \in V, {a, b} \in found
      PROVE  a \notin Branch(V, found, a, b)
  <2>1. a # b
    BY <1>2, <1>3
  <2>2. {a, b} \ {a} = {b}
    BY <2>1
  <2>3. ~OnCycle(a)
    OBVIOUS
  <2>4. ~Reachable(b, a, {a, b})
    BY <1>3, <2>2, <2>3, Zenon DEF OnCycle
  <2> QED
    BY <2>4, SidesAreReachable DEF Branch
<1>4. Forest(V, found)
  BY <1>3 DEF Forest
<1> QED
  BY <1>1, <1>2, <1>4, GraphOfLists, NoneInForest

(* The alarm is never false: whatever switches and links were discovered,  *)
(* in whatever order, loop_exists names a device only if a link of the     *)
(* network is part of a loop.                                              *)
THEOREM NeverFalse == Spec => []AlarmMeansLoop
<1>1. IInv => AlarmMeansLoop
  BY NoneWithoutCycle DEF AlarmMeansLoop
<1> QED
  BY <1>1, Invariance, PTL

-----------------------------------------------------------------------------
(* The hypotheses of RingFound, of one device and of the whole network.    *)

LEMMA TwoOf ==
    ASSUME NEW S, IsFiniteSet(S), Cardinality(S) = 2
    PROVE  \E x, y : x # y /\ S = {x, y}
<1>1. S # {}
  BY FS_EmptySet
<1>2. PICK x : x \in S
  BY <1>1
<1> DEFINE R == S \ {x}
<1>3. IsFiniteSet(R) /\ Cardinality(R) = 1
  <2>1. IsFiniteSet(R) /\ Cardinality(R) = Cardinality(S) - 1
    BY <1>2, FS_RemoveElement
  <2> HIDE DEF R
  <2> QED
    BY <2>1
<1>4. \E y : R = {y}
  <2> HIDE DEF R
  <2> QED
    BY <1>3, FS_Singleton
<1> QED
  BY <1>2, <1>4

LEMMA TwoBeside ==
    ASSUME IInv, NEW n \in Nums(devices), Cardinality({l \in found : n \in l}) = 2
    PROVE  \E x, y \in Nums(devices) : x # y /\ Beside(Nums(devices), found, n) = {x, y}
<1> DEFINE V == Nums(devices)
           L == {l \in found : n \in l}
<1>1. \A l \in found : \E a, b \in V : l = {a, b}
  BY NumsAreDomain DEF IInv, Ends
<1>2. IsFiniteSet(L)
  <2>1. IsFiniteSet(V)
    <3>1. V = 1..Len(devices) /\ Len(devices) \in Nat
      BY NumsAreDomain, LenProperties DEF IInv
    <3> QED
      BY <3>1, FS_Interval
  <2>2. IsFiniteSet(SUBSET V)
    BY <2>1, FS_SUBSET
  <2>3. L \in SUBSET SUBSET V
    BY <1>1
  <2> HIDE DEF L, V
  <2> QED
    BY <2>2, <2>3, FS_Subset
<1>3. PICK k, l : k # l /\ L = {k, l}
  <2> HIDE DEF L
  <2> QED
    BY <1>2, TwoOf DEF L
<1>4. ASSUME NEW m \in L PROVE \E x \in V : m = {n, x}
  BY <1>1
<1>5. PICK x \in V : k = {n, x}
  BY <1>3, <1>4
<1>6. PICK y \in V : l = {n, y}
  BY <1>3, <1>4
<1>7. \A b \in V : {n, b} \in found <=> {n, b} \in L
  OBVIOUS
<1>8. \A b \in V : {n, b} \in L <=> {n, b} = {n, x} \/ {n, b} = {n, y}
  BY <1>3, <1>5, <1>6
<1>9. \A b, c : {n, b} = {n, c} <=> b = c
  OBVIOUS
<1>10. Beside(V, found, n) = {x, y}
  <2>1. \A b \in V : {n, b} \in found <=> b = x \/ b = y
    BY <1>7, <1>8, <1>9
  <2> HIDE DEF V, L
  <2> QED
    BY <2>1 DEF Beside
<1>11. x # y
  BY <1>3, <1>5, <1>6
<1> QED
  BY <1>10, <1>11

LEMMA Connected ==
    ASSUME IInv, \A n \in Nums(devices) : Reachable(1, n, {}),
           NEW S \in SUBSET Nums(devices), 1 \in S, Closed(S, found)
    PROVE  S = Nums(devices)
BY DEF Reachable, Closed

(* In such a network no switch is cabled to itself: one that is would have *)
(* one other neighbour, whose links lead nowhere else in a loop.           *)
LEMMA NoneToItself ==
    ASSUME IInv, Len(devices) >= 3,
           \A n \in Nums(devices) : Cardinality({l \in found : n \in l}) = 2 /\ OnCycle(n),
           \A n \in Nums(devices) : Reachable(1, n, {}),
           NEW n \in Nums(devices)
    PROVE  n \notin Beside(Nums(devices), found, n)
<1> SUFFICES ASSUME n \in Beside(Nums(devices), found, n) PROVE FALSE
  OBVIOUS
<1> DEFINE V == Nums(devices)
           B(a) == Beside(V, found, a)
<1>1. V = 1..Len(devices) /\ Len(devices) \in Nat
  BY NumsAreDomain, LenProperties DEF IInv
<1>2. Pairs(V, found)
  BY NumsAreDomain DEF IInv, Ends, Pairs
<1>3. \A a, b \in V : b \in B(a) <=> a \in B(b)
  BY <1>2, BesideFacts
<1>4. PICK b \in V : b # n /\ B(n) = {n, b}
  <2>1. PICK x \in V, y \in V : x # y /\ B(n) = {x, y}
    BY TwoBeside
  <2> QED
    BY <2>1
<1>5. PICK c \in V : c # n /\ B(b) = {n, c}
  <2>1. PICK x \in V, y \in V : x # y /\ B(b) = {x, y}
    BY TwoBeside
  <2>2. n \in B(b)
    BY <1>3, <1>4
  <2> QED
    BY <2>1, <2>2
<1>6. PICK l \in found : b \in l /\ \A m \in l \ {b} : Reachable(m, b, l)
  BY DEF OnCycle
<1>7. l = {n, b} \/ l = {b, c}
  <2>1. PICK x \in V, y \in V : l = {x, y}
    BY <1>2 DEF Pairs
  <2>2. PICK z \in V : l = {b, z}
    BY <1>6, <2>1
  <2>3. z \in B(b)
    BY <2>2 DEF Beside
  <2> QED
    BY <1>5, <2>2, <2>3
(* A set that all neighbours of its devices are in, but over the link l.   *)
<1>8. ASSUME NEW S \in SUBSET V,
             \A x \in S : \A y \in B(x) : y \in S \/ {x, y} = l
      PROVE  \A m \in found \ {l} : m \cap S # {} => m \subseteq S
  <2> SUFFICES ASSUME NEW m \in found \ {l}, NEW x \in m, x \in S, NEW y \in m, x # y
               PROVE  y \in S
    OBVIOUS
  <2>1. m = {x, y} /\ y \in V
    BY <1>2 DEF Pairs
  <2>2. y \in B(x)
    BY <2>1 DEF Beside
  <2> QED
    BY <1>8, <2>1, <2>2
<1>9. CASE l = {n, b}
  <2>1. Reachable(n, b, l)
    BY <1>4, <1>6, <1>9
  <2>2. \A m \in found \ {l} : m \cap {n} # {} => m \subseteq {n}
    <3>1. \A x \in {n} : \A y \in B(x) : y \in {n} \/ {x, y} = l
      BY <1>4, <1>9
    <3>2. {n} \in SUBSET V
      OBVIOUS
    <3> HIDE DEF B, V
    <3> QED
      BY <1>8, <3>1, <3>2
  <2>3. {n} \in SUBSET V
    OBVIOUS
  <2> QED
    BY <1>4, <2>1, <2>2, <2>3 DEF Reachable
<1>10. CASE l = {b, c} /\ c # b
  <2> DEFINE S == V \ {n, b}
  <2>1. Reachable(c, b, l)
    BY <1>6, <1>10
  <2>2. c \in S
    BY <1>5, <1>10
  <2>3. \A m \in found \ {l} : m \cap S # {} => m \subseteq S
    <3>1. ASSUME NEW x \in S, NEW y \in B(x), y \notin S PROVE {x, y} = l
      <4>1. y \in V /\ x \in B(y)
        BY <1>3 DEF Beside
      <4>2. y = n \/ y = b
        BY <3>1, <4>1
      <4>3. y = b /\ x = c
        BY <1>4, <1>5, <4>1, <4>2
      <4> QED
        BY <1>10, <4>3
    <3>2. S \in SUBSET V
      OBVIOUS
    <3> HIDE DEF S, B, V
    <3> QED
      BY <1>8, <3>1, <3>2
  <2> QED
    BY <2>1, <2>2, <2>3 DEF Reachable
<1>11. CASE c = b
  <2>1. ASSUME NEW x \in {n, b}, NEW y \in B(x) PROVE y \in {n, b}
    BY <1>4, <1>5, <1>11
  <2>2. ASSUME NEW x \in V \ {n, b}, NEW y \in B(x) PROVE y \in V \ {n, b}
    <3>1. y \in V /\ x \in B(y)
      BY <1>3 DEF Beside
    <3> QED
      BY <2>1, <3>1
  <2>3. Closed({n, b}, found) /\ Closed(V \ {n, b}, found)
    <3>1. {n, b} \in SUBSET V /\ V \ {n, b} \in SUBSET V
      OBVIOUS
    <3>2. \A S \in SUBSET V : (\A a \in S : B(a) \subseteq S) => Closed(S, found)
      BY <1>2, BesideFacts
    <3> HIDE DEF B, V
    <3>3. \A a \in {n, b} : B(a) \subseteq {n, b}
      BY <2>1
    <3>4. \A a \in V \ {n, b} : B(a) \subseteq V \ {n, b}
      BY <2>2
    <3> QED
      BY <3>1, <3>2, <3>3, <3>4
  <2>4. 1 \in V /\ 2 \in V /\ 3 \in V
    BY <1>1
  <2>5. {n, b} # V /\ V \ {n, b} # V
    BY <2>4
  <2> HIDE DEF V
  <2>6. {n, b} \in SUBSET V /\ V \ {n, b} \in SUBSET V
    BY DEF V
  <2>7. 1 \in {n, b} \/ 1 \in V \ {n, b}
    BY <2>4
  <2> QED
    BY <2>3, <2>5, <2>6, <2>7, Connected DEF V
<1> QED
  BY <1>7, <1>9, <1>10, <1>11

LEMMA RingIsFound ==
    ASSUME IInv
    PROVE  RingFound
<1> SUFFICES ASSUME Len(devices) >= 3,
                    \A n \in Nums(devices) :
                      Cardinality({l \in found : n \in l}) = 2 /\ OnCycle(n),
                    \A n \in Nums(devices) : Reachable(1, n, {})
             PROVE  loop_exists(devices) # 0
  BY DEF RingFound
<1> DEFINE V == Nums(devices)
<1>1. V = 1..Len(devices) /\ V = DOMAIN devices /\ Len(devices) \in Nat
  BY NumsAreDomain, LenProperties DEF IInv
<1>2. \A n \in V : n \notin Beside(V, found, n)
  BY NoneToItself
<1>3. \A n \in V : {n} \notin found
  <2>1. \A n \in V : {n, n} = {n}
    OBVIOUS
  <2> QED
    BY <1>2, <2>1 DEF Beside
<1>4. devices \in Seq(Node) /\ Lists(devices, found) /\ ListedOnce(devices)
  BY <1>1, <1>3, GraphOfLists
<1>5. Len(devices) > 0 /\ devices[1].device_num = 1 /\ 1 \in V /\ 0 \notin V
  <2>1. 1 \in V /\ 0 \notin V /\ Len(devices) > 0
    BY <1>1
  <2> QED
    BY <1>1, <2>1 DEF IInv, Numbered
<1>6. \A n \in V : \E x, y \in V : x # y /\ Beside(V, found, n) = {x, y}
  BY TwoBeside
<1>7. \A S \in SUBSET V : 1 \in S /\ Closed(S, found) => S = V
  BY Connected
<1>8. Ring(devices, found, 1)
  BY <1>2, <1>4, <1>5, <1>6, <1>7 DEF Ring
<1> QED
  BY <1>4, <1>5, <1>8, FoundInRing

(* When the network is one ring through all its switches, loop_exists      *)
(* names a device, in whatever order switches and links were discovered.   *)
THEOREM RingsAreFound == Spec => []RingFound
<1>1. IInv => RingFound
  BY RingIsFound
<1> QED
  BY <1>1, Invariance, PTL

=============================================================================
