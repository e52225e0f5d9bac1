--------------------------- MODULE LifetimeProofs ---------------------------
(***************************************************************************)
(* What holds of Lifetime for any number of addresses, switches, links and *)
(* errors, and for blocks of any sizes: start-up holds one socket at a     *)
(* time; what the program does with memory are calls of smartalloc.c; the  *)
(* clean-up finds all there is, and frees nothing twice. The invariant     *)
(* about memory says where the program has pointers to blocks (Places),    *)
(* that every live block belongs to one of them (Owned), that the calls    *)
(* the running function has still to make allocate what is missing         *)
(* (Calls), that the calls of the clean-up are one for every block         *)
(* (Cleaning), and that nothing else is freed (Matched).                   *)
(***************************************************************************)
EXTENDS Lifetime, SmartAllocProofs, SequenceTheorems

(* Before there is a socket, none is left open; after End, none either.    *)
Before == {"sigaction", "getaddrinfo", "socket"}

IInv ==
    /\ OneSocket
    /\ pc \in Before => bound = {}

(* Most steps leave main where it is, send it on behind bind, or stop it.  *)
Onward ==
    /\ UNCHANGED <<server, bound>>
    /\ pc' = pc \/ pc' \in Stopped \/ (pc \notin Stopped \cup Before /\ pc' \notin Before)

(* Such a step keeps the invariant.                                        *)
LEMMA OnwardIInv ==
    ASSUME IInv, Onward
    PROVE  IInv'
BY DEF IInv, OneSocket, Onward, Before, Stopped

(* The steps that open and close sockets.                                  *)
LEMMA SettersIInv ==
    ASSUME IInv, Getaddrinfo \/ Socket \/ Bind \/ End
    PROVE  IInv'
<1>1. CASE Getaddrinfo
  BY <1>1 DEF Getaddrinfo, Goto, IInv, OneSocket, Before, Stopped
<1>2. CASE Socket
  BY <1>2 DEF Socket, Goto, IInv, OneSocket, Before, Stopped
<1>3. CASE Bind
  <2>1. pc = "bind" /\ bound = {server}
    BY <1>3 DEF Bind, Goto, IInv, OneSocket, Stopped
  <2>2. CASE pc' = "listen" /\ UNCHANGED <<server, bound>>
    BY <2>1, <2>2 DEF IInv, OneSocket, Before, Stopped
  <2>3. CASE pc' = "socket" /\ server' = server + 1 /\ bound' = bound \ {server}
    BY <2>1, <2>3 DEF IInv, OneSocket, Before, Stopped
  <2> QED
    BY <1>3, <2>2, <2>3 DEF Bind, Goto
<1>4. CASE End
  BY <1>4 DEF End, Goto, IInv, OneSocket, Before, Stopped
<1> QED
  BY <1>1, <1>2, <1>3, <1>4

(* The other steps of main.                                                *)
LEMMA ProgramOnward ==
    ASSUME AllocatorCall \/ Sigaction \/ Listen \/ Initialize \/ Loop \/ Overflow
    PROVE  Onward \/ (IInv => IInv')
<1>1. CASE AllocatorCall
  BY <1>1 DEF AllocatorCall, Onward, Stopped
<1>2. CASE Sigaction
  BY <1>2 DEF Sigaction, Goto, IInv, OneSocket, Before, Stopped
<1>3. CASE Listen
  BY <1>3 DEF Listen, Goto, Onward, Before, Stopped
<1>4. CASE Initialize
  BY <1>4 DEF Initialize, Goto, Onward, Before, Stopped
<1>5. CASE Loop
  BY <1>5 DEF Loop, Goto, Onward, Before, Stopped
<1>6. CASE Overflow
  BY <1>6 DEF Overflow, Goto, Onward, Before, Stopped
<1> QED
  BY <1>1, <1>2, <1>3, <1>4, <1>5, <1>6

(* Switches and SIGINT do nothing to the sockets.                          *)
LEMMA ServeOnward ==
    ASSUME Serve \/ Sigint
    PROVE  Onward
<1>1. CASE Accept
  BY <1>1 DEF Accept, Goto, Onward, Before, Stopped
<1>2. ASSUME NEW i \in DOMAIN list, GiveUp(i)
      PROVE  Onward
  BY <1>2 DEF GiveUp, Goto, Onward, Before, Stopped
<1>3. ASSUME NEW i \in DOMAIN list, LongMessage(i)
      PROVE  Onward
  BY <1>3 DEF LongMessage, Goto, Onward, Before, Stopped
<1>4. ASSUME NEW i \in DOMAIN list, NEW j \in DOMAIN list, Discover(i, j)
      PROVE  Onward
  BY <1>4 DEF Discover, Goto, Onward, Before, Stopped
<1>5. CASE Sigint
  BY <1>5 DEF Sigint, Onward, Before, Stopped
<1> QED
  BY <1>1, <1>2, <1>3, <1>4, <1>5 DEF Serve

(* main listens on one socket, whose address is server, until it stops;    *)
(* every socket tried before is closed (create_listening_socket).          *)
THEOREM ListensOnOne == Spec => []OneSocket
<1>1. Init => IInv
  BY DEF Init, IInv, OneSocket
<1>2. IInv /\ [Next]_vars => IInv'
  <2> SUFFICES ASSUME IInv, [Next]_vars PROVE IInv'
    OBVIOUS
  <2>1. CASE Program
    BY <2>1, SettersIInv, ProgramOnward, OnwardIInv DEF Program, Startup
  <2>2. CASE Serve \/ Sigint
    BY <2>2, ServeOnward, OnwardIInv
  <2>3. CASE UNCHANGED vars
    BY <2>3 DEF vars, progVars, IInv, OneSocket
  <2> QED
    BY <2>1, <2>2, <2>3 DEF Next
<1>3. IInv => OneSocket
  BY DEF IInv
<1> QED
  BY <1>1, <1>2, <1>3, PTL DEF Spec

-----------------------------------------------------------------------------
(* Sequences of calls, as the set of their members.                        *)
Elems(s) == {s[i] : i \in DOMAIN s}

Distinct(s) == \A i, j \in DOMAIN s : s[i] = s[j] => i = j

(* One behind the other.                                                   *)
LEMMA Joined ==
    ASSUME NEW E, NEW s \in Seq(E), NEW t \in Seq(E)
    PROVE  /\ s \o t \in Seq(E)
           /\ Elems(s \o t) = Elems(s) \cup Elems(t)
           /\ Distinct(s) /\ Distinct(t) /\ Elems(s) \cap Elems(t) = {} => Distinct(s \o t)
<1> DEFINE u == s \o t
<1>1. /\ u \in Seq(E) /\ Len(u) = Len(s) + Len(t)
      /\ Len(s) \in Nat /\ Len(t) \in Nat
      /\ DOMAIN u = 1..Len(u) /\ DOMAIN s = 1..Len(s) /\ DOMAIN t = 1..Len(t)
      /\ \A i \in 1..Len(s) : u[i] = s[i]
      /\ \A i \in Len(s) + 1 .. Len(u) : u[i] = t[i - Len(s)]
  BY ConcatProperties, LenProperties
<1> HIDE DEF u
<1>2. \A i \in DOMAIN u : \/ i \in DOMAIN s /\ u[i] = s[i]
                          \/ i - Len(s) \in DOMAIN t /\ u[i] = t[i - Len(s)]
  BY <1>1
<1>3. \A i \in DOMAIN s : i \in DOMAIN u /\ u[i] = s[i]
  BY <1>1
<1>4. ASSUME NEW i \in DOMAIN t PROVE i + Len(s) \in DOMAIN u /\ u[i + Len(s)] = t[i]
  <2>1. i + Len(s) \in Len(s) + 1 .. Len(u) /\ i + Len(s) \in 1 .. Len(u)
        /\ (i + Len(s)) - Len(s) = i
    BY <1>1
  <2> QED
    BY <2>1, <1>1
<1>5. Elems(u) = Elems(s) \cup Elems(t)
  <2>1. Elems(u) \subseteq Elems(s) \cup Elems(t)
    BY <1>2 DEF Elems
  <2>2. Elems(s) \subseteq Elems(u)
    BY <1>3 DEF Elems
  <2>3. Elems(t) \subseteq Elems(u)
    BY <1>4 DEF Elems
  <2> QED
    BY <2>1, <2>2, <2>3
<1>6. ASSUME Distinct(s), Distinct(t), Elems(s) \cap Elems(t) = {},
             NEW i \in DOMAIN u, NEW j \in DOMAIN u, u[i] = u[j]
      PROVE  i = j
  <2>1. CASE i \in DOMAIN s /\ u[i] = s[i] /\ j \in DOMAIN s /\ u[j] = s[j]
    BY <1>6, <2>1 DEF Distinct
  <2>2. CASE /\ i - Len(s) \in DOMAIN t /\ u[i] = t[i - Len(s)]
             /\ j - Len(s) \in DOMAIN t /\ u[j] = t[j - Len(s)]
    <3>1. i - Len(s) = j - Len(s)
      BY <1>6, <2>2 DEF Distinct
    <3> QED
      BY <3>1, <1>1
  <2>3. CASE \/ i \in DOMAIN s /\ u[i] = s[i] /\ j - Len(s) \in DOMAIN t /\ u[j] = t[j - Len(s)]
             \/ j \in DOMAIN s /\ u[j] = s[j] /\ i - Len(s) \in DOMAIN t /\ u[i] = t[i - Len(s)]
    <3>1. u[i] \in Elems(s) \cap Elems(t)
      BY <1>6, <2>3 DEF Elems
    <3> QED
      BY <1>6, <3>1
  <2> QED
    BY <1>2, <2>1, <2>2, <2>3
<1>7. Distinct(s) /\ Distinct(t) /\ Elems(s) \cap Elems(t) = {} => Distinct(u)
  BY <1>6 DEF Distinct
<1> QED
  BY <1>1, <1>5, <1>7 DEF u

(* FlattenSeq is the last value of a function on the places of a sequence; *)
(* there is one, by induction.                                             *)
FlatStep(q, s, i) == IF i = 1 THEN s[i] ELSE q[i - 1] \o s[i]

LEMMA FlatExists ==
    ASSUME NEW s, NEW k \in Nat
    PROVE  \E q : q = [i \in 1..k |-> FlatStep(q, s, i)]
<1> DEFINE Is(q, l) == q = [i \in 1..l |-> FlatStep(q, s, i)]
           T == {l \in Nat : \E q : Is(q, l)}
<1>1. 0 \in T
  <2> DEFINE q == [i \in 1..0 |-> << >>]
  <2>1. q = [i \in 1..0 |-> FlatStep(q, s, i)]
    OBVIOUS
  <2> QED
    BY <2>1
<1>2. ASSUME NEW l \in Nat, l \in T PROVE l + 1 \in T
  <2>1. PICK q : Is(q, l)
    BY <1>2
  <2> DEFINE r == [i \in 1..l + 1 |-> FlatStep(q, s, i)]
  <2>2. ASSUME NEW i \in 1..l PROVE r[i] = q[i]
    <3>1. q[i] = FlatStep(q, s, i)
      BY <2>1
    <3> QED
      BY <3>1
  <2>3. ASSUME NEW i \in 1..l + 1 PROVE FlatStep(q, s, i) = FlatStep(r, s, i)
    <3>1. i = 1 \/ i - 1 \in 1..l
      OBVIOUS
    <3> HIDE DEF r
    <3> QED
      BY <2>2, <3>1 DEF FlatStep
  <2>4. Is(r, l + 1) /\ l + 1 \in Nat
    BY <2>3
  <2> HIDE DEF Is, r
  <2> QED
    BY <2>4
<1> HIDE DEF T
<1>3. Nat \subseteq T
  BY <1>1, <1>2, Induction
<1> QED
  BY <1>3 DEF T

(* FlattenSeq has the members of all the sequences, each as often as they. *)
LEMMA Flattened ==
    ASSUME NEW E, NEW s \in Seq(Seq(E)), NEW f, f = Seqs!FlattenSeq(s)
    PROVE  /\ f \in Seq(E)
           /\ Elems(f) = UNION {Elems(s[i]) : i \in DOMAIN s}
           /\ (\A i \in DOMAIN s : Distinct(s[i])) /\
              (\A i, j \in DOMAIN s : i # j => Elems(s[i]) \cap Elems(s[j]) = {})
                => Distinct(f)
<1> DEFINE apart(k) == /\ \A i \in 1..k : Distinct(s[i])
                       /\ \A i, j \in 1..k : i # j => Elems(s[i]) \cap Elems(s[j]) = {}
<1>1. Len(s) \in Nat /\ DOMAIN s = 1..Len(s) /\ \A i \in 1..Len(s) : s[i] \in Seq(E)
  BY LenProperties
<1>2. CASE Len(s) = 0
  <2>1. f = s /\ s = << >>
    BY <1>2, <1>1 DEF Seqs!FlattenSeq
  <2>2. Elems(s) = {} /\ DOMAIN s = {} /\ Distinct(s)
    BY <1>1, <1>2 DEF Elems, Distinct
  <2> QED
    BY <2>1, <2>2
<1>3. CASE Len(s) # 0
  <2> DEFINE q == CHOOSE q : q = [i \in 1..Len(s) |-> FlatStep(q, s, i)]
  <2>1. q = [i \in 1..Len(s) |-> FlatStep(q, s, i)]
    <3> DEFINE Is(r) == r = [i \in 1..Len(s) |-> FlatStep(r, s, i)]
    <3>1. \E r : Is(r)
      BY <1>1, FlatExists
    <3> HIDE DEF Is
    <3>2. Is(CHOOSE r : Is(r))
      BY <3>1, Zenon
    <3> QED
      BY <3>2 DEF Is
  <2>2. f = q[Len(s)]
    BY <1>3 DEF Seqs!FlattenSeq, FlatStep
  <2> HIDE DEF q
  <2>3. \A i \in 1..Len(s) : q[i] = FlatStep(q, s, i)
    BY <2>1
  <2> DEFINE upto(k) == UNION {Elems(s[i]) : i \in 1..k}
             Good(k) == /\ q[k] \in Seq(E)
                        /\ Elems(q[k]) = upto(k)
                        /\ apart(k) => Distinct(q[k])
             GoodIf(k) == k \in 1..Len(s) => Good(k)
             T == {n \in Nat : GoodIf(n + 1)}
  <2>4. 0 \in T
    <3>1. q[1] = s[1] /\ s[1] \in Seq(E)
      BY <1>1, <1>3, <2>3 DEF FlatStep
    <3>2. upto(1) = Elems(s[1])
      OBVIOUS
    <3>3. apart(1) => Distinct(s[1])
      OBVIOUS
    <3>4. Good(1)
      <4> HIDE DEF apart, upto
      <4> QED
        BY <3>1, <3>2, <3>3
    <3> HIDE DEF Good
    <3> QED
      BY <3>4
  <2>5. ASSUME NEW n \in Nat, n \in T PROVE n + 1 \in T
    <3> DEFINE k == n + 1
    <3>0. k \in Nat
      OBVIOUS
    <3> SUFFICES ASSUME k + 1 \in 1..Len(s) PROVE Good(k + 1)
      <4> SUFFICES GoodIf(k + 1)
        <5> HIDE DEF GoodIf
        <5> QED
          BY <3>0
      <4> HIDE DEF Good
      <4> QED
        OBVIOUS
    <3>1. k \in 1..Len(s) /\ k + 1 # 1 /\ (k + 1) - 1 = k /\ k \in Nat
      BY <1>1
    <3>2. Good(k)
      <4> HIDE DEF Good
      <4> QED
        BY <2>5, <3>1
    <3> HIDE DEF k
    <3>3. q[k + 1] = q[k] \o s[k + 1] /\ s[k + 1] \in Seq(E)
      BY <1>1, <2>3, <3>1 DEF FlatStep
    <3>4. 1..k + 1 = (1..k) \cup {k + 1}
      BY <3>1
    <3>5. upto(k + 1) = upto(k) \cup Elems(s[k + 1])
      BY <3>4
    <3>6. q[k + 1] \in Seq(E) /\ Elems(q[k + 1]) = Elems(q[k]) \cup Elems(s[k + 1])
      <4>1. q[k] \in Seq(E)
        BY <3>2
      <4> HIDE DEF Good, apart
      <4>2. /\ q[k] \o s[k + 1] \in Seq(E)
            /\ Elems(q[k] \o s[k + 1]) = Elems(q[k]) \cup Elems(s[k + 1])
        BY <3>3, <4>1, Joined
      <4> QED
        BY <3>3, <4>2
    <3>7. ASSUME apart(k + 1) PROVE Distinct(q[k + 1])
      <4>1. apart(k) /\ Distinct(s[k + 1])
        BY <3>4, <3>7
      <4>2. \A i \in 1..k : Elems(s[i]) \cap Elems(s[k + 1]) = {}
        <5>1. \A i \in 1..k : i # k + 1 /\ i \in 1..k + 1
          BY <3>1
        <5>2. k + 1 \in 1..k + 1
          BY <3>1
        <5> QED
          BY <3>7, <5>1, <5>2
      <4>3. Elems(q[k]) \cap Elems(s[k + 1]) = {}
        BY <3>2, <4>2 DEF upto
      <4>4. q[k] \in Seq(E) /\ Distinct(q[k])
        BY <3>2, <4>1
      <4> HIDE DEF Good, apart
      <4>5. Distinct(q[k] \o s[k + 1])
        BY <3>3, <4>1, <4>3, <4>4, Joined
      <4> QED
        BY <3>3, <4>5
    <3>8. Elems(q[k + 1]) = upto(k + 1)
      <4>1. Elems(q[k]) = upto(k)
        BY <3>2
      <4> HIDE DEF upto
      <4> QED
        BY <3>5, <3>6, <4>1
    <3>9. Good(k + 1)
      <4> HIDE DEF apart, upto
      <4> QED
        BY <3>6, <3>7, <3>8
    <3> HIDE DEF Good
    <3> QED
      BY <3>1, <3>9
  <2>6. Nat \subseteq T
    <3> HIDE DEF T
    <3> QED
      BY <2>4, <2>5, Induction
  <2>7. Len(s) - 1 \in Nat /\ (Len(s) - 1) + 1 = Len(s) /\ Len(s) \in 1..Len(s)
    BY <1>1, <1>3
  <2>8. Good(Len(s))
    <3>1. GoodIf(Len(s))
      <4> HIDE DEF GoodIf
      <4> QED
        BY <2>6, <2>7
    <3> HIDE DEF Good
    <3> QED
      BY <3>1, <2>7
  <2>9. Elems(f) = upto(Len(s))
    BY <2>2, <2>8, Zenon
  <2>10. f \in Seq(E)
    BY <2>2, <2>8, Zenon
  <2>11. apart(Len(s)) => Distinct(f)
    <3> HIDE DEF apart
    <3> QED
      BY <2>2, <2>8, Zenon
  <2> QED
    BY <1>1, <2>9, <2>10, <2>11
<1> QED
  BY <1>2, <1>3

-----------------------------------------------------------------------------
(* The invariant about memory.                                             *)

Call == [op : {"calloc", "realloc", "free"}, place : Kind \X Nat \X Nat]

Device == [device_num : Nat, next : Seq([device_num : Nat, port_num : Nat])]

Roots == {at("network", 0, 0), at("devices", 0, 0), at("switch_list", 0, 0)}

Buffers(i) == {at("read_buffer", i, 0), at("write_buffer", i, 0)}

NodesOf(g, d) == {at("node", d, k) : k \in 0..Len(g[d].next)}

(* Where the program has pointers to blocks.                               *)
Places == Roots \cup (UNION {Buffers(i) : i \in DOMAIN list})
                \cup (UNION {NodesOf(graph, d) : d \in DOMAIN graph})

Pending == {c.place : c \in {x \in Elems(todo) : x.op = "calloc"}}

(* The buffers of switches that have been given up: they stay.             *)
Abandoned == UNION {Buffers(i) : i \in {j \in DOMAIN list : list[j] = "DISCONNECTED"}}

Calm == \A i \in DOMAIN list : list[i] = "live"

Starting == {"sigaction", "getaddrinfo", "socket", "bind", "listen", "initialize"}

Serving == {"loop", "select", "free"}

Typed ==
    /\ pc \in Starting \cup Serving \cup Stopped \cup {"overflow"}
    /\ todo \in Seq(Call)
    /\ \A p \in DOMAIN ptr : ptr[p] \in Address
    /\ DOMAIN owner = Address
    /\ list \in Seq({"live", "DISCONNECTED", "revived"})
    /\ graph \in Seq(Device) /\ \A d \in DOMAIN graph : graph[d].device_num = d
    /\ Len(list) <= Room + 1 /\ Len(graph) \in {Len(list), Len(list) - 1}
    /\ pc \in Serving => Len(graph) = Len(list) /\ Len(list) <= Room
    /\ pc \in Starting => DOMAIN ptr = {} /\ todo = << >> /\ list = << >> /\ graph = << >>

(* Every live block belongs to the place it was allocated for.             *)
Owned == \A a \in libc : owner[a] \in DOMAIN ptr /\ ptr[owner[a]] = a

(* What is still to be allocated, and nothing else, has no block yet.      *)
Calls ==
    /\ Distinct(todo)
    /\ DOMAIN ptr \subseteq Places
    /\ Pending \subseteq Places \ DOMAIN ptr
    /\ pc \notin Starting \cup Stopped => Places \subseteq DOMAIN ptr \cup Pending
    /\ \A c \in Elems(todo) : c.op = "realloc" =>
         c.place = at("switch_list", 0, 0) /\ c.place \in DOMAIN ptr

(* From the end of the loop on, there are calls of free for all there is.  *)
Cleaning ==
    /\ pc = "free" =>
         /\ \A c \in Elems(todo) : c.op = "free"
         /\ \A a \in libc : owner[a] \in Abandoned \/ Do("free", owner[a]) \in Elems(todo)
    /\ pc = "exit" => \A a \in libc : owner[a] \in Abandoned

(* Before a switch has been given up, only the end frees, what is there.   *)
Matched ==
    Calm => /\ said # "non-malloced"
            /\ pc \notin Stopped \cup {"free"} =>
                 /\ \A p \in DOMAIN ptr : Intact(p)
                 /\ \A c \in Elems(todo) : c.op # "free"
            /\ pc = "free" => \A c \in Elems(todo) : Intact(c.place)

MemoryInv == HeapInv /\ Typed /\ Owned /\ Calls /\ Cleaning /\ Matched

-----------------------------------------------------------------------------
(* Calls of the allocator.                                                 *)

(* What a call of free does to the set of live blocks.                     *)
LEMMA Frees ==
    ASSUME HeapInv, NEW x \in Pointer, smartfree(x)
    PROVE  /\ x \notin libc' /\ libc' \subseteq libc /\ libc \ {x} \subseteq libc'
           /\ x \in libc => said' # "non-malloced"
<1>1. find(chain(x), x) # 0 <=> x \in libc
  BY FindsLive
<1>2. CASE x \in libc
  BY <1>1, <1>2 DEF smartfree, freechecks
<1>3. CASE x \notin libc
  BY <1>1, <1>3 DEF smartfree, non_malloced
<1> QED
  BY <1>2, <1>3

(* ... and one of realloc.                                                 *)
LEMMA Moves ==
    ASSUME HeapInv, NEW x \in Pointer, NEW a \in Address \ libc, NEW n,
           smartrealloc(x, n, a)
    PROVE  /\ x \notin libc' /\ libc' \subseteq libc \cup {a} /\ libc \ {x} \subseteq libc'
           /\ x \in libc => said' # "non-malloced" /\ a \in libc'
<1>1. find(chain(x), x) # 0 <=> x \in libc
  BY FindsLive
<1>2. CASE x \in libc
  BY <1>1, <1>2 DEF smartrealloc, freechecks
<1>3. CASE x \notin libc
  BY <1>1, <1>3 DEF smartrealloc, non_malloced
<1> QED
  BY <1>2, <1>3

(* The address the C library hands out is free.                            *)
LEMMA LowestFree ==
    ASSUME ~Exhausted
    PROVE  Lowest \in Address \ libc
<1> DEFINE T == Address \ libc
<1>1. T \subseteq Nat /\ T # {}
  BY AllocAssumption DEF Exhausted
<1>2. \E a \in T : \A b \in T : a <= b
  BY <1>1, Least
<1> QED
  BY <1>2 DEF Lowest

(* The sizes the program asks for.                                         *)
LEMMA AsksFor ==
    /\ \A k \in Kind : Bytes[k] \in Size
    /\ 2 * Bytes["switch_list"] \in Size
BY LifetimeAssumption

(* The first call is made, the others remain.                              *)
LEMMA Popped ==
    ASSUME NEW E, NEW s \in Seq(E), s # << >>, Distinct(s)
    PROVE  /\ Head(s) \in E /\ Head(s) \in Elems(s)
           /\ Tail(s) \in Seq(E) /\ Distinct(Tail(s))
           /\ Elems(Tail(s)) = Elems(s) \ {Head(s)}
<1> DEFINE t == Tail(s)
<1>1. Len(s) \in Nat /\ Len(s) # 0 /\ DOMAIN s = 1..Len(s) /\ 1 \in DOMAIN s /\ Head(s) = s[1]
  BY EmptySeq, LenProperties
<1>2. /\ t \in Seq(E) /\ DOMAIN t = 1..Len(s) - 1
      /\ \A i \in 1..Len(s) - 1 : t[i] = s[i + 1] /\ i + 1 \in DOMAIN s /\ i + 1 # 1
  <2>1. t \in Seq(E) /\ Len(t) = Len(s) - 1 /\ \A i \in 1..Len(t) : t[i] = s[i + 1]
    BY HeadTailProperties
  <2> HIDE DEF t
  <2>2. DOMAIN t = 1..Len(t)
    BY <2>1, LenProperties
  <2>3. \A i \in 1..Len(s) - 1 : i + 1 \in 1..Len(s) /\ i + 1 # 1
    BY <1>1
  <2> QED
    BY <1>1, <2>1, <2>2, <2>3
<1> HIDE DEF t
<1>3. ASSUME NEW i \in DOMAIN s, i # 1 PROVE i - 1 \in DOMAIN t /\ t[i - 1] = s[i]
  <2>1. i - 1 \in 1..Len(s) - 1 /\ (i - 1) + 1 = i
    BY <1>1, <1>3
  <2> QED
    BY <1>2, <2>1
<1>4. Elems(t) \subseteq Elems(s) \ {s[1]}
  <2>1. \A i \in DOMAIN t : t[i] = s[i + 1] /\ i + 1 \in DOMAIN s /\ s[i + 1] # s[1]
    BY <1>1, <1>2 DEF Distinct
  <2> QED
    BY <2>1 DEF Elems
<1>5. Elems(s) \ {s[1]} \subseteq Elems(t)
  <2>1. \A i \in DOMAIN s : s[i] # s[1] => i # 1
    OBVIOUS
  <2> QED
    BY <1>3, <2>1 DEF Elems
<1>6. Distinct(t)
  <2> SUFFICES ASSUME NEW i \in DOMAIN t, NEW j \in DOMAIN t, t[i] = t[j] PROVE i = j
    BY DEF Distinct
  <2>1. i + 1 \in DOMAIN s /\ j + 1 \in DOMAIN s /\ s[i + 1] = s[j + 1]
    BY <1>2
  <2>2. i + 1 = j + 1
    BY <2>1 DEF Distinct
  <2> QED
    BY <1>1, <1>2, <2>2
<1>7. Head(s) \in Elems(s) /\ Head(s) \in E
  BY <1>1 DEF Elems
<1> QED
  BY <1>1, <1>2, <1>4, <1>5, <1>6, <1>7 DEF t

(* A place and what it points to.                                          *)
LEMMA IntactIs ==
    ASSUME HeapInv, NEW p
    PROVE  Intact(p) <=> p \in DOMAIN ptr /\ ptr[p] \in libc /\ owner[ptr[p]] = p
<1>1. NULL \notin libc
  BY AllocAssumption DEF HeapInv, HeapTypeOK
<1> QED
  BY <1>1 DEF Intact, Deref

LEMMA IntactIsPrimed ==
    ASSUME HeapInv', NEW p
    PROVE  Intact(p)' <=> p \in DOMAIN ptr' /\ ptr'[p] \in libc' /\ owner'[ptr'[p]] = p
<1>1. NULL \notin libc'
  BY AllocAssumption DEF HeapInv, HeapTypeOK
<1> QED
  BY <1>1 DEF Intact, Deref

(* What a call leaves as it is.                                            *)
Frame == UNCHANGED <<pc, server, bound, listed, interrupt, list, graph>>

(* A call of calloc: the place gets a block that nobody has.               *)
LEMMA CallocStep ==
    ASSUME MemoryInv, HeapInv', NEW c \in Elems(todo), c.op = "calloc", NEW a \in Address \ libc,
           pc \notin Stopped, Frame, c \in Call,
           libc' = libc \cup {a}, said' = "nothing",
           DOMAIN ptr' = {c.place} \cup DOMAIN ptr, ptr'[c.place] = a,
           \A p \in DOMAIN ptr : p # c.place => ptr'[p] = ptr[p],
           owner' = [owner EXCEPT ![a] = c.place],
           todo' \in Seq(Call), Distinct(todo'), Elems(todo') = Elems(todo) \ {c}
    PROVE  MemoryInv'
<1> DEFINE p == c.place
<1>1. /\ HeapInv /\ Typed /\ Owned /\ Calls /\ Cleaning /\ Matched
      /\ UNCHANGED <<pc, list, graph>>
  BY DEF MemoryInv, Frame
<1>2. p \in Pending /\ p \in Places /\ p \notin DOMAIN ptr
  BY <1>1 DEF Calls, Pending
<1>3. Places' = Places /\ Abandoned' = Abandoned /\ Calm' = Calm
  BY <1>1 DEF Places, Abandoned, Calm
<1>4. pc \notin Starting \cup Stopped \cup {"free"}
  <2>1. Elems(todo) # {}
    OBVIOUS
  <2>2. todo # << >>
    BY <2>1 DEF Elems
  <2> QED
    BY <1>1, <2>2 DEF Typed, Cleaning
<1>5. owner'[a] = p /\ \A b \in Address : b # a => owner'[b] = owner[b]
  BY <1>1 DEF Typed
<1>6. libc \subseteq Address
  BY <1>1 DEF HeapInv, HeapTypeOK
<1>7. Typed'
  <2>1. \A q \in DOMAIN ptr' : ptr'[q] \in Address
    BY <1>1 DEF Typed
  <2>2. DOMAIN owner' = Address
    BY <1>1 DEF Typed
  <2> QED
    BY <1>1, <1>4, <2>1, <2>2 DEF Typed
<1>8. Owned'
  <2> SUFFICES ASSUME NEW b \in libc' PROVE owner'[b] \in DOMAIN ptr' /\ ptr'[owner'[b]] = b
    BY DEF Owned
  <2>1. CASE b = a
    BY <1>5, <2>1
  <2>2. CASE b \in libc
    <3>1. b # a /\ owner'[b] = owner[b] /\ owner[b] \in DOMAIN ptr /\ ptr[owner[b]] = b
      BY <1>1, <1>5, <1>6, <2>2 DEF Owned
    <3> QED
      BY <1>2, <3>1
  <2> QED
    BY <2>1, <2>2
<1>9. Calls'
  <2>1. p \notin Pending'
    <3> SUFFICES ASSUME NEW x \in Elems(todo'), x.op = "calloc", x.place = p PROVE FALSE
      BY DEF Pending
    <3>1. x \in Call /\ x # c
      <4>1. \A y \in Elems(todo') : y \in Call
        BY DEF Elems
      <4> QED
        BY <4>1
    <3> QED
      BY <3>1 DEF Call
  <2>2. Pending' \subseteq Pending
    BY DEF Pending
  <2>3. Pending \subseteq Pending' \cup {p}
    BY DEF Pending
  <2>4. DOMAIN ptr' \subseteq Places'
    BY <1>1, <1>2, <1>3 DEF Calls
  <2>5. Pending' \subseteq Places' \ DOMAIN ptr'
    BY <1>1, <1>3, <2>1, <2>2 DEF Calls
  <2>6. Places' \subseteq DOMAIN ptr' \cup Pending'
    BY <1>1, <1>3, <1>4, <2>3 DEF Calls
  <2>7. \A x \in Elems(todo') : x.op = "realloc" =>
          x.place = at("switch_list", 0, 0) /\ x.place \in DOMAIN ptr'
    BY <1>1 DEF Calls
  <2> QED
    BY <2>4, <2>5, <2>6, <2>7 DEF Calls
<1>10. Cleaning'
  BY <1>1, <1>4 DEF Cleaning, Stopped
<1>11. Matched'
  <2> SUFFICES ASSUME Calm PROVE /\ \A q \in DOMAIN ptr' : Intact(q)'
                                 /\ \A x \in Elems(todo') : x.op # "free"
    BY <1>1, <1>3, <1>4 DEF Matched
  <2>1. /\ \A q \in DOMAIN ptr : Intact(q)
        /\ \A x \in Elems(todo) : x.op # "free"
    BY <1>1, <1>4 DEF Matched
  <2>2. ASSUME NEW q \in DOMAIN ptr' PROVE Intact(q)'
    <3>1. CASE q = p
      BY <1>5, <3>1, IntactIsPrimed
    <3>2. CASE q # p
      <4>1. q \in DOMAIN ptr /\ ptr[q] \in libc /\ owner[ptr[q]] = q
        BY <1>1, <2>1, <3>2, IntactIs
      <4>2. ptr'[q] = ptr[q] /\ ptr[q] # a /\ ptr[q] \in Address
        BY <1>6, <3>2, <4>1
      <4> QED
        BY <1>5, <4>1, <4>2, IntactIsPrimed
    <3> QED
      BY <3>1, <3>2
  <2> QED
    BY <2>1, <2>2
<1> QED
  BY <1>7, <1>8, <1>9, <1>10, <1>11 DEF MemoryInv

(* A call of realloc: the place gets a new block, the old one is freed.    *)
LEMMA ReallocStep ==
    ASSUME MemoryInv, HeapInv', NEW c \in Elems(todo), c.op = "realloc",
           NEW a \in Address \ libc, pc \notin Stopped, Frame, c \in Call,
           c.place \in DOMAIN ptr =>
             /\ ptr[c.place] \notin libc' /\ libc \ {ptr[c.place]} \subseteq libc'
             /\ ptr[c.place] \in libc => said' # "non-malloced" /\ a \in libc',
           libc' \subseteq libc \cup {a},
           DOMAIN ptr' = {c.place} \cup DOMAIN ptr, ptr'[c.place] = a,
           \A p \in DOMAIN ptr : p # c.place => ptr'[p] = ptr[p],
           owner' = [owner EXCEPT ![a] = c.place],
           todo' \in Seq(Call), Distinct(todo'), Elems(todo') = Elems(todo) \ {c}
    PROVE  MemoryInv'
<1> DEFINE p == c.place
           old == ptr[p]
<1>1. /\ HeapInv /\ Typed /\ Owned /\ Calls /\ Cleaning /\ Matched
      /\ UNCHANGED <<pc, list, graph>>
  BY DEF MemoryInv, Frame
<1>2. p \in DOMAIN ptr /\ DOMAIN ptr' = DOMAIN ptr
  BY <1>1 DEF Calls
<1>3. Places' = Places /\ Abandoned' = Abandoned /\ Calm' = Calm
  BY <1>1 DEF Places, Abandoned, Calm
<1>4. pc \notin Starting \cup Stopped \cup {"free"}
  <2>1. Elems(todo) # {}
    OBVIOUS
  <2>2. todo # << >>
    BY <2>1 DEF Elems
  <2> QED
    BY <1>1, <2>2 DEF Typed, Cleaning
<1>5. owner'[a] = p /\ \A b \in Address : b # a => owner'[b] = owner[b]
  BY <1>1 DEF Typed
<1>6. libc \subseteq Address /\ libc' \subseteq libc \cup {a}
  BY <1>1 DEF HeapInv, HeapTypeOK
<1>7. Typed'
  <2>1. \A q \in DOMAIN ptr' : ptr'[q] \in Address
    BY <1>1 DEF Typed
  <2>2. DOMAIN owner' = Address
    BY <1>1 DEF Typed
  <2> QED
    BY <1>1, <1>4, <2>1, <2>2 DEF Typed
<1>8. Owned'
  <2> SUFFICES ASSUME NEW b \in libc' PROVE owner'[b] \in DOMAIN ptr' /\ ptr'[owner'[b]] = b
    BY DEF Owned
  <2>1. CASE b = a
    BY <1>5, <2>1
  <2>2. CASE b # a
    <3>1. b \in libc /\ owner'[b] = owner[b] /\ owner[b] \in DOMAIN ptr /\ ptr[owner[b]] = b
      BY <1>1, <1>5, <1>6, <2>2 DEF Owned
    <3>2. owner[b] # p
      BY <1>2, <3>1
    <3> QED
      BY <3>1, <3>2
  <2> QED
    BY <2>1, <2>2
<1>9. Calls'
  <2>1. Pending' = Pending
    BY DEF Pending
  <2>2. \A x \in Elems(todo') : x.op = "realloc" =>
          x.place = at("switch_list", 0, 0) /\ x.place \in DOMAIN ptr'
    BY <1>1, <1>2 DEF Calls
  <2> QED
    BY <1>1, <1>2, <1>3, <2>1, <2>2 DEF Calls
<1>10. Cleaning'
  BY <1>1, <1>4 DEF Cleaning, Stopped
<1>11. Matched'
  <2> SUFFICES ASSUME Calm PROVE /\ said' # "non-malloced"
                                 /\ \A q \in DOMAIN ptr' : Intact(q)'
                                 /\ \A x \in Elems(todo') : x.op # "free"
    BY <1>1, <1>3, <1>4 DEF Matched
  <2>1. /\ \A q \in DOMAIN ptr : Intact(q)
        /\ \A x \in Elems(todo) : x.op # "free"
    BY <1>1, <1>4 DEF Matched
  <2>2. old \in libc /\ owner[old] = p
    BY <1>1, <1>2, <2>1, IntactIs
  <2>3. said' # "non-malloced" /\ a \in libc'
    BY <1>2, <2>2
  <2>4. ASSUME NEW q \in DOMAIN ptr' PROVE Intact(q)'
    <3>1. CASE q = p
      BY <1>5, <2>3, <3>1, IntactIsPrimed
    <3>2. CASE q # p
      <4>1. q \in DOMAIN ptr /\ ptr[q] \in libc /\ owner[ptr[q]] = q
        BY <1>1, <1>2, <2>1, IntactIs
      <4>2. ptr'[q] = ptr[q] /\ ptr[q] # a /\ ptr[q] \in Address /\ ptr[q] # old
        BY <1>6, <2>2, <3>2, <4>1
      <4>3. ptr[q] \in libc'
        BY <1>2, <4>1, <4>2
      <4> QED
        BY <1>2, <1>5, <4>1, <4>2, <4>3, IntactIsPrimed
    <3> QED
      BY <3>1, <3>2
  <2> QED
    BY <2>1, <2>3, <2>4
<1> QED
  BY <1>7, <1>8, <1>9, <1>10, <1>11 DEF MemoryInv

(* A call of free.                                                         *)
LEMMA FreeCallStep ==
    ASSUME MemoryInv, HeapInv', NEW c \in Elems(todo), c.op = "free",
           pc \notin Stopped, Frame, c \in Call, UNCHANGED <<ptr, owner>>,
           Deref(c.place) \notin libc', libc' \subseteq libc,
           libc \ {Deref(c.place)} \subseteq libc',
           Deref(c.place) \in libc => said' # "non-malloced",
           todo' \in Seq(Call), Distinct(todo'), Elems(todo') = Elems(todo) \ {c}
    PROVE  MemoryInv'
<1> DEFINE p == c.place
<1>1. /\ HeapInv /\ Typed /\ Owned /\ Calls /\ Cleaning /\ Matched
      /\ UNCHANGED <<pc, list, graph>>
  BY DEF MemoryInv, Frame
<1>3. Places' = Places /\ Abandoned' = Abandoned /\ Calm' = Calm
  BY <1>1 DEF Places, Abandoned, Calm
<1>4. pc \notin Starting \cup Stopped
  <2>1. Elems(todo) # {}
    OBVIOUS
  <2>2. todo # << >>
    BY <2>1 DEF Elems
  <2> QED
    BY <1>1, <2>2 DEF Typed
<1>7. Typed'
  BY <1>1, <1>4 DEF Typed
<1>8. Owned'
  BY <1>1 DEF Owned
<1>9. Calls'
  <2>1. Pending' = Pending
    BY DEF Pending
  <2> QED
    BY <1>1, <1>3, <2>1 DEF Calls
<1>10. Cleaning'
  <2> SUFFICES ASSUME pc = "free"
               PROVE  /\ \A x \in Elems(todo') : x.op = "free"
                      /\ \A b \in libc' : \/ owner[b] \in Abandoned
                                          \/ Do("free", owner[b]) \in Elems(todo')
    BY <1>1, <1>3, <1>4 DEF Cleaning, Stopped
  <2>1. ASSUME NEW b \in libc', owner[b] \notin Abandoned
        PROVE  Do("free", owner[b]) \in Elems(todo')
    <3>1. b \in libc /\ Do("free", owner[b]) \in Elems(todo)
      BY <1>1, <2>1 DEF Cleaning
    <3>2. owner[b] \in DOMAIN ptr /\ ptr[owner[b]] = b
      BY <1>1, <3>1 DEF Owned
    <3>3. Deref(owner[b]) = b
      BY <3>2 DEF Deref
    <3>4. owner[b] # p
      BY <3>3
    <3>5. Do("free", owner[b]) # c
      BY <3>4 DEF Do
    <3> QED
      BY <3>1, <3>5
  <2> QED
    BY <1>1, <2>1 DEF Cleaning
<1>11. Matched'
  <2> SUFFICES ASSUME Calm PROVE /\ said' # "non-malloced" /\ pc = "free"
                                 /\ \A x \in Elems(todo') : Intact(x.place)'
    BY <1>1, <1>3, <1>4 DEF Matched
  <2>1. pc = "free" /\ \A x \in Elems(todo) : Intact(x.place)
    BY <1>1, <1>4 DEF Matched
  <2>2. Intact(p)
    BY <2>1
  <2>3. Deref(p) \in libc /\ owner[Deref(p)] = p
    BY <2>2 DEF Intact
  <2>4. ASSUME NEW x \in Elems(todo') PROVE Intact(x.place)'
    <3>1. x \in Elems(todo) /\ x # c /\ x \in Call /\ x.op = "free"
      <4>1. \A y \in Elems(todo') : y \in Call
        BY DEF Elems
      <4>2. \A y \in Elems(todo) : y.op = "free"
        BY <1>1, <2>1 DEF Cleaning
      <4> QED
        BY <4>1, <4>2
    <3>2. x.place # p
      BY <3>1 DEF Call
    <3>3. Deref(x.place) \in libc /\ owner[Deref(x.place)] = x.place
      BY <2>1, <3>1 DEF Intact
    <3>4. Deref(x.place) \in libc'
      BY <2>3, <3>2, <3>3
    <3>5. Deref(x.place)' = Deref(x.place)
      BY DEF Deref
    <3> QED
      BY <3>3, <3>4, <3>5 DEF Intact
  <2> QED
    BY <2>1, <2>3, <2>4
<1> QED
  BY <1>7, <1>8, <1>9, <1>10, <1>11 DEF MemoryInv

(* Every call the program makes is a step of SmartAlloc, and keeps the     *)
(* invariant.                                                              *)
LEMMA AllocatorCallInv ==
    ASSUME MemoryInv, AllocatorCall
    PROVE  MemoryInv' /\ [HeapNext]_heapVars
<1> DEFINE c == Head(todo)
           p == c.place
           kind == c.place[1]
           a == Lowest
<1>1. /\ HeapInv /\ Typed /\ Owned /\ Calls /\ Cleaning /\ Matched
      /\ todo # << >> /\ pc \notin Stopped
      /\ UNCHANGED <<server, bound, listed, interrupt, list, graph>>
  BY DEF MemoryInv, AllocatorCall
<1>2. /\ c \in Call /\ c \in Elems(todo)
      /\ Tail(todo) \in Seq(Call) /\ Distinct(Tail(todo))
      /\ Elems(Tail(todo)) = Elems(todo) \ {c}
  BY <1>1, Popped DEF Typed, Calls
<1>3. kind \in Kind
  BY <1>2 DEF Call
<1> DEFINE ends    == /\ c.op \in {"calloc", "realloc"} /\ Exhausted
                      /\ pc' = "exit(1)"
                      /\ UNCHANGED <<heapVars, todo, ptr, owner>>
           callocs == /\ c.op = "calloc" /\ ~Exhausted
                      /\ smartalloc(a, Bytes[kind]) /\ Gets(p)
                      /\ todo' = Tail(todo) /\ UNCHANGED pc
           moves   == /\ c.op = "realloc" /\ ~Exhausted
                      /\ smartrealloc(Deref(p), 2 * Bytes[kind], a) /\ Gets(p)
                      /\ todo' = Tail(todo) /\ UNCHANGED pc
           frees   == /\ c.op = "free" /\ smartfree(Deref(p))
                      /\ todo' = Tail(todo) /\ UNCHANGED <<pc, ptr, owner>>
<1>4. ends \/ callocs \/ moves \/ frees
  BY DEF AllocatorCall
<1> HIDE DEF c, a
<1>5. \A q : Deref(q) \in Pointer
  BY <1>1 DEF Typed, Deref, Pointer
<1>6. ASSUME Gets(p)
      PROVE  /\ DOMAIN ptr' = {p} \cup DOMAIN ptr /\ ptr'[p] = a
             /\ \A q \in DOMAIN ptr : q # p => ptr'[q] = ptr[q]
             /\ owner' = [owner EXCEPT ![a] = p]
  BY <1>6 DEF Gets, a
<1>7. CASE ends
  <2>1. UNCHANGED heapVars /\ UNCHANGED <<todo, ptr, owner, list, graph>> /\ pc' = "exit(1)"
    BY <1>1, <1>7
  <2>2. UNCHANGED <<track_hash, allocated, libc, spoiled, said>>
    BY <2>1 DEF heapVars
  <2>3. HeapInv'
    BY <1>1, <2>1, NextStep
  <2>4. Typed'
    BY <1>1, <2>1 DEF Typed, Stopped, Serving, Starting
  <2>5. Owned'
    BY <1>1, <2>1, <2>2 DEF Owned
  <2>6. Places' = Places /\ Pending' = Pending /\ (Calm' <=> Calm)
    BY <2>1 DEF Places, Pending, Calm
  <2>7. Calls'
    BY <1>1, <2>1, <2>6 DEF Calls, Stopped
  <2>8. Cleaning'
    BY <2>1 DEF Cleaning
  <2>9. Matched'
    BY <1>1, <2>1, <2>2, <2>6 DEF Matched, Stopped
  <2> QED
    BY <2>1, <2>3, <2>4, <2>5, <2>7, <2>8, <2>9 DEF MemoryInv
<1>8. CASE callocs
  <2>1. a \in Address \ libc
    BY <1>8, LowestFree DEF a
  <2>2. Bytes[kind] \in Size
    BY <1>3, AsksFor
  <2>3. [HeapNext]_heapVars
    BY <1>8, <2>1, <2>2 DEF HeapNext
  <2>4. HeapInv'
    BY <1>1, <2>3, NextStep
  <2>5. libc' = libc \cup {a} /\ said' = "nothing"
    BY <1>8 DEF smartalloc
  <2>6. Frame
    BY <1>1, <1>8 DEF Frame
  <2>7. c.op = "calloc" /\ todo' = Tail(todo) /\ Gets(p)
    BY <1>8
  <2> HIDE DEF callocs
  <2>8. MemoryInv'
    BY <1>1, <1>2, <1>6, <2>1, <2>4, <2>5, <2>6, <2>7, CallocStep
  <2> QED
    BY <2>3, <2>8
<1>9. CASE moves
  <2>1. a \in Address \ libc
    BY <1>9, LowestFree DEF a
  <2>2. p = at("switch_list", 0, 0) /\ p \in DOMAIN ptr
    BY <1>1, <1>2, <1>9 DEF Calls
  <2>3. 2 * Bytes[kind] \in Size
    BY <2>2, AsksFor DEF at
  <2>4. Deref(p) = ptr[p] /\ ptr[p] \in Address
    BY <1>1, <2>2 DEF Deref, Typed
  <2>5. smartrealloc(ptr[p], 2 * Bytes[kind], a)
    BY <1>9, <2>4
  <2>6. [HeapNext]_heapVars
    BY <2>1, <2>3, <2>4, <2>5 DEF HeapNext
  <2>7. HeapInv'
    BY <1>1, <2>6, NextStep
  <2>8. /\ ptr[p] \notin libc' /\ libc' \subseteq libc \cup {a} /\ libc \ {ptr[p]} \subseteq libc'
        /\ ptr[p] \in libc => said' # "non-malloced" /\ a \in libc'
    BY <1>1, <1>5, <2>1, <2>4, <2>5, Moves
  <2>9. Frame
    BY <1>1, <1>9 DEF Frame
  <2>10. c.op = "realloc" /\ todo' = Tail(todo) /\ Gets(p)
    BY <1>9
  <2> HIDE DEF moves
  <2>11. MemoryInv'
    BY <1>1, <1>2, <1>6, <2>1, <2>7, <2>8, <2>9, <2>10, ReallocStep
  <2> QED
    BY <2>6, <2>11
<1>10. CASE frees
  <2>1. smartfree(Deref(p)) /\ c.op = "free" /\ todo' = Tail(todo)
        /\ UNCHANGED <<pc, ptr, owner>>
    BY <1>10
  <2>2. [HeapNext]_heapVars
    BY <1>5, <2>1 DEF HeapNext
  <2>3. HeapInv'
    BY <1>1, <2>2, NextStep
  <2>4. /\ Deref(p) \notin libc' /\ libc' \subseteq libc /\ libc \ {Deref(p)} \subseteq libc'
        /\ Deref(p) \in libc => said' # "non-malloced"
    BY <1>1, <1>5, <2>1, Frees
  <2>5. Frame
    BY <1>1, <2>1 DEF Frame
  <2> HIDE DEF frees
  <2>6. MemoryInv'
    BY <1>1, <1>2, <2>1, <2>3, <2>4, <2>5, FreeCallStep
  <2> QED
    BY <2>2, <2>6
<1> QED
  BY <1>4, <1>7, <1>8, <1>9, <1>10

-----------------------------------------------------------------------------
(* What the functions that free and the one that enters a link have to     *)
(* call, as sets.                                                          *)

Freed(P) == {Do("free", p) : p \in P}

(* A call, and that it is known by its parts.                              *)
LEMMA CallIs ==
    ASSUME NEW o \in {"calloc", "realloc", "free"}, NEW k \in Kind, NEW i \in Nat, NEW j \in Nat
    PROVE  Do(o, at(k, i, j)) \in Call
BY DEF Do, at, Call

LEMMA SameCall ==
    ASSUME NEW o, NEW o2, NEW k, NEW k2, NEW i, NEW i2, NEW j, NEW j2,
           Do(o, at(k, i, j)) = Do(o2, at(k2, i2, j2))
    PROVE  o = o2 /\ k = k2 /\ i = i2 /\ j = j2
BY DEF Do, at

(* A function on 1..n is a sequence of n.                                  *)
LEMMA FunctionIsSeq ==
    ASSUME NEW E, NEW n \in Nat, NEW f, f \in [1..n -> E]
    PROVE  f \in Seq(E) /\ Len(f) = n
OBVIOUS

(* Sequences of one and of two calls.                                      *)
LEMMA OneCall ==
    ASSUME NEW c \in Call
    PROVE  <<c>> \in Seq(Call) /\ Elems(<<c>>) = {c} /\ Distinct(<<c>>)
BY DEF Elems, Distinct

LEMMA TwoCalls ==
    ASSUME NEW c \in Call, NEW d \in Call, c # d
    PROVE  <<c, d>> \in Seq(Call) /\ Elems(<<c, d>>) = {c, d} /\ Distinct(<<c, d>>)
<1> DEFINE s == <<c, d>>
<1>1. s \in Seq(Call) /\ Len(s) = 2 /\ DOMAIN s = 1..2 /\ s[1] = c /\ s[2] = d
  OBVIOUS
<1> HIDE DEF s
<1>2. \A i \in DOMAIN s : i = 1 \/ i = 2
  BY <1>1
<1>3. 1 \in DOMAIN s /\ 2 \in DOMAIN s
  BY <1>1
<1>4. Elems(s) = {c, d}
  BY <1>1, <1>2, <1>3 DEF Elems
<1>5. Distinct(s)
  BY <1>1, <1>2 DEF Distinct
<1> QED
  BY <1>1, <1>4, <1>5 DEF s

(* The elements of one adjacency list.                                     *)
LEMMA ListFrees ==
    ASSUME NEW d \in Nat, NEW n \in Nat,
           NEW s, s = [k \in 1..n+1 |-> Do("free", at("node", d, k - 1))]
    PROVE  /\ s \in Seq(Call) /\ Distinct(s)
           /\ Elems(s) = {Do("free", at("node", d, k)) : k \in 0..n}
<1>1. n + 1 \in Nat /\ \A k \in 1..n+1 : k - 1 \in 0..n /\ k - 1 \in Nat
  OBVIOUS
<1>2. \A k \in 1..n+1 : s[k] = Do("free", at("node", d, k - 1)) /\ s[k] \in Call
  BY <1>1, CallIs DEF Kind
<1>3. s \in [1..n+1 -> Call]
  BY <1>2
<1>4. s \in Seq(Call) /\ DOMAIN s = 1..n+1
  BY <1>1, <1>3, FunctionIsSeq
<1>5. Distinct(s)
  <2> SUFFICES ASSUME NEW i \in 1..n+1, NEW j \in 1..n+1, s[i] = s[j] PROVE i = j
    BY <1>4 DEF Distinct
  <2>1. i - 1 = j - 1
    BY <1>2, SameCall
  <2> QED
    BY <2>1
<1>6. \A k \in 0..n : k + 1 \in 1..n+1 /\ (k + 1) - 1 = k
  OBVIOUS
<1>7. Elems(s) = {Do("free", at("node", d, k)) : k \in 0..n}
  <2>1. ASSUME NEW x \in Elems(s) PROVE x \in {Do("free", at("node", d, k)) : k \in 0..n}
    <3>1. PICK i \in 1..n+1 : x = s[i]
      BY <1>4 DEF Elems
    <3> QED
      BY <1>1, <1>2, <3>1
  <2>2. ASSUME NEW k \in 0..n PROVE Do("free", at("node", d, k)) \in Elems(s)
    <3>1. k + 1 \in DOMAIN s /\ s[k + 1] = Do("free", at("node", d, k))
      BY <1>2, <1>4, <1>6
    <3> QED
      BY <3>1 DEF Elems
  <2> QED
    BY <2>1, <2>2
<1> QED
  BY <1>4, <1>5, <1>7

(* free_network_graph frees every element of every list.                   *)
LEMMA GraphFrees ==
    ASSUME Typed
    PROVE  /\ free_network_graph \in Seq(Call) /\ Distinct(free_network_graph)
           /\ Elems(free_network_graph)
                = Freed((UNION {NodesOf(graph, d) : d \in DOMAIN graph})
                        \cup {at("devices", 0, 0), at("network", 0, 0)})
<1> DEFINE N == UNION {NodesOf(graph, d) : d \in DOMAIN graph}
           s == [i \in DOMAIN graph |-> [k \in 1..Len(graph[i].next)+1 |->
                                           Do("free", at("node", graph[i].device_num, k - 1))]]
           f == Seqs!FlattenSeq(s)
           r == << Do("free", at("devices", 0, 0)), Do("free", at("network", 0, 0)) >>
<1>1. /\ DOMAIN graph = 1..Len(graph) /\ Len(graph) \in Nat
      /\ \A d \in DOMAIN graph : /\ graph[d].device_num = d /\ d \in Nat
                                 /\ Len(graph[d].next) \in Nat
  BY LenProperties DEF Typed, Device
<1>2. ASSUME NEW d \in DOMAIN graph
      PROVE  s[d] \in Seq(Call) /\ Distinct(s[d]) /\ Elems(s[d]) = Freed(NodesOf(graph, d))
  <2>1. s[d] = [k \in 1..Len(graph[d].next)+1 |-> Do("free", at("node", d, k - 1))]
    BY <1>1
  <2>2. /\ s[d] \in Seq(Call) /\ Distinct(s[d])
        /\ Elems(s[d]) = {Do("free", at("node", d, k)) : k \in 0..Len(graph[d].next)}
    <3> DEFINE t == s[d]
    <3>1. t = [k \in 1..Len(graph[d].next)+1 |-> Do("free", at("node", d, k - 1))]
      BY <2>1
    <3>2. d \in Nat /\ Len(graph[d].next) \in Nat
      BY <1>1
    <3> HIDE DEF t
    <3>3. /\ t \in Seq(Call) /\ Distinct(t)
          /\ Elems(t) = {Do("free", at("node", d, k)) : k \in 0..Len(graph[d].next)}
      BY <3>1, <3>2, ListFrees
    <3> QED
      BY <3>3 DEF t
  <2>3. Freed(NodesOf(graph, d)) = {Do("free", at("node", d, k)) : k \in 0..Len(graph[d].next)}
    BY DEF Freed, NodesOf
  <2> HIDE DEF s
  <2> QED
    BY <2>2, <2>3
<1>3. s \in Seq(Seq(Call)) /\ DOMAIN s = DOMAIN graph
  <2>1. DOMAIN s = DOMAIN graph /\ s \in [1..Len(graph) -> Seq(Call)]
    BY <1>1, <1>2
  <2> HIDE DEF s
  <2> QED
    BY <1>1, <2>1, FunctionIsSeq
<1> HIDE DEF s
<1>4. ASSUME NEW d \in DOMAIN s, NEW e \in DOMAIN s, d # e
      PROVE  Elems(s[d]) \cap Elems(s[e]) = {}
  BY <1>2, <1>3, <1>4, SameCall DEF Freed, NodesOf
<1>5. /\ f \in Seq(Call) /\ Distinct(f)
      /\ Elems(f) = UNION {Elems(s[i]) : i \in DOMAIN s}
  <2>1. \A i \in DOMAIN s : Distinct(s[i])
    BY <1>2, <1>3
  <2> QED
    BY <1>3, <1>4, <2>1, Flattened
<1>6. Elems(f) = Freed(N)
  <2>1. \A d \in DOMAIN s : Elems(s[d]) = Freed(NodesOf(graph, d))
    BY <1>2, <1>3
  <2> QED
    BY <1>3, <1>5, <2>1 DEF Freed
<1>7. /\ r \in Seq(Call) /\ Distinct(r)
      /\ Elems(r) = Freed({at("devices", 0, 0), at("network", 0, 0)})
  <2>1. Do("free", at("devices", 0, 0)) # Do("free", at("network", 0, 0))
    BY SameCall
  <2>2. Do("free", at("devices", 0, 0)) \in Call /\ Do("free", at("network", 0, 0)) \in Call
    BY CallIs DEF Kind
  <2> QED
    BY <2>1, <2>2, TwoCalls DEF Freed
<1>8. Elems(f) \cap Elems(r) = {}
  BY <1>6, <1>7, SameCall DEF Freed, NodesOf
<1>9. free_network_graph = f \o r
  BY DEF free_network_graph, s
<1>10. Freed(N \cup {at("devices", 0, 0), at("network", 0, 0)})
         = Freed(N) \cup Freed({at("devices", 0, 0), at("network", 0, 0)})
  BY DEF Freed
<1> HIDE DEF f, r, N
<1>11. /\ f \o r \in Seq(Call) /\ Distinct(f \o r)
       /\ Elems(f \o r) = Elems(f) \cup Elems(r)
  <2>1. f \in Seq(Call) /\ r \in Seq(Call) /\ Distinct(f) /\ Distinct(r)
    BY <1>5, <1>7
  <2> QED
    BY <2>1, <1>8, Joined
<1>12. Elems(f \o r) = Freed(N \cup {at("devices", 0, 0), at("network", 0, 0)})
  BY <1>6, <1>7, <1>10, <1>11, Zenon
<1> QED
  BY <1>9, <1>11, <1>12 DEF N

(* free_switch_buffers frees the buffers of the switches it counts, save   *)
(* those that are DISCONNECTED.                                            *)
LEMMA BufferFrees ==
    ASSUME NEW l \in Seq({"live", "DISCONNECTED", "revived"}), NEW i \in Nat \ {0}
    PROVE  /\ free_switch_buffers(l, i) \in Seq(Call) /\ Distinct(free_switch_buffers(l, i))
           /\ Elems(free_switch_buffers(l, i))
                = Freed(UNION {Buffers(j) : j \in {k \in i..i+Len(l)-1 :
                                 ~(k \in DOMAIN l /\ l[k] = "DISCONNECTED")}})
<1> DEFINE skipped(j) == j \in DOMAIN l /\ l[j] = "DISCONNECTED"
           both(j) == IF skipped(j) THEN << >>
                      ELSE << Do("free", at("read_buffer", j, 0)),
                              Do("free", at("write_buffer", j, 0)) >>
           s == [j \in 1..Len(l) |-> both(i + j - 1)]
           f == Seqs!FlattenSeq(s)
           K == {k \in i..i+Len(l)-1 : ~skipped(k)}
<1>0. Len(l) \in Nat /\ \A j \in 1..Len(l) : i + j - 1 \in i..i+Len(l)-1 /\ i + j - 1 \in Nat
  BY LenProperties
<1>1. ASSUME NEW j \in Nat
      PROVE  /\ both(j) \in Seq(Call) /\ Distinct(both(j))
             /\ Elems(both(j)) = IF skipped(j) THEN {} ELSE Freed(Buffers(j))
  <2>1. CASE skipped(j)
    <3>1. both(j) = << >>
      BY <2>1
    <3>2. Elems(<< >>) = {} /\ Distinct(<< >>)
      BY DEF Elems, Distinct
    <3>3. << >> \in Seq(Call)
      BY EmptySeq
    <3> QED
      BY <2>1, <3>1, <3>2, <3>3
  <2>2. CASE ~skipped(j)
    <3> DEFINE c == Do("free", at("read_buffer", j, 0))
               d == Do("free", at("write_buffer", j, 0))
    <3>1. c \in Call /\ d \in Call
      BY CallIs DEF Kind
    <3>2. c # d
      BY SameCall
    <3>3. Freed(Buffers(j)) = {c, d}
      BY DEF Freed, Buffers
    <3>4. both(j) = <<c, d>>
      BY <2>2
    <3> HIDE DEF c, d
    <3>5. <<c, d>> \in Seq(Call) /\ Elems(<<c, d>>) = {c, d} /\ Distinct(<<c, d>>)
      BY <3>1, <3>2, TwoCalls
    <3> QED
      BY <2>2, <3>3, <3>4, <3>5, Zenon
  <2> QED
    BY <2>1, <2>2
<1> HIDE DEF both
<1>2. /\ s \in Seq(Seq(Call)) /\ DOMAIN s = 1..Len(l)
      /\ \A j \in 1..Len(l) : s[j] = both(i + j - 1)
  <2>1. s \in [1..Len(l) -> Seq(Call)]
    BY <1>0, <1>1
  <2>2. \A j \in 1..Len(l) : s[j] = both(i + j - 1)
    OBVIOUS
  <2> HIDE DEF s
  <2> QED
    BY <1>0, <2>1, <2>2, FunctionIsSeq
<1> HIDE DEF s
<1>3. ASSUME NEW j \in DOMAIN s
      PROVE  /\ Distinct(s[j])
             /\ Elems(s[j]) = IF skipped(i + j - 1) THEN {} ELSE Freed(Buffers(i + j - 1))
  <2> HIDE DEF skipped
  <2> QED
    BY <1>0, <1>1, <1>2
<1>4. ASSUME NEW j \in DOMAIN s, NEW k \in DOMAIN s, j # k
      PROVE  Elems(s[j]) \cap Elems(s[k]) = {}
  <2>1. i + j - 1 # i + k - 1
    BY <1>2, <1>4
  <2>2. Elems(s[j]) \subseteq Freed(Buffers(i + j - 1)) /\ Elems(s[k]) \subseteq Freed(Buffers(i + k - 1))
    BY <1>3
  <2>3. \A n, m : n # m => Freed(Buffers(n)) \cap Freed(Buffers(m)) = {}
    BY SameCall DEF Freed, Buffers
  <2>4. Freed(Buffers(i + j - 1)) \cap Freed(Buffers(i + k - 1)) = {}
    BY <2>1, <2>3
  <2> QED
    BY <2>2, <2>4
<1>5. /\ f \in Seq(Call) /\ Distinct(f)
      /\ Elems(f) = UNION {Elems(s[j]) : j \in DOMAIN s}
  <2>1. \A j \in DOMAIN s : Distinct(s[j])
    BY <1>3
  <2> QED
    BY <1>2, <1>4, <2>1, Flattened
<1>6. UNION {Elems(s[j]) : j \in DOMAIN s} = UNION {Freed(Buffers(k)) : k \in K}
  <2>1. ASSUME NEW j \in DOMAIN s, NEW x \in Elems(s[j])
        PROVE  x \in UNION {Freed(Buffers(k)) : k \in K}
    <3>1. ~skipped(i + j - 1) /\ x \in Freed(Buffers(i + j - 1))
      BY <1>3, <2>1
    <3>2. i + j - 1 \in K
      BY <1>0, <1>2, <3>1
    <3> QED
      BY <3>1, <3>2
  <2>2. ASSUME NEW k \in K, NEW x \in Freed(Buffers(k))
        PROVE  x \in UNION {Elems(s[j]) : j \in DOMAIN s}
    <3> DEFINE j == k - i + 1
    <3>1. j \in 1..Len(l) /\ i + j - 1 = k
      BY <1>0
    <3>2. ~skipped(k)
      OBVIOUS
    <3> HIDE DEF j, skipped
    <3>3. Elems(s[j]) = Freed(Buffers(k))
      BY <1>2, <1>3, <3>1, <3>2
    <3> QED
      BY <1>2, <2>2, <3>1, <3>3
  <2> QED
    BY <2>1, <2>2
<1>7. UNION {Freed(Buffers(k)) : k \in K} = Freed(UNION {Buffers(k) : k \in K})
  BY DEF Freed
<1>8. free_switch_buffers(l, i) = f
  BY DEF free_switch_buffers, s, both
<1> HIDE DEF f
<1>9. Elems(f) = Freed(UNION {Buffers(k) : k \in K})
  BY <1>5, <1>6, <1>7, Zenon
<1> QED
  BY <1>5, <1>8, <1>9

(* Behind the loop all is freed that there is, but for the abandoned.      *)
LEMMA CleanUp ==
    ASSUME Typed
    PROVE  /\ clean_up \in Seq(Call) /\ Distinct(clean_up)
           /\ Elems(clean_up) \subseteq Freed(Places)
           /\ Freed(Places \ Abandoned) \subseteq Elems(clean_up)
<1> DEFINE N == UNION {NodesOf(graph, d) : d \in DOMAIN graph}
           P == N \cup {at("devices", 0, 0), at("network", 0, 0)}
           Q == UNION {Buffers(j) : j \in {k \in 1..1+Len(list)-1 :
                                 ~(k \in DOMAIN list /\ list[k] = "DISCONNECTED")}}
           r == << Do("free", at("switch_list", 0, 0)) >>
           g == free_network_graph
           b == free_switch_buffers(list, 1)
<1>1. g \in Seq(Call) /\ Distinct(g) /\ Elems(g) = Freed(P)
  BY GraphFrees
<1>2. b \in Seq(Call) /\ Distinct(b) /\ Elems(b) = Freed(Q)
  <2>1. list \in Seq({"live", "DISCONNECTED", "revived"}) /\ 1 \in Nat \ {0}
    BY DEF Typed
  <2> QED
    BY <2>1, BufferFrees
<1>3. /\ r \in Seq(Call) /\ Distinct(r) /\ Elems(r) = Freed({at("switch_list", 0, 0)})
  <2>1. Do("free", at("switch_list", 0, 0)) \in Call
    BY CallIs DEF Kind
  <2> QED
    BY <2>1, OneCall DEF Freed
<1>4. Freed(P) \cap Freed(Q) = {}
  BY SameCall DEF Freed, NodesOf, Buffers
<1>5. (Freed(P) \cup Freed(Q)) \cap Freed({at("switch_list", 0, 0)}) = {}
  BY SameCall DEF Freed, NodesOf, Buffers
<1>6. /\ Q \subseteq UNION {Buffers(i) : i \in DOMAIN list}
      /\ (UNION {Buffers(i) : i \in DOMAIN list}) \ Abandoned \subseteq Q
  <2>1. DOMAIN list = 1..Len(list) /\ 1 + Len(list) - 1 = Len(list)
    BY LenProperties DEF Typed
  <2> QED
    BY <2>1 DEF Abandoned
<1>7. /\ P \cup Q \cup {at("switch_list", 0, 0)} \subseteq Places
      /\ Places \ Abandoned \subseteq P \cup Q \cup {at("switch_list", 0, 0)}
  BY <1>6 DEF Places, Roots
<1>8. Freed(P) \cup Freed(Q) \cup Freed({at("switch_list", 0, 0)})
        = Freed(P \cup Q \cup {at("switch_list", 0, 0)})
  BY DEF Freed
<1> HIDE DEF N, P, Q, r, g, b
<1>9. /\ g \o b \in Seq(Call) /\ Distinct(g \o b) /\ Elems(g \o b) = Elems(g) \cup Elems(b)
  <2>1. Elems(g) \cap Elems(b) = {}
    BY <1>1, <1>2, <1>4
  <2> QED
    BY <1>1, <1>2, <2>1, Joined
<1> DEFINE h == g \o b
<1> HIDE DEF h
<1>10. /\ (g \o b) \o r \in Seq(Call) /\ Distinct((g \o b) \o r)
       /\ Elems((g \o b) \o r) = Elems(g \o b) \cup Elems(r)
  <2>1. Elems(g \o b) \cap Elems(r) = {}
    BY <1>1, <1>2, <1>3, <1>5, <1>9
  <2>2. h \in Seq(Call) /\ Distinct(h) /\ Elems(h) \cap Elems(r) = {}
    BY <1>9, <2>1 DEF h
  <2>3. h \o r \in Seq(Call) /\ Distinct(h \o r) /\ Elems(h \o r) = Elems(h) \cup Elems(r)
    <3>1. r \in Seq(Call) /\ Distinct(r)
      BY <1>3
    <3> QED
      BY <2>2, <3>1, Joined
  <2> QED
    BY <2>3 DEF h
<1>11. clean_up = (g \o b) \o r
  BY DEF clean_up, g, b, r
<1>12. Elems(clean_up) = Freed(P \cup Q \cup {at("switch_list", 0, 0)})
  BY <1>1, <1>2, <1>3, <1>8, <1>9, <1>10, <1>11, Zenon
<1> QED
  BY <1>7, <1>10, <1>11, <1>12 DEF Freed

-----------------------------------------------------------------------------
(* The steps of main.                                                      *)

LEMMA NothingPending == todo = << >> => Pending = {} /\ Elems(todo) = {}
BY DEF Pending, Elems

(* A handler has run, and has left calls for what is new.                  *)
LEMMA Handled ==
    ASSUME MemoryInv, todo = << >>, pc \in {"loop", "select", "overflow"},
           HeapInv', UNCHANGED <<libc, said, ptr, owner>>,
           Typed', Distinct(todo'), pc' \in {"loop", "select", "overflow", "undefined"},
           Places \subseteq Places', Places' \subseteq Places \cup Pending',
           Pending' \subseteq Places' \ Places,
           \A c \in Elems(todo') : c.op = "realloc" => c.place = at("switch_list", 0, 0),
           Calm' => Calm /\ \A c \in Elems(todo') : c.op # "free"
    PROVE  MemoryInv'
<1>1. HeapInv /\ Typed /\ Owned /\ Calls /\ Cleaning /\ Matched
  BY DEF MemoryInv
<1>2. pc \notin Starting \cup Stopped \cup {"free"} /\ pc' \notin {"free", "exit"}
  BY DEF Starting, Stopped
<1>3. DOMAIN ptr = Places
  BY <1>1, <1>2, NothingPending DEF Calls
<1>4. Owned'
  BY <1>1 DEF Owned
<1>5. Calls'
  <2>1. at("switch_list", 0, 0) \in Places
    BY DEF Places, Roots
  <2> QED
    BY <1>3, <2>1 DEF Calls
<1>6. Cleaning'
  BY <1>2 DEF Cleaning
<1>7. Matched'
  <2> SUFFICES ASSUME Calm' PROVE /\ said # "non-malloced"
                                  /\ \A p \in DOMAIN ptr' : Intact(p)'
                                  /\ \A c \in Elems(todo') : c.op # "free"
    BY <1>2 DEF Matched
  <2>1. said # "non-malloced" /\ \A p \in DOMAIN ptr : Intact(p)
    BY <1>1, <1>2 DEF Matched
  <2>2. \A p \in DOMAIN ptr' : Intact(p)'
    BY <1>1, <2>1, IntactIs, IntactIsPrimed
  <2> QED
    BY <2>1, <2>2
<1> QED
  BY <1>4, <1>5, <1>6, <1>7 DEF MemoryInv

(* The heap stays.                                                         *)
LEMMA HeapStays ==
    ASSUME HeapInv, UNCHANGED heapVars
    PROVE  HeapInv' /\ UNCHANGED <<libc, said>>
<1>1. HeapInv'
  BY NextStep
<1> QED
  BY <1>1 DEF heapVars

(* The program goes on without having changed anything.                    *)
LEMMA Passed ==
    ASSUME MemoryInv, todo = << >>, pc \in {"loop", "select", "overflow"},
           UNCHANGED <<libc, said, ptr, owner, list, graph, todo>>, HeapInv',
           pc' = "undefined" \/ (pc \in Serving /\ pc' \in {"loop", "select"})
    PROVE  MemoryInv'
<1>1. Typed /\ Calls
  BY DEF MemoryInv
<1>2. Places' = Places /\ (Calm' <=> Calm) /\ Pending' = {} /\ Elems(todo') = {}
  BY NothingPending DEF Places, Calm, Pending
<1>3. Typed'
  BY <1>1 DEF Typed, Serving, Starting, Stopped
<1>4. Distinct(todo')
  BY <1>1 DEF Calls
<1>5. pc' \in {"loop", "select", "overflow", "undefined"}
  OBVIOUS
<1> QED
  BY <1>2, <1>3, <1>4, <1>5, Handled

(* The test of interrupt, with the clean-up behind the loop.               *)
LEMMA LoopInv ==
    ASSUME MemoryInv, Loop
    PROVE  MemoryInv'
<1>1. /\ pc = "loop" /\ todo = << >>
      /\ UNCHANGED <<libc, said, ptr, owner, list, graph>> /\ HeapInv'
      /\ \/ pc' \in {"select", "undefined"} /\ UNCHANGED todo
         \/ pc' = "free" /\ todo' = clean_up
  <2>1. UNCHANGED heapVars
    BY DEF Loop
  <2>2. HeapInv
    BY DEF MemoryInv
  <2> QED
    BY <2>1, <2>2, HeapStays DEF Loop, Goto
<1>2. HeapInv /\ Typed /\ Owned /\ Calls /\ Cleaning /\ Matched
  BY DEF MemoryInv
<1>3. CASE pc' \in {"select", "undefined"} /\ UNCHANGED todo
  BY <1>1, <1>3, Passed DEF Serving
<1>4. CASE pc' = "free" /\ todo' = clean_up
  <2>1. /\ todo' \in Seq(Call) /\ Distinct(todo')
        /\ Elems(todo') \subseteq Freed(Places)
        /\ Freed(Places \ Abandoned) \subseteq Elems(todo')
    BY <1>2, <1>4, CleanUp
  <2>2. \A c \in Elems(todo') : c.op = "free" /\ c.place \in Places
    BY <2>1 DEF Freed, Do
  <2>3. Places' = Places /\ (Calm' <=> Calm) /\ Abandoned' = Abandoned
    BY <1>1 DEF Places, Calm, Abandoned
  <2>4. pc \notin Starting \cup Stopped \cup {"free"}
    BY <1>1 DEF Starting, Stopped
  <2>5. DOMAIN ptr = Places
    BY <1>1, <1>2, <2>4, NothingPending DEF Calls
  <2>6. Pending' = {}
    BY <2>2 DEF Pending
  <2>7. Typed'
    BY <1>1, <1>2, <1>4, <2>1 DEF Typed, Serving, Starting, Stopped
  <2>8. Owned'
    BY <1>1, <1>2 DEF Owned
  <2>9. Calls'
    BY <1>1, <2>1, <2>2, <2>3, <2>5, <2>6 DEF Calls
  <2>10. Cleaning'
    <3>1. ASSUME NEW a \in libc, owner[a] \notin Abandoned PROVE Do("free", owner[a]) \in Elems(todo')
      <4>1. owner[a] \in Places \ Abandoned
        BY <1>2, <2>5, <3>1 DEF Owned
      <4> QED
        BY <2>1, <4>1 DEF Freed
    <3> QED
      BY <1>1, <1>4, <2>2, <2>3, <3>1 DEF Cleaning
  <2>11. Matched'
    <3> SUFFICES ASSUME Calm PROVE said # "non-malloced" /\ \A c \in Elems(todo') : Intact(c.place)'
      BY <1>1, <1>4, <2>3 DEF Matched
    <3>1. said # "non-malloced" /\ \A p \in DOMAIN ptr : Intact(p)
      BY <1>2, <2>4 DEF Matched
    <3>2. \A p \in DOMAIN ptr : Intact(p)'
      BY <1>1, <1>2, <3>1, IntactIs, IntactIsPrimed
    <3> QED
      BY <2>2, <2>5, <3>1, <3>2
  <2> QED
    BY <1>1, <2>7, <2>8, <2>9, <2>10, <2>11 DEF MemoryInv
<1> QED
  BY <1>1, <1>3, <1>4

(* The search for a NULL in a full array.                                  *)
LEMMA OverflowInv ==
    ASSUME MemoryInv, Overflow
    PROVE  MemoryInv'
<1>1. HeapInv /\ UNCHANGED heapVars /\ pc = "overflow" /\ todo = << >> /\ pc' = "undefined"
      /\ UNCHANGED <<ptr, owner, list, graph, todo>>
  BY DEF MemoryInv, Overflow, Goto
<1>2. HeapInv' /\ UNCHANGED <<libc, said>>
  BY <1>1, HeapStays
<1> QED
  BY <1>1, <1>2, Passed

(* A write into the margin is one of the allocator's steps.                *)
LEMMA LongMessageInv ==
    ASSUME MemoryInv, NEW i \in DOMAIN list, LongMessage(i)
    PROVE  MemoryInv' /\ [HeapNext]_heapVars
<1> DEFINE x == Deref(at("read_buffer", i, 0))
<1>1. write_past(x) /\ pc = "select" /\ pc' = "loop" /\ todo = << >>
      /\ UNCHANGED <<ptr, owner, list, graph, todo>>
  BY DEF LongMessage, Goto
<1>2. HeapInv /\ UNCHANGED <<libc, said>> /\ x \in libc
  BY <1>1 DEF MemoryInv, write_past
<1>3. x \in Address
  BY <1>2 DEF HeapInv, HeapTypeOK
<1>4. [HeapNext]_heapVars
  BY <1>1, <1>3 DEF HeapNext
<1>5. HeapInv'
  BY <1>2, <1>4, NextStep
<1>6. MemoryInv'
  BY <1>1, <1>2, <1>5, Passed DEF Serving
<1> QED
  BY <1>4, <1>6

(* End leaves nothing but the abandoned.                                   *)
LEMMA EndInv ==
    ASSUME MemoryInv, End
    PROVE  MemoryInv'
<1>1. HeapInv /\ UNCHANGED heapVars /\ pc = "free" /\ todo = << >> /\ pc' = "exit"
      /\ UNCHANGED <<ptr, owner, list, graph, todo>>
  BY DEF MemoryInv, End, Goto
<1>2. HeapInv' /\ UNCHANGED <<libc, said>>
  BY <1>1, HeapStays
<1>3. Typed /\ Owned /\ Calls /\ Cleaning /\ Matched
  BY DEF MemoryInv
<1>4. /\ Places' = Places /\ (Calm' <=> Calm) /\ Abandoned' = Abandoned
      /\ Pending = {} /\ Pending' = {} /\ Elems(todo) = {}
  BY <1>1, NothingPending DEF Places, Calm, Abandoned, Pending
<1>5. Typed'
  BY <1>1, <1>3 DEF Typed, Serving, Starting, Stopped
<1>6. Owned'
  BY <1>1, <1>2, <1>3 DEF Owned
<1>7. Calls'
  <2>1. pc \notin Starting \cup Stopped
    BY <1>1 DEF Starting, Stopped
  <2> QED
    BY <1>1, <1>3, <1>4, <2>1 DEF Calls
<1>8. Cleaning'
  BY <1>1, <1>2, <1>3, <1>4 DEF Cleaning
<1>9. Matched'
  BY <1>1, <1>2, <1>3, <1>4 DEF Matched, Stopped
<1> QED
  BY <1>2, <1>5, <1>6, <1>7, <1>8, <1>9 DEF MemoryInv

(* SIGINT, whatever the program is at.                                     *)
LEMMA SigintInv ==
    ASSUME MemoryInv, Sigint
    PROVE  MemoryInv'
<1>1. HeapInv /\ UNCHANGED heapVars /\ UNCHANGED <<ptr, owner, list, graph, todo>>
      /\ (pc' = pc \/ (pc = "select" /\ pc' = "loop"))
  BY DEF MemoryInv, Sigint
<1>2. HeapInv' /\ UNCHANGED <<libc, said>>
  BY <1>1, HeapStays
<1>3. Typed /\ Owned /\ Calls /\ Cleaning /\ Matched
  BY DEF MemoryInv
<1>4. /\ Places' = Places /\ (Calm' <=> Calm) /\ Abandoned' = Abandoned /\ Pending' = Pending
      /\ \A p : Intact(p)' <=> Intact(p)
  BY <1>1, <1>2 DEF Places, Calm, Abandoned, Pending, Intact, Deref
<1>5. Typed'
  BY <1>1, <1>3 DEF Typed, Serving, Starting, Stopped
<1>6. Owned'
  BY <1>1, <1>2, <1>3 DEF Owned
<1>7. Calls'
  BY <1>1, <1>3, <1>4 DEF Calls, Starting, Stopped
<1>8. Cleaning'
  BY <1>1, <1>2, <1>3, <1>4 DEF Cleaning
<1>9. Matched'
  BY <1>1, <1>2, <1>3, <1>4 DEF Matched, Stopped
<1> QED
  BY <1>2, <1>5, <1>6, <1>7, <1>8, <1>9 DEF MemoryInv

(* setup_new_switch: the new switch stands behind the others.              *)
LEMMA Joins ==
    ASSUME Typed, NEW i, i = Len(list) + 1, list' = Append(list, "live")
    PROVE  /\ i \in Nat /\ i \notin DOMAIN list
           /\ list' \in Seq({"live", "DISCONNECTED", "revived"}) /\ Len(list') = i
           /\ DOMAIN list' = DOMAIN list \cup {i}
           /\ Calm' => Calm
<1>1. list \in Seq({"live", "DISCONNECTED", "revived"}) /\ Len(list) \in Nat /\ DOMAIN list = 1..Len(list)
  BY LenProperties DEF Typed
<1>2. /\ list' \in Seq({"live", "DISCONNECTED", "revived"}) /\ Len(list') = i
      /\ \A j \in 1..Len(list) : list'[j] = list[j]
  BY <1>1
<1>3. DOMAIN list' = 1..i
  BY <1>1, <1>2
<1>4. i \in Nat /\ i \notin DOMAIN list /\ DOMAIN list' = DOMAIN list \cup {i}
  BY <1>1, <1>3
<1>5. Calm' => Calm
  BY <1>1, <1>2, <1>4 DEF Calm
<1> QED
  BY <1>2, <1>4, <1>5

(* It gets an empty list of its own in the graph.                          *)
LEMMA JoinsGraph ==
    ASSUME Typed, Len(graph) = Len(list), NEW i, i = Len(list) + 1, graph' = join(graph, i)
    PROVE  /\ graph' \in Seq(Device) /\ Len(graph') = i /\ i \notin DOMAIN graph
           /\ DOMAIN graph' = DOMAIN graph \cup {i}
           /\ \A d \in DOMAIN graph' : graph'[d].device_num = d
           /\ \A d \in DOMAIN graph : graph'[d] = graph[d]
           /\ NodesOf(graph', i) = {at("node", i, 0)}
<1>1. /\ graph \in Seq(Device) /\ Len(graph) \in Nat /\ DOMAIN graph = 1..Len(graph)
      /\ \A d \in DOMAIN graph : graph[d].device_num = d
  BY LenProperties DEF Typed
<1>2. Head0(i) \in Device
  <2>1. i \in Nat
    BY <1>1
  <2>2. << >> \in Seq([device_num : Nat, port_num : Nat])
    BY EmptySeq
  <2> QED
    BY <2>1, <2>2 DEF Head0, Device
<1>3. graph' = Append(graph, Head0(i))
  BY DEF join
<1>4. /\ graph' \in Seq(Device) /\ Len(graph') = i /\ graph'[i] = Head0(i)
      /\ \A d \in 1..Len(graph) : graph'[d] = graph[d]
  BY <1>1, <1>2, <1>3
<1>5. DOMAIN graph' = 1..i /\ i \notin DOMAIN graph /\ DOMAIN graph' = DOMAIN graph \cup {i}
  <2>1. i = Len(graph) + 1
    OBVIOUS
  <2>2. DOMAIN graph' = 1..i
    BY <1>4, LenProperties
  <2>3. i \notin 1..Len(graph) /\ 1..i = 1..Len(graph) \cup {i}
    BY <1>1, <2>1
  <2> QED
    BY <1>1, <2>2, <2>3
<1>6. \A d \in DOMAIN graph' : graph'[d].device_num = d
  BY <1>1, <1>4, <1>5 DEF Head0
<1>7. NodesOf(graph', i) = {at("node", i, 0)}
  <2>1. graph'[i].next = << >>
    BY <1>4 DEF Head0
  <2>2. Len(graph'[i].next) = 0
    BY <2>1
  <2> QED
    BY <2>2 DEF NodesOf
<1> QED
  BY <1>1, <1>4, <1>5, <1>6, <1>7

(* Three calls one after the other.                                        *)
LEMMA ThreeCalls ==
    ASSUME NEW c \in Call, NEW d \in Call, NEW e \in Call, c # d, c # e, d # e
    PROVE  /\ <<c, d>> \o <<e>> \in Seq(Call) /\ Distinct(<<c, d>> \o <<e>>)
           /\ Elems(<<c, d>> \o <<e>>) = {c, d, e}
           /\ <<e>> \o <<c, d>> \in Seq(Call) /\ Distinct(<<e>> \o <<c, d>>)
           /\ Elems(<<e>> \o <<c, d>>) = {c, d, e}
<1> DEFINE s == <<c, d>>
           t == <<e>>
<1>1. s \in Seq(Call) /\ Elems(s) = {c, d} /\ Distinct(s)
  BY TwoCalls
<1>2. t \in Seq(Call) /\ Elems(t) = {e} /\ Distinct(t)
  BY OneCall
<1>3. Elems(s) \cap Elems(t) = {} /\ Elems(t) \cap Elems(s) = {}
  BY <1>1, <1>2
<1> HIDE DEF s, t
<1>4. s \o t \in Seq(Call) /\ Distinct(s \o t) /\ Elems(s \o t) = Elems(s) \cup Elems(t)
  BY <1>1, <1>2, <1>3, Joined
<1>5. t \o s \in Seq(Call) /\ Distinct(t \o s) /\ Elems(t \o s) = Elems(t) \cup Elems(s)
  BY <1>1, <1>2, <1>3, Joined
<1>6. /\ s \o t \in Seq(Call) /\ Distinct(s \o t) /\ Elems(s \o t) = {c, d, e}
      /\ t \o s \in Seq(Call) /\ Distinct(t \o s) /\ Elems(t \o s) = {c, d, e}
  BY <1>1, <1>2, <1>4, <1>5
<1> QED
  BY <1>6 DEF s, t

(* setup_new_switch: buffers and the head of a list for the new switch.    *)
LEMMA AcceptInv ==
    ASSUME MemoryInv, Accept
    PROVE  MemoryInv'
<1> DEFINE i == Len(list) + 1
           full == Len(list) >= Room
           b1 == Do("calloc", at("read_buffer", i, 0))
           b2 == Do("calloc", at("write_buffer", i, 0))
           n == Do("calloc", at("node", i, 0))
           r == Do("realloc", at("switch_list", 0, 0))
<1>1. /\ HeapInv /\ Typed /\ UNCHANGED heapVars /\ UNCHANGED <<ptr, owner>>
      /\ pc = "select" /\ todo = << >> /\ list' = Append(list, "live")
      /\ \/ /\ full /\ pc' = "overflow" /\ graph' = graph
            /\ todo' = <<r>> \o <<b1, b2>>
         \/ /\ ~full /\ pc' = "loop" /\ graph' = join(graph, i)
            /\ todo' = <<b1, b2>> \o <<n>>
  BY DEF MemoryInv, Accept, Goto
<1>2. HeapInv' /\ UNCHANGED <<libc, said>>
  BY <1>1, HeapStays
<1>3. /\ i \in Nat /\ i \notin DOMAIN list
      /\ list' \in Seq({"live", "DISCONNECTED", "revived"}) /\ Len(list') = i
      /\ DOMAIN list' = DOMAIN list \cup {i}
      /\ Calm' => Calm
  BY <1>1, Joins
<1>4. /\ Len(graph) = Len(list) /\ Len(list) <= Room /\ Len(list) \in Nat
      /\ DOMAIN graph = 1..Len(graph)
  BY <1>1, LenProperties DEF Typed, Serving
<1>5. /\ b1 \in Call /\ b2 \in Call /\ n \in Call /\ r \in Call
      /\ b1 # b2 /\ b1 # n /\ b2 # n /\ b1 # r /\ b2 # r
  BY <1>3, CallIs, SameCall DEF Kind
<1>6. Room \in Nat \ {0}
  BY LifetimeAssumption
<1> DEFINE B == UNION {Buffers(j) : j \in DOMAIN list}
           N == UNION {NodesOf(graph, d) : d \in DOMAIN graph}
           B2 == UNION {Buffers(j) : j \in DOMAIN list'}
           N2 == UNION {NodesOf(graph', d) : d \in DOMAIN graph'}
<1>7. Places = (Roots \cup B) \cup N /\ Places' = (Roots \cup B2) \cup N2
  BY DEF Places
<1>8. B2 = B \cup Buffers(i)
  BY <1>3
<1>9. Buffers(i) \cap Places = {}
  BY <1>3 DEF Places, Buffers, NodesOf, Roots, at
<1>10. CASE full /\ pc' = "overflow" /\ graph' = graph /\ todo' = <<r>> \o <<b1, b2>>
  <2>1. todo' \in Seq(Call) /\ Distinct(todo') /\ Elems(todo') = {b1, b2, r}
    BY <1>5, <1>10, ThreeCalls
  <2>2. /\ b1.op = "calloc" /\ b1.place = at("read_buffer", i, 0)
        /\ b2.op = "calloc" /\ b2.place = at("write_buffer", i, 0)
        /\ r.op = "realloc" /\ r.place = at("switch_list", 0, 0)
    BY DEF Do
  <2> HIDE DEF i, b1, b2, r, n
  <2>3. Pending' = Buffers(i)
    BY <2>1, <2>2 DEF Pending, Buffers
  <2>4. Places' = Places \cup Buffers(i)
    BY <1>7, <1>8, <1>10
  <2>5. Typed'
    <3>1. Len(list') = Len(list) + 1 /\ Len(list') <= Room + 1 /\ Len(graph') = Len(list') - 1
      BY <1>3, <1>4, <1>6, <1>10 DEF i
    <3> QED
      BY <1>1, <1>3, <1>10, <2>1, <3>1 DEF Typed, Starting, Serving, Stopped
  <2>6. \A c \in Elems(todo') : /\ c.op = "realloc" => c.place = at("switch_list", 0, 0)
                                /\ c.op # "free"
    BY <2>1, <2>2
  <2> QED
    BY <1>1, <1>2, <1>3, <1>9, <1>10, <2>1, <2>3, <2>4, <2>5, <2>6, Handled
<1>11. CASE ~full /\ pc' = "loop" /\ graph' = join(graph, i) /\ todo' = <<b1, b2>> \o <<n>>
  <2>1. todo' \in Seq(Call) /\ Distinct(todo') /\ Elems(todo') = {b1, b2, n}
    BY <1>5, <1>11, ThreeCalls
  <2>2. /\ b1.op = "calloc" /\ b1.place = at("read_buffer", i, 0)
        /\ b2.op = "calloc" /\ b2.place = at("write_buffer", i, 0)
        /\ n.op = "calloc" /\ n.place = at("node", i, 0)
    BY DEF Do
  <2>3. /\ graph' \in Seq(Device) /\ Len(graph') = i /\ i \notin DOMAIN graph
        /\ DOMAIN graph' = DOMAIN graph \cup {i}
        /\ \A d \in DOMAIN graph' : graph'[d].device_num = d
        /\ \A d \in DOMAIN graph : graph'[d] = graph[d]
        /\ NodesOf(graph', i) = {at("node", i, 0)}
    BY <1>1, <1>4, <1>11, JoinsGraph
  <2>4. Typed'
    <3>1. Len(list') = Len(list) + 1 /\ Len(list') <= Room /\ Len(graph') = Len(list')
      BY <1>3, <1>4, <1>6, <1>11, <2>3
    <3>2. Len(list') <= Room + 1
      BY <1>3, <1>6, <3>1
    <3> QED
      BY <1>1, <1>3, <1>11, <2>1, <2>3, <3>1, <3>2 DEF Typed, Starting, Serving, Stopped
  <2> HIDE DEF i, b1, b2, r, n
  <2>5. Pending' = Buffers(i) \cup {at("node", i, 0)}
    BY <2>1, <2>2 DEF Pending, Buffers
  <2>6. \A d \in DOMAIN graph : NodesOf(graph', d) = NodesOf(graph, d)
    BY <2>3 DEF NodesOf
  <2>7. N2 = N \cup {at("node", i, 0)}
    BY <2>3, <2>6
  <2>8. Places' = Places \cup Pending'
    BY <1>7, <1>8, <2>5, <2>7
  <2>9. at("node", i, 0) \notin Places
    BY <2>3 DEF Places, Buffers, NodesOf, Roots, at
  <2>10. \A c \in Elems(todo') : c.op # "realloc" /\ c.op # "free"
    BY <2>1, <2>2
  <2>11. Pending' \subseteq Places' \ Places
    BY <1>9, <2>5, <2>8, <2>9
  <2> QED
    BY <1>1, <1>2, <1>3, <1>11, <2>1, <2>4, <2>8, <2>10, <2>11, Handled
<1> QED
  BY <1>1, <1>10, <1>11

(* add_connection: every list stays or is one longer.                      *)
LEMMA Connects ==
    ASSUME Typed, NEW i \in Nat, NEW j \in Nat, NEW g, g = connect(graph, i, j, 0, 0)
    PROVE  /\ g \in Seq(Device) /\ Len(g) = Len(graph) /\ DOMAIN g = DOMAIN graph
           /\ \A d \in DOMAIN graph :
                /\ g[d].device_num = d
                /\ Len(g[d].next) \in {Len(graph[d].next), Len(graph[d].next) + 1}
<1> DEFINE L == [device_num : Nat, port_num : Nat]
           duplicate(d) == \E k \in DOMAIN graph[d].next : graph[d].next[k].device_num \in {i, j}
           same(d) == graph[d].device_num \notin {i, j} \/ duplicate(d)
           new(d) == IF graph[d].device_num = i THEN Link(j, 0) ELSE Link(i, 0)
<1>1. /\ graph \in Seq(Device) /\ Len(graph) \in Nat /\ DOMAIN graph = 1..Len(graph)
      /\ \A d \in DOMAIN graph : graph[d].device_num = d /\ graph[d] \in Device
  BY LenProperties DEF Typed
<1>2. Link(i, 0) \in L /\ Link(j, 0) \in L
  <2>1. 0 % 256 \in Nat
    OBVIOUS
  <2> QED
    BY <2>1 DEF Link
<1>3. g = [d \in DOMAIN graph |-> IF same(d) THEN graph[d]
                                  ELSE [graph[d] EXCEPT !.next = Append(@, new(d))]]
  BY DEF connect
<1>4. ASSUME NEW d \in DOMAIN graph
      PROVE  /\ g[d] \in Device /\ g[d].device_num = d
             /\ Len(g[d].next) \in {Len(graph[d].next), Len(graph[d].next) + 1}
  <2>1. graph[d] \in Device /\ graph[d].next \in Seq(L) /\ graph[d].device_num = d
    BY <1>1 DEF Device
  <2>2. new(d) \in L
    BY <1>2
  <2> HIDE DEF new, same, L
  <2>3. Append(graph[d].next, new(d)) \in Seq(L)
        /\ Len(Append(graph[d].next, new(d))) = Len(graph[d].next) + 1
    BY <2>1, <2>2
  <2>4. CASE same(d)
    BY <1>3, <2>1, <2>4
  <2>5. CASE ~same(d)
    <3>1. g[d] = [graph[d] EXCEPT !.next = Append(graph[d].next, new(d))]
      BY <1>3, <2>5
    <3>2. g[d] \in Device /\ g[d].next = Append(graph[d].next, new(d)) /\ g[d].device_num = d
      BY <2>1, <2>3, <3>1 DEF Device, L
    <3> QED
      BY <2>3, <3>2
  <2> QED
    BY <2>4, <2>5
<1>5. DOMAIN g = DOMAIN graph
  BY <1>3
<1> HIDE DEF same, new
<1>6. g \in [1..Len(graph) -> Device]
  BY <1>1, <1>3, <1>4
<1>7. g \in Seq(Device) /\ Len(g) = Len(graph)
  BY <1>1, <1>6, FunctionIsSeq
<1> QED
  BY <1>4, <1>5, <1>7

(* At most one call for each.                                              *)
LEMMA FlattenedCalls ==
    ASSUME NEW n \in Nat, NEW X \in SUBSET (1..n), NEW c \in [1..n -> Call],
           \A d, e \in 1..n : c[d] = c[e] => d = e,
           NEW s, s = [d \in 1..n |-> IF d \in X THEN <<c[d]>> ELSE << >>]
    PROVE  LET f == Seqs!FlattenSeq(s)
           IN  f \in Seq(Call) /\ Distinct(f) /\ Elems(f) = {c[d] : d \in X}
<1> DEFINE f == Seqs!FlattenSeq(s)
<1>1. ASSUME NEW d \in 1..n
      PROVE  /\ s[d] \in Seq(Call) /\ Distinct(s[d])
             /\ Elems(s[d]) = IF d \in X THEN {c[d]} ELSE {}
  <2>1. CASE d \in X
    <3>1. c[d] \in Call /\ s[d] = <<c[d]>>
      BY <2>1
    <3>2. <<c[d]>> \in Seq(Call) /\ Elems(<<c[d]>>) = {c[d]} /\ Distinct(<<c[d]>>)
      BY <3>1, OneCall
    <3> QED
      BY <2>1, <3>1, <3>2
  <2>2. CASE d \notin X
    <3>1. s[d] = << >>
      BY <2>2
    <3>2. << >> \in Seq(Call) /\ Distinct(<< >>) /\ Elems(<< >>) = {}
      BY EmptySeq DEF Elems, Distinct
    <3> QED
      BY <2>2, <3>1, <3>2
  <2> QED
    BY <2>1, <2>2
<1>2. s \in [1..n -> Seq(Call)]
  BY <1>1
<1>3. s \in Seq(Seq(Call)) /\ DOMAIN s = 1..n
  BY <1>2, FunctionIsSeq
<1>4. s \in Seq(Seq(Call))
  BY <1>3
<1>5. \A d \in DOMAIN s : Distinct(s[d])
  BY <1>1, <1>3
<1>6. \A d, e \in DOMAIN s : d # e => Elems(s[d]) \cap Elems(s[e]) = {}
  <2> SUFFICES ASSUME NEW d \in 1..n, NEW e \in 1..n, d # e
               PROVE  Elems(s[d]) \cap Elems(s[e]) = {}
    BY <1>3
  <2>1. c[d] # c[e]
    OBVIOUS
  <2>2. Elems(s[d]) = IF d \in X THEN {c[d]} ELSE {}
    BY <1>1
  <2>3. Elems(s[e]) = IF e \in X THEN {c[e]} ELSE {}
    BY <1>1
  <2> QED
    BY <2>1, <2>2, <2>3
<1>7. f \in Seq(Call) /\ Elems(f) = UNION {Elems(s[d]) : d \in DOMAIN s} /\ Distinct(f)
  <2>1. ASSUME NEW t \in Seq(Seq(Call)), \A d \in DOMAIN t : Distinct(t[d]),
               \A d, e \in DOMAIN t : d # e => Elems(t[d]) \cap Elems(t[e]) = {}
        PROVE  LET h == Seqs!FlattenSeq(t)
               IN  h \in Seq(Call) /\ Elems(h) = UNION {Elems(t[d]) : d \in DOMAIN t} /\ Distinct(h)
    <3> DEFINE h == Seqs!FlattenSeq(t)
    <3> HIDE DEF h
    <3>1. h = Seqs!FlattenSeq(t)
      BY DEF h
    <3>2. h \in Seq(Call) /\ Elems(h) = UNION {Elems(t[d]) : d \in DOMAIN t} /\ Distinct(h)
      BY <2>1, <3>1, Flattened
    <3> QED
      BY <3>2 DEF h
  <2> QED
    BY <1>4, <1>5, <1>6, <2>1, Zenon
<1>8. UNION {Elems(s[d]) : d \in DOMAIN s} = {c[d] : d \in X}
  <2>1. ASSUME NEW d \in DOMAIN s, NEW y \in Elems(s[d]) PROVE y \in {c[e] : e \in X}
    <3>1. Elems(s[d]) = IF d \in X THEN {c[d]} ELSE {}
      BY <1>1, <1>3
    <3> QED
      BY <2>1, <3>1
  <2>2. ASSUME NEW d \in X PROVE d \in DOMAIN s /\ c[d] \in Elems(s[d])
    <3>1. d \in 1..n
      OBVIOUS
    <3>2. Elems(s[d]) = IF d \in X THEN {c[d]} ELSE {}
      BY <1>1, <3>1
    <3> QED
      BY <1>3, <3>1, <3>2
  <2> DEFINE U == UNION {Elems(s[d]) : d \in DOMAIN s}
             C == {c[d] : d \in X}
  <2>3. ASSUME NEW y \in U PROVE y \in C
    <3>1. PICK d \in DOMAIN s : y \in Elems(s[d])
      BY Zenon
    <3> QED
      BY <2>1, <3>1, Zenon
  <2>4. ASSUME NEW y \in C PROVE y \in U
    <3>1. PICK d \in X : y = c[d]
      BY Zenon
    <3>2. d \in DOMAIN s /\ y \in Elems(s[d])
      BY <2>2, <3>1
    <3> QED
      BY <3>2, Zenon
  <2> HIDE DEF U, C
  <2>5. U = C
    BY <2>3, <2>4, Zenon
  <2> QED
    BY <2>5 DEF U, C
<1> QED
  BY <1>7, <1>8, Zenon

(* What a list needs for an element more.                                  *)
LEMMA DiscoverCalls ==
    ASSUME Typed, NEW g, DOMAIN g = DOMAIN graph,
           \A d \in DOMAIN graph :
             Len(g[d].next) \in {Len(graph[d].next), Len(graph[d].next) + 1},
           NEW s, s = [d \in DOMAIN graph |->
                         IF Len(g[d].next) = Len(graph[d].next) THEN << >>
                         ELSE << Do("calloc", at("node", d, Len(g[d].next))) >>],
           NEW f, f = Seqs!FlattenSeq(s)
    PROVE  /\ f \in Seq(Call) /\ Distinct(f)
           /\ Elems(f) = {Do("calloc", at("node", d, Len(g[d].next))) :
                            d \in {e \in DOMAIN graph : Len(g[e].next) # Len(graph[e].next)}}
<1> DEFINE n == Len(graph)
           c == [d \in 1..n |-> Do("calloc", at("node", d, Len(g[d].next)))]
           X == {e \in DOMAIN graph : Len(g[e].next) # Len(graph[e].next)}
<1>1. /\ n \in Nat /\ DOMAIN graph = 1..n
      /\ \A d \in DOMAIN graph : d \in Nat /\ Len(graph[d].next) \in Nat
  BY LenProperties DEF Typed, Device
<1>2. \A d \in 1..n : d \in Nat /\ Len(g[d].next) \in Nat
  BY <1>1
<1>3. \A d \in 1..n : c[d] = Do("calloc", at("node", d, Len(g[d].next))) /\ c[d] \in Call
  BY <1>2, CallIs DEF Kind
<1>4. c \in [1..n -> Call]
  BY <1>3
<1>5. \A d, e \in 1..n : c[d] = c[e] => d = e
  BY <1>3, SameCall
<1>6. X \in SUBSET (1..n)
  BY <1>1
<1>7. s = [d \in 1..n |-> IF d \in X THEN <<c[d]>> ELSE << >>]
  BY <1>1
<1> HIDE DEF n, c, X
<1>8. f \in Seq(Call) /\ Distinct(f) /\ Elems(f) = {c[d] : d \in X}
  <2>1. LET h == Seqs!FlattenSeq(s)
        IN  h \in Seq(Call) /\ Distinct(h) /\ Elems(h) = {c[d] : d \in X}
    <3>1. n \in Nat
      BY <1>1
    <3>2. \A t : t = [d \in 1..n |-> IF d \in X THEN <<c[d]>> ELSE << >>]
             => LET h == Seqs!FlattenSeq(t)
                IN  h \in Seq(Call) /\ Distinct(h) /\ Elems(h) = {c[d] : d \in X}
      BY <1>4, <1>5, <1>6, <3>1, FlattenedCalls, Zenon
    <3> QED
      BY <1>7, <3>2, Zenon
  <2> QED
    BY <2>1, Zenon
<1>9. \A d \in X : c[d] = Do("calloc", at("node", d, Len(g[d].next)))
  BY <1>3, <1>6
<1>10. {c[d] : d \in X} = {Do("calloc", at("node", d, Len(g[d].next))) : d \in X}
  BY <1>9
<1> QED
  BY <1>8, <1>10 DEF X

(* The switch that gets the PORT_MOD, if it was given up, is written to    *)
(* again; no other one changes.                                            *)
LEMMA Revives ==
    ASSUME Typed, NEW d, list' = change_port_behavior(list, d)
    PROVE  /\ list' \in Seq({"live", "DISCONNECTED", "revived"})
           /\ Len(list') = Len(list) /\ DOMAIN list' = DOMAIN list
           /\ Calm' => Calm
<1> DEFINE Status == {"live", "DISCONNECTED", "revived"}
           n == Len(list)
<1>1. list \in Seq(Status) /\ n \in Nat /\ DOMAIN list = 1..n
  BY LenProperties DEF Typed
<1>2. \A k \in 1..n : list[k] \in Status
  BY <1>1
<1>3. list' = [k \in 1..n |-> IF k = d /\ list[k] = "DISCONNECTED" THEN "revived"
                                                                  ELSE list[k]]
  BY <1>1 DEF change_port_behavior
<1>4. list' \in [1..n -> Status]
  BY <1>2, <1>3
<1>5. list' \in Seq(Status) /\ Len(list') = n /\ DOMAIN list' = 1..n
  BY <1>1, <1>4, IsASeq, LenProperties
<1>6. Calm' => Calm
  BY <1>1, <1>3, <1>5 DEF Calm
<1> QED
  BY <1>1, <1>5, <1>6

(* add_connection: a node for every list that has grown.                   *)
LEMMA DiscoverInv ==
    ASSUME MemoryInv, NEW i \in DOMAIN list, NEW j \in DOMAIN list, Discover(i, j)
    PROVE  MemoryInv'
<1> DEFINE g == connect(graph, i, j, 0, 0)
           s == [d \in DOMAIN graph |->
                   IF Len(g[d].next) = Len(graph[d].next) THEN << >>
                   ELSE << Do("calloc", at("node", d, Len(g[d].next))) >>]
           f == Seqs!FlattenSeq(s)
           X == {d \in DOMAIN graph : Len(g[d].next) # Len(graph[d].next)}
           c(d) == Do("calloc", at("node", d, Len(g[d].next)))
<1>1. /\ HeapInv /\ Typed /\ UNCHANGED heapVars /\ UNCHANGED <<ptr, owner>>
      /\ pc = "select" /\ todo = << >>
      /\ \/ pc' = "undefined" /\ UNCHANGED <<graph, list, todo>>
         \/ /\ pc' = "loop" /\ graph' = g /\ todo' = f
            /\ list' = change_port_behavior(list, loop_exists(g))
  BY DEF MemoryInv, Discover, Goto
<1>2. HeapInv' /\ UNCHANGED <<libc, said>>
  BY <1>1, HeapStays
<1>3. CASE pc' = "undefined" /\ UNCHANGED <<graph, list, todo>>
  BY <1>1, <1>2, <1>3, Passed
<1>4. CASE /\ pc' = "loop" /\ graph' = g /\ todo' = f
           /\ list' = change_port_behavior(list, loop_exists(g))
  <2>0. /\ list' \in Seq({"live", "DISCONNECTED", "revived"})
        /\ Len(list') = Len(list) /\ DOMAIN list' = DOMAIN list
        /\ Calm' => Calm
    BY <1>1, <1>4, Revives
  <2>1. i \in Nat /\ j \in Nat
    BY <1>1, LenProperties DEF Typed
  <2>2. /\ g \in Seq(Device) /\ Len(g) = Len(graph) /\ DOMAIN g = DOMAIN graph
        /\ \A d \in DOMAIN graph :
             /\ g[d].device_num = d
             /\ Len(g[d].next) \in {Len(graph[d].next), Len(graph[d].next) + 1}
    BY <1>1, <2>1, Connects
  <2>3. \A d \in DOMAIN graph : Len(graph[d].next) \in Nat /\ graph[d].device_num = d
    BY <1>1, LenProperties DEF Typed, Device
  <2> HIDE DEF g
  <2>4. f \in Seq(Call) /\ Distinct(f) /\ Elems(f) = {c(d) : d \in X}
    BY <1>1, <2>2, DiscoverCalls
  <2> HIDE DEF s, f
  <2>5. \A d \in DOMAIN graph : c(d).op = "calloc" /\ c(d).place = at("node", d, Len(g[d].next))
    BY DEF Do
  <2>6. Pending' = {at("node", d, Len(g[d].next)) : d \in X}
    BY <1>4, <2>4, <2>5 DEF Pending
  <2>7. Typed'
    BY <1>1, <1>4, <2>0, <2>2, <2>4 DEF Typed, Starting, Serving, Stopped
  <2>8. ASSUME NEW d \in DOMAIN graph
        PROVE  /\ NodesOf(graph, d) \subseteq NodesOf(g, d)
               /\ NodesOf(g, d) \subseteq NodesOf(graph, d) \cup {at("node", d, Len(g[d].next))}
               /\ at("node", d, Len(g[d].next)) \in NodesOf(g, d)
               /\ d \notin X => NodesOf(g, d) = NodesOf(graph, d)
    <3> DEFINE m == Len(graph[d].next)
               n == Len(g[d].next)
    <3>1. m \in Nat /\ n \in {m, m + 1} /\ (d \notin X => n = m)
      BY <2>2, <2>3
    <3> HIDE DEF m, n, X
    <3>2. 0..m \subseteq 0..n /\ 0..n \subseteq 0..m \cup {n} /\ n \in 0..n
      BY <3>1
    <3> QED
      BY <3>1, <3>2 DEF NodesOf, m, n
  <2>9. ASSUME NEW d \in X, NEW e \in DOMAIN graph
        PROVE  at("node", d, Len(g[d].next)) \notin NodesOf(graph, e)
    <3> DEFINE m == Len(graph[d].next)
               n == Len(g[d].next)
    <3>1. m \in Nat /\ n = m + 1
      BY <2>2, <2>3
    <3>2. n \notin 0..m
      BY <3>1
    <3> QED
      BY <3>2 DEF NodesOf, at
  <2>10. Places' = Places \cup Pending'
    <3> DEFINE N == UNION {NodesOf(graph, d) : d \in DOMAIN graph}
               M == UNION {NodesOf(g, d) : d \in DOMAIN graph}
               B == UNION {Buffers(k) : k \in DOMAIN list}
    <3>1. Places = (Roots \cup B) \cup N /\ Places' = (Roots \cup B) \cup M
      BY <1>1, <1>4, <2>0, <2>2 DEF Places
    <3>2. N \subseteq M
      BY <2>8
    <3>3. Pending' \subseteq M
      BY <2>6, <2>8
    <3>4. M \subseteq N \cup Pending'
      <4> SUFFICES ASSUME NEW d \in DOMAIN graph, NEW y \in NodesOf(g, d)
                   PROVE  y \in N \cup Pending'
        OBVIOUS
      <4>1. CASE d \in X
        BY <2>6, <2>8, <4>1
      <4>2. CASE d \notin X
        BY <2>8, <4>2
      <4> QED
        BY <4>1, <4>2
    <3> QED
      BY <3>1, <3>2, <3>3, <3>4
  <2>11. Pending' \cap Places = {}
    <3> SUFFICES ASSUME NEW d \in X PROVE at("node", d, Len(g[d].next)) \notin Places
      BY <2>6
    <3> QED
      BY <2>9 DEF Places, Buffers, Roots, at
  <2>12. \A x \in Elems(todo') : x.op # "realloc" /\ x.op # "free"
    BY <1>4, <2>4, <2>5
  <2>13. Pending' \subseteq Places' \ Places
    BY <2>10, <2>11
  <2> QED
    BY <1>1, <1>2, <1>4, <2>0, <2>4, <2>7, <2>10, <2>12, <2>13, Handled
<1> QED
  BY <1>1, <1>3, <1>4

(* A switch sends an error: its buffers and those of switches behind it    *)
(* are freed, and it is not Calm from here on.                             *)
LEMMA GiveUpInv ==
    ASSUME MemoryInv, NEW i \in DOMAIN list, GiveUp(i)
    PROVE  MemoryInv'
<1> DEFINE l == [list EXCEPT ![i] = "DISCONNECTED"]
           f == free_switch_buffers(l, i)
<1>1. /\ HeapInv /\ Typed /\ UNCHANGED heapVars /\ UNCHANGED <<ptr, owner, graph>>
      /\ pc = "select" /\ todo = << >>
      /\ \/ pc' = "undefined" /\ UNCHANGED <<list, todo>>
         \/ pc' = "loop" /\ list' = l /\ todo' = f
  BY DEF MemoryInv, GiveUp, Goto
<1>2. HeapInv' /\ UNCHANGED <<libc, said>>
  BY <1>1, HeapStays
<1>3. CASE pc' = "undefined" /\ UNCHANGED <<list, todo>>
  BY <1>1, <1>2, <1>3, Passed
<1>4. CASE pc' = "loop" /\ list' = l /\ todo' = f
  <2>1. list \in Seq({"live", "DISCONNECTED", "revived"}) /\ DOMAIN list = 1..Len(list) /\ Len(list) \in Nat
    BY <1>1, LenProperties DEF Typed
  <2>2. i \in Nat \ {0}
    BY <2>1
  <2>3. /\ l \in Seq({"live", "DISCONNECTED", "revived"}) /\ Len(l) = Len(list)
        /\ DOMAIN l = DOMAIN list /\ l[i] = "DISCONNECTED"
    BY <2>1
  <2> HIDE DEF l
  <2>4. /\ f \in Seq(Call) /\ Distinct(f)
        /\ Elems(f) \subseteq Freed(UNION {Buffers(j) : j \in {k \in i..i+Len(l)-1 :
                                 ~(k \in DOMAIN l /\ l[k] = "DISCONNECTED")}})
    BY <2>2, <2>3, BufferFrees
  <2> HIDE DEF f
  <2>5. \A x \in Elems(todo') : x.op = "free"
    BY <1>4, <2>4 DEF Freed, Do
  <2>6. Pending' = {}
    BY <2>5 DEF Pending
  <2>7. Places' = Places
    BY <1>1, <1>4, <2>3 DEF Places
  <2>8. Typed'
    BY <1>1, <1>4, <2>3, <2>4 DEF Typed, Starting, Serving, Stopped
  <2>9. ~Calm'
    BY <1>4, <2>3 DEF Calm
  <2> QED
    BY <1>1, <1>2, <1>4, <2>4, <2>5, <2>6, <2>7, <2>8, <2>9, Handled
<1> QED
  BY <1>1, <1>3, <1>4

(* Two calls and a third.                                                  *)
LEMMA Appended ==
    ASSUME NEW E, NEW a \in E, NEW b \in E, NEW c \in E
    PROVE  <<a, b>> \o <<c>> = <<a, b, c>>
<1> DEFINE u == <<a, b>> \o <<c>>
           v == <<a, b, c>>
<1>1. u \in Seq(E) /\ v \in Seq(E) /\ Len(u) = 3 /\ Len(v) = 3
  OBVIOUS
<1>2. u[1] = a /\ u[2] = b /\ u[3] = c
  OBVIOUS
<1>3. v[1] = a /\ v[2] = b /\ v[3] = c
  OBVIOUS
<1> HIDE DEF u, v
<1>4. \A i \in 1..3 : i = 1 \/ i = 2 \/ i = 3
  OBVIOUS
<1>5. \A i \in 1..Len(u) : u[i] = v[i]
  BY <1>1, <1>2, <1>3, <1>4
<1>6. u = v
  BY <1>1, <1>5, SeqEqual
<1> QED
  BY <1>6 DEF u, v

(* Before there are blocks.                                                *)
LEMMA StartInv ==
    ASSUME MemoryInv, pc \in Starting, UNCHANGED heapVars,
           UNCHANGED <<ptr, owner, list, graph, todo>>,
           pc' \in Starting \cup {"exit(1)"}
    PROVE  MemoryInv'
<1>1. HeapInv /\ Typed /\ Owned /\ Calls /\ Matched
  BY DEF MemoryInv
<1>2. HeapInv' /\ UNCHANGED <<libc, said>>
  BY <1>1, HeapStays
<1>3. DOMAIN ptr = {} /\ todo = << >> /\ list = << >>
  BY <1>1 DEF Typed
<1>4. Typed'
  BY <1>1 DEF Typed, Starting, Serving, Stopped
<1>5. Owned'
  BY <1>1, <1>2 DEF Owned
<1>6. Pending' = {} /\ Elems(todo') = {}
  BY <1>3, NothingPending DEF Pending
<1>7. Calls'
  BY <1>1, <1>3, <1>6 DEF Calls, Starting, Stopped
<1>8. Cleaning'
  BY DEF Cleaning, Starting
<1>9. Matched'
  <2>1. Calm
    BY <1>3 DEF Calm
  <2>2. said # "non-malloced"
    BY <1>1, <2>1 DEF Matched
  <2> QED
    BY <1>2, <1>3, <1>6, <2>2 DEF Matched, Starting
<1> QED
  BY <1>2, <1>4, <1>5, <1>7, <1>8, <1>9 DEF MemoryInv

(* initialize_network_graph and initialize_controller.                     *)
LEMMA InitializeInv ==
    ASSUME MemoryInv, Initialize
    PROVE  MemoryInv'
<1> DEFINE a == Do("calloc", at("network", 0, 0))
           b == Do("calloc", at("devices", 0, 0))
           c == Do("calloc", at("switch_list", 0, 0))
<1>1. /\ HeapInv /\ Typed /\ Owned /\ Matched /\ UNCHANGED heapVars
      /\ UNCHANGED <<ptr, owner, list, graph>>
      /\ pc = "initialize" /\ todo = << >> /\ pc' = "loop" /\ todo' = <<a, b, c>>
  BY DEF MemoryInv, Initialize, Goto
<1>2. HeapInv' /\ UNCHANGED <<libc, said>>
  BY <1>1, HeapStays
<1>3. DOMAIN ptr = {} /\ list = << >> /\ graph = << >>
  BY <1>1 DEF Typed, Starting
<1>4. /\ a \in Call /\ b \in Call /\ c \in Call /\ a # b /\ a # c /\ b # c
  BY CallIs, SameCall DEF Kind
<1>5. todo' \in Seq(Call) /\ Distinct(todo') /\ Elems(todo') = {a, b, c}
  <2> HIDE DEF a, b, c
  <2>1. <<a, b>> \o <<c>> = <<a, b, c>>
    BY <1>4, Appended
  <2>2. /\ <<a, b>> \o <<c>> \in Seq(Call) /\ Distinct(<<a, b>> \o <<c>>)
        /\ Elems(<<a, b>> \o <<c>>) = {a, b, c}
    BY <1>4, ThreeCalls
  <2> QED
    BY <1>1, <2>1, <2>2, Zenon
<1>6. /\ a.op = "calloc" /\ a.place = at("network", 0, 0)
      /\ b.op = "calloc" /\ b.place = at("devices", 0, 0)
      /\ c.op = "calloc" /\ c.place = at("switch_list", 0, 0)
  BY DEF Do
<1> HIDE DEF a, b, c
<1>7. Pending' = Roots
  BY <1>5, <1>6 DEF Pending, Roots
<1>8. Places' = Roots
  BY <1>1, <1>3 DEF Places
<1>9. \A x \in Elems(todo') : x.op = "calloc"
  BY <1>5, <1>6
<1>10. Typed'
  <2>1. Len(list) = 0 /\ Len(graph) = 0 /\ 0 <= Room
    BY <1>3, LifetimeAssumption
  <2> QED
    BY <1>1, <1>5, <2>1 DEF Typed, Starting, Serving, Stopped
<1>11. Owned'
  BY <1>1, <1>2 DEF Owned
<1>12. Calls'
  BY <1>1, <1>3, <1>5, <1>7, <1>8, <1>9 DEF Calls
<1>13. Cleaning'
  BY <1>1 DEF Cleaning
<1>14. Matched'
  <2>1. Calm
    BY <1>3 DEF Calm
  <2> QED
    BY <1>1, <1>2, <1>3, <1>9, <2>1 DEF Matched
<1> QED
  BY <1>2, <1>10, <1>11, <1>12, <1>13, <1>14 DEF MemoryInv

(* Start-up.                                                               *)
LEMMA StartupInv ==
    ASSUME MemoryInv, Startup
    PROVE  MemoryInv'
<1>1. CASE Initialize
  BY <1>1, InitializeInv
<1>2. CASE Sigaction \/ Getaddrinfo \/ Socket \/ Bind \/ Listen
  <2>1. pc \in Starting /\ UNCHANGED heapVars /\ UNCHANGED <<ptr, owner, list, graph, todo>>
        /\ pc' \in Starting \cup {"exit(1)"}
    <3>1. CASE Sigaction
      BY <3>1 DEF Sigaction, Goto, Starting
    <3>2. CASE Getaddrinfo
      BY <3>2 DEF Getaddrinfo, Goto, Starting
    <3>3. CASE Socket
      BY <3>3 DEF Socket, Goto, Starting
    <3>4. CASE Bind
      BY <3>4 DEF Bind, Goto, Starting
    <3>5. CASE Listen
      BY <3>5 DEF Listen, Goto, Starting
    <3> QED
      BY <1>2, <3>1, <3>2, <3>3, <3>4, <3>5
  <2> QED
    BY <2>1, StartInv
<1> QED
  BY <1>1, <1>2 DEF Startup

(* The program starts without any memory.                                  *)
LEMMA InitMemory ==
    ASSUME Init
    PROVE  MemoryInv
<1>1. HeapInv
  BY InitInv DEF Init
<1>2. /\ pc = "sigaction" /\ todo = << >> /\ DOMAIN ptr = {} /\ DOMAIN owner = Address
      /\ list = << >> /\ graph = << >> /\ libc = {} /\ said = "nothing"
  BY DEF Init, HeapInit
<1>3. Typed
  <2>1. todo \in Seq(Call) /\ list \in Seq({"live", "DISCONNECTED", "revived"}) /\ graph \in Seq(Device)
    BY <1>2, EmptySeq
  <2>2. Len(list) = 0 /\ Len(graph) = 0 /\ 0 <= Room + 1 /\ DOMAIN graph = {}
    BY <1>2, LifetimeAssumption
  <2> QED
    BY <1>2, <2>1, <2>2 DEF Typed, Starting, Serving, Stopped
<1>4. Owned
  BY <1>2 DEF Owned
<1>5. Pending = {} /\ Elems(todo) = {}
  BY <1>2, NothingPending
<1>6. Calls
  BY <1>2, <1>5 DEF Calls, Distinct, Starting
<1>7. Cleaning
  BY <1>2 DEF Cleaning
<1>8. Matched
  BY <1>2, <1>5 DEF Matched
<1> QED
  BY <1>1, <1>3, <1>4, <1>6, <1>7, <1>8 DEF MemoryInv

(* Every step keeps the invariant, and is a step of SmartAlloc or none of  *)
(* its business.                                                           *)
LEMMA Uses ==
    ASSUME MemoryInv, [Next]_vars
    PROVE  MemoryInv' /\ [HeapNext]_heapVars
<1>1. CASE AllocatorCall
  BY <1>1, AllocatorCallInv
<1>2. CASE Startup
  <2>1. UNCHANGED heapVars
    BY <1>2 DEF Startup, Sigaction, Getaddrinfo, Socket, Bind, Listen, Initialize
  <2> QED
    BY <1>2, <2>1, StartupInv
<1>3. CASE Loop
  <2>1. UNCHANGED heapVars
    BY <1>3 DEF Loop
  <2> QED
    BY <1>3, <2>1, LoopInv
<1>4. CASE Overflow
  <2>1. UNCHANGED heapVars
    BY <1>4 DEF Overflow
  <2> QED
    BY <1>4, <2>1, OverflowInv
<1>5. CASE End
  <2>1. UNCHANGED heapVars
    BY <1>5 DEF End
  <2> QED
    BY <1>5, <2>1, EndInv
<1>6. CASE Accept
  <2>1. UNCHANGED heapVars
    BY <1>6 DEF Accept
  <2> QED
    BY <1>6, <2>1, AcceptInv
<1>7. ASSUME NEW i \in DOMAIN list, GiveUp(i)
      PROVE  MemoryInv' /\ [HeapNext]_heapVars
  <2>1. UNCHANGED heapVars
    BY <1>7 DEF GiveUp
  <2> QED
    BY <1>7, <2>1, GiveUpInv
<1>8. ASSUME NEW i \in DOMAIN list, LongMessage(i)
      PROVE  MemoryInv' /\ [HeapNext]_heapVars
  BY <1>8, LongMessageInv
<1>9. ASSUME NEW i \in DOMAIN list, NEW j \in DOMAIN list, Discover(i, j)
      PROVE  MemoryInv' /\ [HeapNext]_heapVars
  <2>1. UNCHANGED heapVars
    BY <1>9 DEF Discover
  <2> QED
    BY <1>9, <2>1, DiscoverInv
<1>10. CASE Sigint
  <2>1. UNCHANGED heapVars
    BY <1>10 DEF Sigint
  <2> QED
    BY <1>10, <2>1, SigintInv
<1>11. CASE UNCHANGED vars
  <2>1. /\ UNCHANGED heapVars /\ UNCHANGED <<pc, ptr, owner, list, graph, todo>>
        /\ HeapInv /\ Typed /\ Owned /\ Calls /\ Cleaning /\ Matched
    BY <1>11 DEF vars, progVars, MemoryInv
  <2>2. HeapInv' /\ UNCHANGED <<libc, said>>
    BY <2>1, HeapStays
  <2>3. /\ Places' = Places /\ (Calm' <=> Calm) /\ Abandoned' = Abandoned /\ Pending' = Pending
        /\ \A p : Intact(p)' <=> Intact(p)
    BY <2>1, <2>2 DEF Places, Calm, Abandoned, Pending, Intact, Deref
  <2>4. Typed' /\ Owned'
    BY <2>1, <2>2 DEF Typed, Owned
  <2>5. Calls' /\ Cleaning' /\ Matched'
    BY <2>1, <2>2, <2>3 DEF Calls, Cleaning, Matched
  <2> QED
    BY <2>1, <2>2, <2>4, <2>5 DEF MemoryInv
<1>12. ASSUME Serve PROVE MemoryInv' /\ [HeapNext]_heapVars
  BY <1>6, <1>7, <1>8, <1>9, <1>12 DEF Serve
<1>13. ASSUME Program PROVE MemoryInv' /\ [HeapNext]_heapVars
  BY <1>1, <1>2, <1>3, <1>4, <1>5, <1>13 DEF Program
<1> QED
  BY <1>10, <1>11, <1>12, <1>13 DEF Next

(* The variables of the start-up.                                          *)
Tried ==
    /\ server \in 1..Addrs+1 /\ bound \subseteq 1..Addrs /\ listed \subseteq 1..Addrs
    /\ interrupt \in BOOLEAN
    /\ pc = "bind" => server <= Addrs

(* Addresses are tried up to the end of the list, not behind it (the loop  *)
(* of create_listening_socket).                                            *)
LEMMA TriedStep ==
    ASSUME Tried, [Next]_vars
    PROVE  Tried'
<1>0. Addrs \in Nat
  BY LifetimeAssumption
<1>1. CASE Getaddrinfo
  <2>1. pc' = "socket" /\ UNCHANGED <<bound, interrupt>>
    BY <1>1 DEF Getaddrinfo, Goto
  <2>2. PICK n \in 0..Addrs : listed' = (Addrs + 1 - n)..Addrs /\ server' = Addrs + 1 - n
    BY <1>1 DEF Getaddrinfo
  <2>3. server' \in 1..Addrs+1 /\ listed' \subseteq 1..Addrs
    BY <1>0, <2>2
  <2> QED
    BY <2>1, <2>3 DEF Tried
<1>2. CASE Socket
  <2>1. /\ UNCHANGED <<listed, interrupt>>
        /\ \/ server > Addrs /\ pc' = "exit(1)" /\ UNCHANGED <<server, bound>>
           \/ ~(server > Addrs) /\ pc' = "socket" /\ server' = server + 1 /\ UNCHANGED bound
           \/ ~(server > Addrs) /\ pc' = "bind" /\ bound' = bound \cup {server} /\ UNCHANGED server
    BY <1>2 DEF Socket, Goto
  <2>2. CASE server > Addrs /\ pc' = "exit(1)" /\ UNCHANGED <<server, bound>>
    BY <2>1, <2>2 DEF Tried
  <2>3. CASE ~(server > Addrs) /\ pc' = "socket" /\ server' = server + 1 /\ UNCHANGED bound
    BY <1>0, <2>1, <2>3 DEF Tried
  <2>4. CASE ~(server > Addrs) /\ pc' = "bind" /\ bound' = bound \cup {server} /\ UNCHANGED server
    BY <1>0, <2>1, <2>4 DEF Tried
  <2> QED
    BY <2>1, <2>2, <2>3, <2>4
<1>3. CASE Bind
  <2>1. /\ UNCHANGED <<listed, interrupt>> /\ pc = "bind"
        /\ \/ pc' = "listen" /\ UNCHANGED <<server, bound>>
           \/ pc' = "socket" /\ server' = server + 1 /\ bound' = bound \ {server}
    BY <1>3 DEF Bind, Goto
  <2>2. server \in 1..Addrs
    BY <1>0, <2>1 DEF Tried
  <2>3. CASE pc' = "listen" /\ UNCHANGED <<server, bound>>
    BY <2>1, <2>3 DEF Tried
  <2>4. CASE pc' = "socket" /\ server' = server + 1 /\ bound' = bound \ {server}
    BY <1>0, <2>1, <2>2, <2>4 DEF Tried
  <2> QED
    BY <2>1, <2>3, <2>4
<1>4. CASE End
  BY <1>4 DEF End, Goto, Tried
<1>5. CASE Sigint
  BY <1>5 DEF Sigint, Tried
<1>6. ASSUME UNCHANGED <<server, bound, listed, interrupt>>, pc' = pc \/ pc' # "bind"
      PROVE  Tried'
  BY <1>6 DEF Tried
<1>7. CASE AllocatorCall \/ Sigaction \/ Listen \/ Initialize \/ Loop \/ Overflow
  <2>1. UNCHANGED <<server, bound, listed, interrupt>> /\ (pc' = pc \/ pc' # "bind")
    BY <1>7 DEF AllocatorCall, Sigaction, Listen, Initialize, Loop, Overflow, Goto
  <2> QED
    BY <1>6, <2>1
<1>8. CASE Serve
  <2>1. UNCHANGED <<server, bound, listed, interrupt>> /\ (pc' = pc \/ pc' # "bind")
    BY <1>8 DEF Serve, Accept, GiveUp, LongMessage, Discover, Goto
  <2> QED
    BY <1>6, <2>1
<1>9. CASE UNCHANGED vars
  BY <1>6, <1>9 DEF vars, progVars
<1> QED
  BY <1>1, <1>2, <1>3, <1>4, <1>5, <1>7, <1>8, <1>9 DEF Next, Program, Startup

(* The invariant about memory holds in every state of the program: with    *)
(* any switches and links that come, and SIGINT at any point.              *)
THEOREM MemoryKept == Spec => []MemoryInv
<1>1. MemoryInv /\ [Next]_vars => MemoryInv'
  BY Uses
<1> QED
  BY <1>1, InitMemory, PTL DEF Spec

(* What the program does with its memory, from start-up to exit, are calls *)
(* of smartalloc.c and writes into the margin of a block, nothing else.    *)
THEOREM UsesHeap == Spec => HeapSpec
<1>1. Init => HeapInit
  BY DEF Init
<1>2. MemoryInv /\ [Next]_vars => [HeapNext]_heapVars
  BY Uses
<1> QED
  BY <1>1, <1>2, MemoryKept, PTL DEF Spec, HeapSpec

(* Every live block of the program has exactly one record, at any point of *)
(* the program (TableSound).                                               *)
THEOREM HeapKept == Spec => []HeapInv
BY UsesHeap, TableSound, PTL

(* The count of allocated bytes is right at any point of the program.      *)
THEOREM AccountsKept == Spec => []AccountsExact
BY UsesHeap, AccountsCorrect, PTL

(* To the program, smartalloc.c is the allocator of Heap.                  *)
THEOREM HeapImplemented == Spec => ImplementsHeap
BY UsesHeap, SmartAllocIsHeap, PTL

(* Every variable of the program keeps its type; the search for a socket   *)
(* stays within the list of getaddrinfo, and the graph has a device for    *)
(* every switch, or for all but the one that has overrun the array.        *)
THEOREM TypesKept == Spec => []LifetimeTypeOK
<1>1. Init => Tried
  <2>1. 1 \in 1..Addrs+1
    BY LifetimeAssumption
  <2> QED
    BY <2>1 DEF Init, Tried
<1>2. Tried /\ [Next]_vars => Tried'
  BY TriedStep
<1>3. MemoryInv /\ Tried => LifetimeTypeOK
  <2> SUFFICES ASSUME MemoryInv, Tried PROVE LifetimeTypeOK
    OBVIOUS
  <2>1. Typed /\ Calls
    BY DEF MemoryInv
  <2>2. pc \in Stopped \cup {"sigaction", "getaddrinfo", "socket", "bind", "listen",
                             "initialize", "loop", "select", "overflow", "free"}
    BY <2>1 DEF Typed, Starting, Serving
  <2>3. \A i \in DOMAIN todo : todo[i].op \in {"calloc", "realloc", "free"}
                               /\ todo[i].place[1] \in Kind
    <3>1. \A i \in DOMAIN todo : todo[i] \in Call
      BY <2>1, LenProperties DEF Typed
    <3> QED
      BY <3>1 DEF Call
  <2>4. \A p \in DOMAIN ptr : p[1] \in Kind /\ ptr[p] \in Address
    <3>1. \A p \in Places : p[1] \in Kind
      BY DEF Places, Roots, Buffers, NodesOf, at, Kind
    <3> QED
      BY <2>1, <3>1 DEF Typed, Calls
  <2> QED
    BY <2>1, <2>2, <2>3, <2>4 DEF LifetimeTypeOK, Tried, Typed
<1> QED
  BY <1>1, <1>2, <1>3, MemoryKept, PTL DEF Spec

(* The clean-up behind select_loop finds every block of a switch that has  *)
(* not been given up, however many switches and links there were.          *)
THEOREM EndFrees == Spec => []AllFreed
<1>1. MemoryInv => AllFreed
  <2> SUFFICES ASSUME MemoryInv, pc = "exit", NEW a \in libc
               PROVE  a \in {Deref(at(b, i, 0)) : b \in {"read_buffer", "write_buffer"},
                               i \in {j \in DOMAIN list : list[j] = "DISCONNECTED"}}
    BY DEF AllFreed
  <2>1. owner[a] \in Abandoned
    BY DEF MemoryInv, Cleaning
  <2>2. Deref(owner[a]) = a
    BY DEF MemoryInv, Owned, Deref
  <2>3. PICK i \in {j \in DOMAIN list : list[j] = "DISCONNECTED"} : owner[a] \in Buffers(i)
    BY <2>1 DEF Abandoned
  <2>4. PICK b \in {"read_buffer", "write_buffer"} : owner[a] = at(b, i, 0)
    BY <2>3 DEF Buffers
  <2> QED
    BY <2>2, <2>3, <2>4
<1> QED
  BY <1>1, MemoryKept, PTL

(* As long as no switch is given up, nothing is freed twice and nothing    *)
(* but blocks is freed, whenever SIGINT comes.                             *)
THEOREM FreesAreMatched == Spec => []FreesMatched
<1>1. MemoryInv => FreesMatched
  BY DEF MemoryInv, Matched, FreesMatched, Calm
<1> QED
  BY <1>1, MemoryKept, PTL
=============================================================================
