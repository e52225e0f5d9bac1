-------------------------- MODULE NetworkGraphProofs --------------------------
(***************************************************************************)
(* What the search for loops finds in any graph.  The recursive functions  *)
(* of NetworkGraph exist: a search that goes on from a search has one      *)
(* device less to discover.  So the search comes to an end, and what is    *)
(* known of every step of it is known of its result.                       *)
(***************************************************************************)
EXTENDS NetworkGraph, SequenceTheorems, FiniteSetTheorems, WellFoundedInduction, TLAPS

Node == [device_num : Nat, next : Seq([device_num : Nat, port_num : 0..255])]

-----------------------------------------------------------------------------
(* Induction for sets of numbers: if there is a number that is not in T,   *)
(* there is a least one.                                                   *)

Below == {p \in Nat \X Nat : p[1] < p[2]}

LEMMA Descent ==
    ASSUME NEW T,
           \A n \in Nat : (\A m \in Nat : m < n => m \in T) => n \in T
    PROVE  Nat \subseteq T
<1> SUFFICES ASSUME Nat \ T # {} PROVE FALSE
  OBVIOUS
<1>1. OpToRel(<, Nat) = Below
  BY DEF OpToRel, Below
<1>2. IsWellFoundedOn(Below, Nat)
  BY <1>1, NatLessThanWellFounded
<1>3. PICK n \in Nat \ T : \A m \in Nat \ T : <<m, n>> \notin Below
  BY <1>2, WFMin
<1>4. \A m \in Nat : m < n => m \in T
  BY <1>3 DEF Below
<1> QED
  BY <1>3, <1>4

LEMMA Ascent ==
    ASSUME NEW T, 0 \in T, \A n \in Nat : n \in T => n + 1 \in T
    PROVE  Nat \subseteq T
<1>1. ASSUME NEW n \in Nat, \A m \in Nat : m < n => m \in T
      PROVE  n \in T
  <2>1. CASE n = 0
    BY <2>1
  <2>2. CASE n # 0
    <3>1. n - 1 \in Nat /\ n - 1 < n /\ (n - 1) + 1 = n
      BY <2>2
    <3> QED
      BY <1>1, <3>1
  <2> QED
    BY <2>1, <2>2
<1> QED
  BY <1>1, Descent

-----------------------------------------------------------------------------
(* The bodies of the two functions in recursive_loop_exists: p stands for  *)
(* the searches, w for the walk along the list of one device.              *)

Calls(g) == Nums(g) \X Nums(g) \X SUBSET Nums(g)

Visit(p, g, c, acc, n) ==
    IF acc.ret # 0 \/ n = c[2] THEN acc
    ELSE IF n \notin Nums(g) THEN [acc EXCEPT !.ret = Nowhere]
    ELSE IF n \in acc.disc THEN [acc EXCEPT !.ret = n]
    ELSE p[<<n, c[1], acc.disc>>]

WalkStep(w, p, g, c, k) ==
    IF k = 0 THEN [ret |-> 0, disc |-> c[3] \cup {c[1]}]
    ELSE Visit(p, g, c, w[k - 1], Neighbours(g, c[1])[k])

Steps(g, c) == Len(Neighbours(g, c[1]))

IsWalk(w, p, g, c) == w = [k \in 0..Steps(g, c) |-> WalkStep(w, p, g, c, k)]

SearchStep(p, g, c) ==
    IF c[1] \in c[3] THEN [ret |-> 0, disc |-> c[3]]
    ELSE (CHOOSE w : IsWalk(w, p, g, c))[Steps(g, c)]

IsSearch(p, g) == p = [c \in Calls(g) |-> SearchStep(p, g, c)]

LEMMA SearchIs ==
    ASSUME NEW g, NEW f, NEW l, NEW d
    PROVE  recursive_loop_exists(g, f, l, d) =
             IF f \in Nums(g) THEN (CHOOSE p : IsSearch(p, g))[<<f, l, d>>]
             ELSE [ret |-> Nowhere, disc |-> d]
BY Zenon DEF recursive_loop_exists, IsSearch, SearchStep, IsWalk, WalkStep, Visit, Steps, Calls

-----------------------------------------------------------------------------
(* Walks.                                                                  *)

Reaches(w, p, g, c, l) == w = [k \in 0..l |-> WalkStep(w, p, g, c, k)]

LEMMA WalkExists ==
    ASSUME NEW p, NEW g, NEW c, NEW n \in Nat
    PROVE  \E w : Reaches(w, p, g, c, n)
<1> USE DEF Reaches
<1> DEFINE Is(w, l) == Reaches(w, p, g, c, l)
           T == {l \in Nat : \E w : Is(w, l)}
<1>1. 0 \in T
  <2> DEFINE w == [k \in 0..0 |-> [ret |-> 0, disc |-> c[3] \cup {c[1]}]]
  <2>1. w = [k \in 0..0 |-> WalkStep(w, p, g, c, k)]
    BY DEF WalkStep
  <2> QED
    BY <2>1
<1>2. ASSUME NEW l \in Nat, l \in T PROVE l + 1 \in T
  <2>1. PICK w : Is(w, l)
    BY <1>2
  <2> DEFINE v == [k \in 0..l + 1 |-> WalkStep(w, p, g, c, k)]
  <2>2. ASSUME NEW k \in 0..l PROVE v[k] = w[k]
    <3>1. w[k] = WalkStep(w, p, g, c, k)
      BY <2>1
    <3> QED
      BY <3>1
  <2>3. ASSUME NEW k \in 0..l + 1
        PROVE  WalkStep(w, p, g, c, k) = WalkStep(v, p, g, c, k)
    <3>1. k = 0 \/ k - 1 \in 0..l
      OBVIOUS
    <3> HIDE DEF v
    <3>2. CASE k = 0
      BY <3>2 DEF WalkStep
    <3>3. CASE k # 0
      <4>1. w[k - 1] = v[k - 1]
        BY <2>2, <3>1, <3>3
      <4> QED
        BY <3>3, <4>1, Zenon DEF WalkStep
    <3> QED
      BY <3>2, <3>3
  <2>4. Is(v, l + 1) /\ l + 1 \in Nat
    BY <2>3
  <2> HIDE DEF Is, v
  <2> QED
    BY <2>4
<1> HIDE DEF T
<1>3. Nat \subseteq T
  BY <1>1, <1>2, Ascent
<1> QED
  BY <1>3 DEF T

LEMMA WalkIs ==
    ASSUME NEW p, NEW g, NEW c, Steps(g, c) \in Nat
    PROVE  \E w : IsWalk(w, p, g, c)
<1> DEFINE n == Steps(g, c)
<1>1. n \in Nat
  OBVIOUS
<1> HIDE DEF n
<1>2. \E w : Reaches(w, p, g, c, n)
  BY <1>1, WalkExists
<1> QED
  BY <1>2, Zenon DEF IsWalk, Reaches, n

(* Two walks that go by the same searches are the same.                    *)
LEMMA WalkUnique ==
    ASSUME NEW p, NEW g, NEW c, Steps(g, c) \in Nat,
           NEW v, IsWalk(v, p, g, c), NEW w, IsWalk(w, p, g, c)
    PROVE  v = w
<1> DEFINE n == Steps(g, c)
           T == {k \in Nat : k <= n => v[k] = w[k]}
<1>0. /\ \A k \in 0..n : v[k] = WalkStep(v, p, g, c, k) /\ w[k] = WalkStep(w, p, g, c, k)
      /\ v = [k \in 0..n |-> v[k]] /\ w = [k \in 0..n |-> w[k]]
  BY DEF IsWalk
<1> HIDE DEF n
<1>1. 0 \in T
  <2>1. n \in Nat
    BY DEF n
  <2>2. 0 \in 0..n
    BY <2>1
  <2> QED
    BY <1>0, <2>2 DEF WalkStep
<1>2. ASSUME NEW k \in Nat, k \in T PROVE k + 1 \in T
  <2> SUFFICES ASSUME k + 1 <= n PROVE v[k + 1] = w[k + 1]
    OBVIOUS
  <2>0. n \in Nat
    BY DEF n
  <2>1. v[k] = w[k] /\ k + 1 \in 0..n /\ k + 1 # 0 /\ (k + 1) - 1 = k
    BY <1>2, <2>0
  <2>2. v[k + 1] = WalkStep(v, p, g, c, k + 1) /\ w[k + 1] = WalkStep(w, p, g, c, k + 1)
    BY <1>0, <2>1
  <2> QED
    BY <2>1, <2>2, Zenon DEF WalkStep
<1>3. Nat \subseteq T
  <2> HIDE DEF T
  <2> QED
    BY <1>1, <1>2, Ascent
<1>4. \A k \in 0..n : v[k] = w[k]
  BY <1>3 DEF n
<1> QED
  BY <1>0, <1>4

-----------------------------------------------------------------------------
(* Searches.                                                               *)

LEMMA GraphFacts ==
    ASSUME NEW g \in Seq(Node)
    PROVE  /\ Len(g) \in Nat /\ DOMAIN g = 1..Len(g)
           /\ Nums(g) \subseteq Nat /\ IsFiniteSet(Nums(g))
           /\ \A n \in Nums(g) : /\ index(g, n) \in DOMAIN g
                                 /\ g[index(g, n)].device_num = n
                                 /\ Neighbours(g, n) \in Seq(Nat)
<1>1. Len(g) \in Nat /\ DOMAIN g = 1..Len(g) /\ \A i \in DOMAIN g : g[i] \in Node
  BY LenProperties, ElementOfSeq
<1>2. Nums(g) \subseteq Nat
  BY <1>1 DEF Nums, Node
<1>3. IsFiniteSet(Nums(g))
  <2> DEFINE f == [i \in 1..Len(g) |-> g[i].device_num]
  <2>1. f \in Surjection(1..Len(g), Nums(g))
    BY <1>1 DEF Surjection, Nums
  <2> HIDE DEF f
  <2>2. IsFiniteSet(1..Len(g))
    BY <1>1, FS_Interval
  <2> QED
    BY <2>1, <2>2, FS_Surjection
<1>4. ASSUME NEW n \in Nums(g)
      PROVE  /\ index(g, n) \in DOMAIN g
             /\ g[index(g, n)].device_num = n
             /\ Neighbours(g, n) \in Seq(Nat)
  <2>1. index(g, n) \in DOMAIN g /\ g[index(g, n)].device_num = n
    BY DEF Nums, index
  <2> DEFINE l == g[index(g, n)].next
             S == [device_num : Nat, port_num : 0..255]
  <2>2. l \in Seq(S)
    BY <1>1, <2>1 DEF Node
  <2>3. Neighbours(g, n) = [i \in DOMAIN l |-> l[i].device_num]
    BY DEF Neighbours
  <2> HIDE DEF l, S
  <2>4. Len(l) \in Nat /\ DOMAIN l = 1..Len(l) /\ \A i \in DOMAIN l : l[i] \in S
    BY <2>2, LenProperties, ElementOfSeq
  <2>5. Neighbours(g, n) \in [1..Len(l) -> Nat]
    BY <2>3, <2>4 DEF S
  <2>6. Neighbours(g, n) \in Seq(Nat)
    BY <2>4, <2>5, SeqDef
  <2> QED
    BY <2>1, <2>6
<1> QED
  BY <1>1, <1>2, <1>3, <1>4

(* How many devices are not discovered yet.                                *)
Left(g, c) == Cardinality(Nums(g) \ c[3])

(* What may come out of a search.                                          *)
Outcome(g, c) ==
    {r \in [ret : Int, disc : SUBSET Nums(g)] : c[3] \cup {c[1]} \subseteq r.disc}

LEMMA LeftFacts ==
    ASSUME NEW g \in Seq(Node), NEW c \in Calls(g)
    PROVE  /\ Left(g, c) \in Nat
           /\ Steps(g, c) \in Nat
           /\ \A k \in 1..Steps(g, c) : Neighbours(g, c[1])[k] \in Nat
           /\ c[1] \in Nums(g) /\ c[2] \in Nums(g) /\ c[3] \subseteq Nums(g)
<1>1. c[1] \in Nums(g) /\ c[2] \in Nums(g) /\ c[3] \subseteq Nums(g)
  BY DEF Calls
<1>2. Left(g, c) \in Nat
  <2>1. IsFiniteSet(Nums(g)) /\ Nums(g) \ c[3] \in SUBSET Nums(g)
    BY GraphFacts
  <2> QED
    BY <2>1, FS_Subset, FS_CardinalityType DEF Left
<1>3. Neighbours(g, c[1]) \in Seq(Nat)
  BY <1>1, GraphFacts
<1> DEFINE s == Neighbours(g, c[1])
<1>4. Len(s) \in Nat /\ \A k \in 1..Len(s) : s[k] \in Nat
  <2> HIDE DEF s
  <2> QED
    BY <1>3, LenProperties, ElementOfSeq DEF s
<1> QED
  BY <1>1, <1>2, <1>4 DEF Steps

(* A call from within a search has less to discover.                       *)
LEMMA Deeper ==
    ASSUME NEW g \in Seq(Node), NEW c \in Calls(g), c[1] \notin c[3],
           NEW n \in Nums(g), NEW D \in SUBSET Nums(g), c[3] \cup {c[1]} \subseteq D
    PROVE  LET d == <<n, c[1], D>>
           IN  d \in Calls(g) /\ Left(g, d) < Left(g, c)
<1> DEFINE d == <<n, c[1], D>>
           A == Nums(g) \ D
           B == Nums(g) \ c[3]
<1>1. d \in Calls(g) /\ d[3] = D
  BY DEF Calls
<1>2. A \in SUBSET B /\ A # B
  BY DEF Calls
<1>3. IsFiniteSet(B)
  <2>1. IsFiniteSet(Nums(g)) /\ B \in SUBSET Nums(g)
    BY GraphFacts
  <2> HIDE DEF B
  <2> QED
    BY <2>1, FS_Subset
<1> HIDE DEF A, B
<1>4. Cardinality(A) <= Cardinality(B) /\ Cardinality(A) # Cardinality(B)
  BY <1>2, <1>3, FS_Subset
<1>5. Cardinality(A) \in Nat /\ Cardinality(B) \in Nat
  BY <1>2, <1>3, FS_Subset, FS_CardinalityType
<1>6. Cardinality(A) < Cardinality(B)
  BY <1>4, <1>5
<1> HIDE DEF d
<1> QED
  BY <1>1, <1>6 DEF Left, A, B, d

(* What the walk of a search knows is an outcome, if the searches it makes *)
(* have outcomes.                                                          *)
LEMMA WalkOutcome ==
    ASSUME NEW g \in Seq(Node), NEW c \in Calls(g), c[1] \notin c[3],
           NEW p, \A d \in Calls(g) : Left(g, d) < Left(g, c) => p[d] \in Outcome(g, d),
           NEW w, IsWalk(w, p, g, c)
    PROVE  \A k \in 0..Steps(g, c) : w[k] \in Outcome(g, c)
<1> DEFINE n == Steps(g, c)
           T == {k \in Nat : k <= n => w[k] \in Outcome(g, c)}
<1>0. /\ \A k \in 0..n : w[k] = WalkStep(w, p, g, c, k)
      /\ n \in Nat /\ \A k \in 1..n : Neighbours(g, c[1])[k] \in Nat
      /\ c[1] \in Nums(g) /\ c[3] \subseteq Nums(g) /\ Nums(g) \subseteq Nat
  BY LeftFacts, GraphFacts DEF IsWalk
<1> HIDE DEF n
<1>1. 0 \in T
  <2>1. 0 \in 0..n
    BY <1>0
  <2>2. w[0] = [ret |-> 0, disc |-> c[3] \cup {c[1]}]
    BY <1>0, <2>1 DEF WalkStep
  <2> QED
    BY <1>0, <2>2 DEF Outcome
<1>2. ASSUME NEW k \in Nat, k \in T PROVE k + 1 \in T
  <2> SUFFICES ASSUME k + 1 <= n PROVE w[k + 1] \in Outcome(g, c)
    OBVIOUS
  <2> DEFINE acc == w[k]
             m == Neighbours(g, c[1])[k + 1]
  <2>1. /\ acc \in Outcome(g, c) /\ k + 1 \in 0..n /\ k + 1 # 0 /\ (k + 1) - 1 = k
        /\ k + 1 \in 1..n
    BY <1>0, <1>2
  <2>2. w[k + 1] = Visit(p, g, c, acc, m)
    <3>1. w[k + 1] = WalkStep(w, p, g, c, k + 1)
      BY <1>0, <2>1
    <3> QED
      BY <2>1, <3>1 DEF WalkStep
  <2>3. m \in Nat
    BY <1>0, <2>1
  <2> HIDE DEF acc, m
  <2>4. acc \in [ret : Int, disc : SUBSET Nums(g)] /\ c[3] \cup {c[1]} \subseteq acc.disc
    BY <2>1 DEF Outcome
  <2>5. [acc EXCEPT !.ret = Nowhere] \in Outcome(g, c) /\ [acc EXCEPT !.ret = m] \in Outcome(g, c)
    <3>1. \A x \in Int : [acc EXCEPT !.ret = x] \in Outcome(g, c)
      BY <2>4 DEF Outcome
    <3>2. Nowhere \in Int /\ m \in Int
      BY <2>3 DEF Nowhere
    <3> QED
      BY <3>1, <3>2
  <2>6. ASSUME m \in Nums(g), m \notin acc.disc
        PROVE  p[<<m, c[1], acc.disc>>] \in Outcome(g, c)
    <3> DEFINE d == <<m, c[1], acc.disc>>
    <3>1. d \in Calls(g) /\ Left(g, d) < Left(g, c)
      BY <2>4, <2>6, Deeper
    <3>2. d[3] = acc.disc /\ d[1] = m
      OBVIOUS
    <3> HIDE DEF d
    <3>3. p[d] \in Outcome(g, d)
      BY <3>1
    <3>4. p[d] \in Outcome(g, c)
      BY <2>4, <3>2, <3>3 DEF Outcome
    <3> QED
      BY <3>4 DEF d
  <2> QED
    BY <2>1, <2>2, <2>5, <2>6 DEF Visit
<1>3. Nat \subseteq T
  <2> HIDE DEF T
  <2> QED
    BY <1>1, <1>2, Ascent
<1> QED
  BY <1>3, <1>0 DEF n

(* A search looks only at searches with less to discover.                  *)
LEMMA StepAgrees ==
    ASSUME NEW g \in Seq(Node), NEW c \in Calls(g), NEW p, NEW q,
           \A d \in Calls(g) : Left(g, d) < Left(g, c) =>
              p[d] \in Outcome(g, d) /\ q[d] = p[d]
    PROVE  /\ SearchStep(p, g, c) = SearchStep(q, g, c)
           /\ SearchStep(p, g, c) \in Outcome(g, c)
<1>0. c[1] \in Nums(g) /\ c[3] \subseteq Nums(g) /\ Steps(g, c) \in Nat
  BY LeftFacts
<1>1. CASE c[1] \in c[3]
  BY <1>0, <1>1 DEF SearchStep, Outcome
<1>2. CASE c[1] \notin c[3]
  <2> DEFINE n == Steps(g, c)
  <2>1. PICK w : IsWalk(w, p, g, c)
    BY <1>0, WalkIs
  <2>2. \A k \in 0..n : w[k] \in Outcome(g, c)
    BY <1>2, <2>1, WalkOutcome
  <2>3. ASSUME NEW k \in 0..n PROVE WalkStep(w, p, g, c, k) = WalkStep(w, q, g, c, k)
    <3> DEFINE acc == w[k - 1]
               m == Neighbours(g, c[1])[k]
    <3>1. CASE k = 0
      BY <3>1 DEF WalkStep
    <3>2. CASE k # 0
      <4>1. k - 1 \in 0..n
        BY <1>0, <3>2
      <4>2. acc \in Outcome(g, c)
        BY <2>2, <4>1
      <4>3. WalkStep(w, p, g, c, k) = Visit(p, g, c, acc, m)
            /\ WalkStep(w, q, g, c, k) = Visit(q, g, c, acc, m)
        BY <3>2 DEF WalkStep
      <4> HIDE DEF acc, m
      <4>4. ASSUME m \in Nums(g), m \notin acc.disc
            PROVE  p[<<m, c[1], acc.disc>>] = q[<<m, c[1], acc.disc>>]
        <5> DEFINE d == <<m, c[1], acc.disc>>
        <5>1. acc.disc \in SUBSET Nums(g) /\ c[3] \cup {c[1]} \subseteq acc.disc
          BY <4>2 DEF Outcome
        <5>2. d \in Calls(g) /\ Left(g, d) < Left(g, c)
          BY <1>2, <4>4, <5>1, Deeper
        <5> HIDE DEF d
        <5>3. p[d] = q[d]
          BY <5>2
        <5> QED
          BY <5>3 DEF d
      <4>5. Visit(p, g, c, acc, m) = Visit(q, g, c, acc, m)
        BY <4>4, Zenon DEF Visit
      <4> QED
        BY <4>3, <4>5
    <3> QED
      BY <3>1, <3>2
  <2>4. IsWalk(w, q, g, c)
    BY <2>1, <2>3 DEF IsWalk
  <2>5. (CHOOSE v : IsWalk(v, p, g, c)) = w
    <3>1. IsWalk((CHOOSE v : IsWalk(v, p, g, c)), p, g, c)
      BY <2>1, Zenon
    <3> QED
      BY <1>0, <2>1, <3>1, WalkUnique, Zenon
  <2>6. (CHOOSE v : IsWalk(v, q, g, c)) = w
    <3>1. IsWalk((CHOOSE v : IsWalk(v, q, g, c)), q, g, c)
      BY <2>4, Zenon
    <3> QED
      BY <1>0, <2>4, <3>1, WalkUnique, Zenon
  <2>7. SearchStep(p, g, c) = w[n] /\ SearchStep(q, g, c) = w[n]
    BY <1>2, <2>5, <2>6, Zenon DEF SearchStep
  <2>8. n \in 0..n
    BY <1>0
  <2> QED
    BY <2>2, <2>7, <2>8
<1> QED
  BY <1>1, <1>2

(* So there is a function that does what recursive_loop_exists does.       *)
LEMMA SearchExists ==
    ASSUME NEW g \in Seq(Node)
    PROVE  \E p : IsSearch(p, g) /\ \A c \in Calls(g) : p[c] \in Outcome(g, c)
<1> DEFINE upto(n) == {c \in Calls(g) : Left(g, c) < n}
           Is(p, n) == /\ p = [c \in upto(n) |-> SearchStep(p, g, c)]
                       /\ \A c \in upto(n) : p[c] \in Outcome(g, c)
           T == {n \in Nat : \E p : Is(p, n)}
<1>0. \A c \in Calls(g) : Left(g, c) \in Nat
  BY LeftFacts
<1>1. 0 \in T
  <2> DEFINE p == [c \in {} |-> 0]
  <2>1. upto(0) = {}
    BY <1>0
  <2> HIDE DEF upto
  <2>2. p = [c \in upto(0) |-> SearchStep(p, g, c)]
    BY <2>1
  <2> QED
    BY <2>1, <2>2
<1>2. ASSUME NEW n \in Nat, n \in T PROVE n + 1 \in T
  <2>1. PICK p : Is(p, n)
    BY <1>2
  <2> DEFINE q == [c \in upto(n + 1) |-> SearchStep(p, g, c)]
  <2>2. \A c \in upto(n) : c \in upto(n + 1) /\ c \in Calls(g)
    BY <1>0
  <2>3. \A c \in upto(n) : p[c] = SearchStep(p, g, c)
    BY <2>1, Zenon
  <2>4. \A c \in upto(n + 1) : \A d \in Calls(g) : Left(g, d) < Left(g, c) => d \in upto(n)
    BY <1>0
  <2>5. \A c \in upto(n + 1) : c \in Calls(g)
    OBVIOUS
  <2>6. \A c \in upto(n) : p[c] \in Outcome(g, c)
    BY <2>1
  <2> HIDE DEF upto
  <2>7. \A c \in upto(n) : q[c] = p[c]
    BY <2>2, <2>3
  <2>8. \A c \in upto(n + 1) : q[c] = SearchStep(p, g, c)
    OBVIOUS
  <2>9. q = [c \in upto(n + 1) |-> q[c]]
    OBVIOUS
  <2> HIDE DEF q
  <2>10. \A c \in upto(n + 1) :
           SearchStep(p, g, c) = SearchStep(q, g, c) /\ SearchStep(p, g, c) \in Outcome(g, c)
    <3> SUFFICES ASSUME NEW c \in upto(n + 1)
                 PROVE  SearchStep(p, g, c) = SearchStep(q, g, c)
                        /\ SearchStep(p, g, c) \in Outcome(g, c)
      OBVIOUS
    <3>1. c \in Calls(g)
      BY <2>5
    <3>2. \A d \in Calls(g) : Left(g, d) < Left(g, c) => p[d] \in Outcome(g, d) /\ q[d] = p[d]
      BY <2>4, <2>6, <2>7
    <3> QED
      BY <3>1, <3>2, StepAgrees
  <2>11. q = [c \in upto(n + 1) |-> SearchStep(q, g, c)]
    BY <2>8, <2>9, <2>10
  <2>12. Is(q, n + 1)
    BY <2>8, <2>10, <2>11
  <2> HIDE DEF Is
  <2> QED
    BY <2>12
<1>3. Nat \subseteq T
  <2> HIDE DEF T
  <2> QED
    BY <1>1, <1>2, Ascent
<1> DEFINE m == Cardinality(Nums(g)) + 1
<1>4. m \in Nat /\ upto(m) = Calls(g)
  <2>1. IsFiniteSet(Nums(g))
    BY GraphFacts
  <2>2. Cardinality(Nums(g)) \in Nat
    BY <2>1, FS_CardinalityType
  <2>3. ASSUME NEW c \in Calls(g) PROVE Left(g, c) <= Cardinality(Nums(g))
    <3> DEFINE A == Nums(g) \ c[3]
    <3>1. A \in SUBSET Nums(g)
      OBVIOUS
    <3> HIDE DEF A
    <3>2. Cardinality(A) <= Cardinality(Nums(g))
      BY <2>1, <3>1, FS_Subset
    <3> QED
      BY <3>2 DEF Left, A
  <2>4. \A c \in Calls(g) : Left(g, c) < m
    BY <1>0, <2>2, <2>3
  <2> QED
    BY <2>2, <2>4
<1>5. PICK p : Is(p, m)
  BY <1>3, <1>4
<1>6. p = [c \in Calls(g) |-> SearchStep(p, g, c)] /\ \A c \in Calls(g) : p[c] \in Outcome(g, c)
  <2>1. /\ p = [c \in upto(m) |-> SearchStep(p, g, c)]
        /\ \A c \in upto(m) : p[c] \in Outcome(g, c)
    BY <1>5
  <2> HIDE DEF upto, m
  <2> QED
    BY <1>4, <2>1
<1> QED
  BY <1>6, Zenon DEF IsSearch

Search(g) == CHOOSE p : IsSearch(p, g)

(* Two functions that do it are the same, so each has outcomes.            *)
LEMMA SearchFacts ==
    ASSUME NEW g \in Seq(Node), NEW c \in Calls(g)
    PROVE  /\ c[1] \in c[3] => Search(g)[c] = [ret |-> 0, disc |-> c[3]]
           /\ c[1] \notin c[3] =>
                \E w : IsWalk(w, Search(g), g, c) /\ Search(g)[c] = w[Steps(g, c)]
           /\ Search(g)[c] \in Outcome(g, c)
<1> DEFINE p == Search(g)
<1>1. IsSearch(p, g)
  <2>1. \E q : IsSearch(q, g)
    BY SearchExists
  <2> QED
    BY <2>1, Zenon DEF Search
<1> HIDE DEF p
<1>2. \A d \in Calls(g) : p[d] = SearchStep(p, g, d)
  BY <1>1, Zenon DEF IsSearch
<1>3. c[1] \notin c[3] => \E w : IsWalk(w, p, g, c) /\ p[c] = w[Steps(g, c)]
  <2> HAVE c[1] \notin c[3]
  <2> DEFINE w == CHOOSE v : IsWalk(v, p, g, c)
  <2>1. Steps(g, c) \in Nat
    BY LeftFacts
  <2>2. \E v : IsWalk(v, p, g, c)
    BY <2>1, WalkIs
  <2>3. IsWalk(w, p, g, c)
    BY <2>2, Zenon
  <2>4. p[c] = w[Steps(g, c)]
    BY <1>2, Zenon DEF SearchStep
  <2> QED
    BY <2>3, <2>4, Zenon
<1> DEFINE T == {n \in Nat : \A d \in Calls(g) : Left(g, d) = n => p[d] \in Outcome(g, d)}
<1>4. ASSUME NEW n \in Nat, \A m \in Nat : m < n => m \in T PROVE n \in T
  <2> SUFFICES ASSUME NEW d \in Calls(g), Left(g, d) = n PROVE p[d] \in Outcome(g, d)
    OBVIOUS
  <2>1. \A e \in Calls(g) : Left(g, e) < Left(g, d) => p[e] \in Outcome(g, e)
    BY <1>4, LeftFacts
  <2>2. SearchStep(p, g, d) \in Outcome(g, d)
    BY <2>1, StepAgrees
  <2> QED
    BY <1>2, <2>2
<1>5. Nat \subseteq T
  <2> HIDE DEF T
  <2> QED
    BY <1>4, Descent
<1>6. p[c] \in Outcome(g, c)
  BY <1>5, LeftFacts
<1> QED
  BY <1>2, <1>3, <1>6 DEF SearchStep, p

-----------------------------------------------------------------------------
(* The bodies of the two functions in loop_exists, in the same way: f for  *)
(* the searches from the neighbours of one device, o for all devices.      *)

FromVisit(g, i, acc, n) ==
    IF acc.stop THEN acc
    ELSE LET r == recursive_loop_exists(g, n, i, acc.disc)
         IN  [loop |-> r.ret, disc |-> r.disc, stop |-> r.ret # 0]

FromStep(f, g, i, acc0, k) ==
    IF k = 0 THEN [acc0 EXCEPT !.disc = @ \cup {i}, !.stop = FALSE]
    ELSE FromVisit(g, i, f[k - 1], Neighbours(g, i)[k])

FromUpto(f, g, i, acc0, l) == f = [k \in 0..l |-> FromStep(f, g, i, acc0, k)]

From(g, i, acc0) ==
    (CHOOSE f : FromUpto(f, g, i, acc0, Len(Neighbours(g, i))))[Len(Neighbours(g, i))]

OuterStep(o, g, k) ==
    IF k = 0 THEN [loop |-> 0, disc |-> {}, stop |-> FALSE]
    ELSE LET acc == o[k - 1]
         IN  IF g[k].device_num \in acc.disc \/ acc.loop = Nowhere THEN acc
             ELSE From(g, g[k].device_num, acc)

OuterUpto(o, g, l) == o = [k \in 0..l |-> OuterStep(o, g, k)]

LEMMA LoopIs ==
    ASSUME NEW g
    PROVE  loop_exists(g) = (CHOOSE o : OuterUpto(o, g, Len(g)))[Len(g)].loop
BY Zenon DEF loop_exists, OuterUpto, OuterStep, From, FromUpto, FromStep, FromVisit

LEMMA FromExists ==
    ASSUME NEW g, NEW i, NEW acc0, NEW n \in Nat
    PROVE  \E w : FromUpto(w, g, i, acc0, n)
<1> USE DEF FromUpto
<1> DEFINE T == {l \in Nat : \E w : FromUpto(w, g, i, acc0, l)}
<1>1. 0 \in T
  <2> DEFINE w == [k \in 0..0 |-> [acc0 EXCEPT !.disc = @ \cup {i}, !.stop = FALSE]]
  <2>1. w = [k \in 0..0 |-> FromStep(w, g, i, acc0, k)]
    BY DEF FromStep
  <2> QED
    BY <2>1
<1>2. ASSUME NEW l \in Nat, l \in T PROVE l + 1 \in T
  <2>1. PICK w : FromUpto(w, g, i, acc0, l)
    BY <1>2
  <2> DEFINE v == [k \in 0..l + 1 |-> FromStep(w, g, i, acc0, k)]
  <2>2. ASSUME NEW k \in 0..l PROVE v[k] = w[k]
    <3>1. w[k] = FromStep(w, g, i, acc0, k)
      BY <2>1
    <3> QED
      BY <3>1
  <2>3. ASSUME NEW k \in 0..l + 1
        PROVE  FromStep(w, g, i, acc0, k) = FromStep(v, g, i, acc0, k)
    <3>1. k = 0 \/ k - 1 \in 0..l
      OBVIOUS
    <3> HIDE DEF v
    <3>2. CASE k = 0
      BY <3>2 DEF FromStep
    <3>3. CASE k # 0
      <4>1. w[k - 1] = v[k - 1]
        BY <2>2, <3>1, <3>3
      <4> QED
        BY <3>3, <4>1, Zenon DEF FromStep
    <3> QED
      BY <3>2, <3>3
  <2>4. FromUpto(v, g, i, acc0, l + 1) /\ l + 1 \in Nat
    BY <2>3
  <2> HIDE DEF FromUpto, v
  <2> QED
    BY <2>4
<1> HIDE DEF T
<1>3. Nat \subseteq T
  BY <1>1, <1>2, Ascent
<1> QED
  BY <1>3 DEF T

LEMMA OuterExists ==
    ASSUME NEW g, NEW n \in Nat
    PROVE  \E w : OuterUpto(w, g, n)
<1> USE DEF OuterUpto
<1> DEFINE T == {l \in Nat : \E w : OuterUpto(w, g, l)}
<1>1. 0 \in T
  <2> DEFINE w == [k \in 0..0 |-> [loop |-> 0, disc |-> {}, stop |-> FALSE]]
  <2>1. w = [k \in 0..0 |-> OuterStep(w, g, k)]
    BY DEF OuterStep
  <2> QED
    BY <2>1
<1>2. ASSUME NEW l \in Nat, l \in T PROVE l + 1 \in T
  <2>1. PICK w : OuterUpto(w, g, l)
    BY <1>2
  <2> DEFINE v == [k \in 0..l + 1 |-> OuterStep(w, g, k)]
  <2>2. ASSUME NEW k \in 0..l PROVE v[k] = w[k]
    <3>1. w[k] = OuterStep(w, g, k)
      BY <2>1
    <3> QED
      BY <3>1
  <2>3. ASSUME NEW k \in 0..l + 1
        PROVE  OuterStep(w, g, k) = OuterStep(v, g, k)
    <3>1. k = 0 \/ k - 1 \in 0..l
      OBVIOUS
    <3> HIDE DEF v
    <3>2. CASE k = 0
      BY <3>2 DEF OuterStep
    <3>3. CASE k # 0
      <4>1. w[k - 1] = v[k - 1]
        BY <2>2, <3>1, <3>3
      <4> QED
        BY <3>3, <4>1, Zenon DEF OuterStep
    <3> QED
      BY <3>2, <3>3
  <2>4. OuterUpto(v, g, l + 1) /\ l + 1 \in Nat
    BY <2>3
  <2> HIDE DEF OuterUpto, v
  <2> QED
    BY <2>4
<1> HIDE DEF T
<1>3. Nat \subseteq T
  BY <1>1, <1>2, Ascent
<1> QED
  BY <1>3 DEF T

LEMMA FromIs ==
    ASSUME NEW g, NEW i, NEW acc, Len(Neighbours(g, i)) \in Nat
    PROVE  \E f : /\ FromUpto(f, g, i, acc, Len(Neighbours(g, i)))
                  /\ From(g, i, acc) = f[Len(Neighbours(g, i))]
<1> DEFINE n == Len(Neighbours(g, i))
           f == CHOOSE f : FromUpto(f, g, i, acc, n)
<1>1. n \in Nat
  OBVIOUS
<1> HIDE DEF n
<1>2. \E h : FromUpto(h, g, i, acc, n)
  BY <1>1, FromExists
<1>3. FromUpto(f, g, i, acc, n)
  BY <1>2, Zenon
<1>4. From(g, i, acc) = f[n]
  BY Zenon DEF From, n
<1> QED
  BY <1>3, <1>4, Zenon DEF n

LEMMA OuterIs ==
    ASSUME NEW g, Len(g) \in Nat
    PROVE  \E o : OuterUpto(o, g, Len(g)) /\ loop_exists(g) = o[Len(g)].loop
<1> DEFINE o == CHOOSE o : OuterUpto(o, g, Len(g))
<1>1. \E h : OuterUpto(h, g, Len(g))
  BY OuterExists
<1>2. OuterUpto(o, g, Len(g))
  BY <1>1, Zenon
<1>3. loop_exists(g) = o[Len(g)].loop
  BY LoopIs, Zenon
<1> QED
  BY <1>2, <1>3, Zenon

-----------------------------------------------------------------------------
(* What a search can return: 0, a device some list names, or, if one of    *)
(* those has no place in the array, that it is lost.                       *)

Mentioned(g) ==
    UNION {{Neighbours(g, n)[k] : k \in DOMAIN Neighbours(g, n)} : n \in Nums(g)}

Answers(g) ==
    {0} \cup Mentioned(g) \cup (IF Mentioned(g) \subseteq Nums(g) THEN {} ELSE {Nowhere})

LEMMA MentionedFacts ==
    ASSUME NEW g \in Seq(Node), NEW n \in Nums(g)
    PROVE  /\ Len(Neighbours(g, n)) \in Nat
           /\ \A k \in 1..Len(Neighbours(g, n)) : Neighbours(g, n)[k] \in Mentioned(g)
<1> DEFINE s == Neighbours(g, n)
<1>1. s \in Seq(Nat)
  BY GraphFacts
<1>2. Len(s) \in Nat /\ DOMAIN s = 1..Len(s)
  <2> HIDE DEF s
  <2> QED
    BY <1>1, LenProperties
<1>3. \A k \in DOMAIN s : s[k] \in Mentioned(g)
  BY DEF Mentioned
<1> QED
  BY <1>2, <1>3

LEMMA SearchAnswers ==
    ASSUME NEW g \in Seq(Node)
    PROVE  \A c \in Calls(g) : Search(g)[c].ret \in Answers(g)
<1> DEFINE R == Answers(g)
           T == {n \in Nat : \A c \in Calls(g) : Left(g, c) = n => Search(g)[c].ret \in R}
<1>1. ASSUME NEW n \in Nat, \A m \in Nat : m < n => m \in T PROVE n \in T
  <2> SUFFICES ASSUME NEW c \in Calls(g), Left(g, c) = n PROVE Search(g)[c].ret \in R
    OBVIOUS
  <2> DEFINE p == Search(g)
             f == c[1]
             s == Neighbours(g, f)
  <2>1. /\ f \in Nums(g) /\ c[3] \subseteq Nums(g)
        /\ \A d \in Calls(g) : Left(g, d) \in Nat
    BY LeftFacts
  <2>2. Len(s) \in Nat /\ \A k \in 1..Len(s) : s[k] \in Mentioned(g)
    BY <2>1, MentionedFacts
  <2>3. \A d \in Calls(g) : Left(g, d) < Left(g, c) => p[d].ret \in R
    BY <1>1, <2>1
  <2>4. \A d \in Calls(g) : p[d] \in Outcome(g, d)
    BY SearchFacts
  <2>5. CASE f \in c[3]
    <3>1. p[c] = [ret |-> 0, disc |-> c[3]]
      BY <2>5, SearchFacts
    <3> QED
      BY <3>1 DEF Answers
  <2>6. CASE f \notin c[3]
    <3>1. PICK w : IsWalk(w, p, g, c) /\ p[c] = w[Len(s)]
      BY <2>6, SearchFacts DEF Steps
    <3>2. \A k \in 0..Len(s) : w[k] \in Outcome(g, c)
      <4> HIDE DEF p
      <4> QED
        BY <2>4, <2>6, <3>1, WalkOutcome DEF Steps
    <3>3. \A k \in 0..Len(s) : w[k] = WalkStep(w, p, g, c, k)
      BY <3>1 DEF IsWalk, Steps
    <3> DEFINE U == {k \in Nat : k <= Len(s) => w[k].ret \in R}
    <3>4. 0 \in U
      <4>1. 0 \in 0..Len(s)
        BY <2>2
      <4>2. w[0] = [ret |-> 0, disc |-> c[3] \cup {c[1]}]
        BY <3>3, <4>1 DEF WalkStep
      <4> QED
        BY <4>2 DEF Answers
    <3>5. ASSUME NEW k \in Nat, k \in U PROVE k + 1 \in U
      <4> SUFFICES ASSUME k + 1 <= Len(s) PROVE w[k + 1].ret \in R
        OBVIOUS
      <4> DEFINE acc == w[k]
                 m == s[k + 1]
                 d == <<m, c[1], acc.disc>>
      <4>1. /\ k \in 0..Len(s) /\ k + 1 \in 0..Len(s) /\ k + 1 \in 1..Len(s)
            /\ k + 1 # 0 /\ (k + 1) - 1 = k
        BY <2>2
      <4>2. acc \in Outcome(g, c) /\ acc.ret \in R /\ m \in Mentioned(g)
        BY <2>2, <3>2, <3>5, <4>1
      <4>3. w[k + 1] = Visit(p, g, c, acc, m)
        <5>1. w[k + 1] = WalkStep(w, p, g, c, k + 1)
          BY <3>3, <4>1
        <5> QED
          BY <4>1, <5>1 DEF WalkStep
      <4> HIDE DEF acc, m, R, p
      <4>4. /\ acc \in [ret : Int, disc : SUBSET Nums(g)]
            /\ c[3] \cup {c[1]} \subseteq acc.disc
        BY <4>2 DEF Outcome
      <4>5. m \in Nums(g) => p[d].ret \in R
        <5> HAVE m \in Nums(g)
        <5>1. d \in Calls(g) /\ Left(g, d) < Left(g, c)
          BY <2>6, <4>4, Deeper
        <5> HIDE DEF d
        <5> QED
          BY <2>3, <5>1
      <4>6. m \in R /\ (m \notin Nums(g) => Nowhere \in R)
        BY <4>2 DEF R, Answers
      <4>7. \A x : [acc EXCEPT !.ret = x].ret = x
        BY <4>4
      <4> HIDE DEF d
      <4>8. \/ w[k + 1] = acc
            \/ m \notin Nums(g) /\ w[k + 1] = [acc EXCEPT !.ret = Nowhere]
            \/ w[k + 1] = [acc EXCEPT !.ret = m]
            \/ m \in Nums(g) /\ w[k + 1] = p[d]
        BY <4>3, Zenon DEF Visit, d
      <4> QED
        BY <4>2, <4>5, <4>6, <4>7, <4>8
    <3>6. Nat \subseteq U
      <4> HIDE DEF U
      <4> QED
        BY <3>4, <3>5, Ascent
    <3> QED
      BY <2>2, <3>1, <3>6
  <2> QED
    BY <2>5, <2>6
<1>2. Nat \subseteq T
  <2> HIDE DEF T
  <2> QED
    BY <1>1, Descent
<1> QED
  BY <1>2, LeftFacts

(* What the loops of loop_exists know at any time.                         *)
SoFar(g, acc) ==
    \E x \in Answers(g), D \in SUBSET Nums(g), b \in BOOLEAN :
      acc = [loop |-> x, disc |-> D, stop |-> b]

LEMMA FromAnswers ==
    ASSUME NEW g \in Seq(Node), NEW f \in Nums(g), NEW acc0, SoFar(g, acc0)
    PROVE  SoFar(g, From(g, f, acc0))
<1> DEFINE s == Neighbours(g, f)
<1>0. PICK x \in Answers(g), D \in SUBSET Nums(g), b \in BOOLEAN :
        acc0 = [loop |-> x, disc |-> D, stop |-> b]
  BY DEF SoFar
<1>1. Len(s) \in Nat /\ \A k \in 1..Len(s) : s[k] \in Mentioned(g)
  BY MentionedFacts
<1>2. PICK w : FromUpto(w, g, f, acc0, Len(s)) /\ From(g, f, acc0) = w[Len(s)]
  BY <1>1, FromIs
<1>3. \A k \in 0..Len(s) : w[k] = FromStep(w, g, f, acc0, k)
  BY <1>2 DEF FromUpto
<1> DEFINE U == {k \in Nat : k <= Len(s) => SoFar(g, w[k])}
<1>4. 0 \in U
  <2>1. 0 \in 0..Len(s)
    BY <1>1
  <2>2. w[0] = [acc0 EXCEPT !.disc = @ \cup {f}, !.stop = FALSE]
    BY <1>3, <2>1 DEF FromStep
  <2>3. w[0] = [loop |-> x, disc |-> D \cup {f}, stop |-> FALSE]
    BY <1>0, <2>2
  <2>4. D \cup {f} \in SUBSET Nums(g)
    OBVIOUS
  <2> QED
    BY <2>3, <2>4 DEF SoFar
<1>5. ASSUME NEW k \in Nat, k \in U PROVE k + 1 \in U
  <2> SUFFICES ASSUME k + 1 <= Len(s) PROVE SoFar(g, w[k + 1])
    OBVIOUS
  <2> DEFINE m == s[k + 1]
             acc == w[k]
             r == recursive_loop_exists(g, m, f, acc.disc)
             q == r.ret # 0
  <2>1. /\ k \in 0..Len(s) /\ k + 1 \in 0..Len(s) /\ k + 1 \in 1..Len(s)
        /\ k + 1 # 0 /\ (k + 1) - 1 = k
    BY <1>1
  <2>2. w[k + 1] = FromVisit(g, f, acc, m)
    <3>1. w[k + 1] = FromStep(w, g, f, acc0, k + 1)
      BY <1>3, <2>1
    <3> QED
      BY <2>1, <3>1 DEF FromStep
  <2>3. SoFar(g, acc) /\ m \in Mentioned(g)
    BY <1>1, <1>5, <2>1
  <2> HIDE DEF m, acc
  <2>4. acc.disc \in SUBSET Nums(g)
    BY <2>3 DEF SoFar
  <2>5. r.ret \in Answers(g) /\ r.disc \in SUBSET Nums(g)
    <3> DEFINE c == <<m, f, acc.disc>>
    <3>1. CASE m \in Nums(g)
      <4>1. c \in Calls(g)
        BY <2>4, <3>1 DEF Calls
      <4>2. r = Search(g)[c]
        BY <3>1, SearchIs, Zenon DEF Search
      <4> HIDE DEF c, r
      <4>3. Search(g)[c].ret \in Answers(g) /\ Search(g)[c] \in Outcome(g, c)
        BY <4>1, SearchAnswers, SearchFacts
      <4> QED
        BY <4>2, <4>3 DEF Outcome
    <3>2. CASE m \notin Nums(g)
      <4>1. r = [ret |-> Nowhere, disc |-> acc.disc]
        BY <3>2, SearchIs, Zenon
      <4> HIDE DEF r
      <4>2. r.ret = Nowhere /\ r.disc = acc.disc
        BY <4>1
      <4> QED
        BY <2>3, <2>4, <3>2, <4>2 DEF Answers
    <3> QED
      BY <3>1, <3>2
  <2>6. q \in BOOLEAN
    OBVIOUS
  <2>7. \/ w[k + 1] = acc
        \/ w[k + 1] = [loop |-> r.ret, disc |-> r.disc, stop |-> q]
    BY <2>2, Zenon DEF FromVisit
  <2> HIDE DEF r, q
  <2> QED
    BY <2>3, <2>5, <2>6, <2>7, Zenon DEF SoFar
<1>6. Nat \subseteq U
  <2> HIDE DEF U
  <2> QED
    BY <1>4, <1>5, Ascent
<1> QED
  BY <1>1, <1>2, <1>6

(* A device loop_exists names is named in a list; it is lost only if a     *)
(* list names one that has no place in the array.                          *)
LEMMA LoopAnswers ==
    ASSUME NEW g \in Seq(Node)
    PROVE  loop_exists(g) \in Answers(g)
<1>1. Len(g) \in Nat /\ DOMAIN g = 1..Len(g)
  BY GraphFacts
<1>2. PICK o : OuterUpto(o, g, Len(g)) /\ loop_exists(g) = o[Len(g)].loop
  BY <1>1, OuterIs
<1>3. \A k \in 0..Len(g) : o[k] = OuterStep(o, g, k)
  BY <1>2 DEF OuterUpto
<1> DEFINE U == {k \in Nat : k <= Len(g) => SoFar(g, o[k])}
<1>4. 0 \in U
  <2>1. 0 \in 0..Len(g)
    BY <1>1
  <2>2. o[0] = [loop |-> 0, disc |-> {}, stop |-> FALSE]
    BY <1>3, <2>1 DEF OuterStep
  <2> QED
    BY <2>2 DEF SoFar, Answers
<1>5. ASSUME NEW k \in Nat, k \in U PROVE k + 1 \in U
  <2> SUFFICES ASSUME k + 1 <= Len(g) PROVE SoFar(g, o[k + 1])
    OBVIOUS
  <2> DEFINE acc == o[k]
             f == g[k + 1].device_num
  <2>1. k + 1 \in 0..Len(g) /\ k + 1 # 0 /\ (k + 1) - 1 = k /\ k + 1 \in DOMAIN g /\ k <= Len(g)
    BY <1>1
  <2>2. SoFar(g, acc)
    BY <1>5, <2>1
  <2>3. f \in Nums(g)
    BY <2>1 DEF Nums
  <2>4. o[k + 1] = OuterStep(o, g, k + 1)
    BY <1>3, <2>1
  <2>5. o[k + 1] = acc \/ o[k + 1] = From(g, f, acc)
    BY <2>1, <2>4, Zenon DEF OuterStep
  <2> HIDE DEF f, acc
  <2>6. SoFar(g, From(g, f, acc))
    BY <2>2, <2>3, FromAnswers
  <2> QED
    BY <2>2, <2>5, <2>6
<1>6. Nat \subseteq U
  <2> HIDE DEF U
  <2> QED
    BY <1>4, <1>5, Ascent
<1>7. SoFar(g, o[Len(g)])
  BY <1>1, <1>6
<1> QED
  BY <1>2, <1>7 DEF SoFar

-----------------------------------------------------------------------------
(* Sets of devices V with links E between them.  A set of devices is       *)
(* closed if no link leads out of it; Side(V, E, n, l) is the least one    *)
(* with n in it when the link l is taken away.                             *)

Pairs(V, E) == \A l \in E : \E a, b \in V : l = {a, b}

Closed(S, E) == \A l \in E : l \cap S # {} => l \subseteq S

Side(V, E, n, l) ==
    {b \in V : \A S \in SUBSET V : n \in S /\ Closed(S, E \ {l}) => b \in S}

(* What lies behind the link from f to n.                                  *)
Branch(V, E, f, n) == Side(V, E, n, {f, n})

Beside(V, E, f) == {n \in V : {f, n} \in E}

(* No link is part of a loop.                                              *)
Forest(V, E) == \A a, b \in V : {a, b} \in E => a \notin Branch(V, E, a, b)

LEMMA SideFacts ==
    ASSUME NEW V, NEW E, Pairs(V, E), NEW n \in V, NEW l
    PROVE  /\ n \in Side(V, E, n, l)
           /\ Side(V, E, n, l) \subseteq V
           /\ Closed(Side(V, E, n, l), E \ {l})
           /\ \A S \in SUBSET V : n \in S /\ Closed(S, E \ {l}) => Side(V, E, n, l) \subseteq S
<1>1. Closed(Side(V, E, n, l), E \ {l})
  <2> SUFFICES ASSUME NEW m \in E \ {l}, NEW x \in m, x \in Side(V, E, n, l), NEW y \in m
               PROVE  y \in Side(V, E, n, l)
    BY DEF Closed
  <2>1. y \in V
    BY DEF Pairs
  <2>2. ASSUME NEW S \in SUBSET V, n \in S, Closed(S, E \ {l}) PROVE y \in S
    BY <2>2 DEF Closed, Side
  <2> QED
    BY <2>1, <2>2 DEF Side
<1> QED
  BY <1>1 DEF Side

(* A part of a forest is a forest, and nothing in one is linked to itself. *)
LEMMA ForestWithin ==
    ASSUME NEW V, NEW E, Forest(V, E),
           NEW W, W \subseteq V, NEW F, F \subseteq E, Pairs(W, F)
    PROVE  Forest(W, F)
<1> SUFFICES ASSUME NEW a \in W, NEW b \in W, {a, b} \in F, a \in Branch(W, F, a, b)
             PROVE  FALSE
  BY DEF Forest
<1>1. a \notin Side(V, E, b, {a, b})
  BY DEF Forest, Branch
<1>2. PICK S \in SUBSET V : b \in S /\ Closed(S, E \ {{a, b}}) /\ a \notin S
  BY <1>1 DEF Side
<1>3. Closed(S \cap W, F \ {{a, b}})
  BY <1>2 DEF Closed, Pairs
<1>4. a \in S \cap W
  BY <1>2, <1>3 DEF Branch, Side
<1> QED
  BY <1>2, <1>4

LEMMA NoneToSelf ==
    ASSUME NEW V, NEW E, Forest(V, E), NEW a \in V
    PROVE  {a} \notin E
<1>1. a \in Branch(V, E, a, a)
  BY DEF Branch, Side
<1>2. {a, a} = {a}
  OBVIOUS
<1> QED
  BY <1>1, <1>2, Zenon DEF Forest

(* In a forest the branches at a device are apart, ...                     *)
LEMMA BranchesApart ==
    ASSUME NEW V, NEW E, Pairs(V, E), Forest(V, E), NEW f \in V
    PROVE  /\ \A n \in Beside(V, E, f) :
                /\ n \in Branch(V, E, f, n) /\ f \notin Branch(V, E, f, n) /\ n # f
                /\ Branch(V, E, f, n) \subseteq V
                /\ Closed(Branch(V, E, f, n), E \ {{f, n}})
           /\ \A m, n \in Beside(V, E, f) :
                m # n => Branch(V, E, f, m) \cap Branch(V, E, f, n) = {}
<1>1. ASSUME NEW n \in Beside(V, E, f)
      PROVE  /\ n \in Branch(V, E, f, n) /\ f \notin Branch(V, E, f, n) /\ n # f
             /\ Branch(V, E, f, n) \subseteq V
             /\ Closed(Branch(V, E, f, n), E \ {{f, n}})
  <2>1. n \in V /\ {f, n} \in E
    BY DEF Beside
  <2>2. f \notin Branch(V, E, f, n)
    BY <2>1 DEF Forest
  <2> QED
    BY <2>1, <2>2, SideFacts DEF Branch
<1>2. ASSUME NEW m \in Beside(V, E, f), NEW n \in Beside(V, E, f), m # n
      PROVE  Branch(V, E, f, m) \cap Branch(V, E, f, n) = {}
  <2> DEFINE A == Branch(V, E, f, m)
             B == Branch(V, E, f, n)
  <2>1. /\ m \in A /\ f \notin A /\ Closed(A, E \ {{f, m}})
        /\ n \in B /\ f \notin B /\ Closed(B, E \ {{f, n}}) /\ B \subseteq V
    BY <1>1
  <2>2. {f, n} \in E \ {{f, m}} /\ n \in V
    BY <1>2 DEF Beside
  <2>3. \A S \in SUBSET V : n \in S /\ Closed(S, E \ {{f, n}}) => B \subseteq S
    BY <2>2, SideFacts DEF Branch
  <2> HIDE DEF A, B
  <2>4. n \notin A
    BY <2>1, <2>2 DEF Closed
  <2>5. Closed(B \ A, E \ {{f, n}})
    <3> SUFFICES ASSUME NEW l \in E \ {{f, n}}, NEW x \in l, x \in B \ A, NEW y \in l
                 PROVE  y \in B \ A
      BY DEF Closed
    <3>1. l \subseteq B
      BY <2>1 DEF Closed
    <3>2. l # {f, m}
      BY <2>1, <3>1
    <3>3. y \notin A
      BY <2>1, <3>2 DEF Closed
    <3> QED
      BY <3>1, <3>3
  <2>6. B \subseteq B \ A
    BY <2>1, <2>3, <2>4, <2>5
  <2>7. A \cap B = {}
    BY <2>6
  <2> QED
    BY <2>7 DEF A, B
<1> QED
  BY <1>1, <1>2

(* ... the branch behind a link is the device at its end with all the      *)
(* other branches there, ...                                               *)
LEMMA BranchIs ==
    ASSUME NEW V, NEW E, Pairs(V, E), Forest(V, E), NEW f \in V,
           NEW last \in Beside(V, E, f)
    PROVE  Branch(V, E, last, f) =
             {f} \cup UNION {Branch(V, E, f, n) : n \in Beside(V, E, f) \ {last}}
<1> DEFINE S == Branch(V, E, last, f)
           X == {f} \cup UNION {Branch(V, E, f, n) : n \in Beside(V, E, f) \ {last}}
<1>0. {last, f} \in E /\ {f, last} = {last, f} /\ last \in V
  BY DEF Beside
<1>1. f \in S /\ Closed(S, E \ {{last, f}}) /\ S \subseteq V
  BY <1>0, SideFacts DEF Branch
<1>2. \A T \in SUBSET V : f \in T /\ Closed(T, E \ {{last, f}}) => S \subseteq T
  BY <1>0, SideFacts DEF Branch
<1>3. \A n \in Beside(V, E, f) :
        /\ n \in Branch(V, E, f, n) /\ f \notin Branch(V, E, f, n) /\ n # f
        /\ Branch(V, E, f, n) \subseteq V
        /\ Closed(Branch(V, E, f, n), E \ {{f, n}})
        /\ n \in V /\ {f, n} \in E
  <2>1. \A n \in Beside(V, E, f) :
          /\ n \in Branch(V, E, f, n) /\ f \notin Branch(V, E, f, n) /\ n # f
          /\ Branch(V, E, f, n) \subseteq V
          /\ Closed(Branch(V, E, f, n), E \ {{f, n}})
    BY BranchesApart, Zenon
  <2>2. \A n \in Beside(V, E, f) : n \in V /\ {f, n} \in E
    BY DEF Beside
  <2> QED
    BY <2>1, <2>2, Zenon
<1>4. ASSUME NEW n \in Beside(V, E, f) \ {last}
      PROVE  Branch(V, E, f, n) \subseteq S
  <2> DEFINE B == Branch(V, E, f, n)
  <2>1. n \in B /\ f \notin B /\ n # f /\ Closed(B, E \ {{f, n}}) /\ n \in V /\ {f, n} \in E
        /\ B \subseteq V
    BY <1>3
  <2>2. \A T \in SUBSET V : n \in T /\ Closed(T, E \ {{f, n}}) => B \subseteq T
    BY <2>1, SideFacts DEF Branch
  <2> HIDE DEF B, S
  <2>3. {f, n} # {last, f}
    BY <2>1
  <2>4. n \in S
    BY <1>1, <2>1, <2>3 DEF Closed
  <2>5. Closed(B \cap S, E \ {{f, n}})
    <3> SUFFICES ASSUME NEW l \in E \ {{f, n}}, NEW x \in l, x \in B \cap S, NEW y \in l
                 PROVE  y \in B \cap S
      BY DEF Closed
    <3>1. l \subseteq B
      BY <2>1 DEF Closed
    <3>2. l # {last, f}
      BY <2>1, <3>1
    <3>3. l \subseteq S
      BY <1>1, <3>2 DEF Closed
    <3> QED
      BY <3>1, <3>3
  <2>6. B \subseteq B \cap S
    BY <2>1, <2>2, <2>4, <2>5
  <2>7. B \subseteq S
    BY <2>6
  <2> QED
    BY <2>7 DEF B
<1>5. X \subseteq S
  BY <1>1, <1>4
<1>6. Closed(X, E \ {{last, f}})
  <2> SUFFICES ASSUME NEW l \in E \ {{last, f}}, NEW x \in l, x \in X, NEW y \in l
               PROVE  y \in X
    BY DEF Closed
  <2>1. CASE x = f /\ y # f
    <3>1. PICK a \in V, b \in V : l = {a, b}
      BY DEF Pairs
    <3>2. l = {f, y} /\ y \in V
      BY <2>1, <3>1
    <3>3. y # last /\ y \in Beside(V, E, f)
      BY <3>2 DEF Beside
    <3>4. y \in Branch(V, E, f, y)
      BY <1>3, <3>3
    <3> QED
      BY <3>3, <3>4
  <2>2. CASE x # f /\ y # f
    <3>1. PICK n \in Beside(V, E, f) \ {last} : x \in Branch(V, E, f, n)
      BY <2>2
    <3>2. l \subseteq Branch(V, E, f, n) \cup {f, n}
      BY <1>3, <3>1 DEF Closed
    <3>3. y \in Branch(V, E, f, n)
      BY <1>3, <2>2, <3>2
    <3> QED
      BY <3>3
  <2> QED
    BY <2>1, <2>2
<1>7. X \subseteq V /\ f \in X
  BY <1>3
<1>8. S \subseteq X
  <2> HIDE DEF X, S
  <2> QED
    BY <1>2, <1>6, <1>7
<1> QED
  BY <1>5, <1>8

(* ... and no branch at a device reaches into a closed set it is not in.   *)
LEMMA ClosedGrows ==
    ASSUME NEW V, NEW E, Pairs(V, E), Forest(V, E), NEW f \in V,
           NEW D \in SUBSET V, Closed(D, E), f \notin D
    PROVE  /\ \A n \in Beside(V, E, f) : D \cap Branch(V, E, f, n) = {}
           /\ Closed(D \cup {f} \cup UNION {Branch(V, E, f, n) : n \in Beside(V, E, f)}, E)
<1> DEFINE X == D \cup {f} \cup UNION {Branch(V, E, f, n) : n \in Beside(V, E, f)}
<1>1. \A n \in Beside(V, E, f) :
        /\ n \in Branch(V, E, f, n) /\ f \notin Branch(V, E, f, n) /\ n # f
        /\ Branch(V, E, f, n) \subseteq V
        /\ Closed(Branch(V, E, f, n), E \ {{f, n}})
        /\ n \in V /\ {f, n} \in E
  <2>1. \A n \in Beside(V, E, f) :
          /\ n \in Branch(V, E, f, n) /\ f \notin Branch(V, E, f, n) /\ n # f
          /\ Branch(V, E, f, n) \subseteq V
          /\ Closed(Branch(V, E, f, n), E \ {{f, n}})
    BY BranchesApart, Zenon
  <2>2. \A n \in Beside(V, E, f) : n \in V /\ {f, n} \in E
    BY DEF Beside
  <2> QED
    BY <2>1, <2>2, Zenon
<1>2. ASSUME NEW n \in Beside(V, E, f) PROVE D \cap Branch(V, E, f, n) = {}
  <2> DEFINE B == Branch(V, E, f, n)
  <2>1. /\ n \in B /\ f \notin B /\ Closed(B, E \ {{f, n}}) /\ n \in V /\ {f, n} \in E
        /\ B \subseteq V
    BY <1>1
  <2>2. \A T \in SUBSET V : n \in T /\ Closed(T, E \ {{f, n}}) => B \subseteq T
    BY <2>1, SideFacts DEF Branch
  <2> HIDE DEF B
  <2>3. n \notin D
    BY <2>1 DEF Closed
  <2>4. Closed(B \ D, E \ {{f, n}})
    BY <2>1 DEF Closed
  <2>5. B \subseteq B \ D
    BY <2>1, <2>2, <2>3, <2>4
  <2>6. D \cap B = {}
    BY <2>5
  <2> QED
    BY <2>6 DEF B
<1>3. Closed(X, E)
  <2> SUFFICES ASSUME NEW l \in E, NEW x \in l, x \in X, NEW y \in l
               PROVE  y \in X
    BY DEF Closed
  <2>1. CASE x = f /\ y # f
    <3>1. PICK a \in V, b \in V : l = {a, b}
      BY DEF Pairs
    <3>2. l = {f, y} /\ y \in V
      BY <2>1, <3>1
    <3>3. y \in Beside(V, E, f)
      BY <3>2 DEF Beside
    <3>4. y \in Branch(V, E, f, y)
      BY <1>1, <3>3
    <3> QED
      BY <3>3, <3>4
  <2>2. CASE x \in D
    BY <2>2 DEF Closed
  <2>3. CASE x # f /\ x \notin D /\ y # f
    <3>1. PICK n \in Beside(V, E, f) : x \in Branch(V, E, f, n)
      BY <2>3
    <3>2. l \subseteq Branch(V, E, f, n) \cup {f, n}
      BY <1>1, <3>1 DEF Closed
    <3>3. y \in Branch(V, E, f, n)
      BY <1>1, <2>3, <3>2
    <3> QED
      BY <3>3
  <2> QED
    BY <2>1, <2>2, <2>3
<1> QED
  BY <1>2, <1>3

(* What is discovered once the branches to N, but not the one to last,     *)
(* have been searched from f.                                              *)
Grown(V, E, f, last, D, N) ==
    D \cup {f} \cup UNION {Branch(V, E, f, n) : n \in N \ {last}}

LEMMA Grow ==
    ASSUME NEW V, NEW E, Pairs(V, E), Forest(V, E), NEW f \in V, NEW last,
           NEW D \in SUBSET V, NEW N \in SUBSET Beside(V, E, f),
           NEW n \in Beside(V, E, f), n \notin N, n # last,
           \A m \in Beside(V, E, f) \ {last} : D \cap Branch(V, E, f, m) = {}
    PROVE  LET G == Grown(V, E, f, last, D, N)
               B == Branch(V, E, f, n)
           IN  /\ n \notin G /\ G \cap B = {} /\ G \in SUBSET V
               /\ Grown(V, E, f, last, D, N \cup {n}) = G \cup B
<1> DEFINE G == Grown(V, E, f, last, D, N)
           B == Branch(V, E, f, n)
<1>1. /\ \A m \in Beside(V, E, f) : f \notin Branch(V, E, f, m) /\ Branch(V, E, f, m) \subseteq V
      /\ n \in B /\ f \notin B
      /\ \A m \in N : Branch(V, E, f, m) \cap B = {}
  BY BranchesApart
<1>2. D \cap B = {}
  OBVIOUS
<1> HIDE DEF B
<1>3. G \cap B = {}
  BY <1>1, <1>2 DEF Grown
<1>4. G \in SUBSET V
  BY <1>1 DEF Grown
<1>5. Grown(V, E, f, last, D, N \cup {n}) = G \cup B
  BY DEF Grown, B
<1> HIDE DEF G
<1> QED
  BY <1>1, <1>3, <1>4, <1>5 DEF G, B

-----------------------------------------------------------------------------
(* Searches in a forest, where every list names what the links say, once.  *)

Lists(g, E) ==
    /\ Pairs(Nums(g), E)
    /\ \A a \in Nums(g) :
         LET s == Neighbours(g, a)
         IN  {s[k] : k \in 1..Len(s)} = Beside(Nums(g), E, a)

(* A list may name more, if that has no place in the array.                *)
ListsWithin(g, E) ==
    /\ Pairs(Nums(g), E)
    /\ \A a \in Nums(g) :
         LET s == Neighbours(g, a)
         IN  {s[k] : k \in 1..Len(s)} \cap Nums(g) = Beside(Nums(g), E, a)

ListedOnce(g) ==
    \A a \in Nums(g) :
      LET s == Neighbours(g, a)
      IN  \A k, l \in 1..Len(s) : s[k] = s[l] => k = l

(* The devices the list of d names.                                        *)
Named(d) == {d.next[k].device_num : k \in DOMAIN d.next}

Once(d) == \A k, l \in DOMAIN d.next : d.next[k].device_num = d.next[l].device_num => k = l

(* A device that has the number of its place lists what is behind it.      *)
LEMMA ListNames ==
    ASSUME NEW g \in Seq(Node), \A i \in DOMAIN g : g[i].device_num = i, NEW a \in DOMAIN g
    PROVE  LET s == Neighbours(g, a)
           IN  /\ {s[k] : k \in 1..Len(s)} = Named(g[a])
               /\ Once(g[a]) => \A k, l \in 1..Len(s) : s[k] = s[l] => k = l
<1> DEFINE s == Neighbours(g, a)
           d == g[a]
<1>1. s = [k \in DOMAIN d.next |-> d.next[k].device_num]
  <2>1. index(g, a) = a
    BY DEF index
  <2> QED
    BY <2>1 DEF Neighbours
<1>2. d.next \in Seq([device_num : Nat, port_num : 0..255])
  <2>1. d \in Node
    BY ElementOfSeq, LenProperties
  <2> HIDE DEF d
  <2> QED
    BY <2>1 DEF Node
<1> HIDE DEF d, s
<1>3. DOMAIN d.next = 1..Len(d.next) /\ Len(d.next) \in Nat
  BY <1>2, LenProperties
<1>4. DOMAIN s = 1..Len(s)
  <2>1. Len(s) = Len(d.next)
    BY <1>1, <1>3
  <2> QED
    BY <1>1, <1>3, <2>1
<1>5. {s[k] : k \in 1..Len(s)} = Named(d)
  BY <1>1, <1>4 DEF Named
<1>6. Once(d) => \A k, l \in 1..Len(s) : s[k] = s[l] => k = l
  BY <1>1, <1>4 DEF Once
<1> QED
  BY <1>5, <1>6 DEF d, s

(* The elements of a list up to k that are in V.                           *)
Upto(V, s, k) == {s[j] : j \in 1..k} \cap V

LEMMA UptoFacts ==
    ASSUME NEW g \in Seq(Node), NEW E, ListsWithin(g, E), ListedOnce(g), NEW f \in Nums(g)
    PROVE  LET s == Neighbours(g, f)
           IN  /\ Len(s) \in Nat
               /\ Upto(Nums(g), s, 0) = {}
               /\ Upto(Nums(g), s, Len(s)) = Beside(Nums(g), E, f)
               /\ \A k \in Nat : k + 1 <= Len(s) /\ s[k + 1] \in Nums(g) =>
                    /\ Upto(Nums(g), s, k) \subseteq Beside(Nums(g), E, f)
                    /\ s[k + 1] \in Beside(Nums(g), E, f)
                    /\ s[k + 1] \notin Upto(Nums(g), s, k)
                    /\ Upto(Nums(g), s, k + 1) = Upto(Nums(g), s, k) \cup {s[k + 1]}
<1> DEFINE s == Neighbours(g, f)
           n == Len(s)
<1>1. n \in Nat
  <2>1. s \in Seq(Nat)
    BY GraphFacts
  <2> HIDE DEF s
  <2> QED
    BY <2>1, LenProperties
<1>2. /\ {s[k] : k \in 1..n} \cap Nums(g) = Beside(Nums(g), E, f)
      /\ \A k, l \in 1..n : s[k] = s[l] => k = l
  BY DEF ListsWithin, ListedOnce
<1> HIDE DEF s, n
<1>3. Upto(Nums(g), s, 0) = {} /\ Upto(Nums(g), s, n) = Beside(Nums(g), E, f)
  BY <1>2 DEF Upto
<1>4. ASSUME NEW k \in Nat, k + 1 <= n, s[k + 1] \in Nums(g)
      PROVE  /\ Upto(Nums(g), s, k) \subseteq Beside(Nums(g), E, f)
             /\ s[k + 1] \in Beside(Nums(g), E, f)
             /\ s[k + 1] \notin Upto(Nums(g), s, k)
             /\ Upto(Nums(g), s, k + 1) = Upto(Nums(g), s, k) \cup {s[k + 1]}
  <2>1. k + 1 \in 1..n /\ \A j \in 1..k : j \in 1..n /\ j # k + 1
    BY <1>1, <1>4
  <2>2. 1..k + 1 = 1..k \cup {k + 1}
    OBVIOUS
  <2>3. Upto(Nums(g), s, k + 1) = Upto(Nums(g), s, k) \cup {s[k + 1]}
    BY <1>4, <2>2 DEF Upto
  <2>4. s[k + 1] \in Beside(Nums(g), E, f) /\ Upto(Nums(g), s, k) \subseteq Beside(Nums(g), E, f)
    BY <1>2, <1>4, <2>1 DEF Upto
  <2>5. s[k + 1] \notin Upto(Nums(g), s, k)
    BY <1>2, <2>1 DEF Upto
  <2> QED
    BY <2>3, <2>4, <2>5
<1> QED
  BY <1>1, <1>3, <1>4 DEF s, n

LEMMA NamesOnlyDevices ==
    ASSUME NEW g \in Seq(Node), NEW E, Lists(g, E)
    PROVE  /\ ListsWithin(g, E)
           /\ \A a \in Nums(g) : \A k \in 1..Len(Neighbours(g, a)) :
                Neighbours(g, a)[k] \in Nums(g)
<1>1. \A a \in Nums(g) : Beside(Nums(g), E, a) \subseteq Nums(g)
  BY DEF Beside
<1> QED
  BY <1>1 DEF Lists, ListsWithin

(* The search over a link discovers the branch behind it and finds no      *)
(* loop there, or is lost.                                                 *)
LEMMA SearchInForest ==
    ASSUME NEW g \in Seq(Node), NEW E, ListsWithin(g, E), ListedOnce(g), Forest(Nums(g), E)
    PROVE  \A c \in Calls(g) :
             /\ {c[2], c[1]} \in E
             /\ c[3] \cap Branch(Nums(g), E, c[2], c[1]) = {}
             => \/ Search(g)[c].ret = Nowhere
                \/ Search(g)[c] = [ret |-> 0, disc |-> c[3] \cup Branch(Nums(g), E, c[2], c[1])]
<1> DEFINE V == Nums(g)
           P(c) == /\ {c[2], c[1]} \in E
                   /\ c[3] \cap Branch(V, E, c[2], c[1]) = {}
           Q(c) == \/ Search(g)[c].ret = Nowhere
                   \/ Search(g)[c] = [ret |-> 0, disc |-> c[3] \cup Branch(V, E, c[2], c[1])]
           T == {n \in Nat : \A c \in Calls(g) : Left(g, c) = n /\ P(c) => Q(c)}
<1>1. ASSUME NEW n \in Nat, \A m \in Nat : m < n => m \in T PROVE n \in T
  <2> SUFFICES ASSUME NEW c \in Calls(g), Left(g, c) = n, P(c) PROVE Q(c)
    OBVIOUS
  <2> DEFINE f == c[1]
             last == c[2]
             D == c[3]
             s == Neighbours(g, f)
             G(k) == Grown(V, E, f, last, D, Upto(V, s, k))
  <2>1. /\ f \in V /\ last \in V /\ D \in SUBSET V /\ Steps(g, c) = Len(s)
        /\ last \in Beside(V, E, f) /\ f \in Beside(V, E, last) /\ Pairs(V, E)
    <3>1. {last, f} = {f, last}
      OBVIOUS
    <3> QED
      BY <3>1, LeftFacts DEF Beside, Steps, ListsWithin
  <2>2. Branch(V, E, last, f) = {f} \cup UNION {Branch(V, E, f, m) : m \in Beside(V, E, f) \ {last}}
    BY <2>1, BranchIs
  <2>3. f \notin D /\ \A m \in Beside(V, E, f) \ {last} : D \cap Branch(V, E, f, m) = {}
    BY <2>2
  <2>4. /\ Len(s) \in Nat
        /\ Upto(V, s, 0) = {}
        /\ Upto(V, s, Len(s)) = Beside(V, E, f)
        /\ \A k \in Nat : k + 1 <= Len(s) /\ s[k + 1] \in V =>
             /\ Upto(V, s, k) \subseteq Beside(V, E, f)
             /\ s[k + 1] \in Beside(V, E, f)
             /\ s[k + 1] \notin Upto(V, s, k)
             /\ Upto(V, s, k + 1) = Upto(V, s, k) \cup {s[k + 1]}
    BY <2>1, UptoFacts
  <2>5. PICK w : IsWalk(w, Search(g), g, c) /\ Search(g)[c] = w[Steps(g, c)]
    BY <2>3, SearchFacts
  <2>6. \A k \in 0..Len(s) : w[k] = WalkStep(w, Search(g), g, c, k)
    BY <2>1, <2>5 DEF IsWalk
  <2>7. ASSUME NEW m \in Beside(V, E, f) \ {last}, NEW A \in SUBSET V, D \cup {f} \subseteq A,
               A \cap Branch(V, E, f, m) = {}
        PROVE  \/ Search(g)[<<m, f, A>>].ret = Nowhere
               \/ Search(g)[<<m, f, A>>] = [ret |-> 0, disc |-> A \cup Branch(V, E, f, m)]
    <3> DEFINE d == <<m, f, A>>
    <3>1. m \in V /\ {f, m} \in E
      BY DEF Beside
    <3>2. d \in Calls(g) /\ Left(g, d) < Left(g, c)
      BY <2>1, <2>3, <2>7, <3>1, Deeper
    <3>3. Left(g, d) \in Nat
      BY <3>2, LeftFacts
    <3>4. Left(g, d) \in T
      BY <1>1, <3>2, <3>3
    <3>5. d[1] = m /\ d[2] = f /\ d[3] = A
      OBVIOUS
    <3>6. P(d) => Q(d)
      <4> HIDE DEF d, P, Q
      <4> QED
        BY <3>2, <3>4
    <3> HIDE DEF d
    <3> QED
      BY <2>7, <3>1, <3>5, <3>6 DEF d
  <2> DEFINE U == {k \in Nat : k <= Len(s) =>
                     w[k].ret = Nowhere \/ w[k] = [ret |-> 0, disc |-> G(k)]}
  <2>8. 0 \in U
    <3>1. 0 \in 0..Len(s)
      BY <2>4
    <3>2. w[0] = [ret |-> 0, disc |-> D \cup {f}]
      BY <2>6, <3>1 DEF WalkStep
    <3>3. G(0) = D \cup {f}
      BY <2>4 DEF Grown
    <3> HIDE DEF G, D, f, s
    <3> QED
      BY <3>2, <3>3
  <2>9. ASSUME NEW k \in Nat, k \in U PROVE k + 1 \in U
    <3> SUFFICES ASSUME k + 1 <= Len(s)
                 PROVE  w[k + 1].ret = Nowhere \/ w[k + 1] = [ret |-> 0, disc |-> G(k + 1)]
      OBVIOUS
    <3> DEFINE m == s[k + 1]
               acc == w[k]
    <3>1. acc.ret = Nowhere \/ acc = [ret |-> 0, disc |-> G(k)]
      BY <2>4, <2>9
    <3>2. w[k + 1] = Visit(Search(g), g, c, acc, m)
      <4>1. k + 1 \in 0..Len(s) /\ k + 1 # 0 /\ (k + 1) - 1 = k
        BY <2>4
      <4>2. w[k + 1] = WalkStep(w, Search(g), g, c, k + 1)
        BY <2>6, <4>1
      <4> QED
        BY <4>1, <4>2 DEF WalkStep
    <3>3. ASSUME m \in V
          PROVE  /\ m \in Beside(V, E, f) /\ m \notin Upto(V, s, k)
                 /\ Upto(V, s, k) \subseteq Beside(V, E, f)
                 /\ Upto(V, s, k + 1) = Upto(V, s, k) \cup {m}
      BY <2>4, <3>3
    <3>6. CASE acc.ret = Nowhere
      <4>1. acc.ret # 0
        BY <3>6 DEF Nowhere
      <4>2. w[k + 1] = acc
        BY <3>2, <4>1, Zenon DEF Visit
      <4> QED
        BY <3>6, <4>2
    <3>7. CASE m \notin V /\ acc = [ret |-> 0, disc |-> G(k)]
      <4>1. acc.ret = 0 /\ m # last
        BY <2>1, <3>7
      <4>2. [acc EXCEPT !.ret = Nowhere].ret = Nowhere
        BY <3>7
      <4> HIDE DEF acc, m
      <4>3. w[k + 1] = [acc EXCEPT !.ret = Nowhere]
        BY <3>2, <3>7, <4>1 DEF Visit
      <4> QED
        BY <4>2, <4>3
    <3>4. CASE m = last /\ acc = [ret |-> 0, disc |-> G(k)]
      <4>1. G(k + 1) = G(k)
        BY <2>1, <3>3, <3>4 DEF Grown
      <4>2. w[k + 1] = acc
        BY <3>2, <3>4 DEF Visit
      <4> HIDE DEF acc, G
      <4> QED
        BY <3>4, <4>1, <4>2
    <3>5. CASE m # last /\ m \in V /\ acc = [ret |-> 0, disc |-> G(k)]
      <4> DEFINE A == G(k)
                 B == Branch(V, E, f, m)
      <4>0. /\ m \in Beside(V, E, f) /\ m \notin Upto(V, s, k)
            /\ Upto(V, s, k) \subseteq Beside(V, E, f)
            /\ Upto(V, s, k + 1) = Upto(V, s, k) \cup {m}
        BY <3>3, <3>5
      <4> HIDE DEF m, s
      <4>1. /\ m \notin A /\ A \cap B = {} /\ A \in SUBSET V
            /\ Grown(V, E, f, last, D, Upto(V, s, k) \cup {m}) = A \cup B
        <5> DEFINE N == Upto(V, s, k)
        <5>1. N \in SUBSET Beside(V, E, f) /\ m \in Beside(V, E, f) /\ m \notin N
          BY <4>0
        <5>2. f \in V /\ D \in SUBSET V /\ Pairs(V, E)
          BY <2>1
        <5> HIDE DEF N, f, D, last
        <5>3. LET Y == Grown(V, E, f, last, D, N)
                  Z == Branch(V, E, f, m)
              IN  /\ m \notin Y /\ Y \cap Z = {} /\ Y \in SUBSET V
                  /\ Grown(V, E, f, last, D, N \cup {m}) = Y \cup Z
          BY <2>3, <3>5, <5>1, <5>2, Grow
        <5> QED
          BY <5>3 DEF N
      <4>2. D \cup {f} \subseteq A
        BY DEF Grown
      <4>3. \/ Search(g)[<<m, f, A>>].ret = Nowhere
            \/ Search(g)[<<m, f, A>>] = [ret |-> 0, disc |-> A \cup B]
        BY <2>7, <3>5, <4>0, <4>1, <4>2
      <4>4. m \in V
        BY <3>5
      <4>5. acc.ret = 0 /\ acc.disc = A
        BY <3>5
      <4> HIDE DEF acc, A, B, V
      <4>6. Visit(Search(g), g, c, acc, m) = Search(g)[<<m, f, A>>]
        BY <3>5, <4>1, <4>4, <4>5 DEF Visit, V
      <4>7. G(k + 1) = A \cup B
        BY <4>0, <4>1
      <4> HIDE DEF G
      <4> QED
        BY <3>2, <4>3, <4>6, <4>7 DEF A, B
    <3> QED
      BY <3>1, <3>4, <3>5, <3>6, <3>7
  <2>10. Nat \subseteq U
    <3> HIDE DEF U
    <3> QED
      BY <2>8, <2>9, Ascent
  <2>11. w[Len(s)].ret = Nowhere \/ w[Len(s)] = [ret |-> 0, disc |-> G(Len(s))]
    BY <2>4, <2>10
  <2>12. G(Len(s)) = D \cup Branch(V, E, last, f)
    BY <2>2, <2>4 DEF Grown
  <2> HIDE DEF G
  <2> QED
    BY <2>1, <2>5, <2>11, <2>12
<1>2. Nat \subseteq T
  <2> HIDE DEF T
  <2> QED
    BY <1>1, Descent
<1>3. \A c \in Calls(g) : Left(g, c) \in T
  BY <1>2, LeftFacts
<1>4. \A c \in Calls(g) : P(c) => Q(c)
  <2> HIDE DEF P, Q
  <2> QED
    BY <1>3
<1> QED
  BY <1>4

(* No loop has been found yet, and no link leads out of what is discovered; *)
(* or a search was lost.                                                   *)
Lost(acc) == acc.loop = Nowhere

Clean(g, E, acc) ==
    \E D \in SUBSET Nums(g), b \in BOOLEAN :
      Closed(D, E) /\ acc = [loop |-> 0, disc |-> D, stop |-> b]

LEMMA FromInForest ==
    ASSUME NEW g \in Seq(Node), NEW E, ListsWithin(g, E), ListedOnce(g), Forest(Nums(g), E),
           NEW f \in Nums(g), NEW acc0, Clean(g, E, acc0), f \notin acc0.disc
    PROVE  Lost(From(g, f, acc0)) \/ Clean(g, E, From(g, f, acc0))
<1>0. PICK D \in SUBSET Nums(g), b \in BOOLEAN :
        Closed(D, E) /\ acc0 = [loop |-> 0, disc |-> D, stop |-> b] /\ f \notin D
  BY DEF Clean
<1> DEFINE V == Nums(g)
           s == Neighbours(g, f)
           a == [loop |-> 0, disc |-> D, stop |-> b]
           G(k) == Grown(V, E, f, f, D, Upto(V, s, k))
<1>1. /\ Len(s) \in Nat
      /\ Upto(V, s, 0) = {}
      /\ Upto(V, s, Len(s)) = Beside(V, E, f)
      /\ \A k \in Nat : k + 1 <= Len(s) /\ s[k + 1] \in V =>
           /\ Upto(V, s, k) \subseteq Beside(V, E, f)
           /\ s[k + 1] \in Beside(V, E, f)
           /\ s[k + 1] \notin Upto(V, s, k)
           /\ Upto(V, s, k + 1) = Upto(V, s, k) \cup {s[k + 1]}
  BY UptoFacts
<1>2. /\ \A m \in Beside(V, E, f) : D \cap Branch(V, E, f, m) = {}
      /\ Closed(D \cup {f} \cup UNION {Branch(V, E, f, m) : m \in Beside(V, E, f)}, E)
      /\ Pairs(V, E)
  BY <1>0, ClosedGrows DEF ListsWithin
<1>3. \A m \in Beside(V, E, f) : m # f /\ Branch(V, E, f, m) \subseteq V
  BY <1>2, BranchesApart
<1>4. PICK w : FromUpto(w, g, f, a, Len(s)) /\ From(g, f, a) = w[Len(s)]
  <2> HIDE DEF a
  <2> QED
    BY <1>1, FromIs
<1>5. \A k \in 0..Len(s) : w[k] = FromStep(w, g, f, a, k)
  BY <1>4 DEF FromUpto
<1>6. ASSUME NEW m \in Beside(V, E, f), NEW A \in SUBSET V, A \cap Branch(V, E, f, m) = {}
      PROVE  LET r == recursive_loop_exists(g, m, f, A)
             IN  r.ret = Nowhere \/ r = [ret |-> 0, disc |-> A \cup Branch(V, E, f, m)]
  <2> DEFINE c == <<m, f, A>>
  <2>1. m \in V /\ {f, m} \in E
    BY DEF Beside
  <2>2. c \in Calls(g) /\ c[1] = m /\ c[2] = f /\ c[3] = A
    BY <2>1 DEF Calls
  <2> HIDE DEF c
  <2>3. \/ Search(g)[c].ret = Nowhere
        \/ Search(g)[c] = [ret |-> 0, disc |-> A \cup Branch(V, E, f, m)]
    BY <1>6, <2>1, <2>2, SearchInForest
  <2>4. recursive_loop_exists(g, m, f, A) = Search(g)[c]
    BY <2>1, SearchIs, Zenon DEF Search, c
  <2> QED
    BY <2>3, <2>4
<1> DEFINE Good(k) == w[k] = [loop |-> 0, disc |-> G(k), stop |-> FALSE]
           Bad(k) == Lost(w[k]) /\ w[k].stop
           U == {k \in Nat : k <= Len(s) => Good(k) \/ Bad(k)}
<1>7. 0 \in U
  <2>1. 0 \in 0..Len(s)
    BY <1>1
  <2>2. w[0] = [loop |-> 0, disc |-> D \cup {f}, stop |-> FALSE]
    BY <1>5, <2>1 DEF FromStep
  <2>3. G(0) = D \cup {f}
    BY <1>1 DEF Grown
  <2> HIDE DEF G, s
  <2> QED
    BY <2>2, <2>3
<1>8. ASSUME NEW k \in Nat, k \in U PROVE k + 1 \in U
  <2> SUFFICES ASSUME k + 1 <= Len(s) PROVE Good(k + 1) \/ Bad(k + 1)
    OBVIOUS
  <2> DEFINE m == s[k + 1]
             acc == w[k]
             N == Upto(V, s, k)
             A == Grown(V, E, f, f, D, N)
             B == Branch(V, E, f, m)
  <2>2. w[k + 1] = FromVisit(g, f, acc, m)
    <3>1. k + 1 \in 0..Len(s) /\ k + 1 # 0 /\ (k + 1) - 1 = k
      BY <1>1
    <3>2. w[k + 1] = FromStep(w, g, f, a, k + 1)
      BY <1>5, <3>1
    <3> QED
      BY <3>1, <3>2 DEF FromStep
  <2>3. Good(k) \/ Bad(k)
    BY <1>1, <1>8
  <2>4. CASE Bad(k)
    <3>1. w[k + 1] = acc
      BY <2>2, <2>4, Zenon DEF FromVisit
    <3> QED
      BY <2>4, <3>1
  <2>5. CASE Good(k) /\ m \notin V
    <3> DEFINE r == recursive_loop_exists(g, m, f, A)
               q == r.ret # 0
    <3>1. acc.stop = FALSE /\ acc.disc = A
      BY <2>5
    <3>2. r = [ret |-> Nowhere, disc |-> A]
      BY <2>5, SearchIs, Zenon
    <3> HIDE DEF m, acc, A
    <3>3. w[k + 1] = [loop |-> r.ret, disc |-> r.disc, stop |-> q]
      BY <2>2, <3>1, Zenon DEF FromVisit
    <3>4. r.ret = Nowhere /\ q
      BY <3>2 DEF Nowhere
    <3> HIDE DEF r, q
    <3> QED
      BY <3>3, <3>4 DEF Lost
  <2>6. CASE Good(k) /\ m \in V
    <3>1. acc = [loop |-> 0, disc |-> A, stop |-> FALSE]
      BY <2>6
    <3>2. m \in Beside(V, E, f) /\ m \notin N /\ N \in SUBSET Beside(V, E, f)
          /\ Upto(V, s, k + 1) = N \cup {m} /\ m # f
      BY <1>1, <1>3, <2>6
    <3> HIDE DEF N, m, acc, V, Good, Bad, U
    <3>3. /\ m \notin A /\ A \cap B = {} /\ A \in SUBSET V
          /\ Grown(V, E, f, f, D, N \cup {m}) = A \cup B
      <4>1. f \in V /\ D \in SUBSET V /\ Forest(V, E) /\ Pairs(V, E)
            /\ \A x \in Beside(V, E, f) \ {f} : D \cap Branch(V, E, f, x) = {}
        BY <1>2 DEF V
      <4>2. m \in Beside(V, E, f) /\ m \notin N /\ N \in SUBSET Beside(V, E, f) /\ m # f
        BY <3>2
      <4> HIDE DEF s, a, G
      <4>3. LET Y == Grown(V, E, f, f, D, N)
                Z == Branch(V, E, f, m)
            IN  /\ m \notin Y /\ Y \cap Z = {} /\ Y \in SUBSET V
                /\ Grown(V, E, f, f, D, N \cup {m}) = Y \cup Z
        BY <4>1, <4>2, Grow
      <4> QED
        BY <4>3
    <3> HIDE DEF A, B
    <3> DEFINE r == recursive_loop_exists(g, m, f, A)
               q == r.ret # 0
    <3>4. r.ret = Nowhere \/ r = [ret |-> 0, disc |-> A \cup B]
      BY <1>6, <3>2, <3>3, Zenon DEF B
    <3>5. acc.stop = FALSE /\ acc.disc = A
      BY <3>1
    <3>6. w[k + 1] = [loop |-> r.ret, disc |-> r.disc, stop |-> q]
      BY <2>2, <3>5, Zenon DEF FromVisit
    <3>7. G(k + 1) = A \cup B
      BY <3>2, <3>3
    <3> HIDE DEF r, G
    <3>8. CASE r.ret = Nowhere
      <4>1. q
        BY <3>8 DEF Nowhere
      <4> HIDE DEF q
      <4> QED
        BY <3>6, <3>8, <4>1 DEF Lost, Bad
    <3>9. CASE r = [ret |-> 0, disc |-> A \cup B]
      <4>1. q = FALSE /\ r.ret = 0 /\ r.disc = A \cup B
        BY <3>9
      <4> HIDE DEF q
      <4> QED
        BY <3>6, <3>7, <4>1 DEF Good
    <3> QED
      BY <3>4, <3>8, <3>9
  <2> QED
    BY <2>3, <2>4, <2>5, <2>6
<1>9. Nat \subseteq U
  <2> HIDE DEF U
  <2> QED
    BY <1>7, <1>8, Ascent
<1>10. Good(Len(s)) \/ Bad(Len(s))
  BY <1>1, <1>9
<1>11. G(Len(s)) = D \cup {f} \cup UNION {Branch(V, E, f, m) : m \in Beside(V, E, f)}
  BY <1>1, <1>3 DEF Grown
<1>12. G(Len(s)) \in SUBSET V
  <2> DEFINE X == D \cup {f} \cup UNION {Branch(V, E, f, m) : m \in Beside(V, E, f)}
  <2>1. X \in SUBSET V
    BY <1>3
  <2> HIDE DEF X, G
  <2> QED
    BY <1>11, <2>1 DEF X
<1>13. Lost(From(g, f, acc0)) \/ From(g, f, acc0) = [loop |-> 0, disc |-> G(Len(s)), stop |-> FALSE]
  BY <1>0, <1>4, <1>10
<1>14. Closed(G(Len(s)), E)
  BY <1>2, <1>11
<1> HIDE DEF G, a, s, V
<1> QED
  BY <1>12, <1>13, <1>14 DEF Clean, V

(* Where no link is part of a loop, no loop is found; a search can only be *)
(* lost, ...                                                               *)
LEMMA LostInForest ==
    ASSUME NEW g \in Seq(Node), NEW E, ListsWithin(g, E), ListedOnce(g), Forest(Nums(g), E)
    PROVE  loop_exists(g) \in {0, Nowhere}
<1> DEFINE V == Nums(g)
<1>1. Len(g) \in Nat /\ DOMAIN g = 1..Len(g)
  BY GraphFacts
<1>2. PICK o : OuterUpto(o, g, Len(g)) /\ loop_exists(g) = o[Len(g)].loop
  BY <1>1, OuterIs
<1>3. \A k \in 0..Len(g) : o[k] = OuterStep(o, g, k)
  BY <1>2 DEF OuterUpto
<1> DEFINE U == {k \in Nat : k <= Len(g) => Lost(o[k]) \/ Clean(g, E, o[k])}
<1>4. 0 \in U
  <2>1. 0 \in 0..Len(g)
    BY <1>1
  <2>2. o[0] = [loop |-> 0, disc |-> {}, stop |-> FALSE]
    BY <1>3, <2>1 DEF OuterStep
  <2>3. Closed({}, E)
    BY DEF Closed
  <2> QED
    BY <2>2, <2>3 DEF Clean
<1>5. ASSUME NEW k \in Nat, k \in U PROVE k + 1 \in U
  <2> SUFFICES ASSUME k + 1 <= Len(g) PROVE Lost(o[k + 1]) \/ Clean(g, E, o[k + 1])
    OBVIOUS
  <2> DEFINE acc == o[k]
             f == g[k + 1].device_num
  <2>1. k + 1 \in 0..Len(g) /\ k + 1 # 0 /\ (k + 1) - 1 = k /\ k + 1 \in DOMAIN g /\ k <= Len(g)
    BY <1>1
  <2>2. Lost(acc) \/ Clean(g, E, acc)
    BY <1>5, <2>1
  <2>3. f \in V
    BY <2>1 DEF Nums
  <2>4. o[k + 1] = OuterStep(o, g, k + 1)
    BY <1>3, <2>1
  <2>5. o[k + 1] = IF f \in acc.disc \/ acc.loop = Nowhere THEN acc ELSE From(g, f, acc)
    BY <2>1, <2>4, Zenon DEF OuterStep
  <2> HIDE DEF f, acc
  <2>6. CASE Lost(acc)
    BY <2>5, <2>6 DEF Lost
  <2>7. CASE Clean(g, E, acc)
    <3>1. f \notin acc.disc => Lost(From(g, f, acc)) \/ Clean(g, E, From(g, f, acc))
      BY <2>3, <2>7, FromInForest
    <3> QED
      BY <2>5, <2>7, <3>1
  <2> QED
    BY <2>2, <2>6, <2>7
<1>6. Nat \subseteq U
  <2> HIDE DEF U
  <2> QED
    BY <1>4, <1>5, Ascent
<1>7. Lost(o[Len(g)]) \/ Clean(g, E, o[Len(g)])
  BY <1>1, <1>6
<1>8. Clean(g, E, o[Len(g)]) => o[Len(g)].loop = 0
  <2> DEFINE x == o[Len(g)]
  <2> HIDE DEF x
  <2>1. Clean(g, E, x) => x.loop = 0
    BY DEF Clean
  <2> QED
    BY <2>1 DEF x
<1> QED
  BY <1>2, <1>7, <1>8 DEF Lost

(* ... and not even that if the lists name only devices.                   *)
LEMMA NoneInForest ==
    ASSUME NEW g \in Seq(Node), NEW E, Lists(g, E), ListedOnce(g), Forest(Nums(g), E)
    PROVE  loop_exists(g) = 0
<1>1. loop_exists(g) \in {0, Nowhere}
  BY NamesOnlyDevices, LostInForest
<1>2. Mentioned(g) \subseteq Nums(g)
  <2> SUFFICES ASSUME NEW n \in Nums(g), NEW k \in DOMAIN Neighbours(g, n)
               PROVE  Neighbours(g, n)[k] \in Nums(g)
    BY DEF Mentioned
  <2>1. Neighbours(g, n) \in Seq(Nat)
    BY GraphFacts
  <2>2. k \in 1..Len(Neighbours(g, n))
    BY <2>1, LenProperties
  <2> QED
    BY <2>2, NamesOnlyDevices
<1>3. loop_exists(g) \in {0} \cup Nums(g)
  BY <1>2, LoopAnswers DEF Answers
<1>4. Nums(g) \subseteq Nat
  BY GraphFacts
<1> QED
  BY <1>1, <1>3, <1>4 DEF Nowhere

-----------------------------------------------------------------------------
(* Searches in a ring: every device has two neighbours, and a set of       *)
(* devices with r in it that no link leads out of is all of them.          *)

Ring(g, E, r) ==
    /\ Lists(g, E) /\ ListedOnce(g)
    /\ r \in Nums(g) /\ 0 \notin Nums(g)
    /\ \A a \in Nums(g) : a \notin Beside(Nums(g), E, a)
    /\ \A a \in Nums(g) : \E x, y \in Nums(g) : x # y /\ Beside(Nums(g), E, a) = {x, y}
    /\ \A S \in SUBSET Nums(g) : r \in S /\ Closed(S, E) => S = Nums(g)

(* The search has come from r: what is discovered is a path from r to the  *)
(* device searched from.                                                   *)
FromRoot(V, E, r, f, last, D) ==
    /\ f \notin D /\ last \in D /\ r \in D /\ f \in Beside(V, E, last)
    /\ \A a \in D \ {r, last} : Beside(V, E, a) \subseteq D
    /\ last = r => D = {r}
    /\ last # r => Beside(V, E, last) \subseteq D \cup {f} /\ \E z \in D : z \in Beside(V, E, r)

LEMMA BesideFacts ==
    ASSUME NEW V, NEW E, Pairs(V, E)
    PROVE  /\ \A a, b \in V : b \in Beside(V, E, a) <=> a \in Beside(V, E, b)
           /\ \A S \in SUBSET V : (\A a \in S : Beside(V, E, a) \subseteq S) => Closed(S, E)
<1>1. \A a, b \in V : {a, b} = {b, a}
  OBVIOUS
<1>2. \A a, b \in V : b \in Beside(V, E, a) <=> a \in Beside(V, E, b)
  BY <1>1 DEF Beside
<1>3. ASSUME NEW S \in SUBSET V, \A a \in S : Beside(V, E, a) \subseteq S,
             NEW l \in E, NEW x \in l, x \in S, NEW y \in l
      PROVE  y \in S
  <2>1. PICK a \in V, b \in V : l = {a, b}
    BY DEF Pairs
  <2>2. CASE x = y
    BY <1>3, <2>2
  <2>3. CASE x # y
    <3>1. l = {x, y} /\ y \in V
      BY <2>1, <2>3
    <3>2. y \in Beside(V, E, x)
      BY <3>1 DEF Beside
    <3> QED
      BY <1>3, <3>2
  <2> QED
    BY <2>2, <2>3
<1> QED
  BY <1>2, <1>3 DEF Closed

(* The next device of the ring is r, and everything is discovered; or it   *)
(* is a new one, and the path goes on to it.                               *)
LEMMA RingStep ==
    ASSUME NEW g, NEW E, NEW r, Ring(g, E, r), NEW f \in Nums(g), NEW last \in Nums(g),
           NEW D \in SUBSET Nums(g), FromRoot(Nums(g), E, r, f, last, D)
    PROVE  \E m \in Nums(g) :
             /\ m # last /\ Beside(Nums(g), E, f) = {last, m}
             /\ m \in D \cup {f} => D \cup {f} = Nums(g)
             /\ m \notin D \cup {f} => FromRoot(Nums(g), E, r, m, f, D \cup {f})
<1> DEFINE V == Nums(g)
           B(a) == Beside(V, E, a)
<1>1. /\ Pairs(V, E) /\ r \in V
      /\ \A a \in V : a \notin B(a)
      /\ \A a \in V : \E x, y \in V : x # y /\ B(a) = {x, y}
      /\ \A S \in SUBSET V : r \in S /\ Closed(S, E) => S = V
  BY DEF Ring, Lists
<1>2. /\ f \notin D /\ last \in D /\ r \in D /\ f \in B(last)
      /\ \A a \in D \ {r, last} : B(a) \subseteq D
      /\ last = r => D = {r}
      /\ last # r => B(last) \subseteq D \cup {f} /\ \E z \in D : z \in B(r)
  BY DEF FromRoot
<1>3. /\ \A a, b \in V : b \in B(a) <=> a \in B(b)
      /\ \A S \in SUBSET V : (\A a \in S : B(a) \subseteq S) => Closed(S, E)
  BY <1>1, BesideFacts
<1> HIDE DEF V, B
<1>4. f \in V /\ last \in V /\ D \in SUBSET V
  BY DEF V
<1>5. last \in B(f)
  BY <1>2, <1>3, <1>4
<1>6. PICK m \in V : m # last /\ B(f) = {last, m}
  <2>1. PICK x \in V, y \in V : x # y /\ B(f) = {x, y}
    BY <1>1, <1>4
  <2>2. last = x \/ last = y
    BY <1>5, <2>1
  <2>3. CASE last = x
    BY <2>1, <2>3
  <2>4. CASE last = y
    <3>1. x # last /\ B(f) = {last, x}
      BY <2>1, <2>4
    <3> QED
      BY <3>1
  <2> QED
    BY <2>2, <2>3, <2>4
<1>7. m # f /\ f \in B(m)
  BY <1>1, <1>3, <1>4, <1>6
<1>8. ASSUME m \in D \cup {f} PROVE D \cup {f} = V
  <2>1. m = r /\ last # r
    BY <1>2, <1>6, <1>7, <1>8
  <2>2. PICK z \in D : z \in B(r)
    BY <1>2, <2>1
  <2>3. B(r) = {z, f}
    BY <1>1, <1>2, <1>7, <2>1, <2>2
  <2>4. \A a \in D \cup {f} : B(a) \subseteq D \cup {f}
    BY <1>2, <1>6, <1>8, <2>1, <2>3
  <2>5. Closed(D \cup {f}, E)
    BY <1>3, <1>4, <2>4
  <2> QED
    BY <1>1, <1>2, <1>4, <2>5
<1>9. ASSUME m \notin D \cup {f} PROVE FromRoot(V, E, r, m, f, D \cup {f})
  <2>1. \A a \in (D \cup {f}) \ {r, f} : B(a) \subseteq D \cup {f}
    BY <1>2
  <2>2. f # r /\ B(f) \subseteq (D \cup {f}) \cup {m}
    BY <1>2, <1>6
  <2>3. \E z \in D \cup {f} : z \in B(r)
    BY <1>2
  <2>4. m \in B(f)
    BY <1>6
  <2> QED
    BY <1>2, <1>9, <2>1, <2>2, <2>3, <2>4 DEF FromRoot, B
<1> QED
  BY <1>6, <1>8, <1>9 DEF V, B

(* The search that comes from r finds the loop, and everything on the way. *)
LEMMA SearchInRing ==
    ASSUME NEW g \in Seq(Node), NEW E, NEW r, Ring(g, E, r)
    PROVE  \A c \in Calls(g) :
             FromRoot(Nums(g), E, r, c[1], c[2], c[3]) =>
               Search(g)[c].ret # 0 /\ Search(g)[c].disc = Nums(g)
<1> DEFINE V == Nums(g)
           P(c) == FromRoot(V, E, r, c[1], c[2], c[3])
           Q(x) == x.ret # 0 /\ x.disc = V
           T == {n \in Nat : \A c \in Calls(g) : Left(g, c) = n /\ P(c) => Q(Search(g)[c])}
<1>1. ASSUME NEW n \in Nat, \A m \in Nat : m < n => m \in T PROVE n \in T
  <2> SUFFICES ASSUME NEW c \in Calls(g), Left(g, c) = n, P(c) PROVE Q(Search(g)[c])
    OBVIOUS
  <2> DEFINE f == c[1]
             last == c[2]
             D == c[3]
             s == Neighbours(g, f)
             A == D \cup {f}
  <2>1. f \in V /\ last \in V /\ D \in SUBSET V /\ Steps(g, c) = Len(s) /\ f \notin D
    BY LeftFacts DEF Steps, FromRoot
  <2>2. PICK m \in V : /\ m # last /\ Beside(V, E, f) = {last, m}
                       /\ m \in A => A = V
                       /\ m \notin A => FromRoot(V, E, r, m, f, A)
    <3>1. P(c)
      OBVIOUS
    <3> HIDE DEF f, last, D, T, Q
    <3>2. FromRoot(Nums(g), E, r, f, last, D)
      BY <3>1 DEF f, last, D
    <3> HIDE DEF P
    <3> QED
      BY <2>1, <3>2, RingStep
  <2>3. /\ Len(s) \in Nat
        /\ Upto(V, s, 0) = {}
        /\ Upto(V, s, Len(s)) = Beside(V, E, f)
        /\ \A k \in Nat : k + 1 <= Len(s) =>
             /\ s[k + 1] \in Beside(V, E, f)
             /\ Upto(V, s, k + 1) = Upto(V, s, k) \cup {s[k + 1]}
    <3>1. ListsWithin(g, E) /\ ListedOnce(g)
      BY NamesOnlyDevices DEF Ring
    <3> HIDE DEF f
    <3>2. f \in Nums(g)
      BY <2>1
    <3>3. Lists(g, E)
      BY DEF Ring
    <3>4. \A k \in Nat : k + 1 <= Len(s) => k + 1 \in 1..Len(s)
      BY <3>1, <3>2, UptoFacts
    <3>5. \A k \in Nat : k + 1 <= Len(s) => s[k + 1] \in V
      BY <3>2, <3>3, <3>4, NamesOnlyDevices
    <3> QED
      BY <3>1, <3>2, <3>5, UptoFacts
  <2>4. PICK w : IsWalk(w, Search(g), g, c) /\ Search(g)[c] = w[Steps(g, c)]
    BY <2>1, SearchFacts
  <2>5. \A k \in 0..Len(s) : w[k] = WalkStep(w, Search(g), g, c, k)
    BY <2>1, <2>4 DEF IsWalk
  <2>6. m \notin A => Q(Search(g)[<<m, f, A>>])
    <3> HAVE m \notin A
    <3> DEFINE d == <<m, f, A>>
    <3>1. d \in Calls(g) /\ Left(g, d) < Left(g, c)
      BY <2>1, Deeper
    <3>2. Left(g, d) \in Nat
      BY <3>1, LeftFacts
    <3>3. Left(g, d) \in T
      BY <1>1, <3>1, <3>2
    <3>4. d[1] = m /\ d[2] = f /\ d[3] = A
      OBVIOUS
    <3>5. P(d) => Q(Search(g)[d])
      <4> HIDE DEF d, P, Q
      <4> QED
        BY <3>1, <3>3
    <3>6. P(d)
      <4> HIDE DEF d
      <4> QED
        BY <2>2, <3>4
    <3> QED
      BY <3>5, <3>6
  <2>7. m \in Nat /\ m # 0
    BY GraphFacts DEF Ring
  <2> DEFINE U == {k \in Nat : k <= Len(s) =>
                     IF m \in Upto(V, s, k) THEN Q(w[k]) ELSE w[k] = [ret |-> 0, disc |-> A]}
  <2>8. 0 \in U
    <3>1. 0 \in 0..Len(s)
      BY <2>3
    <3>2. w[0] = [ret |-> 0, disc |-> A]
      BY <2>5, <3>1 DEF WalkStep
    <3> QED
      BY <2>3, <3>2
  <2>9. ASSUME NEW k \in Nat, k \in U PROVE k + 1 \in U
    <3> SUFFICES ASSUME k + 1 <= Len(s)
                 PROVE  IF m \in Upto(V, s, k + 1) THEN Q(w[k + 1])
                        ELSE w[k + 1] = [ret |-> 0, disc |-> A]
      OBVIOUS
    <3> DEFINE x == s[k + 1]
               acc == w[k]
    <3>1. w[k + 1] = Visit(Search(g), g, c, acc, x)
      <4>1. k + 1 \in 0..Len(s) /\ k + 1 # 0 /\ (k + 1) - 1 = k
        BY <2>3
      <4>2. w[k + 1] = WalkStep(w, Search(g), g, c, k + 1)
        BY <2>5, <4>1
      <4> QED
        BY <4>1, <4>2 DEF WalkStep
    <3>2. x \in {last, m} /\ Upto(V, s, k + 1) = Upto(V, s, k) \cup {x}
      BY <2>2, <2>3
    <3>3. IF m \in Upto(V, s, k) THEN Q(acc) ELSE acc = [ret |-> 0, disc |-> A]
      BY <2>3, <2>9
    <3>4. CASE m \in Upto(V, s, k)
      <4>1. acc.ret # 0
        BY <3>3, <3>4
      <4>2. w[k + 1] = acc
        <5> HIDE DEF acc, x
        <5> QED
          BY <3>1, <4>1 DEF Visit
      <4> QED
        BY <3>2, <3>3, <3>4, <4>2
    <3>5. CASE m \notin Upto(V, s, k) /\ x = last
      <4>1. w[k + 1] = acc
        <5> HIDE DEF acc, x
        <5> QED
          BY <3>1, <3>5 DEF Visit
      <4> QED
        BY <2>2, <3>2, <3>3, <3>5, <4>1
    <3>6. CASE m \notin Upto(V, s, k) /\ x = m
      <4>1. acc = [ret |-> 0, disc |-> A]
        BY <3>3, <3>6
      <4>2. acc.ret = 0 /\ acc.disc = A
        BY <4>1
      <4>3. m \in Upto(V, s, k + 1)
        BY <3>2, <3>6
      <4>4. CASE m \in A
        <5>1. Visit(Search(g), g, c, acc, m) = [acc EXCEPT !.ret = m]
          <6> HIDE DEF acc, A, x
          <6> QED
            BY <2>2, <4>2, <4>4 DEF Visit
        <5>2. Q([acc EXCEPT !.ret = m])
          BY <2>2, <2>7, <4>1, <4>4
        <5> HIDE DEF Q, acc
        <5> QED
          BY <3>1, <3>6, <4>3, <5>1, <5>2
      <4>5. CASE m \notin A
        <5>1. Visit(Search(g), g, c, acc, m) = Search(g)[<<m, f, A>>]
          <6> HIDE DEF acc, A, x
          <6> QED
            BY <2>2, <4>2, <4>5 DEF Visit
        <5> HIDE DEF Q, acc, A
        <5> QED
          BY <2>6, <3>1, <3>6, <4>3, <4>5, <5>1
      <4> QED
        BY <4>4, <4>5
    <3> QED
      BY <3>2, <3>4, <3>5, <3>6
  <2>10. Nat \subseteq U
    <3> HIDE DEF U
    <3> QED
      BY <2>8, <2>9, Ascent
  <2>11. Q(w[Len(s)])
    <3> HIDE DEF Q
    <3> QED
      BY <2>2, <2>3, <2>10
  <2> QED
    BY <2>1, <2>4, <2>11
<1>2. Nat \subseteq T
  <2> HIDE DEF T
  <2> QED
    BY <1>1, Descent
<1>3. \A c \in Calls(g) : Left(g, c) \in T
  BY <1>2, LeftFacts
<1>4. \A c \in Calls(g) : P(c) => Q(Search(g)[c])
  <2> HIDE DEF P, Q
  <2> QED
    BY <1>3
<1> QED
  BY <1>4

(* loop_exists begins with r, and does not search again.                   *)
LEMMA FoundInRing ==
    ASSUME NEW g \in Seq(Node), NEW E, NEW r, Ring(g, E, r),
           Len(g) > 0, g[1].device_num = r
    PROVE  loop_exists(g) # 0
<1> DEFINE V == Nums(g)
           s == Neighbours(g, r)
           a == [loop |-> 0, disc |-> {}, stop |-> FALSE]
           Q(x) == x.loop # 0 /\ x.disc = V
<1>1. Len(g) \in Nat
  BY GraphFacts
<1>2. /\ Lists(g, E) /\ ListedOnce(g) /\ r \in V /\ Pairs(V, E)
      /\ r \notin Beside(V, E, r)
      /\ \E x, y \in V : x # y /\ Beside(V, E, r) = {x, y}
  BY DEF Ring, Lists
<1>3. /\ Len(s) \in Nat
      /\ Upto(V, s, 0) = {}
      /\ Upto(V, s, Len(s)) = Beside(V, E, r)
      /\ \A k \in Nat : k + 1 <= Len(s) => s[k + 1] \in Beside(V, E, r)
  <2>1. ListsWithin(g, E) /\ Len(s) \in Nat
    BY <1>2, NamesOnlyDevices, UptoFacts
  <2>2. \A k \in Nat : k + 1 <= Len(s) => k + 1 \in 1..Len(s)
    BY <2>1
  <2>3. \A k \in Nat : k + 1 <= Len(s) => s[k + 1] \in V
    BY <1>2, <2>2, NamesOnlyDevices
  <2> QED
    BY <1>2, <2>1, <2>3, UptoFacts
<1>4. Len(s) # 0
  BY <1>2, <1>3
<1>5. ASSUME NEW n \in Beside(V, E, r)
      PROVE  LET x == recursive_loop_exists(g, n, r, {r}) IN x.ret # 0 /\ x.disc = V
  <2> DEFINE c == <<n, r, {r}>>
  <2>1. n \in V /\ n # r
    BY <1>2 DEF Beside
  <2>2. c \in Calls(g) /\ c[1] = n /\ c[2] = r /\ c[3] = {r}
    BY <1>2, <2>1 DEF Calls
  <2>3. FromRoot(V, E, r, n, r, {r})
    BY <2>1 DEF FromRoot
  <2> HIDE DEF c
  <2>4. Search(g)[c].ret # 0 /\ Search(g)[c].disc = V
    <3>1. FromRoot(V, E, r, c[1], c[2], c[3])
      BY <2>2, <2>3
    <3>2. FromRoot(V, E, r, c[1], c[2], c[3]) =>
            Search(g)[c].ret # 0 /\ Search(g)[c].disc = V
      BY <2>2, SearchInRing
    <3> QED
      BY <3>1, <3>2
  <2>5. recursive_loop_exists(g, n, r, {r}) = Search(g)[c]
    BY <2>1, SearchIs, Zenon DEF Search, c
  <2> QED
    BY <2>4, <2>5
<1>6. Q(From(g, r, a))
  <2>1. PICK w : FromUpto(w, g, r, a, Len(s)) /\ From(g, r, a) = w[Len(s)]
    <3> HIDE DEF a
    <3> QED
      BY <1>3, FromIs
  <2>2. \A k \in 0..Len(s) : w[k] = FromStep(w, g, r, a, k)
    BY <2>1 DEF FromUpto
  <2>3. w[0] = [loop |-> 0, disc |-> {r}, stop |-> FALSE]
    <3>1. 0 \in 0..Len(s)
      BY <1>3
    <3> QED
      <4>1. w[0] = [a EXCEPT !.disc = @ \cup {r}, !.stop = FALSE]
        BY <2>2, <3>1 DEF FromStep
      <4>2. w[0] = [loop |-> 0, disc |-> {} \cup {r}, stop |-> FALSE]
        BY <4>1
      <4>3. {} \cup {r} = {r}
        OBVIOUS
      <4> QED
        BY <4>2, <4>3
  <2> DEFINE R(x) == Q(x) /\ x.stop
             U == {k \in Nat : k + 1 <= Len(s) => R(w[k + 1])}
  <2>4. ASSUME NEW k \in Nat, k + 1 <= Len(s)
        PROVE  w[k + 1] = FromVisit(g, r, w[k], s[k + 1])
    <3>1. k + 1 \in 0..Len(s) /\ k + 1 # 0 /\ (k + 1) - 1 = k
      BY <1>3, <2>4
    <3>2. w[k + 1] = FromStep(w, g, r, a, k + 1)
      BY <2>2, <3>1
    <3> QED
      BY <3>1, <3>2 DEF FromStep
  <2>5. 0 \in U
    <3> SUFFICES ASSUME 0 + 1 <= Len(s) PROVE R(w[0 + 1])
      OBVIOUS
    <3> DEFINE n == s[0 + 1]
               x == recursive_loop_exists(g, n, r, {r})
               b == x.ret # 0
               acc == w[0]
    <3>1. x.ret # 0 /\ x.disc = V
      BY <1>3, <1>5
    <3>2. w[0 + 1] = FromVisit(g, r, acc, n)
      BY <2>4
    <3>3. acc.stop = FALSE /\ acc.disc = {r}
      BY <2>3
    <3> HIDE DEF acc, n
    <3>4. FromVisit(g, r, acc, n) = [loop |-> x.ret, disc |-> x.disc, stop |-> b]
      BY <3>3, Zenon DEF FromVisit
    <3>5. b = TRUE
      BY <3>1
    <3> HIDE DEF b, x
    <3> QED
      BY <3>1, <3>2, <3>4, <3>5
  <2>6. ASSUME NEW k \in Nat, k \in U PROVE k + 1 \in U
    <3> SUFFICES ASSUME (k + 1) + 1 <= Len(s) PROVE R(w[(k + 1) + 1])
      OBVIOUS
    <3> DEFINE acc == w[k + 1]
    <3>1. R(acc)
      BY <1>3, <2>6
    <3>2. w[(k + 1) + 1] = FromVisit(g, r, acc, s[(k + 1) + 1])
      BY <2>4
    <3>3. FromVisit(g, r, acc, s[(k + 1) + 1]) = acc
      <4> HIDE DEF acc
      <4> QED
        BY <3>1, Zenon DEF FromVisit
    <3> HIDE DEF R, acc
    <3> QED
      BY <3>1, <3>2, <3>3
  <2>7. Nat \subseteq U
    <3> HIDE DEF U
    <3> QED
      BY <2>5, <2>6, Ascent
  <2>8. Len(s) - 1 \in Nat /\ (Len(s) - 1) + 1 = Len(s)
    BY <1>3, <1>4
  <2>9. R(w[Len(s)])
    <3>1. Len(s) - 1 \in U
      BY <2>7, <2>8
    <3> HIDE DEF R
    <3> QED
      BY <2>8, <3>1
  <2> QED
    BY <2>1, <2>9
<1>7. PICK o : OuterUpto(o, g, Len(g)) /\ loop_exists(g) = o[Len(g)].loop
  BY <1>1, OuterIs
<1>8. \A k \in 0..Len(g) : o[k] = OuterStep(o, g, k)
  BY <1>7 DEF OuterUpto
<1> DEFINE U == {k \in Nat : k + 1 <= Len(g) => Q(o[k + 1])}
<1>9. ASSUME NEW k \in Nat, k + 1 <= Len(g)
      PROVE  o[k + 1] = IF g[k + 1].device_num \in o[k].disc \/ o[k].loop = Nowhere THEN o[k]
                        ELSE From(g, g[k + 1].device_num, o[k])
  <2>1. k + 1 \in 0..Len(g) /\ k + 1 # 0 /\ (k + 1) - 1 = k
    BY <1>1, <1>9
  <2>2. o[k + 1] = OuterStep(o, g, k + 1)
    BY <1>8, <2>1
  <2> QED
    BY <2>1, <2>2, Zenon DEF OuterStep
<1>10. 0 \in U
  <2>1. 0 \in 0..Len(g) /\ 0 + 1 <= Len(g) /\ 0 + 1 = 1
    BY <1>1
  <2>2. o[0] = a
    BY <1>8, <2>1 DEF OuterStep
  <2>3. a.disc = {} /\ a.loop # Nowhere
    BY DEF Nowhere
  <2>4. o[1] = IF g[1].device_num \in o[0].disc \/ o[0].loop = Nowhere THEN o[0]
               ELSE From(g, g[1].device_num, o[0])
    BY <1>9, <2>1
  <2> HIDE DEF a
  <2>5. o[1] = From(g, r, a)
    BY <2>2, <2>3, <2>4
  <2> HIDE DEF Q
  <2> QED
    BY <1>6, <2>1, <2>5
<1>11. ASSUME NEW k \in Nat, k \in U PROVE k + 1 \in U
  <2> SUFFICES ASSUME (k + 1) + 1 <= Len(g) PROVE Q(o[(k + 1) + 1])
    OBVIOUS
  <2> DEFINE i == k + 1
  <2>1. Q(o[i]) /\ i \in Nat
    BY <1>1, <1>11
  <2>2. g[i + 1].device_num \in V
    <3>1. i + 1 \in DOMAIN g
      BY <1>1, GraphFacts
    <3> QED
      BY <3>1 DEF Nums
  <2>3. o[i + 1] = IF g[i + 1].device_num \in o[i].disc \/ o[i].loop = Nowhere THEN o[i]
                   ELSE From(g, g[i + 1].device_num, o[i])
    BY <1>9, <2>1
  <2>4. o[i + 1] = o[i]
    BY <2>1, <2>2, <2>3, Zenon
  <2> HIDE DEF Q
  <2> QED
    BY <2>1, <2>4
<1>12. Nat \subseteq U
  <2> HIDE DEF U
  <2> QED
    BY <1>10, <1>11, Ascent
<1>13. Q(o[Len(g)])
  <2>1. Len(g) - 1 \in Nat /\ (Len(g) - 1) + 1 = Len(g)
    BY <1>1
  <2>2. Len(g) - 1 \in U
    BY <1>12, <2>1
  <2> HIDE DEF Q
  <2> QED
    BY <2>1, <2>2
<1> QED
  BY <1>7, <1>13
=============================================================================
