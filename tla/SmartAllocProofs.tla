--------------------------- MODULE SmartAllocProofs ---------------------------
(***************************************************************************)
(* That SmartAlloc implements Heap, for any addresses, sizes and number of *)
(* chains.  A chain is looked at as the set of its records: Holds says     *)
(* which they are, and the lemmas about find, push and unlink are stated   *)
(* in those terms.  The last part adds up the blocks of the table: the     *)
(* count that report_space gives.                                          *)
(***************************************************************************)
EXTENDS SmartAlloc, FiniteSetTheorems, WellFoundedInduction, TLAPS

Holds(c, r) == \E k \in DOMAIN c : c[k] = r

Unique(c) == \A j, k \in DOMAIN c : c[j].data = c[k].data => j = k

Buckets == 0..HASH_SIZE-1

-----------------------------------------------------------------------------
(* In a chain with one record per address, find leads to the record of an  *)
(* address (removeTrackNode's walk).                                       *)
LEMMA Found ==
    ASSUME NEW c \in Seq(track_t), Unique(c), NEW r, Holds(c, r)
    PROVE  find(c, r.data) \in DOMAIN c /\ c[find(c, r.data)] = r
<1>1. PICK k \in DOMAIN c : c[k] = r
  BY DEF Holds
<1>2. \A j \in DOMAIN c : c[j].data = r.data => j = k
  BY <1>1 DEF Unique
<1>3. c[k].data = r.data /\ \A j \in DOMAIN c : j < k => c[j].data # r.data
  <2>1. \A j \in DOMAIN c : j < k => j # k
    BY DOMAIN c \subseteq Nat
  <2>. QED  BY <1>1, <1>2, <2>1
<1>. DEFINE P(i) == c[i].data = r.data /\ \A j \in DOMAIN c : j < i => c[j].data # r.data
<1>4. (CHOOSE i \in DOMAIN c : P(i)) = k
  BY <1>2, <1>3
<1>. QED  BY <1>1, <1>4 DEF find

(* What find returns is 0 or the place of a record of that address.        *)
LEMMA FoundOnly ==
    ASSUME NEW c \in Seq(track_t), Unique(c), NEW x, find(c, x) # 0
    PROVE  find(c, x) \in DOMAIN c /\ c[find(c, x)].data = x
<1>1. PICK k \in DOMAIN c : c[k].data = x
  BY DEF find
<1>. QED  BY <1>1, Found DEF Holds

(* A record put in front joins those of the chain (smartalloc_track).      *)
LEMMA Pushed ==
    ASSUME NEW c \in Seq(track_t), Unique(c), NEW t \in track_t,
           \A r : Holds(c, r) => r.data # t.data
    PROVE  /\ push(c, t) \in Seq(track_t)
           /\ Unique(push(c, t))
           /\ \A r : Holds(push(c, t), r) <=> r = t \/ Holds(c, r)
<1>. DEFINE p == push(c, t)
<1>1. p \in Seq(track_t) /\ Len(p) = Len(c) + 1 /\ p[1] = t
  BY DEF push
<1>2. \A i \in 1..Len(c) : p[i + 1] = c[i]
  BY DEF push
<1>3. \A i \in 2..Len(p) : i - 1 \in 1..Len(c) /\ p[i] = c[i - 1]
  BY <1>1, <1>2
<1>4. \A i \in DOMAIN p : i = 1 \/ i \in 2..Len(p)
  BY <1>1
<1>. HIDE DEF p
<1>5. \A r : Holds(p, r) <=> r = t \/ Holds(c, r)
  <2>1. ASSUME NEW r, Holds(p, r) PROVE r = t \/ Holds(c, r)
    BY <2>1, <1>1, <1>3, <1>4 DEF Holds
  <2>2. Holds(p, t)
    BY <1>1 DEF Holds
  <2>3. ASSUME NEW r, Holds(c, r) PROVE Holds(p, r)
    <3>1. PICK k \in 1..Len(c) : c[k] = r
      BY <2>3 DEF Holds
    <3>2. k + 1 \in DOMAIN p /\ p[k + 1] = r
      BY <3>1, <1>1, <1>2
    <3>. QED  BY <3>2 DEF Holds
  <2>. QED  BY <2>1, <2>2, <2>3
<1>6. Unique(p)
  <2>. SUFFICES ASSUME NEW i \in DOMAIN p, NEW j \in DOMAIN p, p[i].data = p[j].data
                PROVE  i = j
    BY DEF Unique
  <2>0. \A k \in 1..Len(c) : c[k].data # t.data
    BY DEF Holds
  <2>1. CASE i = 1 /\ j = 1
    BY <2>1
  <2>2. CASE i = 1 /\ j \in 2..Len(p)
    BY <2>2, <2>0, <1>1, <1>3
  <2>3. CASE i \in 2..Len(p) /\ j = 1
    BY <2>3, <2>0, <1>1, <1>3
  <2>4. CASE i \in 2..Len(p) /\ j \in 2..Len(p)
    <3>1. c[i - 1].data = c[j - 1].data /\ i - 1 \in DOMAIN c /\ j - 1 \in DOMAIN c
      BY <2>4, <1>3
    <3>2. i - 1 = j - 1
      BY <3>1 DEF Unique
    <3>. QED  BY <3>2, <2>4
  <2>. QED  BY <2>1, <2>2, <2>3, <2>4, <1>4
<1>. QED  BY <1>1, <1>5, <1>6 DEF p

(* A record taken out leaves all the others (removeTrackNode).             *)
LEMMA Unlinked ==
    ASSUME NEW c \in Seq(track_t), Unique(c), NEW k \in DOMAIN c
    PROVE  /\ unlink(c, k) \in Seq(track_t)
           /\ Unique(unlink(c, k))
           /\ \A r : Holds(unlink(c, k), r) <=> Holds(c, r) /\ r.data # c[k].data
<1>. DEFINE u == unlink(c, k)
            old(i) == IF i < k THEN i ELSE i + 1
<1>0. k \in 1..Len(c) /\ Len(c) \in Nat
  OBVIOUS
<1>1. u = [i \in 1..Len(c)-1 |-> IF i < k THEN c[i] ELSE c[i + 1]]
  BY DEF unlink
<1>2. \A i \in 1..Len(c)-1 : /\ old(i) \in 1..Len(c) /\ old(i) # k
                             /\ u[i] = c[old(i)] /\ u[i] \in track_t
  <2>. SUFFICES ASSUME NEW i \in 1..Len(c)-1
                PROVE  /\ old(i) \in 1..Len(c) /\ old(i) # k
                       /\ u[i] = c[old(i)] /\ u[i] \in track_t
    OBVIOUS
  <2>1. old(i) \in 1..Len(c) /\ old(i) # k
    BY <1>0
  <2>2. u[i] = c[old(i)]
    BY <1>1
  <2>. QED  BY <2>1, <2>2
<1>3. u \in Seq(track_t) /\ Len(u) = Len(c) - 1 /\ DOMAIN u = 1..Len(c)-1
  <2>1. Len(c) - 1 \in Nat
    BY <1>0
  <2>2. u \in [1..Len(c)-1 -> track_t]
    BY <1>1, <1>2
  <2>. QED  BY <2>1, <2>2
<1>4. \A i, j \in 1..Len(c)-1 : old(i) = old(j) => i = j
  BY <1>0
<1>5. \A m \in 1..Len(c) : m # k => \E i \in 1..Len(c)-1 : old(i) = m
  <2>. SUFFICES ASSUME NEW m \in 1..Len(c), m # k
                PROVE  \E i \in 1..Len(c)-1 : old(i) = m
    OBVIOUS
  <2>1. CASE m < k
    BY <2>1, <1>0
  <2>2. CASE m > k
    <3>1. m - 1 \in 1..Len(c)-1 /\ old(m - 1) = m
      BY <2>2, <1>0
    <3>. QED  BY <3>1
  <2>. QED  BY <2>1, <2>2, <1>0
<1>. HIDE DEF u, old
<1>6. Unique(u)
  <2>. SUFFICES ASSUME NEW i \in DOMAIN u, NEW j \in DOMAIN u, u[i].data = u[j].data
                PROVE  i = j
    BY DEF Unique
  <2>1. c[old(i)].data = c[old(j)].data /\ old(i) \in DOMAIN c /\ old(j) \in DOMAIN c
    BY <1>2, <1>3
  <2>. QED  BY <2>1, <1>3, <1>4 DEF Unique
<1>7. ASSUME NEW r, Holds(u, r) PROVE Holds(c, r) /\ r.data # c[k].data
  <2>1. PICK i \in DOMAIN u : u[i] = r
    BY <1>7 DEF Holds
  <2>2. c[old(i)] = r /\ old(i) \in DOMAIN c /\ old(i) # k
    BY <2>1, <1>2, <1>3
  <2>. QED  BY <2>2 DEF Holds, Unique
<1>8. ASSUME NEW r, Holds(c, r), r.data # c[k].data PROVE Holds(u, r)
  <2>1. PICK m \in 1..Len(c) : c[m] = r
    BY <1>8 DEF Holds
  <2>2. m # k
    BY <2>1, <1>8
  <2>3. PICK i \in 1..Len(c)-1 : old(i) = m
    BY <2>2, <1>5
  <2>. QED  BY <2>1, <2>3, <1>2, <1>3 DEF Holds
<1>. QED  BY <1>3, <1>6, <1>7, <1>8 DEF u

-----------------------------------------------------------------------------
(* The invariant, in terms of records.                                     *)

Chained(th, r) == Holds(th[smartalloc_hash(r.data)], r)

LEMMA HashType == \A x \in Address : smartalloc_hash(x) \in Buckets
BY AllocAssumption DEF smartalloc_hash, Buckets

(* Every live block has its record in its chain, and Space is its size.    *)
LEMMA RecordOf ==
    ASSUME HeapInv, NEW x \in libc
    PROVE  \E r \in track_t : r.data = x /\ Holds(chain(x), r) /\ Space(x) = r.space
<1>1. x \in Address /\ smartalloc_hash(x) \in Buckets
  BY HashType DEF HeapInv, HeapTypeOK
<1>2. chain(x) \in Seq(track_t) /\ Unique(chain(x))
  BY <1>1 DEF HeapInv, HeapTypeOK, Once, chain, Buckets, Unique
<1>3. find(chain(x), x) # 0
  BY DEF HeapInv, Held
<1>4. find(chain(x), x) \in DOMAIN chain(x) /\ chain(x)[find(chain(x), x)].data = x
  BY <1>2, <1>3, FoundOnly
<1>. DEFINE r == chain(x)[find(chain(x), x)]
<1>5. r \in track_t /\ r.data = x /\ Holds(chain(x), r)
  BY <1>2, <1>4 DEF Holds
<1>6. Space(x) = r.space
  BY <1>3 DEF Space
<1>. QED  BY <1>5, <1>6

LEMMA InitInv == HeapInit => HeapInv
<1>. SUFFICES ASSUME HeapInit PROVE HeapInv
  OBVIOUS
<1>1. HeapTypeOK
  BY DEF HeapInit, HeapTypeOK
<1>2. InChain /\ Once /\ Held
  BY DEF HeapInit, InChain, Once, Held
<1>. QED  BY <1>1, <1>2 DEF HeapInv

(* A table of chains that holds one record for each address of L, in the   *)
(* chain of its hash, and no other.                                        *)
Table(th, L) ==
    /\ th \in [Buckets -> Seq(track_t)]
    /\ \A h \in Buckets : Unique(th[h])
    /\ \A h \in Buckets : \A r : Holds(th[h], r) =>
         r \in track_t /\ smartalloc_hash(r.data) = h /\ r.data \in L
    /\ \A a \in L : \E r : r.data = a /\ Holds(th[smartalloc_hash(a)], r)

(* The size removeTrackNode finds in a table.                              *)
SizeIn(th, x) ==
    LET c == th[smartalloc_hash(x)]
        k == find(c, x)
    IN  IF k = 0 THEN 0 ELSE c[k].space

(* What a table holds of an address is what is found for it.               *)
LEMMA SizeOf ==
    ASSUME NEW th, NEW L, L \subseteq Address, Table(th, L), NEW r, r.data \in L,
           Holds(th[smartalloc_hash(r.data)], r)
    PROVE  /\ find(th[smartalloc_hash(r.data)], r.data) # 0
           /\ SizeIn(th, r.data) = r.space
<1>. DEFINE c == th[smartalloc_hash(r.data)]
<1>1. c \in Seq(track_t) /\ Unique(c)
  BY HashType DEF Table
<1>2. find(c, r.data) \in DOMAIN c /\ c[find(c, r.data)] = r
  BY <1>1, Found
<1>3. find(c, r.data) # 0
  BY <1>1, <1>2
<1>. QED  BY <1>2, <1>3 DEF SizeIn

(* A block whose record stays keeps its size.                              *)
LEMMA SizeKept ==
    ASSUME NEW th, NEW L, L \subseteq Address, Table(th, L),
           NEW new, NEW M, M \subseteq Address, Table(new, M), NEW x \in L \cap M,
           \A h \in Buckets : \A r : Holds(th[h], r) /\ r.data = x => Holds(new[h], r)
    PROVE  SizeIn(new, x) = SizeIn(th, x)
<1>1. PICK r : r.data = x /\ Holds(th[smartalloc_hash(x)], r)
  BY DEF Table
<1>2. smartalloc_hash(x) \in Buckets
  BY HashType
<1>3. Holds(new[smartalloc_hash(x)], r)
  BY <1>1, <1>2
<1>. QED  BY <1>1, <1>3, SizeOf

(* What is no block is not found.                                          *)
LEMMA NotFound ==
    ASSUME NEW th, NEW L, L \subseteq Address, Table(th, L), NEW x \in Nat,
           NEW h \in Buckets, find(th[h], x) # 0
    PROVE  x \in L
<1>1. th[h] \in Seq(track_t) /\ Unique(th[h])
  BY DEF Table
<1>2. find(th[h], x) \in DOMAIN th[h] /\ th[h][find(th[h], x)].data = x
  BY <1>1, FoundOnly
<1>. QED  BY <1>2 DEF Table, Holds

LEMMA TableOfInv == HeapInv => Table(track_hash, libc)
<1>. SUFFICES ASSUME HeapInv PROVE Table(track_hash, libc)
  OBVIOUS
<1>1. track_hash \in [Buckets -> Seq(track_t)]
  BY DEF HeapInv, HeapTypeOK, Buckets
<1>2. \A h \in Buckets : Unique(track_hash[h])
  BY DEF HeapInv, Once, Unique, Buckets
<1>3. ASSUME NEW h \in Buckets, NEW r, Holds(track_hash[h], r)
      PROVE  r \in track_t /\ smartalloc_hash(r.data) = h /\ r.data \in libc
  <2>1. PICK k \in DOMAIN track_hash[h] : track_hash[h][k] = r
    BY <1>3 DEF Holds
  <2>2. track_hash[h] \in Seq(track_t)
    BY <1>1
  <2>3. r \in track_t
    BY <2>1, <2>2
  <2>. QED  BY <2>1, <2>3 DEF HeapInv, InChain, Buckets
<1>4. \A a \in libc : \E r : r.data = a /\ Holds(track_hash[smartalloc_hash(a)], r)
  BY RecordOf DEF chain
<1>. QED  BY <1>1, <1>2, <1>3, <1>4 DEF Table

LEMMA InvOfTable ==
    ASSUME Table(track_hash', libc'), libc' \subseteq Address, allocated' \in Int,
           spoiled' \subseteq libc', said' \in {"nothing", "past bounds", "non-malloced"}
    PROVE  HeapInv'
<1>1. HeapTypeOK'
  BY DEF HeapTypeOK, Buckets, Table
<1>2. InChain'
  BY DEF InChain, Holds, Buckets, Table
<1>3. Once'
  BY DEF Once, Unique, Buckets, Table
<1>4. Held'
  <2>. SUFFICES ASSUME NEW a \in libc' PROVE find(track_hash'[smartalloc_hash(a)], a) # 0
    BY DEF Held, chain
  <2>. DEFINE c == track_hash'[smartalloc_hash(a)]
  <2>1. PICK r : r.data = a /\ Holds(c, r)
    BY DEF Table
  <2>. QED  BY <2>1, SizeOf
<1>. QED  BY <1>1, <1>2, <1>3, <1>4 DEF HeapInv

(* A new block's record is added, every other one stays.                   *)
LEMMA PushTable ==
    ASSUME NEW th, NEW L, Table(th, L), NEW a \in Address, a \notin L, NEW n \in Size
    PROVE  LET t == [data |-> a, space |-> n]
               new == [th EXCEPT ![smartalloc_hash(a)] = push(@, t)]
           IN  /\ Table(new, L \cup {a})
               /\ \A h \in Buckets : \A r : Holds(th[h], r) => Holds(new[h], r)
               /\ Holds(new[smartalloc_hash(a)], t)
<1>. DEFINE t == [data |-> a, space |-> n]
            b == smartalloc_hash(a)
            new == [th EXCEPT ![b] = push(@, t)]
<1>1. b \in Buckets /\ t \in track_t
  BY HashType DEF track_t
<1>2. th[b] \in Seq(track_t) /\ Unique(th[b])
  BY <1>1 DEF Table
<1>3. \A r : Holds(th[b], r) => r.data # t.data
  BY <1>1 DEF Table
<1>4. /\ push(th[b], t) \in Seq(track_t)
      /\ Unique(push(th[b], t))
      /\ \A r : Holds(push(th[b], t), r) <=> r = t \/ Holds(th[b], r)
  BY <1>1, <1>2, <1>3, Pushed
<1>5. /\ new[b] = push(th[b], t)
      /\ \A h \in Buckets : h # b => new[h] = th[h]
      /\ new \in [Buckets -> Seq(track_t)]
  BY <1>1, <1>4 DEF Table
<1>6. t.data = a
  OBVIOUS
<1>. HIDE DEF new, t
<1>7. \A h \in Buckets : Unique(new[h])
  BY <1>4, <1>5 DEF Table
<1>8. \A h \in Buckets : \A r : Holds(th[h], r) => Holds(new[h], r)
  BY <1>4, <1>5
<1>9. Holds(new[b], t)
  BY <1>4, <1>5
<1>10. \A h \in Buckets : \A r : Holds(new[h], r) =>
          r \in track_t /\ smartalloc_hash(r.data) = h /\ r.data \in L \cup {a}
  <2>. SUFFICES ASSUME NEW h \in Buckets, NEW r, Holds(new[h], r)
                PROVE  r \in track_t /\ smartalloc_hash(r.data) = h /\ r.data \in L \cup {a}
    OBVIOUS
  <2>1. CASE Holds(th[h], r)
    BY <2>1 DEF Table
  <2>2. CASE ~Holds(th[h], r)
    <3>1. h = b /\ r = t
      BY <2>2, <1>4, <1>5
    <3>. QED  BY <3>1, <1>1, <1>6
  <2>. QED  BY <2>1, <2>2
<1>11. \A x \in L \cup {a} : \E r : r.data = x /\ Holds(new[smartalloc_hash(x)], r)
  <2>. SUFFICES ASSUME NEW x \in L \cup {a}
                PROVE  \E r : r.data = x /\ Holds(new[smartalloc_hash(x)], r)
    OBVIOUS
  <2>1. CASE x = a
    BY <2>1, <1>6, <1>9
  <2>2. CASE x \in L
    <3>1. PICK r : r.data = x /\ Holds(th[smartalloc_hash(x)], r)
      BY <2>2 DEF Table
    <3>2. CASE smartalloc_hash(x) \in Buckets
      BY <3>1, <3>2, <1>8
    <3>3. CASE smartalloc_hash(x) \notin Buckets
      BY <3>1, <3>3, <1>5 DEF Table, new
    <3>. QED  BY <3>2, <3>3
  <2>. QED  BY <2>1, <2>2
<1>12. Table(new, L \cup {a})
  BY <1>5, <1>7, <1>10, <1>11 DEF Table
<1>. QED  BY <1>8, <1>9, <1>12 DEF new, t

(* A freed block's record goes, every other one stays.                     *)
LEMMA UnlinkTable ==
    ASSUME NEW th, NEW L, L \subseteq Address, Table(th, L), NEW x \in L
    PROVE  LET b == smartalloc_hash(x)
               k == find(th[b], x)
               new == [th EXCEPT ![b] = unlink(@, k)]
           IN  /\ k \in DOMAIN th[b] /\ th[b][k] \in track_t
               /\ Table(new, L \ {x})
               /\ \A h \in Buckets : \A r : Holds(th[h], r) /\ r.data # x => Holds(new[h], r)
<1>. DEFINE b == smartalloc_hash(x)
            k == find(th[b], x)
            new == [th EXCEPT ![b] = unlink(@, k)]
<1>1. b \in Buckets
  BY HashType
<1>2. th[b] \in Seq(track_t) /\ Unique(th[b])
  BY <1>1 DEF Table
<1>3. k \in DOMAIN th[b] /\ th[b][k] \in track_t /\ th[b][k].data = x
  <2>1. PICK r : r.data = x /\ Holds(th[b], r)
    BY DEF Table
  <2>2. k \in DOMAIN th[b] /\ th[b][k] = r
    BY <2>1, <1>2, Found
  <2>. QED  BY <2>1, <2>2, <1>2
<1>4. /\ unlink(th[b], k) \in Seq(track_t)
      /\ Unique(unlink(th[b], k))
      /\ \A r : Holds(unlink(th[b], k), r) <=> Holds(th[b], r) /\ r.data # x
  BY <1>2, <1>3, Unlinked
<1>5. /\ new[b] = unlink(th[b], k)
      /\ \A h \in Buckets : h # b => new[h] = th[h]
      /\ new \in [Buckets -> Seq(track_t)]
  BY <1>1, <1>4 DEF Table
<1>. HIDE DEF new, k
<1>6. \A h \in Buckets : Unique(new[h])
  BY <1>4, <1>5 DEF Table
<1>7. \A h \in Buckets : \A r : Holds(th[h], r) /\ r.data # x => Holds(new[h], r)
  BY <1>4, <1>5
<1>8. \A h \in Buckets : \A r : Holds(new[h], r) =>
          r \in track_t /\ smartalloc_hash(r.data) = h /\ r.data \in L \ {x}
  <2>. SUFFICES ASSUME NEW h \in Buckets, NEW r, Holds(new[h], r)
                PROVE  r \in track_t /\ smartalloc_hash(r.data) = h /\ r.data \in L \ {x}
    OBVIOUS
  <2>1. Holds(th[h], r) /\ (h = b => r.data # x)
    BY <1>4, <1>5
  <2>2. r \in track_t /\ smartalloc_hash(r.data) = h /\ r.data \in L
    BY <2>1 DEF Table
  <2>3. r.data # x
    BY <2>1, <2>2
  <2>. QED  BY <2>2, <2>3
<1>9. \A y \in L \ {x} : \E r : r.data = y /\ Holds(new[smartalloc_hash(y)], r)
  <2>. SUFFICES ASSUME NEW y \in L \ {x}
                PROVE  \E r : r.data = y /\ Holds(new[smartalloc_hash(y)], r)
    OBVIOUS
  <2>1. PICK r : r.data = y /\ Holds(th[smartalloc_hash(y)], r)
    BY DEF Table
  <2>2. smartalloc_hash(y) \in Buckets
    BY HashType
  <2>. QED  BY <2>1, <2>2, <1>7
<1>10. Table(new, L \ {x})
  BY <1>5, <1>6, <1>8, <1>9 DEF Table
<1>. QED  BY <1>3, <1>7, <1>10 DEF new, k

-----------------------------------------------------------------------------
(* Every call of the allocator keeps the invariant and is a step of Heap.  *)

(* What Heap sees of the table is what the table holds.                    *)
LEMMA Mapped ==
    /\ [x \in libc |-> Space(x)] = [x \in libc |-> SizeIn(track_hash, x)]
    /\ ([x \in libc |-> Space(x)])' = [x \in libc' |-> SizeIn(track_hash', x)]
BY DEF Space, SizeIn, chain

LEMMA AllocateStep ==
    ASSUME HeapInv, NEW a \in Address, NEW n \in Size, smartalloc(a, n)
    PROVE  HeapInv' /\ H!Allocate(a, n) /\ a \notin libc
<1>1. Table(track_hash, libc) /\ libc \subseteq Address
  BY TableOfInv DEF HeapInv, HeapTypeOK
<1>. DEFINE t == [data |-> a, space |-> n]
<1>2. /\ a \notin libc /\ libc' = libc \cup {a}
      /\ track_hash' = [track_hash EXCEPT ![smartalloc_hash(a)] = push(@, t)]
      /\ said' = "nothing"
  BY DEF smartalloc
<1>3. libc' \subseteq Address /\ spoiled' \subseteq libc'
  BY DEF smartalloc, HeapInv, HeapTypeOK
<1>4. allocated' \in Int
  <2>1. allocated \in Int /\ n \in Nat /\ allocated' = allocated + n
    BY AllocAssumption DEF smartalloc, HeapInv, HeapTypeOK
  <2>. QED  BY <2>1
<1>5. /\ Table(track_hash', libc')
      /\ \A h \in Buckets : \A r : Holds(track_hash[h], r) => Holds(track_hash'[h], r)
      /\ Holds(track_hash'[smartalloc_hash(a)], t)
  BY <1>1, <1>2, PushTable
<1>6. HeapInv'
  BY <1>2, <1>3, <1>4, <1>5, InvOfTable
<1>7. ASSUME NEW x \in libc
      PROVE  SizeIn(track_hash', x) = SizeIn(track_hash, x)
  <2>1. x \in libc \cap libc'
    BY <1>2
  <2>2. \A h \in Buckets : \A r : Holds(track_hash[h], r) /\ r.data = x
           => Holds(track_hash'[h], r)
    BY <1>5
  <2>. HIDE DEF t
  <2>. QED  BY <1>1, <1>3, <1>5, <2>1, <2>2, SizeKept
<1>8. SizeIn(track_hash', a) = n
  <2>1. t.data = a /\ t.space = n
    OBVIOUS
  <2>2. a \in libc'
    BY <1>2
  <2>. HIDE DEF t
  <2>. QED  BY <2>1, <2>2, <1>3, <1>5, SizeOf
<1>9. H!Allocate(a, n)
  <2>1. H!with(a, n) = [x \in libc \cup {a} |-> IF x = a THEN n ELSE SizeIn(track_hash, x)]
    BY <1>2, Mapped DEF H!with
  <2>2. [x \in libc' |-> SizeIn(track_hash', x)]
          = [x \in libc \cup {a} |-> IF x = a THEN n ELSE SizeIn(track_hash, x)]
    BY <1>2, <1>7, <1>8
  <2>. QED  BY <1>2, <2>1, <2>2, Mapped DEF H!Allocate
<1>. QED  BY <1>2, <1>6, <1>9

(* removeTrackNode finds the record of a live block, and only of those.    *)
LEMMA FindsLive ==
    ASSUME HeapInv, NEW x \in Pointer
    PROVE  find(chain(x), x) # 0 <=> x \in libc
<1>1. Table(track_hash, libc) /\ libc \subseteq Address
  BY TableOfInv DEF HeapInv, HeapTypeOK
<1>2. x \in libc => find(chain(x), x) # 0
  BY DEF HeapInv, Held
<1>3. ASSUME find(chain(x), x) # 0 PROVE x \in libc
  <2>1. x \in Nat /\ smartalloc_hash(x) \in Buckets
    BY AllocAssumption DEF Pointer, NULL, smartalloc_hash, Buckets
  <2>. QED  BY <2>1, <1>1, <1>3, NotFound DEF chain
<1>. QED  BY <1>2, <1>3

LEMMA RefuseStep ==
    ASSUME HeapInv, NEW x \in Pointer, x \notin libc, non_malloced
    PROVE  HeapInv' /\ H!Refuse(x)
<1>1. UNCHANGED <<track_hash, allocated, libc, spoiled>> /\ said' = "non-malloced"
  BY DEF non_malloced
<1>2. Table(track_hash, libc)
  BY TableOfInv
<1>3. HeapInv'
  <2>1. allocated' \in Int /\ libc' \subseteq Address /\ spoiled' \subseteq libc'
    BY <1>1 DEF HeapInv, HeapTypeOK
  <2>. QED  BY <2>1, <1>1, <1>2, InvOfTable
<1>4. [a \in libc' |-> SizeIn(track_hash', a)] = [a \in libc |-> SizeIn(track_hash, a)]
  BY <1>1
<1>. QED  BY <1>1, <1>3, <1>4, Mapped DEF H!Refuse

LEMMA FreeStep ==
    ASSUME HeapInv, NEW x \in libc, smartfree(x)
    PROVE  HeapInv' /\ H!Release(x)
<1>. DEFINE k == find(chain(x), x)
<1>1. Table(track_hash, libc) /\ libc \subseteq Address
  BY TableOfInv DEF HeapInv, HeapTypeOK
<1>2. k # 0
  BY DEF HeapInv, Held
<1>3. /\ track_hash' = [track_hash EXCEPT ![smartalloc_hash(x)] = unlink(@, k)]
      /\ allocated' = allocated - chain(x)[k].space
      /\ libc' = libc \ {x} /\ spoiled' = spoiled \ {x}
      /\ said' \in {"nothing", "past bounds"}
  BY <1>2 DEF smartfree, freechecks
<1>4. /\ chain(x)[k] \in track_t
      /\ Table(track_hash', libc')
      /\ \A h \in Buckets : \A r :
           Holds(track_hash[h], r) /\ r.data # x => Holds(track_hash'[h], r)
  BY <1>1, <1>3, UnlinkTable DEF chain
<1>5. libc' \subseteq Address /\ spoiled' \subseteq libc'
  BY <1>3 DEF HeapInv, HeapTypeOK
<1>6. allocated' \in Int
  <2>1. allocated \in Int /\ chain(x)[k].space \in Nat
    BY <1>4, AllocAssumption DEF HeapInv, HeapTypeOK, track_t
  <2>2. allocated' = allocated - chain(x)[k].space
    BY <1>3
  <2>. QED  BY <2>1, <2>2
<1>7. HeapInv'
  BY <1>3, <1>4, <1>5, <1>6, InvOfTable
<1>. HIDE DEF k
<1>8. ASSUME NEW y \in libc' PROVE SizeIn(track_hash', y) = SizeIn(track_hash, y)
  <2>1. y \in libc \cap libc' /\ y # x
    BY <1>3
  <2>2. \A h \in Buckets : \A r : Holds(track_hash[h], r) /\ r.data = y
           => Holds(track_hash'[h], r)
    BY <1>4, <2>1
  <2>. QED  BY <1>1, <1>4, <1>5, <2>1, <2>2, SizeKept
<1>9. H!Release(x)
  <2>1. H!without(x) = [y \in libc \ {x} |-> SizeIn(track_hash, y)]
    BY Mapped DEF H!without
  <2>2. [y \in libc' |-> SizeIn(track_hash', y)] = [y \in libc \ {x} |-> SizeIn(track_hash, y)]
    BY <1>3, <1>8
  <2>. QED  BY <1>3, <2>1, <2>2, Mapped DEF H!Release
<1>. QED  BY <1>7, <1>9

LEMMA MoveStep ==
    ASSUME HeapInv, NEW x \in libc, NEW a \in Address, NEW n \in Size, smartrealloc(x, n, a)
    PROVE  HeapInv' /\ H!Move(x, n, a) /\ a \notin libc
<1>. DEFINE k == find(chain(x), x)
            t == [data |-> a, space |-> n]
            removed == [track_hash EXCEPT ![smartalloc_hash(x)] = unlink(@, k)]
            L == libc \ {x}
<1>1. Table(track_hash, libc) /\ libc \subseteq Address
  BY TableOfInv DEF HeapInv, HeapTypeOK
<1>2. k # 0
  BY DEF HeapInv, Held
<1>3. /\ a \notin libc
      /\ track_hash' = [removed EXCEPT ![smartalloc_hash(a)] = push(@, t)]
      /\ allocated' = allocated - chain(x)[k].space + n
      /\ libc' = L \cup {a} /\ spoiled' = spoiled \ {x}
      /\ said' \in {"nothing", "past bounds"}
  BY <1>2 DEF smartrealloc, freechecks
<1>4. /\ chain(x)[k] \in track_t
      /\ Table(removed, L)
      /\ \A h \in Buckets : \A r :
           Holds(track_hash[h], r) /\ r.data # x => Holds(removed[h], r)
  BY <1>1, UnlinkTable DEF chain
<1>5. t.data = a /\ t.space = n /\ a \notin L
  BY <1>3
<1>. HIDE DEF removed, L
<1>6. /\ Table(track_hash', libc')
      /\ \A h \in Buckets : \A r : Holds(removed[h], r) => Holds(track_hash'[h], r)
      /\ Holds(track_hash'[smartalloc_hash(a)], t)
  BY <1>3, <1>4, <1>5, PushTable
<1>7. libc' \subseteq Address /\ spoiled' \subseteq libc'
  BY <1>3 DEF HeapInv, HeapTypeOK, L
<1>8. allocated' \in Int
  <2>1. allocated \in Int /\ chain(x)[k].space \in Nat /\ n \in Nat
    BY <1>4, AllocAssumption DEF HeapInv, HeapTypeOK, track_t
  <2>2. allocated' = allocated - chain(x)[k].space + n
    BY <1>3
  <2>. QED  BY <2>1, <2>2
<1>9. HeapInv'
  BY <1>3, <1>6, <1>7, <1>8, InvOfTable
<1>. HIDE DEF k, t
<1>10. ASSUME NEW y \in L PROVE SizeIn(track_hash', y) = SizeIn(track_hash, y)
  <2>1. y \in libc \cap libc' /\ y # x
    BY <1>3 DEF L
  <2>2. \A h \in Buckets : \A r : Holds(track_hash[h], r) /\ r.data = y
           => Holds(track_hash'[h], r)
    BY <1>4, <1>6, <2>1
  <2>. QED  BY <1>1, <1>6, <1>7, <2>1, <2>2, SizeKept
<1>11. SizeIn(track_hash', a) = n
  <2>1. a \in libc'
    BY <1>3
  <2>. QED  BY <2>1, <1>5, <1>6, <1>7, SizeOf
<1>12. H!Move(x, n, a)
  <2>1. [y \in (DOMAIN [z \in libc |-> Space(z)] \ {x}) \cup {a} |->
            IF y = a THEN n ELSE [z \in libc |-> Space(z)][y]]
          = [y \in L \cup {a} |-> IF y = a THEN n ELSE SizeIn(track_hash, y)]
    BY Mapped DEF L
  <2>2. [y \in libc' |-> SizeIn(track_hash', y)]
          = [y \in L \cup {a} |-> IF y = a THEN n ELSE SizeIn(track_hash, y)]
    BY <1>3, <1>10, <1>11
  <2>. QED  BY <1>3, <2>1, <2>2, Mapped DEF H!Move
<1>. QED  BY <1>3, <1>9, <1>12

LEMMA WriteStep ==
    ASSUME HeapInv, NEW x \in Address, write_past(x)
    PROVE  HeapInv' /\ UNCHANGED H!vars
<1>1. UNCHANGED <<track_hash, allocated, libc, said>> /\ spoiled' = spoiled \cup {x} /\ x \in libc
  BY DEF write_past
<1>2. Table(track_hash, libc)
  BY TableOfInv
<1>3. HeapInv'
  <2>1. /\ allocated' \in Int /\ libc' \subseteq Address /\ spoiled' \subseteq libc'
        /\ said' \in {"nothing", "past bounds", "non-malloced"}
    BY <1>1 DEF HeapInv, HeapTypeOK
  <2>. QED  BY <2>1, <1>1, <1>2, InvOfTable
<1>4. [a \in libc' |-> SizeIn(track_hash', a)] = [a \in libc |-> SizeIn(track_hash, a)]
  BY <1>1
<1>. QED  BY <1>1, <1>3, <1>4, Mapped DEF H!vars

(* Every step of SmartAlloc keeps HeapInv and is one of Heap's.            *)
LEMMA NextStep == HeapInv /\ [HeapNext]_heapVars => HeapInv' /\ [H!Next]_(H!vars)
<1>. SUFFICES ASSUME HeapInv, [HeapNext]_heapVars PROVE HeapInv' /\ [H!Next]_(H!vars)
  OBVIOUS
<1>0. /\ libc \subseteq Address /\ Address \subseteq Pointer
      /\ H!Laid = libc' \ libc /\ H!Taken = libc \ libc'
  BY DEF HeapInv, HeapTypeOK, Pointer, H!Laid, H!Taken
<1>1. ASSUME NEW a \in Address, NEW n \in Size, smartalloc(a, n)
      PROVE  HeapInv' /\ H!Next
  <2>1. HeapInv' /\ H!Allocate(a, n) /\ a \notin libc
    BY <1>1, AllocateStep
  <2>2. a \in H!Laid
    BY <1>0, <1>1, <2>1 DEF smartalloc
  <2>. QED  BY <2>1, <2>2 DEF H!Next
<1>2. ASSUME NEW x \in Pointer, smartfree(x)
      PROVE  HeapInv' /\ H!Next
  <2>1. CASE x \in libc
    <3>1. HeapInv' /\ H!Release(x)
      BY <2>1, <1>2, FreeStep
    <3>2. x \in H!Taken
      BY <1>0, <1>2, <2>1, FindsLive DEF smartfree
    <3>. QED  BY <3>1, <3>2 DEF H!Next
  <2>2. CASE x \notin libc
    <3>1. non_malloced
      BY <2>2, <1>2, FindsLive DEF smartfree
    <3>2. HeapInv' /\ H!Refuse(x)
      BY <2>2, <3>1, RefuseStep
    <3>. QED  BY <3>2 DEF H!Next
  <2>. QED  BY <2>1, <2>2
<1>3. ASSUME NEW x \in Address, NEW a \in Address, NEW n \in Size, smartrealloc(x, n, a)
      PROVE  HeapInv' /\ H!Next
  <2>1. CASE x \in libc
    <3>1. HeapInv' /\ H!Move(x, n, a) /\ a \notin libc
      BY <2>1, <1>3, MoveStep
    <3>2. a \in H!Laid /\ x \in H!Taken
      BY <1>0, <1>3, <2>1, <3>1, FindsLive DEF smartrealloc
    <3>. QED  BY <3>1, <3>2 DEF H!Next
  <2>2. CASE x \notin libc
    <3>1. non_malloced
      BY <2>2, <1>0, <1>3, FindsLive DEF smartrealloc
    <3>2. HeapInv' /\ H!Refuse(x)
      BY <2>2, <3>1, <1>0, RefuseStep
    <3>. QED  BY <3>2, <1>0 DEF H!Next
  <2>. QED  BY <2>1, <2>2
<1>4. ASSUME NEW x \in Address, write_past(x)
      PROVE  HeapInv' /\ UNCHANGED H!vars
  BY <1>4, WriteStep
<1>5. CASE UNCHANGED heapVars
  <2>1. UNCHANGED <<track_hash, allocated, libc, spoiled, said>>
    BY <1>5 DEF heapVars
  <2>2. HeapInv'
    BY <2>1 DEF HeapInv, HeapTypeOK, InChain, Once, Held, chain
  <2>3. [a \in libc' |-> SizeIn(track_hash', a)] = [a \in libc |-> SizeIn(track_hash, a)]
    BY <2>1
  <2>. QED  BY <2>1, <2>2, <2>3, Mapped DEF H!vars
<1>. QED  BY <1>1, <1>2, <1>3, <1>4, <1>5 DEF HeapNext

-----------------------------------------------------------------------------
(* Whatever the program calls in whatever order, every live block has      *)
(* exactly one record, in the chain removeTrackNode searches.              *)
THEOREM TableSound == HeapSpec => []HeapInv
<1>1. HeapInv /\ [HeapNext]_heapVars => HeapInv'
  BY NextStep
<1>. QED  BY <1>1, InitInv, PTL DEF HeapSpec

(* smartalloc.c is an allocator: a table of chained records with           *)
(* removeTrackNode, for any number of chains, implements a map of blocks.  *)
THEOREM SmartAllocIsHeap == HeapSpec => ImplementsHeap
<1>1. HeapInit => H!Init
  BY DEF HeapInit, H!Init
<1>2. HeapInv /\ [HeapNext]_heapVars => [H!Next]_(H!vars)
  BY NextStep
<1>. QED  BY <1>1, <1>2, TableSound, PTL DEF HeapSpec, ImplementsHeap, H!Spec

-----------------------------------------------------------------------------
Less == {p \in Nat \X Nat : p[1] < p[2]}

(* Induction, in a form that takes a set and no operator: a set of numbers *)
(* that is not empty has a least one ...                                   *)
LEMMA Least ==
    ASSUME NEW T, T \subseteq Nat, T # {}
    PROVE  \E x \in T : \A y \in T : x <= y
<1>1. OpToRel(<, Nat) = Less
  BY DEF OpToRel, Less
<1>2. IsWellFoundedOn(Less, Nat)
  BY <1>1, NatLessThanWellFounded
<1>3. PICK x \in T : \A y \in T : <<y, x>> \notin Less
  BY <1>2, WFMin
<1>4. ASSUME NEW y \in T PROVE x <= y
  <2>1. y \in Nat /\ x \in Nat /\ <<y, x>> \in Nat \X Nat /\ <<y, x>> \notin Less
    BY <1>3
  <2> QED
    BY <2>1 DEF Less
<1> QED
  BY <1>4

(* ... and a set that has 0 and the successor of all it has, has all.       *)
LEMMA Induction ==
    ASSUME NEW T, 0 \in T, \A n \in Nat : n \in T => n + 1 \in T
    PROVE  Nat \subseteq T
<1> DEFINE U == Nat \ T
<1> SUFFICES ASSUME U # {} PROVE FALSE
  OBVIOUS
<1>1. PICK x \in U : \A y \in U : x <= y
  BY Least
<1>2. x \in Nat /\ x \notin T /\ x # 0
  OBVIOUS
<1>3. x - 1 \in Nat /\ (x - 1) + 1 = x /\ ~(x <= x - 1)
  BY <1>2
<1>4. x - 1 \in T
  BY <1>1, <1>3
<1> QED
  BY <1>2, <1>3, <1>4

-----------------------------------------------------------------------------
(* MapThenSumSet adds up a set in the order CHOOSE takes its members.  It  *)
(* is a value of a function on the subsets, one for every order of         *)
(* unfolding it; that there is one, and that the order does not matter,    *)
(* is by induction on their size.                                          *)

SumStep(p, f, s) ==
    IF s = {} THEN 0 ELSE LET x == CHOOSE x \in s : TRUE IN f[x] + p[s \ {x}]

Sums(p, f, S) == p = [s \in SUBSET S |-> SumStep(p, f, s)]

(* There is such a function for every finite set.                          *)
LEMMA SumsExist ==
    ASSUME NEW f, NEW S, IsFiniteSet(S)
    PROVE  \E p : Sums(p, f, S)
<1> DEFINE Upto(p, n) == /\ DOMAIN p = SUBSET S
                         /\ \A s \in SUBSET S : Cardinality(s) <= n => p[s] = SumStep(p, f, s)
           T == {n \in Nat : \E p : Upto(p, n)}
<1>0. \A s \in SUBSET S : IsFiniteSet(s) /\ Cardinality(s) \in Nat
                          /\ Cardinality(s) <= Cardinality(S)
  BY FS_Subset, FS_CardinalityType
<1>1. 0 \in T
  <2> DEFINE p == [s \in SUBSET S |-> 0]
  <2>1. ASSUME NEW s \in SUBSET S, Cardinality(s) <= 0 PROVE p[s] = SumStep(p, f, s)
    <3>1. s = {}
      BY <1>0, <2>1, FS_EmptySet
    <3> QED
      BY <3>1 DEF SumStep
  <2>2. Upto(p, 0)
    BY <2>1
  <2> HIDE DEF Upto, p
  <2> QED
    BY <2>2
<1>2. ASSUME NEW n \in Nat, n \in T PROVE n + 1 \in T
  <2>1. PICK p : Upto(p, n)
    BY <1>2
  <2> DEFINE q == [s \in SUBSET S |-> IF Cardinality(s) <= n THEN p[s] ELSE SumStep(p, f, s)]
  <2>2. \A s \in SUBSET S : Cardinality(s) <= n => q[s] = p[s]
    OBVIOUS
  <2>3. ASSUME NEW s \in SUBSET S, Cardinality(s) <= n + 1 PROVE q[s] = SumStep(q, f, s)
    <3>1. q[s] = SumStep(p, f, s)
      BY <2>1
    <3>2. CASE s = {}
      BY <3>1, <3>2 DEF SumStep
    <3>3. CASE s # {}
      <4> DEFINE x == CHOOSE x \in s : TRUE
      <4>1. x \in s
        BY <3>3
      <4>2. Cardinality(s \ {x}) = Cardinality(s) - 1
        BY <4>1, <1>0, FS_RemoveElement
      <4>3. s \ {x} \in SUBSET S /\ Cardinality(s \ {x}) <= n
        BY <4>2, <2>3, <1>0
      <4>4. q[s \ {x}] = p[s \ {x}]
        BY <4>3, <2>2
      <4> QED
        BY <3>1, <3>3, <4>4 DEF SumStep
    <3> QED
      BY <3>2, <3>3
  <2>4. DOMAIN q = SUBSET S
    OBVIOUS
  <2> HIDE DEF q
  <2>5. Upto(q, n + 1) /\ n + 1 \in Nat
    BY <2>3, <2>4
  <2> HIDE DEF Upto
  <2> QED
    BY <2>5
<1>3. Nat \subseteq T
  <2> HIDE DEF T
  <2> QED
    BY <1>1, <1>2, Induction
<1>4. PICK p : Upto(p, Cardinality(S))
  BY <1>0, <1>3
<1>5. \A s \in SUBSET S : p[s] = SumStep(p, f, s)
  BY <1>0, <1>4
<1> HIDE DEF T, Upto
<1> DEFINE r == [s \in SUBSET S |-> SumStep(p, f, s)]
<1>6. ASSUME NEW s \in SUBSET S PROVE SumStep(r, f, s) = SumStep(p, f, s)
  BY <1>5 DEF SumStep
<1>7. Sums(r, f, S)
  BY <1>6 DEF Sums
<1> QED
  BY <1>7

(* Any member may be taken out first.                                      *)
LEMMA SumsOut ==
    ASSUME NEW S, IsFiniteSet(S), NEW f, \A x \in S : f[x] \in Int,
           NEW p, Sums(p, f, S), NEW s \in SUBSET S
    PROVE  p[s] \in Int /\ \A x \in s : p[s] = f[x] + p[s \ {x}]
<1> DEFINE Out(t) == p[t] \in Int /\ \A x \in t : p[t] = f[x] + p[t \ {x}]
           T == {n \in Nat : \A t \in SUBSET S : Cardinality(t) <= n => Out(t)}
<1>0. \A t \in SUBSET S : IsFiniteSet(t) /\ Cardinality(t) \in Nat /\ p[t] = SumStep(p, f, t)
  BY FS_Subset, FS_CardinalityType DEF Sums
<1>1. 0 \in T
  <2>1. ASSUME NEW t \in SUBSET S, Cardinality(t) <= 0 PROVE Out(t)
    <3>1. t = {}
      BY <1>0, <2>1, FS_EmptySet
    <3> QED
      BY <3>1, <1>0 DEF SumStep
  <2> QED
    BY <2>1
<1>2. ASSUME NEW n \in Nat, n \in T PROVE n + 1 \in T
  <2> SUFFICES ASSUME NEW t \in SUBSET S, Cardinality(t) <= n + 1, t # {} PROVE Out(t)
    <3>1. Out({})
      <4>1. Cardinality({}) <= n
        BY FS_EmptySet
      <4> QED
        BY <4>1, <1>2
    <3> HIDE DEF Out
    <3> QED
      BY <3>1
  <2> DEFINE c == CHOOSE c \in t : TRUE
  <2>2. c \in t /\ p[t] = f[c] + p[t \ {c}]
    BY <1>0 DEF SumStep
  <2> HIDE DEF c
  <2>3. ASSUME NEW x \in t PROVE t \ {x} \in SUBSET S /\ Out(t \ {x})
    <3>1. t \ {x} \in SUBSET S /\ Cardinality(t \ {x}) <= n
      BY <1>0, FS_RemoveElement
    <3> HIDE DEF Out
    <3> QED
      BY <3>1, <1>2
  <2>4. p[t] \in Int
    BY <2>2, <2>3
  <2>5. ASSUME NEW x \in t, x # c PROVE p[t] = f[x] + p[t \ {x}]
    <3>1. p[t \ {c}] = f[x] + p[(t \ {c}) \ {x}]
      BY <2>2, <2>3, <2>5
    <3>2. p[t \ {x}] = f[c] + p[(t \ {x}) \ {c}]
      BY <2>2, <2>3, <2>5
    <3>3. (t \ {c}) \ {x} = (t \ {x}) \ {c}
      OBVIOUS
    <3>4. f[x] \in Int /\ f[c] \in Int /\ p[(t \ {x}) \ {c}] \in Int
      <4>1. (t \ {x}) \ {c} \in SUBSET S /\ Cardinality((t \ {x}) \ {c}) <= n
        <5>1. t \ {x} \in SUBSET S
          OBVIOUS
        <5>2. Cardinality(t \ {x}) = Cardinality(t) - 1
          BY <1>0, FS_RemoveElement
        <5>3. Cardinality((t \ {x}) \ {c}) = Cardinality(t \ {x}) - 1
          BY <5>1, <1>0, <2>2, <2>5, FS_RemoveElement
        <5> QED
          BY <1>0, <5>1, <5>2, <5>3
      <4>2. p[(t \ {x}) \ {c}] \in Int
        BY <4>1, <1>2
      <4> QED
        BY <2>2, <4>2
    <3>5. p[t] = f[c] + (f[x] + p[(t \ {x}) \ {c}])
      BY <2>2, <3>1, <3>3
    <3>6. \A i, j, k \in Int : i + (j + k) = j + (i + k)
      OBVIOUS
    <3> QED
      BY <3>2, <3>4, <3>5, <3>6
  <2> QED
    BY <2>2, <2>4, <2>5
<1>3. Nat \subseteq T
  <2> HIDE DEF T
  <2> QED
    BY <1>1, <1>2, Induction
<1> QED
  BY <1>0, <1>3

(* What the sum is depends on the members and their values only.           *)
LEMMA SumsSame ==
    ASSUME NEW S, NEW R, IsFiniteSet(S), NEW f, NEW g,
           \A x \in S : f[x] \in Int, NEW p, NEW q, Sums(p, f, S), Sums(q, g, R),
           S \subseteq R, \A x \in S : f[x] = g[x]
    PROVE  p[S] = q[S]
<1> DEFINE T == {n \in Nat : \A t \in SUBSET S : Cardinality(t) <= n => p[t] = q[t]}
<1>0. \A t \in SUBSET S : /\ IsFiniteSet(t) /\ Cardinality(t) \in Nat
                          /\ p[t] = SumStep(p, f, t) /\ q[t] = SumStep(q, g, t)
  BY FS_Subset, FS_CardinalityType DEF Sums
<1>1. 0 \in T
  <2>1. ASSUME NEW t \in SUBSET S, Cardinality(t) <= 0 PROVE p[t] = q[t]
    <3>1. t = {}
      BY <1>0, <2>1, FS_EmptySet
    <3> QED
      BY <3>1, <1>0 DEF SumStep
  <2> QED
    BY <2>1
<1>2. ASSUME NEW n \in Nat, n \in T PROVE n + 1 \in T
  <2> SUFFICES ASSUME NEW t \in SUBSET S, Cardinality(t) <= n + 1 PROVE p[t] = q[t]
    OBVIOUS
  <2>1. CASE t = {}
    BY <2>1, <1>0 DEF SumStep
  <2>2. CASE t # {}
    <3> DEFINE c == CHOOSE c \in t : TRUE
    <3>1. c \in t /\ p[t] = f[c] + p[t \ {c}] /\ q[t] = g[c] + q[t \ {c}]
      BY <2>2, <1>0 DEF SumStep
    <3> HIDE DEF c
    <3>2. t \ {c} \in SUBSET S /\ Cardinality(t \ {c}) <= n
      BY <3>1, <1>0, FS_RemoveElement
    <3>3. p[t \ {c}] = q[t \ {c}]
      BY <3>2, <1>2
    <3> QED
      BY <3>1, <3>3
  <2> QED
    BY <2>1, <2>2
<1>3. Nat \subseteq T
  <2> HIDE DEF T
  <2> QED
    BY <1>1, <1>2, Induction
<1> QED
  BY <1>0, <1>3

(* The sum over a finite map, and what a member more or less does to it.   *)
Total(m) == MapThenSumSet(LAMBDA x : m[x], DOMAIN m)

Counts(m) == IsFiniteSet(DOMAIN m) /\ \A x \in DOMAIN m : m[x] \in Int

(* Total is one of those sums.                                             *)
LEMMA TotalIs ==
    ASSUME NEW m, Counts(m)
    PROVE  \E p : Sums(p, m, DOMAIN m) /\ Total(m) = p[DOMAIN m]
<1> DEFINE q == CHOOSE p : Sums(p, m, DOMAIN m)
<1>1. Sums(q, m, DOMAIN m)
  BY SumsExist DEF Counts
<1>2. Total(m) = q[DOMAIN m]
  BY DEF Total, MapThenSumSet, MapThenFoldSet, Sums, SumStep
<1> QED
  BY <1>1, <1>2

(* A block is taken from a map of blocks.                                  *)
LEMMA TotalWithout ==
    ASSUME NEW m, Counts(m), NEW x \in DOMAIN m,
           NEW n, DOMAIN n = DOMAIN m \ {x}, \A y \in DOMAIN n : n[y] = m[y]
    PROVE  Counts(n) /\ Total(n) \in Int /\ Total(m) = m[x] + Total(n)
<1>1. Counts(n)
  BY FS_RemoveElement DEF Counts
<1>2. PICK p : Sums(p, m, DOMAIN m) /\ Total(m) = p[DOMAIN m]
  BY TotalIs
<1>3. PICK q : Sums(q, n, DOMAIN n) /\ Total(n) = q[DOMAIN n]
  BY <1>1, TotalIs
<1>4. p[DOMAIN m] = m[x] + p[DOMAIN n]
  BY <1>2, SumsOut DEF Counts
<1>5. q[DOMAIN n] \in Int
  BY <1>1, <1>3, SumsOut DEF Counts
<1>6. q[DOMAIN n] = p[DOMAIN n]
  BY <1>1, <1>2, <1>3, SumsSame DEF Counts
<1> QED
  BY <1>1, <1>2, <1>3, <1>4, <1>5, <1>6

-----------------------------------------------------------------------------
(* report_space.  Every call changes the sum of the blocks by as much as   *)
(* allocated.                                                              *)
blocks == [x \in libc |-> Space(x)]

AccountsInv == HeapInv /\ Counts(blocks) /\ AccountsExact

(* AccountsExact and Total add up the same.                                *)
LEMMA SumOfBlocks == Counts(blocks) => MapThenSumSet(Space, libc) = Total(blocks)
<1> SUFFICES ASSUME Counts(blocks) PROVE MapThenSumSet(Space, libc) = Total(blocks)
  OBVIOUS
<1>1. \A p : [s \in SUBSET libc |-> IF s = {} THEN 0 ELSE
                  LET x == CHOOSE x \in s : TRUE IN Space(x) + p[s \ {x}]]
             = [s \in SUBSET libc |-> SumStep(p, blocks, s)]
  BY DEF SumStep, blocks
<1>2. MapThenSumSet(Space, libc)
        = LET q == CHOOSE p : p = [s \in SUBSET libc |-> SumStep(p, blocks, s)] IN q[libc]
  BY <1>1 DEF MapThenSumSet, MapThenFoldSet
<1>3. Total(blocks)
        = LET q == CHOOSE p : p = [s \in SUBSET libc |-> SumStep(p, blocks, s)] IN q[libc]
  BY DEF Total, MapThenSumSet, MapThenFoldSet, SumStep, blocks
<1> QED
  BY <1>2, <1>3

(* A block is added to a map of blocks.                                    *)
LEMMA TotalWith ==
    ASSUME NEW m, Counts(m), NEW a, a \notin DOMAIN m, NEW i \in Int,
           NEW n, n = [x \in DOMAIN m \cup {a} |-> IF x = a THEN i ELSE m[x]]
    PROVE  Counts(n) /\ Total(n) = i + Total(m)
<1>1. DOMAIN n = DOMAIN m \cup {a} /\ n[a] = i /\ \A x \in DOMAIN m : m[x] = n[x]
  OBVIOUS
<1>2. Counts(n)
  BY <1>1, FS_AddElement DEF Counts
<1>3. DOMAIN m = DOMAIN n \ {a} /\ a \in DOMAIN n
  BY <1>1
<1> QED
  BY <1>1, <1>2, <1>3, TotalWithout

LEMMA InitAccounts == HeapInit => AccountsInv
<1> SUFFICES ASSUME HeapInit PROVE AccountsInv
  OBVIOUS
<1>1. HeapInv
  BY InitInv
<1>2. libc = {} /\ allocated = 0
  BY DEF HeapInit
<1>3. DOMAIN blocks = {}
  BY <1>2 DEF blocks
<1>4. Counts(blocks)
  BY <1>3, FS_EmptySet DEF Counts
<1>5. PICK p : Sums(p, blocks, DOMAIN blocks) /\ Total(blocks) = p[DOMAIN blocks]
  BY <1>4, TotalIs
<1>6. Total(blocks) = 0
  BY <1>3, <1>5 DEF Sums, SumStep
<1> QED
  BY <1>1, <1>2, <1>4, <1>6, SumOfBlocks DEF AccountsInv, AccountsExact

(* What a free takes off is what the block had.                            *)
LEMMA SpaceOf ==
    ASSUME HeapInv, NEW x \in libc
    PROVE  /\ x \in DOMAIN blocks
           /\ blocks[x] = chain(x)[find(chain(x), x)].space
           /\ blocks[x] \in Int
<1>1. PICK r \in track_t : r.data = x /\ Holds(chain(x), r) /\ Space(x) = r.space
  BY RecordOf
<1>2. find(chain(x), x) # 0
  BY DEF HeapInv, Held
<1>3. x \in DOMAIN blocks /\ blocks[x] = Space(x)
  BY DEF blocks
<1>4. Space(x) = chain(x)[find(chain(x), x)].space
  BY <1>2 DEF Space
<1>5. Space(x) \in Int
  <2>1. r.space \in Size /\ Size \subseteq Nat
    BY AllocAssumption DEF track_t
  <2>2. r.space \in Nat
    BY <2>1, Zenon
  <2>3. Space(x) = r.space
    BY <1>1
  <2> QED
    BY <2>2, <2>3
<1> QED
  BY <1>3, <1>4, <1>5

(* Every call keeps the count right.                                       *)
LEMMA AccountsStep ==
    ASSUME AccountsInv, [HeapNext]_heapVars
    PROVE  AccountsInv'
<1>0. HeapInv /\ HeapInv' /\ Counts(blocks) /\ allocated = Total(blocks)
  BY NextStep, SumOfBlocks DEF AccountsInv, AccountsExact
<1> SUFFICES Counts(blocks') /\ allocated' = Total(blocks')
  <2>1. (Counts(blocks) => MapThenSumSet(Space, libc) = Total(blocks))'
    BY SumOfBlocks, PTL
  <2> QED
    BY <1>0, <2>1 DEF AccountsInv, AccountsExact
<1>1. DOMAIN blocks = libc /\ DOMAIN blocks' = libc'
  BY DEF blocks
<1>2. libc \subseteq Address /\ allocated \in Int
  BY <1>0 DEF HeapInv, HeapTypeOK
<1>3. ASSUME NEW a \in Address, NEW n \in Size, smartalloc(a, n)
      PROVE  Counts(blocks') /\ allocated' = Total(blocks')
  <2>1. H!Allocate(a, n) /\ a \notin libc
    BY <1>0, <1>3, AllocateStep
  <2>2. blocks' = [x \in DOMAIN blocks \cup {a} |-> IF x = a THEN n ELSE blocks[x]]
    BY <2>1 DEF H!Allocate, H!with, blocks
  <2>3. n \in Int /\ allocated' = allocated + n
    BY <1>3, AllocAssumption DEF smartalloc
  <2>4. Counts(blocks') /\ Total(blocks') = n + Total(blocks)
    BY <1>0, <1>1, <2>1, <2>2, <2>3, TotalWith
  <2> QED
    BY <1>0, <1>2, <2>3, <2>4
<1>4. ASSUME non_malloced
      PROVE  Counts(blocks') /\ allocated' = Total(blocks')
  <2>1. blocks' = blocks /\ allocated' = allocated
    BY <1>4 DEF non_malloced, blocks, Space, chain
  <2> QED
    BY <1>0, <2>1
<1>5. ASSUME NEW x \in Pointer, smartfree(x)
      PROVE  Counts(blocks') /\ allocated' = Total(blocks')
  <2>1. CASE x \notin libc
    BY <1>0, <1>4, <1>5, <2>1, FindsLive DEF smartfree
  <2>2. CASE x \in libc
    <3>1. H!Release(x)
      BY <1>0, <1>5, <2>2, FreeStep
    <3>2. blocks' = [y \in DOMAIN blocks \ {x} |-> blocks[y]]
      BY <3>1 DEF H!Release, H!without, blocks
    <3>3. find(chain(x), x) # 0
      BY <1>0, <2>2 DEF HeapInv, Held
    <3>4. allocated' = allocated - blocks[x]
      BY <1>0, <1>5, <2>2, <3>3, SpaceOf DEF smartfree
    <3>5. /\ Counts(blocks') /\ Total(blocks') \in Int
          /\ Total(blocks) = blocks[x] + Total(blocks')
      BY <1>0, <1>1, <2>2, <3>2, TotalWithout
    <3>6. blocks[x] \in Int
      BY <1>0, <2>2, SpaceOf
    <3> QED
      BY <1>0, <3>4, <3>5, <3>6
  <2> QED
    BY <2>1, <2>2
<1>6. ASSUME NEW x \in Address, NEW a \in Address, NEW n \in Size, smartrealloc(x, n, a)
      PROVE  Counts(blocks') /\ allocated' = Total(blocks')
  <2>1. CASE x \notin libc
    <3>1. x \in Pointer
      BY DEF Pointer
    <3> QED
      BY <1>0, <1>4, <1>6, <2>1, <3>1, FindsLive DEF smartrealloc
  <2>2. CASE x \in libc
    <3>1. H!Move(x, n, a) /\ a \notin libc
      BY <1>0, <1>6, <2>2, MoveStep
    <3> DEFINE rest == [y \in DOMAIN blocks \ {x} |-> blocks[y]]
    <3>2. blocks' = [y \in DOMAIN rest \cup {a} |-> IF y = a THEN n ELSE rest[y]]
      BY <3>1 DEF H!Move, blocks
    <3>3. find(chain(x), x) # 0
      BY <1>0, <2>2 DEF HeapInv, Held
    <3>4. allocated' = allocated - blocks[x] + n
      BY <1>0, <1>6, <2>2, <3>3, SpaceOf DEF smartrealloc
    <3>5. DOMAIN rest = DOMAIN blocks \ {x} /\ \A y \in DOMAIN rest : rest[y] = blocks[y]
      OBVIOUS
    <3> HIDE DEF rest
    <3>6. /\ Counts(rest) /\ Total(rest) \in Int
          /\ Total(blocks) = blocks[x] + Total(rest)
      BY <1>0, <1>1, <2>2, <3>5, TotalWithout
    <3>7. n \in Int /\ a \notin DOMAIN rest
      BY <1>1, <3>1, <3>5, AllocAssumption
    <3> DEFINE new == [y \in DOMAIN rest \cup {a} |-> IF y = a THEN n ELSE rest[y]]
    <3>8. Counts(new) /\ Total(new) = n + Total(rest)
      <4>1. Counts(rest)
        BY <3>6
      <4>2. new = [y \in DOMAIN rest \cup {a} |-> IF y = a THEN n ELSE rest[y]]
        OBVIOUS
      <4> HIDE DEF new
      <4> QED
        BY <4>1, <4>2, <3>7, TotalWith
    <3>9. blocks[x] \in Int
      BY <1>0, <2>2, SpaceOf
    <3> QED
      <4> HIDE DEF new
      <4>1. Counts(blocks') /\ Total(blocks') = n + Total(rest)
        BY <3>2, <3>8 DEF new
      <4> QED
        BY <1>0, <3>4, <3>6, <3>7, <3>9, <4>1
  <2> QED
    BY <2>1, <2>2
<1>7. ASSUME UNCHANGED <<track_hash, allocated, libc>>
      PROVE  Counts(blocks') /\ allocated' = Total(blocks')
  <2>1. blocks' = blocks
    BY <1>7 DEF blocks, Space, chain
  <2> QED
    BY <1>0, <1>7, <2>1
<1>8. ASSUME NEW x \in Address, write_past(x)
      PROVE  Counts(blocks') /\ allocated' = Total(blocks')
  BY <1>7, <1>8 DEF write_past
<1>9. CASE UNCHANGED heapVars
  BY <1>7, <1>9 DEF heapVars
<1> QED
  BY <1>3, <1>5, <1>6, <1>8, <1>9 DEF HeapNext

(* The count of allocated bytes is the number of bytes in live blocks      *)
(* after any calls in any order (report_space, smartalloc.c:17-19).        *)
THEOREM AccountsCorrect == HeapSpec => []AccountsExact
<1>1. AccountsInv /\ [HeapNext]_heapVars => AccountsInv'
  BY AccountsStep
<1>2. AccountsInv => AccountsExact
  BY DEF AccountsInv
<1> QED
  BY <1>1, <1>2, InitAccounts, PTL DEF HeapSpec
=============================================================================
