------------------------------ MODULE SmartAlloc ------------------------------
(***************************************************************************)
(* smartalloc.c, the allocator controller.c is compiled with: a hash table *)
(* of records of the live blocks, a count of their bytes, and checks when  *)
(* a block is freed.  Spec lets a program call it in any way; Lifetime is  *)
(* the program.                                                            *)
(*                                                                         *)
(* The program is one thread, so the mutex is never contended.  Its calls  *)
(* all pass through smartalloc: needs_free is 1 and margin is MARGIN in    *)
(* every record, and both are left out.                                    *)
(***************************************************************************)
EXTENDS Integers, Sequences, FiniteSetsExt

CONSTANTS
    Address,     \* the addresses the C library may hand out
    HASH_SIZE,   \* the number of chains
    Size         \* how many bytes the program asks for

NULL == 0

Pointer == Address \cup {NULL}

ASSUME AllocAssumption ==
    /\ Address \subseteq Nat \ {NULL}
    /\ HASH_SIZE \in Nat \ {0}
    /\ Size \subseteq Nat

VARIABLES
    track_hash,   \* the chains
    allocated,    \* bytes in live blocks
    libc,         \* addresses the C library has handed out
    spoiled,      \* live blocks that have been written past their bounds
    said          \* what the last call reported

heapVars == <<track_hash, allocated, libc, spoiled, said>>

track_t == [data : Address, space : Size]

smartalloc_hash(x) == x % HASH_SIZE

chain(x) == track_hash[smartalloc_hash(x)]

-----------------------------------------------------------------------------
HeapInit ==
    /\ track_hash = [h \in 0..HASH_SIZE-1 |-> << >>]
    /\ allocated = 0
    /\ libc = {}
    /\ spoiled = {}
    /\ said = "nothing"

(* A wrong version: the new record takes the place of the chain.           *)
push_alone(c, t) == << t >>

(* smartalloc_track puts the new record in front.                          *)
push(c, t) == << t >> \o c

(* The place of the record of x in its chain, 0 if it has none.            *)
find(c, x) ==
    IF \E k \in DOMAIN c : c[k].data = x
    THEN CHOOSE k \in DOMAIN c :
           c[k].data = x /\ \A j \in DOMAIN c : j < k => c[j].data # x
    ELSE 0

(* A wrong version: the rest of the chain is cut off.                      *)
unlink_rest(c, k) == SubSeq(c, 1, k - 1)

unlink(c, k) == [i \in 1..Len(c)-1 |-> IF i < k THEN c[i] ELSE c[i + 1]]

smartalloc(a, bytes) ==
    /\ a \in Address \ libc
    /\ libc' = libc \cup {a}
    /\ track_hash' = [track_hash EXCEPT ![smartalloc_hash(a)] =
                        push(@, [data |-> a, space |-> bytes])]
    /\ allocated' = allocated + bytes
    /\ said' = "nothing"
    /\ UNCHANGED spoiled

(* Writing into the margin of a block is noticed when it is freed.         *)
freechecks(x) == IF x \in spoiled THEN "past bounds" ELSE "nothing"

non_malloced ==
    /\ said' = "non-malloced"
    /\ UNCHANGED <<track_hash, allocated, libc, spoiled>>

(* A wrong version: the bytes are not taken off.                           *)
smartfree_uncounted(x) ==
    LET k == find(chain(x), x)
    IN  IF k = 0 THEN non_malloced
        ELSE /\ track_hash' = [track_hash EXCEPT ![smartalloc_hash(x)] = unlink(@, k)]
             /\ libc' = libc \ {x}
             /\ said' = freechecks(x)
             /\ spoiled' = spoiled \ {x}
             /\ UNCHANGED allocated

(* removeTrackNode, freechecks and free.                                   *)
smartfree(x) ==
    LET k == find(chain(x), x)
    IN  IF k = 0 THEN non_malloced
        ELSE /\ track_hash' = [track_hash EXCEPT ![smartalloc_hash(x)] = unlink(@, k)]
             /\ allocated' = allocated - chain(x)[k].space
             /\ libc' = libc \ {x}
             /\ said' = freechecks(x)
             /\ spoiled' = spoiled \ {x}

(* The record of the old block goes, the new one is allocated while the C  *)
(* library still holds the old one, which is freed last.                   *)
smartrealloc(x, bytes, a) ==
    LET k == find(chain(x), x)
        removed == [track_hash EXCEPT ![smartalloc_hash(x)] = unlink(@, k)]
    IN  IF k = 0 THEN non_malloced
        ELSE /\ a \in Address \ libc
             /\ track_hash' = [removed EXCEPT ![smartalloc_hash(a)] =
                                 push(@, [data |-> a, space |-> bytes])]
             /\ allocated' = allocated - chain(x)[k].space + bytes
             /\ libc' = (libc \ {x}) \cup {a}
             /\ said' = freechecks(x)
             /\ spoiled' = spoiled \ {x}

(* The program writes up to MARGIN bytes past the bounds of its block.     *)
write_past(x) ==
    /\ x \in libc
    /\ spoiled' = spoiled \cup {x}
    /\ UNCHANGED <<track_hash, allocated, libc, said>>

HeapNext ==
    \/ \E a \in Address, n \in Size : smartalloc(a, n)
    \/ \E x \in Pointer : smartfree(x)
    \/ \E x, a \in Address, n \in Size : smartrealloc(x, n, a)
    \/ \E x \in Address : write_past(x)

HeapSpec == HeapInit /\ [][HeapNext]_heapVars

-----------------------------------------------------------------------------
(* Every variable of the allocator has its type; every record is in the    *)
(* chain its address hashes to, where removeTrackNode looks for it; no two *)
(* are of one address; and they are the blocks the C library has given.    *)
HeapTypeOK ==
    /\ track_hash \in [0..HASH_SIZE-1 -> Seq(track_t)]
    /\ allocated \in Int
    /\ libc \subseteq Address
    /\ spoiled \subseteq libc
    /\ said \in {"nothing", "past bounds", "non-malloced"}

InChain ==
    \A h \in 0..HASH_SIZE-1 : \A k \in DOMAIN track_hash[h] :
       /\ smartalloc_hash(track_hash[h][k].data) = h
       /\ track_hash[h][k].data \in libc

Once ==
    \A h \in 0..HASH_SIZE-1 : \A j, k \in DOMAIN track_hash[h] :
       track_hash[h][j].data = track_hash[h][k].data => j = k

Held == \A a \in libc : find(chain(a), a) # 0

HeapInv == HeapTypeOK /\ InChain /\ Once /\ Held

(* The size removeTrackNode finds for a block, 0 if it finds none.         *)
Space(a) ==
    LET k == find(chain(a), a) IN IF k = 0 THEN 0 ELSE chain(a)[k].space

(* report_space is the number of bytes of unfreed memory (smartalloc.c,    *)
(* lines 17-19), in whatever order the records of a chain were freed.      *)
AccountsExact == allocated = MapThenSumSet(Space, libc)

(* SmartAlloc is an allocator: taking a record out of a chain, wherever it *)
(* is, takes exactly that block away, and what is no live block is refused *)
(* (removeTrackNode, smartfree, smartrealloc).                             *)
H == INSTANCE Heap WITH blocks <- [a \in libc |-> Space(a)]

ImplementsHeap == H!Spec
=============================================================================
