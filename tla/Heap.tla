--------------------------------- MODULE Heap ---------------------------------
(***************************************************************************)
(* What a program may expect of its allocator: a set of blocks, each at an *)
(* address and of a size, and a word about every call.  SmartAlloc         *)
(* implements it with a table of chained records.                          *)
(***************************************************************************)
CONSTANTS
    Address,   \* where blocks may lie
    Pointer,   \* what a program may pass to free: an address, NULL
    Size       \* how many bytes a program asks for

VARIABLES
    blocks,    \* the size of every block, by its address
    said       \* what the last call reported

vars == <<blocks, said>>

with(a, n) == [x \in DOMAIN blocks \cup {a} |-> IF x = a THEN n ELSE blocks[x]]

without(a) == [x \in DOMAIN blocks \ {a} |-> blocks[x]]

-----------------------------------------------------------------------------
Init == /\ blocks = [a \in {} |-> 0]
        /\ said = "nothing"

(* A block is never handed out twice.                                      *)
Allocate(a, n) ==
    /\ blocks' = with(a, n)
    /\ said' = "nothing"

(* The block goes, every other one stays; writes over its bounds may be    *)
(* reported.                                                               *)
Release(a) ==
    /\ blocks' = without(a)
    /\ said' \in {"nothing", "past bounds"}

Move(p, n, a) ==
    /\ blocks' = [x \in (DOMAIN blocks \ {p}) \cup {a} |->
                    IF x = a THEN n ELSE blocks[x]]
    /\ said' \in {"nothing", "past bounds"}

(* What is no block cannot be freed, and trying changes nothing.           *)
Refuse(p) ==
    /\ said' = "non-malloced"
    /\ p \notin DOMAIN blocks
    /\ UNCHANGED blocks

(* The addresses at which a step lays or takes away a block.               *)
Laid == DOMAIN blocks' \ DOMAIN blocks
Taken == DOMAIN blocks \ DOMAIN blocks'

Next ==
    \/ \E p \in Pointer : Refuse(p)
    \/ \E a \in Taken : Release(a)
    \/ \E a \in Address \cap Laid, n \in Size :
         \/ Allocate(a, n)
         \/ \E p \in Taken : Move(p, n, a)

Spec == Init /\ [][Next]_vars
=============================================================================
