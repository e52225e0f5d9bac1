---------------------------- MODULE NetworkGraph ----------------------------
(***************************************************************************)
(* The network graph of the controller: the array devices of adjacency     *)
(* lists (controller.h), the first half of add_connection, which enters a  *)
(* link a probe has revealed, and loop_exists, the depth-first search that *)
(* looks for loops.  A graph is the sequence of the lists up to the first  *)
(* NULL.                                                                   *)
(***************************************************************************)
EXTENDS Integers, Sequences

(* struct node, as a head in devices and as an element of a list.          *)
Head0(n) == [device_num |-> n, next |-> << >>]
Link(n, p) == [device_num |-> n, port_num |-> p % 256]

Nums(g) == {g[i].device_num : i \in DOMAIN g}

index(g, n) == CHOOSE i \in DOMAIN g : g[i].device_num = n

Neighbours(g, n) ==
    LET list == g[index(g, n)].next IN [i \in DOMAIN list |-> list[i].device_num]

(* A wrong version of join: devices are numbered from 0.                   *)
join_from_0(g, n) == Append(g, Head0(n - 1))

(* setup_new_switch: the switch goes behind the devices there are.         *)
join(g, n) == Append(g, Head0(n))

(* Wrong versions of connect: no look for duplicates, and only one of the  *)
(* two devices learns of the link.                                         *)
connect_again(g, dest, src, dst_port, src_port) ==
    [i \in DOMAIN g |->
       IF g[i].device_num = dest
       THEN [g[i] EXCEPT !.next = Append(@, Link(src, src_port))]
       ELSE IF g[i].device_num = src
       THEN [g[i] EXCEPT !.next = Append(@, Link(dest, dst_port))]
       ELSE g[i]]

connect_dest(g, dest, src, dst_port, src_port) ==
    [i \in DOMAIN g |->
       IF g[i].device_num # dest \/ \E k \in DOMAIN g[i].next : g[i].next[k].device_num = src
       THEN g[i] ELSE [g[i] EXCEPT !.next = Append(@, Link(src, src_port))]]

(* The first half of add_connection: each of the two devices gets the      *)
(* other at the end of its list, unless the list already names either.     *)
connect(g, dest, src, dst_port, src_port) ==
    [i \in DOMAIN g |->
       LET d == g[i]
           duplicate == \E k \in DOMAIN d.next : d.next[k].device_num \in {dest, src}
       IN  IF d.device_num \notin {dest, src} \/ duplicate THEN d
           ELSE [d EXCEPT !.next =
                   Append(@, IF d.device_num = dest THEN Link(src, src_port)
                                                    ELSE Link(dest, dst_port))]]

(* What a search returns in the model that looks for a device that is not  *)
(* in the array, and reads the NULL behind its end: no device.             *)
Nowhere == -1

(* A wrong version: the link the search came over is followed too.         *)
recursive_loop_exists_back(g, find_node, last_node, discovered) ==
    LET search[c \in Nums(g) \X Nums(g) \X SUBSET Nums(g)] ==
          LET find == c[1]
              list == Neighbours(g, find)
              visit(acc, n) ==
                IF acc.ret # 0 THEN acc
                ELSE IF n \notin Nums(g) THEN [acc EXCEPT !.ret = Nowhere]
                ELSE IF n \in acc.disc THEN [acc EXCEPT !.ret = n]
                ELSE search[<<n, find, acc.disc>>]
              walk[k \in 0..Len(list)] ==
                IF k = 0 THEN [ret |-> 0, disc |-> c[3] \cup {find}]
                ELSE visit(walk[k - 1], list[k])
          IN  IF find \in c[3] THEN [ret |-> 0, disc |-> c[3]] ELSE walk[Len(list)]
    IN  IF find_node \in Nums(g) THEN search[<<find_node, last_node, discovered>>]
        ELSE [ret |-> Nowhere, disc |-> discovered]

(* The device a search from find comes back to, 0 if none, and the devices *)
(* discovered by then.  The link to last, where the search came from, is   *)
(* not followed; the walk along a list ends at the first loop.             *)
recursive_loop_exists(g, find_node, last_node, discovered) ==
    LET search[c \in Nums(g) \X Nums(g) \X SUBSET Nums(g)] ==
          LET find == c[1]
              last == c[2]
              list == Neighbours(g, find)
              visit(acc, n) ==
                IF acc.ret # 0 \/ n = last THEN acc
                ELSE IF n \notin Nums(g) THEN [acc EXCEPT !.ret = Nowhere]
                ELSE IF n \in acc.disc THEN [acc EXCEPT !.ret = n]
                ELSE search[<<n, find, acc.disc>>]
              walk[k \in 0..Len(list)] ==
                IF k = 0 THEN [ret |-> 0, disc |-> c[3] \cup {find}]
                ELSE visit(walk[k - 1], list[k])
          IN  IF find \in c[3] THEN [ret |-> 0, disc |-> c[3]] ELSE walk[Len(list)]
    IN  IF find_node \in Nums(g) THEN search[<<find_node, last_node, discovered>>]
        ELSE [ret |-> Nowhere, disc |-> discovered]

(* A wrong version: the walk along a list does not end at the first loop.  *)
loop_exists_unbroken(g) ==
    LET from(i, acc0) ==
          LET list == Neighbours(g, i)
              visit(acc, n) ==
                LET r == recursive_loop_exists(g, n, i, acc.disc)
                IN  [loop |-> r.ret, disc |-> r.disc]
              walk[k \in 0..Len(list)] ==
                IF k = 0 THEN [acc0 EXCEPT !.disc = @ \cup {i}]
                ELSE visit(walk[k - 1], list[k])
          IN  walk[Len(list)]
        outer[k \in 0..Len(g)] ==
          IF k = 0 THEN [loop |-> 0, disc |-> {}]
          ELSE LET acc == outer[k - 1]
               IN  IF g[k].device_num \in acc.disc THEN acc
                   ELSE from(g[k].device_num, acc)
    IN  outer[Len(g)].loop

(* One search from every neighbour of every device not discovered yet.  A  *)
(* loop ends the walk along the list of that device only, and the result   *)
(* of a later search replaces it.  Nothing comes after a search that was   *)
(* lost.                                                                   *)
loop_exists(g) ==
    LET from(i, acc0) ==
          LET list == Neighbours(g, i)
              visit(acc, n) ==
                IF acc.stop THEN acc
                ELSE LET r == recursive_loop_exists(g, n, i, acc.disc)
                     IN  [loop |-> r.ret, disc |-> r.disc, stop |-> r.ret # 0]
              walk[k \in 0..Len(list)] ==
                IF k = 0 THEN [acc0 EXCEPT !.disc = @ \cup {i}, !.stop = FALSE]
                ELSE visit(walk[k - 1], list[k])
          IN  walk[Len(list)]
        outer[k \in 0..Len(g)] ==
          IF k = 0 THEN [loop |-> 0, disc |-> {}, stop |-> FALSE]
          ELSE LET acc == outer[k - 1]
               IN  IF g[k].device_num \in acc.disc \/ acc.loop = Nowhere THEN acc
                   ELSE from(g[k].device_num, acc)
    IN  outer[Len(g)].loop
=============================================================================
