----------------------------- MODULE MCLifetime -----------------------------
(***************************************************************************)
(* A small heap for Lifetime: two addresses to listen on, room for         *)
(* three switches, and kinds of blocks of different size.                  *)
(***************************************************************************)
EXTENDS Lifetime

(* Enough for three switches linked in a ring, where alarms are given.     *)
MCAddress == 1..18

MCBytes ==
    [k \in Kind |-> CASE k \in {"network", "node"} -> 1
                      [] k \in {"devices", "switch_list"} -> 2 [] OTHER -> 3]

MCSizes == 1..4
=============================================================================
