------------------------------ MODULE Topology ------------------------------
(***************************************************************************)
(* The network graph as the controller builds it: switches join, and       *)
(* probes that come in reveal links, in any order and any number of times. *)
(* Every graph NetworkGraph's operators can build is a state of this       *)
(* machine; found remembers what was really discovered.                    *)
(***************************************************************************)
EXTENDS NetworkGraph, FiniteSets

CONSTANTS
    MaxDevices,   \* bound: switches that join
    MaxLinks,     \* bound: different links that are discovered
    Cables        \* the pairs <<dest, src>> a probe can come in on

ASSUME BoundsAssumption == MaxDevices \in Nat /\ MaxLinks \in Nat

VARIABLES
    devices,   \* network_graph->devices up to its first NULL
    found      \* history: the links probes have come in on, {dest, src}

vars == <<devices, found>>

-----------------------------------------------------------------------------
Init == devices = << >> /\ found = {}

(* A switch connects; its descriptor is the next one.                      *)
Join == /\ Len(devices) < MaxDevices
        /\ devices' = join(devices, Len(devices) + 1)
        /\ UNCHANGED found

(* The probe of src comes back from dest; dest got it on the port that is  *)
(* cabled to src, named after src here.                                    *)
Discover ==
    \E c \in Cables :
      /\ {c[1], c[2]} \subseteq Nums(devices)
      /\ {c[1], c[2]} \in found \/ Cardinality(found) < MaxLinks
      /\ devices' = connect(devices, c[1], c[2], 0, c[2])
      /\ found' = found \cup {{c[1], c[2]}}

Next == Join \/ Discover

Spec == Init /\ [][Next]_vars

-----------------------------------------------------------------------------
(* Every variable has its type, and only devices that joined have links.   *)
TypeOK ==
    /\ devices \in Seq([device_num : Nat \ {0},
                        next : Seq([device_num : Nat \ {0}, port_num : 0..255])])
    /\ found \in SUBSET SUBSET Nums(devices)

(* The lists are the discovered links: a device's list names exactly the   *)
(* devices it has a link with, in both directions and each only once,      *)
(* however often probes cross a link (add_connection's duplicate check).   *)
(* Only the list of a switch that is cabled to itself may lack some: it    *)
(* names the switch, which makes later links look like duplicates.         *)
GraphExact ==
    \A i \in DOMAIN devices :
      LET a == devices[i].device_num
          list == Neighbours(devices, a)
      IN  /\ \A n \in Nums(devices) :
                /\ (\E k \in DOMAIN list : list[k] = n) => {a, n} \in found
                /\ {a, n} \in found /\ {a} \notin found => \E k \in DOMAIN list : list[k] = n
          /\ \A k, l \in DOMAIN list : list[k] = list[l] => k = l

(* b can be reached from a over discovered links other than the link cut.  *)
Reachable(a, b, cut) ==
    \A S \in SUBSET Nums(devices) :
      a \in S /\ (\A l \in found \ {cut} : l \cap S # {} => l \subseteq S) => b \in S

(* Taking one of the links of n away, its other end is still reachable.    *)
OnCycle(n) == \E l \in found : n \in l /\ \A m \in l \ {n} : Reachable(m, n, l)

(* The alarm is never false: there is a loop somewhere (a patch cable is   *)
(* one).  The device loop_exists names need not lie on it: a loop ends the *)
(* walk along the list of the device it was found from, and a later search *)
(* takes the links passed over to that device for a way back to it.        *)
AlarmMeansLoop == loop_exists(devices) # 0 => \E n \in Nums(devices) : OnCycle(n)

(* When the discovered network is one ring through all its switches, the   *)
(* loop is found, in whatever order switches and links were discovered.    *)
RingFound ==
    /\ Len(devices) >= 3
    /\ \A n \in Nums(devices) :
         Cardinality({l \in found : n \in l}) = 2 /\ OnCycle(n)
    /\ \A n \in Nums(devices) : Reachable(1, n, {})
    => loop_exists(devices) # 0

(* "performs DFS on the network graph in order to find if there are loops" *)
(* (controller.c:103).                                                     *)
AllLoopsFound ==
    (\E n \in Nums(devices) : OnCycle(n)) => loop_exists(devices) # 0
=============================================================================
