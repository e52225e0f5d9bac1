----------------------------- MODULE MCTopology -----------------------------
(* Small instances of Topology.                                            *)
EXTENDS Topology

MCDevices == 5

(* Every cable between two different switches, in both directions ...      *)
Trunks == {c \in (1..MCDevices) \X (1..MCDevices) : c[1] # c[2]}

(* ... and two patch cables, each between two ports of the same switch.    *)
Patches == {<<1, 1>>, <<3, 3>>}

TrunksAndPatches == Trunks \cup Patches
=============================================================================
