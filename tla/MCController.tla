---------------------------- MODULE MCController ----------------------------
(***************************************************************************)
(* Small networks for Controller.  A header is one cell; most messages are *)
(* nothing but a header, a PACKET_IN is two cells long.  How single        *)
(* messages are cut into pieces is Session's question; this is about       *)
(* connections that meet.                                                  *)
(***************************************************************************)
EXTENDS Controller

MCSize == [t \in MsgType |-> IF t = "PACKET_IN" THEN 2 ELSE 1]

MCHello == [i \in Switches |-> Msg("HELLO", 1)]

MCReplies ==
    [t \in {"FEATURES_REQUEST", "MULTIPART_REQUEST"} |->
       IF t = "FEATURES_REQUEST" THEN Msg("FEATURES_REPLY", 1)
                                 ELSE [Msg("MULTIPART_REPLY", 1) EXCEPT !.port = 6]]

(* What the rest of a message that was cut short may be taken for.         *)
Misread == {Msg("ERROR", 1), Msg("ECHO_REQUEST", 2)}

Cable(a, p, b, q) == [from |-> a, fromPort |-> p, to |-> b, toPort |-> q]

Pair == {Cable(1, 1, 2, 2)}

(* Three switches in a ring; the ports are numbered differently on each.   *)
Triangle == {Cable(1, 1, 2, 2), Cable(2, 3, 3, 4), Cable(3, 5, 1, 6)}

Echo == {Msg("ECHO_REQUEST", 1)}

(* Two switches that are not connected.                                    *)
Apart == {}

(* A frame that is no probe, but has a length, 38, where Ethernet has a    *)
(* type: there is no device of that number.                                *)
Stray == [Msg("PACKET_IN", 2) EXCEPT !.info = "probe", !.fd = 38, !.port = 3]

EchoOrStray == Echo \cup {Stray}

Quiet == {}

Nobody == [i \in Switches |-> 0]

First == [i \in Switches |-> IF i = 1 THEN 1 ELSE 0]

Second == [i \in Switches |-> IF i = 2 THEN 1 ELSE 0]

(* The first switch is older than OpenFlow 1.3.                            *)
MCOldHello == [MCHello EXCEPT ![1].info = "old"]
=============================================================================
