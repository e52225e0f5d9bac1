----------------------------- MODULE MCSession -----------------------------
(***************************************************************************)
(* Small instances of Session.  A header is 2 cells and a buffer 8, so     *)
(* that a header and a body can each arrive and leave in several pieces    *)
(* and the two flow mods of a learned host just fill the write buffer.     *)
(***************************************************************************)
EXTENDS Session

MCSize ==
    [t \in MsgType |->
       CASE t \in {"FLOW_MOD", "PACKET_OUT"} -> 4
         [] t \in {"HELLO", "SET_CONFIG", "MULTIPART_REQUEST", "PORT_MOD"} -> 3
         [] OTHER -> 2]

MCHello == Msg("HELLO", 3)

MCReplies ==
    [t \in {"FEATURES_REQUEST", "MULTIPART_REQUEST"} |->
       IF t = "FEATURES_REQUEST" THEN Msg("FEATURES_REPLY", 3)
                                 ELSE [Msg("MULTIPART_REPLY", 4) EXCEPT !.port = 1]]

PacketIn(info, port) ==
    [Msg("PACKET_IN", 4) EXCEPT !.info = info, !.port = port]

Talk == { Msg("ECHO_REQUEST", 2), Msg("ECHO_REQUEST", 4),
          PacketIn("host", 1), PacketIn("probe", 1) }

(* Everything the switch can say, an OFPT_ERROR included.                  *)
AllTalk == Talk \cup
    { PacketIn("action", 1), PacketIn("probe", 2), Msg("PORT_STATUS", 3), Msg("FLOW_REMOVED", 3),
      Msg("ERROR", 3) }

(* An echo request with more data than the buffers were allocated for.     *)
LongTalk == { Msg("ECHO_REQUEST", 10) }
=============================================================================
