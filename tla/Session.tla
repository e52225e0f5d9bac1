------------------------------ MODULE Session ------------------------------
(***************************************************************************)
(* One switch talking to the controller: the handshake, the partial reads  *)
(* and writes of handle_read_socket and handle_write_socket on the record  *)
(* of SwitchIO, and the switch at the other end of the connection.  The    *)
(* connection is served alone here; Controller puts many of them in the    *)
(* select loop, where they can disturb one another.                        *)
(***************************************************************************)
EXTENDS SwitchIO

CONSTANTS
    SwitchFd,     \* the socket of the connection
    SwitchMsg,    \* what the switch may say of its own accord
    Replies,      \* its answers to FEATURES_REQUEST and MULTIPART_REQUEST
    Hello,        \* its HELLO
    MaxSaid       \* bound: messages the switch says of its own accord

VARIABLES
    sw,     \* the struct of_switch
    sock,   \* cells the switch has sent and the controller has not received
    tx,     \* cells the controller has sent and the switch has not consumed
    peer    \* the switch: messages it got, echoes asked, messages it may say

vars == <<sw, sock, tx, peer>>

ASSUME SwitchAssumption ==
    /\ SwitchFd \in Nat
    /\ MaxSaid \in Nat
    /\ Replies \in [{"FEATURES_REQUEST", "MULTIPART_REQUEST"} -> Message]
    /\ Hello \in Message
    /\ SwitchMsg \subseteq Message
    /\ \A t \in DOMAIN Replies : Replies[t].type # "ECHO_REQUEST"
    /\ Hello.type = "HELLO" /\ Hello.info # "old"
    /\ \A m \in SwitchMsg \cup {Hello} \cup {Replies[t] : t \in DOMAIN Replies} :
          HDR <= m.len /\ m.len < 65536

(* Nothing the switch says is longer than the buffers.                     *)
ShortMessages ==
    \A m \in SwitchMsg \cup {Hello} \cup {Replies[t] : t \in DOMAIN Replies} :
       m.len <= BUF

(* What the switch keeps of a message it was sent.                         *)
Note(m) == [type |-> m.type, xid |-> m.xid]

Got(types) == Pick(peer.log, [type : types, xid : Nat])

(* The two default flows are installed: table 0 misses go to the           *)
(* controller.  Before that the switch drops what it has no flow for.      *)
Configured == Len(Got({"FLOW_MOD"})) >= 2

-----------------------------------------------------------------------------
Init == /\ sw = new_switch
        /\ sock = Cells(Hello)
        /\ tx = << >>
        /\ peer = [log |-> << >>, asked |-> 0, left |-> MaxSaid]

(* select reports the socket readable and handle_read_socket runs.  n      *)
(* cells are received; then either more are needed, or the header or the   *)
(* whole message is there.  The reply to a probe that closes a loop at     *)
(* this switch is a PORT_MOD.                                              *)
ReadStep ==
    /\ sw.rw = READ
    /\ \E n \in 1..Len(sock) :
         /\ n <= sw.bytes_expected
         /\ LET s1 == read_from(sw, n, SubSeq(sock, 1, n))
            IN  IF s1.bytes_expected # 0
                THEN sw' = s1
                ELSE \E m \in Header(s1) :
                       LET s2 == parse_header(s1, m)
                           s3 == dispatch(s2, SwitchFd, m)
                       IN  IF s2.bytes_expected # 0
                           THEN sw' = s2
                           ELSE \/ sw' = await_next_header(s3)
                                \/ /\ s2.of_status = "PACKET_IN" /\ m.info = "probe"
                                   /\ sw' = change_port_behavior(s3, m.port)
         /\ sock' = SubSeq(sock, n + 1, Len(sock))
    /\ UNCHANGED <<tx, peer>>

(* select reports the socket writable and handle_write_socket runs; the    *)
(* kernel takes n cells of what is pending.                                *)
WriteStep ==
    /\ sw.rw = WRITE
    /\ \E n \in 1..sw.bytes_expected :
         /\ sw' = handle_write_socket(sw, n)
         /\ tx' = tx \o SubSeq(Pending(sw), 1, n)
    /\ UNCHANGED <<sock, peer>>

Response(m) ==
    IF m.type \in DOMAIN Replies THEN Cells(Replies[m.type])
    ELSE IF refuses(m) THEN Cells(Own("ERROR"))
    ELSE << >>

(* The switch consumes the next message, once all of it has arrived, and   *)
(* answers the two requests, or with an error.                             *)
SwitchReceives ==
    /\ tx # << >> /\ tx[1].pos = 1 /\ tx[1].msg.len <= Len(tx)
    /\ LET m == tx[1].msg
       IN  /\ tx' = SubSeq(tx, m.len + 1, Len(tx))
           /\ sock' = sock \o Response(m)
           /\ peer' = [peer EXCEPT !.log = Append(@, Note(m))]
    /\ UNCHANGED sw

(* The switch says something of its own accord.  Only a configured switch  *)
(* has frames to hand to the controller, only a learned flow can expire.   *)
SwitchSays ==
    /\ peer.left > 0
    /\ \E m \in SwitchMsg :
         /\ m.type = "PACKET_IN" => Configured
         /\ m.type = "FLOW_REMOVED" => Len(Got({"FLOW_MOD"})) > 2
         /\ LET asked == peer.asked + (IF m.type = "ECHO_REQUEST" THEN 1 ELSE 0)
            IN  /\ sock' = sock \o Cells([m EXCEPT !.xid = asked])
                /\ peer' = [peer EXCEPT !.asked = asked, !.left = @ - 1]
    /\ UNCHANGED <<sw, tx>>

Next == ReadStep \/ WriteStep \/ SwitchReceives \/ SwitchSays

Spec == Init /\ [][Next]_vars

(* The select loop serves a ready socket on its next turn, and the switch  *)
(* reads what it is sent.  Nobody makes the switch talk.                   *)
Fairness == WF_vars(ReadStep) /\ WF_vars(WriteStep) /\ WF_vars(SwitchReceives)

FairSpec == Spec /\ Fairness

-----------------------------------------------------------------------------
(* Every variable has its type: the counters of the struct stay uint16_t   *)
(* and the buffers hold cells (struct of_switch).                          *)
TypeOK ==
    /\ sw \in of_switch
    /\ sock \in Seq(Cell)
    /\ tx \in Seq(Cell)
    /\ peer \in [log : Seq([type : MsgType, xid : Nat]), asked : Nat, left : Nat]

(* Whatever the sizes of the partial writes, the bytes handed to the       *)
(* socket so far and the bytes waiting in the write buffer are together a  *)
(* sequence of whole messages: none is cut, repeated, or started before    *)
(* the one in front of it has left (write_to, handle_write_socket and      *)
(* every function that fills write_buffer).                                *)
OutboundFraming == Framed(tx \o Pending(sw))

(* However the stream is split into recv calls, the bytes collected in the *)
(* read buffer and those still in the socket are a sequence of whole       *)
(* messages: a header is always read where a message begins (read_from,    *)
(* handle_read_socket).                                                    *)
InboundFraming == Framed(Received(sw) \o sock)

(* bytes_expected is exactly what is missing of the header, or of the      *)
(* message whose header has been read and whose type of_status is, so a    *)
(* complete message is never waited for and the next one never eaten; and  *)
(* a writer always has something to write.                                 *)
ExpectationExact == Exact(sw)

(* The bytes asked of recv and offered to send lie within the buffers.     *)
NoOverflow == Fits(sw)

(* A message longer than the buffers were allocated for is being received, *)
(* or sent back as an echo.                                                *)
Overlong(s) ==
    \/ s.rw = READ /\ ~s.reading_header /\ s.read_buffer[1].msg.len > BUF
    \/ s.rw = WRITE /\ s.write_buffer[1].msg.len > BUF

(* Only such a message takes a counter out of its buffer: not a partial    *)
(* read or write, not two flow mods behind one another, nor what was       *)
(* received or sent before (read_from, write_to and everything that        *)
(* assigns bytes_expected).  What follows the first overrun is undefined   *)
(* in the code, where the model loses the cells behind the end.            *)
OverrunIsLong == NoOverflow \/ Overlong(sw)

(* The switch gets HELLO, FEATURES_REQUEST, SET_CONFIG, MULTIPART_REQUEST  *)
(* and the two default flows, in this order and before anything else: the  *)
(* controller reads nothing until all of it is written                     *)
(* (handle_write_socket).                                                  *)
SetupInOrder ==
    \A i \in 1..Len(peer.log) :
       i <= Len(SetupTypes) => peer.log[i].type = SetupTypes[i]

(* Echo requests are answered in the order in which they were asked, each  *)
(* at most once and with its own xid (make_echo_reply), whatever else is   *)
(* in between.                                                             *)
EchoesInOrder ==
    LET replies == Got({"ECHO_REPLY"})
    IN  /\ Len(replies) <= peer.asked
        /\ \A i \in 1..Len(replies) : replies[i].xid = i

(* The handshake always completes.                                         *)
SetupCompletes == <>Configured

(* Every echo request is eventually answered, unless the switch has said   *)
(* something that makes the controller give it up.                         *)
EchoAnswered ==
    \A x \in 1..MaxSaid :
       peer.asked >= x ~> Len(Got({"ECHO_REPLY"})) >= x \/ sw.rw = DISCONNECTED

-----------------------------------------------------------------------------
(* The conversation as MessageServer sees it.  A message is to do until    *)
(* its last cell has been received, and owed until its last cell is sent.  *)
LastCells == {c \in Cell : c.pos = c.msg.len}

Ends(st) ==
    LET last == Pick(st, LastCells) IN [i \in 1..Len(last) |-> last[i].msg]

(* The setup messages next_write has not composed yet.                     *)
SetupLeft(s) ==
    (IF s.features_requested THEN << >> ELSE <<Own("FEATURES_REQUEST")>>) \o
    (IF s.config_set THEN << >> ELSE <<Own("SET_CONFIG")>>) \o
    (IF s.ports_requested THEN << >> ELSE <<Own("MULTIPART_REQUEST")>>) \o
    (IF s.default_flow_set THEN << >> ELSE <<Own("FLOW_MOD"), Own("FLOW_MOD")>>)

Answers(m) ==
    CASE m.type = "ECHO_REQUEST"   -> {<< [m EXCEPT !.type = "ECHO_REPLY"] >>}
      [] m.type = "FEATURES_REPLY" ->
           {<< [Own("PACKET_OUT") EXCEPT !.info = "probe", !.fd = SwitchFd] >>}
      [] m.type = "PACKET_IN" /\ m.info = "host" ->
           {<< Own("FLOW_MOD"), Own("FLOW_MOD") >>}
      [] m.type = "PACKET_IN" /\ m.info = "probe" ->
           {<< >>} \cup {<< [Own("PORT_MOD") EXCEPT !.port = m.port, !.info = info] >> :
                           info \in {"none", "named"}}
      [] OTHER -> {<< >>}

Accepts(m) == m.type \in Known

Server == INSTANCE MessageServer WITH
            Setup <- << Own("HELLO") >> \o SetupLeft(unused_switch),
            todo <- Ends(Received(sw) \o sock),
            owed <- Ends(Pending(sw)) \o SetupLeft(sw),
            open <- sw.rw # DISCONNECTED

(* The session implements the abstract server: every message is handled    *)
(* once, in order, and answered completely before the next.                *)
ImplementsServer == Server!Spec

(* ... and it handles every message and sends every answer eventually.     *)
ImplementsFairServer == Server!FairSpec
=============================================================================
