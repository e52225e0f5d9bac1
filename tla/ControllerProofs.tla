-------------------------- MODULE ControllerProofs --------------------------
(***************************************************************************)
(* What holds of the whole controller for any number of switches and any   *)
(* cabling.  Whatever the search for loops finds: types, and that the      *)
(* graph is one of the network.  With what it can find: that the setups    *)
(* come in order, that the search is not lost, and that no alarm is raised *)
(* in a network without loops.                                             *)
(***************************************************************************)
EXTENDS Controller, SwitchIOProofs, NetworkGraphProofs

(* No frame of a host is taken for the probe of a switch: only probes name *)
(* switches.                                                               *)
NoForgery ==
    /\ \A m \in Talk \cup Garbage : m.info = "probe" => m.fd \notin Switches
    /\ \A i \in Switches : Hello[i].info # "probe"
    /\ \A t \in DOMAIN Replies : Replies[t].info # "probe"

(* The switches a cable joins, by their pairs: to the graph the cables     *)
(* between two switches are one link.                                      *)
Cabled == {{c.from, c.to} : c \in Cables}

Loopless == Forest(Switches, Cabled)

(* Where any alarm would be a false one.  Of a D that is not a set of      *)
(* switches nothing is said.                                               *)
Calm(D) == NoForgery /\ Loopless /\ D \subseteq Switches

(* What m says when it is read on slot i is true: there is a cable, and    *)
(* both switches are in D, which will stand for those that are set up.     *)
Genuine(i, D, m) ==
    NoForgery /\ m.info = "probe" /\ m.fd \in Switches =>
       /\ i \in D /\ m.fd \in D
       /\ \E e \in Ends : e[1] = i /\ e[2] = m.port /\ e[3] = m.fd

Inward(i, D) == {c \in Cell : Genuine(i, D, c.msg)}

(* A switch is told to flood its own probe only, after its setup only, and *)
(* to disable a port only where there may be a loop.                       *)
Permitted(i, D, m) ==
    /\ m.type = "PACKET_OUT" => m.fd = i /\ i \in D
    /\ m.type = "PORT_MOD" => ~Calm(D)

Outward(i, D) == {c \in Cell : Permitted(i, D, c.msg)}

(* What holds of the record in slot i.                                     *)
Rec(i, D, s) ==
    /\ s \in of_switch
    /\ s.read_buffer \in Seq(Inward(i, D))
    /\ s.write_buffer \in Seq(Outward(i, D))
    /\ s.rw # WRITE => i \in D

-----------------------------------------------------------------------------
(* Buffers of cells of some kind E.                                        *)

LEMMA SeqGrows ==
    ASSUME NEW A, NEW B, A \subseteq B
    PROVE  Seq(A) \subseteq Seq(B)
<1> SUFFICES ASSUME NEW st \in Seq(A) PROVE st \in Seq(B)
  OBVIOUS
<1>1. Len(st) \in Nat /\ st \in [1..Len(st) -> A]
  BY LenProperties
<1>2. st \in [1..Len(st) -> B]
  BY <1>1
<1> QED
  BY <1>1, <1>2, FunctionIsSeq

LEMMA StoreIn ==
    ASSUME NEW E, NEW buf \in Seq(E), NEW off \in Nat, NEW data \in Seq(E)
    PROVE  Store(buf, off, data) \in Seq(E)
<1>1. Len(buf) \in Nat
  BY LenProperties
<1>2. \A i \in 1..Len(buf) :
        (IF i - off \in 1..Len(data) THEN data[i - off] ELSE buf[i]) \in E
  BY ElementOfSeq
<1>3. Store(buf, off, data) \in [1..Len(buf) -> E]
  BY <1>2 DEF Store
<1> QED
  BY <1>1, <1>3, FunctionIsSeq

LEMMA SliceIn ==
    ASSUME NEW E, Zero \in E, NEW buf \in Seq(E), NEW off \in Nat, NEW n \in Nat
    PROVE  Slice(buf, off, n) \in Seq(E) /\ Len(Slice(buf, off, n)) = n
<1>1. \A i \in 1..n : (IF off + i <= Len(buf) THEN buf[off + i] ELSE Zero) \in E
  BY ElementOfSeq
<1>2. Slice(buf, off, n) \in [1..n -> E]
  BY <1>1 DEF Slice
<1> QED
  BY <1>2, FunctionIsSeq

LEMMA CallocIn ==
    ASSUME NEW E, Zero \in E, NEW n \in Nat
    PROVE  calloc(n) \in Seq(E)
<1>1. calloc(n) \in [1..n -> E]
  BY DEF calloc
<1> QED
  BY <1>1, FunctionIsSeq

LEMMA ResizeIn ==
    ASSUME NEW E, Zero \in E, NEW buf \in Seq(E)
    PROVE  resize_buffer(buf) \in Seq(E)
<1>1. calloc(Len(buf)) \in Seq(E)
  BY CallocIn, LenProperties
<1> QED
  BY <1>1, ConcatProperties DEF resize_buffer

LEMMA PartIn ==
    ASSUME NEW E, NEW st \in Seq(E), NEW a \in Nat \ {0}, NEW b \in Int, b <= Len(st)
    PROVE  SubSeq(st, a, b) \in Seq(E)
BY SubSeqProperties, LenProperties

LEMMA ZeroIs ==
    ASSUME NEW i, NEW D
    PROVE  Zero \in Inward(i, D) /\ Zero \in Outward(i, D)
<1>1. Zero.msg.type = "HELLO" /\ Zero.msg.info = "none"
  BY DEF Zero, Piece, Msg
<1> QED
  BY <1>1, ZeroType DEF Inward, Outward, Genuine, Permitted

LEMMA InwardCells ==
    ASSUME NEW i, NEW D, NEW m \in Message, Genuine(i, D, m)
    PROVE  Cells(m) \in Seq(Inward(i, D))
<1>1. m.len \in Nat
  BY DEF Message
<1>2. Cells(m) \in [1..m.len -> Inward(i, D)]
  BY <1>1 DEF Cells, Cell, Piece, Inward
<1> QED
  BY <1>1, <1>2, FunctionIsSeq

LEMMA OutwardCells ==
    ASSUME NEW i, NEW D, NEW m \in Message, Permitted(i, D, m)
    PROVE  Cells(m) \in Seq(Outward(i, D))
<1>1. m.len \in Nat
  BY DEF Message
<1>2. Cells(m) \in [1..m.len -> Outward(i, D)]
  BY <1>1 DEF Cells, Cell, Piece, Outward
<1> QED
  BY <1>1, <1>2, FunctionIsSeq

LEMMA KindsGrow ==
    ASSUME NEW i, NEW D, NEW F, D \subseteq F
    PROVE  /\ Inward(i, D) \subseteq Inward(i, F)
           /\ Outward(i, D) \subseteq Outward(i, F)
           /\ Seq(Inward(i, D)) \subseteq Seq(Inward(i, F))
           /\ Seq(Outward(i, D)) \subseteq Seq(Outward(i, F))
<1>1. Inward(i, D) \subseteq Inward(i, F)
  BY DEF Inward, Genuine
<1>2. Outward(i, D) \subseteq Outward(i, F)
  BY DEF Outward, Permitted, Calm
<1> QED
  BY <1>1, <1>2, SeqGrows

LEMMA RecGrows ==
    ASSUME NEW i, NEW D, NEW F, D \subseteq F, NEW s, Rec(i, D, s)
    PROVE  Rec(i, F, s)
BY KindsGrow DEF Rec

-----------------------------------------------------------------------------
(* The functions of the controller keep Rec.                               *)

LEMMA ReadFromRec ==
    ASSUME NEW i, NEW D, NEW s, Rec(i, D, s), NEW n \in Int,
           NEW data \in Seq(Inward(i, D))
    PROVE  LET t == read_from(s, n, data)
           IN  Rec(i, D, t) /\ t.rw = s.rw /\ t.default_flow_set = s.default_flow_set
<1> DEFINE t == read_from(s, n, data)
           buf == IF Len(s.read_buffer) = s.bytes_read
                  THEN resize_buffer(s.read_buffer) ELSE s.read_buffer
           b2 == Store(buf, s.bytes_read, data)
           x == uint16(s.bytes_read + n)
           y == uint16(s.bytes_expected - n)
           E == Inward(i, D)
<1>1. /\ s \in of_switch /\ s.read_buffer \in Seq(E)
      /\ s.bytes_read \in Nat /\ s.bytes_expected \in Nat
      /\ s.write_buffer \in Seq(Outward(i, D))
      /\ s.rw # WRITE => i \in D
  BY SwitchFields DEF Rec
<1>2. Zero \in E /\ data \in Seq(E) /\ E \subseteq Cell
  BY ZeroIs DEF Inward
<1> HIDE DEF E
<1>3. resize_buffer(s.read_buffer) \in Seq(E)
  BY <1>1, <1>2, ResizeIn
<1>4. b2 \in Seq(E)
  BY <1>1, <1>2, <1>3, StoreIn
<1>5. x \in uint16_t /\ y \in uint16_t
  <2>1. s.bytes_read + n \in Int /\ s.bytes_expected - n \in Int
    BY <1>1
  <2> QED
    BY <2>1, uint16Type
<1>6. t = [s EXCEPT !.read_buffer = b2, !.bytes_read = x, !.bytes_expected = y]
  BY Zenon DEF read_from
<1>7. b2 \in Seq(Cell)
  BY <1>2, <1>4, SeqGrows
<1> HIDE DEF t, b2, x, y
<1>8. t \in of_switch
  BY <1>1, <1>5, <1>6, <1>7, Zenon DEF of_switch
<1>9. /\ t.rw = s.rw /\ t.default_flow_set = s.default_flow_set
      /\ t.write_buffer = s.write_buffer /\ t.read_buffer = b2
  BY <1>1, <1>6, Zenon DEF of_switch
<1>10. Rec(i, D, t)
  BY <1>1, <1>4, <1>8, <1>9, Zenon DEF Rec, E
<1> QED
  BY <1>9, <1>10, Zenon DEF t

LEMMA ParseHeaderRec ==
    ASSUME NEW i, NEW D, NEW s, Rec(i, D, s), NEW m \in Message
    PROVE  LET t == parse_header(s, m)
           IN  Rec(i, D, t) /\ t.rw = s.rw /\ t.default_flow_set = s.default_flow_set
<1> DEFINE t == parse_header(s, m)
           u == [s EXCEPT !.of_status = m.type, !.reading_header = FALSE,
                          !.bytes_expected = uint16(m.len - HDR)]
<1>1. s \in of_switch
  BY DEF Rec
<1>2. /\ t \in of_switch /\ t.rw = s.rw
      /\ t.read_buffer = s.read_buffer /\ t.write_buffer = s.write_buffer
  BY <1>1, ParseHeaderFields, Zenon
<1>3. u.default_flow_set = s.default_flow_set
  BY <1>1, Zenon DEF of_switch
<1>4. t = IF s.reading_header THEN u ELSE s
  BY Zenon DEF parse_header
<1> HIDE DEF t, u
<1>5. t.default_flow_set = s.default_flow_set
  BY <1>3, <1>4
<1> QED
  BY <1>2, <1>5, Zenon DEF Rec, t

LEMMA AwaitRec ==
    ASSUME NEW i, NEW D, NEW s, Rec(i, D, s)
    PROVE  LET t == await_next_header(s)
           IN  Rec(i, D, t) /\ t.rw = s.rw /\ t.default_flow_set = s.default_flow_set
<1> DEFINE t == await_next_header(s)
           b == memset(s.read_buffer)
           u == [s EXCEPT !.bytes_expected = HDR, !.reading_header = TRUE,
                          !.bytes_read = 0, !.read_buffer = b]
<1>1. s \in of_switch /\ s.read_buffer \in Seq(Inward(i, D))
  BY DEF Rec
<1>2. b \in Seq(Inward(i, D))
  BY <1>1, ZeroIs, CallocIn, LenProperties DEF memset
<1>3. t \in of_switch /\ t.rw = s.rw /\ t.write_buffer = s.write_buffer
  BY <1>1, AwaitNextHeaderFields, Zenon
<1> HIDE DEF b
<1>4. u.default_flow_set = s.default_flow_set /\ u.read_buffer = b
  BY <1>1, Zenon DEF of_switch
<1>5. t = IF s.rw = WRITE THEN s ELSE u
  BY Zenon DEF await_next_header, b
<1> HIDE DEF t, u
<1>6. t.default_flow_set = s.default_flow_set /\ t.read_buffer \in Seq(Inward(i, D))
  BY <1>1, <1>2, <1>4, <1>5
<1> QED
  BY <1>3, <1>6, Zenon DEF Rec, t

LEMMA ComposeRec ==
    ASSUME NEW i, NEW D, NEW s, Rec(i, D, s), NEW m \in Message, Permitted(i, D, m)
    PROVE  LET t == Compose(s, m)
           IN  Rec(i, D, t) /\ t.rw = WRITE /\ t.default_flow_set = s.default_flow_set
<1> DEFINE t == Compose(s, m)
<1>1. s \in of_switch /\ s.write_buffer \in Seq(Outward(i, D))
  BY DEF Rec
<1>2. /\ t \in of_switch /\ t.rw = WRITE /\ t.read_buffer = s.read_buffer
      /\ t.write_buffer = Store(s.write_buffer, 0, Cells(m))
  BY <1>1, ComposeFields, Zenon
<1>3. t.default_flow_set = s.default_flow_set
  BY <1>1, Zenon DEF of_switch, Compose
<1>4. Store(s.write_buffer, 0, Cells(m)) \in Seq(Outward(i, D))
  BY <1>1, OutwardCells, StoreIn
<1> HIDE DEF t
<1> QED
  BY <1>2, <1>3, <1>4 DEF Rec, t

LEMMA ComposeMoreRec ==
    ASSUME NEW i, NEW D, NEW s, Rec(i, D, s), NEW m \in Message, Permitted(i, D, m)
    PROVE  LET t == ComposeMore(s, m)
           IN  Rec(i, D, t) /\ t.rw = WRITE /\ t.default_flow_set = s.default_flow_set
<1> DEFINE t == ComposeMore(s, m)
<1>1. /\ s \in of_switch /\ s.write_buffer \in Seq(Outward(i, D))
      /\ s.bytes_expected \in Nat
  BY SwitchFields DEF Rec
<1>2. /\ t \in of_switch /\ t.rw = WRITE /\ t.read_buffer = s.read_buffer
      /\ t.write_buffer = Store(s.write_buffer, s.bytes_expected, Cells(m))
  BY <1>1, ComposeMoreFields, Zenon
<1>3. t.default_flow_set = s.default_flow_set
  BY <1>1, Zenon DEF of_switch, ComposeMore
<1>4. Store(s.write_buffer, s.bytes_expected, Cells(m)) \in Seq(Outward(i, D))
  BY <1>1, OutwardCells, StoreIn
<1> HIDE DEF t
<1> QED
  BY <1>2, <1>3, <1>4 DEF Rec, t

LEMMA OwnPermitted ==
    ASSUME NEW i, NEW D, NEW t \in MsgType,
           t \notin {"PACKET_OUT", "PORT_MOD"}
    PROVE  Own(t) \in Message /\ Permitted(i, D, Own(t))
<1>1. Own(t) \in Message
  BY MsgIsMessage, SizesAssumption DEF Own, SizesAssumption
<1>2. Own(t).type = t
  BY DEF Own, Msg
<1> QED
  BY <1>1, <1>2 DEF Permitted

LEMMA EchoRec ==
    ASSUME NEW i, NEW D, NEW s, Rec(i, D, s), NEW m \in Message
    PROVE  LET t == make_echo_reply(s, m)
           IN  Rec(i, D, t) /\ t.rw = WRITE /\ t.default_flow_set = s.default_flow_set
<1> DEFINE t == make_echo_reply(s, m)
           r == [m EXCEPT !.type = "ECHO_REPLY"]
<1>1. s \in of_switch /\ s.write_buffer \in Seq(Outward(i, D))
  BY DEF Rec
<1>2. /\ t \in of_switch /\ t.rw = WRITE /\ t.read_buffer = s.read_buffer
      /\ r \in Message
      /\ t.write_buffer = Store(s.write_buffer, 0, Cells(r))
  BY <1>1, MakeEchoReplyFields, Zenon
<1>3. t.default_flow_set = s.default_flow_set
  BY <1>1, Zenon DEF of_switch, make_echo_reply
<1>4. r.type = "ECHO_REPLY"
  BY DEF Message
<1>5. Permitted(i, D, r)
  BY <1>4 DEF Permitted
<1> HIDE DEF t, r
<1>6. Store(s.write_buffer, 0, Cells(r)) \in Seq(Outward(i, D))
  BY <1>1, <1>2, <1>5, OutwardCells, StoreIn
<1> QED
  BY <1>2, <1>3, <1>6 DEF Rec, t

LEMMA PortModRec ==
    ASSUME NEW i, NEW D, ~Calm(D), NEW s, Rec(i, D, s), NEW p \in Nat
    PROVE  LET t == change_port_behavior(s, p)
           IN  Rec(i, D, t) /\ t.rw = WRITE /\ t.default_flow_set = s.default_flow_set
<1> DEFINE m == [Own("PORT_MOD") EXCEPT
                   !.port = p,
                   !.info = IF p \in s.connected_ports THEN "named" ELSE "none"]
<1>1. Own("PORT_MOD") \in Message /\ Own("PORT_MOD").type = "PORT_MOD"
  <2>1. "PORT_MOD" \in MsgType
    BY DEF MsgType
  <2>2. Own("PORT_MOD") \in Message
    BY <2>1, MsgIsMessage, SizesAssumption DEF Own, SizesAssumption
  <2> QED
    BY <2>2 DEF Own, Msg
<1>2. m \in Message /\ m.type = "PORT_MOD"
  BY <1>1 DEF Message, Info
<1>3. Permitted(i, D, m)
  BY <1>2 DEF Permitted
<1>4. change_port_behavior(s, p) = Compose(s, m)
  BY Zenon DEF change_port_behavior
<1> HIDE DEF m
<1> QED
  BY <1>2, <1>3, <1>4, ComposeRec

LEMMA ProbeRec ==
    ASSUME NEW i \in Nat, NEW D, i \in D, NEW s, Rec(i, D, s)
    PROVE  LET t == send_probe_packet(s, i)
           IN  Rec(i, D, t) /\ t.rw = WRITE /\ t.default_flow_set = s.default_flow_set
<1> DEFINE m == [Own("PACKET_OUT") EXCEPT !.info = "probe", !.fd = i]
<1>1. Own("PACKET_OUT") \in Message
  <2>1. "PACKET_OUT" \in MsgType
    BY DEF MsgType
  <2> QED
    BY <2>1, MsgIsMessage, SizesAssumption DEF Own, SizesAssumption
<1>2. m \in Message /\ m.fd = i /\ m.type = "PACKET_OUT"
  <2>1. Own("PACKET_OUT").type = "PACKET_OUT"
    BY DEF Own, Msg
  <2> QED
    BY <1>1, <2>1 DEF Message, Info
<1>3. Permitted(i, D, m)
  BY <1>2 DEF Permitted
<1>4. send_probe_packet(s, i) = Compose(s, m)
  BY Zenon DEF send_probe_packet
<1> HIDE DEF m
<1> QED
  BY <1>2, <1>3, <1>4, ComposeRec

LEMMA FlowRec ==
    ASSUME NEW i, NEW D, NEW s, Rec(i, D, s)
    PROVE  LET t == ComposeMore(s, Own("FLOW_MOD"))
           IN  Rec(i, D, t) /\ t.rw = WRITE /\ t.default_flow_set = s.default_flow_set
<1>1. "FLOW_MOD" \in MsgType
  BY DEF MsgType
<1>2. Own("FLOW_MOD") \in Message /\ Permitted(i, D, Own("FLOW_MOD"))
  BY <1>1, OwnPermitted
<1> QED
  BY <1>2, ComposeMoreRec

(* A complete message is only handled on a slot that is set up.            *)
LEMMA DispatchRec ==
    ASSUME NEW i \in Nat, NEW D, i \in D, NEW s, Rec(i, D, s), NEW m \in Message
    PROVE  LET t == dispatch(s, i, m)
           IN  Rec(i, D, t) /\ t.default_flow_set = s.default_flow_set
<1> DEFINE t == dispatch(s, i, m)
           gone0 == [s EXCEPT !.rw = DISCONNECTED]
           ports == [s EXCEPT !.connected_ports = @ \cup 1..m.port]
<1>1. /\ s \in of_switch /\ s.read_buffer \in Seq(Inward(i, D))
      /\ s.write_buffer \in Seq(Outward(i, D)) /\ s.connected_ports \in SUBSET Nat
  BY DEF Rec, of_switch
<1>2. Rec(i, D, gone0) /\ gone0.default_flow_set = s.default_flow_set
  <2>1. gone0 \in of_switch
    BY <1>1, Constants, Zenon DEF of_switch
  <2>2. /\ gone0.default_flow_set = s.default_flow_set
        /\ gone0.read_buffer = s.read_buffer /\ gone0.write_buffer = s.write_buffer
    BY <1>1, Zenon DEF of_switch
  <2> QED
    BY <1>1, <2>1, <2>2, Zenon DEF Rec
<1>3. Rec(i, D, ports) /\ ports.default_flow_set = s.default_flow_set /\ ports.rw = s.rw
  <2>1. s.connected_ports \cup 1..m.port \in SUBSET Nat
    BY <1>1
  <2>2. ports \in of_switch
    BY <1>1, <2>1, Zenon DEF of_switch
  <2>3. /\ ports.default_flow_set = s.default_flow_set /\ ports.rw = s.rw
        /\ ports.read_buffer = s.read_buffer /\ ports.write_buffer = s.write_buffer
    BY <1>1, Zenon DEF of_switch
  <2> QED
    BY <1>1, <2>2, <2>3, Zenon DEF Rec
<1>4. LET e == make_echo_reply(s, m) IN Rec(i, D, e) /\ e.rw = WRITE /\ e.default_flow_set = s.default_flow_set
  BY EchoRec
<1>5. LET e == send_probe_packet(s, i) IN Rec(i, D, e) /\ e.rw = WRITE /\ e.default_flow_set = s.default_flow_set
  BY ProbeRec
<1>6. LET e == write_new_flow(write_new_flow(s))
      IN Rec(i, D, e) /\ e.rw = WRITE /\ e.default_flow_set = s.default_flow_set
  <2> DEFINE a == ComposeMore(s, Own("FLOW_MOD"))
             b == ComposeMore(a, Own("FLOW_MOD"))
  <2>1. Rec(i, D, a) /\ a.default_flow_set = s.default_flow_set
    BY FlowRec
  <2> HIDE DEF a
  <2>2. Rec(i, D, b) /\ b.rw = WRITE /\ b.default_flow_set = s.default_flow_set
    BY <2>1, FlowRec
  <2>3. write_new_flow(write_new_flow(s)) = b
    BY DEF write_new_flow, a
  <2> HIDE DEF b
  <2> QED
    BY <2>2, <2>3
<1>7. \/ t = make_echo_reply(s, m)
      \/ t = ports
      \/ t = send_probe_packet(s, i)
      \/ t = write_new_flow(write_new_flow(s))
      \/ t = gone0
      \/ t = s
  BY Zenon DEF dispatch, Known, save_connected_ports
<1> HIDE DEF t, gone0, ports
<1> QED
  BY <1>2, <1>3, <1>4, <1>5, <1>6, <1>7 DEF t

LEMMA WriteToRec ==
    ASSUME NEW i, NEW D, NEW s, Rec(i, D, s), NEW n \in Int
    PROVE  LET t == write_to(s, n)
           IN  Rec(i, D, t) /\ t.rw = s.rw /\ t.default_flow_set = s.default_flow_set
<1> DEFINE t == write_to(s, n)
           buf == IF Len(s.write_buffer) = s.bytes_written
                  THEN resize_buffer(s.write_buffer) ELSE s.write_buffer
           x == uint16(s.bytes_written + n)
           y == uint16(s.bytes_expected - n)
           E == Outward(i, D)
<1>1. /\ s \in of_switch /\ s.write_buffer \in Seq(E)
      /\ s.bytes_written \in Nat /\ s.bytes_expected \in Nat
      /\ s.read_buffer \in Seq(Inward(i, D))
      /\ s.rw # WRITE => i \in D
  BY SwitchFields DEF Rec
<1>2. Zero \in E /\ E \subseteq Cell
  BY ZeroIs DEF Outward
<1> HIDE DEF E
<1>3. resize_buffer(s.write_buffer) \in Seq(E)
  BY <1>1, <1>2, ResizeIn
<1>4. buf \in Seq(E)
  BY <1>1, <1>3
<1>5. x \in uint16_t /\ y \in uint16_t
  <2>1. s.bytes_written + n \in Int /\ s.bytes_expected - n \in Int
    BY <1>1
  <2> QED
    BY <2>1, uint16Type
<1>6. t = [s EXCEPT !.write_buffer = buf, !.bytes_written = x, !.bytes_expected = y]
  BY Zenon DEF write_to
<1>7. buf \in Seq(Cell)
  BY <1>2, <1>4, SeqGrows
<1> HIDE DEF t, buf, x, y
<1>8. t \in of_switch
  BY <1>1, <1>5, <1>6, <1>7, Zenon DEF of_switch
<1>9. /\ t.rw = s.rw /\ t.default_flow_set = s.default_flow_set
      /\ t.write_buffer = buf /\ t.read_buffer = s.read_buffer
  BY <1>1, <1>6, Zenon DEF of_switch
<1>10. Rec(i, D, t)
  BY <1>1, <1>4, <1>8, <1>9, Zenon DEF Rec, E
<1> QED
  BY <1>9, <1>10, Zenon DEF t

(* Changes of the other fields.                                            *)
LEMMA FlagsRec ==
    ASSUME NEW i, NEW D, NEW s, Rec(i, D, s), s.rw = WRITE
    PROVE  /\ LET t == [s EXCEPT !.features_requested = TRUE]
              IN  Rec(i, D, t) /\ t.default_flow_set = s.default_flow_set
           /\ LET t == [s EXCEPT !.config_set = TRUE]
              IN  Rec(i, D, t) /\ t.default_flow_set = s.default_flow_set
           /\ LET t == [s EXCEPT !.ports_requested = TRUE]
              IN  Rec(i, D, t) /\ t.default_flow_set = s.default_flow_set
           /\ LET t == [s EXCEPT !.default_flow_set = TRUE]
              IN  Rec(i, D, t) /\ t.default_flow_set
<1> DEFINE t1 == [s EXCEPT !.features_requested = TRUE]
           t2 == [s EXCEPT !.config_set = TRUE]
           t3 == [s EXCEPT !.ports_requested = TRUE]
           t4 == [s EXCEPT !.default_flow_set = TRUE]
<1>1. /\ s \in of_switch /\ s.read_buffer \in Seq(Inward(i, D))
      /\ s.write_buffer \in Seq(Outward(i, D))
  BY DEF Rec
<1>2. /\ t1 \in of_switch /\ t2 \in of_switch /\ t3 \in of_switch /\ t4 \in of_switch
  BY <1>1, Zenon DEF of_switch
<1>3. /\ t1.rw = s.rw /\ t2.rw = s.rw /\ t3.rw = s.rw /\ t4.rw = s.rw
      /\ t1.read_buffer = s.read_buffer /\ t2.read_buffer = s.read_buffer
      /\ t3.read_buffer = s.read_buffer /\ t4.read_buffer = s.read_buffer
  BY <1>1, Zenon DEF of_switch
<1>4. /\ t1.write_buffer = s.write_buffer /\ t2.write_buffer = s.write_buffer
      /\ t3.write_buffer = s.write_buffer /\ t4.write_buffer = s.write_buffer
  BY <1>1, Zenon DEF of_switch
<1>5. /\ t1.default_flow_set = s.default_flow_set
      /\ t2.default_flow_set = s.default_flow_set
      /\ t3.default_flow_set = s.default_flow_set
      /\ t4.default_flow_set
  BY <1>1, Zenon DEF of_switch
<1> HIDE DEF t1, t2, t3, t4
<1>6. Rec(i, D, t1) /\ Rec(i, D, t2) /\ Rec(i, D, t3) /\ Rec(i, D, t4)
  BY <1>1, <1>2, <1>3, <1>4 DEF Rec
<1> QED
  BY <1>5, <1>6 DEF t1, t2, t3, t4

(* The next message of the setup, or back to reading.                      *)
LEMMA NextWriteRec ==
    ASSUME NEW i, NEW D, NEW s0, Rec(i, D, s0), s0.rw = WRITE,
           NEW F, D \subseteq F, next_write(s0).rw # WRITE => i \in F
    PROVE  LET t == next_write(s0)
           IN  /\ Rec(i, F, t)
               /\ s0.default_flow_set => t.default_flow_set
<1> DEFINE t == next_write(s0)
           b == memset(s0.write_buffer)
           s == [s0 EXCEPT !.bytes_written = 0, !.write_buffer = b]
           back == [s EXCEPT !.rw = READ, !.bytes_expected = HDR,
                             !.reading_header = TRUE, !.bytes_read = 0]
           u1 == request_features(s)
           u2 == set_config(s)
           u3 == get_port_info(s)
           v == write_default_miss(s)
           u4 == write_default_miss(v)
           t1 == [u1 EXCEPT !.features_requested = TRUE]
           t2 == [u2 EXCEPT !.config_set = TRUE]
           t3 == [u3 EXCEPT !.ports_requested = TRUE]
           t4 == [u4 EXCEPT !.default_flow_set = TRUE]
<1>1. Rec(i, F, s0)
  BY RecGrows
<1>2. /\ s0 \in of_switch /\ s0.write_buffer \in Seq(Outward(i, F))
      /\ s0.read_buffer \in Seq(Inward(i, F))
  BY <1>1 DEF Rec
<1>3. b \in Seq(Outward(i, F)) /\ b \in Seq(Cell)
  <2>1. b \in Seq(Outward(i, F))
    BY <1>2, ZeroIs, CallocIn, LenProperties DEF memset
  <2>2. Outward(i, F) \subseteq Cell
    BY DEF Outward
  <2> QED
    BY <2>1, <2>2, SeqGrows
<1>4. /\ HDR \in uint16_t /\ 0 \in uint16_t
  <2>1. "HELLO" \in MsgType
    BY DEF MsgType
  <2>2. HDR \in Nat /\ HDR < 65536
    BY <2>1, SizesAssumption DEF SizesAssumption
  <2> QED
    BY <2>2 DEF uint16_t
<1>5. t = IF ~s.features_requested THEN t1
          ELSE IF ~s.config_set THEN t2
          ELSE IF ~s.ports_requested THEN t3
          ELSE IF ~s.default_flow_set THEN t4
          ELSE back
  BY Zenon DEF next_write
<1> HIDE DEF b
<1>6. Rec(i, F, s) /\ s.rw = WRITE /\ s.default_flow_set = s0.default_flow_set
  <2>1. s \in of_switch
    BY <1>2, <1>3, <1>4, Zenon DEF of_switch
  <2>2. /\ s.rw = s0.rw /\ s.default_flow_set = s0.default_flow_set
        /\ s.read_buffer = s0.read_buffer /\ s.write_buffer = b
    BY <1>2, Zenon DEF of_switch
  <2> QED
    BY <1>1, <1>2, <1>3, <2>1, <2>2, Zenon DEF Rec
<1> HIDE DEF s
<1>7. /\ back.rw # WRITE /\ back.default_flow_set = s.default_flow_set
      /\ i \in F => Rec(i, F, back)
  <2>1. s \in of_switch /\ s.read_buffer \in Seq(Inward(i, F))
        /\ s.write_buffer \in Seq(Outward(i, F))
    BY <1>6 DEF Rec
  <2>2. back \in of_switch
    BY <1>4, <2>1, Constants, Zenon DEF of_switch
  <2>3. /\ back.rw = READ /\ back.default_flow_set = s.default_flow_set
        /\ back.read_buffer = s.read_buffer /\ back.write_buffer = s.write_buffer
    BY <2>1, Zenon DEF of_switch
  <2> HIDE DEF back
  <2> QED
    BY <2>1, <2>2, <2>3, Constants DEF Rec
<1>8. /\ Rec(i, F, u1) /\ u1.rw = WRITE /\ u1.default_flow_set = s.default_flow_set
      /\ Rec(i, F, u2) /\ u2.rw = WRITE /\ u2.default_flow_set = s.default_flow_set
      /\ Rec(i, F, u3) /\ u3.rw = WRITE /\ u3.default_flow_set = s.default_flow_set
  <2>1. "FEATURES_REQUEST" \in MsgType /\ "SET_CONFIG" \in MsgType /\ "MULTIPART_REQUEST" \in MsgType
    BY DEF MsgType
  <2>2. /\ Own("FEATURES_REQUEST") \in Message /\ Permitted(i, F, Own("FEATURES_REQUEST"))
        /\ Own("SET_CONFIG") \in Message /\ Permitted(i, F, Own("SET_CONFIG"))
        /\ Own("MULTIPART_REQUEST") \in Message /\ Permitted(i, F, Own("MULTIPART_REQUEST"))
    BY <2>1, OwnPermitted
  <2> QED
    BY <1>6, <2>2, ComposeRec DEF request_features, set_config, get_port_info
<1>9. Rec(i, F, u4) /\ u4.rw = WRITE
  <2>1. Rec(i, F, v)
    BY <1>6, FlowRec DEF write_default_miss
  <2> HIDE DEF v
  <2> QED
    BY <2>1, FlowRec DEF write_default_miss
<1> HIDE DEF u1, u2, u3, u4
<1>10. /\ Rec(i, F, t1) /\ t1.default_flow_set = s.default_flow_set
       /\ Rec(i, F, t2) /\ t2.default_flow_set = s.default_flow_set
       /\ Rec(i, F, t3) /\ t3.default_flow_set = s.default_flow_set
  <2>1. Rec(i, F, t1) /\ t1.default_flow_set = s.default_flow_set
    BY <1>8, FlagsRec, Zenon
  <2>2. Rec(i, F, t2) /\ t2.default_flow_set = s.default_flow_set
    BY <1>8, FlagsRec, Zenon
  <2>3. Rec(i, F, t3) /\ t3.default_flow_set = s.default_flow_set
    BY <1>8, FlagsRec, Zenon
  <2> QED
    BY <2>1, <2>2, <2>3
<1>11. t4.default_flow_set
  <2>1. DOMAIN u4 = DOMAIN s
    BY Zenon DEF u4, v, write_default_miss, ComposeMore
  <2>2. s \in of_switch
    BY <1>6 DEF Rec
  <2>3. "default_flow_set" \in DOMAIN s
    BY <2>2, Zenon DEF of_switch
  <2> QED
    BY <2>1, <2>3, Zenon
<1>12. Rec(i, F, t4)
  BY <1>9, FlagsRec, Zenon
<1> HIDE DEF t, t1, t2, t3, t4, back
<1>13. t.rw # WRITE => i \in F
  BY DEF t
<1> QED
  BY <1>5, <1>6, <1>7, <1>10, <1>11, <1>12, <1>13 DEF t

LEMMA HandleWriteRec ==
    ASSUME NEW i, NEW D, NEW s, Rec(i, D, s), s.rw = WRITE, NEW n \in Int,
           NEW F, D \subseteq F, handle_write_socket(s, n).rw # WRITE => i \in F
    PROVE  LET t == handle_write_socket(s, n)
           IN  /\ Rec(i, F, t)
               /\ s.default_flow_set => t.default_flow_set
<1> DEFINE t == handle_write_socket(s, n)
           s1 == IF s.bytes_expected # 0 THEN write_to(s, n) ELSE s
<1>1. Rec(i, D, s1) /\ s1.rw = WRITE /\ s1.default_flow_set = s.default_flow_set
  BY WriteToRec
<1>2. t = IF s1.bytes_expected # 0 THEN s1 ELSE next_write(s1)
  BY Zenon DEF handle_write_socket
<1>3. t.rw # WRITE => i \in F
  OBVIOUS
<1> HIDE DEF t, s1
<1>4. Rec(i, F, s1)
  BY <1>1, RecGrows
<1>5. CASE s1.bytes_expected # 0
  BY <1>1, <1>2, <1>4, <1>5 DEF t
<1>6. CASE s1.bytes_expected = 0
  <2>1. t = next_write(s1)
    BY <1>2, <1>6
  <2>2. Rec(i, F, t) /\ (s1.default_flow_set => t.default_flow_set)
    BY <1>1, <1>3, <2>1, NextWriteRec
  <2> QED
    BY <1>1, <2>2 DEF t
<1> QED
  BY <1>5, <1>6

LEMMA NewSwitchRec ==
    ASSUME NEW i, NEW D
    PROVE  Rec(i, D, new_switch) /\ ~new_switch.default_flow_set /\ new_switch.rw = WRITE
<1> DEFINE b == calloc(BUF)
           m == Own("HELLO")
           a == [unused_switch EXCEPT !.rw = WRITE, !.bytes_expected = HDR,
                            !.reading_header = TRUE,
                            !.read_buffer = b, !.write_buffer = b]
           c == Store(a.write_buffer, 0, Cells(m))
           t == [a EXCEPT !.write_buffer = c, !.rw = WRITE,
                          !.bytes_expected = uint16(Size["HELLO"])]
<1>0. "HELLO" \in MsgType /\ << >> \in Seq(Cell) /\ 0 \in uint16_t
  BY DEF MsgType, uint16_t
<1>1. m \in Message /\ Permitted(i, D, m)
  BY <1>0, OwnPermitted
<1>2. b \in Seq(Inward(i, D)) /\ b \in Seq(Outward(i, D)) /\ b \in Seq(Cell)
  BY SizeFacts, ZeroIs, ZeroType, CallocIn
<1>3. HDR \in uint16_t
  BY <1>0, SizeFacts DEF uint16_t
<1>4. unused_switch \in of_switch /\ ~unused_switch.default_flow_set
  BY <1>0, Constants, Zenon DEF of_switch, unused_switch
<1> HIDE DEF b, m
<1>5. a \in of_switch
  BY <1>2, <1>3, <1>4, Constants, Zenon DEF of_switch
<1>6. a.read_buffer = b /\ a.write_buffer = b
  BY <1>4, Zenon DEF of_switch
<1>7. ~a.default_flow_set
  BY <1>4, Zenon DEF of_switch
<1>8. new_switch = t
  BY Zenon DEF new_switch, write_openflow_hello, b, m
<1> HIDE DEF a
<1>9. c \in Seq(Outward(i, D))
  BY <1>1, <1>2, <1>6, OutwardCells, StoreIn
<1> HIDE DEF c
<1>10. /\ t.rw = WRITE /\ t.read_buffer = a.read_buffer /\ t.write_buffer = c
       /\ t.default_flow_set = a.default_flow_set
  BY <1>5, Zenon DEF of_switch
<1>11. new_switch \in of_switch
  BY NewSwitchLoaded DEF Loaded, Ready
<1> HIDE DEF t
<1> QED
  BY <1>2, <1>6, <1>7, <1>8, <1>9, <1>10, <1>11 DEF Rec

-----------------------------------------------------------------------------
(* The streams, the records and the graph.                                 *)

Device == [device_num : Nat, next : Seq([device_num : Nat, port_num : 0..255])]

(* A link in the list of device i is a cable of the network.               *)
Real(i, D, link) ==
    NoForgery /\ link.device_num \in Switches =>
       /\ i \in D /\ link.device_num \in D
       /\ \E e \in Ends : /\ e[1] = i /\ e[3] = link.device_num
                         /\ link.port_num \in {0, e[2]}

(* Device k is as the network is.                                          *)
RealDevice(k, D, d) ==
    /\ d \in Device
    /\ d.device_num = k
    /\ \A j \in DOMAIN d.next : Real(k, D, d.next[j])

Content(D, l, g, sk, t) ==
    /\ \A i \in DOMAIN l : Rec(i, D, l[i])
    /\ g \in Seq(Device)
    /\ \A k \in DOMAIN g : RealDevice(k, D, g[k])
    /\ \A i \in Switches : sk[i] \in Seq(Inward(i, D)) /\ t[i] \in Seq(Outward(i, D))

(* Where no alarm may be raised, every list names a device once only, and  *)
(* two devices that are in the array name each other or neither does.      *)
Agreed(D, g) ==
    Calm(D) =>
      /\ D \subseteq DOMAIN g
      /\ \A a \in DOMAIN g : Once(g[a])
      /\ \A a, b \in DOMAIN g : b \in Named(g[a]) => a \in Named(g[b])

LEMMA EndsFacts ==
    /\ Ends \subseteq Switches \X Ports \X Switches \X Ports
    /\ \A e \in Ends : <<e[3], e[4], e[1], e[2]>> \in Ends
<1>1. \A c \in Cables : /\ c.from \in Switches /\ c.to \in Switches
                        /\ c.fromPort \in Ports /\ c.toPort \in Ports
  BY ControllerAssumption DEF ControllerAssumption
<1> QED
  BY <1>1 DEF Ends

LEMMA EndCabled == \A e \in Ends : {e[1], e[3]} \in Cabled
<1> SUFFICES ASSUME NEW e \in Ends PROVE {e[1], e[3]} \in Cabled
  OBVIOUS
<1>1. PICK c \in Cables : \/ e = <<c.from, c.fromPort, c.to, c.toPort>>
                          \/ e = <<c.to, c.toPort, c.from, c.fromPort>>
  BY DEF Ends
<1>2. {e[1], e[3]} = {c.from, c.to}
  BY <1>1
<1> QED
  BY <1>2 DEF Cabled

LEMMA RealGrows ==
    ASSUME NEW k, NEW D, NEW E, D \subseteq E, NEW d, RealDevice(k, D, d)
    PROVE  RealDevice(k, E, d)
BY DEF RealDevice, Real

(* A device gets a link at the end of its list.                            *)
LEMMA Enter ==
    ASSUME NEW k, NEW D, NEW d, RealDevice(k, D, d), NEW n \in Nat, NEW p \in Nat,
           Real(k, D, Link(n, p))
    PROVE  RealDevice(k, D, [d EXCEPT !.next = Append(@, Link(n, p))])
<1> DEFINE x == Link(n, p)
           S == [device_num : Nat, port_num : 0..255]
           e == [d EXCEPT !.next = Append(@, x)]
<1>1. x \in S
  <2>1. \A y \in Nat : y % 256 \in 0..255
    OBVIOUS
  <2> QED
    BY <2>1 DEF Link
<1>2. d.next \in Seq(S) /\ d.device_num = k /\ d \in Device
  BY DEF RealDevice, Device
<1> HIDE DEF x, S
<1>3. e.next = Append(d.next, x) /\ e.device_num = k
  BY <1>2 DEF Device
<1>4. /\ e.next \in Seq(S)
      /\ DOMAIN d.next = 1..Len(d.next) /\ DOMAIN e.next = 1..(Len(d.next) + 1)
      /\ Len(d.next) \in Nat
      /\ \A j \in 1..Len(d.next) : e.next[j] = d.next[j]
      /\ e.next[Len(d.next) + 1] = x
  BY <1>1, <1>2, <1>3, AppendProperties, LenProperties
<1>5. e \in Device
  BY <1>2, <1>3, <1>4 DEF Device, S
<1>6. \A j \in DOMAIN e.next : Real(k, D, e.next[j])
  <2> SUFFICES ASSUME NEW j \in DOMAIN e.next PROVE Real(k, D, e.next[j])
    OBVIOUS
  <2>1. j \in 1..Len(d.next) \/ j = Len(d.next) + 1
    BY <1>4
  <2>2. Real(k, D, x)
    BY DEF x
  <2> HIDE DEF e
  <2> QED
    BY <1>4, <2>1, <2>2 DEF RealDevice
<1> QED
  BY <1>3, <1>5, <1>6 DEF RealDevice, x

(* A probe that is genuine adds a real link to both devices.               *)
LEMMA ConnectReal ==
    ASSUME NEW D, NEW g, DOMAIN g \subseteq Switches,
           \A k \in DOMAIN g : RealDevice(k, D, g[k]),
           NEW i \in Switches, NEW m \in Message, m.info = "probe", Genuine(i, D, m)
    PROVE  LET h == connect(g, i, m.fd, 0, m.port)
           IN  /\ DOMAIN h = DOMAIN g
               /\ \A k \in DOMAIN g : RealDevice(k, D, h[k])
<1> DEFINE h == connect(g, i, m.fd, 0, m.port)
<1>1. m.fd \in Nat /\ m.port \in Nat /\ i \in Nat
  BY DEF Message, Switches
<1>2. DOMAIN h = DOMAIN g
  BY DEF connect
<1>3. ASSUME NEW k \in DOMAIN g PROVE RealDevice(k, D, h[k])
  <2>1. RealDevice(k, D, g[k]) /\ g[k].device_num = k /\ k \in Switches
    BY DEF RealDevice
  <2> DEFINE u == [g[k] EXCEPT !.next = Append(@, Link(m.fd, m.port))]
             v == [g[k] EXCEPT !.next = Append(@, Link(i, 0))]
  <2>2. \/ h[k] = g[k]
        \/ k = i /\ h[k] = u
        \/ k = m.fd /\ k # i /\ h[k] = v
    <3> DEFINE dup == \E j \in DOMAIN g[k].next : g[k].next[j].device_num \in {i, m.fd}
               x == IF g[k].device_num = i THEN Link(m.fd, m.port) ELSE Link(i, 0)
    <3>1. h[k] = IF g[k].device_num \notin {i, m.fd} \/ dup THEN g[k]
                 ELSE [g[k] EXCEPT !.next = Append(@, x)]
      BY DEF connect
    <3>2. k = i => x = Link(m.fd, m.port)
      BY <2>1
    <3>3. k # i => x = Link(i, 0)
      BY <2>1
    <3> HIDE DEF h, dup, x
    <3>4. CASE h[k] = g[k]
      BY <3>4
    <3>5. CASE k \in {i, m.fd} /\ h[k] = [g[k] EXCEPT !.next = Append(@, x)]
      <4>1. CASE k = i
        BY <3>2, <3>5, <4>1
      <4>2. CASE k # i
        BY <3>3, <3>5, <4>2
      <4> QED
        BY <4>1, <4>2
    <3> QED
      BY <2>1, <3>1, <3>4, <3>5
  <2>3. ASSUME k = i PROVE RealDevice(k, D, u)
    <3>1. Link(m.fd, m.port).device_num = m.fd /\ Link(m.fd, m.port).port_num = m.port % 256
      BY DEF Link
    <3>2. \A e \in Ends : e[2] % 256 = e[2]
      <4>1. \A e \in Ends : e[2] \in 0..49
        BY EndsFacts DEF Ports
      <4>2. \A x \in 0..49 : x % 256 = x
        OBVIOUS
      <4> QED
        BY <4>1, <4>2
    <3>3. Real(k, D, Link(m.fd, m.port))
      BY <2>3, <3>1, <3>2 DEF Real, Genuine
    <3> QED
      BY <1>1, <2>1, <3>3, Enter, Zenon
  <2>4. ASSUME k = m.fd PROVE RealDevice(k, D, v)
    <3>1. Link(i, 0).device_num = i /\ Link(i, 0).port_num = 0
      BY DEF Link
    <3>2. ASSUME NoForgery PROVE i \in D /\ m.fd \in D /\ \E e \in Ends : e[1] = k /\ e[3] = i
      <4>1. /\ i \in D /\ m.fd \in D
            /\ \E e \in Ends : e[1] = i /\ e[3] = k
        BY <2>1, <2>4, <3>2 DEF Genuine
      <4>2. PICK e \in Ends : e[1] = i /\ e[3] = k
        BY <4>1
      <4>3. <<e[3], e[4], e[1], e[2]>> \in Ends
        BY EndsFacts
      <4> QED
        BY <4>1, <4>2, <4>3
    <3>3. Real(k, D, Link(i, 0))
      BY <2>4, <3>1, <3>2 DEF Real
    <3>4. 0 \in Nat
      OBVIOUS
    <3> QED
      BY <1>1, <2>1, <3>3, <3>4, Enter, Zenon
  <2> QED
    BY <2>1, <2>2, <2>3, <2>4
<1> QED
  BY <1>2, <1>3

(* A new name at the end of a list.                                        *)
LEMMA EnterOnce ==
    ASSUME NEW d \in Device, NEW n, NEW p, Once(d), n \notin Named(d)
    PROVE  LET e == [d EXCEPT !.next = Append(@, Link(n, p))]
           IN  Named(e) = Named(d) \cup {n} /\ Once(e)
<1> DEFINE x == Link(n, p)
           e == [d EXCEPT !.next = Append(@, x)]
<1>1. x.device_num = n
  BY DEF Link
<1>2. d.next \in Seq([device_num : Nat, port_num : 0..255])
  BY DEF Device
<1> HIDE DEF x
<1>3. e.next = Append(d.next, x)
  BY DEF Device
<1>4. /\ DOMAIN d.next = 1..Len(d.next) /\ Len(d.next) \in Nat
      /\ DOMAIN Append(d.next, x) = 1..(Len(d.next) + 1)
      /\ \A k \in 1..Len(d.next) : Append(d.next, x)[k] = d.next[k]
      /\ Append(d.next, x)[Len(d.next) + 1] = x
  <2> DEFINE st == d.next
             Y == [device_num : Nat, port_num : 0..255]
             X == Y \cup {x}
  <2>1. st \in Seq(X) /\ x \in X
    <3>1. st \in Seq(Y)
      BY <1>2
    <3> HIDE DEF st, Y
    <3>2. Y \subseteq X /\ x \in X
      OBVIOUS
    <3> HIDE DEF X
    <3> QED
      BY <3>1, <3>2, SeqGrows
  <2> HIDE DEF st, X
  <2>2. /\ DOMAIN st = 1..Len(st) /\ Len(st) \in Nat
        /\ DOMAIN Append(st, x) = 1..(Len(st) + 1)
        /\ \A k \in 1..Len(st) : Append(st, x)[k] = st[k]
        /\ Append(st, x)[Len(st) + 1] = x
    BY <2>1, AppendProperties, LenProperties
  <2> QED
    BY <2>2 DEF st
<1> HIDE DEF e
<1>5. Named(e) = Named(d) \cup {n}
  BY <1>1, <1>3, <1>4 DEF Named
<1>6. Once(e)
  BY <1>1, <1>3, <1>4 DEF Once, Named
<1> QED
  BY <1>5, <1>6 DEF e, x

(* What a list names is cabled to its device.                              *)
LEMMA NamedCabled ==
    ASSUME NoForgery, NEW D, NEW k, NEW d, RealDevice(k, D, d),
           NEW n \in Named(d), n \in Switches
    PROVE  n \in D /\ {k, n} \in Cabled
<1>1. PICK j \in DOMAIN d.next : n = d.next[j].device_num
  BY DEF Named
<1>2. n \in D /\ \E e \in Ends : e[1] = k /\ e[3] = n
  BY <1>1 DEF RealDevice, Real
<1> QED
  BY <1>2, EndCabled

(* The probe that is genuine names each of two devices in the list of the  *)
(* other, unless both are named already.                                   *)
LEMMA ConnectAgreed ==
    ASSUME NEW D, NEW g \in Seq(Device), DOMAIN g \subseteq Switches,
           \A k \in DOMAIN g : RealDevice(k, D, g[k]), Agreed(D, g),
           NEW i \in Switches, NEW m \in Message, m.info = "probe", Genuine(i, D, m)
    PROVE  Agreed(D, connect(g, i, m.fd, 0, m.port))
<1> DEFINE h == connect(g, i, m.fd, 0, m.port)
           n == m.fd
           Other(k) == IF k = i THEN {n} ELSE IF k = n THEN {i} ELSE {}
<1> SUFFICES ASSUME Calm(D) PROVE Agreed(D, h)
  BY DEF Agreed
<1>1. DOMAIN h = DOMAIN g
  BY DEF connect
<1>2. /\ NoForgery /\ Forest(Switches, Cabled)
      /\ D \subseteq DOMAIN g
      /\ \A a \in DOMAIN g : Once(g[a])
      /\ \A a, b \in DOMAIN g : b \in Named(g[a]) => a \in Named(g[b])
  BY DEF Calm, Agreed, Loopless
<1>3. \A a \in Switches : {a, a} \notin Cabled
  <2>1. \A a \in Switches : {a} \notin Cabled
    BY <1>2, NoneToSelf
  <2> QED
    BY <2>1, Zenon
<1>4. i # n
  <2> SUFFICES ASSUME i = n PROVE FALSE
    OBVIOUS
  <2>1. \E e \in Ends : e[1] = i /\ e[3] = i
    BY <1>2 DEF Genuine
  <2> QED
    BY <1>3, <2>1, EndCabled
<1>5. ASSUME NEW a \in DOMAIN g PROVE a \notin Named(g[a])
  BY <1>2, <1>3, NamedCabled
<1>6. ASSUME NEW k \in DOMAIN g
      PROVE  Named(h[k]) = Named(g[k]) \cup Other(k) /\ Once(h[k])
  <2> DEFINE dup == \E j \in DOMAIN g[k].next : g[k].next[j].device_num \in {i, n}
             x == IF k = i THEN Link(n, m.port) ELSE Link(i, 0)
  <2>1. g[k].device_num = k /\ g[k] \in Device
    BY DEF RealDevice
  <2>2. h[k] = IF k \notin {i, n} \/ dup THEN g[k]
               ELSE [g[k] EXCEPT !.next = Append(@, x)]
    BY <2>1 DEF connect
  <2>3. dup <=> i \in Named(g[k]) \/ n \in Named(g[k])
    BY DEF Named
  <2>4. k = i => LET e == [g[k] EXCEPT !.next = Append(@, Link(n, m.port))]
                 IN  n \notin Named(g[k]) => Named(e) = Named(g[k]) \cup {n} /\ Once(e)
    BY <1>2, <2>1, EnterOnce
  <2>5. k = n => LET e == [g[k] EXCEPT !.next = Append(@, Link(i, 0))]
                 IN  i \notin Named(g[k]) => Named(e) = Named(g[k]) \cup {i} /\ Once(e)
    BY <1>2, <2>1, EnterOnce
  <2>6. Once(g[k]) /\ k \notin Named(g[k])
    BY <1>2, <1>5
  <2> HIDE DEF h, dup, n
  <2>7. CASE k = i
    <3>1. Other(k) = {n} /\ x = Link(n, m.port)
      BY <2>7
    <3> HIDE DEF Other, x
    <3>2. CASE dup
      BY <2>2, <2>3, <2>6, <2>7, <3>1, <3>2
    <3>3. CASE ~dup
      <4>1. h[k] = [g[k] EXCEPT !.next = Append(@, Link(n, m.port))]
        BY <2>2, <2>7, <3>1, <3>3
      <4> QED
        BY <2>3, <2>4, <2>7, <3>1, <3>3, <4>1
    <3> QED
      BY <3>2, <3>3
  <2>8. CASE k = n
    <3>1. Other(k) = {i} /\ x = Link(i, 0)
      BY <1>4, <2>8
    <3> HIDE DEF Other, x
    <3>2. CASE dup
      BY <2>2, <2>3, <2>6, <2>8, <3>1, <3>2
    <3>3. CASE ~dup
      <4>1. h[k] = [g[k] EXCEPT !.next = Append(@, Link(i, 0))]
        BY <2>2, <2>8, <3>1, <3>3
      <4> QED
        BY <2>3, <2>5, <2>8, <3>1, <3>3, <4>1
    <3> QED
      BY <3>2, <3>3
  <2>9. CASE k \notin {i, n}
    BY <2>2, <2>6, <2>9
  <2> QED
    BY <2>7, <2>8, <2>9
<1> HIDE DEF h, n
<1>7. ASSUME NEW a \in DOMAIN g, NEW b \in DOMAIN g, b \in Named(h[a])
      PROVE  a \in Named(h[b])
  BY <1>2, <1>4, <1>6, <1>7
<1> QED
  BY <1>1, <1>2, <1>6, <1>7 DEF Agreed

(* Nothing is found in the graph of a network without loops.               *)
LEMMA CalmSearch ==
    ASSUME NEW D, Calm(D), NEW g \in Seq(Device), DOMAIN g \subseteq Switches,
           \A k \in DOMAIN g : RealDevice(k, D, g[k]), Agreed(D, g)
    PROVE  loop_exists(g) \in {0, Nowhere}
<1> DEFINE F == {l \in Cabled : \E a, b \in DOMAIN g : l = {a, b} /\ b \in Named(g[a])}
<1>1. g \in Seq(Node) /\ \A k \in DOMAIN g : g[k].device_num = k
  BY DEF Device, Node, RealDevice
<1>2. Nums(g) = DOMAIN g
  BY <1>1 DEF Nums
<1>3. /\ NoForgery /\ Forest(Switches, Cabled)
      /\ \A a \in DOMAIN g : Once(g[a])
      /\ \A a, b \in DOMAIN g : b \in Named(g[a]) => a \in Named(g[b])
  BY DEF Calm, Agreed, Loopless
<1>4. Pairs(DOMAIN g, F)
  BY DEF Pairs
<1>5. Forest(DOMAIN g, F)
  <2>1. F \subseteq Cabled
    OBVIOUS
  <2> HIDE DEF F
  <2> QED
    BY <1>3, <1>4, <2>1, ForestWithin
<1>6. ASSUME NEW a \in DOMAIN g
      PROVE  Named(g[a]) \cap DOMAIN g = Beside(DOMAIN g, F, a)
  <2>1. ASSUME NEW n \in Named(g[a]), n \in DOMAIN g PROVE {a, n} \in F
    <3>1. {a, n} \in Cabled
      BY <1>3, <2>1, NamedCabled
    <3> QED
      BY <2>1, <3>1
  <2>2. ASSUME NEW n \in DOMAIN g, {a, n} \in F PROVE n \in Named(g[a])
    <3>1. PICK x \in DOMAIN g, y \in DOMAIN g : {a, n} = {x, y} /\ y \in Named(g[x])
      BY <2>2
    <3>2. (a = x /\ n = y) \/ (a = y /\ n = x)
      BY <3>1
    <3> QED
      BY <1>3, <3>1, <3>2
  <2> HIDE DEF F
  <2> QED
    BY <2>1, <2>2 DEF Beside
<1> HIDE DEF F
<1>7. ListsWithin(g, F)
  BY <1>1, <1>2, <1>4, <1>6, ListNames DEF ListsWithin
<1>8. ListedOnce(g)
  BY <1>1, <1>2, <1>3, ListNames DEF ListedOnce
<1> QED
  BY <1>1, <1>2, <1>5, <1>7, <1>8, LostInForest

LEMMA AgreedGrows ==
    ASSUME NEW D, NEW E, D \subseteq E, NEW g, E \subseteq DOMAIN g, Agreed(D, g)
    PROVE  Agreed(E, g)
BY DEF Agreed, Calm

(* Of Nat, where every switch counts as set up, nothing is said.           *)
LEMMA NeverCalm ==
    /\ ~Calm(Nat)
    /\ \A g : Agreed(Nat, g)
<1>1. MaxSwitches \in Nat
  BY ControllerAssumption DEF ControllerAssumption
<1>2. MaxSwitches + 1 \in Nat /\ MaxSwitches + 1 \notin 1..MaxSwitches
  BY <1>1
<1> QED
  BY <1>2 DEF Calm, Agreed, Switches

LEMMA Overwrite ==
    ASSUME NEW S, NEW l \in Seq(S), NEW x, NEW v, x \in DOMAIN l => v \in S
    PROVE  LET t == [l EXCEPT ![x] = v]
           IN  /\ t \in Seq(S) /\ Len(t) = Len(l) /\ DOMAIN t = DOMAIN l
               /\ \A j \in DOMAIN l : t[j] = IF j = x THEN v ELSE l[j]
<1> DEFINE t == [l EXCEPT ![x] = v]
<1>1. Len(l) \in Nat /\ DOMAIN l = 1..Len(l) /\ \A j \in 1..Len(l) : l[j] \in S
  BY LenProperties, ElementOfSeq
<1>2. /\ DOMAIN t = DOMAIN l
      /\ \A j \in DOMAIN l : t[j] = IF j = x THEN v ELSE l[j]
  OBVIOUS
<1>3. t = [j \in DOMAIN l |-> IF j = x THEN v ELSE l[j]]
  OBVIOUS
<1> HIDE DEF t
<1>4. t \in [1..Len(l) -> S]
  BY <1>1, <1>3
<1>5. t \in Seq(S) /\ Len(t) = Len(l)
  BY <1>1, <1>4, FunctionIsSeq
<1> QED
  BY <1>2, <1>5 DEF t

LEMMA HeaderGenuine ==
    ASSUME NEW i, NEW D, NEW s, Rec(i, D, s), NEW m \in Header(s)
    PROVE  m \in Message /\ Genuine(i, D, m)
<1>1. s.read_buffer \in Seq(Inward(i, D))
  BY DEF Rec
<1>2. CASE Len(s.read_buffer) > 0 /\ s.read_buffer[1].pos = 1
  <2>1. s.read_buffer[1] \in Inward(i, D)
    BY <1>1, <1>2, ElementOfSeq, LenProperties
  <2>2. m = s.read_buffer[1].msg
    BY <1>2 DEF Header
  <2> QED
    BY <2>1, <2>2 DEF Inward, Cell
<1>3. CASE ~(Len(s.read_buffer) > 0 /\ s.read_buffer[1].pos = 1)
  <2>1. m \in Garbage
    BY <1>3 DEF Header
  <2> QED
    BY <2>1, SizesAssumption DEF SizesAssumption, Genuine, NoForgery
<1> QED
  BY <1>2, <1>3

(* What serving slot i may do to the records, the graph and the rest of    *)
(* the controller's state: another record changes only if the search for   *)
(* loops has named it.                                                     *)
Handled(i, D) ==
    /\ list' \in Seq(of_switch) /\ Len(list') = Len(list)
    /\ \A j \in DOMAIN list :
         /\ Rec(j, D, list'[j])
         /\ list'[j].default_flow_set = list[j].default_flow_set
         /\ j # i => \/ list'[j] = list[j]
                     \/ list'[j].rw = WRITE /\ j = loop_exists(graph')
    /\ graph' \in Seq(Device) /\ Len(graph') = Len(graph)
    /\ \A k \in DOMAIN graph' : RealDevice(k, D, graph'[k])
    /\ Agreed(D, graph')
    /\ pc' \in {"loop", "serve", "killed", "undefined"}
    /\ pc' = "killed" => loop_exists(graph') = Nowhere
    /\ closed' \subseteq DOMAIN list /\ freed' \subseteq DOMAIN list

LEMMA ListFacts ==
    ASSUME TypeOK
    PROVE  /\ list \in Seq(of_switch) /\ Len(list) \in Nat /\ DOMAIN list = 1..Len(list)
           /\ DOMAIN list \subseteq Switches /\ DOMAIN list \subseteq Nat
           /\ Switches \subseteq Nat
           /\ \A i \in Switches : sock[i] \in Seq(Cell) /\ tx[i] \in Seq(Cell)
<1>1. list \in Seq(of_switch) /\ Len(list) <= arrived /\ arrived \in 0..MaxSwitches
  BY DEF TypeOK
<1>2. Len(list) \in Nat /\ DOMAIN list = 1..Len(list) /\ MaxSwitches \in Nat
  BY <1>1, LenProperties, ControllerAssumption DEF ControllerAssumption
<1>3. sock \in [Switches -> Seq(Cell)] /\ tx \in [Switches -> Seq(Cell)]
  BY DEF TypeOK
<1> QED
  BY <1>1, <1>2, <1>3 DEF Switches

LEMMA MoreStep ==
    ASSUME TypeOK, NEW D, Content(D, list, graph, sock, tx), Agreed(D, graph),
           NEW i \in DOMAIN list, NEW s, Rec(i, D, s),
           s.default_flow_set = list[i].default_flow_set,
           list' = [list EXCEPT ![i] = s], pc' = after(i),
           UNCHANGED <<graph, closed, freed>>
    PROVE  Handled(i, D)
<1>1. list \in Seq(of_switch) /\ s \in of_switch
  BY ListFacts DEF Rec
<1>2. /\ list' \in Seq(of_switch) /\ Len(list') = Len(list)
      /\ \A j \in DOMAIN list : list'[j] = IF j = i THEN s ELSE list[j]
  BY <1>1, Overwrite
<1>3. \A j \in DOMAIN list : Rec(j, D, list[j])
  BY DEF Content
<1>4. /\ graph' \in Seq(Device) /\ Len(graph') = Len(graph)
      /\ \A k \in DOMAIN graph' : RealDevice(k, D, graph'[k])
      /\ Agreed(D, graph')
  BY DEF Content
<1>5. pc' \in {"loop", "serve"}
  BY DEF after
<1>6. closed' \subseteq DOMAIN list /\ freed' \subseteq DOMAIN list
  BY DEF TypeOK
<1>7. \A j \in DOMAIN list :
         /\ Rec(j, D, list'[j])
         /\ list'[j].default_flow_set = list[j].default_flow_set
         /\ j # i => list'[j] = list[j]
  BY <1>2, <1>3
<1> QED
  BY <1>2, <1>4, <1>5, <1>6, <1>7 DEF Handled

LEMMA CompleteStep ==
    ASSUME TypeOK, NEW D, Content(D, list, graph, sock, tx), Agreed(D, graph),
           NEW i \in DOMAIN list, i \in D, NEW s, Rec(i, D, s),
           s.default_flow_set = list[i].default_flow_set,
           NEW m \in Message, Genuine(i, D, m), Complete(i, s, m)
    PROVE  Handled(i, D)
<1> DEFINE l == [list EXCEPT ![i] = dispatch(s, i, m)]
           probe == s.of_status = "PACKET_IN" /\ m.info = "probe"
<1>1. /\ list \in Seq(of_switch) /\ s \in of_switch /\ i \in Nat /\ i \in Switches
      /\ DOMAIN list \subseteq Nat
      /\ \A j \in DOMAIN list : Rec(j, D, list[j])
  BY ListFacts DEF Rec, Content
<1>2. Rec(i, D, dispatch(s, i, m))
      /\ dispatch(s, i, m).default_flow_set = s.default_flow_set
  BY <1>1, DispatchRec, Zenon
<1>3. dispatch(s, i, m) \in of_switch
  BY <1>2 DEF Rec
<1>4. /\ l \in Seq(of_switch) /\ Len(l) = Len(list) /\ DOMAIN l = DOMAIN list
      /\ \A j \in DOMAIN list : l[j] = IF j = i THEN dispatch(s, i, m) ELSE list[j]
  BY <1>1, <1>3, Overwrite
<1>5. closed' \subseteq DOMAIN list
  BY DEF Complete, read_openflow_hello, TypeOK
<1>6. freed' \subseteq DOMAIN list
  <2>1. free_switch_buffers(l, i) \subseteq DOMAIN list
    BY <1>4, Zenon DEF free_switch_buffers
  <2>2. freed' = freed \cup free_switch_buffers(l, i) \/ freed' = freed
    BY Zenon DEF Complete
  <2> QED
    BY <2>1, <2>2 DEF TypeOK
<1>7. CASE ~probe
  <2> DEFINE x == await_next_header(dispatch(s, i, m))
  <2>1. /\ list' = [l EXCEPT ![i] = await_next_header(@)]
        /\ pc' = after(i) /\ UNCHANGED graph
    BY <1>7, Zenon DEF Complete
  <2>2. l[i] = dispatch(s, i, m)
    BY <1>4
  <2> HIDE DEF l
  <2>3. list' = [l EXCEPT ![i] = x]
    BY <2>1, <2>2
  <2>4. Rec(i, D, x) /\ x.default_flow_set = s.default_flow_set
    BY <1>2, AwaitRec
  <2> HIDE DEF x
  <2>5. x \in of_switch
    BY <2>4 DEF Rec
  <2>6. /\ list' \in Seq(of_switch) /\ Len(list') = Len(l)
        /\ \A j \in DOMAIN l : list'[j] = IF j = i THEN x ELSE l[j]
    BY <1>4, <2>3, <2>5, Overwrite
  <2>7. \A j \in DOMAIN list :
         /\ Rec(j, D, list'[j])
         /\ list'[j].default_flow_set = list[j].default_flow_set
         /\ j # i => list'[j] = list[j]
    BY <1>1, <1>4, <2>4, <2>6
  <2>8. /\ graph' \in Seq(Device) /\ Len(graph') = Len(graph)
        /\ \A k \in DOMAIN graph' : RealDevice(k, D, graph'[k])
        /\ Agreed(D, graph')
    BY <2>1 DEF Content
  <2>9. pc' \in {"loop", "serve"}
    BY <2>1 DEF after
  <2> QED
    BY <1>4, <1>5, <1>6, <2>6, <2>7, <2>8, <2>9 DEF Handled
<1>8. CASE probe
  <2> DEFINE g == connect(graph, i, m.fd, 0, m.port)
             ld == loop_exists(g)
             l0 == [list EXCEPT ![i] = s]
             l2 == IF ld \in {0, Nowhere} THEN l0
                   ELSE [l0 EXCEPT ![ld] = change_port_behavior(@, m.port)]
  <2>1. add_connection(i, s, m)
    BY <1>8, Zenon DEF Complete
  <2>2. /\ graph' = g
        /\ list' = [l2 EXCEPT ![i] = await_next_header(@)]
        /\ pc' = IF ld = Nowhere THEN "killed"
                 ELSE IF ld \in freed THEN "undefined" ELSE after(i)
    BY <2>1, Zenon DEF add_connection
  <2>3. /\ g \in Seq(Device) /\ Len(g) = Len(graph)
        /\ \A k \in DOMAIN g : RealDevice(k, D, g[k])
        /\ DOMAIN g \subseteq Switches /\ Agreed(D, g)
    <3>1. /\ graph \in Seq(Device) /\ Len(graph) \in Nat /\ DOMAIN graph = 1..Len(graph)
          /\ DOMAIN graph \subseteq Switches
          /\ \A k \in DOMAIN graph : RealDevice(k, D, graph[k])
      <4>1. Len(graph) = Len(list)
        BY DEF TypeOK
      <4>2. graph \in Seq(Device) /\ \A k \in DOMAIN graph : RealDevice(k, D, graph[k])
        BY DEF Content
      <4>3. DOMAIN graph = 1..Len(graph) /\ Len(graph) \in Nat
        BY <4>2, LenProperties
      <4> QED
        BY <4>1, <4>2, <4>3, ListFacts
    <3>2. m.info = "probe"
      BY <1>8
    <3>3. DOMAIN g = DOMAIN graph /\ \A k \in DOMAIN graph : RealDevice(k, D, g[k])
      BY <1>1, <3>1, <3>2, ConnectReal, Zenon
    <3>4. g = [k \in DOMAIN graph |-> g[k]]
      BY DEF connect
    <3>6. Agreed(D, g)
      BY <1>1, <3>1, <3>2, ConnectAgreed, Zenon
    <3> HIDE DEF g
    <3>5. g \in [1..Len(graph) -> Device]
      BY <3>1, <3>3, <3>4 DEF RealDevice
    <3> QED
      BY <3>1, <3>3, <3>5, <3>6, FunctionIsSeq
  <2>4. /\ l0 \in Seq(of_switch) /\ Len(l0) = Len(list) /\ DOMAIN l0 = DOMAIN list
        /\ \A j \in DOMAIN list : l0[j] = IF j = i THEN s ELSE list[j]
    BY <1>1, Overwrite
  <2>5. \A j \in DOMAIN list : Rec(j, D, l0[j])
                               /\ l0[j].default_flow_set = list[j].default_flow_set
    BY <1>1, <2>4
  <2>6. m.port \in Nat
    BY DEF Message
  <2> HIDE DEF g, l0, ld
  <2>7. ld \notin {0, Nowhere} =>
          \A j \in DOMAIN list :
            LET c == change_port_behavior(l0[j], m.port)
            IN  Rec(j, D, c) /\ c.rw = WRITE
                /\ c.default_flow_set = list[j].default_flow_set
    <3>1. ld \notin {0, Nowhere} => ~Calm(D)
      BY <2>3, CalmSearch DEF ld
    <3> QED
      BY <2>5, <2>6, <3>1, PortModRec
  <2>8. /\ l2 \in Seq(of_switch) /\ Len(l2) = Len(list) /\ DOMAIN l2 = DOMAIN list
        /\ \A j \in DOMAIN list :
             /\ Rec(j, D, l2[j])
             /\ l2[j].default_flow_set = list[j].default_flow_set
             /\ \/ l2[j] = l0[j]
                \/ l2[j].rw = WRITE /\ j = ld
    <3>1. CASE ld \in {0, Nowhere}
      BY <2>4, <2>5, <3>1
    <3>2. CASE ld \notin {0, Nowhere}
      <4> DEFINE v == change_port_behavior(l0[ld], m.port)
      <4>1. l2 = [l0 EXCEPT ![ld] = v]
        BY <3>2
      <4>2. ld \in DOMAIN l0 => v \in of_switch
        BY <2>4, <2>7, <3>2 DEF Rec
      <4>3. ld \in DOMAIN l0 => /\ Rec(ld, D, v) /\ v.rw = WRITE
                                /\ v.default_flow_set = list[ld].default_flow_set
        BY <2>4, <2>7, <3>2
      <4> HIDE DEF v, l2
      <4>4. /\ l2 \in Seq(of_switch) /\ Len(l2) = Len(l0) /\ DOMAIN l2 = DOMAIN l0
            /\ \A j \in DOMAIN l0 : l2[j] = IF j = ld THEN v ELSE l0[j]
        BY <2>4, <4>1, <4>2, Overwrite
      <4> QED
        BY <2>4, <2>5, <4>3, <4>4
    <3> QED
      BY <3>1, <3>2
  <2> HIDE DEF l2
  <2> DEFINE x == await_next_header(l2[i])
  <2>9. Rec(i, D, x) /\ x.default_flow_set = list[i].default_flow_set
    BY <2>8, AwaitRec
  <2>10. list' = [l2 EXCEPT ![i] = x]
    BY <2>2
  <2>11. x \in of_switch
    BY <2>9 DEF Rec
  <2> HIDE DEF x
  <2>12. /\ list' \in Seq(of_switch) /\ Len(list') = Len(l2)
         /\ \A j \in DOMAIN l2 : list'[j] = IF j = i THEN x ELSE l2[j]
    BY <2>8, <2>10, <2>11, Overwrite
  <2>13. \A j \in DOMAIN list :
         /\ Rec(j, D, list'[j])
         /\ list'[j].default_flow_set = list[j].default_flow_set
         /\ j # i => \/ list'[j] = list[j]
                     \/ list'[j].rw = WRITE /\ j = loop_exists(graph')
    BY <2>2, <2>4, <2>8, <2>9, <2>12 DEF ld
  <2>14. /\ graph' \in Seq(Device) /\ Len(graph') = Len(graph)
         /\ \A k \in DOMAIN graph' : RealDevice(k, D, graph'[k])
         /\ Agreed(D, graph')
    BY <2>2, <2>3
  <2>15. /\ pc' \in {"loop", "serve", "killed", "undefined"}
         /\ pc' = "killed" => loop_exists(graph') = Nowhere
    BY <2>2 DEF after, ld
  <2> QED
    BY <1>5, <1>6, <2>8, <2>12, <2>13, <2>14, <2>15 DEF Handled
<1> QED
  BY <1>7, <1>8

(* Only a writer is served as one, and only a switch that waits is         *)
(* accepted.                                                               *)
Turns ==
    /\ 0 \in rset => Len(list) < arrived
    /\ \A i \in wset : list[i].rw = WRITE

(* The record and the message that come out of a recv.                     *)
LEMMA ServeReadStep ==
    ASSUME TypeOK, NEW D, Content(D, list, graph, sock, tx), Agreed(D, graph),
           NEW i \in DOMAIN list, i \in D, Serve_read(i)
    PROVE  /\ Handled(i, D)
           /\ sock' \in [Switches -> Seq(Cell)]
           /\ \A j \in Switches : sock'[j] \in Seq(Inward(j, D))
<1>1. PICK ret \in -1..Len(sock[i]) :
         /\ ret <= 0 <=> sock[i] = << >>
         /\ LET n == IF ret > 0 THEN ret ELSE 0
                s1 == read_from(list[i], ret, SubSeq(sock[i], 1, n))
                more(s) == /\ list' = [list EXCEPT ![i] = s]
                           /\ pc' = after(i)
                           /\ UNCHANGED <<graph, closed, freed>>
            IN  /\ IF s1.bytes_expected # 0
                   THEN more(s1)
                   ELSE \E m \in Header(s1) :
                          LET s2 == parse_header(s1, m)
                          IN  IF s2.bytes_expected # 0 THEN more(s2)
                              ELSE Complete(i, s2, m)
                /\ sock' = [sock EXCEPT ![i] = SubSeq(@, n + 1, Len(@))]
  BY Zenon DEF Serve_read
<1> DEFINE n == IF ret > 0 THEN ret ELSE 0
           a == SubSeq(sock[i], 1, n)
           s1 == read_from(list[i], ret, a)
<1>2. /\ Rec(i, D, list[i]) /\ i \in Switches
      /\ \A j \in Switches : sock[j] \in Seq(Inward(j, D))
      /\ sock \in [Switches -> Seq(Cell)]
  BY ListFacts DEF Content, TypeOK
<1>3. Len(sock[i]) \in Nat
  BY <1>2, LenProperties
<1>4. ret \in Int /\ n \in Nat /\ n <= Len(sock[i])
  BY <1>3
<1>5. a \in Seq(Inward(i, D))
  <2>1. 1 \in Nat \ {0} /\ n \in Int
    BY <1>4
  <2> HIDE DEF n
  <2> QED
    BY <1>2, <1>4, <2>1, PartIn
<1>6. /\ Rec(i, D, s1)
      /\ s1.default_flow_set = list[i].default_flow_set
  <2>1. Rec(i, D, list[i]) /\ ret \in Int /\ a \in Seq(Inward(i, D))
    BY <1>2, <1>4, <1>5
  <2> HIDE DEF a
  <2>2. LET t == read_from(list[i], ret, a)
        IN  Rec(i, D, t) /\ t.rw = list[i].rw /\ t.default_flow_set = list[i].default_flow_set
    BY <2>1, ReadFromRec
  <2> QED
    BY <2>2, Zenon
<1>7. Handled(i, D)
  <2> HIDE DEF a, n, s1
  <2>1. CASE s1.bytes_expected # 0
    <3>1. list' = [list EXCEPT ![i] = s1] /\ pc' = after(i) /\ UNCHANGED <<graph, closed, freed>>
      BY <1>1, <2>1, Zenon DEF a, n, s1
    <3> QED
      BY <1>6, <3>1, MoreStep
  <2>2. CASE s1.bytes_expected = 0
    <3>1. PICK m \in Header(s1) :
            LET s2 == parse_header(s1, m)
            IN  IF s2.bytes_expected # 0
                THEN /\ list' = [list EXCEPT ![i] = s2]
                     /\ pc' = after(i) /\ UNCHANGED <<graph, closed, freed>>
                ELSE Complete(i, s2, m)
      BY <1>1, <2>2, Zenon DEF a, n, s1
    <3> DEFINE s2 == parse_header(s1, m)
    <3>2. m \in Message /\ Genuine(i, D, m)
      BY <1>6, HeaderGenuine
    <3>3. /\ Rec(i, D, s2)
          /\ s2.default_flow_set = list[i].default_flow_set
      BY <1>6, <3>2, ParseHeaderRec, Zenon
    <3>4. \/ /\ list' = [list EXCEPT ![i] = s2]
             /\ pc' = after(i) /\ UNCHANGED <<graph, closed, freed>>
          \/ Complete(i, s2, m)
      BY <3>1
    <3> HIDE DEF s2
    <3> QED
      BY <3>2, <3>3, <3>4, MoreStep, CompleteStep
  <2> QED
    BY <2>1, <2>2
<1>8. sock' = [sock EXCEPT ![i] = SubSeq(sock[i], n + 1, Len(sock[i]))]
  BY <1>1
<1>9. SubSeq(sock[i], n + 1, Len(sock[i])) \in Seq(Inward(i, D))
  <2>1. n + 1 \in Nat \ {0} /\ Len(sock[i]) \in Int /\ Len(sock[i]) <= Len(sock[i])
    BY <1>3, <1>4
  <2> HIDE DEF n
  <2> QED
    BY <1>2, <2>1, PartIn
<1>10. Seq(Inward(i, D)) \subseteq Seq(Cell)
  <2>1. Inward(i, D) \subseteq Cell
    BY DEF Inward
  <2> QED
    BY <2>1, SeqGrows
<1> HIDE DEF n
<1> QED
  BY <1>2, <1>7, <1>8, <1>9, <1>10

LEMMA ReadContent ==
    ASSUME TypeOK, Turns, NEW D, Content(D, list, graph, sock, tx), Agreed(D, graph),
           NEW i \in DOMAIN list, i \in D, Serve_read(i)
    PROVE  TypeOK' /\ Turns' /\ Content(D, list', graph', sock', tx')
<1>1. /\ Handled(i, D)
      /\ sock' \in [Switches -> Seq(Cell)]
      /\ \A j \in Switches : sock'[j] \in Seq(Inward(j, D))
  BY ServeReadStep
<1>2. /\ UNCHANGED <<arrived, gone, tx, peer, down, interrupt>>
      /\ rset' = rset \ {i} /\ wset' = wset \ {i}
  BY DEF Serve_read, Turn
<1>3. reset' \in [Switches -> {"no", "due", "told"}]
  <2>1. reset' = [reset EXCEPT ![i] = "told"] \/ reset' = reset
    BY DEF Serve_read
  <2> QED
    BY <2>1 DEF TypeOK
<1>4. DOMAIN list' = DOMAIN list /\ Len(list) \in Nat /\ Len(graph') = Len(list)
  BY <1>1, LenProperties DEF Handled, TypeOK
<1>5. TypeOK'
  BY <1>1, <1>2, <1>3, <1>4 DEF TypeOK, Handled, Stopped
<1>6. Turns'
  <2>1. ASSUME NEW j \in wset' PROVE list'[j].rw = WRITE
    <3>1. j \in DOMAIN list /\ j # i /\ list[j].rw = WRITE
      BY <1>2 DEF Turns, TypeOK
    <3> QED
      BY <1>1, <3>1 DEF Handled
  <2> QED
    BY <1>1, <1>2, <2>1 DEF Turns, Handled
<1>7. Content(D, list', graph', sock', tx')
  BY <1>1, <1>2, <1>4 DEF Content, Handled
<1> QED
  BY <1>5, <1>6, <1>7

LEMMA WriteContent ==
    ASSUME TypeOK, Turns, NEW D, Content(D, list, graph, sock, tx),
           NEW i \in DOMAIN list, Serve_write(i),
           NEW E, D \subseteq E, list'[i].rw # WRITE => i \in E
    PROVE  TypeOK' /\ Turns' /\ Content(E, list', graph', sock', tx')
<1>1. PICK ret \in -1..Room(i) :
         /\ ret <= list[i].bytes_expected
         /\ list' = [list EXCEPT ![i] = handle_write_socket(@, ret)]
         /\ tx' = IF i \in gone THEN tx
                  ELSE [tx EXCEPT ![i] = @ \o SubSeq(Pending(list[i]), 1, ret)]
  BY Zenon DEF Serve_write
<1>2. /\ UNCHANGED <<graph, closed, freed, arrived, gone, sock, peer, down, interrupt>>
      /\ rset' = rset \ {i} /\ wset' = wset \ {i} /\ pc' = after(i)
      /\ i \in wset
  BY DEF Serve_write, Turn
<1>3. /\ reset' \in [Switches -> {"no", "due", "told"}]
  <2>1. reset' = [reset EXCEPT ![i] = "told"] \/ reset' = reset
    BY DEF Serve_write
  <2> QED
    BY <2>1 DEF TypeOK
<1>4. /\ list[i].rw = WRITE /\ Rec(i, D, list[i]) /\ i \in Switches /\ ret \in Int
      /\ list \in Seq(of_switch) /\ list[i] \in of_switch
      /\ \A j \in DOMAIN list : Rec(j, D, list[j])
      /\ \A j \in Switches : tx[j] \in Seq(Outward(j, D)) /\ sock[j] \in Seq(Inward(j, D))
  BY <1>2, ListFacts, ElementOfSeq DEF Turns, Content, Rec
<1> DEFINE s == handle_write_socket(list[i], ret)
<1>5. list' = [list EXCEPT ![i] = s]
  BY <1>1
<1>6. list'[i] = s
  BY <1>5
<1>7. Rec(i, E, s)
  BY <1>4, <1>6, HandleWriteRec, Zenon
<1> HIDE DEF s
<1>8. /\ list' \in Seq(of_switch) /\ Len(list') = Len(list) /\ DOMAIN list' = DOMAIN list
      /\ \A j \in DOMAIN list : list'[j] = IF j = i THEN s ELSE list[j]
  BY <1>4, <1>5, <1>7, Overwrite DEF Rec
<1> DEFINE p == SubSeq(Pending(list[i]), 1, ret)
<1>9. p \in Seq(Outward(i, D))
  <2>1. /\ list[i].write_buffer \in Seq(Outward(i, D))
        /\ list[i].bytes_written \in Nat /\ list[i].bytes_expected \in Nat
    BY <1>4, SwitchFields DEF Rec
  <2>2. Pending(list[i]) = Slice(list[i].write_buffer, list[i].bytes_written, list[i].bytes_expected)
    BY <1>4 DEF Pending
  <2>3. Pending(list[i]) \in Seq(Outward(i, D)) /\ Len(Pending(list[i])) = list[i].bytes_expected
    <3>1. LET x == Slice(list[i].write_buffer, list[i].bytes_written, list[i].bytes_expected)
          IN  x \in Seq(Outward(i, D)) /\ Len(x) = list[i].bytes_expected
      BY <2>1, ZeroIs, SliceIn
    <3> QED
      BY <2>2, <3>1
  <2>4. 1 \in Nat \ {0}
    OBVIOUS
  <2>5. ret \in Int /\ ret <= Len(Pending(list[i]))
    BY <1>1, <1>4, <2>3
  <2> DEFINE q == Pending(list[i])
  <2>6. q \in Seq(Outward(i, D)) /\ ret <= Len(q)
    BY <2>3, <2>5
  <2> HIDE DEF q
  <2>7. SubSeq(q, 1, ret) \in Seq(Outward(i, D))
    BY <2>4, <2>5, <2>6, PartIn
  <2> QED
    BY <2>7, Zenon DEF q
<1> HIDE DEF p
<1>10. tx[i] \o p \in Seq(Outward(i, D))
  BY <1>4, <1>9, ConcatProperties
<1>11. Seq(Outward(i, D)) \subseteq Seq(Cell)
  <2>1. Outward(i, D) \subseteq Cell
    BY DEF Outward
  <2> QED
    BY <2>1, SeqGrows
<1>12. /\ tx' \in [Switches -> Seq(Cell)]
       /\ \A j \in Switches : tx'[j] \in Seq(Outward(j, D))
  <2>1. tx' = tx \/ tx' = [tx EXCEPT ![i] = tx[i] \o p]
    BY <1>1 DEF p
  <2>2. tx \in [Switches -> Seq(Cell)]
    BY DEF TypeOK
  <2> QED
    BY <1>4, <1>10, <1>11, <2>1, <2>2
<1>13. TypeOK'
  <2>1. pc' \in {"loop", "serve"}
    BY <1>2 DEF after
  <2> QED
    BY <1>2, <1>3, <1>8, <1>12, <2>1 DEF TypeOK, Stopped
<1>14. Turns'
  BY <1>2, <1>8 DEF Turns, TypeOK
<1>15. Content(E, list', graph', sock', tx')
  <2>1. \A j \in DOMAIN list' : Rec(j, E, list'[j])
    BY <1>4, <1>7, <1>8, RecGrows
  <2>2. \A j \in Switches : sock'[j] \in Seq(Inward(j, E)) /\ tx'[j] \in Seq(Outward(j, E))
    BY <1>2, <1>4, <1>12, KindsGrow
  <2>3. graph' \in Seq(Device) /\ \A k \in DOMAIN graph' : RealDevice(k, E, graph'[k])
    BY <1>2, RealGrows DEF Content
  <2> QED
    BY <2>1, <2>2, <2>3 DEF Content
<1> QED
  BY <1>13, <1>14, <1>15

LEMMA AcceptContent ==
    ASSUME TypeOK, Turns, NEW D, Content(D, list, graph, sock, tx), Accept,
           NEW E, D \subseteq E
    PROVE  TypeOK' /\ Turns' /\ Content(E, list', graph', sock', tx')
<1> DEFINE n == Len(list) + 1
           h == Head0(n)
<1>1. /\ list' = Append(list, new_switch) /\ graph' = Append(graph, h)
      /\ UNCHANGED <<closed, freed, arrived, gone, reset, sock, tx, peer, down, interrupt>>
      /\ rset' = rset \ {0} /\ wset' = wset \ {0} /\ pc' = after(0)
  BY DEF Accept, Turn, join, netVars
<1>2. 0 \in rset
  BY DEF Accept
<1>3. /\ list \in Seq(of_switch) /\ Len(list) \in Nat /\ DOMAIN list = 1..Len(list)
      /\ Len(list) + 1 <= arrived /\ arrived \in Nat
      /\ graph \in Seq(Device) /\ Len(graph) = Len(list) /\ DOMAIN graph = 1..Len(list)
  BY <1>2, ListFacts, LenProperties, ControllerAssumption
     DEF Turns, TypeOK, Content, ControllerAssumption
<1>4. Rec(n, E, new_switch) /\ new_switch \in of_switch /\ new_switch.rw = WRITE
  BY NewSwitchRec DEF Rec
<1>5. /\ list' \in Seq(of_switch) /\ Len(list') = n /\ DOMAIN list' = 1..n
      /\ list'[n] = new_switch
      /\ \A j \in 1..Len(list) : list'[j] = list[j]
  BY <1>1, <1>3, <1>4, AppendProperties, LenProperties
<1>6. h \in Device /\ RealDevice(n, E, h)
  <2>1. h.device_num = n /\ h.next = << >> /\ n \in Nat
    BY <1>3 DEF Head0
  <2>2. << >> \in Seq([device_num : Nat, port_num : 0..255]) /\ DOMAIN << >> = {}
    BY EmptySeq
  <2>3. h \in Device
    BY <2>1, <2>2 DEF Device, Head0
  <2> HIDE DEF h
  <2> QED
    BY <2>1, <2>2, <2>3 DEF RealDevice
<1> HIDE DEF h
<1>7. /\ graph' \in Seq(Device) /\ Len(graph') = n /\ DOMAIN graph' = 1..n
      /\ graph'[n] = h
      /\ \A j \in 1..Len(list) : graph'[j] = graph[j]
  BY <1>1, <1>3, <1>6, AppendProperties, LenProperties
<1>8. TypeOK'
  <2>1. pc' \in {"loop", "serve"}
    BY <1>1 DEF after
  <2>2. n <= arrived /\ n \in Nat /\ 0..Len(list) \subseteq 0..n /\ 1..Len(list) \subseteq 1..n
    BY <1>3
  <2>3. /\ rset' \subseteq 0..n /\ wset' \subseteq 1..n
        /\ closed' \subseteq 1..n /\ freed' \subseteq 1..n
    BY <1>1, <1>3, <2>2 DEF TypeOK
  <2> HIDE DEF n
  <2> QED
    BY <1>1, <1>5, <1>7, <2>1, <2>2, <2>3 DEF TypeOK, Stopped
<1>9. Turns'
  <2>1. 0 \notin rset'
    BY <1>1
  <2>2. \A i \in wset' : list'[i].rw = WRITE
    BY <1>1, <1>3, <1>5 DEF Turns, TypeOK
  <2> QED
    BY <2>1, <2>2 DEF Turns
<1>10. Content(E, list', graph', sock', tx')
  <2>1. \A j \in 1..n : j \in 1..Len(list) \/ j = n
    BY <1>3
  <2>2. \A j \in 1..n : Rec(j, E, list'[j])
    BY <1>3, <1>4, <1>5, <2>1, RecGrows DEF Content
  <2>3. \A j \in 1..n : RealDevice(j, E, graph'[j])
    BY <1>3, <1>6, <1>7, <2>1, RealGrows DEF Content
  <2>4. \A j \in Switches : sock'[j] \in Seq(Inward(j, E)) /\ tx'[j] \in Seq(Outward(j, E))
    BY <1>1, KindsGrow DEF Content
  <2> HIDE DEF n
  <2> QED
    BY <1>1, <1>5, <1>7, <2>2, <2>3, <2>4 DEF Content
<1> QED
  BY <1>8, <1>9, <1>10

(* A network of finitely many cables has finitely many ends.               *)
LEMMA EndsFinite == IsFiniteSet(Ends)
<1> DEFINE f == [c \in Cables |-> <<c.from, c.fromPort, c.to, c.toPort>>]
           g == [c \in Cables |-> <<c.to, c.toPort, c.from, c.fromPort>>]
           A == {<<c.from, c.fromPort, c.to, c.toPort>> : c \in Cables}
           B == {<<c.to, c.toPort, c.from, c.fromPort>> : c \in Cables}
<1>1. IsFiniteSet(Cables)
  BY ControllerAssumption DEF ControllerAssumption
<1>2. f \in Surjection(Cables, A)
  BY DEF Surjection
<1>3. g \in Surjection(Cables, B)
  BY DEF Surjection
<1> HIDE DEF f, g
<1>4. IsFiniteSet(A) /\ IsFiniteSet(B)
  BY <1>1, <1>2, <1>3, FS_Surjection
<1> HIDE DEF A, B
<1>5. IsFiniteSet(A \cup B)
  BY <1>4, FS_Union
<1> QED
  BY <1>5 DEF Ends, A, B

LEMMA MaySayType == \A i \in Switches : MaySay(i) \in Nat
<1> SUFFICES ASSUME NEW i \in Switches PROVE MaySay(i) \in Nat
  OBVIOUS
<1>1. MaxTalk[i] \in Nat
  BY ControllerAssumption DEF ControllerAssumption
<1> DEFINE S == {e \in Ends : e[1] = i}
<1>2. S \in SUBSET Ends
  OBVIOUS
<1>3. Cardinality(S) \in Nat
  <2> HIDE DEF S
  <2> QED
    BY <1>2, EndsFinite, FS_Subset, FS_CardinalityType
<1> QED
  BY <1>1, <1>3 DEF MaySay

-----------------------------------------------------------------------------
(* The other steps of the controller.                                      *)

LEMMA LoopContent ==
    ASSUME TypeOK, Turns, NEW D, Content(D, list, graph, sock, tx), Loop
    PROVE  TypeOK' /\ Turns' /\ Content(D, list', graph', sock', tx')
<1>1. /\ UNCHANGED <<list, graph, rset, wset, interrupt, closed>>
      /\ UNCHANGED <<arrived, gone, reset, sock, tx, peer, down>>
      /\ pc' \in {"exit", "select"}
  BY DEF Loop, netVars
<1>2. freed' \subseteq DOMAIN list
  <2>1. freed' = freed \/ freed' = freed \cup free_switch_buffers(list, 1)
    BY DEF Loop
  <2> QED
    BY <2>1 DEF TypeOK, free_switch_buffers
<1>3. TypeOK'
  BY <1>1, <1>2 DEF TypeOK, Stopped
<1> QED
  BY <1>1, <1>3 DEF Turns, Content

LEMMA SelectContent ==
    ASSUME TypeOK, Turns, NEW D, Content(D, list, graph, sock, tx), Select
    PROVE  TypeOK' /\ Turns' /\ Content(D, list', graph', sock', tx')
<1>1. /\ UNCHANGED <<list, graph, interrupt, closed, freed>>
      /\ UNCHANGED <<arrived, gone, reset, sock, tx, peer, down>>
      /\ pc' \in {"loop", "serve"}
  BY DEF Select, netVars
<1>2. \/ rset' = rset /\ wset' = wset
      \/ /\ rset' = {i \in DOMAIN list : Readable(i)} \cup
                    (IF arrived > Len(list) THEN {0} ELSE {})
         /\ wset' = {i \in DOMAIN list : Writable(i)}
  BY DEF Select
<1>3. DOMAIN list \subseteq 0..Len(list) /\ 0 \in 0..Len(list) /\ 0 \notin DOMAIN list
      /\ Len(list) \in Nat /\ arrived \in Nat
  BY ListFacts, ControllerAssumption DEF TypeOK, ControllerAssumption
<1>4. rset' \subseteq 0..Len(list) /\ wset' \subseteq DOMAIN list
  BY <1>2, <1>3 DEF TypeOK
<1>5. TypeOK'
  BY <1>1, <1>4 DEF TypeOK, Stopped
<1>6. Turns'
  <2>1. 0 \in rset' => Len(list) < arrived
    BY <1>2, <1>3 DEF Turns
  <2>2. \A i \in wset' : list[i].rw = WRITE
    BY <1>2 DEF Turns, Writable
  <2> QED
    BY <1>1, <2>1, <2>2 DEF Turns
<1> QED
  BY <1>1, <1>5, <1>6 DEF Content

(* The steps that end the controller, a signal, and a connection nobody    *)
(* has accepted yet.                                                       *)
LEMMA OutsideContent ==
    ASSUME TypeOK, Turns, NEW D, Content(D, list, graph, sock, tx),
           \/ \E i \in DOMAIN list : Sigpipe(i) \/ Dangling(i)
           \/ Sigint \/ Connect
    PROVE  TypeOK' /\ Turns' /\ Content(D, list', graph', sock', tx')
<1>1. /\ UNCHANGED <<list, graph, rset, wset, closed, freed>>
      /\ UNCHANGED <<gone, reset, sock, tx, peer, down>>
  BY DEF Sigpipe, Dangling, Sigint, Connect, netVars, ctlVars
<1>2. /\ pc' = pc \/ pc' \in {"killed", "undefined", "loop"}
      /\ interrupt' = interrupt \/ interrupt' = TRUE
  BY DEF Sigpipe, Dangling, Sigint, Connect, ctlVars
<1>3. arrived' = arrived \/ (arrived < MaxSwitches /\ arrived' = arrived + 1)
  BY DEF Sigpipe, Dangling, Sigint, Connect, netVars
<1>4. Len(list) \in Nat /\ arrived \in 0..MaxSwitches /\ MaxSwitches \in Nat
      /\ Len(list) <= arrived
  BY ListFacts, ControllerAssumption DEF TypeOK, ControllerAssumption
<1>5. Len(list) <= arrived' /\ arrived' \in 0..MaxSwitches /\ arrived <= arrived'
      /\ arrived' \in Nat
  BY <1>3, <1>4
<1>6. TypeOK'
  BY <1>1, <1>2, <1>5 DEF TypeOK, Stopped
<1>7. Turns'
  BY <1>1, <1>4, <1>5 DEF Turns
<1> QED
  BY <1>1, <1>6, <1>7 DEF Content

LEMMA LeaveContent ==
    ASSUME TypeOK, Turns, NEW D, Content(D, list, graph, sock, tx),
           NEW i \in Switches, Leave(i)
    PROVE  TypeOK' /\ Turns' /\ Content(D, list', graph', sock', tx')
<1>1. /\ UNCHANGED <<list, graph, rset, wset, pc, interrupt, closed, freed>>
      /\ UNCHANGED <<arrived, sock, peer, down>>
      /\ gone' = gone \cup {i} /\ tx' = [tx EXCEPT ![i] = << >>]
      /\ \E how \in {"no", "due"} : reset' = [reset EXCEPT ![i] = how]
  BY DEF Leave, ctlVars
<1>2. << >> \in Seq(Cell) /\ \A j : << >> \in Seq(Outward(j, D))
  BY EmptySeq
<1>3. tx' \in [Switches -> Seq(Cell)]
  BY <1>1, <1>2 DEF TypeOK
<1>4. reset' \in [Switches -> {"no", "due", "told"}]
  BY <1>1 DEF TypeOK
<1>5. TypeOK'
  BY <1>1, <1>3, <1>4 DEF TypeOK, Stopped
<1>6. \A j \in Switches : tx'[j] \in Seq(Outward(j, D))
  BY <1>1, <1>2 DEF Content, TypeOK
<1> QED
  BY <1>1, <1>5, <1>6 DEF Content, Turns

-----------------------------------------------------------------------------
(* The switches.                                                           *)

(* What a switch answers is no probe.                                      *)
LEMMA ResponseGenuine ==
    ASSUME NEW i, NEW D, NEW m \in Message
    PROVE  Response(m) \in Seq(Inward(i, D))
<1>1. CASE m.type \in DOMAIN Replies
  <2>1. Replies[m.type] \in Message
    BY <1>1, ControllerAssumption DEF ControllerAssumption
  <2>2. Genuine(i, D, Replies[m.type])
    BY <1>1 DEF Genuine, NoForgery
  <2>3. Response(m) = Cells(Replies[m.type])
    BY <1>1 DEF Response
  <2> QED
    BY <2>1, <2>2, <2>3, InwardCells
<1>2. Cells(Own("ERROR")) \in Seq(Inward(i, D))
  <2>1. "ERROR" \in MsgType
    BY DEF MsgType
  <2>2. Own("ERROR") \in Message
    BY <2>1, OwnFields
  <2>3. Own("ERROR").info = "none"
    BY DEF Own, Msg
  <2>4. Genuine(i, D, Own("ERROR"))
    BY <2>3 DEF Genuine
  <2> QED
    BY <2>2, <2>4, InwardCells
<1>3. << >> \in Seq(Inward(i, D))
  BY EmptySeq
<1> QED
  BY <1>1, <1>2, <1>3 DEF Response

(* The report of a probe a set-up switch has flooded, by a neighbour that  *)
(* is set up as well, is genuine.                                          *)
LEMMA ReportGenuine ==
    ASSUME NEW D, NEW e \in Ends, NEW x \in Nat,
           NoForgery => e[1] \in D /\ e[3] \in D
    PROVE  Cells([ProbeSeen(e[3], e[2]) EXCEPT !.xid = x]) \in Seq(Inward(e[1], D))
<1> DEFINE m == [ProbeSeen(e[3], e[2]) EXCEPT !.xid = x]
<1>1. "PACKET_IN" \in MsgType /\ "probe" \in Info
  BY DEF MsgType, Info
<1>2. e[3] \in Nat /\ e[2] \in Nat
  <2>1. e \in Switches \X Ports \X Switches \X Ports
    BY EndsFacts
  <2>2. e[3] \in Switches /\ e[2] \in Ports
    BY <2>1
  <2>3. Switches \subseteq Nat /\ Ports \subseteq Nat
    BY ControllerAssumption DEF ControllerAssumption, Switches, Ports
  <2> QED
    BY <2>2, <2>3
<1>3. Own("PACKET_IN") \in Message
  BY <1>1, OwnFields
<1>4. m \in Message /\ m.fd = e[3] /\ m.port = e[2]
  <2> DEFINE o == Own("PACKET_IN")
             p == [[[o EXCEPT !.info = "probe"] EXCEPT !.fd = e[3]] EXCEPT !.port = e[2]]
  <2>1. o \in Message
    BY <1>3
  <2>2. m = [p EXCEPT !.xid = x]
    BY DEF ProbeSeen
  <2> HIDE DEF o, m
  <2> QED
    BY <1>1, <1>2, <2>1, <2>2 DEF Message
<1>5. Genuine(e[1], D, m)
  <2> HIDE DEF m
  <2> QED
    BY <1>4 DEF Genuine
<1> HIDE DEF m
<1>6. Cells(m) \in Seq(Inward(e[1], D))
  BY <1>4, <1>5, InwardCells
<1> QED
  BY <1>6 DEF m

LEMMA ReceivesContent ==
    ASSUME TypeOK, Turns, NEW D, Content(D, list, graph, sock, tx),
           NEW i \in Switches, SwitchReceives(i),
           \A n \in Switches : NoForgery /\ Configured(n) => n \in D
    PROVE  TypeOK' /\ Turns' /\ Content(D, list', graph', sock', tx')
<1> DEFINE m == tx[i][1].msg
           flood == IF m.type = "PACKET_OUT" /\ m.info = "probe" THEN Reports(i) ELSE {}
           reporter == {e[1] : e \in flood}
           seen(n) == LET e == CHOOSE x \in flood : x[1] = n
                      IN  Cells([ProbeSeen(m.fd, e[2]) EXCEPT !.xid = peer[n].asked])
           rest == SubSeq(tx[i], m.len + 1, Len(tx[i]))
<1>1. /\ tx[i] # << >> /\ m.len <= Len(tx[i])
      /\ tx' = [tx EXCEPT ![i] = rest]
      /\ sock' = [n \in Switches |->
           IF n = i THEN sock[n] \o Response(m)
           ELSE IF n \in reporter THEN sock[n] \o seen(n) ELSE sock[n]]
      /\ peer' = [n \in Switches |->
           IF n = i THEN [peer[n] EXCEPT !.log = Append(@, Note(m))]
           ELSE IF n \in reporter THEN [peer[n] EXCEPT !.left = @ - 1]
           ELSE peer[n]]
      /\ down' = down \/ down' = down \cup {<<i, m.port>>}
      /\ UNCHANGED <<list, graph, rset, wset, pc, interrupt, closed, freed>>
      /\ UNCHANGED <<arrived, gone, reset>>
  BY DEF SwitchReceives, ctlVars
<1>2. /\ tx[i] \in Seq(Outward(i, D)) /\ Len(tx[i]) \in Nat /\ Len(tx[i]) > 0
      /\ tx[i][1] \in Outward(i, D)
  <2>1. tx[i] \in Seq(Outward(i, D))
    BY DEF Content
  <2>2. Len(tx[i]) \in Nat /\ Len(tx[i]) > 0
    <3> DEFINE t == tx[i]
    <3>1. t # << >> /\ t \in Seq(Outward(i, D))
      BY <1>1, <2>1
    <3> HIDE DEF t
    <3>2. Len(t) \in Nat /\ Len(t) > 0
      BY <3>1, LenProperties, EmptySeq
    <3> QED
      BY <3>2 DEF t
  <2> QED
    BY <2>1, <2>2, ElementOfSeq
<1>3. m \in Message /\ Permitted(i, D, m) /\ m.len \in Nat /\ m.port \in Nat
  BY <1>2 DEF Outward, Cell, Message
<1>4. rest \in Seq(Outward(i, D))
  <2>1. m.len + 1 \in Nat \ {0} /\ Len(tx[i]) \in Int /\ Len(tx[i]) <= Len(tx[i])
    BY <1>2, <1>3
  <2> HIDE DEF m
  <2> QED
    BY <1>2, <2>1, PartIn
<1>5. ASSUME NEW n \in Switches, n \in reporter
      PROVE  seen(n) \in Seq(Inward(n, D))
  <2> DEFINE e == CHOOSE x \in flood : x[1] = n
  <2>1. e \in flood /\ e[1] = n
    BY <1>5
  <2>2. m.type = "PACKET_OUT" /\ e \in Reports(i)
    <3> HIDE DEF e
    <3> QED
      BY <2>1
  <2>3. e \in Ends /\ e[3] = i /\ Configured(e[1])
    <3> HIDE DEF e
    <3> QED
      BY <2>2 DEF Reports
  <2>4. m.fd = i /\ i \in D
    BY <1>3, <2>2 DEF Permitted
  <2>5. NoForgery => n \in D
    BY <2>1, <2>3
  <2>6. peer[n].asked \in Nat
    BY DEF TypeOK
  <2>7. seen(n) = Cells([ProbeSeen(m.fd, e[2]) EXCEPT !.xid = peer[n].asked])
    OBVIOUS
  <2> HIDE DEF e, m, seen
  <2>8. Cells([ProbeSeen(e[3], e[2]) EXCEPT !.xid = peer[n].asked]) \in Seq(Inward(e[1], D))
    BY <2>1, <2>3, <2>4, <2>5, <2>6, ReportGenuine
  <2> QED
    BY <2>1, <2>3, <2>4, <2>7, <2>8
<1>6. ASSUME NEW n \in Switches PROVE sock'[n] \in Seq(Inward(n, D))
  <2>1. sock[n] \in Seq(Inward(n, D))
    BY DEF Content
  <2>2. Response(m) \in Seq(Inward(n, D))
    BY <1>3, ResponseGenuine
  <2>3. n \in reporter => seen(n) \in Seq(Inward(n, D))
    BY <1>5
  <2> HIDE DEF m, flood, reporter, seen, rest
  <2>4. \/ sock'[n] = sock[n] \o Response(m)
        \/ sock'[n] = sock[n]
        \/ n \in reporter /\ sock'[n] = sock[n] \o seen(n)
    <3>1. sock'[n] = IF n = i THEN sock[n] \o Response(m)
                     ELSE IF n \in reporter THEN sock[n] \o seen(n) ELSE sock[n]
      BY <1>1, Zenon
    <3> QED
      BY <3>1, Zenon
  <2> QED
    BY <2>1, <2>2, <2>3, <2>4, ConcatProperties
<1>7. \A n : Seq(Inward(n, D)) \subseteq Seq(Cell) /\ Seq(Outward(n, D)) \subseteq Seq(Cell)
  <2>1. \A n : Inward(n, D) \subseteq Cell /\ Outward(n, D) \subseteq Cell
    BY DEF Inward, Outward
  <2> QED
    BY <2>1, SeqGrows
<1>8. sock' \in [Switches -> Seq(Cell)]
  <2> HIDE DEF m, flood, reporter, seen, rest
  <2>1. sock' = [n \in Switches |-> sock'[n]]
    BY <1>1
  <2> QED
    BY <1>6, <1>7, <2>1
<1>9. /\ tx' \in [Switches -> Seq(Cell)]
      /\ \A n \in Switches : tx'[n] \in Seq(Outward(n, D))
  <2> HIDE DEF m, flood, reporter, seen, rest
  <2> QED
    BY <1>1, <1>4, <1>7 DEF TypeOK, Content
<1>10. peer' \in [Switches -> [log : Seq([type : MsgType, xid : Nat]),
                               asked : Nat, left : Int]]
  <2> DEFINE N == [type : MsgType, xid : Nat]
             P == [log : Seq(N), asked : Nat, left : Int]
  <2>1. Note(m) \in N
    BY <1>3 DEF Note, Message
  <2>2. \A n \in Switches : peer[n] \in P
    BY DEF TypeOK
  <2> HIDE DEF m, flood, reporter, seen, rest, N
  <2>3. \A n \in Switches : [peer[n] EXCEPT !.log = Append(@, Note(m))] \in P
    <3> SUFFICES ASSUME NEW n \in Switches
                 PROVE  [peer[n] EXCEPT !.log = Append(@, Note(m))] \in P
      OBVIOUS
    <3>1. peer[n] \in P /\ Append(peer[n].log, Note(m)) \in Seq(N)
      BY <2>1, <2>2, AppendProperties
    <3> QED
      BY <3>1
  <2>4. \A n \in Switches : [peer[n] EXCEPT !.left = @ - 1] \in P
    BY <2>2
  <2> HIDE DEF P
  <2>5. peer' \in [Switches -> P]
    BY <1>1, <2>2, <2>3, <2>4
  <2> QED
    BY <2>5 DEF P, N
<1>11. down' \subseteq Switches \X Nat
  <2> HIDE DEF m
  <2> QED
    BY <1>1, <1>3 DEF TypeOK
<1> HIDE DEF m, flood, reporter, seen, rest
<1>12. TypeOK'
  BY <1>1, <1>8, <1>9, <1>10, <1>11 DEF TypeOK, Stopped
<1>13. Content(D, list', graph', sock', tx')
  BY <1>1, <1>6, <1>9 DEF Content
<1> QED
  BY <1>1, <1>12, <1>13 DEF Turns

LEMMA SaysContent ==
    ASSUME TypeOK, Turns, NEW D, Content(D, list, graph, sock, tx),
           NEW i \in Switches, SwitchSays(i)
    PROVE  TypeOK' /\ Turns' /\ Content(D, list', graph', sock', tx')
<1>1. PICK m \in Talk :
        LET asked == peer[i].asked + (IF m.type = "ECHO_REQUEST" THEN 1 ELSE 0)
        IN  /\ sock' = [sock EXCEPT ![i] = @ \o Cells([m EXCEPT !.xid = asked])]
            /\ peer' = [peer EXCEPT ![i].asked = asked, ![i].left = @ - 1]
  BY DEF SwitchSays
<1> DEFINE a == peer[i].asked + (IF m.type = "ECHO_REQUEST" THEN 1 ELSE 0)
           x == [m EXCEPT !.xid = a]
           P == [log : Seq([type : MsgType, xid : Nat]), asked : Nat, left : Int]
<1>2. /\ UNCHANGED <<list, graph, rset, wset, pc, interrupt, closed, freed>>
      /\ UNCHANGED <<arrived, gone, reset, tx, down>>
  BY DEF SwitchSays, ctlVars
<1>3. peer[i] \in P /\ a \in Nat
  <2>1. peer[i] \in P
    BY DEF TypeOK
  <2>2. peer[i].asked \in Nat
    BY <2>1
  <2> QED
    BY <2>1, <2>2
<1>4. m \in Message
  BY ControllerAssumption DEF ControllerAssumption
<1> HIDE DEF a
<1>5. x \in Message /\ x.info = m.info /\ x.fd = m.fd
  BY <1>3, <1>4 DEF Message
<1>6. Genuine(i, D, x)
  <2> HIDE DEF x
  <2> QED
    BY <1>5 DEF Genuine, NoForgery
<1>7. sock' = [sock EXCEPT ![i] = sock[i] \o Cells(x)]
  BY <1>1 DEF a
<1> HIDE DEF x
<1>8. sock[i] \o Cells(x) \in Seq(Inward(i, D))
  <2>1. sock[i] \in Seq(Inward(i, D)) /\ Cells(x) \in Seq(Inward(i, D))
    BY <1>5, <1>6, InwardCells DEF Content
  <2> QED
    BY <2>1, ConcatProperties
<1>9. Seq(Inward(i, D)) \subseteq Seq(Cell)
  <2>1. Inward(i, D) \subseteq Cell
    BY DEF Inward
  <2> QED
    BY <2>1, SeqGrows
<1>10. /\ sock' \in [Switches -> Seq(Cell)]
       /\ \A n \in Switches : sock'[n] \in Seq(Inward(n, D))
  BY <1>7, <1>8, <1>9 DEF TypeOK, Content
<1>11. peer' \in [Switches -> P]
  <2>1. peer \in [Switches -> P]
    BY DEF TypeOK
  <2> DEFINE l == peer[i].left - 1
             q == [[peer[i] EXCEPT !.asked = a] EXCEPT !.left = l]
  <2>2. peer' = [[peer EXCEPT ![i].asked = a] EXCEPT ![i].left = @ - 1]
    BY <1>1 DEF a
  <2>3. peer[i] \in P /\ l \in Int
    BY <1>3
  <2>4. peer' = [peer EXCEPT ![i] = q]
    BY <2>1, <2>2
  <2> HIDE DEF l
  <2>5. q \in P
    BY <1>3, <2>3
  <2> HIDE DEF q
  <2> HIDE DEF P
  <2> QED
    BY <2>1, <2>4, <2>5
<1>12. TypeOK'
  BY <1>2, <1>10, <1>11 DEF TypeOK, Stopped
<1>13. Content(D, list', graph', sock', tx')
  BY <1>2, <1>10 DEF Content
<1> QED
  BY <1>2, <1>12, <1>13 DEF Turns

LEMMA InitContent ==
    ASSUME Init, NEW D
    PROVE  TypeOK /\ Turns /\ Content(D, list, graph, sock, tx)
<1>1. \A i \in Switches : Hello[i] \in Message /\ Genuine(i, D, Hello[i])
  BY ControllerAssumption DEF ControllerAssumption, Genuine, NoForgery
<1>2. \A i \in Switches : sock[i] \in Seq(Inward(i, D))
  BY <1>1, InwardCells DEF Init
<1>3. \A i : /\ Seq(Inward(i, D)) \subseteq Seq(Cell)
             /\ << >> \in Seq(Outward(i, D)) /\ << >> \in Seq(Cell)
  <2>1. \A i : Inward(i, D) \subseteq Cell
    BY DEF Inward
  <2> QED
    BY <2>1, SeqGrows, EmptySeq
<1>4. sock \in [Switches -> Seq(Cell)]
  <2>1. sock = [i \in Switches |-> sock[i]]
    BY DEF Init
  <2> QED
    BY <1>2, <1>3, <2>1
<1>5. /\ tx \in [Switches -> Seq(Cell)]
      /\ \A i \in Switches : tx[i] \in Seq(Outward(i, D))
  BY <1>3 DEF Init
<1>6. peer \in [Switches -> [log : Seq([type : MsgType, xid : Nat]),
                             asked : Nat, left : Int]]
  <2>1. << >> \in Seq([type : MsgType, xid : Nat])
    BY EmptySeq
  <2>2. \A i \in Switches : MaySay(i) \in Int
    BY MaySayType
  <2> QED
    BY <2>1, <2>2 DEF Init
<1>7. << >> \in Seq(of_switch) /\ << >> \in Seq(Device) /\ Len(<< >>) = 0 /\ DOMAIN << >> = {}
  BY EmptySeq
<1>8. MaxSwitches \in Nat
  BY ControllerAssumption DEF ControllerAssumption
<1>9. /\ list = << >> /\ graph = << >> /\ rset = {} /\ wset = {} /\ pc = "loop"
      /\ interrupt = FALSE /\ closed = {} /\ freed = {} /\ arrived = 0 /\ gone = {}
      /\ down = {} /\ reset = [i \in Switches |-> "no"]
  BY DEF Init
<1>10. TypeOK
  <2>1. /\ list \in Seq(of_switch) /\ Len(list) = 0 /\ Len(graph) = 0 /\ DOMAIN list = {}
    BY <1>7, <1>9
  <2>2. 0 \in 0..MaxSwitches
    BY <1>8
  <2>3. Len(list) <= arrived /\ Len(graph) = Len(list) /\ arrived \in 0..MaxSwitches
    BY <1>9, <2>1, <2>2
  <2>4. /\ rset \subseteq 0..Len(list) /\ wset \subseteq DOMAIN list
        /\ closed \subseteq DOMAIN list /\ freed \subseteq DOMAIN list
        /\ gone \subseteq Switches /\ down \subseteq Switches \X Nat
        /\ pc \in {"loop", "select", "serve"} \cup Stopped /\ interrupt \in BOOLEAN
    BY <1>9
  <2>5. reset \in [Switches -> {"no", "due", "told"}]
    BY <1>9
  <2> QED
    BY <1>4, <1>5, <1>6, <2>1, <2>3, <2>4, <2>5 DEF TypeOK
<1>11. Content(D, list, graph, sock, tx)
  BY <1>2, <1>5, <1>7, <1>9 DEF Content
<1> QED
  BY <1>9, <1>10, <1>11 DEF Turns

-----------------------------------------------------------------------------
(* The inductive invariant, where every switch counts as set up.           *)
IInv == TypeOK /\ Turns /\ Content(Nat, list, graph, sock, tx)

LEMMA ControllerStep == IInv /\ [Next]_vars => IInv'
<1> SUFFICES ASSUME IInv, [Next]_vars PROVE IInv'
  OBVIOUS
<1> USE DEF IInv
<1>1. CASE Loop
  BY <1>1, LoopContent
<1>2. CASE Select
  BY <1>2, SelectContent
<1>3. CASE Accept
  <2>1. Nat \subseteq Nat
    OBVIOUS
  <2> QED
    BY <1>3, <2>1, AcceptContent
<1>4. ASSUME NEW i \in DOMAIN list, Serve_read(i) PROVE IInv'
  <2>1. i \in Nat /\ Agreed(Nat, graph)
    BY ListFacts, NeverCalm
  <2> QED
    BY <1>4, <2>1, ReadContent
<1>5. ASSUME NEW i \in DOMAIN list, Serve_write(i) PROVE IInv'
  <2>1. i \in Nat /\ Nat \subseteq Nat
    BY ListFacts
  <2> QED
    BY <1>5, <2>1, WriteContent
<1>6. ASSUME NEW i \in DOMAIN list, Sigpipe(i) \/ Dangling(i) PROVE IInv'
  BY <1>6, OutsideContent
<1>7. CASE Sigint \/ Connect
  BY <1>7, OutsideContent
<1>8. ASSUME NEW i \in Switches, Leave(i) PROVE IInv'
  BY <1>8, LeaveContent
<1>9. ASSUME NEW i \in Switches, SwitchReceives(i) PROVE IInv'
  <2>1. \A n \in Switches : NoForgery /\ Configured(n) => n \in Nat
    BY ListFacts
  <2> QED
    BY <1>9, <2>1, ReceivesContent
<1>10. ASSUME NEW i \in Switches, SwitchSays(i) PROVE IInv'
  BY <1>10, SaysContent
<1>11. CASE UNCHANGED vars
  BY <1>11 DEF vars, TypeOK, Turns, Content
<1> QED
  BY <1>1, <1>2, <1>3, <1>4, <1>5, <1>6, <1>7, <1>8, <1>9, <1>10, <1>11
     DEF Next, Serve, Environment

LEMMA Invariance == Spec => []IInv
<1>1. Init => IInv
  BY InitContent DEF IInv
<1> QED
  BY <1>1, ControllerStep, PTL DEF Spec

(* Type correctness of the whole controller: in particular the list, the   *)
(* graph and the descriptors select has reported stay about the same       *)
(* connections, none of them in front of those that have arrived, and      *)
(* whatever device the search for loops names the records stay records.    *)
THEOREM TypeCorrect == Spec => []TypeOK
<1>1. IInv => TypeOK
  BY DEF IInv
<1> QED
  BY <1>1, Invariance, PTL

(* However the probes of any number of switches cross in the buffers and   *)
(* sockets, a link between two switches in the graph is a cable of the     *)
(* network (add_connection), as long as no host forges a probe.            *)
THEOREM GraphSound ==
    ASSUME NoForgery
    PROVE  Spec => []GraphIsNetwork
<1>1. IInv => GraphIsNetwork
  <2> SUFFICES ASSUME IInv, NEW i \in DOMAIN list, NEW k \in DOMAIN graph[i].next,
                      graph[i].next[k].device_num \in Switches
               PROVE  \E e \in Ends :
                         /\ e[1] = i /\ e[3] = graph[i].next[k].device_num
                         /\ graph[i].next[k].port_num \in {0, e[2]}
    BY DEF GraphIsNetwork
  <2>1. DOMAIN graph = DOMAIN list
    <3>1. Len(graph) = Len(list) /\ graph \in Seq(Device)
      BY DEF IInv, TypeOK, Content
    <3> QED
      BY <3>1, ListFacts, LenProperties DEF IInv
  <2>2. RealDevice(i, Nat, graph[i])
    BY <2>1 DEF IInv, Content
  <2>3. Real(i, Nat, graph[i].next[k])
    BY <2>2 DEF RealDevice
  <2> QED
    BY <2>3 DEF Real
<1> QED
  BY <1>1, Invariance, PTL

-----------------------------------------------------------------------------
(* The setup of every switch, and what a loop alarm may overwrite.         *)

(* The switches that have all of the setup, or whose socket holds the rest *)
(* of it; one that has left needs no more.  Only these are heard.          *)
SetUp ==
    {i \in DOMAIN list :
       i \in gone \/ Len(peer[i].log) >= 6 \/ Starts(tx[i], Rest(Len(peer[i].log)))}

(* For the others it is on its way, part of it in the record, which is as  *)
(* setup and handle_write_socket have left it.                             *)
Opening ==
    /\ \A i \in Switches : Ordered(peer[i].log)
    /\ \A i \in Switches \ DOMAIN list : peer[i].log = << >> /\ tx[i] = << >>
    /\ \A i \in DOMAIN list \ SetUp :
          /\ SwitchInv(list[i]) /\ FlagsInOrder(list[i])
          /\ Starts(tx[i] \o ToSend(list[i]), Rest(Len(peer[i].log)))
    /\ rset \ {0} \subseteq SetUp
    /\ \A i \in Switches : reset[i] = "due" => i \in gone

(* The inductive invariant.  Turns, what the streams, the records and the  *)
(* graph may hold, and how far the setups are support one another: the     *)
(* search for loops only names a switch the graph links, and none where no *)
(* alarm may be raised; a link is only entered for a probe, and a probe    *)
(* only comes from a switch and over one that are set up.                  *)
SInv ==
    /\ TypeOK /\ Turns
    /\ Content(SetUp, list, graph, sock, tx)
    /\ Agreed(SetUp, graph)
    /\ Opening
    /\ SearchStays

LEMMA ContentGrows ==
    ASSUME NEW D, NEW E, D \subseteq E, NEW l, NEW g, NEW sk, NEW t,
           Content(D, l, g, sk, t)
    PROVE  Content(E, l, g, sk, t)
<1>1. \A i \in DOMAIN l : Rec(i, E, l[i])
  BY RecGrows DEF Content
<1>2. \A k \in DOMAIN g : RealDevice(k, E, g[k])
  BY RealGrows DEF Content
<1>3. \A i \in Switches : sk[i] \in Seq(Inward(i, E)) /\ t[i] \in Seq(Outward(i, E))
  BY KindsGrow DEF Content
<1> QED
  BY <1>1, <1>2, <1>3 DEF Content

(* Only the last two messages of the setup are flow mods.                  *)
LEMMA TwoFlows ==
    ASSUME NEW log \in Seq([type : MsgType, xid : Nat]), Ordered(log),
           Len(Pick(log, [type : {"FLOW_MOD"}, xid : Nat])) >= 2
    PROVE  Len(log) >= 6
<1> DEFINE N == [type : MsgType, xid : Nat]
           S == [type : {"FLOW_MOD"}, xid : Nat]
<1> SUFFICES ASSUME Len(log) < 6 PROVE FALSE
  <2>1. Len(log) \in Nat
    BY LenProperties
  <2> QED
    BY <2>1
<1>1. log # << >>
  BY PickEmpty
<1>2. PICK s \in Seq(N), x \in N : log = Append(s, x)
  BY <1>1, SequenceEmptyOrAppend, Zenon
<1>3. /\ Len(s) \in Nat /\ Len(log) = Len(s) + 1
      /\ \A i \in 1..Len(s) : log[i] = s[i]
  BY <1>2, AppendProperties, LenProperties
<1>4. ASSUME NEW i \in 1..Len(s) PROVE s[i] \notin S
  <2>0. i \in {1, 2, 3, 4}
    BY <1>3
  <2>1. i \in 1..Len(log)
    BY <1>3
  <2>2. Len(SetupTypes) = 6
    BY DEF SetupTypes
  <2>3. SetupTypes[i] # "FLOW_MOD"
    <3>1. /\ SetupTypes[1] = "HELLO" /\ SetupTypes[2] = "FEATURES_REQUEST"
          /\ SetupTypes[3] = "SET_CONFIG" /\ SetupTypes[4] = "MULTIPART_REQUEST"
      BY DEF SetupTypes
    <3> QED
      BY <2>0, <3>1
  <2>4. i <= Len(SetupTypes)
    BY <2>0, <2>2
  <2>5. log[i].type = SetupTypes[i]
    BY <2>1, <2>4 DEF Ordered
  <2> QED
    BY <1>3, <2>3, <2>5
<1> HIDE DEF S, N
<1>5. Pick(s, S) = << >>
  BY <1>4, PickNone
<1>6. Pick(log, S) = << >> \/ Pick(log, S) = Append(<< >>, x)
  <2>1. Pick(Append(s, x), S) =
          IF x \in S THEN Append(Pick(s, S), x) ELSE Pick(s, S)
    BY PickAppend
  <2> QED
    BY <1>2, <1>5, <2>1, Zenon
<1>7. Len(Pick(log, S)) <= 1
  <2>1. << >> \in Seq(N) /\ Len(<< >>) = 0
    BY EmptySeq
  <2>2. Len(Append(<< >>, x)) = 1
    BY <2>1, AppendProperties
  <2>3. Len(Pick(log, S)) = 0 \/ Len(Pick(log, S)) = 1
    BY <1>6, <2>1, <2>2, Zenon
  <2>4. \A k : k = 0 \/ k = 1 => k <= 1
    OBVIOUS
  <2> QED
    BY <2>3, <2>4, Zenon
<1> QED
  BY <1>7 DEF S

(* A configured switch has all of its setup.                               *)
LEMMA ConfiguredSetUp ==
    ASSUME TypeOK, Opening, NEW n \in Switches, Configured(n)
    PROVE  n \in SetUp
<1>1. peer[n].log \in Seq([type : MsgType, xid : Nat]) /\ Ordered(peer[n].log)
  BY DEF TypeOK, Opening
<1>2. Len(Pick(peer[n].log, [type : {"FLOW_MOD"}, xid : Nat])) >= 2
  BY DEF Configured, Got
<1>3. Len(peer[n].log) >= 6
  BY <1>1, <1>2, TwoFlows
<1>4. n \in DOMAIN list
  <2>1. Len(<< >>) = 0
    OBVIOUS
  <2> QED
    BY <1>3, <2>1 DEF Opening
<1> QED
  BY <1>3, <1>4 DEF SetUp

(* What the lists of the graph name.                                       *)
LEMMA MentionedReal ==
    ASSUME NEW D, NEW g \in Seq(Device), \A k \in DOMAIN g : RealDevice(k, D, g[k]),
           NEW n \in Mentioned(g)
    PROVE  \E i \in DOMAIN g : \E k \in DOMAIN g[i].next :
              n = g[i].next[k].device_num /\ Real(i, D, g[i].next[k])
<1>1. g \in Seq(Node)
  BY DEF Device, Node
<1>2. PICK d \in Nums(g) : n \in {Neighbours(g, d)[k] : k \in DOMAIN Neighbours(g, d)}
  BY DEF Mentioned
<1>3. PICK k \in DOMAIN Neighbours(g, d) : n = Neighbours(g, d)[k]
  BY <1>2
<1> DEFINE i == index(g, d)
<1>4. i \in DOMAIN g
  BY <1>1, GraphFacts
<1>5. /\ DOMAIN Neighbours(g, d) = DOMAIN g[i].next
      /\ \A j \in DOMAIN g[i].next : Neighbours(g, d)[j] = g[i].next[j].device_num
  BY DEF Neighbours
<1> HIDE DEF i
<1>6. k \in DOMAIN g[i].next /\ n = g[i].next[k].device_num
  BY <1>3, <1>5
<1>7. Real(i, D, g[i].next[k])
  BY <1>4, <1>6 DEF RealDevice
<1> QED
  BY <1>4, <1>6, <1>7

(* A switch the search for loops names is set up ...                       *)
LEMMA TargetSetUp ==
    ASSUME NoForgery, NEW D, NEW g \in Seq(Device),
           \A k \in DOMAIN g : RealDevice(k, D, g[k]), loop_exists(g) \in Switches
    PROVE  loop_exists(g) \in D
<1> DEFINE x == loop_exists(g)
<1>1. g \in Seq(Node)
  BY DEF Device, Node
<1>2. x \in Answers(g)
  BY <1>1, LoopAnswers
<1> HIDE DEF x
<1>3. x # 0 /\ x # Nowhere
  <2>1. x \in Switches
    BY DEF x
  <2>2. MaxSwitches \in Nat
    BY ControllerAssumption DEF ControllerAssumption
  <2> QED
    BY <2>1, <2>2 DEF Switches, Nowhere
<1>4. x \in Mentioned(g)
  BY <1>2, <1>3 DEF Answers
<1>5. PICK i \in DOMAIN g : \E k \in DOMAIN g[i].next :
         x = g[i].next[k].device_num /\ Real(i, D, g[i].next[k])
  BY <1>4, MentionedReal
<1>6. PICK k \in DOMAIN g[i].next :
         x = g[i].next[k].device_num /\ Real(i, D, g[i].next[k])
  BY <1>5
<1>7. g[i].next[k].device_num \in Switches
  BY <1>6 DEF x
<1>8. x \in D
  BY <1>6, <1>7 DEF Real
<1> QED
  BY <1>8 DEF x

(* ... and it is lost only where a list names no switch.                   *)
LEMMA LostMeans ==
    ASSUME NoForgery, NEW D, NEW g \in Seq(Device), D \subseteq DOMAIN g,
           \A k \in DOMAIN g : RealDevice(k, D, g[k]), loop_exists(g) = Nowhere
    PROVE  \E i \in DOMAIN g : \E k \in DOMAIN g[i].next :
              g[i].next[k].device_num \notin Switches
<1> SUFFICES ASSUME \A i \in DOMAIN g : \A k \in DOMAIN g[i].next :
                       g[i].next[k].device_num \in Switches
             PROVE  FALSE
  OBVIOUS
<1>1. g \in Seq(Node)
  BY DEF Device, Node
<1>2. Nowhere \in Answers(g)
  BY <1>1, LoopAnswers
<1>3. Nums(g) \subseteq Nat
  BY <1>1, GraphFacts
<1>4. DOMAIN g \subseteq Nums(g)
  BY DEF Nums, RealDevice
<1>5. ASSUME NEW n \in Mentioned(g) PROVE n \in Nums(g)
  <2>1. PICK i \in DOMAIN g : \E k \in DOMAIN g[i].next :
           n = g[i].next[k].device_num /\ Real(i, D, g[i].next[k])
    BY MentionedReal
  <2>2. PICK k \in DOMAIN g[i].next :
           n = g[i].next[k].device_num /\ Real(i, D, g[i].next[k])
    BY <2>1
  <2>3. n \in Switches
    BY <2>2
  <2>4. n \in D
    BY <2>2, <2>3 DEF Real
  <2> QED
    BY <1>4, <2>4
<1>6. Nowhere \in {0} \cup Nums(g)
  BY <1>2, <1>5 DEF Answers
<1> QED
  BY <1>3, <1>6 DEF Nowhere

(* Whoever is set up stays so when no stream and no log changes.           *)
LEMMA KeepsSetUp ==
    ASSUME DOMAIN list \subseteq DOMAIN list', gone \subseteq gone',
           UNCHANGED <<tx, peer>>
    PROVE  SetUp \subseteq SetUp'
BY DEF SetUp

LEMMA SameSetUp ==
    ASSUME DOMAIN list' = DOMAIN list, UNCHANGED <<gone, tx, peer>>
    PROVE  SetUp' = SetUp
BY DEF SetUp

(* The last part of Opening and the list's domain in a form the steps use. *)
LEMMA OpeningFacts ==
    ASSUME TypeOK, Opening
    PROVE  /\ SetUp \subseteq DOMAIN list /\ DOMAIN list \subseteq Switches
           /\ \A i \in Switches : /\ peer[i].log \in Seq([type : MsgType, xid : Nat])
                                  /\ Len(peer[i].log) \in Nat
<1>1. DOMAIN list \subseteq Switches
  BY ListFacts
<1>2. \A i \in Switches : peer[i].log \in Seq([type : MsgType, xid : Nat])
  BY DEF TypeOK
<1>3. \A i \in Switches : Len(peer[i].log) \in Nat
  BY <1>2, LenProperties
<1> QED
  BY <1>1, <1>2, <1>3 DEF SetUp

(* Nothing Opening is about changes, but for the sets of select.           *)
LEMMA OpeningSame ==
    ASSUME Opening, rset' \ {0} \subseteq SetUp, UNCHANGED <<list, gone, reset, tx, peer>>
    PROVE  Opening' /\ SetUp' = SetUp
<1>1. SetUp' = SetUp
  BY SameSetUp
<1>2. /\ \A i \in Switches : Ordered(peer'[i].log)
      /\ \A i \in Switches \ DOMAIN list' : peer'[i].log = << >> /\ tx'[i] = << >>
      /\ \A i \in DOMAIN list' \ SetUp' :
            /\ SwitchInv(list'[i]) /\ FlagsInOrder(list'[i])
            /\ Starts(tx'[i] \o ToSend(list'[i]), Rest(Len(peer'[i].log)))
      /\ rset' \ {0} \subseteq SetUp'
      /\ \A i \in Switches : reset'[i] = "due" => i \in gone'
  BY <1>1 DEF Opening
<1> QED
  BY <1>1, <1>2 DEF Opening

LEMMA LoopOpening ==
    ASSUME Opening, Loop
    PROVE  Opening' /\ SetUp' = SetUp
<1>1. UNCHANGED <<list, rset, gone, reset, tx, peer>>
  BY DEF Loop, netVars
<1> QED
  BY <1>1, OpeningSame DEF Opening

LEMMA OutsideOpening ==
    ASSUME Opening,
           \/ \E i \in DOMAIN list : Sigpipe(i) \/ Dangling(i)
           \/ Sigint \/ Connect
    PROVE  Opening' /\ SetUp' = SetUp
<1>1. UNCHANGED <<list, rset, gone, reset, tx, peer>>
  BY DEF Sigpipe, Dangling, Sigint, Connect, netVars, ctlVars
<1> QED
  BY <1>1, OpeningSame DEF Opening

(* Only a switch whose setup is written is read from.                      *)
LEMMA SelectOpening ==
    ASSUME Content(SetUp, list, graph, sock, tx), Opening, Select
    PROVE  Opening' /\ SetUp' = SetUp
<1>1. UNCHANGED <<list, gone, reset, tx, peer>>
  BY DEF Select, netVars
<1>2. ASSUME NEW i \in DOMAIN list, Readable(i) PROVE i \in SetUp
  <2>1. list[i].rw # WRITE
    BY <1>2, Constants DEF Readable
  <2> QED
    BY <2>1 DEF Content, Rec
<1>3. \/ rset' = rset
      \/ rset' = {i \in DOMAIN list : Readable(i)} \cup
                 (IF arrived > Len(list) THEN {0} ELSE {})
  BY DEF Select
<1>4. rset' \ {0} \subseteq SetUp
  BY <1>2, <1>3 DEF Opening
<1> QED
  BY <1>1, <1>4, OpeningSame

(* A message of slot i disturbs only records that are set up.              *)
LEMMA ReadOpening ==
    ASSUME NoForgery, TypeOK, Turns, Content(SetUp, list, graph, sock, tx),
           Agreed(SetUp, graph), Opening,
           NEW i \in DOMAIN list, Serve_read(i)
    PROVE  Opening' /\ SetUp' = SetUp
<1> DEFINE D == SetUp
<1>1. /\ UNCHANGED <<arrived, gone, tx, peer>>
      /\ rset' = rset \ {i} /\ i \in rset \ {0}
      /\ reset' = reset \/ reset' = [reset EXCEPT ![i] = "told"]
  BY DEF Serve_read, Turn
<1>2. i \in D
  BY <1>1 DEF Opening
<1>3. Handled(i, D)
  <2> HIDE DEF D
  <2>1. Content(D, list, graph, sock, tx) /\ Agreed(D, graph)
    BY DEF D
  <2> QED
    BY <1>2, <2>1, ServeReadStep
<1>4. /\ DOMAIN list' = DOMAIN list
      /\ \A j \in DOMAIN list \ {i} :
           list'[j] = list[j] \/ j = loop_exists(graph')
      /\ graph' \in Seq(Device)
      /\ \A k \in DOMAIN graph' : RealDevice(k, D, graph'[k])
  <2>1. list' \in Seq(of_switch) /\ Len(list') = Len(list) /\ list \in Seq(of_switch)
    BY <1>3, ListFacts DEF Handled
  <2>2. DOMAIN list' = DOMAIN list
    BY <2>1, LenProperties
  <2> HIDE DEF D
  <2> QED
    BY <1>3, <2>2 DEF Handled
<1>5. SetUp' = D
  BY <1>1, <1>4, SameSetUp
<1>6. ASSUME NEW j \in DOMAIN list \ D PROVE list'[j] = list[j]
  <2>1. j # i /\ j \in Switches
    BY <1>2, ListFacts
  <2>2. j # loop_exists(graph')
    <3> HIDE DEF D
    <3> QED
      BY <1>4, <1>6, <2>1, TargetSetUp
  <2> QED
    BY <1>4, <2>1, <2>2
<1>7. \A j \in DOMAIN list' \ D :
         /\ SwitchInv(list'[j]) /\ FlagsInOrder(list'[j])
         /\ Starts(tx'[j] \o ToSend(list'[j]), Rest(Len(peer'[j].log)))
  BY <1>1, <1>4, <1>6 DEF Opening
<1>8. \A j \in Switches : reset'[j] = "due" => j \in gone'
  BY <1>1 DEF Opening, TypeOK
<1>9. /\ \A j \in Switches : Ordered(peer'[j].log)
      /\ \A j \in Switches \ DOMAIN list' : peer'[j].log = << >> /\ tx'[j] = << >>
      /\ rset' \ {0} \subseteq D
  BY <1>1, <1>4 DEF Opening
<1> HIDE DEF D
<1>10. Opening'
  BY <1>5, <1>7, <1>8, <1>9 DEF Opening
<1> QED
  BY <1>5, <1>10 DEF D

(* What is taken for slot i comes behind what its socket holds: the record *)
(* and the stream together hold the rest of the setup as before.           *)
LEMMA WriteOpening ==
    ASSUME TypeOK, Turns, Opening, NEW i \in DOMAIN list, Serve_write(i)
    PROVE  /\ Opening' /\ SetUp \subseteq SetUp'
           /\ i \notin SetUp /\ list'[i].rw # WRITE => i \in SetUp'
<1> DEFINE s == list[i]
           k == Len(peer[i].log)
<1>1. PICK ret \in -1..Room(i) :
         /\ ret <= s.bytes_expected
         /\ ret = 0 <=> s.bytes_expected = 0
         /\ ret = -1 <=> reset[i] = "due"
         /\ reset' = IF ret = -1 THEN [reset EXCEPT ![i] = "told"] ELSE reset
         /\ list' = [list EXCEPT ![i] = handle_write_socket(@, ret)]
         /\ tx' = IF i \in gone THEN tx
                  ELSE [tx EXCEPT ![i] = @ \o SubSeq(Pending(s), 1, ret)]
  BY Zenon DEF Serve_write
<1>2. /\ UNCHANGED <<gone, peer>>
      /\ rset' \subseteq rset /\ i \in wset /\ s.rw = WRITE
  BY DEF Serve_write, Turn, Turns
<1>3. /\ list \in Seq(of_switch) /\ s \in of_switch /\ i \in Switches
      /\ DOMAIN list \subseteq Switches
      /\ tx \in [Switches -> Seq(Cell)] /\ tx[i] \in Seq(Cell)
  BY ListFacts, ElementOfSeq DEF TypeOK
<1> DEFINE t == handle_write_socket(s, ret)
           a == SubSeq(Pending(s), 1, ret)
<1>4. list' = [list EXCEPT ![i] = t]
  BY <1>1
<1>5. ASSUME i \notin SetUp
      PROVE  /\ i \notin gone /\ k \in 0..5
             /\ SwitchInv(s) /\ FlagsInOrder(s) /\ Starts(tx[i] \o ToSend(s), Rest(k))
             /\ a \in Seq(Cell) /\ ToSend(s) = a \o ToSend(t)
             /\ t \in of_switch /\ SwitchInv(t) /\ FlagsInOrder(t)
             /\ t.rw # WRITE => Uncomposed(t) = << >>
  <2>1. i \notin gone /\ k \in Nat /\ ~(k >= 6)
    BY <1>3, <1>5, OpeningFacts DEF SetUp
  <2>2. SwitchInv(s) /\ FlagsInOrder(s) /\ Starts(tx[i] \o ToSend(s), Rest(k))
    BY <1>5 DEF Opening
  <2>3. reset[i] # "due"
    BY <1>3, <2>1 DEF Opening
  <2>4. s.bytes_expected > 0 /\ s.bytes_expected \in Nat
    BY <1>2, <1>3, <2>2, SwitchFields DEF SwitchInv, Exact
  <2>5. ret \in Int /\ -1 <= ret /\ ret # -1 /\ ret # 0 /\ ret <= s.bytes_expected
    <3>1. Room(i) \in Int
      BY <1>3, LenProperties, ControllerAssumption DEF Room, ControllerAssumption
    <3> HIDE DEF s
    <3> QED
      BY <1>1, <2>3, <2>4, <3>1
  <2>6. ret \in 1..s.bytes_expected
    BY <2>4, <2>5
  <2>7. /\ a \in Seq(Cell) /\ ToSend(s) = a \o ToSend(t)
        /\ t \in of_switch /\ SwitchInv(t) /\ FlagsInOrder(t)
        /\ t.rw # WRITE => Uncomposed(t) = << >>
    BY <1>2, <1>3, <2>2, <2>6, WriteOut, Zenon
  <2>8. k \in 0..5
    <3> HIDE DEF k
    <3> QED
      BY <2>1
  <2> QED
    BY <2>1, <2>2, <2>7, <2>8
<1>6. a \in Seq(Cell)
  <2> DEFINE p == Pending(s)
             x == Slice(s.write_buffer, s.bytes_written, s.bytes_expected)
  <2>1. /\ s.write_buffer \in Seq(Cell) /\ Zero \in Cell
        /\ s.bytes_written \in Nat /\ s.bytes_expected \in Nat
    BY <1>3, SwitchFields, ZeroType
  <2>2. p = x
    BY <1>2 DEF Pending
  <2>3. x \in Seq(Cell) /\ Len(x) = s.bytes_expected
    BY <2>1, SliceIn
  <2> HIDE DEF p, x
  <2>4. Room(i) \in Int
    BY <1>3, LenProperties, ControllerAssumption DEF Room, ControllerAssumption
  <2>5. ret \in Int /\ ret <= Len(p) /\ p \in Seq(Cell) /\ 1 \in Nat \ {0}
    <3>1. ret \in Int
      BY <2>4
    <3> HIDE DEF s
    <3> QED
      BY <1>1, <2>2, <2>3, <3>1
  <2>6. SubSeq(p, 1, ret) \in Seq(Cell)
    BY <2>5, PartIn
  <2> QED
    BY <2>6 DEF p
<1>7. /\ i \notin gone => tx'[i] = tx[i] \o a
      /\ \A j \in Switches \ {i} : tx'[j] = tx[j]
  BY <1>1, <1>3
<1> HIDE DEF t, a, s
<1>8. /\ DOMAIN list' = DOMAIN list /\ list'[i] = t
      /\ \A j \in DOMAIN list \ {i} : list'[j] = list[j]
  BY <1>3, <1>4
<1>9. ASSUME i \in SetUp PROVE i \in SetUp'
  <2>1. CASE i \in gone \/ k >= 6
    BY <1>2, <1>8, <2>1 DEF SetUp
  <2>2. CASE i \notin gone /\ ~(k >= 6)
    <3>1. Starts(tx[i], Rest(k)) /\ k \in Nat
      BY <1>3, <1>9, <2>2, OpeningFacts DEF SetUp
    <3>2. k \in 0..5
      <4> HIDE DEF k
      <4> QED
        BY <2>2, <3>1
    <3>3. Rest(k) \in Seq(Cell)
      BY <3>2, RestStep
    <3>4. Starts(tx[i] \o a, Rest(k))
      BY <1>3, <1>6, <3>1, <3>3, StartsLonger, Zenon
    <3> QED
      BY <1>2, <1>7, <1>8, <2>2, <3>4 DEF SetUp
  <2> QED
    BY <2>1, <2>2
<1>10. SetUp \subseteq SetUp'
  <2>1. \A j \in SetUp \ {i} : j \in SetUp'
    BY <1>2, <1>3, <1>7, <1>8 DEF SetUp
  <2> QED
    BY <1>9, <2>1
<1>11. ASSUME i \notin SetUp
       PROVE  /\ tx'[i] \o ToSend(t) = tx[i] \o ToSend(s)
              /\ t.rw # WRITE => tx'[i] = tx[i] \o ToSend(s)
  <2>1. /\ i \notin gone /\ ToSend(s) = a \o ToSend(t)
        /\ t \in of_switch /\ SwitchInv(t)
        /\ t.rw # WRITE => Uncomposed(t) = << >>
    BY <1>5, <1>11
  <2>2. tx'[i] = tx[i] \o a
    BY <1>7, <2>1
  <2>3. ToSend(t) \in Seq(Cell)
    BY <2>1, ToSendType
  <2>4. (tx[i] \o a) \o ToSend(t) = tx[i] \o (a \o ToSend(t))
    BY <1>3, <1>6, <2>3, ConcatCells
  <2>5. ASSUME t.rw # WRITE PROVE a \o ToSend(t) = a
    <3>1. Pending(t) = << >> /\ Uncomposed(t) = << >>
      BY <2>1, <2>5, NotWriting
    <3>2. ToSend(t) = << >>
      <4>1. << >> \in Seq(Cell) /\ << >> \o << >> = << >>
        BY EmptySeq, ConcatEmptySeq
      <4> QED
        BY <3>1, <4>1, Zenon DEF ToSend
    <3> QED
      BY <1>6, <3>2, ConcatEmptySeq
  <2> QED
    BY <2>1, <2>2, <2>4, <2>5, Zenon
<1>12. ASSUME i \notin SetUp, list'[i].rw # WRITE PROVE i \in SetUp'
  <2>1. Starts(tx[i] \o ToSend(s), Rest(k))
    BY <1>5, <1>12
  <2>2. Starts(tx'[i], Rest(k))
    BY <1>8, <1>11, <1>12, <2>1, Zenon
  <2> QED
    BY <1>2, <1>8, <2>2 DEF SetUp
<1>13. ASSUME NEW j \in DOMAIN list' \ SetUp'
       PROVE  /\ SwitchInv(list'[j]) /\ FlagsInOrder(list'[j])
              /\ Starts(tx'[j] \o ToSend(list'[j]), Rest(Len(peer'[j].log)))
  <2>1. j \in DOMAIN list \ SetUp
    BY <1>8, <1>10
  <2>2. CASE j # i
    BY <1>2, <1>3, <1>7, <1>8, <2>1, <2>2 DEF Opening
  <2>3. CASE j = i
    <3>1. /\ SwitchInv(t) /\ FlagsInOrder(t)
          /\ Starts(tx[i] \o ToSend(s), Rest(k))
      BY <1>5, <2>1, <2>3
    <3>2. Starts(tx'[i] \o ToSend(t), Rest(k))
      BY <1>11, <2>1, <2>3, <3>1, Zenon
    <3> QED
      BY <1>2, <1>8, <2>3, <3>1, <3>2
  <2> QED
    BY <2>2, <2>3
<1>14. /\ \A j \in Switches : Ordered(peer'[j].log)
       /\ \A j \in Switches \ DOMAIN list' : peer'[j].log = << >> /\ tx'[j] = << >>
  BY <1>2, <1>7, <1>8 DEF Opening
<1>15. rset' \ {0} \subseteq SetUp'
  BY <1>2, <1>10 DEF Opening
<1>16. \A j \in Switches : reset'[j] = "due" => j \in gone'
  BY <1>1, <1>2 DEF Opening, TypeOK
<1>17. Opening'
  BY <1>13, <1>14, <1>15, <1>16 DEF Opening
<1> QED
  BY <1>10, <1>12, <1>17

LEMMA AcceptOpening ==
    ASSUME TypeOK, Turns, Opening, Accept
    PROVE  Opening' /\ SetUp \subseteq SetUp'
<1> DEFINE n == Len(list) + 1
<1>1. /\ list' = Append(list, new_switch)
      /\ UNCHANGED <<gone, reset, tx, peer>>
      /\ rset' \subseteq rset /\ 0 \in rset
  BY DEF Accept, Turn, netVars
<1>2. /\ list \in Seq(of_switch) /\ Len(list) \in Nat /\ DOMAIN list = 1..Len(list)
      /\ Len(list) < arrived /\ arrived \in 0..MaxSwitches /\ MaxSwitches \in Nat
  BY <1>1, ListFacts, ControllerAssumption DEF TypeOK, Turns, ControllerAssumption
<1>3. n \in Switches /\ n \notin DOMAIN list /\ n \in Nat
  BY <1>2 DEF Switches
<1>4. new_switch \in of_switch /\ SwitchInv(new_switch) /\ FlagsInOrder(new_switch)
  BY NewSwitchLoaded, LoadedInv, NewSwitchSetup
<1>5. /\ DOMAIN list' = DOMAIN list \cup {n} /\ list'[n] = new_switch
      /\ \A j \in DOMAIN list : list'[j] = list[j]
  <2>1. /\ list' \in Seq(of_switch) /\ Len(list') = n /\ list'[n] = new_switch
        /\ \A j \in 1..Len(list) : list'[j] = list[j]
    BY <1>1, <1>2, <1>4, AppendProperties
  <2>2. DOMAIN list' = 1..n
    BY <2>1, LenProperties
  <2>3. 1..n = 1..Len(list) \cup {n}
    BY <1>2
  <2> QED
    BY <1>2, <2>1, <2>2, <2>3
<1> HIDE DEF n
<1>6. SetUp \subseteq SetUp'
  BY <1>1, <1>5, KeepsSetUp
<1>7. Starts(tx[n] \o ToSend(new_switch), Rest(Len(peer[n].log)))
  <2>1. tx[n] = << >> /\ peer[n].log = << >>
    BY <1>3 DEF Opening
  <2>2. Len(<< >>) = 0
    OBVIOUS
  <2>3. ToSend(new_switch) = Rest(0) /\ Starts(Rest(0), Rest(0)) /\ Rest(0) \in Seq(Cell)
    BY NewSwitchToSend
  <2>4. << >> \o Rest(0) = Rest(0)
    BY <2>3, ConcatEmptySeq
  <2>5. tx[n] \o ToSend(new_switch) = Rest(0)
    BY <2>1, <2>3, <2>4, Zenon
  <2> QED
    BY <2>1, <2>2, <2>3, <2>5, Zenon
<1>8. ASSUME NEW j \in DOMAIN list' \ SetUp'
      PROVE  /\ SwitchInv(list'[j]) /\ FlagsInOrder(list'[j])
             /\ Starts(tx'[j] \o ToSend(list'[j]), Rest(Len(peer'[j].log)))
  <2>1. CASE j = n
    BY <1>1, <1>4, <1>5, <1>7, <2>1
  <2>2. CASE j # n
    <3>1. j \in DOMAIN list \ SetUp
      BY <1>5, <1>6, <2>2
    <3> QED
      BY <1>1, <1>5, <3>1 DEF Opening
  <2> QED
    BY <2>1, <2>2
<1>9. /\ \A j \in Switches : Ordered(peer'[j].log)
      /\ \A j \in Switches \ DOMAIN list' : peer'[j].log = << >> /\ tx'[j] = << >>
      /\ rset' \ {0} \subseteq SetUp'
      /\ \A j \in Switches : reset'[j] = "due" => j \in gone'
  BY <1>1, <1>5, <1>6 DEF Opening
<1>10. Opening'
  BY <1>8, <1>9 DEF Opening
<1> QED
  BY <1>6, <1>10

LEMMA LeaveOpening ==
    ASSUME TypeOK, Opening, NEW i \in Switches, Leave(i)
    PROVE  Opening' /\ SetUp \subseteq SetUp'
<1>1. /\ UNCHANGED <<list, rset, peer>>
      /\ gone' = gone \cup {i} /\ tx' = [tx EXCEPT ![i] = << >>]
      /\ \E how \in {"no", "due"} : reset' = [reset EXCEPT ![i] = how]
  BY DEF Leave, ctlVars
<1>2. \A j \in Switches : tx'[j] = IF j = i THEN << >> ELSE tx[j]
  BY <1>1 DEF TypeOK
<1>3. DOMAIN list \subseteq Switches
  BY ListFacts
<1>4. SetUp \subseteq SetUp' /\ (i \in DOMAIN list => i \in SetUp')
  BY <1>1, <1>2, <1>3 DEF SetUp
<1>5. ASSUME NEW j \in DOMAIN list' \ SetUp'
      PROVE  /\ SwitchInv(list'[j]) /\ FlagsInOrder(list'[j])
             /\ Starts(tx'[j] \o ToSend(list'[j]), Rest(Len(peer'[j].log)))
  <2>1. j \in DOMAIN list \ SetUp /\ j # i /\ j \in Switches
    BY <1>1, <1>3, <1>4
  <2> QED
    BY <1>1, <1>2, <2>1 DEF Opening
<1>6. \A j \in Switches : reset'[j] = "due" => j \in gone'
  BY <1>1 DEF Opening, TypeOK
<1>7. /\ \A j \in Switches : Ordered(peer'[j].log)
      /\ \A j \in Switches \ DOMAIN list' : peer'[j].log = << >> /\ tx'[j] = << >>
      /\ rset' \ {0} \subseteq SetUp'
  BY <1>1, <1>2, <1>4 DEF Opening
<1>8. Opening'
  BY <1>5, <1>6, <1>7 DEF Opening
<1> QED
  BY <1>4, <1>8

(* What a message that arrives, and one that is sent, do to the logs.      *)
LEMMA ReceivesLog ==
    ASSUME TypeOK, NEW i \in Switches, SwitchReceives(i)
    PROVE  /\ peer'[i].log = Append(peer[i].log, Note(tx[i][1].msg))
           /\ \A n \in Switches \ {i} : peer'[n].log = peer[n].log
<1> DEFINE P == [log : Seq([type : MsgType, xid : Nat]), asked : Nat, left : Int]
           m == tx[i][1].msg
           flood == IF m.type = "PACKET_OUT" /\ m.info = "probe" THEN Reports(i) ELSE {}
           reporter == {e[1] : e \in flood}
<1>1. peer' = [n \in Switches |->
           IF n = i THEN [peer[n] EXCEPT !.log = Append(@, Note(m))]
           ELSE IF n \in reporter THEN [peer[n] EXCEPT !.left = @ - 1]
           ELSE peer[n]]
  BY DEF SwitchReceives
<1>2. \A n \in Switches : peer[n] \in P
  BY DEF TypeOK
<1> HIDE DEF m, reporter, flood
<1>3. peer'[i].log = Append(peer[i].log, Note(m))
  <2>1. peer'[i] = [peer[i] EXCEPT !.log = Append(@, Note(m))]
    BY <1>1
  <2> QED
    BY <1>2, <2>1
<1>4. ASSUME NEW n \in Switches \ {i} PROVE peer'[n].log = peer[n].log
  <2>1. peer'[n] = peer[n] \/ peer'[n] = [peer[n] EXCEPT !.left = @ - 1]
    BY <1>1
  <2> QED
    BY <1>2, <2>1
<1> QED
  BY <1>3, <1>4 DEF m

LEMMA SaysLog ==
    ASSUME TypeOK, NEW i \in Switches, SwitchSays(i)
    PROVE  \A j \in Switches : peer'[j].log = peer[j].log
<1>1. PICK a, l : peer' = [peer EXCEPT ![i].asked = a, ![i].left = l]
  BY DEF SwitchSays
<1> DEFINE P == [log : Seq([type : MsgType, xid : Nat]), asked : Nat, left : Int]
           q == [[peer[i] EXCEPT !.asked = a] EXCEPT !.left = l]
<1>2. peer \in [Switches -> P]
  BY DEF TypeOK
<1>3. peer' = [peer EXCEPT ![i] = q]
  BY <1>1, <1>2
<1>4. peer[i] \in P
  BY <1>2
<1>5. q.log = peer[i].log
  BY <1>4
<1> HIDE DEF q, P
<1> QED
  BY <1>2, <1>3, <1>5

(* The next message is the next of the setup, if it is not complete.       *)
LEMMA ReceivesOpening ==
    ASSUME TypeOK, Opening, NEW i \in Switches, SwitchReceives(i)
    PROVE  Opening' /\ SetUp \subseteq SetUp'
<1> DEFINE N == [type : MsgType, xid : Nat]
           st == tx[i]
           m == st[1].msg
           rest == SubSeq(st, m.len + 1, Len(st))
           log == peer[i].log
           k == Len(log)
<1>1. /\ UNCHANGED <<list, rset, gone, reset>>
      /\ i \notin gone /\ st # << >> /\ m.len <= Len(st)
      /\ tx' = [tx EXCEPT ![i] = rest]
  BY DEF SwitchReceives, ctlVars
<1>2. /\ peer'[i].log = Append(log, Note(m))
      /\ \A n \in Switches \ {i} : peer'[n].log = peer[n].log
  BY ReceivesLog
<1>3. tx'[i] = rest /\ \A n \in Switches \ {i} : tx'[n] = tx[n]
  BY <1>1 DEF TypeOK
<1>4. /\ st \in Seq(Cell) /\ Len(st) \in Nat /\ Len(st) > 0 /\ m \in Message
      /\ log \in Seq(N) /\ k \in Nat /\ Note(m) \in N /\ Ordered(log)
      /\ Note(m).type = m.type
  <2>1. st \in Seq(Cell) /\ log \in Seq(N) /\ Ordered(log)
    BY DEF TypeOK, Opening
  <2>2. Len(st) \in Nat /\ Len(st) > 0 /\ k \in Nat
    <3> HIDE DEF st, log, N
    <3>1. st # << >>
      BY <1>1
    <3> QED
      BY <2>1, <3>1, LenProperties, EmptySeq
  <2>3. m \in Message
    <3>1. st[1] \in Cell
      <4> HIDE DEF st
      <4> QED
        BY <2>1, <2>2, ElementOfSeq
    <3> QED
      BY <3>1 DEF Cell
  <2>4. Note(m) \in N /\ Note(m).type = m.type
    <3> HIDE DEF m
    <3> QED
      BY <2>3 DEF Note, Message
  <2> QED
    BY <2>1, <2>2, <2>3, <2>4
<1>5. i \in DOMAIN list /\ DOMAIN list \subseteq Switches
  BY <1>1, ListFacts DEF Opening
<1> DEFINE x == IF i \in SetUp THEN << >> ELSE ToSend(list[i])
<1>6. ASSUME k < 6
      PROVE  /\ k \in 0..5 /\ x \in Seq(Cell)
             /\ m.type = SetupTypes[k + 1] /\ Starts(rest \o x, Rest(k + 1))
  <2>1. k \in 0..5
    <3> HIDE DEF k
    <3> QED
      BY <1>4, <1>6
  <2>2. x \in Seq(Cell) /\ Starts(st \o x, Rest(k))
    <3>1. CASE i \in SetUp
      <4>1. Starts(st, Rest(k))
        <5>1. ~(k >= 6)
          <6> HIDE DEF k
          <6> QED
            BY <2>1
        <5> QED
          BY <1>1, <3>1, <5>1 DEF SetUp
      <4>2. x = << >> /\ << >> \in Seq(Cell) /\ st \o << >> = st
        BY <1>4, <3>1, EmptySeq, ConcatEmptySeq
      <4> QED
        BY <4>1, <4>2, Zenon
    <3>2. CASE i \notin SetUp
      <4>1. SwitchInv(list[i]) /\ Starts(st \o ToSend(list[i]), Rest(k))
        BY <1>5, <3>2 DEF Opening
      <4>2. list[i] \in of_switch
        BY <1>5, ListFacts, ElementOfSeq
      <4>3. ToSend(list[i]) \in Seq(Cell)
        BY <4>1, <4>2, ToSendType
      <4> QED
        BY <3>2, <4>1, <4>3
    <3> QED
      BY <3>1, <3>2
  <2> HIDE DEF x, st, k
  <2>3. /\ m.type = SetupTypes[k + 1] /\ Starts(rest \o x, Rest(k + 1))
    BY <1>1, <1>4, <2>1, <2>2, GetsNext, Zenon
  <2> QED
    BY <2>1, <2>2, <2>3
<1> HIDE DEF m
<1>7. Len(peer'[i].log) = k + 1 /\ Ordered(peer'[i].log)
  <2> HIDE DEF log, N
  <2>1. Len(Append(log, Note(m))) = k + 1
    BY <1>4, AppendProperties
  <2>2. Ordered(Append(log, Note(m)))
    BY <1>4, <1>6, OrderedNext
  <2> QED
    BY <1>2, <2>1, <2>2, Zenon
<1>8. i \in SetUp => i \in SetUp'
  <2> SUFFICES ASSUME i \in SetUp PROVE i \in SetUp'
    OBVIOUS
  <2>1. CASE k >= 6
    <3>1. Len(peer'[i].log) >= 6
      <4> HIDE DEF k
      <4> QED
        BY <1>4, <1>7, <2>1
    <3> QED
      BY <1>1, <1>5, <3>1 DEF SetUp
  <2>2. CASE k < 6
    <3>1. x = << >> /\ Starts(rest \o x, Rest(k + 1))
      BY <1>6, <2>2
    <3>2. rest \o << >> = rest
      <4>1. m.len + 1 \in Nat \ {0}
        BY <1>4 DEF Message
      <4>2. rest \in Seq(Cell)
        <5> HIDE DEF st
        <5> QED
          BY <1>4, <4>1, PartIn
      <4> QED
        BY <4>2, ConcatEmptySeq
    <3>3. Starts(tx'[i], Rest(Len(peer'[i].log)))
      BY <1>3, <1>7, <3>1, <3>2, Zenon
    <3> QED
      BY <1>1, <1>5, <3>3 DEF SetUp
  <2>3. k >= 6 \/ k < 6
    <3> HIDE DEF k
    <3> QED
      BY <1>4
  <2> QED
    BY <2>1, <2>2, <2>3
<1> HIDE DEF k, rest
<1>9. SetUp \subseteq SetUp'
  <2>1. \A j \in SetUp \ {i} : j \in SetUp'
    BY <1>1, <1>2, <1>3, <1>5 DEF SetUp
  <2> QED
    BY <1>8, <2>1
<1>10. ASSUME NEW j \in DOMAIN list' \ SetUp'
       PROVE  /\ SwitchInv(list'[j]) /\ FlagsInOrder(list'[j])
              /\ Starts(tx'[j] \o ToSend(list'[j]), Rest(Len(peer'[j].log)))
  <2>1. j \in DOMAIN list \ SetUp /\ j \in Switches
    BY <1>1, <1>5, <1>9
  <2>2. CASE j # i
    BY <1>1, <1>2, <1>3, <2>1, <2>2 DEF Opening
  <2>3. CASE j = i
    <3>1. ~(Len(peer'[i].log) >= 6)
      BY <1>1, <2>3 DEF SetUp
    <3>2. k < 6
      BY <1>4, <1>7, <3>1
    <3>3. x = ToSend(list[i]) /\ Starts(rest \o x, Rest(k + 1))
      BY <1>6, <2>1, <2>3, <3>2
    <3>4. Starts(tx'[i] \o ToSend(list[i]), Rest(Len(peer'[i].log)))
      BY <1>3, <1>7, <3>3, Zenon
    <3> QED
      BY <1>1, <2>1, <2>3, <3>4 DEF Opening
  <2> QED
    BY <2>2, <2>3
<1>11. /\ \A j \in Switches : Ordered(peer'[j].log)
       /\ \A j \in Switches \ DOMAIN list' : peer'[j].log = << >> /\ tx'[j] = << >>
       /\ rset' \ {0} \subseteq SetUp'
       /\ \A j \in Switches : reset'[j] = "due" => j \in gone'
  BY <1>1, <1>2, <1>3, <1>5, <1>7, <1>9 DEF Opening
<1>12. Opening'
  BY <1>10, <1>11 DEF Opening
<1> QED
  BY <1>9, <1>12

LEMMA SaysOpening ==
    ASSUME TypeOK, Opening, NEW i \in Switches, SwitchSays(i)
    PROVE  Opening' /\ SetUp' = SetUp
<1>2. UNCHANGED <<list, rset, gone, reset, tx>>
  BY DEF SwitchSays, ctlVars
<1>3. \A j \in Switches : peer'[j].log = peer[j].log
  BY SaysLog
<1>4. DOMAIN list \subseteq Switches
  BY ListFacts
<1>5. SetUp' = SetUp
  BY <1>2, <1>3, <1>4 DEF SetUp
<1>6. /\ \A j \in Switches : Ordered(peer'[j].log)
      /\ \A j \in Switches \ DOMAIN list' : peer'[j].log = << >> /\ tx'[j] = << >>
      /\ \A j \in DOMAIN list' \ SetUp' :
            /\ SwitchInv(list'[j]) /\ FlagsInOrder(list'[j])
            /\ Starts(tx'[j] \o ToSend(list'[j]), Rest(Len(peer'[j].log)))
      /\ rset' \ {0} \subseteq SetUp'
      /\ \A j \in Switches : reset'[j] = "due" => j \in gone'
  <2>1. \A j \in DOMAIN list' \ SetUp' : j \in DOMAIN list \ SetUp /\ j \in Switches
    BY <1>2, <1>4, <1>5
  <2> QED
    BY <1>2, <1>3, <1>5, <2>1 DEF Opening
<1>7. Opening'
  BY <1>6 DEF Opening
<1> QED
  BY <1>5, <1>7

(* The step of the invariant: the lemmas above with SetUp for D, and what  *)
(* it becomes for E.                                                       *)
LEMMA SetUpStep ==
    ASSUME NoForgery, TypeOK, Turns, Content(SetUp, list, graph, sock, tx),
           Agreed(SetUp, graph), Opening, [Next]_vars
    PROVE  /\ TypeOK' /\ Turns' /\ Content(SetUp', list', graph', sock', tx') /\ Opening'
           /\ SetUp \subseteq SetUp'
<1>1. PICK D : D = SetUp
  OBVIOUS
<1>2. PICK E : E = SetUp'
  OBVIOUS
<1>3. Content(D, list, graph, sock, tx) /\ Agreed(D, graph)
  BY <1>1
<1> DEFINE Goal == /\ TypeOK' /\ Turns' /\ Content(E, list', graph', sock', tx') /\ Opening'
                   /\ D \subseteq E
<1> SUFFICES Goal
  BY <1>1, <1>2
<1>4. CASE Loop
  <2>1. E = D /\ Opening'
    BY <1>1, <1>2, <1>4, LoopOpening
  <2> QED
    BY <1>3, <1>4, <2>1, LoopContent
<1>5. CASE Select
  <2>1. E = D /\ Opening'
    BY <1>1, <1>2, <1>5, SelectOpening
  <2> QED
    BY <1>3, <1>5, <2>1, SelectContent
<1>6. CASE Accept
  <2>1. D \subseteq E /\ Opening'
    BY <1>1, <1>2, <1>6, AcceptOpening
  <2> QED
    BY <1>3, <1>6, <2>1, AcceptContent
<1>7. ASSUME NEW i \in DOMAIN list, Serve_read(i) PROVE Goal
  <2>1. E = D /\ Opening'
    BY <1>1, <1>2, <1>7, ReadOpening
  <2>2. i \in D
    BY <1>1, <1>7 DEF Serve_read, Opening
  <2> QED
    BY <1>3, <1>7, <2>1, <2>2, ReadContent
<1>8. ASSUME NEW i \in DOMAIN list, Serve_write(i) PROVE Goal
  <2>1. /\ D \subseteq E /\ Opening'
        /\ i \notin D /\ list'[i].rw # WRITE => i \in E
    BY <1>1, <1>2, <1>8, WriteOpening
  <2>2. list'[i].rw # WRITE => i \in E
    BY <2>1
  <2> QED
    BY <1>3, <1>8, <2>1, <2>2, WriteContent
<1>9. CASE (\E i \in DOMAIN list : Sigpipe(i) \/ Dangling(i)) \/ Sigint \/ Connect
  <2>1. E = D /\ Opening'
    BY <1>1, <1>2, <1>9, OutsideOpening
  <2> QED
    BY <1>3, <1>9, <2>1, OutsideContent
<1>10. ASSUME NEW i \in Switches, Leave(i) PROVE Goal
  <2>1. D \subseteq E /\ Opening'
    BY <1>1, <1>2, <1>10, LeaveOpening
  <2>2. TypeOK' /\ Turns' /\ Content(D, list', graph', sock', tx')
    BY <1>3, <1>10, LeaveContent
  <2> QED
    BY <2>1, <2>2, ContentGrows
<1>11. ASSUME NEW i \in Switches, SwitchReceives(i) PROVE Goal
  <2>1. D \subseteq E /\ Opening'
    BY <1>1, <1>2, <1>11, ReceivesOpening
  <2>2. \A n \in Switches : NoForgery /\ Configured(n) => n \in D
    BY <1>1, ConfiguredSetUp
  <2>3. TypeOK' /\ Turns' /\ Content(D, list', graph', sock', tx')
    BY <1>3, <1>11, <2>2, ReceivesContent
  <2> QED
    BY <2>1, <2>3, ContentGrows
<1>12. ASSUME NEW i \in Switches, SwitchSays(i) PROVE Goal
  <2>1. E = D /\ Opening'
    BY <1>1, <1>2, <1>12, SaysOpening
  <2> QED
    BY <1>3, <1>12, <2>1, SaysContent
<1>13. CASE UNCHANGED vars
  <2>1. UNCHANGED <<list, graph, rset, wset, pc, interrupt, closed, freed>>
        /\ UNCHANGED <<arrived, gone, reset, sock, tx, peer, down>>
    BY <1>13 DEF vars
  <2>2. E = D /\ Opening'
    BY <1>1, <1>2, <2>1, OpeningSame DEF Opening
  <2>3. TypeOK' /\ Turns' /\ Content(D, list', graph', sock', tx')
    BY <1>3, <2>1 DEF TypeOK, Turns, Content, Stopped
  <2> QED
    BY <2>2, <2>3
<1> HIDE DEF Goal
<1> QED
  BY <1>4, <1>5, <1>6, <1>7, <1>8, <1>9, <1>10, <1>11, <1>12, <1>13
     DEF Next, Serve, Environment

(* The graph changes by a switch, which nobody names before it is there,   *)
(* and by a message.                                                       *)
LEMMA AgreedStep ==
    ASSUME NoForgery, TypeOK, Turns, Content(SetUp, list, graph, sock, tx),
           Agreed(SetUp, graph), Opening, [Next]_vars
    PROVE  Agreed(SetUp', graph')
<1>1. PICK D : D = SetUp
  OBVIOUS
<1>2. PICK E : E = SetUp'
  OBVIOUS
<1>3. /\ Content(D, list, graph, sock, tx) /\ Agreed(D, graph)
      /\ TypeOK' /\ Content(E, list', graph', sock', tx') /\ D \subseteq E
  BY <1>1, <1>2, SetUpStep
<1>4. E \subseteq DOMAIN graph'
  <2>1. DOMAIN list' = DOMAIN graph'
    <3>1. /\ list' \in Seq(of_switch) /\ graph' \in Seq(Device)
          /\ Len(graph') = Len(list')
      BY <1>3 DEF TypeOK, Content
    <3> QED
      BY <3>1, LenProperties
  <2> QED
    BY <1>2, <2>1 DEF SetUp
<1> SUFFICES Agreed(E, graph')
  BY <1>2
<1>5. CASE UNCHANGED graph
  BY <1>3, <1>4, <1>5, AgreedGrows
<1>6. CASE Accept
  <2> DEFINE n == Len(list) + 1
             h == Head0(n)
  <2> SUFFICES ASSUME Calm(E) PROVE Agreed(E, graph')
    BY DEF Agreed
  <2>1. graph' = Append(graph, h) /\ 0 \in rset
    BY <1>6 DEF Accept, join
  <2>2. /\ graph \in Seq(Device) /\ Len(graph) \in Nat /\ n = Len(graph) + 1
        /\ Len(list) < arrived /\ arrived \in 0..MaxSwitches /\ MaxSwitches \in Nat
        /\ \A k \in DOMAIN graph : RealDevice(k, D, graph[k])
    BY <1>3, <2>1, LenProperties, ControllerAssumption
       DEF TypeOK, Turns, Content, ControllerAssumption
  <2>3. n \in Switches /\ n \notin DOMAIN graph
    BY <2>2, LenProperties DEF Switches
  <2>4. /\ D \subseteq DOMAIN graph
        /\ \A a \in DOMAIN graph : Once(graph[a])
        /\ \A a, b \in DOMAIN graph : b \in Named(graph[a]) => a \in Named(graph[b])
    BY <1>3 DEF Agreed, Calm
  <2>5. \A a \in DOMAIN graph : n \notin Named(graph[a])
    BY <2>2, <2>3, <2>4, NamedCabled
  <2>6. /\ DOMAIN graph' = DOMAIN graph \cup {n} /\ graph'[n] = h
        /\ \A a \in DOMAIN graph : graph'[a] = graph[a]
    <3>1. h.next = << >> /\ h.device_num = n /\ n \in Nat
      BY <2>2 DEF Head0
    <3>2. << >> \in Seq([device_num : Nat, port_num : 0..255])
      BY EmptySeq
    <3>3. h \in Device
      BY <3>1, <3>2 DEF Head0, Device
    <3> HIDE DEF h
    <3>4. /\ DOMAIN graph = 1..Len(graph) /\ DOMAIN graph' = 1..n /\ graph'[n] = h
          /\ \A a \in 1..Len(graph) : graph'[a] = graph[a]
      BY <2>1, <2>2, <3>3, AppendProperties, LenProperties
    <3> QED
      BY <2>2, <3>4
  <2>7. Named(h) = {} /\ Once(h)
    BY DEF Named, Once, Head0
  <2> HIDE DEF h, n
  <2>8. \A a, b \in DOMAIN graph' : b \in Named(graph'[a]) => a \in Named(graph'[b])
    BY <2>3, <2>4, <2>5, <2>6, <2>7
  <2>9. \A a \in DOMAIN graph' : Once(graph'[a])
    BY <2>4, <2>6, <2>7
  <2> QED
    BY <1>4, <2>8, <2>9 DEF Agreed
<1>7. ASSUME NEW i \in DOMAIN list, Serve_read(i) PROVE Agreed(E, graph')
  <2>1. i \in D
    BY <1>1, <1>7 DEF Serve_read, Opening
  <2>2. Agreed(D, graph')
    BY <1>3, <1>7, <2>1, ServeReadStep DEF Handled
  <2> QED
    BY <1>3, <1>4, <2>2, AgreedGrows
<1>8. \/ UNCHANGED graph
      \/ Accept
      \/ \E i \in DOMAIN list : Serve_read(i)
  BY DEF Next, Serve, Environment, Loop, Select, Serve_write, Sigpipe, Dangling,
         Sigint, Connect, Leave, SwitchReceives, SwitchSays, vars, ctlVars
<1> QED
  BY <1>5, <1>6, <1>7, <1>8

(* Only a write to a switch that is gone and a search that is lost end the *)
(* controller in this way.                                                 *)
LEMMA StaysStep ==
    ASSUME NoForgery, TypeOK, Content(SetUp, list, graph, sock, tx),
           Agreed(SetUp, graph), Opening, SearchStays, [Next]_vars
    PROVE  SearchStays'
<1>1. ASSUME NEW i \in DOMAIN list, Serve_read(i) PROVE SearchStays'
  <2>1. PICK D : D = SetUp
    OBVIOUS
  <2>2. Content(D, list, graph, sock, tx) /\ Agreed(D, graph) /\ i \in D
    BY <1>1, <2>1 DEF Serve_read, Opening
  <2>3. Handled(i, D)
    BY <1>1, <2>2, ServeReadStep
  <2>4. D \subseteq DOMAIN graph'
    <3>1. list \in Seq(of_switch) /\ DOMAIN list = 1..Len(list) /\ Len(graph) = Len(list)
      BY ListFacts DEF TypeOK
    <3>2. graph' \in Seq(Device) /\ Len(graph') = Len(list)
      BY <2>3, <3>1 DEF Handled
    <3>3. DOMAIN graph' = 1..Len(list)
      BY <3>2, LenProperties
    <3> QED
      BY <2>1, <3>1, <3>3 DEF SetUp
  <2>5. /\ graph' \in Seq(Device) /\ \A k \in DOMAIN graph' : RealDevice(k, D, graph'[k])
        /\ pc' = "killed" => loop_exists(graph') = Nowhere
    BY <2>3 DEF Handled
  <2>6. pc' = "killed" =>
           \E k \in DOMAIN graph' : \E j \in DOMAIN graph'[k].next :
              graph'[k].next[j].device_num \notin Switches
    BY <2>4, <2>5, LostMeans
  <2> QED
    BY <2>6 DEF SearchStays
<1>2. ASSUME NEW i \in DOMAIN list, Sigpipe(i) PROVE SearchStays'
  BY <1>2 DEF Sigpipe, SearchStays, netVars
<1>3. ASSUME Loop \/ Select \/ Accept \/ Sigint \/ Connect
             \/ (\E i \in DOMAIN list : Serve_write(i) \/ Dangling(i))
             \/ (\E i \in Switches : Leave(i) \/ SwitchReceives(i) \/ SwitchSays(i))
      PROVE  SearchStays'
  <2>1. pc' # "killed"
    <3>1. CASE Loop \/ Select
      BY <3>1 DEF Loop, Select
    <3>2. CASE Accept
      BY <3>2 DEF Accept, after
    <3>3. CASE Sigint \/ Connect
      BY <3>3 DEF Sigint, Connect, Stopped, ctlVars
    <3>4. CASE \E i \in DOMAIN list : Serve_write(i)
      BY <3>4 DEF Serve_write, after
    <3>5. CASE \E i \in DOMAIN list : Dangling(i)
      BY <3>5 DEF Dangling
    <3>6. CASE \E i \in Switches : Leave(i) \/ SwitchReceives(i) \/ SwitchSays(i)
      BY <3>6 DEF Leave, SwitchReceives, SwitchSays, Stopped, ctlVars
    <3> QED
      BY <1>3, <3>1, <3>2, <3>3, <3>4, <3>5, <3>6
  <2> QED
    BY <2>1 DEF SearchStays
<1>4. CASE UNCHANGED vars
  BY <1>4 DEF vars, SearchStays
<1> QED
  BY <1>1, <1>2, <1>3, <1>4 DEF Next, Serve, Environment

LEMMA InitOpening ==
    ASSUME Init
    PROVE  Opening /\ SearchStays
<1>1. /\ \A i \in Switches : peer[i].log = << >> /\ tx[i] = << >> /\ reset[i] = "no"
      /\ list = << >> /\ rset = {} /\ pc = "loop"
  BY DEF Init
<1>2. DOMAIN << >> = {} /\ Len(<< >>) = 0 /\ Ordered(<< >>)
  BY DEF Ordered
<1>3. \A i \in Switches : Ordered(peer[i].log)
  BY <1>1, <1>2
<1> QED
  BY <1>1, <1>2, <1>3 DEF Opening, SearchStays

LEMMA SetUpInvariance ==
    ASSUME NoForgery
    PROVE  Spec => []SInv
<1>1. Init => SInv
  <2> SUFFICES ASSUME Init PROVE SInv
    OBVIOUS
  <2>1. PICK D : D = SetUp
    OBVIOUS
  <2>2. TypeOK /\ Turns /\ Content(D, list, graph, sock, tx)
    BY InitContent
  <2>3. DOMAIN graph = {} /\ SetUp = {}
    BY DEF Init, SetUp
  <2>4. Agreed(SetUp, graph)
    BY <2>3 DEF Agreed
  <2> QED
    BY <2>1, <2>2, <2>4, InitOpening DEF SInv
<1>2. SInv /\ [Next]_vars => SInv'
  BY SetUpStep, AgreedStep, StaysStep DEF SInv
<1> QED
  BY <1>1, <1>2, PTL DEF Spec

(* However many switches connect at once and whatever the probes of those  *)
(* already served do to the records in between, no switch gets anything    *)
(* but the setup before it has all of it: the six messages come in their   *)
(* order and whole (setup_new_switch, handle_write_socket), as nothing     *)
(* else is ever written over one of them (change_port_behavior).           *)
THEOREM SetupsOrdered ==
    ASSUME NoForgery
    PROVE  Spec => []SetupsInOrder
<1>1. SInv => SetupsInOrder
  <2> SUFFICES ASSUME SInv, NEW i \in Switches, NEW k \in DOMAIN peer[i].log,
                      k <= Len(SetupTypes)
               PROVE  peer[i].log[k].type = SetupTypes[k]
    BY DEF SetupsInOrder
  <2>1. Ordered(peer[i].log)
    BY DEF SInv, Opening
  <2>2. k \in 1..Len(peer[i].log)
    <3>1. peer[i].log \in Seq([type : MsgType, xid : Nat])
      BY DEF SInv, TypeOK
    <3> QED
      BY <3>1, LenProperties
  <2> QED
    BY <2>1, <2>2 DEF Ordered
<1> QED
  BY <1>1, SetUpInvariance, PTL

(* What arrives at a switch was written for it, and where no alarm may be  *)
(* raised none was.                                                        *)
LEMMA AlarmStep ==
    ASSUME NoForgery, Loopless, SInv, NoFalseAlarm, [Next]_vars
    PROVE  NoFalseAlarm'
<1> DEFINE S == [type : {"PORT_MOD"}, xid : Nat]
<1>1. down = {} /\ \A n \in Switches : Pick(peer[n].log, S) = << >>
  BY DEF NoFalseAlarm, Got
<1>2. ASSUME down' = {}, \A n \in Switches : Pick(peer'[n].log, S) = << >>
      PROVE  NoFalseAlarm'
  BY <1>2 DEF NoFalseAlarm, Got
<1> HIDE DEF S
<1>3. CASE UNCHANGED <<peer, down>>
  BY <1>1, <1>2, <1>3
<1>4. ASSUME NEW i \in Switches, SwitchSays(i) PROVE NoFalseAlarm'
  <2>1. down' = down
    BY <1>4 DEF SwitchSays
  <2>2. \A n \in Switches : peer'[n].log = peer[n].log
    BY <1>4, SaysLog DEF SInv
  <2> QED
    BY <1>1, <1>2, <2>1, <2>2
<1>5. ASSUME NEW i \in Switches, SwitchReceives(i) PROVE NoFalseAlarm'
  <2> DEFINE N == [type : MsgType, xid : Nat]
             m == tx[i][1].msg
             log == peer[i].log
  <2>1. tx[i] # << >> /\ (down' = down \/ m.type = "PORT_MOD")
    BY <1>5 DEF SwitchReceives
  <2>2. m \in Message /\ m.type # "PORT_MOD"
    <3>1. PICK D : D = SetUp
      OBVIOUS
    <3> DEFINE st == tx[i]
    <3>2. st \in Seq(Outward(i, D)) /\ st # << >>
      BY <2>1, <3>1 DEF SInv, Content
    <3> HIDE DEF st
    <3>3. Len(st) \in Nat /\ Len(st) > 0
      BY <3>2, LenProperties, EmptySeq
    <3>4. st[1] \in Outward(i, D)
      BY <3>2, <3>3, ElementOfSeq
    <3>5. Calm(D)
      <4>1. D \subseteq Switches
        BY <3>1, ListFacts DEF SetUp, SInv
      <4> QED
        BY <4>1 DEF Calm
    <3> QED
      BY <3>4, <3>5 DEF Outward, Permitted, Cell, st
  <2>3. /\ peer'[i].log = Append(log, Note(m))
        /\ \A n \in Switches \ {i} : peer'[n].log = peer[n].log
    BY <1>5, ReceivesLog DEF SInv
  <2>4. log \in Seq(N)
    BY DEF SInv, TypeOK
  <2> HIDE DEF m, log
  <2>5. Note(m) \in N /\ Note(m).type # "PORT_MOD"
    BY <2>2 DEF Note, Message
  <2>6. Note(m) \notin S
    BY <2>5 DEF S
  <2> HIDE DEF N
  <2>7. Pick(Append(log, Note(m)), S) = Pick(log, S)
    BY <2>4, <2>5, <2>6, PickAppend, Zenon
  <2>8. Pick(peer'[i].log, S) = << >>
    BY <1>1, <2>3, <2>7, Zenon DEF log
  <2>9. \A n \in Switches : Pick(peer'[n].log, S) = << >>
    BY <1>1, <2>3, <2>8
  <2> QED
    BY <1>1, <1>2, <2>1, <2>2, <2>9
<1>6. \/ UNCHANGED <<peer, down>>
      \/ \E i \in Switches : SwitchReceives(i) \/ SwitchSays(i)
  BY DEF Next, Serve, Environment, Loop, Select, Accept, Serve_read, Serve_write,
         Sigpipe, Dangling, Sigint, Connect, Leave, vars, netVars
<1> QED
  BY <1>3, <1>4, <1>5, <1>6

(* In a network without loops, of any number of switches, no port is ever  *)
(* disabled and no switch told to: however the connections, the probes and *)
(* their reports cross, the lists the search walks through name two        *)
(* devices to each other or neither, and so it comes back to none          *)
(* (add_connection, loop_exists), whatever else than a forged probe the    *)
(* hosts send.                                                             *)
THEOREM AlarmsAreTrue ==
    ASSUME NoForgery, Loopless
    PROVE  Spec => []NoFalseAlarm
<1>1. Init => NoFalseAlarm
  BY PickEmpty DEF Init, NoFalseAlarm, Got
<1>2. SInv /\ NoFalseAlarm /\ [Next]_vars => NoFalseAlarm'
  BY AlarmStep
<1> QED
  BY <1>1, <1>2, SetUpInvariance, PTL DEF Spec

(* The search for loops is not lost in the graph of any network: whatever  *)
(* cables there are and in whatever order switches and probes come in, the *)
(* controller is killed only after a switch has left, or a frame of a host *)
(* has been entered as a link to no switch (recursive_loop_exists).        *)
THEOREM SearchNotLost ==
    ASSUME NoForgery
    PROVE  Spec => []SearchStays
<1>1. SInv => SearchStays
  BY DEF SInv
<1> QED
  BY <1>1, SetUpInvariance, PTL

=============================================================================
