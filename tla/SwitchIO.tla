------------------------------ MODULE SwitchIO ------------------------------
(***************************************************************************)
(* One connection of the controller: the struct of_switch and the          *)
(* functions of rw_packets.c and controller.c that read and write it.      *)
(* Every operator takes the record of a switch and returns the record the  *)
(* C function leaves behind; the modules that have variables               *)
(* (Session, Controller) decide when a function runs.                      *)
(*                                                                         *)
(* Bytes are abstracted to cells: a cell is one piece of a message, known  *)
(* by the message it belongs to and its position in it.  A header is HDR   *)
(* cells long.  Wrong cells in a buffer therefore stay visible: a header   *)
(* read from the middle of a message is a cell whose position is not 1.    *)
(***************************************************************************)
EXTENDS Integers, Sequences

CONSTANTS
    HDR,      \* sizeof(struct ofp_header), in cells
    BUF,      \* the size read_buffer and write_buffer are allocated with
    Size,     \* the length of each type of message the controller composes
    Garbage   \* the headers that misaligned bytes may be taken for

READ == "READ"
WRITE == "WRITE"
DISCONNECTED == "DISCONNECTED"

rw_status == {READ, WRITE, DISCONNECTED}

MsgType ==
    { "HELLO", "ERROR", "ECHO_REQUEST", "ECHO_REPLY", "FEATURES_REQUEST",
      "FEATURES_REPLY", "SET_CONFIG", "PACKET_IN", "FLOW_REMOVED",
      "PORT_STATUS", "PACKET_OUT", "FLOW_MOD", "PORT_MOD",
      "MULTIPART_REQUEST", "MULTIPART_REPLY" }

(* What the body of a message says, as far as the controller looks at it:  *)
(* "probe" and "host" are the two kinds of frame in a PACKET_IN whose      *)
(* reason is OFPR_NO_MATCH, "action" any other reason, "old" the version   *)
(* of a HELLO that is not 1.3, "named" a PORT_MOD with the hardware        *)
(* address of its port.  fd and port name a switch and a port; a           *)
(* MULTIPART_REPLY describes the ports 1 to port.                          *)
Info == { "none", "old", "probe", "host", "action", "named" }

Message ==
    [type : MsgType, len : Nat, xid : Nat, info : Info, fd : Nat, port : Nat]

Msg(t, l) ==
    [type |-> t, len |-> l, xid |-> 0, info |-> "none", fd |-> 0, port |-> 0]

(* A message the controller composes of its own accord.                    *)
Own(t) == Msg(t, Size[t])

Piece(m, i) == [msg |-> m, pos |-> i]

Cell == [msg : Message, pos : Nat]

Cells(m) == [i \in 1..m.len |-> Piece(m, i)]

(* A cleared byte: no part of any message.  Type 0 is OFPT_HELLO.          *)
Zero == Piece(Msg("HELLO", 0), 0)

ASSUME SizesAssumption ==
    /\ HDR \in Nat \ {0}
    /\ BUF \in Nat /\ BUF < 32768
    /\ Size \in [MsgType -> Nat]
    /\ \A t \in MsgType : HDR <= Size[t] /\ Size[t] <= BUF
    /\ 2 * Size["FLOW_MOD"] <= BUF
    /\ Garbage \subseteq Message

(* A switch compares the address in a PORT_MOD with the port's: with zeros *)
(* in its place the request is refused, and an error is what it answers.   *)
refuses(m) == m.type = "PORT_MOD" /\ m.info # "named"

(* The counters of struct of_switch are uint16_t.                          *)
uint16_t == {n \in Nat : n < 65536}
uint16(x) == x % 65536

(* The elements of the sequence st that are in S.  As a recursive function, *)
(* unlike SelectSeq, it has a value theorems can speak of.                 *)
Pick(st, S) ==
    LET pick[n \in 0..Len(st)] ==
          IF n = 0 THEN << >>
          ELSE IF st[n] \in S THEN Append(pick[n - 1], st[n]) ELSE pick[n - 1]
    IN  pick[Len(st)]

(* What a switch gets first: the HELLO of setup_new_switch and what        *)
(* handle_write_socket composes behind it.                                 *)
SetupTypes ==
    << "HELLO", "FEATURES_REQUEST", "SET_CONFIG", "MULTIPART_REQUEST",
       "FLOW_MOD", "FLOW_MOD" >>

-----------------------------------------------------------------------------
(* Buffers.  A buffer is the sequence of its cells: its length is          *)
(* read_buffer_size or write_buffer_size.                                  *)

calloc(n) == [i \in 1..n |-> Zero]

(* data copied to buf from offset off on, as recv and the casts to the     *)
(* ofp_ structures do it.  What is written behind the end of the buffer is *)
(* lost to the model and what is read there is 0: Fits says when neither   *)
(* happens.                                                                *)
Store(buf, off, data) ==
    [i \in 1..Len(buf) |-> IF i - off \in 1..Len(data) THEN data[i - off]
                                                       ELSE buf[i]]

Slice(buf, off, n) ==
    [i \in 1..n |-> IF off + i <= Len(buf) THEN buf[off + i] ELSE Zero]

memset(buf) == calloc(Len(buf))

resize_buffer(buf) == buf \o calloc(Len(buf))

-----------------------------------------------------------------------------
(* The record.  connected_ports is an array of 50 ofp_port, indexed by the *)
(* number of the port; what matters is which of them have been filled.     *)

of_switch ==
    [rw : rw_status, of_status : MsgType, reading_header : BOOLEAN,
     bytes_read : uint16_t, bytes_written : uint16_t, bytes_expected : uint16_t,
     read_buffer : Seq(Cell), write_buffer : Seq(Cell),
     features_requested : BOOLEAN, config_set : BOOLEAN,
     ports_requested : BOOLEAN, default_flow_set : BOOLEAN,
     connected_ports : SUBSET Nat]

(* An element of the calloc'ed switch_list nobody has used yet.            *)
unused_switch ==
    [rw |-> READ, of_status |-> "HELLO", reading_header |-> FALSE,
     bytes_read |-> 0, bytes_written |-> 0, bytes_expected |-> 0,
     read_buffer |-> << >>, write_buffer |-> << >>,
     features_requested |-> FALSE, config_set |-> FALSE,
     ports_requested |-> FALSE, default_flow_set |-> FALSE,
     connected_ports |-> {}]

(* A message composed at the start of the write buffer: the writers assign *)
(* bytes_expected and leave bytes_written alone.                           *)
Compose(s, m) ==
    [s EXCEPT !.write_buffer = Store(@, 0, Cells(m)), !.rw = WRITE,
              !.of_status = m.type, !.bytes_expected = uint16(m.len)]

(* A flow mod composed behind what bytes_expected already counts.          *)
ComposeMore(s, m) ==
    [s EXCEPT !.write_buffer = Store(@, s.bytes_expected, Cells(m)),
              !.rw = WRITE, !.of_status = m.type,
              !.bytes_expected = uint16(@ + m.len)]

request_features(s) == Compose(s, Own("FEATURES_REQUEST"))

set_config(s) == Compose(s, Own("SET_CONFIG"))

get_port_info(s) == Compose(s, Own("MULTIPART_REQUEST"))

write_default_miss(s) == ComposeMore(s, Own("FLOW_MOD"))

write_new_flow(s) == ComposeMore(s, Own("FLOW_MOD"))

(* fd is the socket of the probing switch: the frame's type field.         *)
send_probe_packet(s, fd) ==
    Compose(s, [Own("PACKET_OUT") EXCEPT !.info = "probe", !.fd = fd])

(* The address is zero if the switch has not described a port of that      *)
(* number.                                                                 *)
change_port_behavior(s, port) ==
    Compose(s, [Own("PORT_MOD") EXCEPT
                  !.port = port,
                  !.info = IF port \in s.connected_ports THEN "named" ELSE "none"])

(* A wrong version: the reply gets an xid of its own.                      *)
make_echo_reply_anew(s, m) ==
    [s EXCEPT
       !.write_buffer = Store(@, 0, Cells([m EXCEPT !.type = "ECHO_REPLY", !.xid = 0])),
       !.rw = WRITE, !.bytes_expected = uint16(m.len), !.bytes_read = 0]

(* The reply is as long as the request and has its xid; of_status keeps    *)
(* the request's type.                                                     *)
make_echo_reply(s, m) ==
    [s EXCEPT
       !.write_buffer = Store(@, 0, Cells([m EXCEPT !.type = "ECHO_REPLY"])),
       !.rw = WRITE, !.bytes_expected = uint16(m.len), !.bytes_read = 0]

write_openflow_hello(s) ==
    [s EXCEPT !.write_buffer = Store(@, 0, Cells(Own("HELLO"))),
              !.rw = WRITE, !.bytes_expected = uint16(Size["HELLO"])]

(* The part of setup_new_switch that fills the new element of switch_list. *)
new_switch ==
    write_openflow_hello(
      [unused_switch EXCEPT !.rw = WRITE, !.bytes_expected = HDR,
                            !.reading_header = TRUE,
                            !.read_buffer = calloc(BUF),
                            !.write_buffer = calloc(BUF)])

-----------------------------------------------------------------------------
(* Reading.                                                                *)

(* recv returned ret: the cells of data, none at the end of the stream     *)
(* (ret = 0), and -1 when the connection was reset.  The counters move by  *)
(* ret whatever it is.                                                     *)
read_from(s, ret, data) ==
    LET buf == IF Len(s.read_buffer) = s.bytes_read
               THEN resize_buffer(s.read_buffer) ELSE s.read_buffer
    IN  [s EXCEPT !.read_buffer = Store(buf, s.bytes_read, data),
                  !.bytes_read = uint16(@ + ret),
                  !.bytes_expected = uint16(@ - ret)]

(* What the first HDR cells of the read buffer are taken for.              *)
Header(s) ==
    IF Len(s.read_buffer) > 0 /\ s.read_buffer[1].pos = 1
    THEN {s.read_buffer[1].msg}
    ELSE Garbage

(* Wrong versions: the header's length is taken off twice, in signed       *)
(* arithmetic, and not at all.                                             *)
parse_header_twice(s, m) ==
    IF s.reading_header
    THEN [s EXCEPT !.of_status = m.type, !.reading_header = FALSE,
                   !.bytes_expected = m.len - 2 * HDR]
    ELSE s

parse_header_whole(s, m) ==
    IF s.reading_header
    THEN [s EXCEPT !.of_status = m.type, !.reading_header = FALSE,
                   !.bytes_expected = uint16(m.len)]
    ELSE s

parse_header(s, m) ==
    IF s.reading_header
    THEN [s EXCEPT !.of_status = m.type, !.reading_header = FALSE,
                   !.bytes_expected = uint16(m.len - HDR)]
    ELSE s

(* Wrong versions: bytes_read is not reset, and a writer is reset too.     *)
await_next_header_on(s) ==
    IF s.rw = WRITE THEN s
    ELSE [s EXCEPT !.bytes_expected = HDR, !.reading_header = TRUE,
                   !.read_buffer = memset(@)]

await_next_header_always(s) ==
    [s EXCEPT !.bytes_expected = HDR, !.reading_header = TRUE,
              !.bytes_read = 0, !.read_buffer = memset(@)]

(* The tail of handle_read_socket: back to the next header unless the      *)
(* message has made the controller a writer.                               *)
await_next_header(s) ==
    IF s.rw = WRITE THEN s
    ELSE [s EXCEPT !.bytes_expected = HDR, !.reading_header = TRUE,
                   !.bytes_read = 0, !.read_buffer = memset(@)]

(* The types handle_read_socket has a case for.                            *)
Known ==
    { "ECHO_REQUEST", "HELLO", "FEATURES_REPLY", "PACKET_IN",
      "MULTIPART_REPLY", "PORT_STATUS", "FLOW_REMOVED" }

(* A wrong version: a learned host gets a flow in one direction only.      *)
dispatch_one_flow(s, fd, m) ==
    CASE s.of_status = "ECHO_REQUEST"   -> make_echo_reply(s, m)
      [] s.of_status = "FEATURES_REPLY" -> send_probe_packet(s, fd)
      [] s.of_status = "PACKET_IN" /\ m.info = "host" -> write_new_flow(s)
      [] s.of_status \notin Known       -> [s EXCEPT !.rw = DISCONNECTED]
      [] OTHER                          -> s

(* The entries of the ports described are filled; others stay.             *)
save_connected_ports(s, m) == [s EXCEPT !.connected_ports = @ \cup 1..m.port]

(* What a complete message m does to the switch that sent it, fd.  The     *)
(* case is the one of of_status, which the header has set; a probe's       *)
(* effect on the network graph is the business of Controller.              *)
dispatch(s, fd, m) ==
    CASE s.of_status = "ECHO_REQUEST"   -> make_echo_reply(s, m)
      [] s.of_status = "MULTIPART_REPLY" -> save_connected_ports(s, m)
      [] s.of_status = "FEATURES_REPLY" -> send_probe_packet(s, fd)
      [] s.of_status = "PACKET_IN" /\ m.info = "host"
                                        -> write_new_flow(write_new_flow(s))
      [] s.of_status \notin Known       -> [s EXCEPT !.rw = DISCONNECTED]
      [] OTHER                          -> s

-----------------------------------------------------------------------------
(* Writing.                                                                *)

(* send returned ret: -1 when the peer is gone.                            *)
write_to(s, ret) ==
    LET buf == IF Len(s.write_buffer) = s.bytes_written
               THEN resize_buffer(s.write_buffer) ELSE s.write_buffer
    IN  [s EXCEPT !.write_buffer = buf,
                  !.bytes_written = uint16(@ + ret),
                  !.bytes_expected = uint16(@ - ret)]

(* Wrong versions of next_write, with what becomes of the record once the  *)
(* setup is complete as back.                                              *)
setup_or(s, back) ==
    IF ~s.features_requested
      THEN [request_features(s) EXCEPT !.features_requested = TRUE]
    ELSE IF ~s.config_set THEN [set_config(s) EXCEPT !.config_set = TRUE]
    ELSE IF ~s.ports_requested
      THEN [get_port_info(s) EXCEPT !.ports_requested = TRUE]
    ELSE IF ~s.default_flow_set
      THEN [write_default_miss(write_default_miss(s)) EXCEPT !.default_flow_set = TRUE]
    ELSE back

reads_again(s) ==
    [s EXCEPT !.rw = READ, !.bytes_expected = HDR, !.reading_header = TRUE,
              !.bytes_read = 0]

(* bytes_written is not reset ...                                          *)
next_write_on(s0) ==
    LET s == [s0 EXCEPT !.write_buffer = memset(@)] IN setup_or(s, reads_again(s))

(* ... bytes_read is not reset ...                                         *)
next_write_stale(s0) ==
    LET s == [s0 EXCEPT !.bytes_written = 0, !.write_buffer = memset(@)]
    IN  setup_or(s, [reads_again(s) EXCEPT !.bytes_read = s0.bytes_read])

(* ... the ports are requested before the configuration is set ...         *)
next_write_swapped(s0) ==
    LET s == [s0 EXCEPT !.bytes_written = 0, !.write_buffer = memset(@)]
    IN  IF s.features_requested /\ ~s.ports_requested
        THEN [get_port_info(s) EXCEPT !.ports_requested = TRUE]
        ELSE setup_or(s, reads_again(s))

(* ... the default flows are forgotten, or left until something else has   *)
(* been written.                                                           *)
next_write_no_flow(s0) ==
    LET s == [s0 EXCEPT !.bytes_written = 0, !.write_buffer = memset(@)]
    IN  IF s.ports_requested THEN reads_again(s) ELSE setup_or(s, s)

next_write_late_flow(s0) ==
    LET s == [s0 EXCEPT !.bytes_written = 0, !.write_buffer = memset(@)]
    IN  IF s.ports_requested /\ s.of_status = "MULTIPART_REQUEST"
        THEN reads_again(s) ELSE setup_or(s, reads_again(s))

(* The rest of handle_write_socket, once everything expected is written:   *)
(* the next of the four setup messages, or back to reading.                *)
next_write(s0) ==
    LET s == [s0 EXCEPT !.bytes_written = 0, !.write_buffer = memset(@)]
    IN  IF ~s.features_requested
          THEN [request_features(s) EXCEPT !.features_requested = TRUE]
        ELSE IF ~s.config_set
          THEN [set_config(s) EXCEPT !.config_set = TRUE]
        ELSE IF ~s.ports_requested
          THEN [get_port_info(s) EXCEPT !.ports_requested = TRUE]
        ELSE IF ~s.default_flow_set
          THEN [write_default_miss(write_default_miss(s))
                  EXCEPT !.default_flow_set = TRUE]
        ELSE [s EXCEPT !.rw = READ, !.bytes_expected = HDR,
                       !.reading_header = TRUE, !.bytes_read = 0]

handle_write_socket(s, ret) ==
    LET s1 == IF s.bytes_expected # 0 THEN write_to(s, ret) ELSE s
    IN  IF s1.bytes_expected # 0 THEN s1 ELSE next_write(s1)

-----------------------------------------------------------------------------
(* What the record has received, and what it still has to send.            *)

Received(s) == IF s.rw = READ THEN Slice(s.read_buffer, 0, s.bytes_read) ELSE << >>

Pending(s) ==
    IF s.rw = WRITE THEN Slice(s.write_buffer, s.bytes_written, s.bytes_expected)
                    ELSE << >>

(* The cell at i is the p-th of a complete copy of m.                      *)
Whole(st, i, m, p) ==
    /\ p \in 1..m.len
    /\ i - p \in Nat
    /\ i - p + m.len <= Len(st)
    /\ \A k \in 1..m.len : st[i - p + k] = Piece(m, k)

(* st is a concatenation of whole messages: each of its cells lies in a    *)
(* complete copy of the message it belongs to.                             *)
Framed(st) == \A i \in 1..Len(st) : Whole(st, i, st[i].msg, st[i].pos)

(* No counter points behind the end of its buffer.                         *)
Fits(s) ==
    /\ s.rw = READ => s.bytes_read + s.bytes_expected <= Len(s.read_buffer)
    /\ s.rw = WRITE => s.bytes_written + s.bytes_expected <= Len(s.write_buffer)

(* bytes_expected is what is missing of the header, or of the message      *)
(* whose header has been read and whose type of_status is; a writer has    *)
(* something to write.                                                     *)
Exact(s) ==
    /\ s.rw = READ =>
         /\ s.bytes_expected > 0
         /\ IF s.reading_header
            THEN s.bytes_read + s.bytes_expected = HDR
            ELSE /\ s.bytes_read + s.bytes_expected = s.read_buffer[1].msg.len
                 /\ s.of_status = s.read_buffer[1].msg.type
    /\ s.rw = WRITE => s.bytes_expected > 0

(* The buffers are those setup_new_switch allocated.                       *)
Allocated(s) == Len(s.read_buffer) = BUF /\ Len(s.write_buffer) = BUF

(* What holds of a record between two steps of its connection.             *)
SwitchInv(s) ==
    /\ Allocated(s)
    /\ Exact(s)
    /\ Fits(s)
    /\ s.rw = READ => /\ s.bytes_written = 0
                      /\ ~s.reading_header => HDR <= s.bytes_read
=============================================================================
