--------------------------- MODULE SessionProofs ---------------------------
(***************************************************************************)
(* The conversation with one switch, for every size of the header, of the  *)
(* buffers and of the messages.                                            *)
(* In the first part the switch says nothing longer than a buffer: the two *)
(* byte streams stay sequences of whole messages.  In the second it may:   *)
(* types and bytes_expected stay exact, and only a message longer than a   *)
(* buffer overruns one.  In the third, again with short messages: the six  *)
(* messages of the setup come first and in order, the session implements   *)
(* MessageServer, and echoes are answered in order with their own xids.    *)
(***************************************************************************)
EXTENDS Session, SwitchIOProofs

(* No message on its way to the controller is longer than l.               *)
Short(st, l) == \A i \in 1..Len(st) : HDR <= st[i].msg.len /\ st[i].msg.len <= l

(* The inductive invariant of a conversation in which nothing is longer    *)
(* than a buffer.                                                          *)
IInv ==
    /\ TypeOK
    /\ SwitchInv(sw)
    /\ InboundFraming
    /\ Short(Received(sw) \o sock, BUF)
    /\ OutboundFraming

(* What a handler that is done with a message leaves behind.               *)
Settled(s) == Loaded(s) \/ Fresh(s) \/ Dropped(s)

LEMMA SettledInv ==
    ASSUME NEW s, Settled(s)
    PROVE  /\ s \in of_switch /\ SwitchInv(s) /\ Received(s) = << >>
           /\ Pending(s) \in Seq(Cell) /\ Framed(Pending(s))
<1>1. CASE Loaded(s)
  <2>1. /\ s \in of_switch /\ SwitchInv(s) /\ s.rw = WRITE
        /\ Framed(Pending(s)) /\ Received(s) = << >>
    BY <1>1, LoadedInv
  <2>2. s.bytes_written + s.bytes_expected <= Len(s.write_buffer)
    BY <2>1 DEF SwitchInv, Fits
  <2> QED
    BY <2>1, <2>2, PendingFacts
<1>2. CASE Fresh(s)
  BY <1>2, FreshInv, FramedEmpty, EmptySeq
<1>3. CASE Dropped(s)
  BY <1>3, DroppedInv, FramedEmpty, EmptySeq
<1> QED
  BY <1>1, <1>2, <1>3 DEF Settled

LEMMA ShortConcat ==
    ASSUME NEW a \in Seq(Cell), NEW b \in Seq(Cell), NEW l
    PROVE  Short(a \o b, l) <=> Short(a, l) /\ Short(b, l)
<1> DEFINE c == a \o b
           Ok(x) == HDR <= x.msg.len /\ x.msg.len <= l
<1>1. /\ Len(a) \in Nat /\ Len(b) \in Nat /\ Len(c) = Len(a) + Len(b)
      /\ \A k \in 1..Len(a) : c[k] = a[k]
      /\ \A k \in 1..Len(b) : c[Len(a) + k] = b[k]
  BY ConcatFacts, Zenon
<1> HIDE DEF c
<1>2. /\ Short(a, l) <=> \A i \in 1..Len(a) : Ok(a[i])
      /\ Short(b, l) <=> \A i \in 1..Len(b) : Ok(b[i])
      /\ Short(c, l) <=> \A i \in 1..Len(c) : Ok(c[i])
  BY DEF Short
<1> HIDE DEF Ok
<1>3. ASSUME Short(c, l) PROVE Short(a, l) /\ Short(b, l)
  <2>1. \A i \in 1..Len(a) : i \in 1..Len(c)
    BY <1>1
  <2>2. \A i \in 1..Len(b) : Len(a) + i \in 1..Len(c)
    BY <1>1
  <2> QED
    BY <1>1, <1>2, <1>3, <2>1, <2>2
<1>4. ASSUME Short(a, l), Short(b, l) PROVE Short(c, l)
  <2> SUFFICES ASSUME NEW i \in 1..Len(c) PROVE Ok(c[i])
    BY <1>2
  <2>1. CASE i <= Len(a)
    <3>1. i \in 1..Len(a)
      BY <1>1, <2>1
    <3> QED
      BY <1>1, <1>2, <1>4, <3>1
  <2>2. CASE i > Len(a)
    <3>1. i - Len(a) \in 1..Len(b) /\ Len(a) + (i - Len(a)) = i
      BY <1>1, <2>2
    <3> QED
      BY <1>1, <1>2, <1>4, <3>1
  <2> QED
    BY <1>1, <2>1, <2>2
<1> QED
  BY <1>3, <1>4 DEF c

LEMMA ShortCells ==
    ASSUME NEW m \in Message, NEW l, HDR <= m.len, m.len <= l
    PROVE  Short(Cells(m), l)
<1>1. m.len \in Nat /\ Len(Cells(m)) = m.len
  BY MessageFields, CellsType
<1>2. \A i \in 1..m.len : Cells(m)[i].msg = m
  BY CellsType, PieceFields
<1> QED
  BY <1>1, <1>2 DEF Short

(* A complete copy of a short message behind a stream of such.             *)
LEMMA StreamGrows ==
    ASSUME NEW st \in Seq(Cell), NEW l, Framed(st), Short(st, l),
           NEW m \in Message, HDR <= m.len, m.len <= l
    PROVE  /\ st \o Cells(m) \in Seq(Cell)
           /\ Framed(st \o Cells(m)) /\ Short(st \o Cells(m), l)
BY CellsType, FramedCells, ShortCells, ShortConcat, FramedConcat, ConcatFacts

(* Nothing the switch says is longer than l.                               *)
Limit(l) ==
    /\ l \in Nat /\ BUF <= l
    /\ \A m \in SwitchMsg \cup {Hello} \cup {Replies[t] : t \in DOMAIN Replies} :
          HDR <= m.len /\ m.len <= l

LEMMA ShortLimit == ASSUME ShortMessages PROVE Limit(BUF)
BY SizeFacts, SwitchAssumption DEF SwitchAssumption, ShortMessages, Limit

-----------------------------------------------------------------------------
(* The invariant in the form the steps use: a reader has sent everything,  *)
(* a writer has nothing received.                                          *)

LEMMA InitIInv ==
    ASSUME ShortMessages, Init
    PROVE  IInv
<1>1. Settled(new_switch)
  BY NewSwitchLoaded DEF Settled
<1>2. /\ sw \in of_switch /\ SwitchInv(sw) /\ Received(sw) = << >>
      /\ Pending(sw) \in Seq(Cell) /\ Framed(Pending(sw))
  BY <1>1, SettledInv DEF Init
<1>3. Hello \in Message /\ HDR <= Hello.len /\ Hello.len <= BUF
  BY SwitchAssumption DEF SwitchAssumption, ShortMessages
<1>4. sock \in Seq(Cell) /\ Framed(sock) /\ Short(sock, BUF)
  BY <1>3, CellsType, FramedCells, ShortCells DEF Init
<1>5. << >> \o sock = sock /\ << >> \o Pending(sw) = Pending(sw) /\ << >> \in Seq(Cell)
  BY <1>2, <1>4, ConcatEmptySeq, EmptySeq
<1>6. TypeOK
  <2>1. peer \in [log : Seq([type : MsgType, xid : Nat]), asked : Nat, left : Nat]
    BY SwitchAssumption DEF SwitchAssumption, Init
  <2> QED
    BY <1>2, <1>4, <1>5, <2>1 DEF TypeOK, Init
<1>7. InboundFraming /\ Short(Received(sw) \o sock, BUF)
  BY <1>2, <1>4, <1>5 DEF InboundFraming
<1>8. OutboundFraming
  BY <1>2, <1>5 DEF OutboundFraming, Init
<1> QED
  BY <1>2, <1>6, <1>7, <1>8 DEF IInv

(* A handler that leaves a settled record and a framed stream.             *)
LEMMA Resettle ==
    ASSUME TypeOK, Settled(sw'), peer' = peer,
           sock' \in Seq(Cell), Framed(sock'), Short(sock', BUF),
           tx' \in Seq(Cell), Framed(tx')
    PROVE  IInv'
<1>1. /\ sw' \in of_switch /\ SwitchInv(sw') /\ Received(sw') = << >>
      /\ Pending(sw') \in Seq(Cell) /\ Framed(Pending(sw'))
  BY SettledInv
<1>2. << >> \o sock' = sock'
  BY ConcatEmptySeq
<1>3. TypeOK'
  BY <1>1 DEF TypeOK
<1>4. InboundFraming' /\ Short(Received(sw') \o sock', BUF)
  BY <1>1, <1>2 DEF InboundFraming
<1>5. OutboundFraming'
  BY <1>1, FramedConcat DEF OutboundFraming
<1> QED
  BY <1>1, <1>3, <1>4, <1>5 DEF IInv

LEMMA ReceivedType ==
    ASSUME NEW s \in of_switch, SwitchInv(s)
    PROVE  Received(s) \in Seq(Cell)
<1>1. CASE s.rw = READ
  <2>1. s.bytes_read \in Nat /\ s.bytes_expected \in Nat
    BY SwitchFields
  <2>2. s.bytes_read <= Len(s.read_buffer)
    BY <1>1, <2>1, SizeFacts DEF SwitchInv, Fits, Allocated
  <2> QED
    BY <1>1, <2>2, ReceivedFacts
<1>2. CASE s.rw # READ
  BY <1>2, NotReading, EmptySeq
<1> QED
  BY <1>1, <1>2

(* What the first cells of a stream say, seen from the read buffer.        *)
LEMMA HeaderIsFirst ==
    ASSUME NEW s \in of_switch, s.rw = READ, s.bytes_read <= Len(s.read_buffer),
           s.bytes_read > 0, NEW rest \in Seq(Cell),
           Framed(Received(s) \o rest), Short(Received(s) \o rest, BUF)
    PROVE  LET m == s.read_buffer[1].msg
           IN  /\ Header(s) = {m}
               /\ m \in Message /\ HDR <= m.len /\ m.len <= BUF
               /\ m = (Received(s) \o rest)[1].msg
<1> DEFINE v == Received(s)
           st == v \o rest
           m == s.read_buffer[1].msg
<1>1. /\ v \in Seq(Cell) /\ Len(v) = s.bytes_read
      /\ \A i \in 1..s.bytes_read : v[i] = s.read_buffer[i]
  BY ReceivedFacts
<1>2. s.bytes_read \in Nat /\ 1 \in 1..s.bytes_read /\ Len(s.read_buffer) > 0
  BY SwitchFields, LenProperties
<1> HIDE DEF v
<1>3. /\ st \in Seq(Cell) /\ Len(st) = Len(v) + Len(rest) /\ Len(rest) \in Nat
      /\ \A i \in 1..Len(v) : st[i] = v[i]
  BY <1>1, ConcatFacts, Zenon
<1>4. Framed(st) /\ Short(st, BUF)
  BY DEF v
<1> HIDE DEF st
<1>5. st[1] = s.read_buffer[1] /\ Len(st) > 0 /\ 1 \in 1..Len(st)
  BY <1>1, <1>2, <1>3
<1>6. st[1].msg \in Message /\ st[1].pos = 1
  BY <1>3, <1>4, <1>5, FramedFirst
<1>7. HDR <= st[1].msg.len /\ st[1].msg.len <= BUF
  BY <1>4, <1>5 DEF Short
<1>8. Header(s) = {m}
  BY <1>2, <1>5, <1>6 DEF Header
<1> QED
  BY <1>5, <1>6, <1>7, <1>8 DEF st, v

(* Taking a whole message off a stream.                                    *)
LEMMA TakeMessage ==
    ASSUME NEW a \in Seq(Cell), NEW b \in Seq(Cell), Framed(a \o b), Len(a) > 0,
           Len(a) = (a \o b)[1].msg.len
    PROVE  Framed(b) /\ \A l : Short(a \o b, l) => Short(b, l)
BY FramedRest, ShortConcat

LEMMA DispatchProbe ==
    ASSUME NEW s, NEW fd, NEW m, s.of_status = "PACKET_IN", m.info = "probe"
    PROVE  dispatch(s, fd, m) = s
BY Zenon DEF dispatch, Known

(* What handle_read_socket does to the stream and the record: either the   *)
(* record goes on reading the same stream, or the message in front has     *)
(* been taken off it and dispatched.                                       *)
LEMMA ReadShape ==
    ASSUME IInv, ReadStep
    PROVE  /\ sw.rw = READ /\ tx' = tx /\ peer' = peer /\ sock' \in Seq(Cell)
           /\ \/ /\ sw' \in of_switch /\ SwitchInv(sw') /\ sw'.rw = READ
                 /\ Received(sw') \o sock' = Received(sw) \o sock
              \/ \E m \in Message, s \in of_switch :
                   /\ HDR <= m.len /\ m.len <= BUF
                   /\ Received(sw) \o sock = Cells(m) \o sock'
                   /\ Ready(s) /\ s.rw = READ /\ s.bytes_expected = 0
                   /\ s.of_status = m.type
                   /\ \/ sw' = await_next_header(dispatch(s, SwitchFd, m))
                      \/ /\ m.type = "PACKET_IN" /\ m.info = "probe"
                         /\ sw' = change_port_behavior(s, m.port)
<1>1. PICK n \in 1..Len(sock) :
        /\ n <= sw.bytes_expected
        /\ LET s1 == read_from(sw, n, SubSeq(sock, 1, n))
           IN  IF s1.bytes_expected # 0
               THEN sw' = s1
               ELSE \E m \in Header(s1) :
                      LET s2 == parse_header(s1, m)
                          s3 == dispatch(s2, SwitchFd, m)
                      IN  IF s2.bytes_expected # 0
                          THEN sw' = s2
                          ELSE \/ sw' = await_next_header(s3)
                               \/ /\ s2.of_status = "PACKET_IN" /\ m.info = "probe"
                                  /\ sw' = change_port_behavior(s3, m.port)
        /\ sock' = SubSeq(sock, n + 1, Len(sock))
  BY Zenon DEF ReadStep
<1> DEFINE s1 == read_from(sw, n, SubSeq(sock, 1, n))
           rest == SubSeq(sock, n + 1, Len(sock))
           st == Received(sw) \o sock
<1>2. /\ sw.rw = READ /\ tx' = tx /\ peer' = peer /\ sock' = rest
  BY <1>1 DEF ReadStep
<1>3. /\ sw \in of_switch /\ SwitchInv(sw) /\ sock \in Seq(Cell) /\ tx \in Seq(Cell)
      /\ Framed(st) /\ Short(st, BUF) /\ TypeOK
  BY DEF IInv, TypeOK, InboundFraming
<1>4. /\ s1 \in of_switch /\ s1.rw = READ /\ Allocated(s1)
      /\ s1.of_status = sw.of_status
      /\ s1.reading_header = sw.reading_header
      /\ s1.bytes_written = 0
      /\ s1.bytes_read = sw.bytes_read + n
      /\ s1.bytes_expected = sw.bytes_expected - n
      /\ s1.bytes_read <= Len(s1.read_buffer)
      /\ sw.bytes_read > 0 => s1.read_buffer[1] = sw.read_buffer[1]
      /\ Received(s1) \o rest = st
  BY <1>1, <1>2, <1>3, Recv, Zenon
<1>5. rest \in Seq(Cell) /\ n \in Nat /\ n >= 1
  BY <1>1, <1>3, SplitSeq
<1>6. sw.rw # WRITE /\ s1.rw # WRITE
  BY <1>2, <1>4, Constants
<1>8. \/ s1.bytes_expected # 0 /\ sw' = s1
      \/ /\ s1.bytes_expected = 0
         /\ \E m \in Header(s1) :
              LET s2 == parse_header(s1, m)
                  s3 == dispatch(s2, SwitchFd, m)
              IN  IF s2.bytes_expected # 0
                  THEN sw' = s2
                  ELSE \/ sw' = await_next_header(s3)
                       \/ /\ s2.of_status = "PACKET_IN" /\ m.info = "probe"
                          /\ sw' = change_port_behavior(s3, m.port)
  BY <1>1, Zenon
<1> HIDE DEF s1, rest, st
<1>9. /\ sw.bytes_expected \in Nat /\ sw.bytes_read \in Nat
      /\ n <= sw.bytes_expected /\ s1.bytes_expected \in Nat
      /\ s1.bytes_read \in Nat /\ s1.bytes_read > 0
  BY <1>1, <1>3, <1>4, <1>5, SwitchFields
<1>10. /\ sw.reading_header => sw.bytes_read + sw.bytes_expected = HDR
       /\ ~sw.reading_header =>
            /\ sw.bytes_read + sw.bytes_expected = sw.read_buffer[1].msg.len
            /\ sw.of_status = sw.read_buffer[1].msg.type
            /\ HDR <= sw.bytes_read
       /\ sw.bytes_read + sw.bytes_expected <= BUF
  BY <1>2, <1>3 DEF SwitchInv, Exact, Fits, Allocated
<1>11. s1.bytes_read + s1.bytes_expected = sw.bytes_read + sw.bytes_expected
  BY <1>4, <1>5, <1>9
<1>12. ~sw.reading_header => sw.bytes_read > 0 /\ s1.read_buffer[1] = sw.read_buffer[1]
  BY <1>4, <1>9, <1>10, SizeFacts
(* The record with the new cells, as far as Exact looks at it.             *)
<1>16. /\ s1.reading_header = sw.reading_header
       /\ s1.reading_header => s1.bytes_read + s1.bytes_expected = HDR
       /\ ~s1.reading_header =>
            /\ s1.bytes_read + s1.bytes_expected = s1.read_buffer[1].msg.len
            /\ s1.of_status = s1.read_buffer[1].msg.type
            /\ HDR <= s1.bytes_read
  <2>1. /\ s1.reading_header = sw.reading_header /\ s1.of_status = sw.of_status
        /\ s1.bytes_read = sw.bytes_read + n
    BY <1>4
  <2>2. HDR <= sw.bytes_read => HDR <= s1.bytes_read
    BY <1>5, <1>9, <2>1, SizeFacts
  <2>3. ~sw.reading_header => s1.read_buffer[1] = sw.read_buffer[1]
    BY <1>12
  <2> QED
    BY <1>10, <1>11, <2>1, <2>2, <2>3
<1>7. sock' \in Seq(Cell)
  BY <1>2, <1>5
<1>13. ASSUME NEW u \in of_switch, sw' = u, u.rw = READ, SwitchInv(u),
              Received(u) = Received(s1)
       PROVE  Received(sw') \o sock' = Received(sw) \o sock
  BY <1>2, <1>4, <1>13 DEF st
<1>14. CASE s1.bytes_expected # 0 /\ sw' = s1
  <2>1. Exact(s1)
    BY <1>6, <1>9, <1>14, <1>16 DEF Exact
  <2>2. Fits(s1)
    BY <1>4, <1>6, <1>10, <1>11 DEF Fits, Allocated
  <2>4. SwitchInv(s1)
    BY <1>4, <1>16, <2>1, <2>2 DEF SwitchInv
  <2> QED
    BY <1>2, <1>4, <1>7, <1>13, <1>14, <2>4
<1>15. CASE s1.bytes_expected = 0 /\ ~(sw' = s1 /\ s1.bytes_expected # 0)
  <2> DEFINE m == s1.read_buffer[1].msg
             s2 == parse_header(s1, m)
             s3 == dispatch(s2, SwitchFd, m)
  <2>1. /\ Header(s1) = {m} /\ m \in Message /\ HDR <= m.len /\ m.len <= BUF
        /\ m = st[1].msg
    BY <1>3, <1>4, <1>5, <1>9, HeaderIsFirst
  <2>2. IF s2.bytes_expected # 0
        THEN sw' = s2
        ELSE \/ sw' = await_next_header(s3)
             \/ /\ s2.of_status = "PACKET_IN" /\ m.info = "probe"
                /\ sw' = change_port_behavior(s3, m.port)
    BY <1>8, <1>15, <2>1, Zenon
  <2> HIDE DEF m
  <2>3. /\ s2 \in of_switch
        /\ s2.rw = s1.rw
        /\ ~s2.reading_header
        /\ s2.bytes_read = s1.bytes_read
        /\ s2.bytes_written = s1.bytes_written
        /\ s2.read_buffer = s1.read_buffer /\ s2.write_buffer = s1.write_buffer
        /\ s1.reading_header => s2.of_status = m.type
                                /\ s2.bytes_expected = uint16(m.len - HDR)
        /\ ~s1.reading_header => s2 = s1
    BY <1>4, <2>1, ParseHeaderFields, Zenon
  <2> HIDE DEF s2
  <2>4. m.len \in Nat /\ m.len - HDR \in Nat /\ m.len - HDR < 65536
    BY <2>1, MessageFields, SizeFacts
  <2>5. uint16(m.len - HDR) = m.len - HDR
    BY <2>4, uint16Small
  <2>6. s2.bytes_read + s2.bytes_expected = m.len /\ s2.of_status = m.type
    <3>1. CASE s1.reading_header
      <4>1. s2.bytes_expected = m.len - HDR /\ s2.of_status = m.type
        BY <2>3, <2>5, <3>1
      <4>2. s2.bytes_read = HDR
        BY <1>9, <1>15, <1>16, <2>3, <3>1
      <4>3. HDR \in Nat /\ m.len \in Nat
        BY <2>4, SizeFacts
      <4> QED
        BY <4>1, <4>2, <4>3
    <3>2. CASE ~s1.reading_header
      BY <1>16, <2>3, <3>2 DEF m
    <3> QED
      BY <3>1, <3>2
  <2>7. Received(s2) = Received(s1) /\ s2.rw # WRITE /\ s2.rw = READ
    BY <1>4, <1>6, <2>3 DEF Received
  <2>8. s2.bytes_expected \in Nat
    BY <2>3, SwitchFields
  <2>9. CASE s2.bytes_expected # 0
    <3>1. sw' = s2
      BY <2>2, <2>9
    <3>2. s1.reading_header /\ HDR <= s1.bytes_read
      BY <1>9, <1>15, <1>16, <2>3, <2>9, SizeFacts
    <3>3. Exact(s2)
      BY <2>3, <2>6, <2>7, <2>8, <2>9 DEF Exact, m
    <3>4. Fits(s2)
      BY <1>4, <2>1, <2>3, <2>6, <2>7 DEF Fits, Allocated
    <3>5. SwitchInv(s2)
      BY <1>4, <2>3, <3>2, <3>3, <3>4 DEF SwitchInv, Allocated
    <3> QED
      BY <1>2, <1>7, <1>13, <2>3, <2>7, <3>1, <3>5
  <2>10. CASE s2.bytes_expected = 0
    <3>1. /\ Received(s1) \in Seq(Cell) /\ Len(Received(s1)) = s1.bytes_read
      BY <1>4, ReceivedFacts
    <3>2. Len(Received(s1)) = m.len
      BY <1>9, <2>3, <2>4, <2>6, <2>10, <3>1
    <3>3. Received(sw) \o sock = Cells(m) \o sock'
      <4> DEFINE v == Received(s1)
                 c == Cells(m)
      <4>1. /\ v \in Seq(Cell) /\ Len(v) = m.len /\ v \o rest = st
        BY <1>4, <3>1, <3>2
      <4>2. /\ c \in Seq(Cell) /\ Len(c) = m.len
            /\ \A i \in 1..m.len : c[i] = Piece(m, i)
        BY <2>1, CellsType
      <4> HIDE DEF v, c
      <4>3. /\ st \in Seq(Cell) /\ Len(st) = Len(v) + Len(rest) /\ Len(rest) \in Nat
            /\ \A i \in 1..Len(v) : st[i] = v[i]
        BY <1>5, <4>1, ConcatFacts
      <4>7. m.len \in Nat /\ m.len > 0
        BY <2>1, <2>4, SizeFacts
      <4>4. Len(st) > 0
        BY <4>1, <4>3, <4>7
      <4>5. \A i \in 1..m.len : st[i] = Piece(m, i)
        BY <1>3, <2>1, <4>3, <4>4, FramedFirst
      <4>6. v = c
        BY <4>1, <4>2, <4>3, <4>5, SeqEqual
      <4> QED
        BY <1>2, <4>1, <4>6 DEF st, c
    <3>4. Ready(s2)
      <4>1. s2.bytes_written = 0 /\ Allocated(s2)
        BY <1>4, <2>3 DEF Allocated
      <4> QED
        BY <2>3, <4>1 DEF Ready
    <3>5. \/ sw' = await_next_header(dispatch(s2, SwitchFd, m))
          \/ /\ m.type = "PACKET_IN" /\ m.info = "probe"
             /\ sw' = change_port_behavior(s2, m.port)
      BY <2>2, <2>6, <2>10, DispatchProbe, Zenon
    <3> QED
      BY <1>2, <1>7, <2>1, <2>3, <2>6, <2>7, <2>10, <3>3, <3>4, <3>5, Zenon
  <2> QED
    BY <2>9, <2>10
<1> QED
  BY <1>8, <1>14, <1>15

LEMMA ReadStepIInv ==
    ASSUME IInv, ReadStep
    PROVE  IInv'
<1> DEFINE st == Received(sw) \o sock
<1>1. /\ sw.rw # WRITE /\ tx' = tx /\ peer' = peer /\ sock' \in Seq(Cell)
  BY ReadShape, Constants
<1>2. /\ tx \in Seq(Cell) /\ Framed(st) /\ Short(st, BUF) /\ TypeOK
      /\ Framed(tx \o Pending(sw))
  BY DEF IInv, TypeOK, InboundFraming, OutboundFraming
<1>3. Framed(tx)
  BY <1>1, <1>2, NotWriting, ConcatEmptySeq
(* A record that goes on reading the same stream.                          *)
<1>4. CASE /\ sw' \in of_switch /\ SwitchInv(sw') /\ sw'.rw = READ
           /\ Received(sw') \o sock' = st
  <2>1. sw'.rw # WRITE
    BY <1>4, Constants
  <2>2. TypeOK'
    BY <1>1, <1>2, <1>4 DEF TypeOK
  <2>3. InboundFraming' /\ Short(Received(sw') \o sock', BUF)
    BY <1>2, <1>4 DEF InboundFraming
  <2>4. OutboundFraming'
    BY <1>1, <1>2, <1>3, <2>1, NotWriting, ConcatEmptySeq DEF OutboundFraming
  <2> QED
    BY <1>4, <2>2, <2>3, <2>4 DEF IInv
<1>5. ASSUME NEW m \in Message, NEW s \in of_switch,
             HDR <= m.len, m.len <= BUF, st = Cells(m) \o sock',
             Ready(s), s.rw = READ, s.bytes_expected = 0,
             \/ sw' = await_next_header(dispatch(s, SwitchFd, m))
             \/ /\ m.type = "PACKET_IN" /\ m.info = "probe"
                /\ sw' = change_port_behavior(s, m.port)
      PROVE  IInv'
  <2>1. 1 <= m.len /\ m.port \in Nat /\ m.len \in Nat
    BY <1>5, SizeFacts DEF Message
  <2>2. Framed(sock') /\ Short(sock', BUF)
    <3> DEFINE c == Cells(m)
    <3>1. c \in Seq(Cell) /\ Len(c) = m.len /\ c[1].msg = m
      BY <2>1, CellsType, PieceFields
    <3> HIDE DEF c
    <3>2. Len(c) > 0 /\ Len(c) = (c \o sock')[1].msg.len
      BY <1>1, <2>1, <3>1, ConcatFacts
    <3> QED
      BY <1>1, <1>2, <1>5, <3>1, <3>2, TakeMessage DEF c
  <2>3. SwitchFd \in Nat
    BY SwitchAssumption DEF SwitchAssumption
  <2>4. Settled(sw')
    <3>1. CASE sw' = await_next_header(dispatch(s, SwitchFd, m))
      BY <1>5, <2>1, <2>3, <3>1, DispatchLeaves DEF Settled
    <3>2. CASE sw' = change_port_behavior(s, m.port)
      BY <1>5, <2>1, <3>2, PortModLoaded DEF Settled
    <3> QED
      BY <1>5, <3>1, <3>2
  <2> QED
    BY <1>1, <1>2, <1>3, <2>2, <2>4, Resettle
<1> QED
  BY <1>4, <1>5, ReadShape

LEMMA WriteStepIInv ==
    ASSUME IInv, WriteStep
    PROVE  IInv'
<1>1. PICK n \in 1..sw.bytes_expected :
        /\ sw' = handle_write_socket(sw, n)
        /\ tx' = tx \o SubSeq(Pending(sw), 1, n)
  BY Zenon DEF WriteStep
<1> DEFINE t == write_to(sw, n)
           p == Pending(sw)
           a == SubSeq(p, 1, n)
           q == Pending(t)
<1>2. sw.rw = WRITE /\ sock' = sock /\ peer' = peer
  BY DEF WriteStep
<1>3. /\ sw \in of_switch /\ SwitchInv(sw) /\ sock \in Seq(Cell) /\ tx \in Seq(Cell)
      /\ TypeOK /\ Framed(tx \o p)
  BY DEF IInv, TypeOK, OutboundFraming
<1>4. /\ t \in of_switch /\ t.rw = WRITE /\ Allocated(t)
      /\ t.bytes_written = sw.bytes_written + n
      /\ t.bytes_expected = sw.bytes_expected - n
      /\ p \in Seq(Cell) /\ q \in Seq(Cell) /\ a \in Seq(Cell)
      /\ a \o q = p
  BY <1>1, <1>2, <1>3, Send, Zenon
<1>5. sw.rw # READ /\ t.rw # READ
  BY <1>2, <1>4, Constants
<1>6. /\ Received(sw) = << >> /\ Received(t) = << >>
      /\ << >> \o sock = sock
  BY <1>3, <1>5, NotReading, ConcatEmptySeq
<1>7. Framed(sock) /\ Short(sock, BUF)
  BY <1>6 DEF IInv, InboundFraming
<1>8. tx' = tx \o a /\ tx' \in Seq(Cell)
  BY <1>1, <1>3, <1>4, ConcatFacts
<1>9. tx' \o q = tx \o p
  <2>1. tx \in Seq(Cell) /\ a \in Seq(Cell) /\ q \in Seq(Cell)
    BY <1>3, <1>4
  <2>2. a \o q = p
    BY <1>4
  <2> HIDE DEF a, q, p
  <2>3. (tx \o a) \o q = tx \o (a \o q)
    BY <2>1, ConcatCells, Zenon
  <2> QED
    BY <1>8, <2>2, <2>3, Zenon
<1>10. sw.bytes_expected \in Nat /\ n \in Nat /\ n >= 1 /\ sw.bytes_expected # 0
  BY <1>1, <1>3, SwitchFields
<1>11. sw' = IF t.bytes_expected # 0 THEN t ELSE next_write(t)
  BY <1>1, <1>10, Zenon DEF handle_write_socket
<1> HIDE DEF t, p, a, q
<1>12. CASE t.bytes_expected # 0
  <2>1. t.bytes_expected \in Nat /\ t.bytes_expected > 0
    BY <1>4, <1>12, SwitchFields
  <2>2. /\ sw.bytes_written + sw.bytes_expected <= Len(t.write_buffer)
        /\ sw.bytes_written \in Nat
    BY <1>2, <1>3, <1>4, SwitchFields DEF SwitchInv, Fits, Allocated
  <2>3. t.bytes_written + t.bytes_expected = sw.bytes_written + sw.bytes_expected
    BY <1>4, <1>10, <2>2
  <2>4. SwitchInv(t)
    BY <1>4, <1>5, <2>1, <2>2, <2>3 DEF SwitchInv, Exact, Fits
  <2>5. sw' = t
    BY <1>11, <1>12
  <2>6. TypeOK'
    BY <1>2, <1>3, <1>4, <1>8, <2>5 DEF TypeOK
  <2>7. InboundFraming' /\ Short(Received(sw') \o sock', BUF)
    BY <1>2, <1>6, <1>7, <2>5 DEF InboundFraming
  <2>8. OutboundFraming'
    BY <1>3, <1>9, <2>5 DEF OutboundFraming, q
  <2> QED
    BY <2>4, <2>5, <2>6, <2>7, <2>8 DEF IInv
<1>13. CASE t.bytes_expected = 0
  <2>1. sw' = next_write(t)
    BY <1>11, <1>13
  <2>2. Settled(sw')
    BY <1>4, <1>13, <2>1, NextWriteLoaded DEF Settled
  <2>3. 0 \in Nat /\ t.bytes_written + t.bytes_expected <= Len(t.write_buffer)
    <3>1. /\ sw.bytes_written + sw.bytes_expected <= Len(t.write_buffer)
          /\ sw.bytes_written \in Nat
      BY <1>2, <1>3, <1>4, SwitchFields DEF SwitchInv, Fits, Allocated
    <3> QED
      BY <1>4, <1>10, <3>1
  <2>4. q \in Seq(Cell) /\ Len(q) = 0
    BY <1>4, <1>13, <2>3, PendingFacts DEF q
  <2>5. q = << >>
    BY <2>4, EmptySeq
  <2>6. tx' = tx \o p
    BY <1>8, <1>9, <2>5, ConcatEmptySeq
  <2>7. Framed(tx')
    BY <1>3, <2>6
  <2> QED
    BY <1>2, <1>3, <1>7, <1>8, <2>2, <2>7, Resettle
<1> QED
  BY <1>12, <1>13

(* What the switch sends behind a framed stream, when it answers ...       *)
LEMMA AnswerFramed ==
    ASSUME NEW l, Limit(l), TypeOK, NEW v \in Seq(Cell),
           Framed(v \o sock), Short(v \o sock, l), SwitchReceives
    PROVE  /\ sw' = sw /\ TypeOK'
           /\ Framed(v \o sock') /\ Short(v \o sock', l)
<1> DEFINE m == tx[1].msg
<1>1. /\ tx # << >> /\ m.len <= Len(tx) /\ sw' = sw
      /\ tx' = SubSeq(tx, m.len + 1, Len(tx))
      /\ sock' = sock \o Response(m)
      /\ peer' = [peer EXCEPT !.log = Append(@, Note(m))]
  BY DEF SwitchReceives
<1>2. /\ sw \in of_switch /\ sock \in Seq(Cell) /\ tx \in Seq(Cell)
      /\ peer \in [log : Seq([type : MsgType, xid : Nat]), asked : Nat, left : Nat]
  BY DEF TypeOK
<1>3. Len(tx) \in Nat /\ Len(tx) > 0
  BY <1>1, <1>2, EmptySeq
<1>4. m \in Message /\ m.len \in Nat
  <2>1. 1 \in 1..Len(tx)
    BY <1>3
  <2> QED
    BY <1>2, <2>1, CellFields
<1>5. tx' \in Seq(Cell)
  <2>1. CASE m.len = 0
    <3>1. tx' = SubSeq(tx, 1, Len(tx))
      BY <1>1, <2>1
    <3> QED
      BY <1>2, <1>3, <3>1, SplitSeq
  <2>2. CASE m.len # 0
    <3>1. m.len \in 1..Len(tx)
      BY <1>1, <1>3, <1>4, <2>2
    <3> QED
      BY <1>1, <1>2, <3>1, SplitSeq
  <2> QED
    BY <2>1, <2>2
<1>6. ASSUME NEW r \in Message, HDR <= r.len, r.len <= l, Response(m) = Cells(r)
      PROVE  sock' \in Seq(Cell) /\ Framed(v \o sock') /\ Short(v \o sock', l)
  <2> DEFINE c == Cells(r)
  <2>1. c \in Seq(Cell) /\ sock' = sock \o c
    BY <1>1, <1>6, CellsType
  <2>2. sock' \in Seq(Cell) /\ v \o sock' = (v \o sock) \o c /\ v \o sock \in Seq(Cell)
    <3> HIDE DEF c
    <3>1. sock' \in Seq(Cell) /\ v \o sock \in Seq(Cell)
      BY <1>2, <2>1, ConcatFacts
    <3>2. (v \o sock) \o c = v \o (sock \o c)
      BY <1>2, <2>1, ConcatCells, ZenonT(60)
    <3> QED
      BY <2>1, <3>1, <3>2, Zenon
  <2>3. Framed((v \o sock) \o c) /\ Short((v \o sock) \o c, l)
    BY <1>6, <2>2, StreamGrows
  <2> QED
    BY <2>2, <2>3
<1>7. sock' \in Seq(Cell) /\ Framed(v \o sock') /\ Short(v \o sock', l)
  <2>1. CASE Response(m) = << >>
    BY <1>1, <1>2, <2>1, ConcatEmptySeq
  <2>2. CASE m.type \in DOMAIN Replies
    <3>1. /\ Replies[m.type] \in Message
          /\ HDR <= Replies[m.type].len /\ Replies[m.type].len <= l
      BY <2>2, SwitchAssumption DEF SwitchAssumption, Limit
    <3> QED
      BY <1>6, <2>2, <3>1 DEF Response
  <2>3. CASE m.type \notin DOMAIN Replies /\ refuses(m)
    <3>1. "ERROR" \in MsgType
      BY DEF MsgType
    <3>2. /\ Own("ERROR") \in Message
          /\ HDR <= Own("ERROR").len /\ Own("ERROR").len <= BUF
      BY <3>1, OwnFields, SizesAssumption
    <3>3. Own("ERROR").len <= l
      <4>1. Own("ERROR").len \in Nat /\ BUF \in Nat /\ l \in Nat /\ BUF <= l
        BY <3>2, SizeFacts, MessageFields DEF Limit
      <4> QED
        BY <3>2, <4>1
    <3> QED
      BY <1>6, <2>3, <3>2, <3>3 DEF Response
  <2>4. CASE m.type \notin DOMAIN Replies /\ ~refuses(m)
    BY <2>1, <2>4 DEF Response
  <2> QED
    BY <2>2, <2>3, <2>4
<1>8. peer' \in [log : Seq([type : MsgType, xid : Nat]), asked : Nat, left : Nat]
  <2>1. Note(m) \in [type : MsgType, xid : Nat]
    BY <1>4 DEF Message, Note
  <2>2. Append(peer.log, Note(m)) \in Seq([type : MsgType, xid : Nat])
    BY <1>2, <2>1, AppendProperties
  <2> QED
    BY <1>1, <1>2, <2>2
<1> QED
  BY <1>1, <1>2, <1>5, <1>7, <1>8 DEF TypeOK

(* ... and when it speaks of its own accord.                               *)
LEMMA TalkFramed ==
    ASSUME NEW l, Limit(l), TypeOK, NEW v \in Seq(Cell),
           Framed(v \o sock), Short(v \o sock, l), SwitchSays
    PROVE  /\ sw' = sw /\ tx' = tx /\ TypeOK'
           /\ Framed(v \o sock') /\ Short(v \o sock', l)
<1>1. PICK m \in SwitchMsg :
        LET asked == peer.asked + (IF m.type = "ECHO_REQUEST" THEN 1 ELSE 0)
        IN  /\ sock' = sock \o Cells([m EXCEPT !.xid = asked])
            /\ peer' = [peer EXCEPT !.asked = asked, !.left = @ - 1]
  BY Zenon DEF SwitchSays
<1> DEFINE asked == peer.asked + (IF m.type = "ECHO_REQUEST" THEN 1 ELSE 0)
           r == [m EXCEPT !.xid = asked]
           c == Cells(r)
<1>2. /\ sw' = sw /\ tx' = tx /\ peer.left > 0
      /\ sock' = sock \o c
      /\ peer' = [peer EXCEPT !.asked = asked, !.left = @ - 1]
  BY <1>1 DEF SwitchSays
<1>3. /\ sw \in of_switch /\ sock \in Seq(Cell) /\ tx \in Seq(Cell)
      /\ peer \in [log : Seq([type : MsgType, xid : Nat]), asked : Nat, left : Nat]
  BY DEF TypeOK
<1>5. m \in Message /\ HDR <= m.len /\ m.len <= l
  BY SwitchAssumption DEF SwitchAssumption, Limit
<1>6. asked \in Nat /\ peer.left - 1 \in Nat
  BY <1>2, <1>3
<1>7. r \in Message /\ r.len = m.len
  <2> HIDE DEF asked
  <2> QED
    BY <1>5, <1>6, Zenon DEF Message
<1>8. peer' \in [log : Seq([type : MsgType, xid : Nat]), asked : Nat, left : Nat]
  <2> DEFINE k == peer.left - 1
  <2>1. peer' = [peer EXCEPT !.asked = asked, !.left = k] /\ k \in Nat
    BY <1>2, <1>6
  <2> HIDE DEF asked, k
  <2> QED
    BY <1>3, <1>6, <2>1, Zenon
<1> HIDE DEF r
<1>9. HDR <= r.len /\ r.len <= l
  BY <1>5, <1>7
<1>10. c \in Seq(Cell)
  BY <1>7, CellsType
<1>11. sock' \in Seq(Cell) /\ v \o sock' = (v \o sock) \o c /\ v \o sock \in Seq(Cell)
  <2>1. sock' = sock \o c
    BY <1>2
  <2> HIDE DEF c
  <2> QED
    BY <1>3, <1>10, <2>1, ConcatFacts, ConcatCells, ZenonT(60)
<1>12. Framed((v \o sock) \o c) /\ Short((v \o sock) \o c, l)
  BY <1>7, <1>9, <1>11, StreamGrows
<1>13. TypeOK'
  BY <1>2, <1>3, <1>8, <1>11 DEF TypeOK
<1> QED
  BY <1>2, <1>11, <1>12, <1>13

LEMMA SwitchReceivesIInv ==
    ASSUME ShortMessages, IInv, SwitchReceives
    PROVE  IInv'
<1> DEFINE m == tx[1].msg
           p == Pending(sw)
           v == Received(sw)
           a == SubSeq(tx, 1, m.len)
           b == SubSeq(tx, m.len + 1, Len(tx))
<1>1. tx # << >> /\ m.len <= Len(tx) /\ tx' = b
  BY DEF SwitchReceives
<1>2. /\ sw \in of_switch /\ SwitchInv(sw) /\ tx \in Seq(Cell) /\ TypeOK
      /\ Framed(tx \o p)
      /\ Framed(v \o sock) /\ Short(v \o sock, BUF)
  BY DEF IInv, TypeOK, OutboundFraming, InboundFraming
<1>3. p \in Seq(Cell) /\ v \in Seq(Cell)
  <2>1. p \in Seq(Cell)
    <3>1. CASE sw.rw = WRITE
      BY <1>2, <3>1, PendingFacts DEF SwitchInv, Fits
    <3>2. CASE sw.rw # WRITE
      BY <3>2, NotWriting, EmptySeq
    <3> QED
      BY <3>1, <3>2
  <2>2. v \in Seq(Cell)
    BY <1>2, ReceivedType
  <2> QED
    BY <2>1, <2>2
<1> HIDE DEF p, v
<1>4. sw' = sw /\ TypeOK' /\ Framed(v \o sock') /\ Short(v \o sock', BUF)
  BY <1>2, <1>3, ShortLimit, AnswerFramed
<1>5. /\ Len(tx) \in Nat /\ 1 \in 1..Len(tx) /\ tx[1] = (tx \o p)[1] /\ Len(tx \o p) > 0
      /\ tx \o p \in Seq(Cell)
  <2>1. Len(tx) \in Nat /\ Len(tx) > 0
    BY <1>1, <1>2, EmptySeq
  <2> QED
    BY <1>2, <1>3, <2>1, ConcatFacts
<1>6. m \in Message /\ m.len \in Nat /\ 1 <= m.len
  BY <1>2, <1>5, FramedFirst
<1>7. m.len \in 1..Len(tx)
  BY <1>1, <1>5, <1>6
<1>8. /\ a \in Seq(Cell) /\ Len(a) = m.len /\ b \in Seq(Cell)
      /\ a \o b = tx
  BY <1>2, <1>7, SplitSeq
<1> HIDE DEF a, b
<1>9. Framed(b \o p)
  <2> DEFINE c == b \o p
  <2>1. c \in Seq(Cell) /\ a \o c = tx \o p
    <3>1. c \in Seq(Cell)
      BY <1>3, <1>8, ConcatFacts
    <3>2. (a \o b) \o p = a \o (b \o p)
      BY <1>3, <1>8, ConcatCells, ZenonT(60)
    <3> QED
      BY <1>8, <3>1, <3>2, Zenon
  <2> HIDE DEF c
  <2>2. Len(a) > 0 /\ Len(a) = (a \o c)[1].msg.len
    BY <1>5, <1>6, <1>8, <2>1
  <2>3. Framed(c)
    BY <1>2, <1>8, <2>1, <2>2, FramedRest
  <2> QED
    BY <2>3 DEF c
<1>10. OutboundFraming' /\ InboundFraming' /\ Short(Received(sw') \o sock', BUF)
  BY <1>1, <1>4, <1>9 DEF OutboundFraming, InboundFraming, p, v
<1> QED
  BY <1>2, <1>4, <1>10 DEF IInv

LEMMA SwitchSaysIInv ==
    ASSUME ShortMessages, IInv, SwitchSays
    PROVE  IInv'
<1> DEFINE v == Received(sw)
<1>1. /\ sw \in of_switch /\ SwitchInv(sw) /\ TypeOK
      /\ Framed(tx \o Pending(sw))
      /\ Framed(v \o sock) /\ Short(v \o sock, BUF)
  BY DEF IInv, TypeOK, OutboundFraming, InboundFraming
<1>2. v \in Seq(Cell)
  BY <1>1, ReceivedType
<1> HIDE DEF v
<1>3. sw' = sw /\ tx' = tx /\ TypeOK' /\ Framed(v \o sock') /\ Short(v \o sock', BUF)
  BY <1>1, <1>2, ShortLimit, TalkFramed
<1>4. OutboundFraming' /\ InboundFraming' /\ Short(Received(sw') \o sock', BUF)
  BY <1>1, <1>3 DEF OutboundFraming, InboundFraming, v
<1> QED
  BY <1>1, <1>3, <1>4 DEF IInv

-----------------------------------------------------------------------------
(* IInv is an invariant of the conversation with a switch whose messages   *)
(* fit the buffers: each of the four steps keeps it.                       *)
THEOREM Invariance ==
    ASSUME ShortMessages
    PROVE  Spec => []IInv
<1>1. Init => IInv
  BY InitIInv
<1>2. IInv /\ [Next]_vars => IInv'
  <2> SUFFICES ASSUME IInv, [Next]_vars PROVE IInv'
    OBVIOUS
  <2>1. CASE ReadStep
    BY <2>1, ReadStepIInv
  <2>2. CASE WriteStep
    BY <2>2, WriteStepIInv
  <2>3. CASE SwitchReceives
    BY <2>3, SwitchReceivesIInv
  <2>4. CASE SwitchSays
    BY <2>4, SwitchSaysIInv
  <2>5. CASE UNCHANGED vars
    BY <2>5
       DEF vars, IInv, TypeOK, InboundFraming, OutboundFraming
  <2> QED
    BY <2>1, <2>2, <2>3, <2>4, <2>5 DEF Next
<1> QED
  BY <1>1, <1>2, PTL DEF Spec

(* Whatever the sizes of the partial writes, what leaves for the switch is *)
(* a sequence of whole messages (write_to, handle_write_socket).           *)
THEOREM OutboundFramed == ASSUME ShortMessages PROVE Spec => []OutboundFraming
<1>1. IInv => OutboundFraming
  BY DEF IInv
<1> QED
  BY <1>1, Invariance, PTL

(* However the stream is cut into recv calls, a header is always read      *)
(* where a message begins (read_from, handle_read_socket).                 *)
THEOREM InboundFramed == ASSUME ShortMessages PROVE Spec => []InboundFraming
<1>1. IInv => InboundFraming
  BY DEF IInv
<1> QED
  BY <1>1, Invariance, PTL

-----------------------------------------------------------------------------
(* Without the assumption on the length: a message may run out of its      *)
(* buffer, and the model then loses cells.  What is received is therefore  *)
(* not read from the buffer but counted, as the beginning of the message   *)
(* whose header came first.                                                *)

(* The limit of what the switch says, in the assumption on the constants.  *)
Longest == 65535

(* What has been received of the message in front: in the read buffer its  *)
(* end is lost once the message has run out of it.                         *)
Collected(s) ==
    IF s.rw = READ THEN [k \in 1..s.bytes_read |-> Piece(s.read_buffer[1].msg, k)]
                   ELSE << >>

(* The buffers are as large as they were allocated, or grown.              *)
Roomy(s) ==
    s \in of_switch /\ BUF <= Len(s.read_buffer) /\ BUF <= Len(s.write_buffer)

(* What holds of a record between two steps: the counters add up to a      *)
(* header, to the message in front, to what setup or a flow needs, or to   *)
(* an echoed message.                                                      *)
Counts(s) ==
    /\ Roomy(s) /\ Exact(s)
    /\ s.rw = READ => /\ s.bytes_written = 0
                      /\ ~s.reading_header => HDR <= s.bytes_read
                      /\ s.bytes_read > 0 => s.read_buffer[1].pos = 1
    /\ s.rw = WRITE => LET w == s.bytes_written + s.bytes_expected
                       IN  \/ w <= BUF
                           \/ w = s.write_buffer[1].msg.len /\ w <= Longest

(* The inductive invariant when messages may be longer than a buffer.      *)
Counted ==
    /\ TypeOK
    /\ Counts(sw)
    /\ Framed(Collected(sw) \o sock)
    /\ Short(Collected(sw) \o sock, Longest)

LEMMA CollectedFacts ==
    ASSUME NEW s, Counts(s)
    PROVE  /\ Collected(s) \in Seq(Cell)
           /\ s.rw = READ =>
                /\ Len(Collected(s)) = s.bytes_read
                /\ \A k \in 1..s.bytes_read :
                     Collected(s)[k] = Piece(s.read_buffer[1].msg, k)
           /\ s.rw # READ => Collected(s) = << >>
<1>1. /\ s \in of_switch /\ BUF <= Len(s.read_buffer)
      /\ s.read_buffer \in Seq(Cell) /\ Len(s.read_buffer) \in Nat /\ s.bytes_read \in Nat
  BY SwitchFields, LenProperties DEF Counts, Roomy
<1>2. 1 \in 1..Len(s.read_buffer)
  BY <1>1, SizeFacts
<1>3. s.read_buffer[1].msg \in Message
  BY <1>1, <1>2, CellFields
<1>4. CASE s.rw = READ
  <2> DEFINE m == s.read_buffer[1].msg
             f == [k \in 1..s.bytes_read |-> Piece(m, k)]
  <2>1. Collected(s) = f
    BY <1>4 DEF Collected
  <2>2. f \in [1..s.bytes_read -> Cell] /\ \A k \in 1..s.bytes_read : f[k] = Piece(m, k)
    BY <1>1, <1>3 DEF Piece, Cell
  <2> HIDE DEF f
  <2>3. f \in Seq(Cell) /\ Len(f) = s.bytes_read
    BY <1>1, <2>2, FunctionIsSeq
  <2> QED
    BY <1>4, <2>1, <2>2, <2>3
<1>5. CASE s.rw # READ
  BY <1>5, EmptySeq DEF Collected
<1> QED
  BY <1>4, <1>5

(* A buffer that is perhaps resized keeps what it has.                     *)
LEMMA Grown ==
    ASSUME NEW buf \in Seq(Cell), NEW k
    PROVE  LET b == IF Len(buf) = k THEN resize_buffer(buf) ELSE buf
           IN  /\ b \in Seq(Cell) /\ Len(b) \in Nat /\ Len(buf) <= Len(b)
               /\ \A i \in 1..Len(buf) : b[i] = buf[i]
<1>1. Len(buf) \in Nat /\ calloc(Len(buf)) \in Seq(Cell)
  BY LenProperties, CallocType
<1> DEFINE c == calloc(Len(buf))
           r == buf \o c
<1>2. /\ r \in Seq(Cell) /\ Len(r) = Len(buf) + Len(c) /\ Len(c) \in Nat
      /\ \A i \in 1..Len(buf) : r[i] = buf[i]
  <2> HIDE DEF c
  <2>1. c \in Seq(Cell)
    BY <1>1 DEF c
  <2> QED
    BY <2>1, ConcatFacts
<1>3. r = resize_buffer(buf)
  BY DEF resize_buffer
<1> HIDE DEF r, c
<1> QED
  BY <1>1, <1>2, <1>3

(* recv goes on with the message in front, wherever its cells end up.      *)
LEMMA Receiving ==
    ASSUME NEW s, Counts(s), s.rw = READ, NEW sk \in Seq(Cell),
           NEW n \in 1..Len(sk), n <= s.bytes_expected,
           Framed(Collected(s) \o sk), Short(Collected(s) \o sk, Longest)
    PROVE  LET t    == read_from(s, n, SubSeq(sk, 1, n))
               rest == SubSeq(sk, n + 1, Len(sk))
               st   == Collected(s) \o sk
               m    == st[1].msg
           IN  /\ Roomy(t) /\ t.rw = READ /\ t.bytes_written = 0
               /\ t.of_status = s.of_status
               /\ t.reading_header = s.reading_header
               /\ t.bytes_read = s.bytes_read + n
               /\ t.bytes_expected = s.bytes_expected - n
               /\ t.bytes_read <= m.len
               /\ t.read_buffer[1] = Piece(m, 1)
               /\ m \in Message /\ HDR <= m.len /\ m.len <= Longest
               /\ ~s.reading_header => s.read_buffer[1].msg = m
               /\ rest \in Seq(Cell)
               /\ Collected(t) \o rest = st
<1> DEFINE t == read_from(s, n, SubSeq(sk, 1, n))
           rest == SubSeq(sk, n + 1, Len(sk))
           v == Collected(s)
           st == v \o sk
           m == st[1].msg
           r == s.bytes_read
           e == s.bytes_expected
           data == SubSeq(sk, 1, n)
           rb == s.read_buffer
           buf == IF Len(rb) = r THEN resize_buffer(rb) ELSE rb
<1>1. /\ s \in of_switch /\ r \in Nat /\ e \in Nat
      /\ rb \in Seq(Cell) /\ Len(rb) \in Nat /\ BUF <= Len(rb)
      /\ BUF <= Len(s.write_buffer) /\ s.bytes_written = 0
      /\ ~s.reading_header => HDR <= r
      /\ r > 0 => rb[1].pos = 1
      /\ IF s.reading_header THEN r + e = HDR
         ELSE r + e = rb[1].msg.len /\ s.of_status = rb[1].msg.type
  BY SwitchFields, LenProperties DEF Counts, Roomy, Exact
<1>2. /\ data \in Seq(Cell) /\ Len(data) = n /\ rest \in Seq(Cell)
      /\ Len(rest) = Len(sk) - n
      /\ \A i \in 1..Len(sk) - n : rest[i] = sk[n + i]
      /\ n \in Nat /\ n >= 1 /\ Len(sk) \in Nat /\ n <= Len(sk)
  <2>1. n \in Nat /\ n >= 1 /\ Len(sk) \in Nat /\ n <= Len(sk)
    BY LenProperties
  <2>2. /\ data \in Seq(Cell) /\ Len(data) = n /\ rest \in Seq(Cell)
        /\ Len(rest) = Len(sk) - n
        /\ \A i \in 1..Len(sk) - n : rest[i] = sk[n + i]
    BY SplitSeq, Zenon
  <2> QED
    BY <2>1, <2>2
<1>3. data[1] = sk[1]
  BY <1>2
<1>4. /\ v \in Seq(Cell) /\ Len(v) = r
      /\ \A k \in 1..r : v[k] = Piece(rb[1].msg, k)
  BY CollectedFacts
<1>5. Framed(st) /\ Short(st, Longest)
  OBVIOUS
<1> HIDE DEF v
<1>6. /\ st \in Seq(Cell) /\ Len(st) = r + Len(sk)
      /\ \A k \in 1..r : st[k] = v[k]
      /\ \A k \in 1..Len(sk) : st[r + k] = sk[k]
  <2>1. /\ st \in Seq(Cell) /\ Len(st) = Len(v) + Len(sk)
        /\ \A k \in 1..Len(v) : st[k] = v[k]
        /\ \A k \in 1..Len(sk) : st[Len(v) + k] = sk[k]
    BY <1>4, ConcatFacts, Zenon
  <2> QED
    BY <1>4, <2>1, Zenon
<1> HIDE DEF st
<1>7. Len(st) > 0 /\ 1 \in 1..Len(st)
  BY <1>1, <1>2, <1>6
<1>8. /\ m \in Message /\ m.len \in Nat /\ st[1].pos = 1
      /\ 1 <= m.len /\ m.len <= Len(st)
      /\ \A k \in 1..m.len : st[k] = Piece(m, k)
  BY <1>5, <1>6, <1>7, FramedFirst
<1>9. HDR <= m.len /\ m.len <= Longest
  BY <1>5, <1>7 DEF Short
<1>10. st[1] = Piece(m, 1)
  BY <1>8
<1>11. r > 0 => rb[1].msg = m
  <2> SUFFICES ASSUME r > 0 PROVE rb[1].msg = m
    OBVIOUS
  <2>1. 1 \in 1..r
    BY <1>1
  <2>2. st[1] = Piece(rb[1].msg, 1)
    BY <1>4, <1>6, <2>1
  <2> QED
    BY <1>10, <2>2, PieceFields
<1>12. r = 0 => sk[1] = Piece(m, 1)
  <2> SUFFICES ASSUME r = 0 PROVE sk[1] = Piece(m, 1)
    OBVIOUS
  <2>1. 1 \in 1..Len(sk) /\ r + 1 = 1
    BY <1>2
  <2> QED
    BY <1>6, <1>10, <2>1
<1>13. r + n <= m.len /\ r + n < 65536 /\ e - n \in Nat /\ e - n < 65536
  <2>1. r + e <= m.len
    <3>1. CASE s.reading_header
      BY <1>1, <1>9, <3>1, SizeFacts, <1>8
    <3>2. CASE ~s.reading_header
      BY <1>1, <1>11, <3>2, SizeFacts
    <3> QED
      BY <3>1, <3>2
  <2> QED
    BY <1>1, <1>2, <1>8, <1>9, <2>1 DEF Longest
<1>14. /\ t \in of_switch
       /\ t.rw = s.rw /\ t.of_status = s.of_status
       /\ t.reading_header = s.reading_header
       /\ t.bytes_read = r + n /\ t.bytes_expected = e - n
       /\ t.bytes_written = s.bytes_written
       /\ t.write_buffer = s.write_buffer
  <2>1. uint16(r + n) = r + n /\ uint16(e - n) = e - n
    BY <1>1, <1>2, <1>13, uint16Small
  <2>2. n \in Nat /\ SubSeq(sk, 1, n) \in Seq(Cell)
    BY <1>2
  <2>3. /\ t \in of_switch
        /\ t.rw = s.rw /\ t.of_status = s.of_status
        /\ t.reading_header = s.reading_header
        /\ t.bytes_read = uint16(r + n) /\ t.bytes_expected = uint16(e - n)
        /\ t.bytes_written = s.bytes_written
        /\ t.write_buffer = s.write_buffer
    BY <1>1, <2>2, ReadFromFields, ZenonT(60)
  <2> QED
    BY <2>1, <2>3, Zenon
<1>15. t.read_buffer = Store(buf, r, data)
  BY <1>1, Zenon DEF read_from, of_switch
<1>16. /\ buf \in Seq(Cell) /\ Len(buf) \in Nat /\ Len(rb) <= Len(buf)
       /\ \A i \in 1..Len(rb) : buf[i] = rb[i]
  BY <1>1, Grown
<1> HIDE DEF t, buf, data, rest
<1>17. /\ Len(t.read_buffer) = Len(buf)
       /\ \A i \in 1..Len(buf) : t.read_buffer[i] =
              IF i - r \in 1..n THEN data[i - r] ELSE buf[i]
  <2>1. r \in Nat /\ data \in Seq(Cell) /\ buf \in Seq(Cell)
    BY <1>1, <1>2, <1>16
  <2>2. t.read_buffer = Store(buf, r, data) /\ Len(data) = n
    BY <1>2, <1>15
  <2> HIDE DEF r
  <2>3. /\ Len(Store(buf, r, data)) = Len(buf)
        /\ \A i \in 1..Len(buf) : Store(buf, r, data)[i] =
               IF i - r \in 1..Len(data) THEN data[i - r] ELSE buf[i]
    BY <2>1, StoreType
  <2> QED
    BY <2>2, <2>3
<1>18. Roomy(t)
  BY <1>1, <1>14, <1>16, <1>17, SizeFacts DEF Roomy
<1>19. t.read_buffer[1] = Piece(m, 1)
  <2>1. 1 \in 1..Len(rb) /\ 1 \in 1..Len(buf)
    BY <1>1, <1>16, SizeFacts
  <2>2. CASE r = 0
    <3>1. 1 - r \in 1..n /\ 1 - r = 1
      BY <1>2, <2>2
    <3> QED
      BY <1>3, <1>12, <1>17, <2>1, <2>2, <3>1
  <2>3. CASE r > 0
    <3>1. 1 - r \notin 1..n
      BY <1>1, <2>3
    <3>2. t.read_buffer[1] = rb[1]
      BY <1>16, <1>17, <2>1, <3>1
    <3>3. rb[1] \in Cell /\ rb[1].pos = 1 /\ rb[1].msg = m
      BY <1>1, <1>11, <2>1, <2>3
    <3>4. rb[1] = [msg |-> m, pos |-> 1]
      BY <3>3 DEF Cell
    <3> QED
      BY <3>2, <3>4 DEF Piece
  <2> QED
    BY <1>1, <2>2, <2>3
<1> DEFINE w == Collected(t)
           x == w \o rest
<1>20. /\ w \in Seq(Cell) /\ Len(w) = r + n
       /\ \A k \in 1..r + n : w[k] = Piece(m, k)
  <2> DEFINE f == [k \in 1..r + n |-> Piece(m, k)]
  <2>1. w = f
    BY <1>14, <1>19, PieceFields DEF Collected
  <2>2. f \in [1..r + n -> Cell] /\ \A k \in 1..r + n : f[k] = Piece(m, k)
    BY <1>1, <1>2, <1>8 DEF Piece, Cell
  <2> HIDE DEF f, w
  <2>3. r + n \in Nat
    BY <1>1, <1>2
  <2> QED
    BY <2>1, <2>2, <2>3, FunctionIsSeq
<1> HIDE DEF w
<1>21. /\ x \in Seq(Cell) /\ Len(x) = Len(w) + Len(rest)
       /\ \A k \in 1..Len(w) : x[k] = w[k]
       /\ \A k \in 1..Len(rest) : x[Len(w) + k] = rest[k]
  BY <1>2, <1>20, ConcatFacts, Zenon
<1> HIDE DEF x
<1>22. Len(x) = Len(st)
  BY <1>1, <1>2, <1>6, <1>20, <1>21
<1>23. \A i \in 1..Len(st) : x[i] = st[i]
  <2> SUFFICES ASSUME NEW i \in 1..Len(st) PROVE x[i] = st[i]
    OBVIOUS
  <2>1. CASE i <= r + n
    <3>1. r \in Nat /\ n \in Nat /\ m.len \in Nat /\ r + n <= m.len
      BY <1>1, <1>2, <1>8, <1>13
    <3>2. i \in 1..r + n /\ i \in 1..m.len
      BY <2>1, <3>1
    <3>3. i \in 1..Len(w)
      BY <1>20, <3>2
    <3> QED
      BY <1>8, <1>20, <1>21, <3>2, <3>3
  <2>2. CASE i > r + n
    <3> DEFINE k == i - (r + n)
               l == i - r
    <3>1. /\ r \in Nat /\ n \in Nat /\ Len(sk) \in Nat /\ i \in Nat
          /\ i <= r + Len(sk) /\ Len(w) = r + n /\ Len(rest) = Len(sk) - n
      BY <1>1, <1>2, <1>6, <1>20
    <3> HIDE DEF r
    <3>5. /\ k \in 1..Len(rest) /\ k \in 1..Len(sk) - n /\ Len(w) + k = i
          /\ l \in 1..Len(sk) /\ r + l = i /\ n + k = l
      BY <2>2, <3>1
    <3> HIDE DEF k, l
    <3>2. x[i] = rest[k]
      BY <1>21, <3>5
    <3>3. rest[k] = sk[l]
      BY <1>2, <3>5
    <3>4. st[i] = sk[l]
      BY <1>6, <3>5
    <3> QED
      BY <3>2, <3>3, <3>4
  <2> QED
    BY <1>1, <1>2, <2>1, <2>2
<1>24. x = st
  BY <1>6, <1>21, <1>22, <1>23, SeqEqual
<1>25. ~s.reading_header => rb[1].msg = m
  BY <1>1, <1>11, SizeFacts
<1>26. t.rw = READ /\ t.bytes_written = 0 /\ rest \in Seq(Cell)
  BY <1>1, <1>2, <1>14
<1>27. /\ t.of_status = s.of_status /\ t.reading_header = s.reading_header
       /\ t.bytes_read = s.bytes_read + n /\ t.bytes_expected = s.bytes_expected - n
       /\ t.bytes_read <= m.len
  BY <1>13, <1>14
<1>28. ~s.reading_header => s.read_buffer[1].msg = m
  BY <1>25
<1>29. Collected(t) \o rest = st
  BY <1>24 DEF x, w
<1> HIDE DEF m
<1> QED
  BY <1>8, <1>9, <1>18, <1>19, <1>26, <1>27, <1>28, <1>29, Zenon
     DEF t, rest, m, st, v

(* A record with room for a message, and one nothing more is received in.  *)
Vacant(s) == Roomy(s) /\ s.bytes_written = 0

Rested(s) == Counts(s) /\ Collected(s) = << >>

LEMMA VacantBuffers ==
    ASSUME NEW s, Vacant(s)
    PROVE  /\ s \in of_switch /\ s.bytes_written = 0
           /\ s.read_buffer \in Seq(Cell) /\ s.write_buffer \in Seq(Cell)
           /\ Len(s.read_buffer) \in Nat /\ Len(s.write_buffer) \in Nat
           /\ BUF <= Len(s.read_buffer) /\ BUF <= Len(s.write_buffer)
           /\ 1 \in 1..Len(s.read_buffer) /\ 1 \in 1..Len(s.write_buffer)
<1>1. /\ s \in of_switch /\ s.bytes_written = 0
      /\ BUF <= Len(s.read_buffer) /\ BUF <= Len(s.write_buffer)
  BY DEF Vacant, Roomy
<1>2. /\ s.read_buffer \in Seq(Cell) /\ s.write_buffer \in Seq(Cell)
      /\ Len(s.read_buffer) \in Nat /\ Len(s.write_buffer) \in Nat
  BY <1>1, SwitchFields, LenProperties
<1> QED
  BY <1>1, <1>2, SizeFacts

(* A message composed, the reply to an overlong echo request among them.   *)
LEMMA RestedOne ==
    ASSUME NEW s, Vacant(s), NEW t \in of_switch, NEW m \in Message,
           1 <= m.len, m.len <= Longest,
           t.rw = WRITE, t.bytes_expected = uint16(m.len),
           t.bytes_written = s.bytes_written, t.read_buffer = s.read_buffer,
           t.write_buffer = Store(s.write_buffer, 0, Cells(m))
    PROVE  Rested(t)
<1> DEFINE wb == s.write_buffer
           c == Cells(m)
<1>1. /\ wb \in Seq(Cell) /\ BUF <= Len(wb) /\ 1 \in 1..Len(wb)
      /\ BUF <= Len(s.read_buffer) /\ s.bytes_written = 0
  BY VacantBuffers
<1>2. m.len \in Nat /\ m.len < 65536
  BY MessageFields DEF Longest
<1>3. t.bytes_expected = m.len
  BY <1>2, uint16Small
<1>4. c \in Seq(Cell) /\ Len(c) = m.len /\ c[1] = Piece(m, 1)
  <2>1. 1 \in 1..m.len
    BY <1>2
  <2> QED
    BY <2>1, CellsType
<1> HIDE DEF wb, c
<1>5. /\ Len(t.write_buffer) = Len(wb)
      /\ t.write_buffer[1] = IF 1 - 0 \in 1..Len(c) THEN c[1 - 0] ELSE wb[1]
  BY <1>1, <1>4, StoreType DEF wb, c
<1>6. t.write_buffer[1].msg = m
  <2>1. 1 - 0 \in 1..Len(c) /\ 1 - 0 = 1
    BY <1>2, <1>4
  <2> QED
    BY <1>4, <1>5, <2>1, PieceFields
<1>7. t.rw # READ
  BY Constants
<1>8. Roomy(t)
  BY <1>1, <1>5 DEF Roomy
<1>9. /\ t.bytes_expected > 0
      /\ t.bytes_written + t.bytes_expected = t.write_buffer[1].msg.len
      /\ t.bytes_written + t.bytes_expected <= Longest
  BY <1>1, <1>2, <1>3, <1>6
<1>10. Exact(t)
  BY <1>7, <1>9 DEF Exact
<1>11. Counts(t)
  BY <1>7, <1>8, <1>9, <1>10 DEF Counts
<1> QED
  BY <1>7, <1>11, CollectedFacts DEF Rested

LEMMA RestedOwn ==
    ASSUME NEW s, Vacant(s), NEW m \in Message, 1 <= m.len, m.len <= BUF
    PROVE  Rested(Compose(s, m))
<1>1. m.len <= Longest
  BY MessageFields, SizeFacts DEF Longest
<1>2. s \in of_switch
  BY DEF Vacant, Roomy
<1> DEFINE t == Compose(s, m)
<1>3. /\ t \in of_switch /\ t.rw = WRITE /\ t.bytes_expected = uint16(m.len)
      /\ t.bytes_written = s.bytes_written /\ t.read_buffer = s.read_buffer
      /\ t.write_buffer = Store(s.write_buffer, 0, Cells(m))
  BY <1>2, ComposeFields
<1> HIDE DEF t
<1>4. Rested(t)
  BY <1>1, <1>3, RestedOne
<1> QED
  BY <1>4 DEF t

LEMMA RestedEcho ==
    ASSUME NEW s, Vacant(s), NEW m \in Message, 1 <= m.len, m.len <= Longest
    PROVE  Rested(make_echo_reply(s, m))
<1> DEFINE r == [m EXCEPT !.type = "ECHO_REPLY"]
           t == make_echo_reply(s, m)
<1>1. s \in of_switch
  BY DEF Vacant, Roomy
<1>2. /\ t \in of_switch /\ r \in Message /\ r.len = m.len
      /\ t.rw = WRITE /\ t.bytes_expected = uint16(m.len)
      /\ t.bytes_written = s.bytes_written /\ t.read_buffer = s.read_buffer
      /\ t.write_buffer = Store(s.write_buffer, 0, Cells(r))
  BY <1>1, MakeEchoReplyFields
<1> HIDE DEF r, t
<1>3. 1 <= r.len /\ r.len <= Longest /\ t.bytes_expected = uint16(r.len)
  BY <1>2
<1>4. Rested(t)
  BY <1>2, <1>3, RestedOne
<1> QED
  BY <1>4 DEF t

(* Two flow mods, one behind the other.                                    *)
LEMMA RestedTwo ==
    ASSUME NEW s, Vacant(s), s.bytes_expected = 0
    PROVE  Rested(ComposeMore(ComposeMore(s, Own("FLOW_MOD")), Own("FLOW_MOD")))
<1> DEFINE m == Own("FLOW_MOD")
           t == ComposeMore(s, m)
           u == ComposeMore(t, m)
<1>1. "FLOW_MOD" \in MsgType
  BY DEF MsgType
<1>2. /\ m \in Message /\ m.len \in Nat /\ 1 <= m.len /\ m.len + m.len <= BUF
  BY <1>1, OwnFields, SizeFacts
<1> HIDE DEF m
<1>3. /\ s \in of_switch /\ s.bytes_written = 0
      /\ s.write_buffer \in Seq(Cell) /\ BUF <= Len(s.write_buffer)
      /\ BUF <= Len(s.read_buffer)
  BY VacantBuffers
<1>4. /\ t \in of_switch /\ t.rw = WRITE
      /\ t.bytes_expected = uint16(s.bytes_expected + m.len)
      /\ t.bytes_written = s.bytes_written /\ t.read_buffer = s.read_buffer
      /\ t.write_buffer = Store(s.write_buffer, s.bytes_expected, Cells(m))
  BY <1>2, <1>3, ComposeMoreFields
<1> HIDE DEF t
<1>5. /\ u \in of_switch /\ u.rw = WRITE
      /\ u.bytes_expected = uint16(t.bytes_expected + m.len)
      /\ u.bytes_written = t.bytes_written /\ u.read_buffer = t.read_buffer
      /\ u.write_buffer = Store(t.write_buffer, t.bytes_expected, Cells(m))
  BY <1>2, <1>4, ComposeMoreFields
<1> HIDE DEF u
<1>6. Cells(m) \in Seq(Cell)
  BY <1>2, CellsType
<1>7. t.bytes_expected = m.len /\ u.bytes_expected = m.len + m.len
  <2>1. /\ s.bytes_expected + m.len = m.len /\ m.len < 65536
        /\ m.len + m.len \in Nat /\ m.len + m.len < 65536
    BY <1>2, SizeFacts
  <2>2. t.bytes_expected = m.len
    BY <1>2, <1>4, <2>1, uint16Small
  <2> QED
    BY <1>5, <2>1, <2>2, uint16Small
<1>8. Len(t.write_buffer) = Len(s.write_buffer)
  BY <1>3, <1>4, <1>6, StoreType
<1>9. Len(u.write_buffer) = Len(t.write_buffer)
  <2>1. t.write_buffer \in Seq(Cell) /\ t.bytes_expected \in Nat
    BY <1>2, <1>4, <1>7, SwitchFields
  <2> QED
    BY <1>5, <1>6, <2>1, StoreType
<1>10. Roomy(u)
  BY <1>3, <1>4, <1>5, <1>8, <1>9 DEF Roomy
<1>11. u.rw # READ
  BY <1>5, Constants
<1>12. u.bytes_expected > 0 /\ u.bytes_written + u.bytes_expected <= BUF
  BY <1>2, <1>3, <1>4, <1>5, <1>7
<1>13. Exact(u)
  BY <1>11, <1>12 DEF Exact
<1>14. Counts(u)
  BY <1>10, <1>11, <1>12, <1>13 DEF Counts
<1> QED
  BY <1>11, <1>14, CollectedFacts DEF Rested, u, t, m

(* The flags of the setup are nobody's business here.                      *)
LEMMA RestedFlags ==
    ASSUME NEW s, Rested(s)
    PROVE  /\ Rested([s EXCEPT !.features_requested = TRUE])
           /\ Rested([s EXCEPT !.config_set = TRUE])
           /\ Rested([s EXCEPT !.ports_requested = TRUE])
           /\ Rested([s EXCEPT !.default_flow_set = TRUE])
<1> DEFINE same(t) == /\ t \in of_switch /\ t.rw = s.rw /\ t.of_status = s.of_status
                      /\ t.reading_header = s.reading_header
                      /\ t.read_buffer = s.read_buffer /\ t.bytes_read = s.bytes_read
                      /\ t.write_buffer = s.write_buffer
                      /\ t.bytes_written = s.bytes_written
                      /\ t.bytes_expected = s.bytes_expected
<1>1. s \in of_switch
  BY DEF Rested, Counts, Roomy
<1>2. ASSUME NEW t, same(t)
      PROVE  Rested(t)
  <2>1. Collected(t) = Collected(s)
    BY <1>2 DEF Collected
  <2>2. Exact(t)
    BY <1>2 DEF Rested, Counts, Exact
  <2> QED
    BY <1>2, <2>1, <2>2 DEF Rested, Counts, Roomy
<1>3. same([s EXCEPT !.features_requested = TRUE])
  BY <1>1, Zenon DEF of_switch
<1>4. same([s EXCEPT !.config_set = TRUE])
  BY <1>1, Zenon DEF of_switch
<1>5. same([s EXCEPT !.ports_requested = TRUE])
  BY <1>1, Zenon DEF of_switch
<1>6. same([s EXCEPT !.default_flow_set = TRUE])
  BY <1>1, Zenon DEF of_switch
<1> HIDE DEF same
<1> QED
  BY <1>2, <1>3, <1>4, <1>5, <1>6, Zenon

(* A record that waits for the next header, or is given up.                *)
LEMMA RestedReader ==
    ASSUME NEW s, Vacant(s), s.rw = READ, s.bytes_expected = HDR,
           s.reading_header, s.bytes_read = 0
    PROVE  Rested(s)
<1>1. s.rw # WRITE /\ s.rw = READ
  BY Constants
<1>2. Exact(s)
  BY <1>1, SizeFacts DEF Exact
<1>3. Counts(s)
  BY <1>1, <1>2, SizeFacts DEF Counts, Vacant
<1>4. Collected(s) \in Seq(Cell) /\ Len(Collected(s)) = 0
  BY <1>1, <1>3, CollectedFacts
<1> QED
  BY <1>3, <1>4, EmptySeq DEF Rested

LEMMA RestedDropped ==
    ASSUME NEW s, Roomy(s), s.rw = DISCONNECTED
    PROVE  Rested(s)
<1>1. s.rw # READ /\ s.rw # WRITE
  BY Constants
<1>2. Counts(s)
  BY <1>1 DEF Counts, Exact
<1> QED
  BY <1>1, <1>2, CollectedFacts DEF Rested

(* What the handlers leave behind is rested.                               *)
LEMMA DispatchRests ==
    ASSUME NEW s, Vacant(s), s.rw = READ, s.bytes_expected = 0, NEW fd \in Nat,
           NEW m \in Message, 1 <= m.len, m.len <= Longest
    PROVE  Rested(await_next_header(dispatch(s, fd, m)))
<1> DEFINE d == dispatch(s, fd, m)
           u == await_next_header(d)
           x == [s EXCEPT !.rw = DISCONNECTED]
           c == save_connected_ports(s, m)
           e == make_echo_reply(s, m)
           f == send_probe_packet(s, fd)
           g == write_new_flow(write_new_flow(s))
           p == [Own("PACKET_OUT") EXCEPT !.info = "probe", !.fd = fd]
<1>1. s \in of_switch /\ s.bytes_written = 0 /\ Roomy(s)
  BY DEF Vacant, Roomy
<1>2. ASSUME NEW t, Rested(t), t.rw = WRITE, d = t
      PROVE  Rested(u)
  <2>1. t \in of_switch
    BY <1>2 DEF Rested, Counts, Roomy
  <2>2. await_next_header(t) = t
    BY <1>2, <2>1, AwaitNextHeaderFields
  <2> QED
    BY <1>2, <2>2
<1>3. x \in of_switch
  BY <1>1, Constants, Zenon DEF of_switch
<1>4. /\ x.rw = DISCONNECTED /\ x.read_buffer = s.read_buffer
      /\ x.write_buffer = s.write_buffer
  BY <1>1, Zenon DEF of_switch
<1>5. /\ c \in of_switch /\ c.rw = s.rw /\ c.bytes_written = s.bytes_written
      /\ c.read_buffer = s.read_buffer /\ c.write_buffer = s.write_buffer
  BY <1>1, PortsFields
<1>6. e.rw = WRITE
  BY <1>1, MakeEchoReplyFields
<1>7. Rested(f) /\ f.rw = WRITE
  <2>1. "PACKET_OUT" \in MsgType /\ "probe" \in Info
    BY DEF MsgType, Info
  <2>2. Own("PACKET_OUT") \in Message
    BY <2>1, OwnFields
  <2>3. p \in Message /\ p.len = Own("PACKET_OUT").len
    BY <2>1, <2>2, Zenon DEF Message
  <2>4. 1 <= p.len /\ p.len <= BUF
    BY <2>1, <2>3, OwnFields
  <2>5. f = Compose(s, p)
    BY Zenon DEF send_probe_packet
  <2> HIDE DEF p, f
  <2> QED
    BY <1>1, <2>3, <2>4, <2>5, ComposeFields, RestedOwn
<1>8. Rested(g) /\ g.rw = WRITE
  <2> DEFINE o == Own("FLOW_MOD")
             h == ComposeMore(s, o)
  <2>1. Rested(g)
    BY RestedTwo DEF write_new_flow
  <2>2. "FLOW_MOD" \in MsgType
    BY DEF MsgType
  <2>3. o \in Message
    BY <2>2, OwnFields
  <2>4. g = ComposeMore(h, o)
    BY DEF write_new_flow
  <2> HIDE DEF o, g
  <2>5. h \in of_switch
    BY <1>1, <2>3, ComposeMoreFields
  <2> HIDE DEF h
  <2> QED
    BY <2>1, <2>3, <2>4, <2>5, ComposeMoreFields
<1>9. Rested(e)
  BY RestedEcho
<1>10. d = x \/ d = s \/ d = c \/ d = e \/ d = f \/ d = g
  <2>1. d = CASE s.of_status = "ECHO_REQUEST" -> e
              [] s.of_status = "MULTIPART_REPLY" -> c
              [] s.of_status = "FEATURES_REPLY" -> f
              [] s.of_status = "PACKET_IN" /\ m.info = "host" -> g
              [] s.of_status \notin Known -> x
              [] OTHER -> s
    BY Zenon DEF dispatch
  <2> HIDE DEF d, e, f, g, x, c
  <2> QED
    BY <2>1
<1> HIDE DEF d, x, c, e, f, g
<1>11. CASE d = x
  <2>1. /\ u \in of_switch /\ u.rw = x.rw /\ u.write_buffer = x.write_buffer
        /\ Len(u.read_buffer) = Len(x.read_buffer)
    BY <1>3, <1>11, AwaitNextHeaderFields
  <2>2. Roomy(u) /\ u.rw = DISCONNECTED
    BY <1>1, <1>4, <2>1 DEF Roomy
  <2> HIDE DEF u
  <2>3. Rested(u)
    BY <2>2, RestedDropped
  <2> QED
    BY <2>3 DEF u, d
<1>12. ASSUME NEW t \in of_switch, d = t, t.rw = s.rw, t.bytes_written = s.bytes_written,
              t.read_buffer = s.read_buffer, t.write_buffer = s.write_buffer
       PROVE  Rested(u)
  <2>1. /\ u \in of_switch /\ u.rw = READ /\ u.bytes_written = 0
        /\ u.write_buffer = t.write_buffer /\ Len(u.read_buffer) = Len(t.read_buffer)
        /\ u.bytes_expected = HDR /\ u.reading_header /\ u.bytes_read = 0
    BY <1>1, <1>12, Constants, AwaitNextHeaderFields
  <2>2. Vacant(u)
    BY <1>1, <1>12, <2>1 DEF Vacant, Roomy
  <2> QED
    BY <2>1, <2>2, RestedReader
<1> HIDE DEF u
<1> QED
  BY <1>1, <1>2, <1>5, <1>6, <1>7, <1>8, <1>9, <1>10, <1>11, <1>12 DEF u, d

LEMMA PortModRests ==
    ASSUME NEW s, Vacant(s), NEW port \in Nat
    PROVE  Rested(change_port_behavior(s, port))
<1> DEFINE info == IF port \in s.connected_ports THEN "named" ELSE "none"
           m == [Own("PORT_MOD") EXCEPT !.port = port, !.info = info]
<1>1. "PORT_MOD" \in MsgType /\ info \in Info
  BY DEF MsgType, Info
<1>2. Own("PORT_MOD") \in Message /\ 1 <= Own("PORT_MOD").len /\ Own("PORT_MOD").len <= BUF
  BY <1>1, OwnFields
<1>3. change_port_behavior(s, port) = Compose(s, m)
  BY Zenon DEF change_port_behavior
<1> HIDE DEF info
<1>4. m \in Message /\ m.len = Own("PORT_MOD").len
  BY <1>1, <1>2, Zenon DEF Message
<1> HIDE DEF m
<1> QED
  BY <1>2, <1>3, <1>4, RestedOwn

LEMMA NextWriteRests ==
    ASSUME NEW s0, Roomy(s0), s0.bytes_expected = 0
    PROVE  Rested(next_write(s0))
<1> DEFINE wb == memset(s0.write_buffer)
           s == [s0 EXCEPT !.bytes_written = 0, !.write_buffer = wb]
           r == [s EXCEPT !.rw = READ, !.bytes_expected = HDR,
                          !.reading_header = TRUE, !.bytes_read = 0]
<1>1. 0 \in uint16_t /\ HDR \in uint16_t
  BY SizeFacts DEF uint16_t
<1>2. s0 \in of_switch /\ Len(s0.write_buffer) \in Nat
  BY SwitchFields, LenProperties DEF Roomy
<1>3. wb \in Seq(Cell) /\ Len(wb) = Len(s0.write_buffer)
  BY <1>2, CallocType DEF memset
<1> HIDE DEF wb
<1>4. s \in of_switch
  BY <1>1, <1>2, <1>3, Zenon DEF of_switch
<1>5. /\ s.bytes_written = 0 /\ s.write_buffer = wb
      /\ s.read_buffer = s0.read_buffer /\ s.bytes_expected = s0.bytes_expected
  BY <1>2, Zenon DEF of_switch
<1>6. Vacant(s) /\ s.bytes_expected = 0
  BY <1>3, <1>4, <1>5 DEF Vacant, Roomy
<1> DEFINE t == next_write(s0)
           f1 == [request_features(s) EXCEPT !.features_requested = TRUE]
           f2 == [set_config(s) EXCEPT !.config_set = TRUE]
           f3 == [get_port_info(s) EXCEPT !.ports_requested = TRUE]
           f4 == [write_default_miss(write_default_miss(s))
                    EXCEPT !.default_flow_set = TRUE]
<1>7. t = IF ~s.features_requested THEN f1
          ELSE IF ~s.config_set THEN f2
          ELSE IF ~s.ports_requested THEN f3
          ELSE IF ~s.default_flow_set THEN f4 ELSE r
  BY Zenon DEF next_write, wb
<1>8. r \in of_switch
  BY <1>1, <1>4, Constants, Zenon DEF of_switch
<1>9. /\ r.rw = READ /\ r.bytes_expected = HDR /\ r.reading_header
      /\ r.bytes_read = 0 /\ r.bytes_written = s.bytes_written
      /\ r.read_buffer = s.read_buffer /\ r.write_buffer = s.write_buffer
  BY <1>4, Zenon DEF of_switch
<1> HIDE DEF s, r, t
<1>10. Rested(r)
  <2>1. Vacant(r)
    BY <1>6, <1>8, <1>9 DEF Vacant, Roomy
  <2> QED
    BY <1>9, <2>1, RestedReader
<1>11. {"FEATURES_REQUEST", "SET_CONFIG", "MULTIPART_REQUEST"} \subseteq MsgType
  BY DEF MsgType
<1>12. Rested(f1)
  BY <1>6, <1>11, OwnFields, RestedOwn, RestedFlags DEF request_features
<1>13. Rested(f2)
  BY <1>6, <1>11, OwnFields, RestedOwn, RestedFlags DEF set_config
<1>14. Rested(f3)
  BY <1>6, <1>11, OwnFields, RestedOwn, RestedFlags DEF get_port_info
<1>15. Rested(f4)
  BY <1>6, RestedTwo, RestedFlags DEF write_default_miss
<1> HIDE DEF f1, f2, f3, f4
<1> QED
  BY <1>7, <1>10, <1>12, <1>13, <1>14, <1>15, Zenon DEF t

LEMMA NewSwitchRests == Rested(new_switch)
<1>1. /\ Loaded(new_switch) /\ new_switch \in of_switch
      /\ SwitchInv(new_switch) /\ new_switch.rw = WRITE
  BY NewSwitchLoaded, LoadedInv
<1>2. new_switch.rw # READ
  BY <1>1, Constants
<1>3. Roomy(new_switch) /\ Exact(new_switch)
  BY <1>1, SizeFacts DEF SwitchInv, Allocated, Roomy
<1>4. new_switch.bytes_written + new_switch.bytes_expected <= BUF
  BY <1>1 DEF SwitchInv, Fits, Allocated
<1>5. Counts(new_switch)
  BY <1>1, <1>2, <1>3, <1>4 DEF Counts
<1> QED
  BY <1>2, <1>5, CollectedFacts DEF Rested

-----------------------------------------------------------------------------
LEMMA LimitLongest == Limit(Longest)
BY SizeFacts, SwitchAssumption DEF SwitchAssumption, Limit, Longest, Message

LEMMA InitCounted ==
    ASSUME Init
    PROVE  Counted
<1>1. Rested(sw)
  BY NewSwitchRests DEF Init
<1>2. Counts(sw) /\ Collected(sw) = << >> /\ sw \in of_switch
  BY <1>1 DEF Rested, Counts, Roomy
<1>3. Hello \in Message /\ HDR <= Hello.len /\ Hello.len <= Longest
  BY LimitLongest, SwitchAssumption DEF SwitchAssumption, Limit
<1>4. sock \in Seq(Cell) /\ Framed(sock) /\ Short(sock, Longest)
  BY <1>3, CellsType, FramedCells, ShortCells DEF Init
<1>5. << >> \o sock = sock
  BY <1>4, ConcatEmptySeq
<1>6. TypeOK
  <2>1. peer \in [log : Seq([type : MsgType, xid : Nat]), asked : Nat, left : Nat]
    BY SwitchAssumption DEF SwitchAssumption, Init
  <2>2. tx \in Seq(Cell)
    BY EmptySeq DEF Init
  <2> QED
    BY <1>2, <1>4, <2>1, <2>2 DEF TypeOK
<1> QED
  BY <1>2, <1>4, <1>5, <1>6 DEF Counted

(* A record that expects nothing more in a stream that goes on framed.     *)
LEMMA Resume ==
    ASSUME TypeOK, Rested(sw'), peer' = peer, tx' \in Seq(Cell),
           sock' \in Seq(Cell), Framed(sock'), Short(sock', Longest)
    PROVE  Counted'
<1>1. Counts(sw') /\ Collected(sw') = << >> /\ sw' \in of_switch
  BY DEF Rested, Counts, Roomy
<1>2. << >> \o sock' = sock'
  BY ConcatEmptySeq
<1>3. TypeOK'
  BY <1>1 DEF TypeOK
<1> QED
  BY <1>1, <1>2, <1>3 DEF Counted

LEMMA ReadStepCounted ==
    ASSUME Counted, ReadStep
    PROVE  Counted'
<1>1. PICK n \in 1..Len(sock) :
        /\ n <= sw.bytes_expected
        /\ LET s1 == read_from(sw, n, SubSeq(sock, 1, n))
           IN  IF s1.bytes_expected # 0
               THEN sw' = s1
               ELSE \E m \in Header(s1) :
                      LET s2 == parse_header(s1, m)
                          s3 == dispatch(s2, SwitchFd, m)
                      IN  IF s2.bytes_expected # 0
                          THEN sw' = s2
                          ELSE \/ sw' = await_next_header(s3)
                               \/ /\ s2.of_status = "PACKET_IN" /\ m.info = "probe"
                                  /\ sw' = change_port_behavior(s3, m.port)
        /\ sock' = SubSeq(sock, n + 1, Len(sock))
  BY Zenon DEF ReadStep
<1> DEFINE s1 == read_from(sw, n, SubSeq(sock, 1, n))
           rest == SubSeq(sock, n + 1, Len(sock))
           st == Collected(sw) \o sock
           m == st[1].msg
           s2 == parse_header(s1, m)
<1>2. /\ sw.rw = READ /\ tx' = tx /\ peer' = peer /\ sock' = rest
  BY <1>1 DEF ReadStep
<1>3. /\ Counts(sw) /\ sock \in Seq(Cell) /\ tx \in Seq(Cell) /\ TypeOK
      /\ Framed(st) /\ Short(st, Longest)
  BY DEF Counted, TypeOK
<1>4. /\ Roomy(s1) /\ s1.rw = READ /\ s1.bytes_written = 0
      /\ s1.of_status = sw.of_status
      /\ s1.reading_header = sw.reading_header
      /\ s1.bytes_read = sw.bytes_read + n
      /\ s1.bytes_expected = sw.bytes_expected - n
      /\ s1.bytes_read <= m.len
      /\ s1.read_buffer[1] = Piece(m, 1)
      /\ m \in Message /\ HDR <= m.len /\ m.len <= Longest
      /\ ~sw.reading_header => sw.read_buffer[1].msg = m
      /\ rest \in Seq(Cell)
      /\ Collected(s1) \o rest = st
  BY <1>1, <1>2, <1>3, Receiving, Zenon
<1>5. \/ s1.bytes_expected # 0 /\ sw' = s1
      \/ /\ s1.bytes_expected = 0
         /\ \E h \in Header(s1) :
              LET p2 == parse_header(s1, h)
                  p3 == dispatch(p2, SwitchFd, h)
              IN  IF p2.bytes_expected # 0
                  THEN sw' = p2
                  ELSE \/ sw' = await_next_header(p3)
                       \/ /\ p2.of_status = "PACKET_IN" /\ h.info = "probe"
                          /\ sw' = change_port_behavior(p3, h.port)
  BY <1>1, Zenon
<1> HIDE DEF s1, rest, st, m
<1>6. /\ sw \in of_switch /\ sw.bytes_read \in Nat /\ sw.bytes_expected \in Nat
      /\ n \in Nat /\ n >= 1
      /\ IF sw.reading_header THEN sw.bytes_read + sw.bytes_expected = HDR
         ELSE /\ sw.bytes_read + sw.bytes_expected = sw.read_buffer[1].msg.len
              /\ sw.of_status = sw.read_buffer[1].msg.type
              /\ HDR <= sw.bytes_read
  BY <1>1, <1>2, <1>3, SwitchFields, LenProperties DEF Counts, Roomy, Exact
<1>7. /\ s1 \in of_switch /\ s1.bytes_expected \in Nat /\ s1.bytes_read \in Nat
      /\ s1.bytes_read > 0 /\ s1.rw # WRITE
  BY <1>4, <1>6, SwitchFields, Constants DEF Roomy
<1>8. s1.read_buffer[1].msg = m /\ s1.read_buffer[1].pos = 1
  BY <1>4, PieceFields
<1>9. /\ s1.reading_header => s1.bytes_read + s1.bytes_expected = HDR
      /\ ~s1.reading_header => /\ s1.bytes_read + s1.bytes_expected = m.len
                               /\ s1.of_status = m.type
                               /\ HDR <= s1.bytes_read
  <2>1. s1.bytes_read + s1.bytes_expected = sw.bytes_read + sw.bytes_expected
    BY <1>4, <1>6
  <2>2. HDR <= sw.bytes_read => HDR <= s1.bytes_read
    BY <1>4, <1>6, SizeFacts
  <2> QED
    BY <1>4, <1>6, <2>1, <2>2
<1>10. m.len \in Nat
  BY <1>4, MessageFields
(* A record that goes on reading the same stream.                          *)
<1>11. ASSUME NEW u, sw' = u, Counts(u), Collected(u) = Collected(s1)
       PROVE  Counted'
  <2>1. u \in of_switch
    BY <1>11 DEF Counts, Roomy
  <2>2. TypeOK'
    BY <1>2, <1>3, <1>4, <1>11, <2>1 DEF TypeOK
  <2>3. Collected(sw') \o sock' = st
    BY <1>2, <1>4, <1>11
  <2> QED
    BY <1>3, <1>11, <2>2, <2>3 DEF Counted
<1>12. CASE s1.bytes_expected # 0 /\ sw' = s1
  <2>1. Exact(s1)
    BY <1>7, <1>8, <1>9, <1>12 DEF Exact
  <2>2. Counts(s1)
    BY <1>4, <1>7, <1>8, <1>9, <2>1 DEF Counts
  <2> QED
    BY <1>11, <1>12, <2>2
<1>13. CASE s1.bytes_expected = 0
  <2> DEFINE s3 == dispatch(s2, SwitchFd, m)
  <2>1. Header(s1) = {m}
    <3>1. Len(s1.read_buffer) > 0
      <4>1. s1.read_buffer \in Seq(Cell) /\ BUF <= Len(s1.read_buffer)
        BY <1>4, <1>7, SwitchFields DEF Roomy
      <4> QED
        BY <4>1, LenProperties, SizeFacts
    <3> QED
      BY <1>8, <3>1 DEF Header
  <2>2. IF s2.bytes_expected # 0
        THEN sw' = s2
        ELSE \/ sw' = await_next_header(s3)
             \/ /\ s2.of_status = "PACKET_IN" /\ m.info = "probe"
                /\ sw' = change_port_behavior(s3, m.port)
    BY <1>5, <1>13, <2>1, Zenon
  <2>3. /\ s2 \in of_switch /\ s2.rw = s1.rw /\ ~s2.reading_header
        /\ s2.bytes_read = s1.bytes_read
        /\ s2.bytes_written = s1.bytes_written
        /\ s2.read_buffer = s1.read_buffer /\ s2.write_buffer = s1.write_buffer
        /\ s1.reading_header => s2.of_status = m.type
                                /\ s2.bytes_expected = uint16(m.len - HDR)
        /\ ~s1.reading_header => s2 = s1
    BY <1>4, <1>7, ParseHeaderFields, Zenon
  <2> HIDE DEF s2
  <2>4. uint16(m.len - HDR) = m.len - HDR
    <3>1. m.len - HDR \in Nat /\ m.len - HDR < 65536
      BY <1>4, <1>10, SizeFacts DEF Longest
    <3> QED
      BY <3>1, uint16Small
  <2>5. /\ s2.bytes_read + s2.bytes_expected = m.len /\ s2.of_status = m.type
        /\ HDR <= s2.bytes_read
    <3>1. CASE s1.reading_header
      <4>1. s2.bytes_expected = m.len - HDR /\ s2.of_status = m.type
        BY <2>3, <2>4, <3>1
      <4>2. s2.bytes_read = HDR
        BY <1>7, <1>9, <1>13, <2>3, <3>1
      <4> QED
        BY <1>10, <4>1, <4>2, SizeFacts
    <3>2. CASE ~s1.reading_header
      BY <1>9, <2>3, <3>2
    <3> QED
      BY <3>1, <3>2
  <2>6. Collected(s2) = Collected(s1) /\ Roomy(s2) /\ s2.rw = READ /\ s2.rw # WRITE
    BY <1>4, <1>7, <2>3 DEF Collected, Roomy
  <2>7. s2.bytes_expected \in Nat /\ s2.bytes_read \in Nat
    BY <2>3, SwitchFields
  <2>8. CASE s2.bytes_expected # 0
    <3>1. Exact(s2)
      BY <1>8, <2>3, <2>5, <2>6, <2>7, <2>8 DEF Exact
    <3>2. Counts(s2)
      BY <1>4, <1>8, <2>3, <2>5, <2>6, <3>1 DEF Counts
    <3> QED
      BY <1>11, <2>2, <2>6, <2>8, <3>2
  <2>9. CASE s2.bytes_expected = 0
    <3>1. s1.bytes_read = m.len
      BY <1>10, <2>3, <2>5, <2>7, <2>9
    <3>2. Framed(rest) /\ Short(rest, Longest)
      <4> DEFINE v == Collected(s1)
                 f == [k \in 1..m.len |-> Piece(m, k)]
      <4>1. v = f
        BY <1>4, <1>8, <3>1 DEF Collected
      <4>2. f = Cells(m)
        BY DEF Cells
      <4>3. v \in Seq(Cell) /\ Len(v) = m.len
        <5>1. v = Cells(m)
          BY <4>1, <4>2
        <5> HIDE DEF v
        <5> QED
          BY <1>4, <5>1, CellsType
      <4> HIDE DEF v
      <4>4. v \o rest = st /\ Len(v) > 0
        BY <1>4, <1>10, <4>3, SizeFacts DEF v
      <4>5. Len(v) = (v \o rest)[1].msg.len
        BY <4>3, <4>4 DEF m
      <4> QED
        BY <1>3, <1>4, <4>3, <4>4, <4>5, TakeMessage
    <3>3. Vacant(s2)
      BY <1>4, <2>3, <2>6 DEF Vacant
    <3>4. SwitchFd \in Nat /\ 1 <= m.len /\ m.port \in Nat
      <4>1. 1 <= m.len
        BY <1>4, <1>10, SizeFacts
      <4>2. m.port \in Nat
        BY <1>4 DEF Message
      <4>3. SwitchFd \in Nat
        BY SwitchAssumption DEF SwitchAssumption
      <4> QED
        BY <4>1, <4>2, <4>3
    <3>5. Rested(sw')
      <4>1. CASE sw' = await_next_header(s3)
        BY <1>4, <2>6, <2>9, <3>3, <3>4, <4>1, DispatchRests
      <4>2. CASE /\ s2.of_status = "PACKET_IN" /\ m.info = "probe"
                 /\ sw' = change_port_behavior(s3, m.port)
        <5>1. s3 = s2
          BY <4>2, DispatchProbe
        <5> HIDE DEF s3
        <5> QED
          BY <3>3, <3>4, <4>2, <5>1, PortModRests
      <4> QED
        BY <2>2, <2>9, <4>1, <4>2
    <3> QED
      BY <1>2, <1>3, <1>4, <3>2, <3>5, Resume
  <2> QED
    BY <2>8, <2>9
<1> QED
  BY <1>5, <1>12, <1>13

LEMMA WriteStepCounted ==
    ASSUME Counted, WriteStep
    PROVE  Counted'
<1>1. PICK n \in 1..sw.bytes_expected :
        /\ sw' = handle_write_socket(sw, n)
        /\ tx' = tx \o SubSeq(Pending(sw), 1, n)
  BY Zenon DEF WriteStep
<1> DEFINE t == write_to(sw, n)
           wb == sw.write_buffer
           buf == IF Len(wb) = sw.bytes_written THEN resize_buffer(wb) ELSE wb
           w == sw.bytes_written + sw.bytes_expected
           p == Pending(sw)
           a == SubSeq(p, 1, n)
<1>2. sw.rw = WRITE /\ sock' = sock /\ peer' = peer /\ sw.rw # READ
  BY Constants DEF WriteStep
<1>3. /\ Counts(sw) /\ sw \in of_switch /\ sock \in Seq(Cell) /\ tx \in Seq(Cell)
      /\ TypeOK /\ Roomy(sw)
      /\ Framed(Collected(sw) \o sock) /\ Short(Collected(sw) \o sock, Longest)
  BY DEF Counted, Counts, Roomy, TypeOK
<1>4. Framed(sock) /\ Short(sock, Longest)
  BY <1>2, <1>3, CollectedFacts, ConcatEmptySeq
<1>5. /\ sw.bytes_written \in Nat /\ sw.bytes_expected \in Nat
      /\ n \in Nat /\ n >= 1 /\ n <= sw.bytes_expected
      /\ wb \in Seq(Cell) /\ Len(wb) \in Nat /\ BUF <= Len(wb) /\ 1 \in 1..Len(wb)
      /\ BUF <= Len(sw.read_buffer)
  BY <1>1, <1>3, SwitchFields, LenProperties, SizeFacts DEF Roomy
<1>6. \/ w <= BUF
      \/ w = wb[1].msg.len /\ w <= Longest
  BY <1>2, <1>3 DEF Counts
<1>7. w < 65536
  BY <1>5, <1>6, SizeFacts DEF Longest
<1>8. tx' = tx \o a /\ tx' \in Seq(Cell)
  <2>1. p = Slice(wb, sw.bytes_written, sw.bytes_expected)
    BY <1>2 DEF Pending
  <2> HIDE DEF p, wb
  <2>2. p \in Seq(Cell) /\ Len(p) = sw.bytes_expected
    BY <1>5, <2>1, SliceType, Zenon
  <2>3. n \in 1..Len(p)
    BY <1>1, <2>2
  <2>4. a \in Seq(Cell)
    BY <2>2, <2>3, SplitSeq
  <2>5. tx' = tx \o a
    BY <1>1 DEF p
  <2> HIDE DEF a
  <2> QED
    BY <1>3, <2>4, <2>5, ConcatFacts
<1>9. /\ t \in of_switch /\ t.rw = sw.rw /\ t.read_buffer = sw.read_buffer
      /\ t.bytes_written = sw.bytes_written + n
      /\ t.bytes_expected = sw.bytes_expected - n
  <2>1. /\ sw.bytes_written + n \in Nat /\ sw.bytes_written + n < 65536
        /\ sw.bytes_expected - n \in Nat /\ sw.bytes_expected - n < 65536
    BY <1>5, <1>7
  <2>2. /\ uint16(sw.bytes_written + n) = sw.bytes_written + n
        /\ uint16(sw.bytes_expected - n) = sw.bytes_expected - n
    BY <2>1, uint16Small
  <2> QED
    BY <1>3, <1>5, <2>2, WriteToFields, Zenon
<1>10. t.write_buffer = buf
  BY <1>3, Zenon DEF write_to, of_switch
<1>11. Len(wb) <= Len(buf) /\ Len(buf) \in Nat /\ buf[1] = wb[1]
  BY <1>5, Grown
<1>12. sw' = IF t.bytes_expected # 0 THEN t ELSE next_write(t)
  <2>1. sw.bytes_expected # 0
    BY <1>5
  <2> QED
    BY <1>1, <2>1, Zenon DEF handle_write_socket
<1> HIDE DEF t, buf
<1>13. Roomy(t)
  BY <1>5, <1>9, <1>10, <1>11, SizeFacts DEF Roomy
<1>14. CASE t.bytes_expected # 0
  <2>1. t.rw # READ /\ t.rw = WRITE /\ t.bytes_expected > 0
    BY <1>2, <1>9, <1>14, SwitchFields
  <2>2. t.bytes_written + t.bytes_expected = w
    BY <1>5, <1>9
  <2>3. Exact(t)
    BY <2>1 DEF Exact
  <2>4. Counts(t)
    BY <1>6, <1>10, <1>11, <1>13, <2>1, <2>2, <2>3 DEF Counts
  <2>5. Rested(sw')
    BY <1>12, <1>14, <2>1, <2>4, CollectedFacts DEF Rested
  <2> QED
    BY <1>2, <1>3, <1>4, <1>8, <2>5, Resume
<1>15. CASE t.bytes_expected = 0
  <2>1. Rested(sw')
    BY <1>12, <1>13, <1>15, NextWriteRests
  <2> QED
    BY <1>2, <1>3, <1>4, <1>8, <2>1, Resume
<1> QED
  BY <1>14, <1>15

LEMMA SwitchStepCounted ==
    ASSUME Counted, SwitchReceives \/ SwitchSays
    PROVE  Counted'
<1> DEFINE v == Collected(sw)
<1>1. /\ TypeOK /\ Counts(sw) /\ Framed(v \o sock) /\ Short(v \o sock, Longest)
  BY DEF Counted
<1>2. v \in Seq(Cell)
  BY <1>1, CollectedFacts
<1> HIDE DEF v
<1>3. sw' = sw /\ TypeOK' /\ Framed(v \o sock') /\ Short(v \o sock', Longest)
  BY <1>1, <1>2, LimitLongest, AnswerFramed, TalkFramed
<1> QED
  BY <1>1, <1>3 DEF Counted, v

(* However long the switch's messages are, each step keeps Counted.        *)
THEOREM CountedInvariance == Spec => []Counted
<1>1. Init => Counted
  BY InitCounted
<1>2. Counted /\ [Next]_vars => Counted'
  <2> SUFFICES ASSUME Counted, [Next]_vars PROVE Counted'
    OBVIOUS
  <2>1. CASE ReadStep
    BY <2>1, ReadStepCounted
  <2>2. CASE WriteStep
    BY <2>2, WriteStepCounted
  <2>3. CASE SwitchReceives \/ SwitchSays
    BY <2>3, SwitchStepCounted
  <2>4. CASE UNCHANGED vars
    BY <2>4 DEF vars, Counted, TypeOK
  <2> QED
    BY <2>1, <2>2, <2>3, <2>4 DEF Next
<1> QED
  BY <1>1, <1>2, PTL DEF Spec

(* Only a message longer than the buffers takes a counter out of them,     *)
(* however reads and writes are split (read_from, write_to).               *)
THEOREM OverrunsAreLong == Spec => []OverrunIsLong
<1>1. Counted => OverrunIsLong
  <2> SUFFICES ASSUME Counted PROVE OverrunIsLong
    OBVIOUS
  <2> DEFINE r == sw.bytes_read + sw.bytes_expected
             w == sw.bytes_written + sw.bytes_expected
  <2>1. /\ Counts(sw) /\ sw \in of_switch /\ r \in Nat /\ w \in Nat
        /\ Len(sw.read_buffer) \in Nat /\ Len(sw.write_buffer) \in Nat
        /\ BUF <= Len(sw.read_buffer) /\ BUF <= Len(sw.write_buffer)
    BY SwitchFields, LenProperties DEF Counted, Counts, Roomy
  <2>2. ASSUME sw.rw = READ, ~(r <= Len(sw.read_buffer))
        PROVE  Overlong(sw)
    <3>1. r > BUF
      BY <2>1, <2>2, SizeFacts
    <3>2. ~sw.reading_header /\ r = sw.read_buffer[1].msg.len
      BY <2>1, <2>2, <3>1, SizeFacts DEF Counts, Exact
    <3> QED
      BY <2>2, <3>1, <3>2 DEF Overlong
  <2>3. ASSUME sw.rw = WRITE, ~(w <= Len(sw.write_buffer))
        PROVE  Overlong(sw)
    <3>1. w > BUF
      BY <2>1, <2>3, SizeFacts
    <3>2. w = sw.write_buffer[1].msg.len
      BY <2>1, <2>3, <3>1, SizeFacts DEF Counts
    <3> QED
      BY <2>3, <3>1, <3>2 DEF Overlong
  <2> QED
    BY <2>2, <2>3 DEF OverrunIsLong, NoOverflow, Fits
<1> QED
  BY <1>1, CountedInvariance, PTL

(* The record, the two streams and the switch's notes keep their types.    *)
THEOREM TypeCorrect == Spec => []TypeOK
<1>1. Counted => TypeOK
  BY DEF Counted
<1> QED
  BY <1>1, CountedInvariance, PTL

(* bytes_expected is exactly what is missing of the header or the message, *)
(* and never 0 in a reader or a writer, however long the message is.       *)
THEOREM ExpectationIsExact == Spec => []ExpectationExact
<1>1. Counted => ExpectationExact
  BY DEF Counted, Counts, ExpectationExact
<1> QED
  BY <1>1, CountedInvariance, PTL

-----------------------------------------------------------------------------
(* As long as the switch has not got the whole setup, what is on its way   *)
(* to it, waits in the write buffer, or is still to be composed begins     *)
(* with the rest of the setup.                                             *)
SetupInv ==
    /\ SetupInOrder
    /\ FlagsInOrder(sw)
    /\ sw.rw # WRITE => Uncomposed(sw) = << >>
    /\ Len(peer.log) < 6 => Starts(tx \o ToSend(sw), Rest(Len(peer.log)))

-----------------------------------------------------------------------------
LEMMA ReadersKeepFlags ==
    ASSUME NEW s \in of_switch, NEW m, NEW n, NEW data
    PROVE  /\ SameFlags(read_from(s, n, data), s)
           /\ SameFlags(parse_header(s, m), s)
           /\ SameFlags(await_next_header(s), s)
           /\ SameFlags(save_connected_ports(s, m), s)
           /\ SameFlags([s EXCEPT !.rw = DISCONNECTED], s)
<1>1. SameFlags(read_from(s, n, data), s)
  BY Zenon DEF SameFlags, read_from, of_switch
<1>2. SameFlags(parse_header(s, m), s)
  BY Zenon DEF SameFlags, parse_header, of_switch
<1>3. SameFlags(await_next_header(s), s)
  BY Zenon DEF SameFlags, await_next_header, of_switch
<1>4. SameFlags(save_connected_ports(s, m), s)
  BY Zenon DEF SameFlags, save_connected_ports, of_switch
<1>5. SameFlags([s EXCEPT !.rw = DISCONNECTED], s)
  BY Zenon DEF SameFlags, of_switch
<1> QED
  BY <1>1, <1>2, <1>3, <1>4, <1>5

LEMMA HeaderType ==
    ASSUME NEW s \in of_switch, NEW m \in Header(s)
    PROVE  m \in Message
<1>1. s.read_buffer \in Seq(Cell) /\ Len(s.read_buffer) \in Nat
  BY SwitchFields, LenProperties
<1>2. CASE Len(s.read_buffer) > 0 /\ s.read_buffer[1].pos = 1
  <2>1. 1 \in 1..Len(s.read_buffer)
    BY <1>1, <1>2
  <2>2. s.read_buffer[1].msg \in Message
    BY <1>1, <2>1, CellFields
  <2> QED
    BY <1>2, <2>2 DEF Header
<1>3. CASE ~(Len(s.read_buffer) > 0 /\ s.read_buffer[1].pos = 1)
  <2>1. m \in Garbage
    BY <1>3, Zenon DEF Header
  <2> QED
    BY <2>1, SizesAssumption DEF SizesAssumption
<1> QED
  BY <1>2, <1>3

LEMMA DispatchKeepsFlags ==
    ASSUME NEW s \in of_switch, NEW fd \in Nat, NEW m \in Message
    PROVE  LET d == dispatch(s, fd, m)
           IN  d \in of_switch /\ SameFlags(d, s)
<1> DEFINE d == dispatch(s, fd, m)
           x == [s EXCEPT !.rw = DISCONNECTED]
           c == save_connected_ports(s, m)
           e == make_echo_reply(s, m)
           f == send_probe_packet(s, fd)
           h == write_new_flow(s)
           g == write_new_flow(h)
           p == [Own("PACKET_OUT") EXCEPT !.info = "probe", !.fd = fd]
           o == Own("FLOW_MOD")
<1>1. x \in of_switch /\ SameFlags(x, s)
  <2>1. x \in of_switch
    BY Constants, Zenon DEF of_switch
  <2>2. SameFlags(x, s)
    BY ReadersKeepFlags, Zenon
  <2> QED
    BY <2>1, <2>2
<1>2. c \in of_switch /\ SameFlags(c, s)
  BY PortsFields, ReadersKeepFlags, Zenon
<1>3. e \in of_switch /\ SameFlags(e, s)
  BY MakeEchoReplyFields, WritersKeepFlags, Zenon
<1>4. f \in of_switch /\ SameFlags(f, s)
  <2>1. "PACKET_OUT" \in MsgType /\ "probe" \in Info
    BY DEF MsgType, Info
  <2>2. Own("PACKET_OUT") \in Message
    BY <2>1, OwnFields
  <2>3. p \in Message
    BY <2>1, <2>2, Zenon DEF Message
  <2>4. f = Compose(s, p)
    BY Zenon DEF send_probe_packet
  <2> HIDE DEF p
  <2>5. Compose(s, p) \in of_switch
    BY <2>3, ComposeFields, Zenon
  <2> QED
    BY <2>4, <2>5, WritersKeepFlags, Zenon
<1>5. g \in of_switch /\ SameFlags(g, s)
  <2>1. "FLOW_MOD" \in MsgType
    BY DEF MsgType
  <2>2. o \in Message
    BY <2>1, OwnFields
  <2>3. h = ComposeMore(s, o) /\ g = ComposeMore(h, o)
    BY DEF write_new_flow
  <2> HIDE DEF o, h, g
  <2>4. h \in of_switch /\ SameFlags(h, s)
    BY <2>2, <2>3, ComposeMoreFields, WritersKeepFlags, Zenon
  <2>5. g \in of_switch /\ SameFlags(g, h)
    BY <2>2, <2>3, <2>4, ComposeMoreFields, WritersKeepFlags, Zenon
  <2> QED
    BY <2>4, <2>5 DEF SameFlags
<1>6. SameFlags(s, s)
  BY DEF SameFlags
<1>7. d = CASE s.of_status = "ECHO_REQUEST" -> e
            [] s.of_status = "MULTIPART_REPLY" -> c
            [] s.of_status = "FEATURES_REPLY" -> f
            [] s.of_status = "PACKET_IN" /\ m.info = "host" -> g
            [] s.of_status \notin Known -> x
            [] OTHER -> s
  BY Zenon DEF dispatch
<1> HIDE DEF d, x, c, e, f, g
<1>8. d = x \/ d = s \/ d = c \/ d = e \/ d = f \/ d = g
  BY <1>7
<1>9. d \in of_switch /\ SameFlags(d, s)
  BY <1>1, <1>2, <1>3, <1>4, <1>5, <1>6, <1>8
<1> QED
  BY <1>9 DEF d

LEMMA SameFlagsChain ==
    ASSUME NEW s, NEW t, NEW u, SameFlags(t, s), SameFlags(u, t)
    PROVE  SameFlags(u, s)
BY DEF SameFlags

LEMMA ReadKeepsFlags ==
    ASSUME IInv, ReadStep
    PROVE  SameFlags(sw', sw)
<1>1. PICK n \in 1..Len(sock) :
        LET s1 == read_from(sw, n, SubSeq(sock, 1, n))
        IN  IF s1.bytes_expected # 0
            THEN sw' = s1
            ELSE \E m \in Header(s1) :
                   LET s2 == parse_header(s1, m)
                       s3 == dispatch(s2, SwitchFd, m)
                   IN  IF s2.bytes_expected # 0
                       THEN sw' = s2
                       ELSE \/ sw' = await_next_header(s3)
                            \/ /\ s2.of_status = "PACKET_IN" /\ m.info = "probe"
                               /\ sw' = change_port_behavior(s3, m.port)
  BY Zenon DEF ReadStep
<1> DEFINE s1 == read_from(sw, n, SubSeq(sock, 1, n))
<1>2. sw \in of_switch /\ sock \in Seq(Cell) /\ SwitchFd \in Nat
  BY SwitchAssumption DEF IInv, TypeOK, SwitchAssumption
<1>3. s1 \in of_switch /\ SameFlags(s1, sw)
  <2>1. SubSeq(sock, 1, n) \in Seq(Cell) /\ n \in Nat
    BY <1>2, SplitSeq
  <2> QED
    BY <1>2, <2>1, ReadFromFields, ReadersKeepFlags, Zenon
<1>4. \/ sw' = s1
      \/ \E m \in Header(s1) :
           LET s2 == parse_header(s1, m)
               s3 == dispatch(s2, SwitchFd, m)
           IN  \/ sw' = s2
               \/ sw' = await_next_header(s3)
               \/ sw' = change_port_behavior(s3, m.port)
  BY <1>1, Zenon
<1> HIDE DEF s1
<1>5. CASE sw' = s1
  BY <1>3, <1>5
<1>6. ASSUME NEW m \in Header(s1),
             LET s2 == parse_header(s1, m)
                 s3 == dispatch(s2, SwitchFd, m)
             IN  \/ sw' = s2
                 \/ sw' = await_next_header(s3)
                 \/ sw' = change_port_behavior(s3, m.port)
      PROVE  SameFlags(sw', sw)
  <2> DEFINE s2 == parse_header(s1, m)
             s3 == dispatch(s2, SwitchFd, m)
  <2>1. m \in Message
    BY <1>3, <1>6, HeaderType
  <2>2. s2 \in of_switch /\ SameFlags(s2, s1)
    BY <1>3, <2>1, ParseHeaderFields, ReadersKeepFlags, Zenon
  <2>3. s3 \in of_switch /\ SameFlags(s3, s2)
    <3> HIDE DEF s2
    <3> QED
      BY <1>2, <2>1, <2>2, DispatchKeepsFlags, Zenon
  <2>4. sw' = s2 \/ sw' = await_next_header(s3) \/ sw' = change_port_behavior(s3, m.port)
    BY <1>6, Zenon
  <2> HIDE DEF s2, s3
  <2>5. SameFlags(s3, sw) /\ SameFlags(s2, sw)
    BY <1>3, <2>2, <2>3 DEF SameFlags
  <2>6. CASE sw' = await_next_header(s3)
    BY <2>3, <2>5, <2>6, ReadersKeepFlags, SameFlagsChain, Zenon
  <2>7. CASE sw' = change_port_behavior(s3, m.port)
    <3>1. PICK q : sw' = Compose(s3, q)
      BY <2>7, Zenon DEF change_port_behavior
    <3> QED
      BY <2>3, <2>5, <3>1, WritersKeepFlags, SameFlagsChain, Zenon
  <2> QED
    BY <2>4, <2>5, <2>6, <2>7
<1> QED
  BY <1>4, <1>5, <1>6, Zenon

-----------------------------------------------------------------------------
(* The steps of the conversation.                                          *)

LEMMA LogType ==
    ASSUME IInv
    PROVE  /\ peer.log \in Seq([type : MsgType, xid : Nat])
           /\ Len(peer.log) \in Nat
           /\ Len(peer.log) < 6 => Len(peer.log) \in 0..5
<1>1. peer.log \in Seq([type : MsgType, xid : Nat])
  BY DEF IInv, TypeOK
<1> DEFINE k == Len(peer.log)
<1>2. k \in Nat
  BY <1>1, LenProperties, Zenon
<1> HIDE DEF k
<1>3. k < 6 => k \in 0..5
  BY <1>2
<1> QED
  BY <1>1, <1>2, <1>3 DEF k

LEMMA InitSetup ==
    ASSUME Init
    PROVE  SetupInv
<1>1. /\ sw = new_switch /\ tx = << >> /\ peer.log = << >>
  BY DEF Init
<1>2. FlagsInOrder(sw) /\ sw.rw = WRITE
  BY <1>1, NewSwitchSetup
<1>3. Len(peer.log) = 0
  BY <1>1, EmptySeq
<1>4. Starts(tx \o ToSend(sw), Rest(Len(peer.log)))
  <2>1. << >> \o Rest(0) = Rest(0)
    BY NewSwitchToSend, ConcatEmptySeq
  <2> QED
    BY <1>1, <1>3, <2>1, NewSwitchToSend, Zenon
<1>5. SetupInOrder
  BY <1>3 DEF SetupInOrder
<1> QED
  BY <1>2, <1>4, <1>5, Zenon DEF SetupInv

LEMMA ReadStepSetup ==
    ASSUME IInv, IInv', SetupInv, ReadStep
    PROVE  SetupInv'
<1> DEFINE k == Len(peer.log)
           q == ToSend(sw')
<1>1. sw.rw # WRITE /\ tx' = tx /\ peer' = peer
  BY Constants DEF ReadStep
<1>2. SameFlags(sw', sw)
  BY ReadKeepsFlags
<1>3. Uncomposed(sw) = << >> /\ Uncomposed(sw') = << >> /\ FlagsInOrder(sw')
  BY <1>1, <1>2, SameUncomposed DEF SetupInv
<1>4. ToSend(sw) = << >> /\ tx \in Seq(Cell)
  BY <1>1, <1>3, NotWriting, EmptySeq, ConcatEmptySeq DEF ToSend, IInv, TypeOK
<1>5. q \in Seq(Cell)
  BY ToSendType DEF IInv, TypeOK
<1> HIDE DEF q
<1>6. tx \o ToSend(sw) = tx
  BY <1>4, ConcatEmptySeq
<1>7. ASSUME k < 6
      PROVE  Starts(tx' \o q, Rest(k))
  <2>1. Starts(tx, Rest(k)) /\ Rest(k) \in Seq(Cell)
    BY <1>6, <1>7, LogType, RestStep DEF SetupInv
  <2> QED
    BY <1>1, <1>4, <1>5, <2>1, StartsLonger
<1>8. SetupInOrder'
  BY <1>1 DEF SetupInv, SetupInOrder
<1> QED
  BY <1>1, <1>3, <1>7, <1>8 DEF SetupInv, q, k

(* What the controller has handed over and will still send is one stream.  *)
LEMMA WriteShape ==
    ASSUME IInv, SetupInv, WriteStep
    PROVE  \E a \in Seq(Cell) :
             /\ tx' = tx \o a /\ ToSend(sw) = a \o ToSend(sw')
             /\ FlagsInOrder(sw')
             /\ sw'.rw # WRITE => Uncomposed(sw') = << >>
             /\ Received(sw') = << >> /\ sw'.rw # DISCONNECTED
             /\ Pending(sw') \in Seq(Cell) /\ ToSend(sw') \in Seq(Cell)
<1>1. PICK n \in 1..sw.bytes_expected :
        /\ sw' = handle_write_socket(sw, n)
        /\ tx' = tx \o SubSeq(Pending(sw), 1, n)
  BY Zenon DEF WriteStep
<1>2. sw.rw = WRITE /\ sw \in of_switch /\ SwitchInv(sw) /\ FlagsInOrder(sw)
  BY DEF WriteStep, IInv, TypeOK, SetupInv
<1> DEFINE a == SubSeq(Pending(sw), 1, n)
           t == handle_write_socket(sw, n)
<1>3. /\ a \in Seq(Cell) /\ ToSend(sw) = a \o ToSend(t)
      /\ t \in of_switch /\ SwitchInv(t) /\ FlagsInOrder(t)
      /\ t.rw # WRITE => Uncomposed(t) = << >>
      /\ Received(t) = << >> /\ t.rw # DISCONNECTED
  BY <1>2, WriteOut, Zenon
<1>4. tx' = tx \o a /\ sw' = t
  BY <1>1
<1> HIDE DEF a, t
<1>5. Pending(t) \in Seq(Cell) /\ ToSend(t) \in Seq(Cell)
  BY <1>3, ToSendType
<1> QED
  BY <1>3, <1>4, <1>5

LEMMA WriteStepSetup ==
    ASSUME IInv, SetupInv, WriteStep
    PROVE  SetupInv'
<1>1. PICK a \in Seq(Cell) :
        /\ tx' = tx \o a /\ ToSend(sw) = a \o ToSend(sw')
        /\ FlagsInOrder(sw')
        /\ sw'.rw # WRITE => Uncomposed(sw') = << >>
        /\ ToSend(sw') \in Seq(Cell)
  BY WriteShape
<1>2. peer' = peer /\ tx \in Seq(Cell)
  BY DEF WriteStep, IInv, TypeOK
<1> DEFINE r == ToSend(sw')
<1>3. r \in Seq(Cell)
  BY <1>1
<1> HIDE DEF r
<1>4. (tx \o a) \o r = tx \o (a \o r)
  BY <1>1, <1>2, <1>3, ConcatCells
<1>5. tx' \o ToSend(sw') = tx \o ToSend(sw)
  BY <1>1, <1>4, Zenon DEF r
<1>6. SetupInOrder'
  BY <1>2 DEF SetupInv, SetupInOrder
<1>7. Len(peer'.log) < 6 => Starts(tx' \o ToSend(sw'), Rest(Len(peer'.log)))
  BY <1>2, <1>5 DEF SetupInv
<1> QED
  BY <1>1, <1>6, <1>7 DEF SetupInv

LEMMA SwitchReceivesSetup ==
    ASSUME IInv, SetupInv, SwitchReceives
    PROVE  SetupInv'
<1> DEFINE m == tx[1].msg
           b == SubSeq(tx, m.len + 1, Len(tx))
           k == Len(peer.log)
           log2 == Append(peer.log, Note(m))
           N == [type : MsgType, xid : Nat]
<1>1. /\ tx # << >> /\ m.len <= Len(tx) /\ sw' = sw /\ tx' = b
      /\ peer' = [peer EXCEPT !.log = log2]
  BY DEF SwitchReceives
<1>2. tx \in Seq(Cell) /\ ToSend(sw) \in Seq(Cell)
  BY ToSendType DEF IInv, TypeOK
<1>3. peer.log \in Seq(N) /\ k \in Nat /\ (k < 6 => k \in 0..5)
  BY LogType
<1>4. peer'.log = log2
  BY <1>1 DEF IInv, TypeOK
<1>5. Len(tx) \in Nat /\ 1 \in 1..Len(tx)
  BY <1>1, <1>2, EmptySeq, LenProperties
<1>6. Note(m) \in N /\ Note(m).type = m.type
  BY <1>2, <1>5, CellFields DEF Message, Note
<1>7. k < 6 => /\ m.type = SetupTypes[k + 1]
               /\ Starts(b \o ToSend(sw), Rest(k + 1))
  <2> HAVE k < 6
  <2>1. k \in 0..5 /\ Starts(tx \o ToSend(sw), Rest(k))
    BY <1>3 DEF SetupInv
  <2>2. tx # << >> /\ tx[1].msg.len <= Len(tx)
    BY <1>1
  <2> HIDE DEF k
  <2> QED
    BY <1>2, <2>1, <2>2, GetsNext, Zenon
<1> HIDE DEF m, N
<1>8. Ordered(peer.log)
  BY DEF SetupInv, SetupInOrder, Ordered
<1>9. Ordered(log2)
  <2>1. k < 6 => Note(m).type = SetupTypes[k + 1]
    BY <1>6, <1>7
  <2> QED
    BY <1>3, <1>6, <1>8, <2>1, OrderedNext
<1>10. Len(log2) = k + 1
  BY <1>3, <1>6, AppendProperties
<1> HIDE DEF log2, b
<1>11. SetupInOrder'
  BY <1>4, <1>9 DEF SetupInOrder, Ordered
<1>12. Len(peer'.log) < 6 => Starts(tx' \o ToSend(sw'), Rest(Len(peer'.log)))
  BY <1>1, <1>3, <1>4, <1>7, <1>10
<1> QED
  BY <1>1, <1>11, <1>12 DEF SetupInv

LEMMA SwitchSaysSetup ==
    ASSUME IInv, SetupInv, SwitchSays
    PROVE  SetupInv'
<1>1. sw' = sw /\ tx' = tx
  BY DEF SwitchSays
<1>2. peer'.log = peer.log
  <2>1. PICK x, y : peer' = [peer EXCEPT !.asked = x, !.left = y]
    BY Zenon DEF SwitchSays
  <2>2. peer \in [log : Seq([type : MsgType, xid : Nat]), asked : Nat, left : Nat]
    BY DEF IInv, TypeOK
  <2> QED
    BY <2>1, <2>2, Zenon
<1> QED
  BY <1>1, <1>2 DEF SetupInv, SetupInOrder

-----------------------------------------------------------------------------
LEMMA SetupInvariance == ASSUME ShortMessages PROVE Spec => []SetupInv
<1>1. Init => SetupInv
  BY InitSetup
<1>2. IInv /\ IInv' /\ SetupInv /\ [Next]_vars => SetupInv'
  <2> SUFFICES ASSUME IInv, IInv', SetupInv, [Next]_vars PROVE SetupInv'
    OBVIOUS
  <2>1. CASE ReadStep
    BY <2>1, ReadStepSetup
  <2>2. CASE WriteStep
    BY <2>2, WriteStepSetup
  <2>3. CASE SwitchReceives
    BY <2>3, SwitchReceivesSetup
  <2>4. CASE SwitchSays
    BY <2>4, SwitchSaysSetup
  <2>5. CASE UNCHANGED vars
    BY <2>5 DEF vars, SetupInv, SetupInOrder
  <2> QED
    BY <2>1, <2>2, <2>3, <2>4, <2>5 DEF Next
<1> QED
  BY <1>1, <1>2, Invariance, PTL DEF Spec

(* The switch gets HELLO, FEATURES_REQUEST, SET_CONFIG, MULTIPART_REQUEST  *)
(* and the two default flows, in this order and before anything else,      *)
(* however the messages are cut into pieces (handle_write_socket).         *)
THEOREM SetupOrdered == ASSUME ShortMessages PROVE Spec => []SetupInOrder
<1>1. SetupInv => SetupInOrder
  BY DEF SetupInv
<1> QED
  BY <1>1, SetupInvariance, PTL

-----------------------------------------------------------------------------
(* The messages whose last cells a stream holds.                           *)

LEMMA EndsType ==
    ASSUME NEW st \in Seq(Cell)
    PROVE  /\ Ends(st) \in Seq(Message)
           /\ Len(Ends(st)) = Len(Pick(st, LastCells))
           /\ Len(Ends(st)) \in Nat
           /\ \A i \in 1..Len(Ends(st)) : Ends(st)[i] = Pick(st, LastCells)[i].msg
<1> DEFINE p == Pick(st, LastCells)
<1>1. p \in Seq(Cell)
  <2>1. p \in Seq(Cell \cap LastCells)
    BY PickType
  <2> HIDE DEF p
  <2> QED
    BY <2>1, SeqMonotonic
<1> HIDE DEF p
<1>2. Len(p) \in Nat /\ \A i \in 1..Len(p) : p[i].msg \in Message
  BY <1>1, CellFields, LenProperties
<1>3. Ends(st) = [i \in 1..Len(p) |-> p[i].msg]
  BY DEF Ends, p
<1>4. [i \in 1..Len(p) |-> p[i].msg] \in [1..Len(p) -> Message]
  BY <1>2
<1>5. Ends(st) \in Seq(Message) /\ Len(Ends(st)) = Len(p)
  BY <1>2, <1>3, <1>4, FunctionIsSeq
<1> QED
  BY <1>2, <1>3, <1>5 DEF p

(* The messages that end in two streams end in the one behind the other.   *)
LEMMA EndsConcat ==
    ASSUME NEW a \in Seq(Cell), NEW b \in Seq(Cell)
    PROVE  Ends(a \o b) = Ends(a) \o Ends(b)
<1> DEFINE p == Pick(a, LastCells)
           q == Pick(b, LastCells)
           c == a \o b
           x == Ends(a)
           y == Ends(b)
           z == Ends(c)
<1>1. p \in Seq(Cell) /\ q \in Seq(Cell)
  <2>1. p \in Seq(Cell \cap LastCells) /\ q \in Seq(Cell \cap LastCells)
    BY PickType
  <2> HIDE DEF p, q
  <2> QED
    BY <2>1, SeqMonotonic
<1>2. c \in Seq(Cell) /\ Pick(c, LastCells) = p \o q
  BY PickConcat, ConcatProperties
<1> HIDE DEF c
<1>3. /\ x \in Seq(Message) /\ Len(x) = Len(p) /\ \A i \in 1..Len(x) : x[i] = p[i].msg
      /\ y \in Seq(Message) /\ Len(y) = Len(q) /\ \A i \in 1..Len(y) : y[i] = q[i].msg
      /\ z \in Seq(Message) /\ Len(z) = Len(p \o q)
      /\ \A i \in 1..Len(z) : z[i] = (p \o q)[i].msg
  BY <1>2, EndsType
<1> HIDE DEF p, q, x, y, z
<1>4. /\ Len(p) \in Nat /\ Len(q) \in Nat /\ Len(p \o q) = Len(p) + Len(q)
      /\ \A i \in 1..Len(p) : (p \o q)[i] = p[i]
      /\ \A i \in 1..Len(q) : (p \o q)[Len(p) + i] = q[i]
  BY <1>1, ConcatFacts
<1>5. /\ x \o y \in Seq(Message) /\ Len(x \o y) = Len(x) + Len(y)
      /\ \A i \in 1..Len(x) : (x \o y)[i] = x[i]
      /\ \A i \in 1..Len(y) : (x \o y)[Len(x) + i] = y[i]
  <2>1. x \in Seq(Message) /\ y \in Seq(Message)
    BY <1>3
  <2> QED
    BY <2>1, JoinFacts
<1>6. ASSUME NEW i \in 1..Len(z) PROVE z[i] = (x \o y)[i]
  <2>1. CASE i <= Len(p)
    <3>1. i \in 1..Len(x)
      BY <1>3, <1>4, <2>1
    <3> QED
      BY <1>3, <1>4, <1>5, <3>1
  <2>2. CASE i > Len(p)
    <3>1. PICK j \in 1..Len(y) : i = Len(p) + j
      <4>1. i - Len(p) \in 1..Len(y) /\ Len(p) + (i - Len(p)) = i
        BY <1>3, <1>4, <2>2
      <4> QED
        BY <4>1
    <3>2. z[i] = (p \o q)[Len(p) + j].msg /\ (p \o q)[Len(p) + j] = q[j]
      BY <1>3, <1>4, <3>1
    <3>3. (x \o y)[Len(x) + j] = y[j] /\ y[j] = q[j].msg
      BY <1>3, <1>5, <3>1
    <3> QED
      BY <1>3, <3>1, <3>2, <3>3
  <2> QED
    BY <1>3, <1>4, <2>1, <2>2
<1>7. Len(z) = Len(x \o y)
  BY <1>3, <1>4, <1>5
<1>8. z = x \o y
  BY <1>3, <1>5, <1>6, <1>7, SeqEqual
<1> QED
  BY <1>8 DEF x, y, z, c

LEMMA EndsEmpty == Ends(<< >>) = << >>
<1>1. Len(Ends(<< >>)) = 0 /\ Ends(<< >>) \in Seq(Message)
  BY EndsType, PickEmpty, EmptySeq
<1> QED
  BY <1>1, EmptySeq

(* A message ends with its last cell, and only there.                      *)
LEMMA EndsCells ==
    ASSUME NEW m \in Message, 1 <= m.len
    PROVE  Ends(Cells(m)) = << m >>
<1> DEFINE c == Cells(m)
           l == m.len
           last == Piece(m, l)
           e == Ends(c)
<1>1. /\ c \in Seq(Cell) /\ Len(c) = l /\ l \in Nat
      /\ \A i \in 1..l : c[i] = Piece(m, i)
  BY CellsType, MessageFields
<1>2. c # << >>
  BY <1>1
<1> HIDE DEF c
<1>3. PICK a \in Seq(Cell), x \in Cell : c = Append(a, x)
  BY <1>1, <1>2, SequenceEmptyOrAppend, Zenon
<1>4. /\ Len(a) \in Nat /\ l = Len(a) + 1 /\ x = c[l]
      /\ \A i \in 1..Len(a) : a[i] = c[i]
  BY <1>1, <1>3, AppendProperties, LenProperties
<1>5. x = last
  BY <1>1, <1>4
<1>6. last.msg = m /\ last.pos = l
  BY PieceFields
<1>7. x \in LastCells
  BY <1>3, <1>5, <1>6 DEF LastCells
<1>8. ASSUME NEW i \in 1..Len(a) PROVE a[i] \notin LastCells
  <2>1. a[i] = Piece(m, i) /\ i # l
    BY <1>1, <1>4
  <2>2. a[i].msg = m /\ a[i].pos = i
    BY <2>1, PieceFields
  <2> QED
    BY <2>1, <2>2 DEF LastCells
<1>9. Pick(a, LastCells) = << >>
  BY <1>8, PickNone
<1>10. Pick(c, LastCells) = <<x>>
  <2>1. Pick(Append(a, x), LastCells) = Append(<< >>, x)
    BY <1>3, <1>7, <1>9, PickAppend, Zenon
  <2> QED
    BY <1>3, <2>1
<1>11. e \in Seq(Message) /\ Len(e) = 1 /\ e[1] = x.msg
  BY <1>1, <1>10, EndsType
<1> HIDE DEF e
<1>12. e = <<m>>
  BY <1>5, <1>6, <1>11
<1> QED
  BY <1>12 DEF e, c

-----------------------------------------------------------------------------
(* What is owed to the switch are the ends of the stream still to come:    *)
(* what waits in the write buffer and what next_write has not composed.    *)

Owed(s) == Ends(Pending(s)) \o SetupLeft(s)

LEMMA ConcatMessages ==
    ASSUME NEW a \in Seq(Message), NEW b \in Seq(Message), NEW c \in Seq(Message)
    PROVE  (a \o b) \o c = a \o (b \o c) /\ a \o b \in Seq(Message)
BY ConcatAssociative, ConcatProperties

LEMMA OneMessage ==
    ASSUME NEW x \in Message
    PROVE  /\ << x >> \in Seq(Message) /\ << x, x >> \in Seq(Message)
           /\ << x >> \o << x >> = << x, x >>
<1>1. << x >> \in Seq(Message) /\ << x, x >> \in Seq(Message)
  OBVIOUS
<1>2. << x >> \o << x >> = << x, x >>
  <2> DEFINE a == << x >>
             b == << x, x >>
  <2>1. /\ Len(a) = 1 /\ a[1] = x /\ Len(b) = 2 /\ b[1] = x /\ b[2] = x
    OBVIOUS
  <2> HIDE DEF a, b
  <2>2. a \in Seq(Message) /\ b \in Seq(Message)
    BY <1>1 DEF a, b
  <2>3. /\ a \o a \in Seq(Message) /\ Len(a \o a) = 2
        /\ (a \o a)[1] = x /\ (a \o a)[2] = x
    <3>1. /\ a \o a \in Seq(Message) /\ Len(a \o a) = Len(a) + Len(a)
          /\ \A k \in 1..Len(a) : (a \o a)[k] = a[k]
          /\ \A k \in 1..Len(a) : (a \o a)[Len(a) + k] = a[k]
      BY <2>2, JoinFacts
    <3>2. 1 \in 1..1 /\ 1 + 1 = 2
      OBVIOUS
    <3> QED
      BY <2>1, <3>1, <3>2, Zenon
  <2>4. \A i \in 1..Len(b) : (a \o a)[i] = b[i]
    BY <2>1, <2>3
  <2>5. a \o a = b
    BY <2>1, <2>2, <2>3, <2>4, SeqEqual
  <2> QED
    BY <2>5 DEF a, b
<1> QED
  BY <1>1, <1>2

LEMMA EndsLeft ==
    ASSUME NEW s, FlagsInOrder(s)
    PROVE  SetupLeft(s) = Ends(Uncomposed(s))
<1> DEFINE q == << Own("FEATURES_REQUEST") >>
           c == << Own("SET_CONFIG") >>
           p == << Own("MULTIPART_REQUEST") >>
           f == << Own("FLOW_MOD") >>
           d == << Own("FLOW_MOD"), Own("FLOW_MOD") >>
           n == << >>
<1>1. \A i \in 1..6 : Ends(OpeningCells(i)) = << Own(SetupTypes[i]) >>
  BY OpeningFields, EndsCells DEF OpeningCells
<1>2. /\ Ends(OpeningCells(2)) = q /\ Ends(OpeningCells(3)) = c
      /\ Ends(OpeningCells(4)) = p /\ Ends(OpeningCells(5)) = f
      /\ Ends(OpeningCells(6)) = f
  BY <1>1 DEF SetupTypes
<1>3. /\ Ends(R5) = f \o n /\ Ends(R4) = f \o (f \o n)
      /\ Ends(R3) = p \o (f \o (f \o n)) /\ Ends(R2) = c \o (p \o (f \o (f \o n)))
      /\ Ends(R1) = q \o (c \o (p \o (f \o (f \o n))))
  <2>1. \A i \in 1..6 : OpeningCells(i) \in Seq(Cell)
    BY OpeningFields
  <2>2. \A i \in 1..6 : \A r \in Seq(Cell) :
          Ends(OpeningCells(i) \o r) = Ends(OpeningCells(i)) \o Ends(r)
    BY <2>1, EndsConcat
  <2>3. 2 \in 1..6 /\ 3 \in 1..6 /\ 4 \in 1..6 /\ 5 \in 1..6 /\ 6 \in 1..6
    OBVIOUS
  <2>4. Ends(R5) = f \o n
    BY <1>2, <2>2, <2>3, EndsEmpty, RestTypes, Zenon DEF R5
  <2>5. Ends(R4) = f \o (f \o n)
    BY <1>2, <2>2, <2>3, <2>4, RestTypes, Zenon DEF R4
  <2>6. Ends(R3) = p \o (f \o (f \o n))
    BY <1>2, <2>2, <2>3, <2>5, RestTypes, Zenon DEF R3
  <2>7. Ends(R2) = c \o (p \o (f \o (f \o n)))
    BY <1>2, <2>2, <2>3, <2>6, RestTypes, Zenon DEF R2
  <2>8. Ends(R1) = q \o (c \o (p \o (f \o (f \o n))))
    BY <1>2, <2>2, <2>3, <2>7, RestTypes, Zenon DEF R1
  <2> QED
    BY <2>4, <2>5, <2>6, <2>7, <2>8
<1>4. /\ q \in Seq(Message) /\ c \in Seq(Message) /\ p \in Seq(Message)
      /\ f \in Seq(Message) /\ d \in Seq(Message) /\ n \in Seq(Message)
      /\ f \o (f \o n) = d
  <2>1. /\ Own("FEATURES_REQUEST") \in Message /\ Own("SET_CONFIG") \in Message
        /\ Own("MULTIPART_REQUEST") \in Message /\ Own("FLOW_MOD") \in Message
    BY OwnFields DEF MsgType
  <2>2. \A x \in Message : /\ << x >> \in Seq(Message) /\ << x, x >> \in Seq(Message)
                           /\ << x >> \o (<< x >> \o << >>) = << x, x >>
    BY OneMessage, ConcatEmptySeq, Zenon
  <2>3. << >> \in Seq(Message)
    OBVIOUS
  <2> QED
    BY <2>1, <2>2, <2>3, Zenon
<1> HIDE DEF q, c, p, f, d
<1>5. /\ Ends(R4) = d /\ Ends(R3) = p \o d /\ Ends(R2) = c \o (p \o d)
      /\ Ends(R1) = q \o (c \o (p \o d))
  BY <1>3, <1>4
<1> HIDE DEF n
<1>6. SetupLeft(s) = (((IF s.features_requested THEN n ELSE q) \o
                       (IF s.config_set THEN n ELSE c)) \o
                      (IF s.ports_requested THEN n ELSE p)) \o
                     (IF s.default_flow_set THEN n ELSE d)
  BY Zenon DEF SetupLeft, q, c, p, d, n
<1>7. \A x \in Seq(Message) : n \o x = x /\ x \o n = x
  BY ConcatEmptySeq DEF n
<1>8. CASE ~s.features_requested
  <2>1. ~s.config_set /\ ~s.ports_requested /\ ~s.default_flow_set
    BY <1>8 DEF FlagsInOrder
  <2>2. SetupLeft(s) = ((q \o c) \o p) \o d /\ Uncomposed(s) = R1
    BY <1>6, <1>8, <2>1 DEF Uncomposed
  <2>3. ((q \o c) \o p) \o d = q \o (c \o (p \o d))
    <3>1. q \in Seq(Message)
      BY <1>4
    <3>2. c \in Seq(Message) /\ p \in Seq(Message)
      BY <1>4
    <3>3. d \in Seq(Message)
      BY <1>4
    <3> DEFINE y == c \o p
    <3>4. y \in Seq(Message)
      BY <3>2, ConcatMessages
    <3>5. (q \o c) \o p = q \o y
      BY <3>1, <3>2, ConcatMessages, Zenon
    <3>6. y \o d = c \o (p \o d)
      BY <3>2, <3>3, ConcatMessages, Zenon
    <3> HIDE DEF y
    <3>7. (q \o y) \o d = q \o (y \o d)
      BY <3>1, <3>3, <3>4, ConcatMessages, Zenon
    <3> QED
      BY <3>5, <3>6, <3>7, Zenon
  <2> QED
    BY <1>5, <2>2, <2>3
<1>9. CASE s.features_requested /\ ~s.config_set
  <2>1. ~s.ports_requested /\ ~s.default_flow_set
    BY <1>9 DEF FlagsInOrder
  <2>2. SetupLeft(s) = (c \o p) \o d /\ Uncomposed(s) = R2
    BY <1>4, <1>6, <1>7, <1>9, <2>1 DEF Uncomposed
  <2>3. (c \o p) \o d = c \o (p \o d)
    <3>1. c \in Seq(Message) /\ p \in Seq(Message) /\ d \in Seq(Message)
      BY <1>4
    <3> QED
      BY <3>1, ConcatMessages
  <2> QED
    BY <1>5, <2>2, <2>3
<1>10. CASE s.features_requested /\ s.config_set /\ ~s.ports_requested
  <2>1. ~s.default_flow_set
    BY <1>10 DEF FlagsInOrder
  <2>2. SetupLeft(s) = p \o d /\ Uncomposed(s) = R3
    BY <1>4, <1>6, <1>7, <1>10, <2>1 DEF Uncomposed
  <2> QED
    BY <1>5, <2>2
<1>11. CASE /\ s.features_requested /\ s.config_set /\ s.ports_requested
            /\ ~s.default_flow_set
  <2>1. SetupLeft(s) = d /\ Uncomposed(s) = R4
    BY <1>4, <1>6, <1>7, <1>11 DEF Uncomposed
  <2> QED
    BY <1>5, <2>1
<1>12. CASE /\ s.features_requested /\ s.config_set /\ s.ports_requested
            /\ s.default_flow_set
  <2>1. SetupLeft(s) = n /\ Uncomposed(s) = << >>
    BY <1>4, <1>6, <1>7, <1>12 DEF Uncomposed
  <2> QED
    BY <2>1, EndsEmpty DEF n
<1> QED
  BY <1>8, <1>9, <1>10, <1>11, <1>12

LEMMA InitServer ==
    ASSUME ShortMessages, Init
    PROVE  Server!Init
<1>1. sw = new_switch /\ sock = Cells(Hello) /\ Hello \in Message
  BY SwitchAssumption DEF Init, SwitchAssumption
<1>2. /\ Pending(sw) = Cells(Own("HELLO")) /\ Received(sw) = << >>
      /\ sw.rw # DISCONNECTED /\ FlagsInOrder(sw) /\ Uncomposed(sw) = R1
  BY <1>1, NewSwitchLoaded, NewSwitchSetup, LoadedInv, Constants
<1>3. Received(sw) \o sock \in Seq(Cell)
  BY <1>1, <1>2, CellsType, EmptySeq, ConcatProperties
<1>4. Ends(Received(sw) \o sock) \in Seq(Message)
  BY <1>3, EndsType
<1>5. Ends(Pending(sw)) = << Own("HELLO") >>
  <2>1. "HELLO" \in MsgType
    BY DEF MsgType
  <2>2. Own("HELLO") \in Message /\ 1 <= Own("HELLO").len
    BY <2>1, OwnFields
  <2> QED
    BY <1>2, <2>2, EndsCells
<1>6. SetupLeft(unused_switch) = Ends(R1)
  <2>1. FlagsInOrder(unused_switch) /\ Uncomposed(unused_switch) = R1
    BY DEF unused_switch, FlagsInOrder, Uncomposed
  <2> QED
    BY <2>1, EndsLeft
<1>7. SetupLeft(sw) = Ends(R1)
  BY <1>2, EndsLeft
<1> QED
  BY <1>2, <1>4, <1>5, <1>6, <1>7 DEF Server!Init

LEMMA OwnSay ==
    ASSUME NEW t \in MsgType, NEW i \in Info, NEW fd \in Nat, NEW port \in Nat
    PROVE  LET m == [Own(t) EXCEPT !.info = i, !.fd = fd]
               n == [Own(t) EXCEPT !.port = port, !.info = i]
           IN  m \in Message /\ 1 <= m.len /\ n \in Message /\ 1 <= n.len
<1> DEFINE m == [Own(t) EXCEPT !.info = i, !.fd = fd]
           n == [Own(t) EXCEPT !.port = port, !.info = i]
<1>1. Own(t) \in Message /\ 1 <= Own(t).len
  BY OwnFields
<1>2. m \in Message /\ m.len = Own(t).len /\ n \in Message /\ n.len = Own(t).len
  BY <1>1, Zenon DEF Message
<1> QED
  BY <1>1, <1>2

(* What a complete message leaves in the write buffer is an answer to it.  *)
LEMMA Answered ==
    ASSUME NEW m \in Message, NEW s \in of_switch, HDR <= m.len, m.len <= BUF,
           Ready(s), s.rw = READ, s.bytes_expected = 0, s.of_status = m.type,
           NEW u,
           \/ u = await_next_header(dispatch(s, SwitchFd, m))
           \/ /\ m.type = "PACKET_IN" /\ m.info = "probe"
              /\ u = change_port_behavior(s, m.port)
    PROVE  /\ Ends(Pending(u)) \in Answers(m)
           /\ u.rw # DISCONNECTED <=> Accepts(m)
           /\ Settled(u)
<1>1. 1 <= m.len /\ m.port \in Nat /\ m.info \in Info
  BY SizeFacts DEF Message
<1>2. SwitchFd \in Nat
  BY SwitchAssumption DEF SwitchAssumption
<1>3. CASE u = await_next_header(dispatch(s, SwitchFd, m))
  <2> DEFINE flow == Cells(Own("FLOW_MOD"))
             r == [m EXCEPT !.type = "ECHO_REPLY"]
             p == [Own("PACKET_OUT") EXCEPT !.info = "probe", !.fd = SwitchFd]
  <2>1. /\ m.type = "ECHO_REQUEST" => u.rw = WRITE /\ Pending(u) = Cells(r)
        /\ m.type = "FEATURES_REPLY" => u.rw = WRITE /\ Pending(u) = Cells(p)
        /\ m.type = "PACKET_IN" /\ m.info = "host" =>
             u.rw = WRITE /\ Pending(u) = flow \o flow
        /\ m.type \notin Known => u.rw = DISCONNECTED /\ Pending(u) = << >>
        /\ /\ m.type \in Known \ {"ECHO_REQUEST", "FEATURES_REPLY"}
           /\ ~(m.type = "PACKET_IN" /\ m.info = "host")
           => u.rw = READ /\ Pending(u) = << >>
    <3> DEFINE t == s.of_status
    <3>1. /\ t = "ECHO_REQUEST" => u.rw = WRITE /\ Pending(u) = Cells(r)
          /\ t = "FEATURES_REPLY" => u.rw = WRITE /\ Pending(u) = Cells(p)
          /\ t = "PACKET_IN" /\ m.info = "host" =>
               u.rw = WRITE /\ Pending(u) = flow \o flow
          /\ t \notin Known => u.rw = DISCONNECTED /\ Pending(u) = << >>
          /\ /\ t \in Known \ {"ECHO_REQUEST", "FEATURES_REPLY"}
             /\ ~(t = "PACKET_IN" /\ m.info = "host")
             => u.rw = READ /\ Pending(u) = << >>
      BY <1>1, <1>2, <1>3, DispatchSays, Zenon
    <3>2. t = m.type
      OBVIOUS
    <3> QED
      BY <3>1, <3>2
  <2>2. Settled(u)
    BY <1>1, <1>2, <1>3, DispatchLeaves DEF Settled
  <2>3. u.rw # DISCONNECTED <=> Accepts(m)
    BY <2>1, Constants DEF Accepts, Known
  <2>4. CASE m.type = "ECHO_REQUEST"
    <3>1. r \in Message /\ 1 <= r.len
      BY <1>1, Zenon DEF Message, MsgType
    <3>2. Ends(Cells(r)) = << r >>
      BY <3>1, EndsCells
    <3> QED
      BY <2>1, <2>2, <2>3, <2>4, <3>2 DEF Answers
  <2>5. CASE m.type = "FEATURES_REPLY"
    <3>1. p \in Message /\ 1 <= p.len
      BY <1>2, OwnSay DEF MsgType, Info
    <3>2. Ends(Cells(p)) = << p >>
      BY <3>1, EndsCells
    <3> QED
      BY <2>1, <2>2, <2>3, <2>5, <3>2 DEF Answers
  <2>6. CASE m.type = "PACKET_IN" /\ m.info = "host"
    <3> DEFINE f == Own("FLOW_MOD")
    <3>1. f \in Message /\ 1 <= f.len
      BY OwnFields DEF MsgType
    <3>2. flow \in Seq(Cell) /\ Ends(flow) = << f >>
      BY <3>1, EndsCells, CellsType
    <3> HIDE DEF flow, f
    <3>3. Ends(flow \o flow) = << f >> \o << f >>
      BY <3>2, EndsConcat, Zenon
    <3>4. << f >> \o << f >> = << f, f >>
      BY <3>1, OneMessage, Zenon DEF f
    <3> QED
      BY <2>1, <2>2, <2>3, <2>6, <3>3, <3>4 DEF Answers, f
  <2>7. CASE /\ m.type \notin {"ECHO_REQUEST", "FEATURES_REPLY"}
             /\ ~(m.type = "PACKET_IN" /\ m.info = "host")
    <3>1. Pending(u) = << >>
      BY <2>1, <2>7
    <3>2. << >> \in Answers(m)
      BY <2>7 DEF Answers
    <3> QED
      BY <2>2, <2>3, <3>1, <3>2, EndsEmpty
  <2> QED
    BY <2>4, <2>5, <2>6, <2>7
<1>4. CASE /\ m.type = "PACKET_IN" /\ m.info = "probe"
           /\ u = change_port_behavior(s, m.port)
  <2>1. PICK info \in {"none", "named"} :
          Pending(u) = Cells([Own("PORT_MOD") EXCEPT !.port = m.port, !.info = info])
    BY <1>1, <1>4, PortModLoaded
  <2>2. Loaded(u)
    BY <1>1, <1>4, PortModLoaded
  <2> DEFINE p == [Own("PORT_MOD") EXCEPT !.port = m.port, !.info = info]
  <2>3. p \in Message /\ 1 <= p.len
    BY <1>1, <1>2, OwnSay DEF MsgType, Info
  <2>4. Ends(Cells(p)) = << p >>
    BY <2>3, EndsCells
  <2>5. << p >> \in Answers(m)
    BY <1>4 DEF Answers
  <2>6. u.rw # DISCONNECTED /\ Accepts(m)
    BY <1>4, <2>2, Constants DEF Loaded, Accepts, Known
  <2> QED
    BY <2>1, <2>2, <2>4, <2>5, <2>6 DEF Settled
<1> QED
  BY <1>3, <1>4

-----------------------------------------------------------------------------
(* Steps of the abstract server, by what they do to the sequences.         *)

Todo(s, st) == Ends(Received(s) \o st)

LEMMA ServerStands ==
    ASSUME Todo(sw', sock') = Todo(sw, sock), Owed(sw') = Owed(sw),
           sw'.rw # DISCONNECTED <=> sw.rw # DISCONNECTED
    PROVE  UNCHANGED Server!vars
BY DEF Server!vars, Todo, Owed

LEMMA ServerArrives ==
    ASSUME Todo(sw, sock) \in Seq(Message), NEW m \in Message,
           Todo(sw', sock') = Todo(sw, sock) \o << m >>, UNCHANGED sw
    PROVE  Server!Arrive
<1> DEFINE a == Todo(sw, sock)
           b == Todo(sw', sock')
<1>1. b = Append(a, m)
  BY AppendIsConcat
<1> HIDE DEF a, b
<1>2. Len(b) = Len(a) + 1 /\ b[Len(b)] \in Message /\ SubSeq(b, 1, Len(a)) = a
  <2>1. a \in Seq(Message)
    BY DEF a
  <2> QED
    BY <1>1, <2>1
<1> QED
  BY <1>2 DEF a, b, Todo, Server!Arrive

LEMMA ServerHandles ==
    ASSUME Todo(sw', sock') \in Seq(Message), NEW m \in Message,
           Todo(sw, sock) = << m >> \o Todo(sw', sock'),
           Owed(sw) = << >>, sw.rw # DISCONNECTED,
           Owed(sw') \in Answers(m), sw'.rw # DISCONNECTED <=> Accepts(m)
    PROVE  Server!Handle
<1> DEFINE a == Todo(sw', sock')
           b == Todo(sw, sock)
<1>1. a \in Seq(Message) /\ b = << m >> \o a
  OBVIOUS
<1> HIDE DEF a, b
<1>2. b # << >> /\ Head(b) = m /\ Tail(b) = a
  BY <1>1
<1>3. (sw'.rw # DISCONNECTED) = Accepts(m)
  BY DEF Accepts
<1>4. (sw'.rw # DISCONNECTED) = Accepts(Head(b))
  BY <1>2, <1>3, Zenon
<1>5. /\ Owed(sw') \in Answers(Head(b)) /\ a = Tail(b)
  BY <1>2, Zenon
<1> QED
  BY <1>2, <1>4, <1>5, Zenon DEF a, b, Todo, Owed, Server!Handle

LEMMA ServerSends ==
    ASSUME NEW a \in Seq(Message), Owed(sw') \in Seq(Message),
           Owed(sw) = a \o Owed(sw'), a # << >>,
           Todo(sw', sock') = Todo(sw, sock),
           sw'.rw # DISCONNECTED <=> sw.rw # DISCONNECTED
    PROVE  Server!Send
<1> DEFINE b == Owed(sw')
           c == Owed(sw)
<1>1. b \in Seq(Message) /\ c = a \o b
  OBVIOUS
<1> HIDE DEF b, c
<1>2. /\ Len(a) \in Nat /\ Len(b) \in Nat /\ c \in Seq(Message) /\ Len(c) = Len(a) + Len(b)
      /\ \A k \in 1..Len(b) : c[Len(a) + k] = b[k]
  BY <1>1, JoinFacts
<1> DEFINE k == Len(a)
           d == SubSeq(c, k + 1, Len(c))
<1>3. k \in 1..Len(c) /\ c # << >>
  <2>1. k # 0
    BY EmptySeq
  <2> QED
    BY <1>2, <2>1
<1>4. d \in Seq(Message) /\ Len(d) = Len(b) /\ \A i \in 1..Len(b) : d[i] = c[k + i]
  BY <1>2, <1>3
<1> HIDE DEF d, k
<1>5. d = b
  BY <1>1, <1>2, <1>4, SeqEqual DEF k
<1>6. c # << >> /\ \E n \in 1..Len(c) : b = SubSeq(c, n + 1, Len(c))
  BY <1>3, <1>5 DEF d
<1> QED
  BY <1>6 DEF b, c, Todo, Owed, Server!Send

-----------------------------------------------------------------------------
(* Every step of the session is one of the abstract server or none.        *)

LEMMA SessionTypes ==
    ASSUME IInv, SetupInv
    PROVE  /\ Received(sw) \in Seq(Cell) /\ Received(sw) \o sock \in Seq(Cell)
           /\ Todo(sw, sock) \in Seq(Message)
           /\ Pending(sw) \in Seq(Cell) /\ Uncomposed(sw) \in Seq(Cell)
           /\ Owed(sw) = Ends(Pending(sw) \o Uncomposed(sw))
           /\ Owed(sw) \in Seq(Message)
<1>1. sw \in of_switch /\ SwitchInv(sw) /\ sock \in Seq(Cell)
  BY DEF IInv, TypeOK
<1>2. Received(sw) \in Seq(Cell) /\ Received(sw) \o sock \in Seq(Cell)
  BY <1>1, ReceivedType, ConcatProperties
<1>3. Pending(sw) \in Seq(Cell) /\ Uncomposed(sw) \in Seq(Cell)
  BY <1>1, ToSendType
<1>4. SetupLeft(sw) = Ends(Uncomposed(sw))
  BY EndsLeft DEF SetupInv
<1>5. Owed(sw) = Ends(Pending(sw) \o Uncomposed(sw))
  BY <1>3, <1>4, EndsConcat DEF Owed
<1>6. Pending(sw) \o Uncomposed(sw) \in Seq(Cell)
  BY <1>3, ConcatProperties
<1> QED
  BY <1>2, <1>3, <1>5, <1>6, EndsType DEF Todo

LEMMA ReadStepServer ==
    ASSUME IInv, IInv', SetupInv, SetupInv', ReadStep
    PROVE  Server!Handle \/ UNCHANGED Server!vars
<1> DEFINE p == Ends(Pending(sw'))
           st == Received(sw) \o sock
<1>1. /\ sw.rw = READ /\ sw.rw # WRITE /\ sw.rw # DISCONNECTED
      /\ sock' \in Seq(Cell)
  BY ReadShape, Constants
<1>2. SetupLeft(sw') = << >> /\ SetupLeft(sw) = << >>
  <2>1. Uncomposed(sw) = << >> /\ FlagsInOrder(sw)
    BY <1>1 DEF SetupInv
  <2>2. SameFlags(sw', sw)
    BY ReadKeepsFlags
  <2>3. SetupLeft(sw') = SetupLeft(sw)
    BY <2>2, Zenon DEF SameFlags, SetupLeft
  <2>4. SetupLeft(sw) = << >>
    BY <2>1, EndsLeft, EndsEmpty
  <2> QED
    BY <2>3, <2>4
<1>3. Owed(sw) = << >>
  <2>1. Pending(sw) = << >>
    BY <1>1, NotWriting
  <2>2. << >> \o << >> = << >>
    OBVIOUS
  <2> QED
    BY <1>2, <2>1, <2>2, EndsEmpty DEF Owed
<1>4. Pending(sw') \in Seq(Cell) => Owed(sw') = p
  BY <1>2, EndsType, ConcatEmptySeq DEF Owed
<1>5. CASE /\ sw' \in of_switch /\ SwitchInv(sw') /\ sw'.rw = READ
           /\ Received(sw') \o sock' = st
  <2>1. sw'.rw # WRITE /\ sw'.rw # DISCONNECTED
    BY <1>5, Constants
  <2>2. Pending(sw') = << >>
    BY <2>1, NotWriting
  <2>3. Owed(sw') = << >>
    BY <1>4, <2>2, EndsEmpty, EmptySeq
  <2>4. Todo(sw', sock') = Todo(sw, sock)
    BY <1>5 DEF Todo
  <2> QED
    BY <1>1, <1>3, <2>1, <2>3, <2>4, ServerStands
<1>6. ASSUME NEW m \in Message, NEW s \in of_switch,
             HDR <= m.len, m.len <= BUF, st = Cells(m) \o sock',
             Ready(s), s.rw = READ, s.bytes_expected = 0, s.of_status = m.type,
             \/ sw' = await_next_header(dispatch(s, SwitchFd, m))
             \/ /\ m.type = "PACKET_IN" /\ m.info = "probe"
                /\ sw' = change_port_behavior(s, m.port)
      PROVE  Server!Handle
  <2>1. /\ p \in Answers(m) /\ (sw'.rw # DISCONNECTED <=> Accepts(m))
        /\ Settled(sw')
    BY <1>6, Answered
  <2>2. Received(sw') = << >> /\ Pending(sw') \in Seq(Cell)
    BY <2>1, SettledInv
  <2>3. Todo(sw', sock') = Ends(sock') /\ Ends(sock') \in Seq(Message)
    BY <1>1, <2>2, ConcatEmptySeq, EndsType DEF Todo
  <2>4. Todo(sw, sock) = << m >> \o Ends(sock')
    <3>1. 1 <= m.len /\ Cells(m) \in Seq(Cell)
      BY <1>6, SizeFacts, CellsType, MessageFields
    <3>2. Ends(Cells(m)) = << m >>
      BY <3>1, EndsCells
    <3>3. Ends(Cells(m) \o sock') = Ends(Cells(m)) \o Ends(sock')
      BY <1>1, <3>1, EndsConcat
    <3> QED
      BY <1>6, <3>2, <3>3 DEF Todo
  <2> QED
    BY <1>1, <1>3, <1>4, <2>1, <2>2, <2>3, <2>4, ServerHandles
<1> QED
  BY <1>5, <1>6, ReadShape

(* A part of what is owed, perhaps nothing, ends in what is handed over.   *)
LEMMA WriteSends ==
    ASSUME IInv, IInv', SetupInv, WriteStep
    PROVE  /\ \E a \in Seq(Cell) :
                tx' = tx \o a /\ Owed(sw) = Ends(a) \o Owed(sw')
           /\ Owed(sw') \in Seq(Message)
           /\ Todo(sw', sock') = Todo(sw, sock)
           /\ sw.rw # DISCONNECTED /\ sw'.rw # DISCONNECTED
<1>1. PICK a \in Seq(Cell) :
        /\ tx' = tx \o a
        /\ Pending(sw) \o Uncomposed(sw) = a \o (Pending(sw') \o Uncomposed(sw'))
        /\ FlagsInOrder(sw')
        /\ Received(sw') = << >> /\ sw'.rw # DISCONNECTED
  BY WriteShape DEF ToSend
<1> DEFINE q == Pending(sw')
           L == Uncomposed(sw')
           e == Ends(a)
<1>2. sw.rw = WRITE /\ sock' = sock
  BY DEF WriteStep
<1>3. Received(sw) = << >> /\ sw.rw # DISCONNECTED
  BY <1>2, Constants, NotReading
<1>4. Received(sw') = << >> /\ sw'.rw # DISCONNECTED
  BY <1>1
<1>5. Todo(sw', sock') = Todo(sw, sock)
  BY <1>2, <1>3, <1>4 DEF Todo
<1>6. q \in Seq(Cell) /\ L \in Seq(Cell)
  BY ToSendType DEF IInv, TypeOK
<1>7. SetupLeft(sw') = Ends(L)
  BY <1>1, EndsLeft
<1>8. Owed(sw') = Ends(q \o L) /\ q \o L \in Seq(Cell)
  BY <1>6, <1>7, EndsConcat, ConcatProperties DEF Owed
<1>9. Owed(sw) = e \o Owed(sw') /\ e \in Seq(Message) /\ Owed(sw') \in Seq(Message)
  <2>1. Owed(sw) = Ends(a \o (q \o L))
    BY <1>1, SessionTypes
  <2> HIDE DEF q, L
  <2>2. Ends(a \o (q \o L)) = e \o Ends(q \o L)
    BY <1>8, EndsConcat, Zenon
  <2> QED
    BY <1>8, <2>1, <2>2, EndsType
<1> QED
  BY <1>1, <1>3, <1>4, <1>5, <1>9

LEMMA WriteStepServer ==
    ASSUME IInv, IInv', SetupInv, SetupInv', WriteStep
    PROVE  Server!Send \/ UNCHANGED Server!vars
<1>1. PICK a \in Seq(Cell) : Owed(sw) = Ends(a) \o Owed(sw')
  BY WriteSends
<1> DEFINE e == Ends(a)
<1>2. e \in Seq(Message)
  BY EndsType
<1>3. CASE e = << >>
  <2>1. Owed(sw') = Owed(sw)
    BY <1>1, <1>3, WriteSends, ConcatEmptySeq
  <2> QED
    BY <2>1, WriteSends, ServerStands
<1>4. CASE e # << >>
  BY <1>1, <1>2, <1>4, WriteSends, ServerSends
<1> QED
  BY <1>3, <1>4

LEMMA ResponseCases ==
    ASSUME ShortMessages, NEW m \in Message
    PROVE  \/ Response(m) = << >>
           \/ \E r \in Message : /\ 1 <= r.len /\ r.type # "ECHO_REQUEST"
                                 /\ Response(m) = Cells(r)
<1>1. CASE m.type \in DOMAIN Replies
  <2> DEFINE r == Replies[m.type]
  <2>1. r \in Message /\ HDR <= r.len /\ r.type # "ECHO_REQUEST"
    BY <1>1, SwitchAssumption DEF SwitchAssumption
  <2>2. 1 <= r.len
    BY <2>1, SizeFacts, MessageFields
  <2> QED
    BY <1>1, <2>1, <2>2 DEF Response
<1>2. CASE m.type \notin DOMAIN Replies
  <2>1. Own("ERROR") \in Message /\ 1 <= Own("ERROR").len
    BY OwnFields DEF MsgType
  <2>2. Own("ERROR").type # "ECHO_REQUEST"
    BY DEF Own, Msg
  <2> QED
    BY <1>2, <2>1, <2>2 DEF Response
<1> QED
  BY <1>1, <1>2

(* A message of the switch behind what it has already sent.                *)
LEMMA MessageBehind ==
    ASSUME IInv, SetupInv, NEW r \in Message, 1 <= r.len,
           sock' = sock \o Cells(r), UNCHANGED sw
    PROVE  Todo(sw', sock') = Todo(sw, sock) \o << r >>
<1> DEFINE v == Received(sw)
           c == Cells(r)
<1>1. v \in Seq(Cell) /\ sock \in Seq(Cell) /\ v \o sock \in Seq(Cell)
  BY SessionTypes DEF IInv, TypeOK
<1>2. c \in Seq(Cell) /\ Ends(c) = << r >>
  BY CellsType, EndsCells
<1> HIDE DEF v, c
<1>3. v \o (sock \o c) = (v \o sock) \o c
  BY <1>1, <1>2, ConcatCells
<1>4. Ends((v \o sock) \o c) = Ends(v \o sock) \o << r >>
  BY <1>1, <1>2, EndsConcat
<1>5. Todo(sw', sock') = Todo(sw, sock) \o << r >>
  <2>1. Received(sw') = v /\ sock' = sock \o c
    BY DEF v, c
  <2> QED
    BY <1>3, <1>4, <2>1 DEF Todo, v
<1> QED
  BY <1>5

LEMMA MessageArrives ==
    ASSUME IInv, SetupInv, NEW r \in Message, 1 <= r.len,
           sock' = sock \o Cells(r), UNCHANGED sw
    PROVE  Server!Arrive
BY MessageBehind, SessionTypes, ServerArrives

LEMMA SwitchReceivesServer ==
    ASSUME ShortMessages, IInv, SetupInv, SwitchReceives
    PROVE  Server!Arrive \/ UNCHANGED Server!vars
<1> DEFINE m == tx[1].msg
<1>1. tx # << >> /\ sw' = sw /\ sock' = sock \o Response(m)
  BY DEF SwitchReceives
<1>2. m \in Message
  <2>1. tx \in Seq(Cell) /\ 1 \in 1..Len(tx)
    BY <1>1, EmptySeq DEF IInv, TypeOK
  <2> QED
    BY <2>1, CellFields
<1>3. CASE Response(m) = << >>
  <2>1. sock' = sock
    BY <1>1, <1>3, ConcatEmptySeq DEF IInv, TypeOK
  <2>2. Todo(sw', sock') = Todo(sw, sock) /\ Owed(sw') = Owed(sw)
    BY <1>1, <2>1
  <2> QED
    BY <1>1, <2>2, ServerStands
<1>4. ASSUME NEW r \in Message, 1 <= r.len, Response(m) = Cells(r)
      PROVE  Server!Arrive
  BY <1>1, <1>4, MessageArrives
<1> QED
  BY <1>2, <1>3, <1>4, ResponseCases

LEMMA SwitchSaysServer ==
    ASSUME IInv, SetupInv, SwitchSays
    PROVE  Server!Arrive
<1>1. PICK m \in SwitchMsg :
        sock' = sock \o Cells([m EXCEPT !.xid = peer.asked +
                  (IF m.type = "ECHO_REQUEST" THEN 1 ELSE 0)])
  BY Zenon DEF SwitchSays
<1> DEFINE asked == peer.asked + (IF m.type = "ECHO_REQUEST" THEN 1 ELSE 0)
           r == [m EXCEPT !.xid = asked]
<1>2. asked \in Nat
  BY DEF IInv, TypeOK
<1> HIDE DEF asked
<1>3. m \in Message /\ HDR <= m.len
  BY SwitchAssumption DEF SwitchAssumption
<1>4. r \in Message /\ r.len = m.len
  BY <1>2, <1>3, Zenon DEF Message
<1>5. 1 <= r.len
  BY <1>3, <1>4, SizeFacts, MessageFields
<1>6. sock' = sock \o Cells(r) /\ sw' = sw
  BY <1>1 DEF asked, SwitchSays
<1> HIDE DEF r
<1> QED
  BY <1>4, <1>5, <1>6, MessageArrives

-----------------------------------------------------------------------------
(* The session implements the abstract server: it sends the whole setup    *)
(* first, takes the switch's messages one at a time and in order, and      *)
(* finishes the answer to one before it looks at the next, however the     *)
(* messages are cut into pieces (handle_read_socket, handle_write_socket). *)
THEOREM SessionIsServer == ASSUME ShortMessages PROVE Spec => ImplementsServer
<1>1. Init => Server!Init
  BY InitServer
<1>2. ASSUME IInv, IInv', SetupInv, SetupInv', [Next]_vars
      PROVE  [Server!Next]_(Server!vars)
  <2>1. CASE ReadStep
    BY <1>2, <2>1, ReadStepServer DEF Server!Next
  <2>2. CASE WriteStep
    BY <1>2, <2>2, WriteStepServer DEF Server!Next
  <2>3. CASE SwitchReceives
    BY <1>2, <2>3, SwitchReceivesServer DEF Server!Next
  <2>4. CASE SwitchSays
    BY <1>2, <2>4, SwitchSaysServer DEF Server!Next
  <2>5. CASE UNCHANGED vars
    <3>1. sw' = sw /\ sock' = sock
      BY <2>5 DEF vars
    <3>2. Todo(sw', sock') = Todo(sw, sock) /\ Owed(sw') = Owed(sw)
      BY <3>1
    <3> QED
      BY <3>1, <3>2, ServerStands
  <2> QED
    BY <1>2, <2>1, <2>2, <2>3, <2>4, <2>5 DEF Next
<1> QED
  BY <1>1, <1>2, Invariance, SetupInvariance, PTL DEF Spec, ImplementsServer, Server!Spec

-----------------------------------------------------------------------------
(* The echoes, by their xids.                                              *)

Xids(q, S) == LET p == Pick(q, S) IN [i \in 1..Len(p) |-> p[i].xid]

Notes(t) == [type : {t}, xid : Nat]

Typed(t) == {m \in Message : m.type = t}

(* What has an xid: the messages, and what the switch notes of them.       *)
Named == Message \cup [type : MsgType, xid : Nat]

Count(n) == [i \in 1..n |-> i]

LEMMA NamedXid == \A x \in Named : x.xid \in Nat
BY DEF Named, Message

LEMMA XidsType ==
    ASSUME NEW S, NEW q \in Seq(Named)
    PROVE  /\ Xids(q, S) \in Seq(Nat)
           /\ Len(Xids(q, S)) = Len(Pick(q, S))
           /\ Pick(q, S) \in Seq(Named)
           /\ \A i \in 1..Len(Pick(q, S)) : Xids(q, S)[i] = Pick(q, S)[i].xid
<1> DEFINE p == Pick(q, S)
<1>1. p \in Seq(Named)
  <2>1. p \in Seq(Named \cap S)
    BY PickType
  <2> HIDE DEF p
  <2> QED
    BY <2>1, SeqMonotonic
<1> HIDE DEF p
<1>2. Len(p) \in Nat /\ \A i \in 1..Len(p) : p[i].xid \in Nat
  BY <1>1, LenProperties, ElementOfSeq, NamedXid
<1>3. Xids(q, S) = [i \in 1..Len(p) |-> p[i].xid]
  BY DEF Xids, p
<1>4. [i \in 1..Len(p) |-> p[i].xid] \in [1..Len(p) -> Nat]
  BY <1>2
<1>5. Xids(q, S) \in Seq(Nat) /\ Len(Xids(q, S)) = Len(p)
  BY <1>2, <1>3, <1>4, FunctionIsSeq
<1> QED
  BY <1>1, <1>2, <1>3, <1>5 DEF p

LEMMA XidsConcat ==
    ASSUME NEW S, NEW a \in Seq(Named), NEW b \in Seq(Named)
    PROVE  Xids(a \o b, S) = Xids(a, S) \o Xids(b, S)
<1> DEFINE p == Pick(a, S)
           q == Pick(b, S)
           c == a \o b
           x == Xids(a, S)
           y == Xids(b, S)
           z == Xids(c, S)
<1>1. p \in Seq(Named) /\ q \in Seq(Named)
  <2>1. p \in Seq(Named \cap S) /\ q \in Seq(Named \cap S)
    BY PickType
  <2> HIDE DEF p, q
  <2> QED
    BY <2>1, SeqMonotonic
<1>2. c \in Seq(Named) /\ Pick(c, S) = p \o q
  BY PickConcat, ConcatProperties
<1> HIDE DEF c
<1>3. /\ x \in Seq(Nat) /\ Len(x) = Len(p) /\ \A i \in 1..Len(x) : x[i] = p[i].xid
      /\ y \in Seq(Nat) /\ Len(y) = Len(q) /\ \A i \in 1..Len(y) : y[i] = q[i].xid
      /\ z \in Seq(Nat) /\ Len(z) = Len(p \o q)
      /\ \A i \in 1..Len(z) : z[i] = (p \o q)[i].xid
  <2>1. x \in Seq(Nat) /\ Len(x) = Len(p) /\ \A i \in 1..Len(p) : x[i] = p[i].xid
    BY XidsType
  <2>2. y \in Seq(Nat) /\ Len(y) = Len(q) /\ \A i \in 1..Len(q) : y[i] = q[i].xid
    BY XidsType
  <2>3. /\ z \in Seq(Nat) /\ Len(z) = Len(Pick(c, S))
        /\ \A i \in 1..Len(Pick(c, S)) : z[i] = Pick(c, S)[i].xid
    BY <1>2, XidsType
  <2> HIDE DEF p, q, x, y, z
  <2> QED
    BY <1>2, <2>1, <2>2, <2>3, Zenon
<1> HIDE DEF p, q, x, y, z
<1>4. /\ Len(p) \in Nat /\ Len(q) \in Nat /\ Len(p \o q) = Len(p) + Len(q)
      /\ \A i \in 1..Len(p) : (p \o q)[i] = p[i]
      /\ \A i \in 1..Len(q) : (p \o q)[Len(p) + i] = q[i]
  BY <1>1, ConcatFacts
<1>5. /\ x \o y \in Seq(Nat) /\ Len(x \o y) = Len(x) + Len(y)
      /\ \A i \in 1..Len(x) : (x \o y)[i] = x[i]
      /\ \A i \in 1..Len(y) : (x \o y)[Len(x) + i] = y[i]
  <2>1. x \in Seq(Nat) /\ y \in Seq(Nat)
    BY <1>3
  <2> QED
    BY <2>1, JoinFacts
<1>6. ASSUME NEW i \in 1..Len(z) PROVE z[i] = (x \o y)[i]
  <2>1. CASE i <= Len(p)
    <3>1. i \in 1..Len(x)
      BY <1>3, <1>4, <2>1
    <3> QED
      BY <1>3, <1>4, <1>5, <3>1
  <2>2. CASE i > Len(p)
    <3>1. PICK j \in 1..Len(y) : i = Len(p) + j
      <4>1. i - Len(p) \in 1..Len(y) /\ Len(p) + (i - Len(p)) = i
        BY <1>3, <1>4, <2>2
      <4> QED
        BY <4>1
    <3>2. z[i] = (p \o q)[Len(p) + j].xid /\ (p \o q)[Len(p) + j] = q[j]
      BY <1>3, <1>4, <3>1
    <3>3. (x \o y)[Len(x) + j] = y[j] /\ y[j] = q[j].xid
      BY <1>3, <1>5, <3>1
    <3> QED
      BY <1>3, <3>1, <3>2, <3>3
  <2> QED
    BY <1>3, <1>4, <2>1, <2>2
<1>7. Len(z) = Len(x \o y)
  BY <1>3, <1>4, <1>5
<1>8. z = x \o y
  BY <1>3, <1>5, <1>6, <1>7, SeqEqual
<1> QED
  BY <1>8 DEF x, y, z, c

LEMMA XidsEmpty == ASSUME NEW S PROVE Xids(<< >>, S) = << >>
<1>1. << >> \in Seq(Named)
  BY EmptySeq
<1>2. Len(Xids(<< >>, S)) = 0 /\ Xids(<< >>, S) \in Seq(Nat)
  BY <1>1, XidsType, PickEmpty, EmptySeq
<1> QED
  BY <1>2, EmptySeq

LEMMA XidsOne ==
    ASSUME NEW S, NEW n \in Named
    PROVE  /\ n \in S => Xids(<< n >>, S) = << n.xid >>
           /\ n \notin S => Xids(<< n >>, S) = << >>
<1> DEFINE p == Pick(<< n >>, S)
<1>1. << >> \in Seq(Named) /\ Append(<< >>, n) = << n >>
  BY EmptySeq
<1>2. p = IF n \in S THEN Append(Pick(<< >>, S), n) ELSE Pick(<< >>, S)
  BY <1>1, PickAppend, Zenon
<1>3. p = IF n \in S THEN << n >> ELSE << >>
  BY <1>1, <1>2, PickEmpty, Zenon
<1>4. Xids(<< n >>, S) = [i \in 1..Len(p) |-> p[i].xid]
  BY DEF Xids
<1> HIDE DEF p
<1>5. CASE n \in S
  <2>1. p = << n >>
    BY <1>3, <1>5
  <2>2. [i \in 1..Len(<< n >>) |-> << n >>[i].xid] = << n.xid >>
    OBVIOUS
  <2> QED
    BY <1>4, <1>5, <2>1, <2>2, Zenon
<1>6. CASE n \notin S
  <2>1. p = << >>
    BY <1>3, <1>6
  <2>2. [i \in 1..Len(<< >>) |-> << >>[i].xid] = << >>
    OBVIOUS
  <2> QED
    BY <1>4, <1>6, <2>1, <2>2, Zenon
<1> QED
  BY <1>5, <1>6

(* The replies and the requests among messages.                            *)
Echoes(q) == Xids(q, Typed("ECHO_REPLY"))

Asked(q) == Xids(q, Typed("ECHO_REQUEST"))

LEMMA EchoFacts ==
    /\ \A q \in Seq(Message) : Echoes(q) \in Seq(Nat) /\ Asked(q) \in Seq(Nat)
    /\ \A p, q \in Seq(Message) : /\ Echoes(p \o q) = Echoes(p) \o Echoes(q)
                                /\ Asked(p \o q) = Asked(p) \o Asked(q)
    /\ Echoes(<< >>) = << >> /\ Asked(<< >>) = << >>
    /\ \A m \in Message :
         /\ m.type = "ECHO_REPLY" => Echoes(<< m >>) = << m.xid >>
         /\ m.type # "ECHO_REPLY" => Echoes(<< m >>) = << >>
         /\ m.type = "ECHO_REQUEST" => Asked(<< m >>) = << m.xid >>
         /\ m.type # "ECHO_REQUEST" => Asked(<< m >>) = << >>
<1>1. Message \subseteq Named
  BY DEF Named
<1>2. \A q \in Seq(Message) : q \in Seq(Named)
  BY <1>1, SeqMonotonic
<1>3. ASSUME NEW q \in Seq(Message)
      PROVE  Echoes(q) \in Seq(Nat) /\ Asked(q) \in Seq(Nat)
  <2>1. q \in Seq(Named)
    BY <1>2
  <2> QED
    BY <2>1, XidsType DEF Echoes, Asked
<1>4. ASSUME NEW p \in Seq(Message), NEW q \in Seq(Message)
      PROVE  /\ Echoes(p \o q) = Echoes(p) \o Echoes(q)
             /\ Asked(p \o q) = Asked(p) \o Asked(q)
  <2>1. p \in Seq(Named) /\ q \in Seq(Named)
    BY <1>2
  <2> QED
    BY <2>1, XidsConcat, Zenon DEF Echoes, Asked
<1>5. ASSUME NEW m \in Message
      PROVE  /\ m.type = "ECHO_REPLY" => Echoes(<< m >>) = << m.xid >>
             /\ m.type # "ECHO_REPLY" => Echoes(<< m >>) = << >>
             /\ m.type = "ECHO_REQUEST" => Asked(<< m >>) = << m.xid >>
             /\ m.type # "ECHO_REQUEST" => Asked(<< m >>) = << >>
  <2>1. m \in Named
    BY <1>1
  <2>2. /\ m.type = "ECHO_REPLY" <=> m \in Typed("ECHO_REPLY")
        /\ m.type = "ECHO_REQUEST" <=> m \in Typed("ECHO_REQUEST")
    BY DEF Typed
  <2> QED
    BY <2>1, <2>2, XidsOne, Zenon DEF Echoes, Asked
<1>6. Echoes(<< >>) = << >> /\ Asked(<< >>) = << >>
  BY XidsEmpty, Zenon DEF Echoes, Asked
<1> QED
  BY <1>3, <1>4, <1>5, <1>6

(* An echo request is answered by a reply with its xid, and nothing else   *)
(* is.                                                                     *)
LEMMA AnswersEcho ==
    ASSUME NEW m \in Message, NEW q \in Answers(m)
    PROVE  q \in Seq(Message) /\ Echoes(q) = Asked(<< m >>)
<1> DEFINE f == Own("FLOW_MOD")
           r == [m EXCEPT !.type = "ECHO_REPLY"]
           o == [Own("PACKET_OUT") EXCEPT !.info = "probe", !.fd = SwitchFd]
           P(info) == [Own("PORT_MOD") EXCEPT !.port = m.port, !.info = info]
<1>1. SwitchFd \in Nat /\ m.port \in Nat
  BY SwitchAssumption DEF SwitchAssumption, Message
<1>2. CASE m.type = "ECHO_REQUEST"
  <2>1. q = << r >>
    BY <1>2 DEF Answers
  <2>2. r \in Message /\ r.type = "ECHO_REPLY" /\ r.xid = m.xid
    BY Zenon DEF Message, MsgType
  <2> HIDE DEF r
  <2>3. << r >> \in Seq(Message)
    BY <2>2, OneMessage
  <2>4. Echoes(<< r >>) = << r.xid >> /\ Asked(<< m >>) = << m.xid >>
    BY <1>2, <2>2, EchoFacts, Zenon
  <2> QED
    BY <2>1, <2>2, <2>3, <2>4
<1>3. CASE m.type # "ECHO_REQUEST"
  <2>1. Asked(<< m >>) = << >>
    BY <1>3, EchoFacts, Zenon
  <2>2. \/ q = << >> \/ q = << o >> \/ q = << f, f >>
        \/ \E info \in {"none", "named"} : q = << P(info) >>
    <3>1. CASE m.type = "FEATURES_REPLY"
      BY <1>3, <3>1 DEF Answers
    <3>2. CASE m.type = "PACKET_IN" /\ m.info = "host"
      BY <1>3, <3>2 DEF Answers
    <3>3. CASE m.type = "PACKET_IN" /\ m.info = "probe"
      BY <1>3, <3>3 DEF Answers
    <3>4. CASE /\ m.type # "FEATURES_REPLY"
               /\ ~(m.type = "PACKET_IN" /\ (m.info = "host" \/ m.info = "probe"))
      <4>1. Answers(m) = {<< >>}
        BY <1>3, <3>4 DEF Answers
      <4> QED
        BY <4>1
    <3> QED
      BY <3>1, <3>2, <3>3, <3>4
  <2>3. /\ f \in Message /\ f.type = "FLOW_MOD"
        /\ o \in Message /\ o.type = "PACKET_OUT"
        /\ \A info \in {"none", "named"} : P(info) \in Message /\ P(info).type = "PORT_MOD"
    <3>1. \A t \in MsgType : Own(t) \in Message /\ Own(t).type = t
      BY OwnFields DEF Own, Msg
    <3>2. \A t \in MsgType : \A i \in Info :
            /\ [Own(t) EXCEPT !.info = i, !.fd = SwitchFd].type = Own(t).type
            /\ [Own(t) EXCEPT !.port = m.port, !.info = i].type = Own(t).type
      BY <3>1, Zenon DEF Message
    <3>3. \A t \in MsgType : \A i \in Info :
            /\ [Own(t) EXCEPT !.info = i, !.fd = SwitchFd] \in Message
            /\ [Own(t) EXCEPT !.port = m.port, !.info = i] \in Message
      BY <1>1, OwnSay
    <3>4. /\ "FLOW_MOD" \in MsgType /\ "PACKET_OUT" \in MsgType /\ "PORT_MOD" \in MsgType
          /\ "probe" \in Info /\ \A info \in {"none", "named"} : info \in Info
      BY DEF MsgType, Info
    <3> QED
      BY <3>1, <3>2, <3>3, <3>4, Zenon
  <2> HIDE DEF f, o, P
  <2>4. ASSUME NEW x \in Message, x.type # "ECHO_REPLY"
        PROVE  /\ << x >> \in Seq(Message) /\ Echoes(<< x >>) = << >>
               /\ << x, x >> \in Seq(Message) /\ Echoes(<< x, x >>) = << >>
    <3>1. << x >> \in Seq(Message) /\ Echoes(<< x >>) = << >> /\ << x, x >> \in Seq(Message)
      BY <2>4, OneMessage, EchoFacts, Zenon
    <3>2. Echoes(<< x >> \o << x >>) = Echoes(<< x >>) \o Echoes(<< x >>)
      BY <3>1, EchoFacts, Zenon
    <3>3. << >> \o << >> = << >>
      OBVIOUS
    <3> QED
      BY <3>1, <3>2, <3>3, OneMessage, Zenon
  <2>5. CASE q = << >>
    BY <2>1, <2>5, EchoFacts, EmptySeq
  <2>6. CASE q = << o >>
    BY <2>1, <2>3, <2>4, <2>6
  <2>7. CASE q = << f, f >>
    BY <2>1, <2>3, <2>4, <2>7
  <2>8. ASSUME NEW info \in {"none", "named"}, q = << P(info) >>
        PROVE  q \in Seq(Message) /\ Echoes(q) = Asked(<< m >>)
    BY <2>1, <2>3, <2>4, <2>8
  <2> QED
    BY <2>2, <2>5, <2>6, <2>7, <2>8
<1> QED
  BY <1>2, <1>3

-----------------------------------------------------------------------------
(* The replies the switch has got, those on their way or still to be       *)
(* written, and the requests not handled yet are together the echoes the   *)
(* switch has asked for, each of them once and in order.                   *)
Heard(log) == Xids(log, [type : {"ECHO_REPLY"}, xid : Nat])

EchoInv ==
    Heard(peer.log) \o (Echoes(Ends(tx) \o Owed(sw)) \o Asked(Todo(sw, sock)))
      = Count(peer.asked)

LEMMA EchoTypes ==
    ASSUME IInv, SetupInv
    PROVE  /\ Ends(tx) \in Seq(Message) /\ Owed(sw) \in Seq(Message)
           /\ Ends(tx) \o Owed(sw) \in Seq(Message)
           /\ Todo(sw, sock) \in Seq(Message)
           /\ peer.log \in Seq(Named) /\ Heard(peer.log) \in Seq(Nat)
           /\ peer.asked \in Nat
           /\ peer \in [log : Seq([type : MsgType, xid : Nat]), asked : Nat, left : Nat]
<1>1. /\ tx \in Seq(Cell)
      /\ peer \in [log : Seq([type : MsgType, xid : Nat]), asked : Nat, left : Nat]
  BY DEF IInv, TypeOK
<1>2. Ends(tx) \in Seq(Message)
  BY <1>1, EndsType
<1>3. Owed(sw) \in Seq(Message) /\ Todo(sw, sock) \in Seq(Message)
  BY SessionTypes
<1>4. Ends(tx) \o Owed(sw) \in Seq(Message)
  BY <1>2, <1>3, ConcatMessages
<1>5. peer.log \in Seq([type : MsgType, xid : Nat]) /\ peer.asked \in Nat
  BY <1>1
<1>6. [type : MsgType, xid : Nat] \subseteq Named
  BY DEF Named
<1>7. peer.log \in Seq(Named)
  BY <1>5, <1>6, SeqMonotonic
<1> QED
  BY <1>1, <1>2, <1>3, <1>4, <1>5, <1>7, XidsType DEF Heard

LEMMA OneStream ==
    ASSUME NEW E, NEW a \in Seq(E), NEW b \in Seq(E), NEW c \in Seq(E)
    PROVE  (a \o b) \o c = a \o (b \o c)
BY ConcatAssociative

LEMMA XidStream ==
    ASSUME NEW a \in Seq(Nat), NEW b \in Seq(Nat), NEW c \in Seq(Nat)
    PROVE  (a \o b) \o c = a \o (b \o c) /\ a \o b \in Seq(Nat)
<1>1. (a \o b) \o c = a \o (b \o c)
  <2> DEFINE E == Nat
  <2>1. a \in Seq(E) /\ b \in Seq(E) /\ c \in Seq(E)
    OBVIOUS
  <2> HIDE DEF E
  <2> QED
    BY <2>1, OneStream
<1>2. a \o b \in Seq(Nat)
  OBVIOUS
<1> QED
  BY <1>1, <1>2

LEMMA CountNext ==
    ASSUME NEW n \in Nat
    PROVE  /\ Count(n) \in Seq(Nat) /\ Len(Count(n)) = n
           /\ Count(n) \o << n + 1 >> = Count(n + 1)
<1>1. \A k \in Nat : Count(k) \in Seq(Nat) /\ Len(Count(k)) = k
  <2> TAKE k \in Nat
  <2>1. Count(k) \in [1..k -> Nat]
    BY DEF Count
  <2> QED
    BY <2>1, FunctionIsSeq
<1> DEFINE a == Count(n)
           b == Count(n + 1)
           c == a \o << n + 1 >>
<1>2. a \in Seq(Nat) /\ Len(a) = n /\ b \in Seq(Nat) /\ Len(b) = n + 1
  BY <1>1
<1>3. (\A i \in 1..n : a[i] = i) /\ (\A i \in 1..(n + 1) : b[i] = i)
  BY DEF Count
<1> HIDE DEF a, b
<1>4. /\ c \in Seq(Nat) /\ Len(c) = n + 1
      /\ \A i \in 1..n : c[i] = a[i]
      /\ c[n + 1] = n + 1
  <2> DEFINE e == n + 1
  <2>1. e \in Nat
    OBVIOUS
  <2> HIDE DEF e
  <2>2. a \o << e >> = Append(a, e)
    BY <1>2, <2>1, AppendIsConcat
  <2>3. /\ Append(a, e) \in Seq(Nat) /\ Len(Append(a, e)) = n + 1
        /\ \A i \in 1..n : Append(a, e)[i] = a[i]
        /\ Append(a, e)[n + 1] = e
    BY <1>2, <2>1, AppendProperties
  <2> QED
    BY <2>2, <2>3, Zenon DEF e
<1> HIDE DEF c
<1>5. \A i \in 1..(n + 1) : c[i] = b[i]
  BY <1>3, <1>4
<1>6. c = b
  BY <1>2, <1>4, <1>5, SeqEqual
<1> QED
  BY <1>2, <1>6 DEF a, b, c

LEMMA InitEcho ==
    ASSUME ShortMessages, Init, IInv, SetupInv
    PROVE  EchoInv
<1> DEFINE q == << Own("FEATURES_REQUEST") >>
           c == << Own("SET_CONFIG") >>
           p == << Own("MULTIPART_REQUEST") >>
           d == << Own("FLOW_MOD"), Own("FLOW_MOD") >>
           h == << Own("HELLO") >>
<1>1. /\ sw = new_switch /\ sock = Cells(Hello) /\ tx = << >> /\ peer.log = << >>
      /\ peer.asked = 0 /\ Hello \in Message /\ Hello.type = "HELLO" /\ HDR <= Hello.len
  BY SwitchAssumption DEF Init, SwitchAssumption
<1>2. Owed(sw) = h \o SetupLeft(unused_switch)
  BY InitServer DEF Server!Init, Owed
<1>3. SetupLeft(unused_switch) = ((q \o c) \o p) \o d
  <2>1. SetupLeft(unused_switch) =
          (((IF FALSE THEN << >> ELSE q) \o (IF FALSE THEN << >> ELSE c)) \o
           (IF FALSE THEN << >> ELSE p)) \o (IF FALSE THEN << >> ELSE d)
    BY Zenon DEF SetupLeft, unused_switch
  <2> QED
    BY <2>1, Zenon
<1>4. /\ q \in Seq(Message) /\ c \in Seq(Message) /\ p \in Seq(Message)
      /\ d \in Seq(Message) /\ h \in Seq(Message)
      /\ Echoes(q) = << >> /\ Echoes(c) = << >> /\ Echoes(p) = << >>
      /\ Echoes(d) = << >> /\ Echoes(h) = << >>
  <2>1. \A t \in MsgType : Own(t) \in Message /\ Own(t).type = t
    BY OwnFields DEF Own, Msg
  <2>2. ASSUME NEW t \in MsgType, t # "ECHO_REPLY"
        PROVE  /\ << Own(t) >> \in Seq(Message) /\ Echoes(<< Own(t) >>) = << >>
               /\ << Own(t), Own(t) >> \in Seq(Message)
               /\ << Own(t) >> \o << Own(t) >> = << Own(t), Own(t) >>
    BY <2>1, <2>2, OneMessage, EchoFacts, Zenon
  <2>3. /\ "FEATURES_REQUEST" \in MsgType /\ "SET_CONFIG" \in MsgType
        /\ "MULTIPART_REQUEST" \in MsgType /\ "FLOW_MOD" \in MsgType
        /\ "HELLO" \in MsgType
    BY DEF MsgType
  <2> DEFINE f == << Own("FLOW_MOD") >>
  <2>4. f \in Seq(Message) /\ Echoes(f) = << >> /\ f \o f = d /\ d \in Seq(Message)
    BY <2>2, <2>3
  <2>5. Echoes(f \o f) = Echoes(f) \o Echoes(f)
    BY <2>4, EchoFacts, Zenon
  <2>6. << >> \o << >> = << >>
    OBVIOUS
  <2>7. Echoes(d) = << >>
    BY <2>4, <2>5, <2>6, Zenon
  <2> HIDE DEF f, d
  <2> QED
    BY <2>2, <2>3, <2>4, <2>7
<1> HIDE DEF q, c, p, d, h
<1>5. Owed(sw) \in Seq(Message) /\ Echoes(Owed(sw)) = << >>
  <2>1. \A a, b \in Seq(Message) :
          Echoes(a) = << >> /\ Echoes(b) = << >> =>
            Echoes(a \o b) = << >> /\ a \o b \in Seq(Message)
    <3> TAKE a, b \in Seq(Message)
    <3>1. Echoes(a \o b) = Echoes(a) \o Echoes(b) /\ a \o b \in Seq(Message)
      BY EchoFacts, ConcatMessages, Zenon
    <3>2. << >> \o << >> = << >>
      OBVIOUS
    <3> QED
      BY <3>1, <3>2, Zenon
  <2>2. Echoes(q \o c) = << >> /\ q \o c \in Seq(Message)
    BY <1>4, <2>1, Zenon
  <2>3. Echoes((q \o c) \o p) = << >> /\ (q \o c) \o p \in Seq(Message)
    BY <1>4, <2>1, <2>2, Zenon
  <2>4. Echoes(((q \o c) \o p) \o d) = << >> /\ ((q \o c) \o p) \o d \in Seq(Message)
    BY <1>4, <2>1, <2>3, Zenon
  <2> QED
    BY <1>2, <1>3, <1>4, <2>1, <2>4, Zenon
<1>6. Ends(tx) \o Owed(sw) = Owed(sw)
  BY <1>1, <1>5, EndsEmpty, ConcatEmptySeq
<1>7. Asked(Todo(sw, sock)) = << >>
  <2>1. Received(sw) = << >>
    BY <1>1, NewSwitchLoaded, LoadedInv
  <2>2. Cells(Hello) \in Seq(Cell) /\ Ends(Cells(Hello)) = << Hello >>
    <3>1. 1 <= Hello.len
      BY <1>1, SizeFacts, MessageFields
    <3> QED
      BY <1>1, <3>1, CellsType, EndsCells
  <2>3. Todo(sw, sock) = << Hello >>
    BY <1>1, <2>1, <2>2, ConcatEmptySeq DEF Todo
  <2> QED
    BY <1>1, <2>3, EchoFacts
<1>8. Heard(peer.log) = << >> /\ Count(peer.asked) = << >>
  BY <1>1, XidsEmpty DEF Heard, Count
<1>9. << >> \o (<< >> \o << >>) = << >>
  OBVIOUS
<1> QED
  BY <1>5, <1>6, <1>7, <1>8, <1>9, Zenon DEF EchoInv

(* The message at the front of what the switch has been sent.              *)
LEMMA FirstMessage ==
    ASSUME NEW st \in Seq(Cell), NEW p \in Seq(Cell), Framed(st \o p), st # << >>,
           st[1].msg.len <= Len(st)
    PROVE  LET m == st[1].msg
               a == SubSeq(st, 1, m.len)
               b == SubSeq(st, m.len + 1, Len(st))
           IN  /\ m \in Message /\ 1 <= m.len
               /\ a = Cells(m) /\ a \in Seq(Cell) /\ b \in Seq(Cell) /\ a \o b = st
<1> DEFINE m == st[1].msg
           l == m.len
           a == SubSeq(st, 1, l)
           b == SubSeq(st, l + 1, Len(st))
           c == st \o p
<1>1. Len(st) \in Nat /\ Len(st) > 0 /\ 1 \in 1..Len(st)
  BY EmptySeq, LenProperties
<1>2. c \in Seq(Cell) /\ Len(c) > 0 /\ \A k \in 1..Len(st) : c[k] = st[k]
  BY <1>1, ConcatFacts
<1>3. c[1].msg = m
  BY <1>1, <1>2
<1> HIDE DEF c
<1>4. m \in Message /\ l \in Nat /\ 1 <= l /\ \A k \in 1..l : c[k] = Piece(m, k)
  BY <1>2, <1>3, FramedFirst DEF c
<1>5. l \in 1..Len(st)
  BY <1>1, <1>4
<1>6. /\ a \in Seq(Cell) /\ Len(a) = l /\ b \in Seq(Cell) /\ a \o b = st
  BY <1>5, SplitSeq
<1>7. /\ Cells(m) \in Seq(Cell) /\ Len(Cells(m)) = l
      /\ \A k \in 1..l : Cells(m)[k] = Piece(m, k)
  BY <1>4, CellsType
<1> HIDE DEF m, l, b
<1>8. \A k \in 1..l : a[k] = Piece(m, k)
  <2>1. \A k \in 1..l : a[k] = st[k]
    BY <1>5
  <2>2. \A k \in 1..l : k \in 1..Len(st)
    BY <1>1, <1>5
  <2> HIDE DEF a
  <2> QED
    BY <1>2, <1>4, <2>1, <2>2
<1> HIDE DEF a
<1>9. a = Cells(m)
  BY <1>6, <1>7, <1>8, SeqEqual
<1> QED
  BY <1>4, <1>6, <1>9 DEF m, l, a, b

LEMMA ReadStepEcho ==
    ASSUME IInv, IInv', SetupInv, SetupInv', EchoInv, ReadStep
    PROVE  EchoInv'
<1> DEFINE w == Ends(tx)
           o == Owed(sw)
           O == Owed(sw')
           t == Todo(sw, sock)
           T == Todo(sw', sock')
           h == Heard(peer.log)
<1>1. tx' = tx /\ peer' = peer
  BY DEF ReadStep
<1>2. /\ w \in Seq(Message) /\ o \in Seq(Message) /\ t \in Seq(Message)
      /\ h \o (Echoes(w \o o) \o Asked(t)) = Count(peer.asked)
  BY EchoTypes DEF EchoInv
<1>3. Ends(tx') = w /\ Heard(peer'.log) = h /\ peer'.asked = peer.asked
  BY <1>1
<1>4. CASE UNCHANGED Server!vars
  <2>1. O = o /\ T = t
    BY <1>4 DEF Server!vars, Owed, Todo
  <2> QED
    BY <1>2, <1>3, <2>1 DEF EchoInv
<1>5. CASE Server!Handle
  <2>1. /\ o = << >> /\ t # << >> /\ T = Tail(t) /\ O \in Answers(Head(t))
    BY <1>5 DEF Server!Handle, Owed, Todo
  <2> DEFINE m == Head(t)
             n == << m >>
  <2> HIDE DEF w, o, O, t, T, h
  <2>2. m \in Message /\ T \in Seq(Message) /\ t = << m >> \o T
    BY <1>2, <2>1
  <2>3. O \in Seq(Message) /\ Echoes(O) = Asked(n)
    BY <2>1, <2>2, AnswersEcho
  <2>4. n \in Seq(Message)
    BY <2>2, OneMessage
  <2>5. Asked(t) = Asked(n) \o Asked(T)
    BY <2>2, <2>4, EchoFacts, Zenon
  <2>6. w \o o = w
    BY <1>2, <2>1, ConcatEmptySeq
  <2>7. Echoes(w \o O) = Echoes(w) \o Echoes(O)
    BY <1>2, <2>3, EchoFacts, Zenon
  <2>8. Echoes(w) \in Seq(Nat) /\ Asked(n) \in Seq(Nat) /\ Asked(T) \in Seq(Nat)
    BY <1>2, <2>2, <2>4, EchoFacts, Zenon
  <2> DEFINE a == Echoes(w)
             b == Asked(n)
             c == Asked(T)
  <2> HIDE DEF a, b, c
  <2>9. (a \o b) \o c = a \o (b \o c)
    BY <2>8, XidStream DEF a, b, c
  <2>10. h \o (Echoes(w \o O) \o c) = Count(peer.asked)
    BY <1>2, <2>3, <2>5, <2>6, <2>7, <2>9, Zenon DEF a, b, c
  <2> QED
    BY <1>3, <2>10 DEF EchoInv, c, w, O, T, h
<1> QED
  BY <1>4, <1>5, ReadStepServer

LEMMA WriteStepEcho ==
    ASSUME IInv, IInv', SetupInv, SetupInv', EchoInv, WriteStep
    PROVE  EchoInv'
<1> DEFINE w == Ends(tx)
           o == Owed(sw)
           O == Owed(sw')
<1>1. PICK a \in Seq(Cell) : tx' = tx \o a /\ o = Ends(a) \o O
  BY WriteSends
<1>2. /\ peer' = peer /\ sock' = sock /\ Todo(sw', sock') = Todo(sw, sock)
  BY WriteSends DEF WriteStep
<1>3. /\ w \in Seq(Message) /\ O \in Seq(Message) /\ Ends(a) \in Seq(Message)
      /\ tx \in Seq(Cell)
  BY EchoTypes, WriteSends, EndsType DEF IInv, TypeOK
<1> DEFINE e == Ends(a)
<1>4. Ends(tx') = w \o e
  BY <1>1, <1>3, EndsConcat
<1> HIDE DEF w, o, O, e
<1>5. (w \o e) \o O = w \o (e \o O)
  BY <1>3, ConcatMessages DEF e
<1>6. Ends(tx') \o O = w \o o
  BY <1>1, <1>4, <1>5, Zenon DEF e
<1> QED
  BY <1>2, <1>6 DEF EchoInv, w, o, O

(* The answers of the switch are no echo requests.                         *)
LEMMA ResponseAsksNothing ==
    ASSUME ShortMessages, IInv, SetupInv, NEW m \in Message,
           UNCHANGED sw, sock' = sock \o Response(m)
    PROVE  Asked(Todo(sw', sock')) = Asked(Todo(sw, sock))
<1>1. CASE Response(m) = << >>
  <2>1. sock' = sock
    BY <1>1, ConcatEmptySeq DEF IInv, TypeOK
  <2> QED
    BY <2>1
<1>2. ASSUME NEW r \in Message, 1 <= r.len, r.type # "ECHO_REQUEST",
             Response(m) = Cells(r)
      PROVE  Asked(Todo(sw', sock')) = Asked(Todo(sw, sock))
  <2>1. Todo(sw', sock') = Todo(sw, sock) \o << r >>
    BY <1>2, MessageBehind
  <2>2. Todo(sw, sock) \in Seq(Message) /\ << r >> \in Seq(Message)
    BY SessionTypes, OneMessage
  <2>3. Asked(Todo(sw, sock) \o << r >>) = Asked(Todo(sw, sock)) \o Asked(<< r >>)
    BY <2>2, EchoFacts, Zenon
  <2>4. Asked(<< r >>) = << >> /\ Asked(Todo(sw, sock)) \in Seq(Nat)
    BY <1>2, <2>2, EchoFacts, Zenon
  <2> QED
    BY <2>1, <2>3, <2>4, ConcatEmptySeq
<1> QED
  BY <1>1, <1>2, ResponseCases

LEMMA SwitchReceivesEcho ==
    ASSUME ShortMessages, IInv, IInv', SetupInv, SetupInv', EchoInv, SwitchReceives
    PROVE  EchoInv'
<1> DEFINE m == tx[1].msg
           n == << m >>
           a == SubSeq(tx, 1, m.len)
           b == SubSeq(tx, m.len + 1, Len(tx))
           p == Pending(sw)
           w == Ends(tx)
           v == Ends(b)
           o == Owed(sw)
           h == Heard(peer.log)
           H == Heard(peer'.log)
           y == Asked(Todo(sw, sock))
           R == [type : {"ECHO_REPLY"}, xid : Nat]
<1>1. /\ tx # << >> /\ m.len <= Len(tx) /\ sw' = sw /\ tx' = b
      /\ sock' = sock \o Response(m)
      /\ peer' = [peer EXCEPT !.log = Append(@, Note(m))]
  BY DEF SwitchReceives
<1>2. /\ tx \in Seq(Cell) /\ p \in Seq(Cell) /\ Framed(tx \o p)
  BY SessionTypes DEF IInv, TypeOK, OutboundFraming
<1>3. m \in Message /\ a = Cells(m) /\ b \in Seq(Cell) /\ a \in Seq(Cell) /\ a \o b = tx
      /\ 1 <= m.len
  BY <1>1, <1>2, FirstMessage
<1>4. w = n \o v /\ n \in Seq(Message) /\ v \in Seq(Message)
  <2> HIDE DEF m, a, b
  <2>1. Ends(a \o b) = Ends(a) \o Ends(b)
    BY <1>3, EndsConcat
  <2> QED
    BY <1>3, <2>1, EndsCells, EndsType, OneMessage
<1>5. /\ peer \in [log : Seq([type : MsgType, xid : Nat]), asked : Nat, left : Nat]
      /\ peer.log \in Seq(Named) /\ o \in Seq(Message)
  BY EchoTypes
<1>6. peer'.log = Append(peer.log, Note(m)) /\ peer'.asked = peer.asked
  BY <1>1, <1>5, Zenon
<1>7. Note(m) \in Named /\ (Note(m) \in R <=> m.type = "ECHO_REPLY") /\ Note(m).xid = m.xid
  <2>1. m.type \in MsgType /\ m.xid \in Nat
    BY <1>3 DEF Message
  <2> HIDE DEF m
  <2> QED
    BY <2>1 DEF Note, Named
<1>8. H = h \o Echoes(n)
  <2> DEFINE k == Note(m)
             l == peer.log
  <2>1. Append(l, k) = l \o << k >> /\ << k >> \in Seq(Named)
    <3>1. k \in Named /\ l \in Seq(Named)
      BY <1>5, <1>7
    <3> HIDE DEF k, l
    <3> QED
      BY <3>1, AppendIsConcat
  <2>2. Xids(l \o << k >>, R) = Xids(l, R) \o Xids(<< k >>, R)
    BY <1>5, <2>1, XidsConcat
  <2>3. Xids(<< k >>, R) = Echoes(n)
    <3>1. /\ m.type = "ECHO_REPLY" => Echoes(n) = << m.xid >>
          /\ m.type # "ECHO_REPLY" => Echoes(n) = << >>
      BY <1>3, EchoFacts
    <3>2. /\ k \in R => Xids(<< k >>, R) = << k.xid >>
          /\ k \notin R => Xids(<< k >>, R) = << >>
      BY <1>7, XidsOne, Zenon
    <3> QED
      BY <1>7, <3>1, <3>2
  <2> QED
    BY <1>6, <2>1, <2>2, <2>3, Zenon DEF Heard
<1>9. Asked(Todo(sw', sock')) = y
  BY <1>1, <1>3, ResponseAsksNothing
<1>10. h \o (Echoes(w \o o) \o y) = Count(peer.asked)
  BY DEF EchoInv
<1>11. h \in Seq(Nat) /\ y \in Seq(Nat)
  BY EchoTypes, EchoFacts
<1> HIDE DEF m, n, a, b, w, v, o, h, H, y
<1> DEFINE e == Echoes(n)
           f == Echoes(v \o o)
<1>12. Echoes(w \o o) = e \o f /\ e \in Seq(Nat) /\ f \in Seq(Nat)
  <2>1. (n \o v) \o o = n \o (v \o o) /\ v \o o \in Seq(Message)
    BY <1>4, <1>5, ConcatMessages
  <2> QED
    BY <1>4, <2>1, EchoFacts, Zenon
<1>13. h \o ((e \o f) \o y) = (h \o e) \o (f \o y)
  <2> HIDE DEF e, f
  <2>1. (e \o f) \o y = e \o (f \o y) /\ f \o y \in Seq(Nat)
    BY <1>11, <1>12, XidStream
  <2> DEFINE g == f \o y
  <2>2. g \in Seq(Nat)
    BY <2>1
  <2> HIDE DEF g
  <2>3. (h \o e) \o g = h \o (e \o g)
    <3>1. h \in Seq(Nat) /\ e \in Seq(Nat)
      BY <1>11, <1>12
    <3> QED
      BY <2>2, <3>1, XidStream, Zenon
  <2> QED
    BY <2>1, <2>3, Zenon DEF g
<1>14. H \o (f \o y) = Count(peer.asked)
  BY <1>8, <1>10, <1>12, <1>13, Zenon
<1> QED
  BY <1>1, <1>6, <1>9, <1>14 DEF EchoInv, H, f, v, o, y

LEMMA SwitchSaysEcho ==
    ASSUME IInv, SetupInv, EchoInv, SwitchSays
    PROVE  EchoInv'
<1>1. PICK m \in SwitchMsg :
        LET asked == peer.asked + (IF m.type = "ECHO_REQUEST" THEN 1 ELSE 0)
        IN  /\ sock' = sock \o Cells([m EXCEPT !.xid = asked])
            /\ peer' = [peer EXCEPT !.asked = asked, !.left = @ - 1]
  BY Zenon DEF SwitchSays
<1> DEFINE asked == peer.asked + (IF m.type = "ECHO_REQUEST" THEN 1 ELSE 0)
           r == [m EXCEPT !.xid = asked]
           z == << r >>
           h == Heard(peer.log)
           e == Echoes(Ends(tx) \o Owed(sw))
           y == Asked(Todo(sw, sock))
           n == peer.asked
<1>2. /\ sw' = sw /\ tx' = tx
      /\ sock' = sock \o Cells(r)
      /\ peer' = [peer EXCEPT !.asked = asked, !.left = @ - 1]
  BY <1>1 DEF SwitchSays
<1>3. /\ n \in Nat /\ h \in Seq(Nat) /\ e \in Seq(Nat) /\ y \in Seq(Nat)
      /\ peer \in [log : Seq([type : MsgType, xid : Nat]), asked : Nat, left : Nat]
      /\ Todo(sw, sock) \in Seq(Message)
  BY EchoTypes, EchoFacts
<1>4. h \o (e \o y) = Count(n)
  BY DEF EchoInv
<1>5. asked \in Nat
  BY <1>3
<1>6. m \in Message /\ HDR <= m.len
  BY SwitchAssumption DEF SwitchAssumption
<1>7. /\ m.type = "ECHO_REQUEST" => asked = n + 1
      /\ m.type # "ECHO_REQUEST" => asked = n
  BY <1>3
<1>8. peer'.log = peer.log /\ peer'.asked = asked
  <2> HIDE DEF asked
  <2> QED
    BY <1>2, <1>3, Zenon
<1> HIDE DEF asked
<1>9. r \in Message /\ r.len = m.len /\ r.type = m.type /\ r.xid = asked
  BY <1>5, <1>6, Zenon DEF Message
<1>10. 1 <= r.len
  BY <1>6, <1>9, SizeFacts, MessageFields
<1> HIDE DEF r
<1>11. Todo(sw', sock') = Todo(sw, sock) \o z /\ z \in Seq(Message)
  BY <1>2, <1>9, <1>10, MessageBehind, OneMessage
<1>12. Asked(Todo(sw', sock')) = y \o Asked(z)
  BY <1>3, <1>11, EchoFacts, Zenon
<1>13. /\ m.type = "ECHO_REQUEST" => Asked(z) = << asked >>
       /\ m.type # "ECHO_REQUEST" => Asked(z) = << >>
  BY <1>9, EchoFacts, Zenon
<1>14. /\ Heard(peer'.log) = h
       /\ Echoes(Ends(tx') \o Owed(sw')) = e
  BY <1>2, <1>8
<1> HIDE DEF h, e, y, z, n
<1>15. h \o (e \o (y \o Asked(z))) = Count(asked)
  <2>1. CASE m.type = "ECHO_REQUEST"
    <3> DEFINE c == << n + 1 >>
               g == e \o y
    <3>1. Asked(z) = c
      BY <1>7, <1>13, <2>1, Zenon
    <3>2. c \in Seq(Nat) /\ g \in Seq(Nat)
      BY <1>3
    <3>3. Count(n) \o c = Count(asked)
      BY <1>3, <1>7, <2>1, CountNext
    <3> HIDE DEF c
    <3>4. (e \o y) \o c = e \o (y \o c)
      <4>1. e \in Seq(Nat) /\ y \in Seq(Nat) /\ c \in Seq(Nat)
        BY <1>3, <3>2
      <4> QED
        BY <4>1, XidStream, Zenon
    <3> HIDE DEF g
    <3>5. (h \o g) \o c = h \o (g \o c)
      <4>1. h \in Seq(Nat)
        BY <1>3
      <4> QED
        BY <3>2, <4>1, XidStream, Zenon
    <3> QED
      BY <1>4, <3>1, <3>3, <3>4, <3>5, Zenon DEF g
  <2>2. CASE m.type # "ECHO_REQUEST"
    BY <1>3, <1>4, <1>7, <1>13, <2>2, ConcatEmptySeq
  <2> QED
    BY <2>1, <2>2
<1> QED
  BY <1>8, <1>12, <1>14, <1>15 DEF EchoInv, y

(* Echo requests are answered in the order in which they were asked, each  *)
(* at most once and with its own xid, whatever else is in between and      *)
(* however the messages are cut into pieces (make_echo_reply).             *)
THEOREM EchoesOrdered == ASSUME ShortMessages PROVE Spec => []EchoesInOrder
<1>1. Init /\ IInv /\ SetupInv => EchoInv
  BY InitEcho
<1>2. /\ IInv /\ SetupInv /\ EchoInv /\ [Next]_vars
      /\ IInv' /\ SetupInv'
      => EchoInv'
  <2> SUFFICES ASSUME IInv, IInv', SetupInv, SetupInv', EchoInv, [Next]_vars
               PROVE  EchoInv'
    OBVIOUS
  <2>1. CASE ReadStep
    BY <2>1, ReadStepEcho
  <2>2. CASE WriteStep
    BY <2>2, WriteStepEcho
  <2>3. CASE SwitchReceives
    BY <2>3, SwitchReceivesEcho
  <2>4. CASE SwitchSays
    BY <2>4, SwitchSaysEcho
  <2>5. CASE UNCHANGED vars
    BY <2>5 DEF vars, EchoInv
  <2> QED
    BY <2>1, <2>2, <2>3, <2>4, <2>5 DEF Next
<1>3. IInv /\ SetupInv /\ EchoInv => EchoesInOrder
  <2> SUFFICES ASSUME IInv, SetupInv, EchoInv PROVE EchoesInOrder
    OBVIOUS
  <2> DEFINE p == Pick(peer.log, [type : {"ECHO_REPLY"}, xid : Nat])
             h == Heard(peer.log)
             e == Echoes(Ends(tx) \o Owed(sw))
             y == Asked(Todo(sw, sock))
             n == peer.asked
             r == e \o y
  <2>1. /\ n \in Nat /\ h \in Seq(Nat) /\ e \in Seq(Nat) /\ y \in Seq(Nat)
        /\ r \in Seq(Nat)
        /\ peer.log \in Seq(Named) /\ h \o r = Count(n)
    BY EchoTypes, EchoFacts, XidStream DEF EchoInv
  <2>2. Len(h) = Len(p) /\ \A i \in 1..Len(p) : h[i] = p[i].xid
    BY <2>1, XidsType DEF Heard
  <2> HIDE DEF h, p, r, n
  <2>3. /\ Len(h) \in Nat /\ Len(r) \in Nat /\ Len(h \o r) = Len(h) + Len(r)
        /\ \A i \in 1..Len(h) : (h \o r)[i] = h[i]
    BY <2>1
  <2>4. Len(Count(n)) = n /\ \A i \in 1..n : Count(n)[i] = i
    BY <2>1, CountNext DEF Count
  <2>5. Len(p) <= n
    BY <2>1, <2>2, <2>3, <2>4
  <2>6. \A i \in 1..Len(p) : p[i].xid = i
    BY <2>1, <2>2, <2>3, <2>4, <2>5
  <2> QED
    BY <2>5, <2>6 DEF EchoesInOrder, Got, p, n
<1> QED
  BY <1>1, <1>2, <1>3, Invariance, SetupInvariance, PTL DEF Spec
=============================================================================
