--------------------------- MODULE LearningProofs ---------------------------
(***************************************************************************)
(* For every set of hosts and ports: a switch that goes by openflow.h      *)
(* reads the flow mods of the controller as they are meant and never       *)
(* refuses one, and while it forwards the frames of a host unasked it      *)
(* knows, or is about to learn, a way back that will outlast that.         *)
(***************************************************************************)
EXTENDS Learning, SequenceTheorems, FiniteSetTheorems, TLAPS

(* What the four kinds of flow mods mean.                                  *)
SrcFlow(p, h) ==
    Flow(SRC_TABLE, 1, 60,
         {Field(OFPXMT_OFB_IN_PORT, p), Field(OFPXMT_OFB_ETH_SRC, h)},
         {Do("GOTO_TABLE", DST_TABLE)})

DstFlow(p, h) ==
    Flow(DST_TABLE, 1, 60, {Field(OFPXMT_OFB_ETH_DST, h)}, {Do("APPLY_ACTIONS", p)})

MissFlow == Flow(SRC_TABLE, 0, 0, {}, {Do("APPLY_ACTIONS", OFPP_CONTROLLER)})

FloodFlow ==
    Flow(DST_TABLE, 0, 0, {Field(OFPXMT_OFB_ETH_DST, Broadcast)},
         {Do("APPLY_ACTIONS", OFPP_FLOOD)})

-----------------------------------------------------------------------------
(* round_up gives the next multiple of 8.                                  *)
LEMMA RoundUp ==
  ASSUME NEW n \in Nat
  PROVE  /\ round_up(n) \in Nat /\ round_up(n) % 8 = 0
         /\ n <= round_up(n) /\ round_up(n) < n + 8
  BY DEF round_up

(* The two instances of it that occur.                                     *)
LEMMA Lengths ==
  /\ round_up(4) = 8 /\ round_up(14) = 16 /\ round_up(22) = 24 /\ round_up(12) = 16
  BY DEF round_up

(* The offsets of openflow.h, as numbers.                                  *)
LEMMA Offsets ==
  /\ sizeof_ofp_header = 8 /\ sizeof_ofp_match = 8 /\ sizeof_ofp_flow_mod = 56
  /\ sizeof_ofp_instruction_actions = 8 /\ sizeof_ofp_action_output = 16
  /\ sizeof_ofp_instruction_goto_table = 8
  /\ off_table_id = 24 /\ off_hard_timeout = 28 /\ off_priority = 30
  /\ off_flow_match = 48 /\ off_match_length = 2 /\ off_oxm_fields = 4
  BY DEF sizeof_ofp_header, sizeof_ofp_match, sizeof_ofp_flow_mod,
         sizeof_ofp_instruction_actions, sizeof_ofp_action_output,
         sizeof_ofp_instruction_goto_table, off_table_id, off_hard_timeout,
         off_priority, off_flow_match, off_match_length, off_oxm_fields

LEMMA OxmHeaders ==
  /\ OXM_OF_IN_PORT = 4 /\ OXM_OF_ETH_DST = 1542 /\ OXM_OF_ETH_SRC = 2054
  /\ OXM_LENGTH(4) = 4 /\ OXM_LENGTH(1542) = 6 /\ OXM_LENGTH(2054) = 6
  /\ OXM_TYPE(4) = OFPXMT_OFB_IN_PORT /\ OXM_TYPE(1542) = OFPXMT_OFB_ETH_DST
  /\ OXM_TYPE(2054) = OFPXMT_OFB_ETH_SRC
  BY DEF OXM_OF_IN_PORT, OXM_OF_ETH_DST, OXM_OF_ETH_SRC, OXM_HEADER, OXM_LENGTH,
         OXM_TYPE, OFPXMT_OFB_IN_PORT, OFPXMT_OFB_ETH_DST, OFPXMT_OFB_ETH_SRC

(* What an item looks like.                                                *)
It(at, size, what, header, val) ==
    [at |-> at, size |-> size, what |-> what, header |-> header, val |-> val]

(* A flow mod of length bytes at base, with these OXM fields and this      *)
(* instruction.                                                            *)
Layout(base, length, table, hard, priority, match_length, match, instr) ==
    { It(base, 8, "FLOW_MOD", 0, length), It(base + 24, 1, "table_id", 0, table),
      It(base + 28, 2, "hard_timeout", 0, hard), It(base + 30, 2, "priority", 0, priority),
      It(base + 50, 2, "match_length", 0, match_length) } \cup match \cup {instr}

SrcLayout(p, h) ==
    Layout(0, 80, 0, 60, 1, 22,
           {It(52, 8, "OXM", 4, p), It(60, 10, "OXM", 2054, h)},
           It(72, 8, "GOTO_TABLE", 0, 1))

DstLayout(p, h) ==
    Layout(80, 88, 1, 60, 1, 14,
           {It(132, 10, "OXM", 1542, h)}, It(144, 24, "APPLY_ACTIONS", 0, p))

MissLayout ==
    Layout(0, 80, 0, 0, 0, 4, {}, It(56, 24, "APPLY_ACTIONS", 0, OFPP_CONTROLLER))

FloodLayout ==
    Layout(80, 88, 1, 0, 0, 14,
           {It(132, 10, "OXM", 1542, Broadcast)},
           It(144, 24, "APPLY_ACTIONS", 0, OFPP_FLOOD))

LEMMA SrcWritten ==
  ASSUME NEW p, NEW h
  PROVE  write_new_flow(Empty, h, SRC_TABLE, p) = Composed(SrcLayout(p, h), 80)
  BY Lengths, Offsets, OxmHeaders
     DEF write_new_flow, Empty, Composed, Put, flow_mod, Item, Oxm, goto_table, oxm_fields,
         SrcLayout, Layout, It, SRC_TABLE, DST_TABLE, hard_timeout

LEMMA DstWritten ==
  ASSUME NEW p, NEW h
  PROVE  read_packet_in(p, h) = Composed(SrcLayout(p, h) \cup DstLayout(p, h), 168)
<1>. DEFINE w == Composed(SrcLayout(p, h), 80)
<1>1. write_new_flow(Empty, h, SRC_TABLE, p) = w
  BY SrcWritten
<1>2. \A x \in SrcLayout(p, h) : x.at + x.size <= 80 /\ x.at \in Int /\ x.size \in Int
  BY DEF SrcLayout, Layout, It
<1>3. \A y \in DstLayout(p, h) : 80 <= y.at /\ y.at \in Int /\ y.size \in Int
  BY DEF DstLayout, Layout, It
<1>4. \A x \in SrcLayout(p, h), y \in DstLayout(p, h) : Apart(x, y)
  BY <1>2, <1>3 DEF Apart
<1>5. Put(SrcLayout(p, h), DstLayout(p, h)) = SrcLayout(p, h) \cup DstLayout(p, h)
  BY <1>4 DEF Put
<1>6. write_new_flow(w, h, DST_TABLE, p) = Composed(Put(w.buf, DstLayout(p, h)), 168)
  BY Lengths, Offsets, OxmHeaders
     DEF write_new_flow, Composed, flow_mod, Item, Oxm, output, oxm_fields,
         DstLayout, Layout, It, SRC_TABLE, DST_TABLE, hard_timeout
<1>. QED  BY <1>1, <1>5, <1>6 DEF read_packet_in, Composed

LEMMA DefaultsWritten ==
  /\ write_default_miss(Empty, FALSE) = Composed(MissLayout, 80)
  /\ default_flows = Composed(MissLayout \cup FloodLayout, 168)
<1>. DEFINE w == Composed(MissLayout, 80)
<1>1. write_default_miss(Empty, FALSE) = w
  BY Lengths, Offsets, OxmHeaders
     DEF write_default_miss, Empty, Composed, Put, flow_mod, Item, output,
         MissLayout, Layout, It, SRC_TABLE, DST_TABLE
<1>2. \A x \in MissLayout : x.at + x.size <= 80 /\ x.at \in Int /\ x.size \in Int
  BY DEF MissLayout, Layout, It
<1>3. \A y \in FloodLayout : 80 <= y.at /\ y.at \in Int /\ y.size \in Int
  BY DEF FloodLayout, Layout, It
<1>4. \A x \in MissLayout, y \in FloodLayout : Apart(x, y)
  BY <1>2, <1>3 DEF Apart
<1>5. Put(MissLayout, FloodLayout) = MissLayout \cup FloodLayout
  BY <1>4 DEF Put
<1>6. write_default_miss(w, TRUE) = Composed(Put(w.buf, FloodLayout), 168)
  BY Lengths, Offsets, OxmHeaders
     DEF write_default_miss, Composed, flow_mod, Item, Oxm, output, oxm_fields,
         FloodLayout, Layout, It, SRC_TABLE, DST_TABLE
<1>. QED  BY <1>1, <1>5, <1>6 DEF default_flows, Composed

-----------------------------------------------------------------------------
(* Reading.  Items before lo or from hi on do not matter to what lies      *)
(* between.                                                                *)
Beyond(items, lo, hi) ==
    \A x \in items : /\ x.at \in Int /\ x.size \in Int /\ x.size > 0
                     /\ x.at + x.size <= lo \/ hi <= x.at

LEMMA OneFound ==
  ASSUME NEW buf, NEW at, NEW size, NEW what, NEW val, It(at, size, what, 0, val) \in buf,
         \A x \in buf : x.at = at => x = It(at, size, what, 0, val)
  PROVE  Found(buf, at, size, what) = {val}
<1>1. It(at, size, what, 0, val).at = at /\ It(at, size, what, 0, val).size = size
      /\ It(at, size, what, 0, val).what = what /\ It(at, size, what, 0, val).val = val
  BY DEF It
<1>2. {y \in buf : y.at = at /\ y.size = size /\ y.what = what}
        = {It(at, size, what, 0, val)}
  BY <1>1
<1>. QED  BY <1>1, <1>2 DEF Found

(* A flow mod is read once it is known what lies between its bounds.       *)
LEMMA ParsedIs ==
  ASSUME NEW buf, NEW at, NEW length, NEW table, NEW hard, NEW priority, NEW match_length,
         NEW match, NEW instrs,
         match = Oxms(Between(buf, oxm_fields(at), at + off_flow_match + match_length)),
         instrs = Instructions(Between(buf, at + off_flow_match + round_up(match_length),
                                       at + length)),
         Filled(match, oxm_fields(at), at + off_flow_match + match_length),
         Filled(instrs, at + off_flow_match + round_up(match_length), at + length),
         instrs # {}
  PROVE  Parsed(buf, at, length, table, hard, priority, match_length) =
           {Flow(table, priority, hard, {Field(OXM_TYPE(x.header), x.val) : x \in match},
                 {Do(x.what, x.val) : x \in instrs})}
<1>. DEFINE m == Oxms(Between(buf, oxm_fields(at), at + off_flow_match + match_length))
            i == Instructions(Between(buf, at + off_flow_match + round_up(match_length),
                                      at + length))
<1>1. m = match /\ i = instrs
  OBVIOUS
<1>2. Filled(m, oxm_fields(at), at + off_flow_match + match_length)
      /\ Filled(i, at + off_flow_match + round_up(match_length), at + length) /\ i # {}
  BY <1>1
<1>3. Parsed(buf, at, length, table, hard, priority, match_length) =
        {Flow(table, priority, hard, {Field(OXM_TYPE(x.header), x.val) : x \in m},
              {Do(x.what, x.val) : x \in i})}
  BY <1>2 DEF Parsed
<1>. HIDE DEF m, i
<1>. QED  BY <1>1, <1>3

(* A flow mod at base is read as the one flow its layout describes, if its *)
(* OXM fields lie one behind the other up to match_length and its          *)
(* instruction reaches from the padding behind them to its end.            *)
Laid(base, length, match_length, match, at, size, what, rest) ==
    /\ base \in Nat /\ length \in Nat /\ match_length \in Nat /\ 4 <= match_length
    /\ size \in Nat \ {0} /\ what \in {"APPLY_ACTIONS", "GOTO_TABLE"}
    /\ at = base + 48 + round_up(match_length) /\ length = 48 + round_up(match_length) + size
    /\ \A x \in match : /\ x.at \in Int /\ x.size \in Int /\ x.size > 0 /\ x.what = "OXM"
                        /\ base + 52 <= x.at /\ x.at + x.size <= base + 48 + match_length
    /\ Filled(match, base + 52, base + 48 + match_length)
    /\ Beyond(rest, base, base + length)

LEMMA LayoutRead ==
  ASSUME NEW base, NEW length, NEW table, NEW hard, NEW priority, NEW match_length,
         NEW match, NEW at, NEW size, NEW what, NEW val, NEW rest,
         Laid(base, length, match_length, match, at, size, what, rest)
  PROVE  FlowsAt(Layout(base, length, table, hard, priority, match_length, match,
                        It(at, size, what, 0, val)) \cup rest, base) =
           {Flow(table, priority, hard, {Field(OXM_TYPE(x.header), x.val) : x \in match},
                 {Do(what, val)})}
<1>. /\ base \in Nat /\ length \in Nat /\ match_length \in Nat /\ 4 <= match_length
     /\ size \in Nat \ {0} /\ what \in {"APPLY_ACTIONS", "GOTO_TABLE"}
     /\ at = base + 48 + round_up(match_length) /\ length = 48 + round_up(match_length) + size
     /\ \A x \in match : /\ x.at \in Int /\ x.size \in Int /\ x.size > 0 /\ x.what = "OXM"
                         /\ base + 52 <= x.at /\ x.at + x.size <= base + 48 + match_length
     /\ Filled(match, base + 52, base + 48 + match_length)
     /\ Beyond(rest, base, base + length)
  BY DEF Laid
<1>. DEFINE instr == It(at, size, what, 0, val)
            own == Layout(base, length, table, hard, priority, match_length, match, instr)
            buf == own \cup rest
            instrs == {instr}
<1>0. /\ round_up(match_length) \in Nat /\ match_length <= round_up(match_length)
      /\ instr.at = base + 48 + round_up(match_length) /\ instr.size = size
      /\ instr.what = what /\ instr.val = val
  BY RoundUp DEF It
<1>1. /\ Found(buf, base, 8, "FLOW_MOD") = {length}
      /\ Found(buf, base + 24, 1, "table_id") = {table}
      /\ Found(buf, base + 28, 2, "hard_timeout") = {hard}
      /\ Found(buf, base + 30, 2, "priority") = {priority}
      /\ Found(buf, base + 50, 2, "match_length") = {match_length}
  <2>1. /\ It(base, 8, "FLOW_MOD", 0, length) \in buf
        /\ It(base + 24, 1, "table_id", 0, table) \in buf
        /\ It(base + 28, 2, "hard_timeout", 0, hard) \in buf
        /\ It(base + 30, 2, "priority", 0, priority) \in buf
        /\ It(base + 50, 2, "match_length", 0, match_length) \in buf
    BY DEF Layout
  <2>2. \A x \in buf :
          /\ x.at = base => x = It(base, 8, "FLOW_MOD", 0, length)
          /\ x.at = base + 24 => x = It(base + 24, 1, "table_id", 0, table)
          /\ x.at = base + 28 => x = It(base + 28, 2, "hard_timeout", 0, hard)
          /\ x.at = base + 30 => x = It(base + 30, 2, "priority", 0, priority)
          /\ x.at = base + 50 => x = It(base + 50, 2, "match_length", 0, match_length)
    <3>. DEFINE starts == {base, base + 24, base + 28, base + 30, base + 50}
    <3>1. \A x \in rest : x.at \notin starts
      BY <1>0 DEF Beyond
    <3>2. \A x \in match \cup {instr} : x.at \notin starts
      BY <1>0
    <3>3. \A x \in buf \ (rest \cup match \cup {instr}) :
            /\ x.at = base => x = It(base, 8, "FLOW_MOD", 0, length)
            /\ x.at = base + 24 => x = It(base + 24, 1, "table_id", 0, table)
            /\ x.at = base + 28 => x = It(base + 28, 2, "hard_timeout", 0, hard)
            /\ x.at = base + 30 => x = It(base + 30, 2, "priority", 0, priority)
            /\ x.at = base + 50 => x = It(base + 50, 2, "match_length", 0, match_length)
      BY DEF Layout, It
    <3>. HIDE DEF buf, instr
    <3>. QED  BY <3>1, <3>2, <3>3
  <2>. HIDE DEF buf
  <2>. QED  BY <2>1, <2>2, OneFound
<1>2. match = Oxms(Between(buf, base + 52, base + 48 + match_length))
  <2>1. \A x \in Between(rest, base + 52, base + 48 + match_length) : FALSE
    BY <1>0 DEF Between, Beyond
  <2>2. \A x \in own \ match : x.what # "OXM"
    BY <1>0 DEF Layout, It
  <2>3. match \subseteq own
    BY DEF Layout
  <2>. HIDE DEF own
  <2>. QED  BY <2>1, <2>2, <2>3 DEF Oxms, Between
<1>3. instrs = Instructions(Between(buf, base + 48 + round_up(match_length), base + length))
  <2>1. \A x \in Between(rest, base + 48 + round_up(match_length), base + length) : FALSE
    BY <1>0 DEF Between, Beyond
  <2>2. \A x \in own \ instrs : x.what \notin {"APPLY_ACTIONS", "GOTO_TABLE"}
    BY <1>0 DEF Layout, It
  <2>3. instrs \subseteq own
    BY DEF Layout
  <2>. HIDE DEF own, instr
  <2>. QED  BY <1>0, <2>1, <2>2, <2>3 DEF Instructions, Between
<1>4. Filled(instrs, base + 48 + round_up(match_length), base + length)
  <2>. HIDE DEF instr
  <2>. QED  BY <1>0 DEF Filled
<1>5. /\ match = Oxms(Between(buf, oxm_fields(base), base + off_flow_match + match_length))
      /\ instrs = Instructions(Between(buf, base + off_flow_match + round_up(match_length),
                                       base + length))
      /\ Filled(match, oxm_fields(base), base + off_flow_match + match_length)
      /\ Filled(instrs, base + off_flow_match + round_up(match_length), base + length)
  <2>1. oxm_fields(base) = base + 52 /\ off_flow_match = 48
    BY Offsets DEF oxm_fields
  <2>. HIDE DEF buf, instrs
  <2>. QED  BY <1>2, <1>3, <1>4, <2>1
<1>6. Parsed(buf, base, length, table, hard, priority, match_length) =
        {Flow(table, priority, hard, {Field(OXM_TYPE(x.header), x.val) : x \in match},
              {Do(x.what, x.val) : x \in instrs})}
  <2>1. instrs # {}
    OBVIOUS
  <2>. HIDE DEF buf, instrs
  <2>. QED  BY <1>5, <2>1, ParsedIs
<1>7. {Do(x.what, x.val) : x \in instrs} = {Do(what, val)}
  <2>. HIDE DEF instr
  <2>. QED  BY <1>0
<1>8. FlowsAt(buf, base) = Parsed(buf, base, length, table, hard, priority, match_length)
  <2>1. /\ sizeof_ofp_header = 8 /\ off_table_id = 24 /\ off_hard_timeout = 28
        /\ off_priority = 30 /\ base + off_flow_match + off_match_length = base + 50
    BY Offsets
  <2>. HIDE DEF buf
  <2>. QED  BY <1>1, <2>1 DEF FlowsAt
<1>9. FlowsAt(buf, base) =
        {Flow(table, priority, hard, {Field(OXM_TYPE(x.header), x.val) : x \in match},
              {Do(what, val)})}
  <2>. HIDE DEF buf, instrs
  <2>. QED  BY <1>6, <1>7, <1>8
<1>. QED  BY <1>9

(* A host's two flow mods are read as the flow for what it sends from its  *)
(* port, and the flow for the way back to that port.                       *)
LEMMA LearnedRead ==
  ASSUME NEW p, NEW h
  PROVE  LET w == read_packet_in(p, h)
             next == write_new_flow(Empty, h, SRC_TABLE, p).bytes_expected
         IN  FlowsAt(w.buf, 0) = {SrcFlow(p, h)} /\ FlowsAt(w.buf, next) = {DstFlow(p, h)}
<1>1. /\ read_packet_in(p, h).buf = SrcLayout(p, h) \cup DstLayout(p, h)
      /\ write_new_flow(Empty, h, SRC_TABLE, p).bytes_expected = 80
  <2>1. /\ read_packet_in(p, h) = Composed(SrcLayout(p, h) \cup DstLayout(p, h), 168)
        /\ write_new_flow(Empty, h, SRC_TABLE, p) = Composed(SrcLayout(p, h), 80)
    BY SrcWritten, DstWritten
  <2>. QED  BY <2>1 DEF Composed
<1>2. Beyond(SrcLayout(p, h), 80, 80 + 88) /\ Beyond(DstLayout(p, h), 0, 0 + 80)
  <2>1. \A x \in SrcLayout(p, h) :
          x.at + x.size <= 80 /\ x.at \in Int /\ x.size \in Int /\ x.size > 0
    BY DEF SrcLayout, Layout, It
  <2>2. \A y \in DstLayout(p, h) : 80 <= y.at /\ y.at \in Int /\ y.size \in Int /\ y.size > 0
    BY DEF DstLayout, Layout, It
  <2>. QED  BY <2>1, <2>2 DEF Beyond
<1>3. FlowsAt(SrcLayout(p, h) \cup DstLayout(p, h), 0) = {SrcFlow(p, h)}
  <2>. DEFINE match == {It(52, 8, "OXM", 4, p), It(60, 10, "OXM", 2054, h)}
  <2>1. Laid(0, 80, 22, match, 72, 8, "GOTO_TABLE", DstLayout(p, h))
    <3>1. \A x \in match : /\ x.at \in Int /\ x.size \in Int /\ x.size > 0 /\ x.what = "OXM"
                           /\ 0 + 52 <= x.at /\ x.at + x.size <= 0 + 48 + 22
      BY DEF It
    <3>2. Filled(match, 0 + 52, 0 + 48 + 22)
      BY DEF Filled, It
    <3>. HIDE DEF match
    <3>. QED  BY <1>2, <3>1, <3>2, Lengths DEF Laid
  <2>2. SrcLayout(p, h) = Layout(0, 80, 0, 60, 1, 22, match,
                     It(72, 8, "GOTO_TABLE", 0, 1))
    BY DEF SrcLayout
  <2>3. {Field(OXM_TYPE(x.header), x.val) : x \in match} = {Field(OFPXMT_OFB_IN_PORT, p), Field(OFPXMT_OFB_ETH_SRC, h)}
    BY OxmHeaders DEF It
  <2>. HIDE DEF match
  <2>4. FlowsAt(SrcLayout(p, h) \cup DstLayout(p, h), 0) =
          {Flow(0, 1, 60, {Field(OXM_TYPE(x.header), x.val) : x \in match},
                {Do("GOTO_TABLE", 1)})}
    BY <2>1, <2>2, LayoutRead
  <2>. QED  BY <2>3, <2>4, Zenon DEF SrcFlow, SRC_TABLE, DST_TABLE
<1>4. FlowsAt(SrcLayout(p, h) \cup DstLayout(p, h), 80) = {DstFlow(p, h)}
  <2>. DEFINE match == {It(132, 10, "OXM", 1542, h)}
  <2>1. Laid(80, 88, 14, match, 144, 24, "APPLY_ACTIONS", SrcLayout(p, h))
    <3>1. \A x \in match : /\ x.at \in Int /\ x.size \in Int /\ x.size > 0 /\ x.what = "OXM"
                           /\ 80 + 52 <= x.at /\ x.at + x.size <= 80 + 48 + 14
      BY DEF It
    <3>2. Filled(match, 80 + 52, 80 + 48 + 14)
      BY DEF Filled, It
    <3>. HIDE DEF match
    <3>. QED  BY <1>2, <3>1, <3>2, Lengths DEF Laid
  <2>2. DstLayout(p, h) = Layout(80, 88, 1, 60, 1, 14, match,
                     It(144, 24, "APPLY_ACTIONS", 0, p))
    BY DEF DstLayout
  <2>3. {Field(OXM_TYPE(x.header), x.val) : x \in match} = {Field(OFPXMT_OFB_ETH_DST, h)}
    BY OxmHeaders DEF It
  <2>. HIDE DEF match
  <2>4. FlowsAt(DstLayout(p, h) \cup SrcLayout(p, h), 80) =
          {Flow(1, 1, 60, {Field(OXM_TYPE(x.header), x.val) : x \in match},
                {Do("APPLY_ACTIONS", p)})}
    BY <2>1, <2>2, LayoutRead
  <2>5. DstLayout(p, h) \cup SrcLayout(p, h) = SrcLayout(p, h) \cup DstLayout(p, h)
    OBVIOUS
  <2>. QED  BY <2>3, <2>4, <2>5, Zenon DEF DstFlow, DST_TABLE
<1>. QED  BY <1>1, <1>3, <1>4

(* The default flow mods are read as the one for what has no other flow,   *)
(* and the one for what goes to everybody.                                 *)
LEMMA DefaultsRead == defaults = << {MissFlow}, {FloodFlow} >>
<1>1. /\ default_flows.buf = MissLayout \cup FloodLayout
      /\ write_default_miss(Empty, FALSE).bytes_expected = 80
  <2>1. /\ default_flows = Composed(MissLayout \cup FloodLayout, 168)
        /\ write_default_miss(Empty, FALSE) = Composed(MissLayout, 80)
    BY DefaultsWritten
  <2>2. ASSUME NEW w, NEW b, NEW n, w = Composed(b, n)
        PROVE  w.buf = b /\ w.bytes_expected = n
    BY <2>2 DEF Composed
  <2>3. default_flows.buf = MissLayout \cup FloodLayout
    BY <2>1, <2>2
  <2>4. write_default_miss(Empty, FALSE).bytes_expected = 80
    BY <2>1, <2>2
  <2>. QED  BY <2>3, <2>4
<1>2. Beyond(MissLayout, 80, 80 + 88) /\ Beyond(FloodLayout, 0, 0 + 80)
  <2>1. \A x \in MissLayout :
          x.at + x.size <= 80 /\ x.at \in Int /\ x.size \in Int /\ x.size > 0
    BY DEF MissLayout, Layout, It
  <2>2. \A y \in FloodLayout : 80 <= y.at /\ y.at \in Int /\ y.size \in Int /\ y.size > 0
    BY DEF FloodLayout, Layout, It
  <2>. QED  BY <2>1, <2>2 DEF Beyond
<1>3. FlowsAt(MissLayout \cup FloodLayout, 0) = {MissFlow}
  <2>. DEFINE match == {}
  <2>1. Laid(0, 80, 4, match, 56, 24, "APPLY_ACTIONS", FloodLayout)
    <3>1. \A x \in match : /\ x.at \in Int /\ x.size \in Int /\ x.size > 0 /\ x.what = "OXM"
                           /\ 0 + 52 <= x.at /\ x.at + x.size <= 0 + 48 + 4
      BY DEF It
    <3>2. Filled(match, 0 + 52, 0 + 48 + 4)
      BY DEF Filled, It
    <3>. HIDE DEF match
    <3>. QED  BY <1>2, <3>1, <3>2, Lengths DEF Laid
  <2>2. MissLayout = Layout(0, 80, 0, 0, 0, 4, match,
                     It(56, 24, "APPLY_ACTIONS", 0, OFPP_CONTROLLER))
    BY DEF MissLayout
  <2>3. {Field(OXM_TYPE(x.header), x.val) : x \in match} = {}
    BY OxmHeaders DEF It
  <2>. HIDE DEF match
  <2>4. FlowsAt(MissLayout \cup FloodLayout, 0) =
          {Flow(0, 0, 0, {Field(OXM_TYPE(x.header), x.val) : x \in match},
                {Do("APPLY_ACTIONS", OFPP_CONTROLLER)})}
    BY <2>1, <2>2, LayoutRead
  <2>. QED  BY <2>3, <2>4, Zenon DEF MissFlow, SRC_TABLE
<1>4. FlowsAt(MissLayout \cup FloodLayout, 80) = {FloodFlow}
  <2>. DEFINE match == {It(132, 10, "OXM", 1542, Broadcast)}
  <2>1. Laid(80, 88, 14, match, 144, 24, "APPLY_ACTIONS", MissLayout)
    <3>1. \A x \in match : /\ x.at \in Int /\ x.size \in Int /\ x.size > 0 /\ x.what = "OXM"
                           /\ 80 + 52 <= x.at /\ x.at + x.size <= 80 + 48 + 14
      BY DEF It
    <3>2. Filled(match, 80 + 52, 80 + 48 + 14)
      BY DEF Filled, It
    <3>. HIDE DEF match
    <3>. QED  BY <1>2, <3>1, <3>2, Lengths DEF Laid
  <2>2. FloodLayout = Layout(80, 88, 1, 0, 0, 14, match,
                     It(144, 24, "APPLY_ACTIONS", 0, OFPP_FLOOD))
    BY DEF FloodLayout
  <2>3. {Field(OXM_TYPE(x.header), x.val) : x \in match} = {Field(OFPXMT_OFB_ETH_DST, Broadcast)}
    BY OxmHeaders DEF It
  <2>. HIDE DEF match
  <2>4. FlowsAt(FloodLayout \cup MissLayout, 80) =
          {Flow(1, 0, 0, {Field(OXM_TYPE(x.header), x.val) : x \in match},
                {Do("APPLY_ACTIONS", OFPP_FLOOD)})}
    BY <2>1, <2>2, LayoutRead
  <2>5. FloodLayout \cup MissLayout = MissLayout \cup FloodLayout
    OBVIOUS
  <2>. QED  BY <2>3, <2>4, <2>5, Zenon DEF FloodFlow, DST_TABLE
<1>. QED  BY <1>1, <1>3, <1>4 DEF defaults

-----------------------------------------------------------------------------
(* The four kinds of flows, as the switch can find them in a flow mod.     *)
Known == {SrcFlow(p, h) : p \in Port, h \in Host} \cup {DstFlow(p, h) : p \in Port, h \in Host}
           \cup {MissFlow, FloodFlow}

LEMMA Kinds ==
  /\ \A p, h, g : IsSrc(SrcFlow(p, h), g) => g = h
  /\ \A p, h, g : ~ IsSrc(DstFlow(p, h), g)
  /\ \A p, h : IsDst(DstFlow(p, h), h)
  /\ \A g : ~ IsSrc(MissFlow, g) /\ ~ IsSrc(FloodFlow, g)
  /\ \A p, h : SrcFlow(p, h).hard = 60
  BY DEF IsSrc, IsDst, SrcFlow, DstFlow, MissFlow, FloodFlow, Flow, Field, Do, SRC_TABLE,
         DST_TABLE, OFPXMT_OFB_IN_PORT, OFPXMT_OFB_ETH_SRC, OFPXMT_OFB_ETH_DST

LEMMA LearnedIs ==
  ASSUME NEW n \in learned
  PROVE  /\ n.port \in Port /\ n.eth \in Host
         /\ n.mods = << {SrcFlow(n.port, n.eth)}, {DstFlow(n.port, n.eth)} >>
<1>1. PICK p \in Port, h \in Host : n = [port |-> p, eth |-> h, mods |-> Mods(p, h)]
  BY DEF learned
<1>2. Mods(p, h) = << {SrcFlow(p, h)}, {DstFlow(p, h)} >>
  BY LearnedRead DEF Mods
<1>. QED  BY <1>1, <1>2

(* The controller finds the port and the address in a PACKET_IN.           *)
LEMMA FrameRead ==
  ASSUME NEW p, NEW h
  PROVE  /\ get_input_port(packet_in(p, h, 2048, 0)) \subseteq {p}
         /\ source_address(packet_in(p, h, 2048, 0)) \subseteq {h}
<1>. DEFINE in == packet_in(p, h, 2048, 0)
<1>1. in = { It(0, 8, "PACKET_IN", 0, 56), It(12, 2, "total_len", 0, 14),
             It(14, 1, "reason", 0, 0), It(26, 2, "match_length", 0, 12),
             It(28, 8, "OXM", 4, p), It(48, 6, "address", 0, h), It(54, 2, "type", 0, 2048) }
  <2>1. /\ off_packet_match = 24 /\ off_reason = 14 /\ off_source = 6
        /\ sizeof_enet_header = 14
    BY Offsets DEF off_packet_match, off_reason, off_source, sizeof_enet_header
  <2>. QED  BY <2>1, Lengths, Offsets, OxmHeaders
            DEF packet_in, Item, Oxm, It, OFPR_NO_MATCH
<1>2. off_packet_match = 24 /\ sizeof_ofp_packet_in = 32
  BY Offsets DEF off_packet_match, off_reason, sizeof_ofp_packet_in
<1>. HIDE DEF in
<1>3. get_input_port(in) \subseteq {p}
  BY <1>1, <1>2, Offsets DEF get_input_port, It
<1>4. Found(in, 26, 2, "match_length") \subseteq {12} /\ Found(in, 48, 6, "address") \subseteq {h}
  BY <1>1 DEF Found, It
<1>5. source_address(in) \subseteq {h}
  BY <1>2, <1>4, Lengths, Offsets DEF source_address
<1>. QED  BY <1>3, <1>5 DEF in

(* What is left of a sequence when one element has been taken out.         *)
LEMMA Removed ==
  ASSUME NEW S, NEW s \in Seq(S), NEW i \in DOMAIN s
  PROVE  /\ RemoveAt(s, i) \in Seq(S) /\ Len(RemoveAt(s, i)) = Len(s) - 1
         /\ \A j \in 1..(Len(s) - 1) : RemoveAt(s, i)[j] = s[IF j < i THEN j ELSE j + 1]
<1>. DEFINE a == SubSeq(s, 1, i - 1)
            b == SubSeq(s, i + 1, Len(s))
<1>1. a \in Seq(S) /\ Len(a) = i - 1 /\ \A j \in 1..(i - 1) : a[j] = s[j]
  OBVIOUS
<1>2. b \in Seq(S) /\ Len(b) = Len(s) - i /\ \A j \in 1..(Len(s) - i) : b[j] = s[j + i]
  OBVIOUS
<1>. HIDE DEF a, b
<1>3. a \o b \in Seq(S) /\ Len(a \o b) = Len(s) - 1
  BY <1>1, <1>2
<1>4. ASSUME NEW j \in 1..(Len(s) - 1)
      PROVE  (a \o b)[j] = s[IF j < i THEN j ELSE j + 1]
  <2>1. CASE j < i
    BY <1>1, <1>2, <2>1
  <2>2. CASE ~ j < i
    <3>1. j - (i - 1) \in 1..(Len(s) - i) /\ Len(a) < j /\ j <= Len(a) + Len(b)
      BY <1>1, <1>2, <2>2
    <3>2. (a \o b)[j] = b[j - Len(a)]
      <4>1. \A k \in 1..(Len(a) + Len(b)) :
              (a \o b)[k] = IF k <= Len(a) THEN a[k] ELSE b[k - Len(a)]
        BY <1>1, <1>2, ConcatProperties
      <4>2. j \in 1..(Len(a) + Len(b)) /\ ~ (j <= Len(a))
        BY <1>1, <1>2, <3>1
      <4>. QED  BY <4>1, <4>2
    <3>3. b[j - (i - 1)] = s[j - (i - 1) + i]
      BY <1>2, <3>1
    <3>. QED  BY <1>1, <2>2, <3>2, <3>3
  <2>. QED  BY <2>1, <2>2
<1>. QED  BY <1>3, <1>4 DEF a, b, RemoveAt

-----------------------------------------------------------------------------
(* Both tables and all that is under way are of these kinds, and behind    *)
(* each first flow mod of a host that is under way there is one for the    *)
(* way back.  Only with that is WayBack kept when the first one arrives.   *)
Kept ==
    /\ flows \in Seq(Known)
    /\ told \in Seq({{e} : e \in Known})
    /\ asked \in Seq([port : Port, src : Host])
    /\ plug \in [Host -> Port]
    /\ moves \in 0..MaxMoves

PairsTold ==
    \A h \in Host : \A k \in DOMAIN told : \A e \in told[k] :
       IsSrc(e, h) => \E l \in DOMAIN told : l > k /\ \E d \in told[l] : IsDst(d, h)

IInv == Kept /\ PairsTold /\ WayBack /\ NeverRefused

LEMMA InitKept == Init => IInv
<1>. SUFFICES ASSUME Init PROVE IInv
  OBVIOUS
<1>1. told = << {MissFlow}, {FloodFlow} >>
  BY DefaultsRead DEF Init
<1>2. Kept
  <2>1. MissFlow \in Known /\ FloodFlow \in Known
    BY DEF Known
  <2>2. told \in Seq({{e} : e \in Known})
    BY <1>1, <2>1
  <2>3. flows \in Seq(Known) /\ asked \in Seq([port : Port, src : Host])
    BY DEF Init
  <2>. QED  BY <2>2, <2>3, LearningAssumption DEF Init, Kept, LearningAssumption
<1>3. PairsTold
  BY <1>1, Kinds DEF PairsTold
<1>. QED  BY <1>2, <1>3 DEF Init, IInv, WayBack, NeverRefused

LEMMA ServeStep == IInv /\ Serve => IInv'
<1>. SUFFICES ASSUME IInv, Serve PROVE IInv'
  OBVIOUS
<1>0. Tail(asked) \in Seq([port : Port, src : Host])
  <2>1. asked \in Seq([port : Port, src : Host]) /\ asked # << >>
    BY DEF IInv, Kept, Serve
  <2>. QED  BY <2>1, HeadTailProperties
<1>1. PICK n \in learned : told' = told \o n.mods
  BY DEF Serve
<1>2. /\ n.port \in Port /\ n.eth \in Host
      /\ n.mods = << {SrcFlow(n.port, n.eth)}, {DstFlow(n.port, n.eth)} >>
  BY LearnedIs
<1>. DEFINE N == Len(told)
            src == SrcFlow(n.port, n.eth)
            dst == DstFlow(n.port, n.eth)
            Mod == {{e} : e \in Known}
<1>3. {src} \in Mod /\ {dst} \in Mod
  BY <1>2 DEF Known
<1>. HIDE DEF src, dst, Mod
<1>4. /\ told \in Seq(Mod) /\ N \in Nat /\ told' = told \o << {src}, {dst} >>
  BY <1>1, <1>2 DEF IInv, Kept, Mod, src, dst
<1>5. /\ told' \in Seq(Mod) /\ Len(told') = N + 2
      /\ \A k \in 1..N : told'[k] = told[k]
      /\ told'[N + 1] = {src} /\ told'[N + 2] = {dst}
  BY <1>3, <1>4
<1>5a. DOMAIN told = 1..N /\ DOMAIN told' = 1..(N + 2)
  BY <1>4, <1>5
<1>. HIDE DEF N
<1>6. Kept'
  <2>1. UNCHANGED <<plug, flows, moves>> /\ asked' = Tail(asked)
    BY DEF Serve
  <2>. QED  BY <1>0, <1>5, <2>1 DEF IInv, Kept, Mod
<1>7. PairsTold'
  <2>. SUFFICES ASSUME NEW h \in Host, NEW k \in DOMAIN told', NEW e \in told'[k], IsSrc(e, h)
                PROVE  \E l \in DOMAIN told' : l > k /\ \E d \in told'[l] : IsDst(d, h)
    BY DEF PairsTold, IsSrc, IsDst
  <2>1. CASE k \in 1..N
    <3>1. PICK l \in DOMAIN told : l > k /\ \E d \in told[l] : IsDst(d, h)
      BY <1>4, <1>5, <2>1 DEF IInv, PairsTold
    <3>. QED  BY <1>4, <1>5, <1>5a, <3>1
  <2>2. CASE k = N + 1
    <3>1. e = src /\ h = n.eth
      BY <1>5, <2>2, Kinds DEF src
    <3>2. IsDst(dst, h)
      BY <3>1, Kinds DEF dst
    <3>3. N + 2 \in DOMAIN told' /\ N + 2 > k
      BY <1>4, <1>5a, <2>2
    <3>. QED  BY <1>5, <3>2, <3>3
  <2>3. CASE k = N + 2
    BY <1>5, <2>3, Kinds DEF dst
  <2>. QED  BY <1>4, <1>5a, <2>1, <2>2, <2>3
<1>8. WayBack'
  <2>. SUFFICES ASSUME NEW h \in Host, NEW i \in DOMAIN flows, IsSrc(flows[i], h)
                PROVE  \/ \E k \in DOMAIN flows : k > i /\ IsDst(flows[k], h)
                       \/ \E k \in DOMAIN told' : \E e \in told'[k] : IsDst(e, h)
    BY DEF Serve, WayBack, IsSrc, IsDst
  <2>1. CASE \E k \in DOMAIN flows : k > i /\ IsDst(flows[k], h)
    BY <2>1
  <2>2. CASE \E k \in DOMAIN told : \E e \in told[k] : IsDst(e, h)
    BY <1>4, <1>5, <1>5a, <2>2
  <2>. QED  BY <2>1, <2>2 DEF IInv, WayBack
<1>. QED  BY <1>6, <1>7, <1>8 DEF IInv, NeverRefused, Serve

(* A first flow mod takes the place of none but its like; what goes to a   *)
(* host is replaced only by what goes to it, and that comes to lie behind  *)
(* all the others.                                                         *)
LEMMA Added ==
  ASSUME Kept, NEW n \in Known, Add(n)
  PROVE  /\ flows' \in Seq(Known) /\ Len(flows') \in Nat \ {0}
         /\ flows'[Len(flows')] = n
         /\ \E j \in [1..(Len(flows') - 1) -> DOMAIN flows] :
              /\ \A i \in 1..(Len(flows') - 1) : flows'[i] = flows[j[i]]
              /\ \A i, k \in 1..(Len(flows') - 1) : i < k <=> j[i] < j[k]
              /\ \A k \in DOMAIN flows : \/ \E i \in 1..(Len(flows') - 1) : j[i] = k
                                         \/ Rival(flows[k], n)
<1>0. flows \in Seq(Known) /\ Len(flows) \in Nat /\ DOMAIN flows = 1..Len(flows)
  BY DEF Kept
<1>. DEFINE L == Len(flows)
<1>1. CASE flows' = Append(flows, n)
  <2>1. /\ flows' \in Seq(Known) /\ Len(flows') = L + 1 /\ flows'[L + 1] = n
        /\ \A i \in 1..L : flows'[i] = flows[i]
    BY <1>0, <1>1
  <2>. DEFINE j == [i \in 1..L |-> i]
  <2>2. /\ j \in [1..L -> DOMAIN flows] /\ \A i \in 1..L : j[i] = i
    BY <1>0
  <2>3. (L + 1) - 1 = L /\ L + 1 \in Nat \ {0}
    BY <1>0
  <2>. HIDE DEF j, L
  <2>4. \A i, k \in 1..L : i < k <=> j[i] < j[k]
    BY <2>2
  <2>5. \A k \in DOMAIN flows : \E i \in 1..L : j[i] = k
    BY <1>0, <2>2 DEF L
  <2>. QED  BY <2>1, <2>2, <2>3, <2>4, <2>5
<1>2. CASE \E r \in DOMAIN flows : Rival(flows[r], n) /\ flows' = Append(RemoveAt(flows, r), n)
  <2>1. PICK r \in DOMAIN flows : Rival(flows[r], n) /\ flows' = Append(RemoveAt(flows, r), n)
    BY <1>2
  <2>. DEFINE j == [i \in 1..(L - 1) |-> IF i < r THEN i ELSE i + 1]
              rest == RemoveAt(flows, r)
  <2>2. /\ rest \in Seq(Known) /\ Len(rest) = L - 1
        /\ \A i \in 1..(L - 1) : rest[i] = flows[IF i < r THEN i ELSE i + 1]
    BY <1>0, Removed
  <2>. HIDE DEF rest
  <2>3. /\ flows' \in Seq(Known) /\ Len(flows') = L /\ flows'[L] = n
        /\ \A i \in 1..(L - 1) : flows'[i] = rest[i]
    <3>1. flows' = Append(rest, n) /\ L \in Nat
      BY <1>0, <2>1 DEF rest
    <3>. HIDE DEF L
    <3>2. /\ Append(rest, n) \in Seq(Known) /\ Len(Append(rest, n)) = (L - 1) + 1
          /\ Append(rest, n)[(L - 1) + 1] = n
          /\ \A i \in 1..(L - 1) : Append(rest, n)[i] = rest[i]
      BY <2>2
    <3>3. (L - 1) + 1 = L
      BY <3>1
    <3>. QED  BY <3>1, <3>2, <3>3
  <2>4. /\ j \in [1..(L - 1) -> DOMAIN flows]
        /\ \A i \in 1..(L - 1) : j[i] = IF i < r THEN i ELSE i + 1
    BY <1>0
  <2>5. L \in Nat \ {0} /\ r \in 1..L
    BY <1>0, <2>1
  <2>. HIDE DEF j, L
  <2>6. \A i, k \in 1..(L - 1) : i < k <=> j[i] < j[k]
    BY <2>4, <2>5
  <2>7. ASSUME NEW k \in DOMAIN flows, k # r
        PROVE  \E i \in 1..(L - 1) : j[i] = k
    <3>1. k \in 1..L
      BY <1>0 DEF L
    <3>2. CASE k < r
      BY <2>4, <2>5, <3>1, <3>2
    <3>3. CASE r < k
      <4>1. k - 1 \in 1..(L - 1) /\ ~ (k - 1 < r) /\ (k - 1) + 1 = k
        BY <2>5, <3>1, <3>3
      <4>. QED  BY <2>4, <4>1
    <3>. QED  BY <2>5, <2>7, <3>1, <3>2, <3>3
  <2>8. \A i \in 1..(L - 1) : flows'[i] = flows[j[i]]
    BY <2>2, <2>3, <2>4
  <2>. QED  BY <2>1, <2>3, <2>4, <2>5, <2>6, <2>7, <2>8
<1>. QED  BY <1>1, <1>2 DEF Add

LEMMA InstallStep == IInv /\ Install => IInv'
<1>. SUFFICES ASSUME IInv, Install PROVE IInv'
  OBVIOUS
<1>. DEFINE Mod == {{e} : e \in Known}
            N == Len(told)
<1>1. /\ told \in Seq(Mod) /\ told # << >> /\ told' = Tail(told)
  BY DEF IInv, Kept, Install
<1>2. PICK n \in Known : told[1] = {n}
  BY <1>1
<1>3. Head(told) = {n} /\ Add(n) /\ open' = open /\ UNCHANGED <<plug, asked, moves>>
  <2>1. Head(told) = {n} /\ Head(told) # {}
    <3>1. Head(told) = told[1]
      BY <1>1, HeadTailProperties
    <3>. QED  BY <1>2, <3>1
  <2>. QED  BY <2>1 DEF Install
<1>4. /\ told' \in Seq(Mod) /\ DOMAIN told = 1..N /\ DOMAIN told' = 1..(N - 1) /\ N \in Nat \ {0}
      /\ \A k \in 1..(N - 1) : told'[k] = told[k + 1]
  BY <1>1, HeadTailProperties
<1>. HIDE DEF Mod, N
<1>5. /\ flows' \in Seq(Known) /\ Len(flows') \in Nat \ {0} /\ flows'[Len(flows')] = n
  BY <1>3, Added DEF IInv
<1>. DEFINE L == Len(flows')
<1>6. PICK j \in [1..(L - 1) -> DOMAIN flows] :
              /\ \A i \in 1..(L - 1) : flows'[i] = flows[j[i]]
              /\ \A i, k \in 1..(L - 1) : i < k <=> j[i] < j[k]
              /\ \A k \in DOMAIN flows : \/ \E i \in 1..(L - 1) : j[i] = k
                                         \/ Rival(flows[k], n)
  BY <1>3, Added DEF IInv
<1>7. DOMAIN flows' = 1..L /\ L \in Nat \ {0} /\ flows'[L] = n
  BY <1>5
<1>. HIDE DEF L
<1>8. Kept'
  BY <1>3, <1>4, <1>5 DEF IInv, Kept, Mod
<1>9. PairsTold'
  <2>. SUFFICES ASSUME NEW h \in Host, NEW k \in DOMAIN told', NEW e \in told'[k], IsSrc(e, h)
                PROVE  \E l \in DOMAIN told' : l > k /\ \E d \in told'[l] : IsDst(d, h)
    BY DEF PairsTold, IsSrc, IsDst
  <2>1. k + 1 \in DOMAIN told /\ e \in told[k + 1]
    BY <1>4
  <2>2. PICK l \in DOMAIN told : l > k + 1 /\ \E d \in told[l] : IsDst(d, h)
    BY <2>1 DEF IInv, PairsTold
  <2>3. l - 1 \in DOMAIN told' /\ l - 1 > k /\ told'[l - 1] = told[l]
    <3>1. l - 1 \in 1..(N - 1) /\ (l - 1) + 1 = l /\ l - 1 > k
      BY <1>4, <2>2
    <3>. QED  BY <1>4, <3>1
  <2>. QED  BY <2>2, <2>3
<1>10. WayBack'
  <2>. SUFFICES ASSUME NEW h \in Host, NEW i \in DOMAIN flows', IsSrc(flows'[i], h)
                PROVE  \/ \E k \in DOMAIN flows' : k > i /\ IsDst(flows'[k], h)
                       \/ \E k \in DOMAIN told' : \E e \in told'[k] : IsDst(e, h)
    BY DEF WayBack, IsSrc, IsDst
  <2>1. ASSUME NEW k \in DOMAIN told, k # 1, NEW e \in told[k], IsDst(e, h)
        PROVE  \E l \in DOMAIN told' : \E d \in told'[l] : IsDst(d, h)
    <3>1. k - 1 \in 1..(N - 1) /\ (k - 1) + 1 = k
      BY <1>4, <2>1
    <3>2. k - 1 \in DOMAIN told' /\ told'[k - 1] = told[k]
      BY <1>4, <3>1
    <3>. QED  BY <2>1, <3>2
  <2>2. CASE i = L
    <3>1. IsSrc(n, h) /\ 1 \in DOMAIN told
      BY <1>4, <1>7, <2>2
    <3>2. PICK l \in DOMAIN told : l > 1 /\ \E d \in told[l] : IsDst(d, h)
      BY <1>2, <3>1 DEF IInv, PairsTold
    <3>. QED  BY <1>4, <2>1, <3>2
  <2>3. CASE i # L
    <3>1. i \in 1..(L - 1) /\ i < L
      BY <1>7, <2>3
    <3>2. j[i] \in DOMAIN flows /\ IsSrc(flows[j[i]], h)
      BY <1>6, <3>1
    <3>3. ASSUME IsDst(n, h)
          PROVE  \E k \in DOMAIN flows' : k > i /\ IsDst(flows'[k], h)
      BY <1>7, <3>1, <3>3
    <3>4. CASE \E k \in DOMAIN flows : k > j[i] /\ IsDst(flows[k], h)
      <4>1. PICK k \in DOMAIN flows : k > j[i] /\ IsDst(flows[k], h)
        BY <3>4
      <4>2. CASE Rival(flows[k], n)
        <5>1. IsDst(n, h)
          BY <4>1, <4>2 DEF Rival, IsDst
        <5>. QED  BY <3>3, <5>1
      <4>3. CASE \E m \in 1..(L - 1) : j[m] = k
        <5>1. PICK m \in 1..(L - 1) : j[m] = k
          BY <4>3
        <5>2. m > i /\ m \in DOMAIN flows' /\ flows'[m] = flows[k]
          <6>1. j[i] < j[m]
            BY <1>4, <4>1, <5>1, <1>6, <3>1, <3>2 DEF IInv, Kept
          <6>. QED  BY <1>6, <1>7, <3>1, <5>1, <6>1
        <5>. QED  BY <4>1, <5>2
      <4>. QED  BY <1>6, <4>2, <4>3
    <3>5. CASE \E k \in DOMAIN told : \E e \in told[k] : IsDst(e, h)
      <4>1. PICK k \in DOMAIN told : \E e \in told[k] : IsDst(e, h)
        BY <3>5
      <4>2. CASE k = 1
        BY <1>2, <3>3, <4>1, <4>2
      <4>3. CASE k # 1
        BY <2>1, <4>1, <4>3
      <4>. QED  BY <4>2, <4>3
    <3>. QED  BY <3>2, <3>4, <3>5 DEF IInv, WayBack
  <2>. QED  BY <2>2, <2>3
<1>. QED  BY <1>3, <1>8, <1>9, <1>10 DEF IInv, NeverRefused

LEMMA ExpireStep == IInv /\ Expire => IInv'
<1>. SUFFICES ASSUME IInv, Expire PROVE IInv'
  OBVIOUS
<1>1. flows \in Seq(Known) /\ Len(flows) \in Nat /\ DOMAIN flows = 1..Len(flows)
  BY DEF IInv, Kept
<1>2. PICK r \in DOMAIN flows :
        /\ flows[r].hard # 0 /\ \A k \in 1..(r - 1) : flows[k].hard = 0
        /\ flows' = RemoveAt(flows, r)
  BY DEF Expire
<1>. DEFINE L == Len(flows)
            was(i) == IF i < r THEN i ELSE i + 1
<1>3. /\ flows' \in Seq(Known) /\ Len(flows') = L - 1
      /\ \A i \in 1..(L - 1) : flows'[i] = flows[was(i)]
  BY <1>1, <1>2, Removed
<1>4. DOMAIN flows' = 1..(L - 1) /\ L \in Nat
  BY <1>1, <1>3
<1>. HIDE DEF L
<1>5. Kept'
  BY <1>3 DEF IInv, Kept, Expire
<1>6. PairsTold'
  BY DEF IInv, PairsTold, IsSrc, IsDst, Expire
<1>7. WayBack'
  <2>. SUFFICES ASSUME NEW h \in Host, NEW i \in DOMAIN flows', IsSrc(flows'[i], h)
                PROVE  \/ \E k \in DOMAIN flows' : k > i /\ IsDst(flows'[k], h)
                       \/ \E k \in DOMAIN told : \E e \in told[k] : IsDst(e, h)
    BY DEF Expire, WayBack, IsSrc, IsDst
  <2>1. was(i) \in DOMAIN flows /\ IsSrc(flows[was(i)], h)
    BY <1>1, <1>2, <1>3, <1>4 DEF L
  <2>2. flows[was(i)].hard # 0
    <3>1. flows[was(i)] \in Known
      BY <1>1, <2>1
    <3>. HIDE DEF was
    <3>2. PICK p \in Port, g \in Host : flows[was(i)] = SrcFlow(p, g)
      BY <2>1, <3>1, Kinds DEF Known
    <3>. QED  BY <3>2, Kinds
  <2>3. ~ (i < r) /\ was(i) > r
    BY <1>1, <1>2, <1>4, <2>2
  <2>4. ASSUME NEW k \in DOMAIN flows, k > was(i), IsDst(flows[k], h)
        PROVE  \E m \in DOMAIN flows' : m > i /\ IsDst(flows'[m], h)
    <3>1. k - 1 \in 1..(L - 1) /\ k - 1 > i /\ was(k - 1) = k
      BY <1>1, <1>2, <1>4, <2>3, <2>4 DEF L
    <3>. QED  BY <1>3, <1>4, <2>4, <3>1
  <2>. QED  BY <2>1, <2>4 DEF IInv, WayBack
<1>. QED  BY <1>5, <1>6, <1>7 DEF IInv, NeverRefused, Expire

LEMMA NextStep == IInv /\ [Next]_vars => IInv'
<1>. SUFFICES ASSUME IInv, [Next]_vars PROVE IInv'
  OBVIOUS
<1>1. CASE Serve
  BY <1>1, ServeStep
<1>2. CASE Install
  BY <1>2, InstallStep
<1>3. CASE Expire
  BY <1>3, ExpireStep
<1>4. ASSUME NEW h \in Host, Send(h)
      PROVE  IInv'
  <2>1. Kept'
    <3>1. [port |-> plug[h], src |-> h] \in [port : Port, src : Host]
      BY DEF IInv, Kept
    <3>2. asked' = Append(asked, [port |-> plug[h], src |-> h])
          /\ UNCHANGED <<plug, flows, told, moves>>
      BY <1>4 DEF Send
    <3>3. asked' \in Seq([port : Port, src : Host])
      BY <3>1, <3>2, AppendProperties DEF IInv, Kept
    <3>. QED  BY <3>2, <3>3 DEF IInv, Kept
  <2>. QED  BY <1>4, <2>1 DEF Send, IInv, PairsTold, WayBack, NeverRefused, IsSrc, IsDst
<1>5. ASSUME NEW h \in Host, Move(h)
      PROVE  IInv'
  <2>1. Kept'
    BY <1>5, LearningAssumption DEF Move, IInv, Kept, LearningAssumption
  <2>. QED  BY <1>5, <2>1 DEF Move, IInv, PairsTold, WayBack, NeverRefused, IsSrc, IsDst
<1>6. CASE UNCHANGED vars
  BY <1>6 DEF vars, IInv, Kept, PairsTold, WayBack, NeverRefused, IsSrc, IsDst
<1>. QED  BY <1>1, <1>2, <1>3, <1>4, <1>5, <1>6 DEF Next

LEMMA Inductive == Spec => []IInv
  BY InitKept, NextStep, PTL DEF Spec

(* Whatever the hosts, the ports and what is under way: a switch that goes *)
(* by openflow.h refuses none of the flow mods write_new_flow and          *)
(* write_default_miss compose, and so the controller keeps the switch.     *)
THEOREM Accepted == Spec => []NeverRefused
<1>1. IInv => NeverRefused
  BY DEF IInv
<1>. QED  BY <1>1, Inductive, PTL

(* Whatever order flow mods, moves of hosts and timeouts come in, a flow   *)
(* from a host (read_packet_in) never outlives the flow for the way back   *)
(* to it.                                                                  *)
THEOREM BackKnown == Spec => []WayBack
<1>1. IInv => WayBack
  BY DEF IInv
<1>. QED  BY <1>1, Inductive, PTL

(* Every flow in the tables, and every flow mod under way, is one of the   *)
(* four kinds, with the timeouts, tables and ports of the code.            *)
THEOREM Types == Spec => []TypeOK
<1>1. ASSUME NEW e \in Known
      PROVE  e \in FlowEntry
  <2>1. CASE \E p \in Port, h \in Host : e = SrcFlow(p, h)
    BY <2>1 DEF SrcFlow, Flow, Field, Do, FlowEntry, SRC_TABLE, DST_TABLE,
                OFPXMT_OFB_IN_PORT, OFPXMT_OFB_ETH_SRC
  <2>2. CASE \E p \in Port, h \in Host : e = DstFlow(p, h)
    BY <2>2 DEF DstFlow, Flow, Field, Do, FlowEntry, DST_TABLE, OFPXMT_OFB_ETH_DST
  <2>3. CASE e = MissFlow
    BY <2>3 DEF MissFlow, Flow, Do, FlowEntry, SRC_TABLE
  <2>4. CASE e = FloodFlow
    BY <2>4 DEF FloodFlow, Flow, Field, Do, FlowEntry, DST_TABLE, OFPXMT_OFB_ETH_DST
  <2>. QED  BY <2>1, <2>2, <2>3, <2>4 DEF Known
<1>2. IInv => TypeOK
  <2>. SUFFICES ASSUME IInv PROVE TypeOK
    OBVIOUS
  <2>1. \A i \in DOMAIN flows : flows[i] \in FlowEntry
    BY <1>1 DEF IInv, Kept
  <2>2. ASSUME NEW i \in DOMAIN told
        PROVE  told[i] \subseteq FlowEntry /\ Cardinality(told[i]) <= 1
    <3>1. PICK e \in Known : told[i] = {e}
      BY DEF IInv, Kept
    <3>2. Cardinality({e}) = 1
      BY FS_Singleton
    <3>. QED  BY <1>1, <3>1, <3>2
  <2>. QED  BY <2>1, <2>2 DEF IInv, Kept, NeverRefused, TypeOK
<1>. QED  BY <1>2, Inductive, PTL

(* The controller's answer to a PACKET_IN is about the host and the port   *)
(* of that PACKET_IN: get_input_port and read_packet_in find both where    *)
(* the switch has put them.                                                *)
THEOREM AnswersFrame ==
  ASSUME NEW p \in Port, NEW h \in Host, asked # << >>,
         Head(asked) = [port |-> p, src |-> h], Serve
  PROVE  told' = told \o << {SrcFlow(p, h)}, {DstFlow(p, h)} >>
<1>. DEFINE in == packet_in(p, h, 2048, 0)
<1>0. Head(asked).port = p /\ Head(asked).src = h
  OBVIOUS
<1>1. packet_in(Head(asked).port, Head(asked).src, 2048, 0) = in
  BY <1>0
<1>2. \E n \in learned : /\ n.port \in get_input_port(in) /\ n.eth \in source_address(in)
                        /\ told' = told \o n.mods
  <2>. HIDE DEF in
  <2>. QED  BY <1>1 DEF Serve
<1>3. get_input_port(in) \subseteq {p} /\ source_address(in) \subseteq {h}
  BY FrameRead
<1>. HIDE DEF in
<1>4. PICK n \in learned : n.port \in get_input_port(in) /\ n.eth \in source_address(in)
                          /\ told' = told \o n.mods
  BY <1>2
<1>5. n.port = p /\ n.eth = h
  BY <1>3, <1>4
<1>. QED  BY <1>4, <1>5, LearnedIs
=============================================================================
