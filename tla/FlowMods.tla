------------------------------ MODULE FlowMods ------------------------------
(***************************************************************************)
(* The flow mods of the controller byte by byte: where rw_packets.c puts   *)
(* the fields of a FLOW_MOD in the write buffer, and what a switch that    *)
(* goes by the structs of openflow.h finds there; and the other way round  *)
(* for the PACKET_IN of a host's frame.  Learning puts the two at the ends *)
(* of a connection.                                                        *)
(*                                                                         *)
(* A buffer is the set of the items that have been stored in it.  An item  *)
(* lies at a byte offset, has a size, and takes the place of whatever it   *)
(* overlaps.                                                               *)
(***************************************************************************)
EXTENDS Integers

CONSTANT Broadcast   \* the Ethernet address ff:ff:ff:ff:ff:ff

sizeof_ofp_header == 1 + 1 + 2 + 4

sizeof_ofp_match == 2 + 2 + 4

sizeof_ofp_action_output == 2 + 2 + 4 + 2 + 6

sizeof_ofp_instruction_goto_table == 2 + 2 + 1 + 3

sizeof_ofp_instruction_actions == 2 + 2 + 4

(* struct ofp_flow_mod: the header, two cookies, and of the fields behind  *)
(* them those that matter here.                                            *)
off_table_id == sizeof_ofp_header + 8 + 8
off_hard_timeout == off_table_id + 1 + 1 + 2
off_priority == off_hard_timeout + 2
off_flow_match == off_priority + 2 + 4 + 4 + 4 + 2 + 2

sizeof_ofp_flow_mod == off_flow_match + sizeof_ofp_match

(* struct ofp_packet_in ends in the match too; two bytes of padding and    *)
(* the frame follow it.                                                    *)
off_reason == sizeof_ofp_header + 4 + 2
off_packet_match == off_reason + 1 + 1 + 8

sizeof_ofp_packet_in == off_packet_match + sizeof_ofp_match

(* struct enet_header.                                                     *)
off_source == 6
sizeof_enet_header == 6 + 6 + 2

(* struct ofp_match: the length, and the OXM fields.                       *)
off_match_length == 2
off_oxm_fields == 2 + 2

SRC_TABLE == 0
DST_TABLE == 1

(* Reserved ports, as signed numbers of 32 bits.                           *)
OFPP_FLOOD == -5
OFPP_CONTROLLER == -3

OFPR_NO_MATCH == 0

(* The header of an OXM field without its class, which is the same for all *)
(* of them: the field and the length of the value.                         *)
OXM_HEADER(field, length) == field * 512 + length

OXM_TYPE(header) == header \div 512

OXM_LENGTH(header) == header % 256

OFPXMT_OFB_IN_PORT == 0
OFPXMT_OFB_ETH_DST == 3
OFPXMT_OFB_ETH_SRC == 4

OXM_OF_IN_PORT == OXM_HEADER(OFPXMT_OFB_IN_PORT, 4)
OXM_OF_ETH_DST == OXM_HEADER(OFPXMT_OFB_ETH_DST, 6)
OXM_OF_ETH_SRC == OXM_HEADER(OFPXMT_OFB_ETH_SRC, 6)

round_up(num) == IF num % 8 = 0 THEN num ELSE (num \div 8 + 1) * 8

-----------------------------------------------------------------------------
(* header tells the OXM fields apart, and is 0 in other items.             *)
Item(at, size, what, val) ==
    [at |-> at, size |-> size, what |-> what, header |-> 0, val |-> val]

Oxm(at, header, val) ==
    [at |-> at, size |-> 4 + OXM_LENGTH(header), what |-> "OXM",
     header |-> header, val |-> val]

Apart(x, y) == x.at + x.size <= y.at \/ y.at + y.size <= x.at

Put(buf, items) == {x \in buf : \A y \in items : Apart(x, y)} \cup items

(* The fields both writers assign, for a flow mod at base.                 *)
flow_mod(base, length, table, hard, priority, match_length) ==
    { Item(base, sizeof_ofp_header, "FLOW_MOD", length),
      Item(base + off_table_id, 1, "table_id", table),
      Item(base + off_hard_timeout, 2, "hard_timeout", hard),
      Item(base + off_priority, 2, "priority", priority),
      Item(base + off_flow_match + off_match_length, 2, "match_length", match_length) }

(* An instruction to apply the one action of putting the frame out.        *)
output(at, port) ==
    Item(at, sizeof_ofp_instruction_actions + sizeof_ofp_action_output,
         "APPLY_ACTIONS", port)

goto_table(at, table) ==
    Item(at, sizeof_ofp_instruction_goto_table, "GOTO_TABLE", table)

(* A write buffer and bytes_expected, which says where the next flow mod   *)
(* begins.                                                                 *)
Composed(buf, bytes_expected) == [buf |-> buf, bytes_expected |-> bytes_expected]

Empty == Composed({}, 0)

oxm_fields(base) == base + off_flow_match + off_oxm_fields

(* The default flows, which never time out: what is sent to Broadcast is   *)
(* flooded, and what has no other flow in the first table goes to the      *)
(* controller.                                                             *)
write_default_miss(w, broadcast_rule) ==
    LET base == w.bytes_expected
        match_length == IF broadcast_rule THEN 14 ELSE 4
        match == IF broadcast_rule
                 THEN {Oxm(oxm_fields(base), OXM_OF_ETH_DST, Broadcast)} ELSE {}
        instr == IF broadcast_rule
                 THEN output(base + sizeof_ofp_flow_mod + round_up(match_length)
                               - sizeof_ofp_match, OFPP_FLOOD)
                 ELSE output(base + sizeof_ofp_flow_mod, OFPP_CONTROLLER)
        length == IF broadcast_rule
                  THEN sizeof_ofp_instruction_actions + sizeof_ofp_flow_mod +
                       round_up(match_length - sizeof_ofp_match + sizeof_ofp_action_output)
                  ELSE sizeof_ofp_flow_mod + sizeof_ofp_instruction_actions +
                       sizeof_ofp_action_output
        table == IF broadcast_rule THEN DST_TABLE ELSE SRC_TABLE
    IN  Composed(Put(w.buf, flow_mod(base, length, table, 0, 0, match_length)
                              \cup match \cup {instr}),
                 base + length)

(* Wrong versions: the flows of a host never time out, or have their time  *)
(* in milliseconds.                                                        *)
hard_timeout_none == 0

hard_timeout_ms == 60000

(* A learned flow stays for a minute, used or not.                         *)
hard_timeout == 60

(* The two flows of the host eth on port out_port: in the first table,     *)
(* what it sends from there is passed on to the second; in the second,     *)
(* what is sent to it is put out there.  The instruction of the first one  *)
(* has its place counted from the start of the buffer, not from base.      *)
write_new_flow(w, eth, table, out_port) ==
    LET base == w.bytes_expected
        dst == table = DST_TABLE
        match_length == IF dst THEN 14 ELSE 22
        match == IF dst
                 THEN {Oxm(oxm_fields(base), OXM_OF_ETH_DST, eth)}
                 ELSE {Oxm(oxm_fields(base), OXM_OF_IN_PORT, out_port),
                       Oxm(oxm_fields(base) + 8, OXM_OF_ETH_SRC, eth)}
        instr == IF dst
                 THEN output(base + sizeof_ofp_flow_mod + round_up(match_length)
                               - sizeof_ofp_match, out_port)
                 ELSE goto_table(sizeof_ofp_flow_mod + round_up(match_length)
                                   - sizeof_ofp_match, DST_TABLE)
        length == IF dst
                  THEN sizeof_ofp_flow_mod + sizeof_ofp_instruction_actions +
                       sizeof_ofp_action_output + round_up(match_length) - sizeof_ofp_match
                  ELSE sizeof_ofp_flow_mod + sizeof_ofp_instruction_goto_table +
                       round_up(match_length - sizeof_ofp_match)
    IN  Composed(Put(w.buf, flow_mod(base, length, table, hard_timeout, 1, match_length)
                              \cup match \cup {instr}),
                 base + length)

-----------------------------------------------------------------------------
(* What a switch makes of the bytes from at on: the flows, none or one,    *)
(* the flow mod there asks for.  The match and the instructions must fill  *)
(* the room the two lengths give them.                                     *)

Found(buf, at, size, what) ==
    {x.val : x \in {y \in buf : y.at = at /\ y.size = size /\ y.what = what}}

Between(buf, lo, hi) == {x \in buf : lo <= x.at /\ x.at + x.size <= hi}

Filled(items, lo, hi) ==
    \A b \in lo..(hi - 1) : \E x \in items : x.at <= b /\ b < x.at + x.size

Oxms(items) == {x \in items : x.what = "OXM"}

Instructions(items) == {x \in items : x.what \in {"APPLY_ACTIONS", "GOTO_TABLE"}}

Flow(table, priority, hard, match, do) ==
    [table |-> table, priority |-> priority, hard |-> hard, match |-> match, do |-> do]

Field(type, val) == [type |-> type, val |-> val]

Do(what, val) == [what |-> what, val |-> val]

Parsed(buf, at, length, table, hard, priority, match_length) ==
    LET match_end == at + off_flow_match + match_length
        match == Oxms(Between(buf, oxm_fields(at), match_end))
        instrs_at == at + off_flow_match + round_up(match_length)
        instrs == Instructions(Between(buf, instrs_at, at + length))
    IN  IF /\ Filled(match, oxm_fields(at), match_end)
           /\ Filled(instrs, instrs_at, at + length)
           /\ instrs # {}
        THEN {Flow(table, priority, hard,
                   {Field(OXM_TYPE(x.header), x.val) : x \in match},
                   {Do(x.what, x.val) : x \in instrs})}
        ELSE {}

FlowsAt(buf, at) ==
    UNION {Parsed(buf, at, length, table, hard, priority, match_length) :
             length \in Found(buf, at, sizeof_ofp_header, "FLOW_MOD"),
             table \in Found(buf, at + off_table_id, 1, "table_id"),
             hard \in Found(buf, at + off_hard_timeout, 2, "hard_timeout"),
             priority \in Found(buf, at + off_priority, 2, "priority"),
             match_length \in Found(buf, at + off_flow_match + off_match_length, 2,
                                    "match_length")}

-----------------------------------------------------------------------------
(* The PACKET_IN of a switch that names the input port first, for a frame  *)
(* that came in on in_port, with the rest of its OXM fields rest long.     *)
packet_in(in_port, source, ethertype, rest) ==
    LET match_length == off_oxm_fields + 8 + rest
        frame == off_packet_match + round_up(match_length) + 2
    IN  { Item(0, sizeof_ofp_header, "PACKET_IN", frame + sizeof_enet_header),
          Item(sizeof_ofp_header + 4, 2, "total_len", sizeof_enet_header),
          Item(off_reason, 1, "reason", OFPR_NO_MATCH),
          Item(off_packet_match + off_match_length, 2, "match_length", match_length),
          Oxm(off_packet_match + off_oxm_fields, OXM_OF_IN_PORT, in_port),
          Item(frame + off_source, 6, "address", source),
          Item(frame + off_source + 6, 2, "type", ethertype) }

(* The walk over the fields ends at the first: the type is taken from a    *)
(* single byte and so always found to be OFPXMT_OFB_IN_PORT.  The four     *)
(* bytes behind its header are the port.                                   *)
get_input_port(in) ==
    {x.val : x \in {y \in in : y.at + 4 = off_packet_match + off_oxm_fields + 4
                               /\ y.size = 8}}

(* in_data of write_new_flow: six bytes from here are the address.         *)
source_address(in) ==
    UNION {Found(in, sizeof_ofp_packet_in + round_up(match_length), 6, "address") :
             match_length \in Found(in, off_packet_match + off_match_length, 2,
                                    "match_length")}

(* The frame begins where the message is as long again as total_len; a     *)
(* type under 100 is the descriptor of a probe's sender.                   *)
is_switch_connection(in) ==
    UNION {{IF t < 100 THEN t ELSE 0 :
              t \in Found(in, length - total_len + off_source + 6, 2, "type")} :
             length \in Found(in, 0, sizeof_ofp_header, "PACKET_IN"),
             total_len \in Found(in, sizeof_ofp_header + 4, 2, "total_len")}

(* Wrong versions: the flow for the way back is written first, or both are *)
(* for the way there.                                                      *)
read_packet_in_back_first(port, eth) ==
    write_new_flow(write_new_flow(Empty, eth, DST_TABLE, port), eth, SRC_TABLE, port)

read_packet_in_one_way(port, eth) ==
    write_new_flow(write_new_flow(Empty, eth, SRC_TABLE, port), eth, SRC_TABLE, port)

(* What read_packet_in composes for a frame of the host eth on port.       *)
read_packet_in(port, eth) ==
    write_new_flow(write_new_flow(Empty, eth, SRC_TABLE, port), eth, DST_TABLE, port)

(* write_flow_mod for DEFAULT_FLOW.                                        *)
default_flows == write_default_miss(write_default_miss(Empty, FALSE), TRUE)
=============================================================================
