------------------------------ MODULE Learning ------------------------------
(***************************************************************************)
(* The learning switch: the two flow tables of one switch, the hosts that  *)
(* send frames from its ports and move between them, and the controller,   *)
(* which answers a frame the first table has no flow for with two flow     *)
(* mods.  PACKET_INs and flow mods are under way while hosts move and      *)
(* flows time out.  The flow mods are those of FlowMods, read as a switch  *)
(* reads them; how they are written to the socket is Session's business.   *)
(***************************************************************************)
EXTENDS FlowMods, FiniteSets, SequencesExt

CONSTANTS
    Host,        \* the hosts, known by their address
    Port,        \* the ports of the switch
    MaxMoves,    \* bound: how often a host is plugged in somewhere else
    MaxWaiting   \* bound: PACKET_INs under way, with the flow mods of some

ASSUME LearningAssumption ==
    /\ Broadcast \notin Host
    /\ Port \subseteq Nat \ {0}
    /\ MaxMoves \in Nat /\ MaxWaiting \in Nat \ {0}

VARIABLES
    plug,      \* the port each host is at
    flows,     \* both flow tables, the oldest flow first
    asked,     \* PACKET_INs under way: whose frame came in where
    told,      \* flow mods under way, each as the switch reads it: {} if it
               \* refuses it, otherwise the flow
    open,      \* the controller has not given the switch up
    moves      \* so often has a host moved

vars == <<plug, flows, asked, told, open, moves>>

Frame(h, d) == [in_port |-> plug[h], src |-> h, dst |-> d]

-----------------------------------------------------------------------------
(* The tables.                                                             *)

FieldOf(f, type) ==
    CASE type = OFPXMT_OFB_IN_PORT -> f.in_port
      [] type = OFPXMT_OFB_ETH_SRC -> f.src
      [] type = OFPXMT_OFB_ETH_DST -> f.dst

Hits(e, f) == \A m \in e.match : FieldOf(f, m.type) = m.val

(* The flow a frame hits in a table, none or one.                          *)
Lookup(table, f) ==
    LET hit == {e \in {flows[i] : i \in DOMAIN flows} : e.table = table /\ Hits(e, f)}
    IN  {e \in hit : \A x \in hit : x.priority <= e.priority}

Rival(e, n) == e.table = n.table /\ e.priority = n.priority /\ e.match = n.match

(* OFPFC_ADD: a flow with the same match is replaced, its time starts anew. *)
Add(n) ==
    LET same == {i \in DOMAIN flows : Rival(flows[i], n)}
    IN  IF same = {} THEN flows' = Append(flows, n)
        ELSE \E i \in same : flows' = Append(RemoveAt(flows, i), n)

(* The flow mods of a host, and the default ones, as the switch finds them *)
(* one behind the other.                                                   *)
Mods(port, eth) ==
    LET w == read_packet_in(port, eth)
        next == write_new_flow(Empty, eth, SRC_TABLE, port).bytes_expected
    IN  << FlowsAt(w.buf, 0), FlowsAt(w.buf, next) >>

learned == {[port |-> p, eth |-> h, mods |-> Mods(p, h)] : p \in Port, h \in Host}

defaults ==
    << FlowsAt(default_flows.buf, 0),
       FlowsAt(default_flows.buf, write_default_miss(Empty, FALSE).bytes_expected) >>

-----------------------------------------------------------------------------
Init == /\ plug \in [Host -> Port]
        /\ flows = << >>
        /\ asked = << >>
        /\ told = defaults
        /\ open = TRUE
        /\ moves = 0

(* A host sends a frame.  The first table has a flow for it, or the        *)
(* controller is asked and the frame is lost.  Where the second table puts *)
(* it out changes nothing here.                                            *)
Send(h) ==
    /\ open
    /\ Do("APPLY_ACTIONS", OFPP_CONTROLLER) \in
         UNION {e.do : e \in Lookup(SRC_TABLE, Frame(h, Broadcast))}
    /\ 2 * Len(asked) + Len(told) <= 2 * (MaxWaiting - 1)
    /\ asked' = Append(asked, [port |-> plug[h], src |-> h])
    /\ UNCHANGED <<plug, flows, told, open, moves>>

(* The controller reads a PACKET_IN and composes the flow mods, one behind *)
(* the other in its write buffer.                                          *)
Serve ==
    /\ open
    /\ asked # << >>
    /\ \E in \in {packet_in(Head(asked).port, Head(asked).src, 2048, 0)} :
         /\ is_switch_connection(in) = {0}
         /\ \E n \in learned : /\ n.port \in get_input_port(in) /\ n.eth \in source_address(in)
                              /\ told' = told \o n.mods
    /\ asked' = Tail(asked)
    /\ UNCHANGED <<plug, flows, open, moves>>

(* A flow mod arrives at the switch.  One that is refused is answered with *)
(* an ERROR, which makes the controller give the switch up.                *)
Install ==
    /\ open
    /\ told # << >>
    /\ told' = Tail(told)
    /\ IF Head(told) = {} THEN open' = FALSE /\ UNCHANGED flows
       ELSE /\ \E n \in Head(told) : Add(n)
            /\ UNCHANGED open
    /\ UNCHANGED <<plug, asked, moves>>

(* The oldest flow that is not for ever times out.  All of them have the   *)
(* same time, so none is overtaken; the FLOW_REMOVED the controller gets   *)
(* changes nothing there.                                                  *)
Expire ==
    /\ \E i \in DOMAIN flows :
         /\ flows[i].hard # 0
         /\ \A k \in 1..(i - 1) : flows[k].hard = 0
         /\ flows' = RemoveAt(flows, i)
    /\ UNCHANGED <<plug, asked, told, open, moves>>

Move(h) ==
    /\ moves < MaxMoves
    /\ \E p \in Port \ {plug[h]} : plug' = [plug EXCEPT ![h] = p]
    /\ moves' = moves + 1
    /\ UNCHANGED <<flows, asked, told, open>>

Next ==
    \/ Serve \/ Install \/ Expire
    \/ \E h \in Host : Send(h) \/ Move(h)

Spec == Init /\ [][Next]_vars

(* The controller serves the switch and the switch reads what it is told,  *)
(* flows time out, and no host is silent for ever.                         *)
Fairness ==
    /\ WF_vars(Serve) /\ WF_vars(Install) /\ WF_vars(Expire)
    /\ \A h \in Host : SF_vars(Send(h))

FairSpec == Spec /\ Fairness

-----------------------------------------------------------------------------
(* Every variable has its type.                                            *)
FlowEntry ==
    [table : {SRC_TABLE, DST_TABLE}, priority : {0, 1}, hard : {0, 60},
     match : SUBSET [type : Nat, val : Host \cup {Broadcast} \cup Port],
     do : SUBSET [what : {"APPLY_ACTIONS", "GOTO_TABLE"},
                  val : Port \cup {DST_TABLE, OFPP_FLOOD, OFPP_CONTROLLER}]]

TypeOK ==
    /\ plug \in [Host -> Port]
    /\ \A i \in DOMAIN flows : flows[i] \in FlowEntry
    /\ asked \in Seq([port : Port, src : Host])
    /\ \A i \in DOMAIN told : told[i] \subseteq FlowEntry /\ Cardinality(told[i]) <= 1
    /\ open \in BOOLEAN
    /\ moves \in 0..MaxMoves

(* The switch never refuses a flow mod, and so is never given up: every    *)
(* field and instruction lies where openflow.h says it does, also in the   *)
(* second of two flow mods, which begins where the first one ends          *)
(* (write_new_flow, write_default_miss).                                   *)
NeverRefused == open

IsSrc(e, h) == e.table = SRC_TABLE /\ Field(OFPXMT_OFB_ETH_SRC, h) \in e.match

IsDst(e, h) == e.table = DST_TABLE /\ Field(OFPXMT_OFB_ETH_DST, h) \in e.match

(* While the switch forwards the frames of a host from some port without   *)
(* asking, it also knows a way back to that host, which will outlast that; *)
(* or is about to learn it.  The controller will therefore be asked again, *)
(* and the way back be renewed, before it is lost; and if it leads to a    *)
(* port the host has left, it will be replaced (read_packet_in).           *)
WayBack ==
    \A h \in Host : \A i \in DOMAIN flows :
       IsSrc(flows[i], h) =>
         \/ \E k \in DOMAIN flows : k > i /\ IsDst(flows[k], h)
         \/ \E k \in DOMAIN told : \E e \in told[k] : IsDst(e, h)

(* The ports a frame to h is put out on.                                   *)
Out(h) == UNION {{d.val : d \in e.do} : e \in Lookup(DST_TABLE, Frame(h, h))}

(* What is sent to a host goes to the port it is at, or nowhere, some time *)
(* after it has been moved for the last time: a flow that is out of date   *)
(* is not kept, nor brought back by what was still under way (hard_timeout *)
(* of write_new_flow).                                                     *)
Converges == <>[](\A h \in Host : Out(h) \subseteq {plug[h]})

(* However often it is moved, a host that goes on sending can be reached   *)
(* again and again.                                                        *)
Reached == \A h \in Host : []<>(Out(h) = {plug[h]})
=============================================================================
