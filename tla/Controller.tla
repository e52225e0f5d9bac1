----------------------------- MODULE Controller -----------------------------
(***************************************************************************)
(* The whole controller: one thread that accepts connections and serves    *)
(* them in a select loop, the records of all its connections, the network  *)
(* graph they share, and the switches and cables at the other end.  The    *)
(* descriptor of a connection is its place in switch_list; 0 is the        *)
(* listening socket.                                                       *)
(***************************************************************************)
EXTENDS SwitchIO, NetworkGraph, FiniteSetsExt

CONSTANTS
    MaxSwitches,   \* bound: switches that connect
    Cables,        \* the network: [from, fromPort, to, toPort], one per pair
    Talk,          \* what a switch may say of its own accord
    MaxTalk,       \* bound: how often each switch does
    Leavers,       \* bound: switches that may close the connection
    Interrupts,    \* whether a SIGINT may come
    Replies,       \* answers to FEATURES_REQUEST and MULTIPART_REQUEST
    Hello,         \* the HELLO of each switch
    SndBuf         \* bound: cells a socket holds for a switch to read

Switches == 1..MaxSwitches

Ports == 0..49   \* those connected_ports has an element for

VARIABLES
    list,        \* idk_man.switch_list[0 .. num_connected_switches - 1]
    graph,       \* network_graph->devices
    rset, wset,  \* read_sockets and write_sockets, as select left them and
                 \* without the descriptors handle_all_sockets is done with
    pc,          \* where select_loop is
    interrupt,   \* SIGINT has been handled
    closed,      \* descriptors read_openflow_hello has closed
    freed,       \* entries of list whose buffers have been freed
    arrived,     \* switches that have connected, accepted or not
    gone,        \* switches that have closed their end
    reset,       \* of each switch: whether it did so abruptly: "no", "due" when
                 \* recv or send has still to report it, "told" afterwards
    sock, tx,    \* of each switch: cells on their way to and from the controller
    peer,        \* of each switch: messages got, echoes asked, messages it may say
    down         \* <<switch, port>>: ports a PORT_MOD has disabled

ctlVars == <<list, graph, rset, wset, pc, interrupt, closed, freed>>
netVars == <<arrived, gone, reset, sock, tx, peer, down>>
vars == <<list, graph, rset, wset, pc, interrupt, closed, freed,
          arrived, gone, reset, sock, tx, peer, down>>

ASSUME ControllerAssumption ==
    /\ MaxSwitches \in Nat
    /\ MaxTalk \in [Switches -> Nat]
    /\ Hello \in [Switches -> Message]
    /\ Talk \subseteq Message
    /\ \A t \in DOMAIN Replies : Replies[t] \in Message
    /\ Cables \subseteq [from : Switches, fromPort : Ports, to : Switches, toPort : Ports]
    /\ IsFiniteSet(Cables)
    /\ Leavers \subseteq Switches
    /\ Interrupts \in BOOLEAN
    /\ SndBuf \in Nat \ {0}

Note(m) == [type |-> m.type, xid |-> m.xid]

Got(i, types) == Pick(peer[i].log, [type : types, xid : Nat])

Configured(i) == Len(Got(i, {"FLOW_MOD"})) >= 2

(* Both directions of every cable.                                         *)
Ends ==
    {<<c.from, c.fromPort, c.to, c.toPort>> : c \in Cables} \cup
    {<<c.to, c.toPort, c.from, c.fromPort>> : c \in Cables}

(* What a switch says when the probe of the switch src comes in on port.   *)
ProbeSeen(src, port) ==
    [Own("PACKET_IN") EXCEPT !.info = "probe", !.fd = src, !.port = port]

(* Every switch floods one probe.  A neighbour's is still to come:         *)
ProbesDue(i) ==
    Cardinality({e \in Ends : e[1] = i /\ Got(e[3], {"PACKET_OUT"}) = << >>})

MaySay(i) == MaxTalk[i] + Cardinality({e \in Ends : e[1] = i})

-----------------------------------------------------------------------------
Init == /\ list = << >>
        /\ graph = << >>
        /\ rset = {} /\ wset = {}
        /\ pc = "loop"
        /\ interrupt = FALSE
        /\ closed = {} /\ freed = {}
        /\ arrived = 0 /\ gone = {} /\ reset = [i \in Switches |-> "no"]
        /\ sock = [i \in Switches |-> Cells(Hello[i])]
        /\ tx = [i \in Switches |-> << >>]
        /\ peer = [i \in Switches |->
                     [log |-> << >>, asked |-> 0, left |-> MaySay(i)]]
        /\ down = {}

(* The slots whose buffers are freed by free_switch_buffers(&l[i]): it     *)
(* counts num_connected_switches from there.                               *)
free_switch_buffers(l, i) == {j \in DOMAIN l : j >= i /\ l[j].rw # DISCONNECTED}

(* A wrong version: a loop that never ends.                                *)
Loop_forever ==
    /\ pc = "loop" /\ pc' = "select"
    /\ UNCHANGED <<list, graph, rset, wset, interrupt, closed, freed, netVars>>

(* The test of interrupt at the head of select_loop.  Behind the loop main *)
(* frees the buffers of everything that is not DISCONNECTED.               *)
Loop ==
    /\ pc = "loop"
    /\ IF interrupt
       THEN /\ pc' = "exit"
            /\ freed' = freed \cup free_switch_buffers(list, 1)
       ELSE pc' = "select" /\ UNCHANGED freed
    /\ UNCHANGED <<list, graph, rset, wset, interrupt, closed, netVars>>

(* What select looks at: a switch that is gone leaves its socket readable  *)
(* and writable.                                                           *)
Room(i) == IF i \in gone THEN SndBuf ELSE SndBuf - Len(tx[i])

Readable(i) == list[i].rw = READ /\ (sock[i] # << >> \/ i \in gone)

Writable(i) == list[i].rw = WRITE /\ Room(i) > 0

(* remake_select_sets and select.  A closed descriptor in one of the sets  *)
(* makes it fail at once, and nothing is handled; otherwise it blocks until *)
(* a descriptor is ready.                                                  *)
Select ==
    /\ pc = "select"
    /\ IF \E i \in closed : list[i].rw # DISCONNECTED
       THEN pc' = "loop" /\ UNCHANGED <<rset, wset>>
       ELSE /\ rset' = {i \in DOMAIN list : Readable(i)} \cup
                       (IF arrived > Len(list) THEN {0} ELSE {})
            /\ wset' = {i \in DOMAIN list : Writable(i)}
            /\ rset' \cup wset' # {}
            /\ pc' = "serve"
    /\ UNCHANGED <<list, graph, interrupt, closed, freed, netVars>>

(* handle_all_sockets takes the next descriptor.                           *)
Turn(i) ==
    /\ pc = "serve"
    /\ i = Min(rset \cup wset)
    /\ rset' = rset \ {i}
    /\ wset' = wset \ {i}
    /\ UNCHANGED interrupt

(* A wrong version: only the first ready descriptor is served before the   *)
(* next select.                                                            *)
after_first(i) == "loop"

(* Where select_loop is when it has served i.                              *)
after(i) == IF rset \cup wset = {i} THEN "loop" ELSE "serve"

(* create_new_connection and setup_new_switch.                             *)
Accept ==
    /\ 0 \in rset
    /\ Turn(0) /\ pc' = after(0)
    /\ list' = Append(list, new_switch)
    /\ graph' = join(graph, Len(list) + 1)
    /\ UNCHANGED <<closed, freed, netVars>>

(* Wrong versions of add_connection: the port is entered for the wrong end *)
(* of the link, and the record of slot i is left as the message ended.     *)
add_connection_swapped(i, s, m) ==
    /\ graph' = connect(graph, i, m.fd, m.port, 0)
    /\ list' = [list EXCEPT ![i] = await_next_header(s)]
    /\ pc' = after(i)

add_connection_unreset(i, s, m) ==
    /\ graph' = connect(graph, i, m.fd, 0, m.port)
    /\ list' = [list EXCEPT ![i] = s]
    /\ pc' = after(i)

(* The second half of add_connection, for a probe that came in on slot i.  *)
(* The switch loop_exists names is told to disable the port, and          *)
(* whatever its record was doing is overwritten; then slot i, back in      *)
(* handle_read_socket, waits for its next header.  A search that is lost   *)
(* ends the controller; a PORT_MOD in a freed buffer is undefined.         *)
add_connection(i, s, m) ==
    LET g == connect(graph, i, m.fd, 0, m.port)
        l == [list EXCEPT ![i] = s]
        looped_device == loop_exists(g)
        l2 == IF looped_device \in {0, Nowhere} THEN l
              ELSE [l EXCEPT ![looped_device] = change_port_behavior(@, m.port)]
    IN  /\ graph' = g
        /\ list' = [l2 EXCEPT ![i] = await_next_header(@)]
        /\ pc' = IF looped_device = Nowhere THEN "killed"
                 ELSE IF looped_device \in freed THEN "undefined"
                 ELSE after(i)

(* A HELLO of a version other than 1.3 has the descriptor closed, and      *)
(* nothing else.                                                           *)
read_openflow_hello(i, s, m) ==
    closed' = IF s.of_status = "HELLO" /\ m.info = "old" THEN closed \cup {i} ELSE closed

(* Slot i, its record s, has a complete message m.                         *)
Complete(i, s, m) ==
    LET l == [list EXCEPT ![i] = dispatch(s, i, m)]
        probe == s.of_status = "PACKET_IN" /\ m.info = "probe"
    IN  /\ IF probe
           THEN add_connection(i, s, m)
           ELSE /\ list' = [l EXCEPT ![i] = await_next_header(@)]
                /\ pc' = after(i)
                /\ UNCHANGED graph
        /\ read_openflow_hello(i, s, m)
        /\ freed' = IF l[i].rw = DISCONNECTED
                    THEN freed \cup free_switch_buffers(l, i) ELSE freed

(* handle_read_socket.  Behind the last cell recv returns -1 once if the   *)
(* connection was reset, and 0 from then on.                               *)
Serve_read(i) ==
    /\ i \in rset \ {0} /\ i \notin freed
    /\ Turn(i)
    /\ \E ret \in -1..Len(sock[i]) :
         /\ ret <= list[i].bytes_expected
         /\ ret <= 0 <=> sock[i] = << >>
         /\ ret = -1 <=> sock[i] = << >> /\ reset[i] = "due"
         /\ reset' = IF ret = -1 THEN [reset EXCEPT ![i] = "told"] ELSE reset
         /\ LET n == IF ret > 0 THEN ret ELSE 0
                s1 == read_from(list[i], ret, SubSeq(sock[i], 1, n))
                more(s) == /\ list' = [list EXCEPT ![i] = s]
                           /\ pc' = after(i)
                           /\ UNCHANGED <<graph, closed, freed>>
            IN  /\ IF s1.bytes_expected # 0
                   THEN more(s1)
                   ELSE \E m \in Header(s1) :
                          LET s2 == parse_header(s1, m)
                          IN  IF s2.bytes_expected # 0 THEN more(s2)
                              ELSE Complete(i, s2, m)
                /\ sock' = [sock EXCEPT ![i] = SubSeq(@, n + 1, Len(@))]
    /\ UNCHANGED <<arrived, gone, tx, peer, down>>

(* handle_write_socket.  send takes some of the cells, or reports a reset; *)
(* what it takes for a switch that is gone is lost.                        *)
Serve_write(i) ==
    /\ i \in wset \ rset /\ i \notin freed /\ reset[i] # "told"
    /\ Turn(i) /\ pc' = after(i)
    /\ \E ret \in -1..Room(i) :
         /\ ret <= list[i].bytes_expected
         /\ ret = 0 <=> list[i].bytes_expected = 0
         /\ ret = -1 <=> reset[i] = "due"
         /\ reset' = IF ret = -1 THEN [reset EXCEPT ![i] = "told"] ELSE reset
         /\ list' = [list EXCEPT ![i] = handle_write_socket(@, ret)]
         /\ tx' = IF i \in gone THEN tx
                  ELSE [tx EXCEPT ![i] = @ \o SubSeq(Pending(list[i]), 1, ret)]
    /\ UNCHANGED <<graph, closed, freed, arrived, gone, sock, peer, down>>

(* A later write to a switch that is gone raises SIGPIPE, which nobody     *)
(* handles.                                                                *)
Sigpipe(i) ==
    /\ i \in (wset \ rset) \cap (gone \ freed) /\ reset[i] # "due"
    /\ pc = "serve" /\ i = Min(rset \cup wset)
    /\ pc' = "killed"
    /\ UNCHANGED <<list, graph, rset, wset, interrupt, closed, freed, netVars>>

(* The buffers of the slot have been freed under it.  What reading and     *)
(* writing them does is undefined, and nothing is followed from there.     *)
Dangling(i) ==
    /\ i \in (rset \cup wset) \cap freed
    /\ pc = "serve" /\ i = Min(rset \cup wset)
    /\ pc' = "undefined"
    /\ UNCHANGED <<list, graph, rset, wset, interrupt, closed, freed, netVars>>

Serve ==
    \/ Accept
    \/ \E i \in DOMAIN list :
         Serve_read(i) \/ Serve_write(i) \/ Sigpipe(i) \/ Dangling(i)

Stopped == {"exit", "killed", "undefined"}

(* SIGINT: controller_exit sets interrupt, and a select that is already    *)
(* blocking returns with EINTR.                                            *)
Sigint ==
    /\ Interrupts /\ ~interrupt
    /\ pc \notin Stopped
    /\ interrupt' = TRUE
    /\ \/ pc' = pc
       \/ pc = "select" /\ pc' = "loop"
    /\ UNCHANGED <<list, graph, rset, wset, closed, freed, netVars>>

-----------------------------------------------------------------------------
(* The switches.  What they do once the controller has ended is of no      *)
(* interest.                                                               *)

Connect ==
    /\ pc \notin Stopped
    /\ arrived < MaxSwitches
    /\ arrived' = arrived + 1
    /\ UNCHANGED <<ctlVars, gone, reset, sock, tx, peer, down>>

(* A switch closes the connection, in order or by a reset.                 *)
Leave(i) ==
    /\ pc \notin Stopped
    /\ i \in Leavers /\ i <= arrived /\ i \notin gone
    /\ gone' = gone \cup {i}
    /\ \E how \in {"no", "due"} : reset' = [reset EXCEPT ![i] = how]
    /\ tx' = [tx EXCEPT ![i] = << >>]
    /\ UNCHANGED <<ctlVars, arrived, sock, peer, down>>

(* The neighbours that report the probe switch i floods: those at the      *)
(* other end of a cable no PORT_MOD has cut.                               *)
Reports(i) ==
    {e \in Ends :
       /\ e[3] = i
       /\ <<e[1], e[2]>> \notin down /\ <<e[3], e[4]>> \notin down
       /\ e[1] \notin gone /\ Configured(e[1])}

Response(m) ==
    IF m.type \in DOMAIN Replies THEN Cells(Replies[m.type])
    ELSE IF refuses(m) THEN Cells(Own("ERROR"))
    ELSE << >>

(* The next message has arrived: a request is answered, a probe flooded to *)
(* the neighbours, a port disabled or the request refused.                 *)
SwitchReceives(i) ==
    /\ pc \notin Stopped
    /\ i \notin gone
    /\ tx[i] # << >> /\ tx[i][1].pos = 1 /\ tx[i][1].msg.len <= Len(tx[i])
    /\ LET m == tx[i][1].msg
           flood == IF m.type = "PACKET_OUT" /\ m.info = "probe" THEN Reports(i) ELSE {}
           reporter == {e[1] : e \in flood}
           seen(n) == LET e == CHOOSE x \in flood : x[1] = n
                      IN  Cells([ProbeSeen(m.fd, e[2]) EXCEPT !.xid = peer[n].asked])
       IN  /\ tx' = [tx EXCEPT ![i] = SubSeq(@, m.len + 1, Len(@))]
           /\ sock' = [n \in Switches |->
                IF n = i THEN sock[n] \o Response(m)
                ELSE IF n \in reporter THEN sock[n] \o seen(n) ELSE sock[n]]
           /\ peer' = [n \in Switches |->
                IF n = i THEN [peer[n] EXCEPT !.log = Append(@, Note(m))]
                ELSE IF n \in reporter THEN [peer[n] EXCEPT !.left = @ - 1]
                ELSE peer[n]]
           /\ down' = IF m.type = "PORT_MOD" /\ ~refuses(m) THEN down \cup {<<i, m.port>>} ELSE down
    /\ UNCHANGED <<ctlVars, arrived, gone, reset>>

SwitchSays(i) ==
    /\ pc \notin Stopped
    /\ i <= arrived /\ i \notin gone
    /\ peer[i].left > ProbesDue(i)
    /\ \E m \in Talk :
         /\ m.type = "PACKET_IN" => Configured(i)
         /\ LET asked == peer[i].asked + (IF m.type = "ECHO_REQUEST" THEN 1 ELSE 0)
            IN  /\ sock' = [sock EXCEPT ![i] = @ \o Cells([m EXCEPT !.xid = asked])]
                /\ peer' = [peer EXCEPT ![i].asked = asked, ![i].left = @ - 1]
    /\ UNCHANGED <<ctlVars, arrived, gone, reset, tx, down>>

Environment ==
    \/ Sigint
    \/ Connect
    \/ \E i \in Switches : Leave(i) \/ SwitchReceives(i) \/ SwitchSays(i)

Next == Loop \/ Select \/ Serve \/ Environment

Spec == Init /\ [][Next]_vars

(* The thread runs; switches connect and read what they are sent.          *)
Fairness ==
    /\ WF_vars(Loop) /\ WF_vars(Select) /\ WF_vars(Serve)
    /\ WF_vars(Connect)
    /\ \A i \in Switches : WF_vars(SwitchReceives(i))

FairSpec == Spec /\ Fairness

-----------------------------------------------------------------------------
(* Every variable has its type; the list, the graph and the select sets    *)
(* are about the same connections.  (left counts probes that are reported  *)
(* against those expected: it would fall below 0 if a switch were made to  *)
(* flood a second one.)                                                    *)
TypeOK ==
    /\ list \in Seq(of_switch) /\ Len(list) <= arrived
    /\ Len(graph) = Len(list)
    /\ rset \subseteq 0..Len(list) /\ wset \subseteq DOMAIN list
    /\ pc \in {"loop", "select", "serve"} \cup Stopped
    /\ interrupt \in BOOLEAN
    /\ closed \subseteq DOMAIN list /\ freed \subseteq DOMAIN list
    /\ arrived \in 0..MaxSwitches /\ gone \subseteq Switches /\ reset \in [Switches -> {"no", "due", "told"}]
    /\ sock \in [Switches -> Seq(Cell)] /\ tx \in [Switches -> Seq(Cell)]
    /\ peer \in [Switches -> [log : Seq([type : MsgType, xid : Nat]),
                              asked : Nat, left : Int]]
    /\ down \subseteq Switches \X Nat

(* Each connection behaves as if it were served alone: what Session        *)
(* promises, in the order and with the framing it promises it, no traffic  *)
(* of another switch and no turn of the select loop disturbs, until the    *)
(* switch closes it.                                                       *)
Slot(i) == INSTANCE Session WITH
             SwitchFd <- i,
             SwitchMsg <- Talk \cup {ProbeSeen(e[3], e[2]) : e \in Ends},
             Hello <- Hello[i],
             MaxSaid <- MaySay(i),
             sw <- IF i \in DOMAIN list THEN list[i] ELSE new_switch,
             sock <- sock[i], tx <- tx[i], peer <- peer[i]

EverySlotASession ==
    /\ \A i \in Switches : Slot(i)!Init
    /\ [][\A i \in Switches : i \notin gone' => [Slot(i)!Next]_(Slot(i)!vars)]_vars

(* The neighbours the graph gives device i.                                *)
LinkedTo(i) == {Neighbours(graph, i)[k] : k \in DOMAIN Neighbours(graph, i)}

(* Every link in the graph that is to a switch is a cable between those    *)
(* two switches, entered with the port the cable is on or with 0: a probe  *)
(* is never taken for another switch's (add_connection).                   *)
GraphIsNetwork ==
    \A i \in DOMAIN list : \A k \in DOMAIN graph[i].next :
       graph[i].next[k].device_num \in Switches =>
         \E e \in Ends : /\ e[1] = i /\ e[3] = graph[i].next[k].device_num
                        /\ graph[i].next[k].port_num \in {0, e[2]}

(* The search for loops finds every device it looks for as long as only    *)
(* probes are taken for probes: each names a switch whose own place in the *)
(* array was filled before it could send one (setup_new_switch,            *)
(* send_probe_packet).  So nothing kills the controller but a write to a   *)
(* switch that is gone, or a frame a host has sent with a number under 100 *)
(* in the place of its type, which is_switch_connection lets through.      *)
SearchStays ==
    pc = "killed" =>
       \/ gone # {}
       \/ \E i \in DOMAIN graph : \E k \in DOMAIN graph[i].next :
             graph[i].next[k].device_num \notin Switches

(* In a network without loops no port is ever disabled and no PORT_MOD     *)
(* sent, in whatever order the switches connect and the probes come in.    *)
NoFalseAlarm == down = {} /\ \A i \in Switches : Got(i, {"PORT_MOD"}) = << >>

(* No switch gets anything but the six setup messages, in their order,     *)
(* before it has them all.  Alone it could not (handle_write_socket); a    *)
(* loop alarm never reaches into the setup of a switch either, as only a   *)
(* configured switch can report or have sent a probe.                      *)
SetupsInOrder ==
    \A i \in Switches : \A k \in DOMAIN peer[i].log :
       k <= Len(SetupTypes) => peer[i].log[k].type = SetupTypes[k]

(* Every cable is found, from both sides, once both its switches are there *)
(* and configured; unless one of them leaves or says something that makes  *)
(* the controller give it up.                                              *)
LinksFound ==
    <>(\/ \A e \in Ends : e[1] \in DOMAIN list /\ e[3] \in LinkedTo(e[1])
       \/ gone # {} \/ interrupt \/ pc \in Stopped
       \/ \E i \in DOMAIN list : list[i].rw = DISCONNECTED)

(* A switch that leaves, in order or not, does not stop the controller     *)
(* from answering the others: a descriptor that is always ready does not   *)
(* starve those behind it (handle_all_sockets).  A write to the one that   *)
(* left may kill the controller, though, and a switch that says something  *)
(* unknown is given up.                                                    *)
OthersServed ==
    \A i \in Switches : \A x \in 1..MaxTalk[i] :
       peer[i].asked >= x
         ~> \/ Len(Got(i, {"ECHO_REPLY"})) >= x
            \/ i \in gone \/ pc \in Stopped
            \/ i \in DOMAIN list /\ list[i].rw = DISCONNECTED

(* A SIGINT ends the controller, except for one that comes between the     *)
(* test of interrupt and a select nobody wakes: whenever the controller    *)
(* is elsewhere, or is woken, it ends (select_loop, controller_exit).      *)
InterruptObeyed == interrupt /\ pc # "select" ~> pc \in Stopped

-----------------------------------------------------------------------------
(* What comments and messages of the code say, and does not hold.          *)

(* "Switch not using version 1.3! Closing connection!"                     *)
(* (rw_packets.c:161): that connection, not the service of the others.     *)
OldHelloHarmless ==
    \A i \in Switches : Hello[i].info # "old" => <>Configured(i)

(* "This is an OFPT_ERROR! Closing connection!" (controller.c:459): until  *)
(* the exit buffers are freed of that connection only.                     *)
LiveBuffersKept ==
    \A i \in freed : pc = "exit" \/ list[i].rw = DISCONNECTED

(* "At this point, the entire packet has been read in"                     *)
(* (controller.c:422): what the controller takes from a socket are whole   *)
(* messages, whatever happens on the others.                               *)
WholePackets ==
    \A i \in DOMAIN list :
       list[i].rw # DISCONNECTED => Framed(Received(list[i]) \o sock[i])

(* "when a loop is detected, send a port_mod to not forward traffic        *)
(* through the specified port" (rw_packets.c:624): the port disabled is    *)
(* one of the loop, so there is a cable on it.                             *)
DisabledIsCabled == \A d \in down : \E e \in Ends : <<e[1], e[2]>> = d
=============================================================================
