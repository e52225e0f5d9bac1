------------------------------- MODULE Lifetime -------------------------------
(***************************************************************************)
(* The controller from main to exit, as far as memory and the listening    *)
(* socket go: start-up with its failing system calls, what setting up a    *)
(* switch, entering a link and giving up a switch allocate and free, and   *)
(* the clean-up behind select_loop.  Every call of the allocator is a step *)
(* of SmartAlloc.  What the switches say is Controller's business; here    *)
(* they just connect, are linked, and send errors.                         *)
(***************************************************************************)
EXTENDS SmartAlloc, NetworkGraph

Seqs == INSTANCE SequencesExt

CONSTANTS
    Addrs,     \* bound: how many addresses getaddrinfo may return
    Room,      \* the 50 of max_connected_switches and max_network_size
    Errors     \* bound: how many switches may send an error

VARIABLES
    pc,          \* where main is
    server,      \* the address tried or used; Addrs + 1 is NULL
    bound,       \* addresses there is an open socket for
    listed,      \* addrinfo structures not freed yet
    interrupt,   \* SIGINT has been handled
    todo,        \* calls of the allocator the running function has to make
    ptr,         \* what the program's pointers hold, by their place
    owner,       \* history: for which place an address was last handed out
    list,        \* rw of the switches: "live" (READ or WRITE), DISCONNECTED, or
                 \* "revived", set back to WRITE after it was DISCONNECTED
    graph        \* network_graph->devices

progVars == <<pc, server, bound, listed, interrupt, todo, ptr, owner, list, graph>>
vars == <<heapVars, progVars>>

Stopped == {"exit", "exit(1)", "undefined"}

(* The places of pointers: what is pointed to, the switch or device, and   *)
(* the element of the device's list (0 is its head).                       *)
Kind == {"network", "devices", "switch_list", "read_buffer", "write_buffer", "node"}

at(kind, i, k) == <<kind, i, k>>

Do(op, place) == [op |-> op, place |-> place]

CONSTANT Bytes    \* how many bytes each kind of block has

ASSUME LifetimeAssumption ==
    /\ Addrs \in Nat /\ Room \in Nat \ {0} /\ Errors \in Nat
    /\ Bytes \in [Kind -> Nat]
    /\ Size = {Bytes[k] : k \in Kind} \cup {2 * Bytes["switch_list"]}

(* Memory that was never assigned is zero: calloc.                         *)
Deref(place) == IF place \in DOMAIN ptr THEN ptr[place] ELSE NULL

(* The block a place points to is still the one allocated for it.          *)
Intact(place) == Deref(place) \in libc /\ owner[Deref(place)] = place

Nodes == {at("node", g.device_num, k) : g \in {graph[i] : i \in DOMAIN graph},
                                        k \in 0..Len(graph)}

GraphIntact == \A p \in Nodes \cap DOMAIN ptr : Intact(p)

-----------------------------------------------------------------------------
Init == /\ HeapInit
        /\ pc = "sigaction"
        /\ server = 1
        /\ bound = {} /\ listed = {}
        /\ interrupt = FALSE
        /\ todo = << >>
        /\ ptr = << >>
        /\ owner = [a \in Address |-> at("none", 0, 0)]
        /\ list = << >>
        /\ graph = << >>

(* The next of the calls the running function makes.  The C library hands  *)
(* out its lowest free address; when it has none, smartalloc ends the      *)
(* program.                                                                *)
Lowest == CHOOSE a \in Address \ libc : \A b \in Address \ libc : a <= b

Exhausted == Address \subseteq libc

Gets(place) ==
    /\ ptr' = [p \in DOMAIN ptr \cup {place} |-> IF p = place THEN Lowest ELSE ptr[p]]
    /\ owner' = [owner EXCEPT ![Lowest] = place]

AllocatorCall ==
    /\ todo # << >> /\ pc \notin Stopped
    /\ LET c == Head(todo)
           kind == c.place[1]
       IN  \/ /\ c.op \in {"calloc", "realloc"} /\ Exhausted
              /\ pc' = "exit(1)"
              /\ UNCHANGED <<heapVars, todo, ptr, owner>>
           \/ /\ c.op = "calloc" /\ ~Exhausted
              /\ smartalloc(Lowest, Bytes[kind])
              /\ Gets(c.place)
              /\ todo' = Tail(todo) /\ UNCHANGED pc
           \/ /\ c.op = "realloc" /\ ~Exhausted
              /\ smartrealloc(Deref(c.place), 2 * Bytes[kind], Lowest)
              /\ Gets(c.place)
              /\ todo' = Tail(todo) /\ UNCHANGED pc
           \/ /\ c.op = "free"
              /\ smartfree(Deref(c.place))
              /\ todo' = Tail(todo) /\ UNCHANGED <<pc, ptr, owner>>
    /\ UNCHANGED <<server, bound, listed, interrupt, list, graph>>

(* main goes on with pc' = next.                                           *)
Goto(here, next) ==
    /\ pc = here /\ todo = << >>
    /\ pc' = next

-----------------------------------------------------------------------------
(* Start-up.                                                               *)

Sigaction ==
    /\ \E next \in {"getaddrinfo", "exit(1)"} : Goto("sigaction", next)
    /\ UNCHANGED <<heapVars, server, bound, listed, interrupt, todo, ptr, owner,
                   list, graph>>

(* A failure is reported, and matches is NULL.                             *)
Getaddrinfo ==
    /\ Goto("getaddrinfo", "socket")
    /\ \E n \in 0..Addrs :
         /\ listed' = (Addrs + 1 - n)..Addrs
         /\ server' = Addrs + 1 - n
    /\ UNCHANGED <<heapVars, bound, interrupt, todo, ptr, owner, list, graph>>

(* A wrong version: the end of the list is not noticed.                    *)
Socket_endless ==
    /\ \/ Goto("socket", "socket") /\ server' = server + 1 /\ UNCHANGED bound
       \/ Goto("socket", "bind") /\ bound' = bound \cup {server} /\ UNCHANGED server
    /\ UNCHANGED <<heapVars, listed, interrupt, todo, ptr, owner, list, graph>>

(* The loop of create_listening_socket: an address for which there is no   *)
(* socket, or none that can be bound, is passed over.                      *)
Socket ==
    /\ IF server > Addrs
       THEN Goto("socket", "exit(1)") /\ UNCHANGED <<server, bound>>
       ELSE \/ Goto("socket", "socket") /\ server' = server + 1 /\ UNCHANGED bound
            \/ Goto("socket", "bind") /\ bound' = bound \cup {server} /\ UNCHANGED server
    /\ UNCHANGED <<heapVars, listed, interrupt, todo, ptr, owner, list, graph>>

(* A wrong version: the socket that cannot be bound is not closed.         *)
Bind_open ==
    /\ \/ Goto("bind", "listen") /\ UNCHANGED server
       \/ Goto("bind", "socket") /\ server' = server + 1
    /\ UNCHANGED <<heapVars, bound, listed, interrupt, todo, ptr, owner, list, graph>>

Bind ==
    /\ \/ Goto("bind", "listen") /\ UNCHANGED <<server, bound>>
       \/ Goto("bind", "socket") /\ server' = server + 1 /\ bound' = bound \ {server}
    /\ UNCHANGED <<heapVars, listed, interrupt, todo, ptr, owner, list, graph>>

(* listen and getsockname.                                                 *)
Listen ==
    /\ \E next \in {"initialize", "exit(1)"} : Goto("listen", next)
    /\ UNCHANGED <<heapVars, server, bound, listed, interrupt, todo, ptr, owner,
                   list, graph>>

(* initialize_network_graph and initialize_controller.                     *)
Initialize ==
    /\ Goto("initialize", "loop")
    /\ todo' = << Do("calloc", at("network", 0, 0)), Do("calloc", at("devices", 0, 0)),
                  Do("calloc", at("switch_list", 0, 0)) >>
    /\ UNCHANGED <<heapVars, server, bound, listed, interrupt, ptr, owner, list, graph>>

Startup == Sigaction \/ Getaddrinfo \/ Socket \/ Bind \/ Listen \/ Initialize

-----------------------------------------------------------------------------
(* Serving.                                                                *)

(* free_network_graph: device by device, each list from its head on.       *)
free_network_graph ==
    LET list_of(g) == [k \in 1..Len(g.next)+1 |-> Do("free", at("node", g.device_num, k-1))]
    IN  Seqs!FlattenSeq([i \in DOMAIN graph |-> list_of(graph[i])])
        \o << Do("free", at("devices", 0, 0)), Do("free", at("network", 0, 0)) >>

(* free_switch_buffers, counting num_connected_switches from switch i;     *)
(* elements behind the last switch are zero, so they are READ.             *)
free_switch_buffers(l, i) ==
    LET skipped(j) == j \in DOMAIN l /\ l[j] = "DISCONNECTED"
        both(j) == IF skipped(j) THEN << >>
                   ELSE << Do("free", at("read_buffer", j, 0)),
                           Do("free", at("write_buffer", j, 0)) >>
    IN  Seqs!FlattenSeq([j \in 1..Len(l) |-> both(i + j - 1)])

(* Wrong versions: the buffers are left, the graph is freed twice.         *)
clean_up_graph == free_network_graph \o << Do("free", at("switch_list", 0, 0)) >>
clean_up_twice == free_network_graph \o free_network_graph

clean_up ==
    free_network_graph \o free_switch_buffers(list, 1)
      \o << Do("free", at("switch_list", 0, 0)) >>

(* A wrong version: the interrupt is never looked at.                      *)
Loop_forever ==
    /\ Goto("loop", "select")
    /\ UNCHANGED <<heapVars, server, bound, listed, interrupt, todo, ptr, owner, list,
                   graph>>

(* The test of interrupt.  Behind the loop everything is freed; walking    *)
(* the graph is undefined if one of its nodes is gone.                     *)
Loop ==
    /\ IF ~interrupt THEN Goto("loop", "select") /\ UNCHANGED todo
       ELSE IF GraphIntact THEN Goto("loop", "free") /\ todo' = clean_up
       ELSE Goto("loop", "undefined") /\ UNCHANGED todo
    /\ UNCHANGED <<heapVars, server, bound, listed, interrupt, ptr, owner, list, graph>>

(* setup_new_switch.  When switch_list is full it grows; devices does not, *)
(* and the search for its first NULL runs past its end.                    *)
Accept ==
    /\ LET i == Len(list) + 1
           full == Len(list) >= Room
           buffers == << Do("calloc", at("read_buffer", i, 0)),
                         Do("calloc", at("write_buffer", i, 0)) >>
       IN  /\ list' = Append(list, "live")
           /\ IF full
              THEN /\ Goto("select", "overflow")
                   /\ todo' = << Do("realloc", at("switch_list", 0, 0)) >> \o buffers
                   /\ UNCHANGED graph
              ELSE /\ Goto("select", "loop")
                   /\ todo' = buffers \o << Do("calloc", at("node", i, 0)) >>
                   /\ graph' = join(graph, i)
    /\ UNCHANGED <<heapVars, server, bound, listed, interrupt, ptr, owner>>

Overflow ==
    /\ Goto("overflow", "undefined")
    /\ UNCHANGED <<heapVars, server, bound, listed, interrupt, todo, ptr, owner,
                   list, graph>>

(* Reading a message of switch i uses its buffers.                         *)
Reads(i) ==
    i \in DOMAIN list /\ list[i] # "DISCONNECTED"

Usable(i) == Intact(at("read_buffer", i, 0)) /\ Intact(at("write_buffer", i, 0))

(* change_port_behavior composes in the write buffer of switch d and sets  *)
(* rw to WRITE, also of a switch that was given up.                        *)
Alarmable(d) == d \in DOMAIN list /\ Intact(at("write_buffer", d, 0))

change_port_behavior(l, d) ==
    [k \in DOMAIN l |-> IF k = d /\ l[k] = "DISCONNECTED" THEN "revived" ELSE l[k]]

(* A probe of switch j comes in on switch i: add_connection.  If that      *)
(* closes a loop, a PORT_MOD is composed for the device named (0: none).   *)
Discover(i, j) ==
    /\ Reads(i) /\ j \in DOMAIN list \ {i}
    /\ IF Usable(i) /\ GraphIntact
       THEN LET g == connect(graph, i, j, 0, 0)
                looped == loop_exists(g)
                new(d) == IF Len(g[d].next) = Len(graph[d].next) THEN << >>
                          ELSE << Do("calloc", at("node", d, Len(g[d].next))) >>
            IN  IF looped = 0 \/ Alarmable(looped)
                THEN /\ Goto("select", "loop")
                     /\ graph' = g
                     /\ list' = change_port_behavior(list, looped)
                     /\ todo' = Seqs!FlattenSeq([d \in DOMAIN graph |-> new(d)])
                ELSE Goto("select", "undefined") /\ UNCHANGED <<graph, list, todo>>
       ELSE Goto("select", "undefined") /\ UNCHANGED <<graph, list, todo>>
    /\ UNCHANGED <<heapVars, server, bound, listed, interrupt, ptr, owner>>

(* Switch i sends an error: the default case of handle_read_socket.        *)
GiveUp(i) ==
    /\ Reads(i)
    /\ Cardinality({j \in DOMAIN list \ {i} : list[j] # "live"}) < Errors
    /\ LET l == [list EXCEPT ![i] = "DISCONNECTED"]
       IN  IF Usable(i) /\ i - 1 + Len(list) <= Room
           THEN /\ Goto("select", "loop")
                /\ list' = l
                /\ todo' = free_switch_buffers(l, i)
           ELSE Goto("select", "undefined") /\ UNCHANGED <<list, todo>>
    /\ UNCHANGED <<heapVars, server, bound, listed, interrupt, ptr, owner, graph>>

(* A message a few bytes longer than the buffer: recv fills the margin.    *)
LongMessage(i) ==
    /\ Reads(i) /\ Usable(i)
    /\ Goto("select", "loop")
    /\ write_past(Deref(at("read_buffer", i, 0)))
    /\ UNCHANGED <<server, bound, listed, interrupt, todo, ptr, owner, list, graph>>

Serve ==
    \/ Accept
    \/ \E i \in DOMAIN list :
         GiveUp(i) \/ LongMessage(i) \/ \E j \in DOMAIN list : Discover(i, j)

(* Behind free_controller_mem: freeaddrinfo(server) frees the list from    *)
(* the address in use on.                                                  *)
End ==
    /\ Goto("free", "exit")
    /\ listed' = {a \in listed : a < server}
    /\ bound' = bound \ {server}
    /\ UNCHANGED <<heapVars, server, interrupt, todo, ptr, owner, list, graph>>

(* A select that is already blocking returns; one that is only about to    *)
(* does not.                                                               *)
Sigint ==
    /\ ~interrupt /\ pc \notin Stopped \cup {"sigaction"}
    /\ interrupt' = TRUE
    /\ \/ pc' = pc
       \/ pc = "select" /\ pc' = "loop"
    /\ UNCHANGED <<heapVars, server, bound, listed, todo, ptr, owner, list, graph>>

Program == AllocatorCall \/ Startup \/ Loop \/ Overflow \/ End

Next == Program \/ Serve \/ Sigint

Spec == Init /\ [][Next]_vars

(* The program runs.  Nobody has to connect or to interrupt it.            *)
FairSpec == Spec /\ WF_vars(Program)

-----------------------------------------------------------------------------
(* Every variable of the program has its type, and a call that is still to *)
(* be made is one of the allocator's.                                      *)
LifetimeTypeOK ==
    /\ pc \in Stopped \cup {"sigaction", "getaddrinfo", "socket", "bind", "listen",
                           "initialize", "loop", "select", "overflow", "free"}
    /\ server \in 1..Addrs+1
    /\ bound \subseteq 1..Addrs /\ listed \subseteq 1..Addrs
    /\ interrupt \in BOOLEAN
    /\ \A i \in DOMAIN todo : todo[i].op \in {"calloc", "realloc", "free"}
                              /\ todo[i].place[1] \in Kind
    /\ \A p \in DOMAIN ptr : p[1] \in Kind /\ ptr[p] \in Address
    /\ list \in Seq({"live", "DISCONNECTED", "revived"}) /\ Len(list) <= Room + 1
    /\ Len(graph) \in {Len(list), Len(list) - 1}

(* When the program ends in order, nothing it has allocated is left, save  *)
(* the buffers of switches it has given up: whatever switches and links    *)
(* came in which order, the clean-up knows of all of them ("free all used  *)
(* memory", controller.c:662, but free_switch_buffers skips DISCONNECTED). *)
AllFreed ==
    pc = "exit" =>
      libc \subseteq
        {Deref(at(b, i, 0)) : b \in {"read_buffer", "write_buffer"},
                              i \in {j \in DOMAIN list : list[j] = "DISCONNECTED"}}

(* As long as no switch has been given up, no block is freed twice and     *)
(* nothing else is passed to free.                                         *)
FreesMatched ==
    said = "non-malloced" => \E i \in DOMAIN list : list[i] # "live"

(* Only the socket main listens on is open, and server is the address it   *)
(* is bound to: main uses both behind create_listening_socket.             *)
OneSocket ==
    /\ bound \subseteq {server}
    /\ pc \notin Stopped \cup {"sigaction", "getaddrinfo", "socket"} => bound = {server}

(* An interrupt at any point but one ends the program: during start-up,    *)
(* while a switch is set up, while select blocks.  The one is between the  *)
(* test of interrupt and select.                                           *)
InterruptEnds == interrupt /\ pc # "select" ~> pc \in Stopped
=============================================================================
