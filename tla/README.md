# The OpenFlow controller in TLA+

This directory holds TLA+ models of the OpenFlow 1.3 controller in `src/`
(`controller.c`, `rw_packets.c`, and `smartalloc.c`, the allocator they are
compiled with), the TLC configurations that check them on small instances, and
TLAPS proofs about the parts that do not depend on the size of an instance.
Sources are quoted as `file:line`.

## The system

The controller is one thread. It listens on a TCP socket, accepts switches, and
serves all of them in a `select` loop. A switch is set up by four messages and
two default flows, then asked nothing more: the controller only reacts. Switches
that are cabled to each other are found by *probes*: a frame that the controller
lets each switch flood once, and that comes back from the neighbour as a
PACKET_IN. If the graph of links so found has a loop, a port is to be disabled.

| component | state | operations | interacts with |
|---|---|---|---|
| connection record (`struct of_switch`, `rw_packets.c`) | `rw`, `of_status`, `reading_header`, three `uint16_t` counters, one buffer for each direction, four setup flags | `read_from`, `write_to`, `resize_buffer`, one writer per message | handed by reference to everything else |
| conversation (`handle_read_socket`, `handle_write_socket`) | the record | one `recv` or `send` and what follows from it | the socket; `add_connection` for probes |
| select loop (`select_loop`, `remake_select_sets`, `handle_all_sockets`) | `idk_man.switch_list`, the descriptor sets, `interrupt` | accept, serve a ready switch, leave on SIGINT | all records; the signal handler |
| network graph (`add_connection`, `loop_exists`) | `network_graph->devices`, adjacency lists | join, connect, search | the records: a loop makes it write into one |
| learning switch (`read_packet_in`, `write_new_flow`, `get_input_port`) | none of its own: the two flow tables are the switch's | composes the default flows, and two flow mods for a learned host | write buffer; the tables, the hosts |
| port table (`save_connected_ports`) | `connected_ports[50]` in the record | fill, look up | `change_port_behavior` |
| SmartAlloc (`smartalloc.c`) | `track_hash`, a table of chains of records of live blocks; `allocated` | `smartalloc`, `smartfree`, `smartrealloc` | the whole program |
| start-up and clean-up (`main`, `create_listening_socket`, `free_controller_mem`) | listening socket, addrinfo list | everything before and behind the loop | operating system, allocator |
| checksum | none | none | not in the build |

What is hard about it:

- *Framing.* `recv` and `send` move any number of bytes. Two counters and a flag
  must always agree on where in a message the connection is, and one buffer is
  filled with a new message the moment the old one has left.
- *Connections that meet.* A probe read on one socket may make the controller
  write into the record of another one, between the `select` that looked at it
  and its turn (`controller.c:182`, `:521`).
- *Order.* Switches connect, are configured and see probes in any order; whether
  links and loops are found must not depend on it.
- *Layout.* Flow mods are composed one behind the other in one buffer, with
  offsets computed from rounded lengths; a byte too few and the switch refuses
  them, answers with an error, and is given up.
- *Time.* Flows are installed, time out and are learned again while frames and
  flow mods are under way and hosts are plugged in somewhere else.
- *Memory.* What is allocated in one function for one switch is freed in another
  one for many of them; tables grow.
- *Failure.* Switches leave or reset the connection, speak another version, send
  an error; SIGINT comes at any point.

What makes each part correct: the record's counters describe exactly the bytes
missing or to be sent; the conversation handles every message once, in order and
answers it completely; each switch is served as if it were alone; the lists
contain exactly the links found; a loop raises an alarm and nothing else does;
no flow mod is refused, the way back to a host outlasts the way from it, and
frames end up where their hosts are; the allocator is one, everything allocated
is freed once; an interrupt ends the program. `PROJECT.json` lists the hazards one by one with
the properties that address them.

## Modules

| module | models |
|---|---|
| `SwitchIO` | the record and the functions on it, as operators from record to record; no variables |
| `Session` | one connection served alone, and its switch: `ReadStep` is `handle_read_socket`, `WriteStep` is `handle_write_socket` |
| `MessageServer` | the abstract specification of a conversation: messages to do, messages owed |
| `NetworkGraph` | the graph and its functions, as operators |
| `Topology` | every graph that joining and discovering can build |
| `Controller` | the select loop over many records and the graph, SIGINT, and a network of switches and cables around it |
| `FlowMods` | the bytes of the four kinds of flow mods as the controller writes them, how a switch reads them, and the bytes of a PACKET_IN and how the controller reads them; no variables |
| `Learning` | the flow tables of one switch, hosts that send and move, PACKET_INs and flow mods under way, the controller that answers |
| `Heap` | the abstract specification of an allocator: a set of blocks |
| `SmartAlloc` | `smartalloc.c`, called by any program |
| `Lifetime` | `main` from start-up to clean-up: what is allocated, freed, opened and closed, on top of `SmartAlloc` |
| `SwitchIOProofs`, `SessionProofs` | lemmas about the operators; the theorems about `Session`: framing, messages longer than a buffer, the order of the setup, the refinement of `MessageServer`, the echoes |
| `NetworkGraphProofs` | lemmas about the search for loops in any graph |
| `ControllerProofs`, `TopologyProofs`, `SmartAllocProofs`, `LifetimeProofs`, `LearningProofs` | the theorems about `Controller`, `Topology`, `SmartAlloc`, `Lifetime` and `Learning` |
| `MCSession`, `MCTopology`, `MCController`, `MCLearning`, `MCLifetime` | values for the constants |

`Session` and `Controller` both use the operators of `SwitchIO`, `Topology` and
`Controller` those of `NetworkGraph`, so a function of the code is modelled once.
`Controller` instantiates `Session` once for every slot of `switch_list` and
checks that each slot behaves like it (`EverySlotASession`). `Learning` takes a
conversation for granted and looks inside the flow mods, which `Session` only
counts; `Lifetime` takes what switches say for granted and looks at the memory
it costs. It uses the operators of `NetworkGraph`, and each of its calls of the
allocator is a step of `SmartAlloc`.

**Bytes.** A message is a record (type, length, xid, and what its body is about)
and a buffer or a stream is a sequence of *cells*, each a message and a position
in it. The lengths are constants. So it is visible when a buffer holds half a
message, or the header is read from the middle of one, without any field layout.
A header that is not the first cell of a message may be anything in the constant
`Garbage`.

**Correspondence.** `of_switch` has the fields of the struct that control
depends on, under their names; `xid` of messages the controller makes up is left
out (always 0), `socket_fd` is the place in the list. `list` is the used part of
`idk_man.switch_list`, `graph` the used part of `devices`, `rset`/`wset` the
descriptor sets minus those already served in this pass, `pc` the point of
`select_loop`, `closed` and `freed` what `close` and `free` were called for.
`gone` and `reset` describe the other end; `recv` returns -1 once after a reset
and 0 ever after, `send` -1 once and then raises SIGPIPE. Where buffers that have
been freed are used (`Dangling`) the model stops: anything may happen.
`connected_ports` is the table of hardware addresses a MULTIPART_REPLY fills:
a PORT_MOD for a port that is not in it carries an address of zeros, and the
switch answers it with an error.

In `FlowMods` a buffer is a set of items at byte offsets, each as long as the
field of `openflow.h` it stands for, and a later item takes the place of those it
overlaps. The lengths and offsets are the code's sums; `Parsed` is what a switch
does that goes by the lengths and alignments of the structs: if it does not find
whole OXM fields up to the end of the match, or no instructions from there to
the end of the message, the flow mod is refused. In `Learning`, `flows` are both
tables in the order of installation, `asked` and `told` are the two directions of
the connection, `open` falls when a refusal makes the controller give up the
switch (`controller.c:462`).

In `Lifetime`, `pc` is the place in `main`, `todo` the calls of the allocator the
running function has yet to make, `ptr` the pointers the program holds and
`owner` the one an address was last handed out for, so that a pointer to a block
that was freed, or freed and handed out again, is told from one that is good. Of a
switch, `list` says what the clean-up asks: whether it was given up
(`DISCONNECTED`). A loop alarm sets `rw` to `WRITE` whatever it was
(`change_port_behavior`), so a switch that was given up may be `revived`, and its
buffers, freed already, be freed again: `Discover` is `add_connection` with this
alarm.

Some operators are marked *wrong version*. They are plausible slips in the
function that follows them; no specification uses them. Each property was tried
with one of them in place of the real operator to see that it can fail.

## Runs

| run | instance | shows |
|---|---|---|
| `session` | header 2 cells, buffer 8, messages of 2 to 4, two things said of the switch's own accord out of all kinds, an OFPT_ERROR included | framing both ways (`OutboundFraming`, `InboundFraming`), exact counters, no access beyond a buffer, setup and echoes in order, setup completes, echoes are answered; refinement of `MessageServer` with its fairness |
| `long_message` | an echo request of 10 cells | **violated**: the length of a message is not compared with the buffer |
| `topology` | 5 switches, 5 links, any cabling, patch cables of two switches to themselves | `GraphExact`, `AlarmMeansLoop` (no alarm without a loop), `RingFound` |
| `missed_loop` | 4 switches, 4 links | **violated**: a triangle with a fourth switch linked to it is forgotten, because a later search finds none |
| `network` | 2 cabled switches; one may say an echo request or a short frame that is no probe but looks like one, one may leave, in order or by a reset, SIGINT | `EverySlotASession`, `GraphIsNetwork`, `SearchStays` (the search never leaves `devices`), `NoFalseAlarm`, `LinksFound`, `OthersServed`, `InterruptObeyed` |
| `ring` | 3 switches in a ring; what is left of a message that was cut short may be taken for an error or an echo request | `SetupsInOrder`, although alarms overwrite records |
| `lifetime` | heap of 18 addresses in 3 chains; room for 3 switches, links and loop alarms, 2 switches may send an error; 2 addresses to listen on; SIGINT; every system call of the start-up may fail | the table of blocks (`HeapInv`, `AccountsExact`), refinement of `Heap`, `AllFreed` (but for what given-up switches leave), `FreesMatched`, `OneSocket`, `InterruptEnds` |
| `learning` | 2 hosts, 2 ports, 3 moves, 3 PACKET_INs or pairs of flow mods under way | `NeverRefused`, `WayBack`, `Converges`, `Reached` |
| `split_packet` | ring | **violated**: a PORT_MOD cuts the receiving of a message short |
| `wrong_port` | ring with different port numbers | **violated**: the port disabled belongs to no cable |
| `freed_buffers` | ring; one switch says an echo request | **violated**: a PORT_MOD sent before the ports are known is refused, and the error it is answered with frees the buffers of the other switches |
| `old_hello` | 2 switches, the first one too old | **violated**: the second one is never accepted |

The violated properties are in the last section of `Controller`, in `Topology`
(`AllLoopsFound`) and in `Session` (`NoOverflow`, with messages `ShortMessages`
excludes); each quotes the comment or message of the code it takes at its word.

**Bounds and why they are enough.** In `session` a header and a body can each be
split, two flow mods fill the write buffer to the last cell, and three messages
(a reply to the setup and two others) can wait in the socket. What depends on
sizes is proved for all of them. In `topology` five switches allow a ring with
and without chords, a tree with a loop, and two components; two patch
cables, a link between two switches that both have one. In `Controller` a
header is one cell and only a PACKET_IN has a body: the splitting of messages is
`Session`'s question, and the place where connections meet is the PACKET_IN.
Two switches are the least that can disturb each other, three the least that can
form a ring. The short frame carries, where Ethernet has a type, the length
38, a number no device has. `SndBuf` bounds what the kernel holds for a switch; with one or two
cells the controller has to wait for the switch all the time. Every switch says
at most `MaxTalk` messages and as many probe reports as it has cables.
In `lifetime` the code's 50 is 3, so that the tables are filled, a fourth switch
makes `switch_list` grow, and a ring of links can be entered; three chains for
18 addresses give chains of several records, removed from the front, the middle and
the end. The C library hands out its lowest free address, so that freed blocks
are reused at once and a pointer that is used too long points to another block;
the theorems about `SmartAlloc` hold for any choice. In `learning` a host can leave a port and come back to
it, and leave again, while what was learned in each place is under way. More than
three answers under way are a longer queue of the same pairs of flow mods.

**The switch in `Learning`.** What a switch does with flow mods is not in `src/`;
it is modelled from `openflow.h` and from what the code relies on:

- it names the input port first in the match of a PACKET_IN (`get_input_port`
  takes whatever comes first);
- a flow mod replaces the flow with the same match and priority and starts its
  time anew. `OFPFF_CHECK_OVERLAP`, which the code sets, refuses none of them: two
  learned flows of a table overlap only if they have the same match, and such a
  pair is a replacement. (A switch that takes the word of the standard to include
  equal matches would refuse a renewal.)
- flows with equal hard timeouts expire in the order they were installed;
- the switch answers a flow mod it refuses with an error and drops it;
- ports are numbered below 50 (`controller.h:65`).

A frame for which the first table has no flow is not put out, only reported: the
action of the default flow is to send it to the controller, and the controller
sends no PACKET_OUT for it (the comment at `rw_packets.c:677` says it is
flooded). The FLOW_REMOVED at the end of a flow is read and changes nothing.

**Deadlock** is not checked: a controller with nothing to do waits in `select`,
and the switches are bounded in what they say.

**Fairness.** The controller is one thread: whatever it can do next (`Loop`,
`Select`, `Serve`; in `Session` `ReadStep`, `WriteStep`) it eventually does, since
the kernel schedules it and `select` is level-triggered. Switches read what they
are sent, and connect. Nobody has to say anything, leave, or press Ctrl-C.
`Lifetime` is fair only to the program itself. In `Learning` the controller
serves, the switch installs and flows time out (weak fairness of `Serve`,
`Install`, `Expire`); and every host goes on sending frames, now and then one
that its switch has no flow for (strong fairness of `Send(h)`: a frame that is
sent over and over meets the moments at which there is no flow). That is a
premise of `Converges` and `Reached`, not a promise of the code: nobody learns
where a silent host is.

## Proofs

`SessionProofs` proves of `Session`, for every header and buffer size, every
length of message, every set of things a switch may say and any number of them:

- `Invariance`: `Spec => []IInv`, and from it `OutboundFramed` and `InboundFramed`;
- `CountedInvariance`: `Spec => []Counted`, and from it `TypeCorrect`,
  `ExpectationIsExact` and `OverrunsAreLong`.

Assumptions of both: `SizesAssumption` (a header is not empty; what the controller
composes fits a buffer, two flow mods together too; a buffer is below 32768) and
`SwitchAssumption` (messages carry a whole header, and their length fits the 16
bits of its field; the HELLO is one of 1.3). The first three, and the theorems
`SetupOrdered`, `SessionIsServer` and `EchoesOrdered` below, have a premise besides:
`ShortMessages`, nothing the switch says is longer than a buffer. The code does not
see to that, and without it framing is lost: what is received behind the end of a
buffer is gone. The second three hold without it.

The framing properties are not inductive: that the bytes received so far and
those in the socket form whole messages survives a step only if the counters
say how far the header or the body has come, and the counters are right only if
what was read as a header was one. `IInv` is the conjunction: types, the record's
own invariant `SwitchInv` (`Allocated`, `Exact`, `Fits`), both framings, and
`Short`. The proof has one lemma per action. `SwitchIOProofs` has what they need:
how `Framed` behaves under concatenation and under removal of a prefix that ends
at the end of a message, what `Store` and `Slice` do to buffers, and that each
writer leaves a record with `SwitchInv` and a framed `Pending`.

`OverrunsAreLong` says what the violated run `long_message` leaves open: a message
longer than the buffer is the *only* cause of an overrun. No way of cutting reads and
writes, no order of messages and no doubling of buffers is another one. Since the model has
no cells behind the end of a buffer, `Counted` cannot look there; it takes what
was received to be as many cells of the message in front as `bytes_read` counts
(`Collected`), of which the first, and so the header, is still in the buffer. In
`Counts`, the sum of the counters is bounded by a buffer or by the message in
front, and that is below 65536 (`Longest`): so no counter wraps and
`bytes_expected` stays exact for a message of any length.

The third part of `SessionProofs` proves `SetupOrdered`: `Spec => []SetupInOrder`, from the
assumptions of the first. The log of the switch alone says nothing about what comes next, so
the invariant (`SetupInv`) follows the stream: what is on its way to the switch,
then what waits in the write buffer, then what the setup flags say is not yet
composed (`Left`), begins with the cells of the setup that the switch has not got
(`Rest`). Besides it needs that the flags are set in their order, and that the
controller reads only when nothing is left to compose: so no reply can get in
between. `WriteStep` and `next_write` move cells along the stream and
change none of it; `SwitchReceives` takes the first message off both.

On top of it stand two more theorems about `Session`:

- `SessionIsServer`: `Spec => ImplementsServer`, the safety part of
  `ImplementsFairServer`. Pieces of messages disappear in the mapping: what
  `MessageServer` has still to do is `Todo`, the messages whose last cells are in
  the read buffer or the socket, and what it owes is `Owed`, those whose last cells
  wait in the write buffer or whose setup flag is not set. A `recv` or `send`
  that does not end a message is a stutter, one that does is the abstract step.
- `EchoesOrdered`: `Spec => []EchoesInOrder`. The invariant (`EchoInv`) is an
  equation: the xids of the replies the switch has got, then of those on their way
  or owed, then of the requests not handled yet are 1, 2, 3, ... up to the number
  of echoes asked. `MessageServer`'s step moves an xid from the third part to the
  second, `SwitchReceives` from the second to the first. It needs that no reply
  to the setup is an echo request (`SwitchAssumption`).

`ControllerProofs` proves of `Controller`, for any number of switches and any cabling:

- `TypeCorrect`: `Spec => []TypeOK`; the list, the graph and the descriptors
  select has reported stay about the same connections;
- `GraphSound`: `NoForgery` implies `Spec => []GraphIsNetwork`;
- `SetupsOrdered`: `NoForgery` implies `Spec => []SetupsInOrder`;
- `SearchNotLost`: `NoForgery` implies `Spec => []SearchStays`;
- `AlarmsAreTrue`: `NoForgery` and `Loopless` imply `Spec => []NoFalseAlarm`.

The first two hold whatever the search for loops returns.

`NoForgery` says that no HELLO, reply, or message of a host (whole or what is left
of one) is a frame that names a switch the way a probe does; in the run
`network` a host does send frames that look like probes, but they name no switch.
Without it a link in the graph is what a host says it is: the code has no other
evidence. A probe passes through two write
buffers, two sockets and a read buffer before it becomes a link, and it is true
that it came through a cable only if it is true in each of these places. `IInv` is
`TypeOK`, `Turns` (a switch in `wset` is a writer, `0` is in `rset` only while a
switch waits) and `Content`: every cell in a read buffer or a socket of a switch
is `Genuine` (what it says of cables is so), and every cell on its way to a switch
is `Permitted` (the only probe a switch is told to flood is its own). Further
assumptions (`ControllerAssumption`): the cables are finitely many, and ports are
numbered below 50 (`Ports`).

The next two rest on each other. An alarm writes a PORT_MOD over the record of the
device `loop_exists` names, so setups are in order only if that device is set up;
it is if the search names only devices of lists, the lists name only switches
whose probes have come through, and a probe comes only from and over switches that
are set up. But that is so because what a switch gets first is its setup, all of it.
`SInv` carries the two halves at once. `SetUp` is the set of switches that have
the six messages, or whose socket holds what is left of them, or that have left;
`Opening` says of the others what `SetupInv` says of `Session`, with the lemmas
`SessionProofs` uses as well (the section on the setup in `SwitchIOProofs`): the
record is as `setup` and `handle_write_socket` left it, and what is on the way begins
with the messages the switch has not got. `Content` is what `IInv` has, with the
stronger condition that both ends of what a cell says are in `SetUp`. Since `SetUp`
only grows, what is in the buffers stays true (`ContentGrows`). The lemma `LoopAnswers`
of `NetworkGraphProofs` supplies the rest: in any graph `loop_exists` returns 0, a
device some list names, or `Nowhere`, and the last only if a list names a device
that has no entry. Therefore the controller is killed by a search only if a frame of
a host has entered such a link.

`AlarmsAreTrue` is "when a loop is detected, send a port_mod" (`rw_packets.c:624`) read the
other way round: where there is no loop, no port is disabled. `Loopless` says that no pair of cabled switches
(`Cabled`) is part of a loop. Parallel cables count as one link, because the graph
does not tell them apart. Hosts may send anything but probes of switches, so a
list can name what is no switch; it has no place in the array, so a search that
comes to it is lost (`Nowhere`), and that is no alarm. What has to be invariant is that
the lists are the two sides of a set of links (`Agreed`): each names a device once,
and of two devices in the array each names the other or neither does. That holds since
`add_connection` enters both ends in one call, since no switch is cabled to itself
in a network without loops, and since both ends of a true report are set up, so
that they are in the array. From `Agreed` and `NamedCabled` (a list names only switches
a cable leads to) `LostInForest` gives 0 or `Nowhere` (`CalmSearch`); so no PORT_MOD
is composed, and `Permitted` says that none waits in a write buffer or a socket either,
down to the log of the switch. All this is under `Calm(D)`, which is false for a
`D` that is not a set of switches: `TypeCorrect` and `GraphSound` use the same
lemmas with `D = Nat` and so stay free of the search.

`TopologyProofs` proves of `Topology`, for any number of switches and links and any
cabling, `TypeCorrect` and `ListsAreLinks` (`Spec => []GraphExact`). The inductive
invariant says that devices are numbered in the order they joined (`Numbered`), a
link joins devices (`Ends`), a list names only other ends of the links found, and
all of them unless there is a link from the device to itself (`Listed`), and each
once (`Once`). The exception is the code's: `add_connection` takes a list for one
that has the link already if it names *either* end (`controller.c:148`), and a
patch cable puts a switch into its own list, so that no later link gets into it.
The proof shows that this stays in that one list: everywhere else a list does not
name its own device, and then the check asks for exactly the other end.

Two more theorems are about what `loop_exists` says of such a graph:

- `NeverFalse`: `Spec => []AlarmMeansLoop`;
- `RingsAreFound`: `Spec => []RingFound`.

They rest on `NetworkGraphProofs`, which is about the operators of `NetworkGraph`
and any graph. The search is a recursive function, so the first part shows that
it is one: a search goes on from a device only to searches with one device less
to discover (`Left`, `Deeper`), hence by induction on that number there is exactly
one function that fits the equation (`SearchExists`), likewise the walk along a
list (`WalkExists`, `WalkUnique`) and the two loops of `loop_exists`
(`FromExists`, `OuterExists`). From then on a search is known by its equation
(`SearchFacts`, `WalkIs`), and a fact about its result is shown by the same
induction.

*In a forest* nothing is found (`NoneInForest`, and `LostInForest` for lists that may
name devices with no place in the array: then the search is lost or finds nothing). `Side(E, a, b)` is what can be
reached from `a` without the link to `b`; the graph is a forest when no link has
the same device on both its sides. The induction says more than that the result
is 0: a search that enters the branch of a device, no device of which has been
discovered, comes back with exactly that branch added to the discovered ones
(`SearchInForest`). So the branches still to be searched stay untouched
(`BranchesApart`), and the only discovered neighbour is the one the search came
from, which the code passes over.

*In a ring* something is found (`FoundInRing`). The search from the first device
goes along one of its two links and never has a choice; it can only end at a
device already discovered, and everything behind it is. The induction takes the
discovered devices for a set from which only two links lead out, one at the root
and one at the place the search has come to (`RingStep`).

`AlarmMeansLoop` says less than one would like: that there is a loop, not that
the device named is on it. A search that finds a loop ends the walk along the list
of the device it started from, with that device marked as discovered; a later
search that comes to it over one of the links passed over takes it for a way back.
With 5 links and no patch cable there is no room for this; six switches, linked
1-2, 2-3, 3-4, 4-2, 1-6, 6-5 in this order, are enough for an alarm at switch 1.
So no property says the device is on the loop.

`LifetimeProofs` proves `ListensOnOne`: `Spec => []OneSocket`, with the addition
that no socket is open before the first one is bound and between two attempts.
The other theorems are about memory, for any number of addresses, switches, links
and errors and blocks of any size (`LifetimeAssumption`; the only link between its
constants is that the sizes the allocator is asked for are those of the kinds of
blocks, and twice the first `switch_list`):

- `UsesHeap`: `Spec => HeapSpec`, every step is a call of `smartalloc.c`, a write
  into a margin, or nothing to the heap; so the theorems about `SmartAlloc` hold
  here (`HeapKept`, `AccountsKept`, `HeapImplemented`);
- `TypesKept`: `Spec => []LifetimeTypeOK`;
- `EndFrees`: `Spec => []AllFreed`;
- `FreesAreMatched`: `Spec => []FreesMatched`.

They rest on `MemoryKept`: `Spec => []MemoryInv`. That nothing is left at the end
follows only if the clean-up, which walks along tables, passes every block; so
the invariant has to say where blocks can be. `Typed` ties the tables to each other,
`Owned` says that every live block is the one its place points to, `Calls` that
the places are those of the tables as they are now and that what is missing there
is in `todo`, `Cleaning` that from the end of the loop on every block has its own
call of `free`, or belongs to a switch that was given up, and `Matched` that as
long as none was, the calls in `todo` are for blocks that are there. The work is in
the step that makes the calls of `free_controller_mem` out of the
tables: no place is named twice (`Distinct`), which is where a table that pointed to
one block from two entries would show.

`SmartAllocProofs` proves of `SmartAlloc`, for any addresses, sizes and number of
chains and a program that calls it in any way:

- `TableSound`: `HeapSpec => []HeapInv`, each live block has exactly one record,
  in the chain its address hashes to;
- `SmartAllocIsHeap`: `HeapSpec => ImplementsHeap`, with
  `blocks <- [a \in libc |-> Space(a)]`.

`HeapInv` is inductive: that a record is found (`Held`) needs that it is in the
right chain (`InChain`) and that no other one has its address (`Once`). The
lemmas are about `push` and `unlink` on one chain, at any place in it; the step
of the refinement then says that `Space` changes at one address. The assumption
is `AllocAssumption` (addresses are numbers, not NULL). A third theorem is `AccountsCorrect`:
`HeapSpec => []AccountsExact`. The sum of the sizes is a fold over a set that
changes by one block; that such a sum exists, and changes by the size of that
block, is shown by induction on the number of blocks.

`LearningProofs` proves of `Learning`, for any hosts, ports, and bounds:

- `Types`: `Spec => []TypeOK`; `AnswersFrame`: the answer to a PACKET_IN is the
  pair of flows for its host and its port;
- `Accepted`: `Spec => []NeverRefused`;
- `BackKnown`: `Spec => []WayBack`.

The first half is about bytes: what four writers put in a buffer, one behind the
other, is computed item by item, and the lemmas `LearnedRead` and `DefaultsRead`
say that `FlowsAt` finds exactly the flow that was meant at the place where each
begins. The second half is about order. `WayBack` is not inductive: that the flow
for the way back is about to be installed when the one for the way there has been
needs that flow mods arrive in pairs, the way there first (`PairsTold`), and that
everything in the tables is a learned or a default flow (`Kept`). `IInv` is
`Kept /\ PairsTold /\ WayBack /\ NeverRefused`. The hard case is `Expire`: the
oldest flow that has a timeout goes; a flow from a host has one, so if the way
back, which lies behind it, is the one that goes, then the flow from the host was
older still and would have gone first. Installing again is the other one: both
flows of a pair move to the end, the first one first, and the second one is then
in `told`.

**Only proved.** `OverrunIsLong`: the runs have either short messages, with which it
is `NoOverflow`, or one that is too long.

**Excepted.** Three things the code does wrong are visible in the models and
excepted by the properties, not hidden: an interrupt between the test of the flag
and a `select` that blocks is not acted on (`InterruptObeyed`, `InterruptEnds`); the
buffers of a switch that was given up stay allocated or are freed twice
(`AllFreed`, `FreesMatched`); the addresses that could not be bound are not
freed (`listed` in `Lifetime`).

**Only model-checked.** Liveness and fairness (`ImplementsFairServer` beyond its
safety part, `SetupCompletes`, `LinksFound` and their like), since the provers have
no rule for them. In `Controller`: `EverySlotASession`, a refinement of `Session` by every
slot of the list, with the actions of the others as stutters. It does not hold of every
network: an alarm writes into the record of another slot (so `Loopless` is a
premise), and a switch that says FEATURES_REPLY unasked is made to flood a second
probe, which `MaySay` does not count. Recursive functions and folds can
be reasoned about here, though the induction theorems of the library cannot be used:
the lemmas `Least` and `Induction` state induction for a set instead of an operator,
and `FlattenSeq` (`Lifetime`), sums (`SmartAlloc`) and `Pick` (`SwitchIO`) are
treated that way.

## Not modelled, and why

- Field layouts of messages other than flow mods and PACKET_INs; byte order,
  logging, `read_features`, `print_port_stats` (they change nothing).
- Functions nothing calls: `write_error`, `read_error`, `flood_packet`,
  `read_config`, `smartvalloc`; the C++ operators of `smartalloc.h`. The mutex of
  `smartalloc.c`: the program is one thread.
- Messages that claim to be shorter than a header (`controller.c:413` wraps):
  the subtraction gives an expectation beyond any buffer, so what follows is
  what the run `long_message` shows.
- A failing `accept`: `FD_SET` of -1 follows, which is undefined. (A failing `calloc` ends the program: `Lifetime`.)
- Port numbers of 50 and more.
- Entries of `switch_list` that were never used: they are READ with descriptor 0,
  so `select` also watches standard input. It is assumed to be silent.
- What happens beyond 50 switches: `Lifetime` grows `switch_list` and then enters
  "undefined", since `devices` does not grow (`controller.c:307`).
- The 60 second timeout exists only as an assignment (`controller.c:286`).
- The checksum (not built), the Mininet script.

## Plan

Order: what can corrupt every conversation first, then what connects them.

1. *Done*: `SwitchIO`, `Session`, `MessageServer`; `NetworkGraph`, `Topology`;
   `Controller` with the port table; `FlowMods` and `Learning`; `Heap`,
   `SmartAlloc` and `Lifetime`; proofs about all of them, of every safety property
   but those named under "Only model-checked".
2. Proofs: `EverySlotASession` of `Controller`, action by action. What it needs beyond
   `SInv`: that a slot in `rset` is READ and has something to read, that a writer has
   something to write, and that a switch floods one probe only, which rests on
   the framing of every connection. So the lemmas of `SessionProofs` about `IInv` are
   first to be stated for any record and streams, in `SwitchIOProofs`, as those
   about the setup are. The theorems about `Session` would then hold of every slot.
3. The entries of `switch_list` that were never used (descriptor 0).
4. Two switches in `Learning`: a host that moves from one to another, and a flow
   table for each.
