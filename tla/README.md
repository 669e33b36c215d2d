# Formal models of the Wiselib

Wiselib is a C++ template library of algorithms for wireless sensor networks. An
algorithm is a class parameterised by the facets of an operating system (`OsModel`,
`Radio`, `Timer`, `Debug`, ...) and runs on the nodes of a network. These TLA+ modules
model the part of it that the rest is built on: how data finds its way (three routing
protocols, two floods, two distributed graph searches), how a radio that loses, repeats and
reorders frames, or takes only short ones, is made usable (four radio layers, the IPv6
stack, the CoAP service), and how nodes come to know each other, form clusters and collect
results (a neighbor discovery, breadth first clustering, convergecast). TLC checks the models on small networks; TLAPS
proves the safety properties of the passing runs, and the four refinements of abstract specifications, for networks of any size.

Contents: [Inventory](#1-inventory) · [Plan](#2-plan) ·
[How the code is modelled](#3-how-the-code-is-modelled) · [Modules](#4-modules) ·
[Runs](#5-runs) · [Fairness](#6-fairness) · [Proofs](#7-proofs) ·
[Where code and comments disagree](#8-where-code-and-comments-disagree) ·
[What is not covered](#9-what-is-not-covered)

To repeat it, in this directory:

    tlc -workers 2 -config TreeAnyUse.cfg MCTreeRouting     # one run; see section 5
    tlapm TreeRoutingProofs.tla                             # one proof module; section 7

`PROJECT.json` holds the same in a form for tools: the components, the runs, for every
definition the lines of the source it stands for (`map`), for every property a plausible
slip in the code that violates it (`mutants`), the hazards and the theorems.

## 1. Inventory

### How the library is put together

* `src/wiselib.stable/` holds the algorithms that are considered finished (the routing
  protocols `tree`, `dsdv` and `dsr`), the table and the vector of fixed size, delegates,
  serialization, the base classes of radios and routing classes, and the glue to the
  operating systems (`external_interface/`).
* `src/wiselib.testing/` holds everything else: radio layers, more routing protocols,
  neighbor discovery, clustering, 6LoWPAN, CoAP, localization, storage, containers.
* `src/apps/` are example and test applications, `src/doc/concepts/` describes the
  concepts a class must satisfy, `src/util/` are tools.

The parts interact in one way everywhere. A class registers a delegate with the layer
below (`reg_recv_callback`) and arms timers (`set_timer`); the operating system calls the
delegates one at a time, **each handler runs to completion**, and there is no preemption
and no lock. A handler may call the methods of the layer below (`radio().send`) and the
receivers registered with it. All concurrency is therefore between nodes, between the
handlers of a node, and with the frames in the air. A routing class is itself a radio to
its application, so layers stack: application — routing — reliable or fragmenting radio
— radio of the operating system.

The hard part is the same in all components: handlers of several nodes interleave with
frames that are lost, repeated, late and out of order; memory is of fixed size, so tables
and buffers fill up; counters are `uint8_t` or `uint16_t` and wrap; nodes restart; timers of the nodes
are not synchronous.

### The components that are modelled

| Component | State per node | Operations | What is hard | What makes it correct |
|---|---|---|---|---|
| **Tree routing** `stable/algorithms/routing/tree/` | `state_`, `parent_`, `hops_` (uint8_t), the registration and the timer | constructor, `init`/`enable_radio`, `set_sink`, `send`, `timer_elapsed`, `receive` (announcement, data) | stale announcements; data under way while the tree changes; `set_sink` on a running node; restarts; the limit 0xff | parents never form a cycle; data only moves towards the sink; every node ends at its shortest distance; no count below the true distance |
| **Distance vector routing** `stable/algorithms/routing/dsdv/` | a table destination → (next hop, hops) of fixed size, the timer | `init`/`enable_radio`, `send`, `timer_elapsed` (splits the table into frames), `receive`, `update_routing_table` | no sequence numbers; tables sent in pieces that overtake each other; full tables drop writes silently; one-way links | next hops lead home without loops, for tables and for data under way; hop counts do not wrap; shortest routes in the end |
| **Source routing** `stable/algorithms/routing/dsr/` | `seq_nr_`, `send_in_progress_`, one waiting message, a table destination → (path, hops, seq) | `init`/`enable_radio`, `send`, `handle_route_request`, `handle_route_reply`, `handle_routing_message` | copies of a flood over several ways; late replies for the wrong message; indices counted apart from the path; table and path at their limit; restarts | frames stay on their path; nothing is delivered twice; accepted messages arrive; routes are walks over real links |
| **Routing table** (partly) `stable/internal_interface/routing_table/` | pairs up to `TABLE_SIZE` | `find`, `operator[]`, `clear` (`insert` and `erase` have no caller here) | `operator[]` on a full table hands out a dummy, the write is lost | never more than `TABLE_SIZE`; protocols stay correct when writes are lost |
| **Reliable radio** `testing/radio/reliable/reliable_radio.h` | status, callbacks, `seq`, a buffer of messages with retry counters, a buffer of replies given | `enable_radio`, `disable_radio`, `send`, `receive` (message, reply), `daemon`, `reg_recv_callback` | lost replies; entries reused while copies still travel; replies that come after the verdict; two daemon chains; late registration | no silent repetition; a copy is dropped only if the message was heard; every message gets a verdict, and "delivered" is true |
| **Connection-based reliable radio** `testing/radio/reliable/reliableradio.h` | a clock of 16 bits, connections (next number, window of numbers received), pending messages with their time | `init`/`enable_radio`, `send` to a node and to all, `time_passes`, `reliable_daemon`, `receive` (message, acknowledgement, broadcast) | the window forgets the oldest number; acknowledgements carry a whole window and come late; the map of connections and the pending messages are limited | what is acknowledged was heard; a message comes again only when its number had left the window; every message is acknowledged or given up |
| **Fragmenting radio** `testing/radio/fragmenting/` | status, callbacks, a buffer of incomplete messages matched by a random id | `enable_radio`, `disable_radio`, `send` (cuts), `receive` (collects, joins), `daemon` (gives up), `reg_recv_callback` | senders share the buffer; ids collide; fragments out of order or after the timeout; a new message fills every idle slot | what is handed up is one whole message of its sender; in order and once from an orderly sender |
| **Packing radio** `testing/algorithms/protocols/packing_radio/` | a buffer of messages for one receiver, the receiver, the timer | `init` with and without a timer, `send`, `flush`, `on_time`, `on_receive` | receivers alternate; messages that only just fit, or are empty | each message is in one frame, to its receiver, in order; comes out as it went in; does not wait for ever |
| **6LoWPAN stack** (partly) `testing/algorithms/6lowpan/` | a tag, the packet under reassembly and the previous one, a pool of two packets, routes and a search for one, callbacks by UDP port | `LoWPAN::send`/`receive`, `ReassemblingManager`, `PacketPoolManager`, `IPv6::send`/`receive`/`routing_polling`, `UDP::send`/`receive` | fragments of several senders with the same tag; timers that belong to an earlier packet; who frees a packet of the pool | one owner per packet; what goes on is all of one packet; the pool does not fill up for good |
| **CoAP service** (partly) `testing/radio/coap/coap_service_static.h` | lists of messages sent and received (places reused), message ids, timers for retransmissions and late acknowledgements | `request`, `reply` in the callback and later, `rst`, `receive` (request, response, acknowledgement, reset, copy), both timers | lost and repeated frames; response and acknowledgement in any order; a place in a list reused while it is waited for | an answer is that of its request, one per request; a request is handled once while the receiver remembers it; confirmable requests are answered |
| **Flooding** `testing/algorithms/routing/flooding/` | own number (uint16_t), a table source → last number seen, of fixed size | `init`, `send`, `receive` | copies over several ways; numbers that overtake each other; a source that starts again at 0 | each message handed up once; floods end; all nodes are reached |
| **Flooding over a neighbor discovery** `testing/algorithms/routing/flooding_nd/`, `forward_on_directed_nd/` | number of the last query (uint8_t), parent | `send` of a query and of a result, `receive`, `set_parent` | results climb while a new query moves the parents | no circle of parents; results only get closer to the sink and arrive |
| **Distributed graph search** `testing/algorithms/graph/ddfs_graph.h`, `dbfs_graph.h` | neighbours, parent, children, who is unvisited; levels, echoes expected | neighbourhood and start timers, `receive` of discover, return, visited, acknowledgement; label, echo | messages of the search overtake those that say who was visited; rounds of a level end only when all echoes came | one search at a time; a depth first tree, the true levels; the end is announced when all is done, and is announced |
| **Neighbor discovery** (partly: Echo) `testing/algorithms/neighbor_discovery/echo.h` | a neighborhood with last beacon, stability, association; the timer | `enable`, `disable`, `say_hello` with its clean-up, `receive`, events | beacons lost; one-way links; nodes switched off and on; room for few neighbors | events tell what the neighborhood holds; bidirectional means both hear; silent nodes are dropped, nodes that keep sending are found |
| **Breadth first clustering** `testing/algorithms/cluster/bfscluster/bfsclustering.h` | `SID_`, `parent_`, `hops_`, `any_joined_`, members, the timer | `enable`, `receive` (join, accept, resume), `timer_expired` | heads compete; a timer runs while answers are under way | a node is in the cluster of its parent, no circle; heads know their members and hear of every branch |
| **Convergecast** `testing/algorithms/convergecast/` | the tree, a buffer of results per convergecast | `startConvergecast`, `onReceiveCall`, `onReceiveResponse` | several convergecasts at a time; answers in any order | a result counts each node of a branch once, and reaches the root |

They interact so: an application calls `send()` of a routing class or of a radio layer;
the class calls `radio().send()` of the layer below; the frames reach the `receive()` of
other nodes, which calls the receivers registered with it. `dsdv` and `dsr` own a routing
table; UDP sits on IPv6, which sits on LoWPAN with its reassembling manager and a routing
table, all on one packet pool, and these are modelled together in `LowpanStack`. A query processor floods its
queries with one class and takes the results up with another, along parents the first has set: both are in
`FloodTree`. Otherwise a layer and the one above share no state, and each assumes of the layer
below only what a lossy radio gives (no order, no acknowledgement), which is what the
models assume too; so they are modelled and checked each over such a radio, not stacked.

### The components that are not modelled

| Component | State and operations | Why not |
|---|---|---|
| Receiver registration (`radio_base.h`, `routing_base.h`) | a vector of delegates; register, unregister, notify | its effect (a receiver is there or not) is in the models; no modelled protocol depends on unregistering |
| `vector_static`, containers of `util/pstl`, allocators | insert, erase, push; free lists | sequential; `push_back`, `[]` and the reuse of places in `list_static` are modelled where used |
| Delegates, serialization | none | messages are records here |
| Platform glue (`external_interface/`, both branches) | handles of the operating system | wraps APIs outside the repository |
| CoAP observation, high level states, the older CoAP (`protocols/coap/`) | lists of observers, conditions on numbers | users or a predecessor of the service that is modelled |
| AODV | tables, sequence numbers, a waiting message | the timeout erases from a map and increments the erased iterator; data is never handed to the receivers of its destination, so nothing can be said of a delivered message |
| DYMO | as AODV | includes a header by an absolute path of its author; compares a `uint8_t` with the type 300, so its data frames are never recognised |
| OLSR | neighbor, two-hop, topology sets with ageing | 2900 lines of tables of the RFC; not read closely enough to be modelled faithfully |
| TORA | heights | unfinished: iterators used after erase (`tora_routing.h:429-475`, 1247-1266), `send()` drops its data, a branch only prints "FIX THIS" |
| Tree and DSDV over a neighbor discovery | as tree and DSDV, plus neighbor events | variants of modelled protocols; see section 8 for what a lost parent does in the first, and the second erases from a table while it iterates |
| Greedy, lazy, query, static, ring, secure and controlled-topology routing | positions, fixed tables or keys | geometry, or little state |
| Adaptive and older neighbor discovery, ICMPv6, interfaces | beacons with other rules; solicitations | Echo is the one the applications use; ICMPv6 is optional on the stack that is modelled |
| Other clustering (eleven variants), cluster radio, end-to-end layers (`fronts_e2e`) | head, role, timers | each variant is a protocol of its own; one is modelled |
| Coloring, topology control | colors; positions and powers | not part of the core |
| Localization, tracking | positions, traces | numerical; their use of the layers below is modelled (section 3) |
| Time synchronization | clock offsets, levels | TPSN names three nodes in its code (4610, 21102, 1412) and sets the clock in debug builds only; LTS does not compile |
| Semantic entities (`token_construction.h`) | a token with a count | uses a random generator it never sets |
| Self stabilization | rounds of algorithms | a scheduler for algorithms given from outside |
| Block memory | caches and trees on blocks | sequential; the cache has no user in the repository |
| RDF queries, tuple store, broker, crypto, privacy, Bloom filter, aggregation, duty cycling, codecs, hashes | — | operators on data or numerical, no protocol of the core |
| Testbed API, robot control, applications | — | I/O; the applications are read for how the classes are called |

## 2. Plan

The order follows how much rests on a part.

| | Modules | State |
|---|---|---|
| 1 | `TreeRouting`, abstract `GradientTree` | checked; all safety properties proved |
| 2 | `DsdvRouting` with the routing table, each destination a `GradientTree` | checked; safety and refinement proved |
| 3 | `ReliableRadio`, abstract `Delivery` | checked; safety and refinement proved |
| 4 | `DsrRouting` with the path of fixed size | checked; all safety properties proved |
| 5 | `FragmentingRadio`, `ConnectionRadio`, `PackingRadio` | checked; all safety properties proved |
| 6 | `Flooding`, `FloodTree`, `DdfsGraph`, `DbfsGraph`, `Convergecast` | checked; all safety properties proved |
| 7 | `Echo`, `BfsClustering` | checked; all safety properties proved |
| 8 | `LowpanStack`, `CoapService`, abstract `RemoteCalls` | checked; safety and refinement proved |

No safety property of a passing run is left without a theorem. Worth proving next is more than the runs ask: the
refinement of `RemoteCalls` where a node speaks to several others and its lists are long (section 7). Worth modelling
next: OLSR, the `_ndis` protocols composed with `Echo`, ICMPv6 on top of `LowpanStack`, the
block allocators.

## 3. How the code is modelled

**Steps.** A handler runs to completion, so a handler (radio callback, timer callback, or
method called by the application) is one action, with everything it calls.

**Frames.** What the radio may do is in how frames are kept:

* In `TreeRouting`, `DsdvRouting`, `ReliableRadio`, `ConnectionRadio` and `PackingRadio` the variable `air` is the
  set of all frames ever sent. A receiver in range may take any of them at any time, any
  number of times or never: delay, reordering, repetition and loss need no actions of their
  own. `LowpanStack` keeps the frames sent to the node so.
* `DsrRouting`, `Flooding`, `FloodTree`, `DbfsGraph`, `BfsClustering` and `Convergecast` count copies on their
  way, because flooding and searching are about copies: a
  broadcast puts one into the air for each node in range, a reception takes it out (in `DsrRouting` unless
  `Duplicates`, and `Lose` drops it). A frame that is never taken is a lost one.
  `DdfsGraph` keeps a bag: two equal messages may be on the way.
* `FragmentingRadio` needs both: on its `Orderly` flows frames
  come in order and at most once, on the others as in the first kind.
* `CoapService` takes frames out and bounds what goes wrong: `MaxFaults` of them are lost or
  come again.
* `Echo` keeps the last beacon of each node and who may still hear it.

A corrupted frame is a lost one.

**Timers.** Every periodic timer of the modelled classes is armed by enabling and armed
again by its own handler. So it is always pending, and the action is enabled whenever the
node is up. The periods are left out: any interleaving of timers is allowed. An armed timer is
state where the code can have none or several: `daemons` of the reliable radio, whose
`daemon()` stops itself and can be started twice; `chains` of Echo, likewise; `timeouts` of the
reassembling manager; `resend` and `due` of CoAP; `timer` of the clustering.
Where what is promised depends on a timer that is not early, the promise is made under that
assumption alone, and everything else is checked without it: `prompt` in `BfsClustering`,
`timely` in `CoapService`, `paced` in `Flooding` (a source waits until its last flood is over).
`Echo` counts in rounds: each node sends one beacon per chain and round, at any time
in it, so that what was heard k rounds ago is between k - 1 and k + 1 periods old, and at the edge
either may be. In `DdfsGraph` and `DbfsGraph` a search begins when the neighbourhood
messages have arrived: there is a timer of several seconds between them.

**Lists.** The lists of `CoapService` are kept as histories of all that ever was put in; `Kept` says
which of it is still in the list, and `At` what a pointer into it finds after its place was
reused, which is the point of the model.

**Data.** A payload is identified by its source and a number. Fields that are written and
never read (`gate_id`) are left out. Counters keep their width: `INF` is 0xff in
`TreeRouting`; `HopMod`, `ByteMod`, `CounterMod`, `LevelMod` are 2^8, `SeqMod`, `TimeMod` and `TagMod` 2^16
(`SeqMod` of `FloodTree` 2^8), made smaller in the runs. Tokens of CoAP, 32 random
bits, are taken to be distinct; ids of fragments are not.

**Ghosts.** Some fields of frames (`hops` of a data frame, `origin` of a resume, `body`) and some variables
(`delivered`, `again`, `heard`, `repeated`, `forgotten`, `reported`, `handed`, `twice`,
`sent`, `told`, `formed`, `executed`, `answers`, `passed`, ...)
record what happened, for the properties. No action of the code
depends on one, except through the named bounds.

**Undefined behaviour.** Where the code reads memory it never wrote, the model takes any
value: `At` of `DsrRouting` (an index beyond the path), the initial `status` of
`ReliableRadio` and the initial `receiver` of `PackingRadio` (constructor and `init` do not set them).

**The table.** `StaticArrayRoutingTable` is a function on the destinations it knows.
`operator[]` of an unknown destination makes an entry while there is room; when full it
returns a dummy, so that the write is lost. In `DsdvRouting` the order in which the entries
of a frame compete for the last places is left open (`SomeOf`), as is how the table is cut
into frames (`Chunks`).

**How the classes are called.** The applications call `set_sink()` before `init()`
(`routing_test.cpp:44,84`, `localization_test.cpp:191-193`); nothing in `TreeRouting`
demands it, so both uses are modelled (`PlannedSpec`, `Spec`). PLTT registers with the
reliable radio late (`PLTT_passive.h:173,311`) or in time (`PLTT_tracker.h:138-145`):
`Spec` and `TimelySpec` of `ReliableRadio`. `FloodTree` composes the two classes as the query
processor does (`inqp_test/example_app.cpp:190-225`). A clustering is enabled once
(`wiselib_clustering_processor.cpp:67`), a convergecast started once per id
(`convergecast_example_app.cpp`). Enabling a layer that is enabled already
occurs in no application and is not modelled, except for `init()` of `TreeRouting` and `Flooding`.

## 4. Modules

### TreeRouting, GradientTree

`TreeRouting` is the class `TreeRouting`. `state`, `parent`, `hops` are its members, `up`
says that `enable_radio()` has registered `receive` and armed the timer.

| Action | Code (`tree_routing.h`) |
|---|---|
| `SetSink` | `set_sink()` |
| `Enable` (`InitRouting`, `StartAs`) | `init()`, `enable_radio()`: a gateway is its own parent at 0, another node starts alone at 0xff |
| `Send` | `send()`, to `parent_` |
| `TimerElapsed` | `timer_elapsed()`: announce, unless unconnected |
| `ReceiveBroadcast` | `receive()` of an announcement that is better by more than the hop |
| `DeliverData`, `ForwardData` | `receive()` of data at a gateway, at another node |
| `Crash` | power loss; the start routine constructs the object and calls `set_sink()` again |

Specifications: `Spec` (one `init()` per node, `set_sink` at any time), `PlannedSpec`
(roles first, and fairness), `ChurnSpec` (crashes and repeated `init()`), `LossSpec`
(nodes that die). `GradientTree` is the promise free of frames: a node joins only below a
member, at a level beyond the member's and better than its own.

### DsdvRouting

`next[n]` and `hops[n]` are the table of node n. `TimerElapsed` is `timer_elapsed()` with its
division into frames of at most `MAX_ENTRIES`; `ReceiveBroadcast` is `receive()` with
`update_routing_table()` for the sender and then for every entry; `Send`, `DeliverData`,
`ForwardData` are the data path. `RoutesMakeTrees` says that for each destination d the routes are
a `GradientTree` rooted at d, where a step of the protocol may move the trees of several
destinations at once, each by one step of its own.

### DsrRouting

`table`, `busy` (`send_in_progress_`), `seqNr`, `message` (`routing_message_`) are the
members. `SendOnRoute` and `SendRequest` are the two branches of `send()`,
`HandleRouteRequest`, `HandleRouteReply`, `HandleRoutingMessage` the handlers of that name.
`path_idx` and the path are kept apart as in the code, `At` reads the path at an
index, `PushBack` is `vector_static::push_back` with its limit.

### ReliableRadio, Delivery

`messages` and `replies` are the two buffers, sets here because the code never depends on
their order except in the choice of the entry to reuse, which is left open
(`Insertions`). `ReceiveMessage` is `receive()` of an `RR_MESSAGE` that `replies_check()` does not know;
a known one changes nothing (the reply is *not* repeated). `DaemonRun` is the body of `daemon()`:
retry, report, age the replies; `Step` keeps the detail that the counter of an exhausted
entry moves on inside the loop over the callbacks, so that without a callback it stays.
`EnableRadio(n, p)` is `enable_radio()` followed by p registrations in the same handler.

`Delivery` is the promise to the sender: a message that was taken stays pending until
the layer says "delivered", and then the application at the destination had it, or "not
delivered". The mapping is at the end of `ReliableRadio`: `Taken` (a frame was sent),
`Pending` (its entry is not settled), `Had`, `Failed`. "Not delivered" may be
wrong (a lost reply), in `Delivery` as in the code.

### ConnectionRadio

The other class of that name, with connections: `open[n]` is the map of connections, each with the
next number to use and the window of numbers received; `pending` the messages not
acknowledged. `heard[n]` is for the properties: the messages given to the receivers of n, and for each of them the
others of its source that were given since. `TimePasses` and `Daemon` are the two timers, `Send`, `SendBroadcast` the
sending, `ReceiveReliable`, `ReceiveUnconnected` (the map is full, and `operator[]` of
it ends in a failed assertion), `ReceiveAck`, `ReceiveBroadcast` the receiving. Numbers and the clock wrap; the
comparison of times does not (`Due`).

### FragmentingRadio

`slots[n]` is the vector `fragmenting_messages`, each slot with its id, its `active` flag
and the fragments in their order of arrival. `Send` cuts (`vectorize()`), with the
code's own counting: a last fragment that is exactly full is counted in `Total` and
not in `Made`. `Collect` is `receive()` of a fragment with matching slots: it goes into
each of them up to the first it completes, which is handed up (`HandUp`). `MakeSlot` is
`receive()` of one without: it replaces *all* inactive slots (the loop has no break), or takes a
new slot, or is dropped. `Daemon` gives up any of the active slots: the clock is left
out, and with it the timeout, which the code may set to anything.

### PackingRadio

`packer` is the buffer, a list of messages by number, each with the position where it ends, `receiver` is
`current_receiver_`. `Send` flushes before it packs when the receiver
changes or the message does not fit; `Flush` is the method, `OnTime` the timer that a node may
have; `OnReceive` takes out the messages that end within the frame, as `next()` does.

### LowpanStack

One node, a router and host, with two neighbours that only send. `pool` is the packet pool, `mgr` the
reassembling manager, `table`, `working`, `wanted` the routing that answers later, `polls` the timers of
`IPv6::routing_polling()`. `Receive` is the whole way up: `CollectFragment`, `FirstFragment` and
`WholePacket` are `LoWPAN::receive()` in its cases, with `IPv6::receive()` (up to UDP, on
to another node, or dropped) when a packet is complete; `UdpSend` is the way down. `Timeout`,
`SearchForARoute` and `RoutingPolling` are the timers. `NeighbourSends` is `LoWPAN::send()` of a neighbour,
which may be refused by its radio in the middle (`SendFails`).

### CoapService, RemoteCalls

`sent` and `received` are the two lists of a node, `ids` the message ids, `resend` and `due` the two
kinds of timers. `Request` is `get()` and its like, `Reply` a reply in the callback, `ReplyLater` one after it.
`setup`, chosen at the start from `Setups`, is how the service is built and used: what each application asks, the first
message ids, the sizes of the lists, whether timers are early (`timely`) and whose resources may reply later (`deferring`).
`Take` is `receive()` of a frame, in its cases: `ReceiveRequest`, `ReceiveResponse`, `ReceiveAck`,
`ReceiveReset`, `ReceiveCopy`. `AckTimeout` and `RetransmitTimeout` are the timers. The radio is `Deliver`,
`DeliverAndRepeat` and `Lose`. `RemoteCalls` is the promise: a call is executed, once unless the other side may forget,
and answered at most once and with a result of its own.

### Flooding, FloodTree

`Flooding` is `FloodingAlgorithm`: `known[n]` is the table of sources and the number each had last,
`Forward` and `Drop` the two outcomes of `receive()`. A source in `Resetting` may be initialised again.
`FloodTree` is `FloodingNd` for the queries of a sink and `ForwardOnDirectedNd` for the
results: `ReceiveQuery` sets the parent, which is what `forward_on_directed_nd` sends to.

### DdfsGraph, DbfsGraph

The two searches. In `DdfsGraph` a node that is discovered tells all neighbours and waits for
their acknowledgements (`flagged`) before it sends the search on (`Resume`). In
`DbfsGraph` the root asks for one level after the other; `FirstLabel`, `NextLevel`, `Stop` are
`receive()` of a label in its cases, `ReceiveEcho` collects the echoes and asks for the next level. `Networks` are chosen
at the start: a square, one with a diagonal, a triangle behind the root, a tree. `OneSearch` is for networks where the root
has a neighbour and no other node is a leaf (`NoLeaf`: section 8 says what a leaf does); `LevelIsDistance`
for networks with no distance too large for a `uint8_t`, that is where all that can be reached is within `LevelMod - 1` hops.

### Convergecast

`parent` is a tree from `Trees`; a result is the bag of nodes it takes into account. `Branch(n)`, the nodes below n, is
stated without recursion: those in every set that has n in it and the children of its nodes. `OnReceiveCall`
asks the children or, at a leaf, answers; `OnReceiveResponse` answers, or tells the application, when all have.

### Echo

`setup` is chosen at the start: the links, whether beacons are lost, and who is switched off and on.
`neighborhood[n][m]` has the stability of m as n sees it, beacons in a row and the age in rounds. `SayHello` is
`say_hello()`, with the clean-up in it: what timed out is dropped, what missed a beacon starts again; the beacon lists the
stable nodes. `Receive` is `receive()` with `update_...` and the events; `told` is what a listener
of the events knows. `NextRound` lets time go by.

### BfsClustering

`sid`, `parent`, `hops`, `anyJoined`, `members` are the members. `ReceiveJoin` joins and asks on, `ReceiveAccept` is
`node_joined()` with the message for the parent, `ReceiveResume` passes on or, at the head, reports; `TimerExpired`
reports the branch when nobody joined. `Heads` are chosen at the start (`theta_`).

### MC modules

`MCTreeRouting`, `MCDsdvRouting`, `MCDsrRouting`, `MCReliableRadio`, `MCFragmentingRadio`, `MCLowpanStack`, `MCDdfsGraph`
give the topologies and flows of the runs, and the properties that need the
true distance (`Within`) or quote a comment. `MCTreeUses` and `MCDsrUses` choose at
the start in which `use` a protocol is run (each `use` of `MCDsrUses` has constants of its own); `MCRadios` and `MCSpreading` choose the `part`, one of the components, so
that one run checks several on their own networks. Each property of such a run is a conjunction of the properties of the parts it
names, and says nothing of the others: `TypesOK` apart, `ParentsLeadHome`, say, is `NoCircle` and
`ResultsAscend` of `FloodTree` in the part "tree" and `OneFarther`, `NoCircle` and `BranchesTrue` of `BfsClustering` in
the part "clusters". The networks, sizes and setups of all parts are constants of `MCSpreading` and `MCRadios`, for
the proofs.

## 5. Runs

| Run | Instance | States | What it shows |
|---|---|---|---|
| `TreeAnyUse` | triangle, two senders, `INF` 4, `Spec` | 146 000 | `TypeOK`, `NoParentCycle`, `DataDescends`, and `TreeSpec`: a `GradientTree`, also when `set_sink` comes late. Deadlock checked. |
| `TreeUses` | "churn": ring of 3 with a fourth node, `ChurnSpec`; "planned": line of 4, last node sends | 34 000 | `NeverTooClose` in spite of crashes, repeated `init()`, stale frames; shortest distances in the end (`Converges`); data reaches a gateway if none is lost, through all changes of the tree |
| `TreeLoss` | line of 3, `LossSpec` | — | **violated**: a lost parent is kept (section 8) |
| `DsdvUses` | "any use": line of 4 with a one-way shortcut, tables of 2, frames of 2; "fair": line of 3 with one, frames of one entry | 101 000 | `TypeOK`, `RoutesLeadHome`, `DataDescends`, `HopsBounded`, `RoutesMakeTrees` with full tables; `Converges`; `DataArrives` while routes still change |
| `RadioAnyUse` | 2 nodes, 3 messages, buffers of 1 and 2, 2 daemon chains | 330 000 | `TypeOK`, `AtMostOnce`, `VerdictComes`, with any enabling, disabling, registering |
| `Radios` | the parts below | 380 000 | `TypesOK`; `AckMeansHeard`, `AgainOnlyIfOvertaken`; `DroppedOnlyIfHeard`, `DeliverySpec`; `PacketsIntact`; `CallSpec`; `AllSettled` |
| `DsrUses` | "orderly": ring of 3, one node sends to both others, tables of 3; "full": the same with tables of 2; "churn": line of 3, the middle restarts, frames repeated and lost | 107 000 | `TypesOK`, `RoutesAreWalksEver`; `OrderlyDelivery`: frames stay on their path, nothing twice; `OrderlySendsEnd`: all accepted messages arrive, no node is busy for ever, with full tables too |
| `DsrAnswer` | line of 3, both ends send | — | **violated**: an entry without a path (section 8) |
| `FragAnyUse` | 2 senders, one orderly (two messages of 3 fragments) and one not, 2 slots, 3 ids | 1 050 000 | `TypeOK`, `AllOfOne`, `Intact` |
| `Spreading` | the parts below | 217 000 | `TypesOK`; `HandedOnce`; `ParentsLeadHome`; `SearchesMakeTrees`; `NeighborsKnown`; `AllReached`; `AllEnd`; `NeighborsSettle` |
| `DdfsLeaf` | a tree with leaves | — | **violated**: a leaf returns the search twice (section 8) |
| `LowpanStuck` | one neighbour, whose radio refuses a fragment | — | **violated**: a packet that is never given up (section 8) |

The parts of `Radios`:

| Part | Instance | Properties |
|---|---|---|
| "connections" | one sender, two destinations, a node that broadcasts; room for one connection, one pending message, one number | `AckMeansHeard`, `AgainOnlyIfOvertaken`, `PendingEnds` (in `AllSettled`) |
| "buffers" | `ReliableRadio`, `TimelySpec`, two senders with the same ids, buffers of 1 | `DroppedOnlyIfHeard`, `DeliverySpec` |
| "stack" | two neighbours with equal tags, five packets of 1 or 2 fragments, pool of 2, one route, one packet of its own | `OneOwner`, `Intact` (in `PacketsIntact`), `PoolFrees` (in `AllSettled`) |
| "packing" | two senders, buffer of 5, seven messages, one of them empty, one to all; with and without timers | `PackedOnce`, `AllUnpacked` (in `PacketsIntact`), `AllSent` (in `AllSettled`) |
| "service", first setup of `ThreeServices` | CoAP, a asks c confirmably and c asks a not, long lists, timers not early, one frame lost or repeated, one retransmission | `CallSpec`, `Answered` (in `AllSettled`) |
| second setup | the same with equal ids, any timing, room for one message sent | `CallSpec` |
| third setup | two nodes ask c, room for one sent and two received: c may forget | `CallSpec` |

The parts of `Spreading`:

| Part | Instance | Properties |
|---|---|---|
| "flooding" | line of 3, two sources, one starts again, table of 2; paced, and in a hurry | `HandedOnce`, `FloodsEnd`, `ReachesAll` |
| "tree" | triangle, two queries, two sources of results | `NoCircle`, `ResultsAscend`, `LastQueryReachesAll`, `ResultsArrive` |
| "depth first", "breadth first" | four networks of 4 nodes | `OneSearch`, `DepthFirstTree`; `LevelIsDistance`, `FinishedTree`; `Finishes` |
| "neighbors" | three setups, room for one neighbor: two nodes and a third that is only heard, one switched off and on; the two with beacons lost; a circle of one-way links | `EventsTell`, `BidiBothWays`, `SilentDropped`, and of the first `NeighborsFound` |
| "clusters" | line of 4 with a head at each end | `OneFarther`, `NoCircle`, `BranchesTrue`, `ClustersForm` |
| "collecting" | three trees of 4 nodes, two convergecasts | `CountedOnce`, `EndsAtRoot` |

Why the bounds are enough for what the runs ask:

* *Networks.* A parent cycle or a routing loop through stale information needs two
  neighbours and one node whose distance they disagree on, so three nodes in a triangle,
  and data that turns back one more hop (four in `DsdvUses`). `NeverTooClose` needs a
  choice between a long and a short way (`Chord`), `Converges` a node whose first
  route is not the best (the one-way link) and a depth of several hops (the line). A depth first
  search can go wrong at a node reached twice (square, diagonal), or when one branch ends
  (triangle, tree). Two heads that compete need two nodes between them.
* *Counters.* `INF` 4 with three or four nodes lets counts reach the limit through nodes at
  distance 2 and 3 under churn; `HopMod` 4 is the smallest with room for the three
  hops of `HopsBounded`: one more wraps; in the clusters `HopMod` 2 wraps at the second hop.
  `TimeMod` 7, `SeqMod` 3, `TagMod` 4 wrap within the run. The proofs lift the first two to every value.
* *Tables and buffers.* Two entries where three destinations compete (`DsdvUses`,
  `DsrUses`), a buffer, window or connection of one with two or three that want it, one or two replies for two or
  three messages, two packets in the pool (`IP_PACKET_POOL_SIZE` is 2): each limit is met and passed.
* *Repetitions.* Where `air` keeps every frame, any number of copies, at any time, is
  included; only the number of messages is bounded (`MaxSeq`, `MaxSends`, `MaxSent`): enough for
  one message to be confused with an earlier one and, in `RadioAnyUse`, for the entry of the
  first to be reused by the third.
* *Fragments.* Three fragments allow one to be missing in the middle and both orders of the rest; two
  slots, both filled by the same message after a timeout, are the ghost copies of the loop
  without a break; three ids let three messages collide or not, up to
  symmetry (ids are only compared).
* *CoAP.* One fault is enough for a lost request, answer or acknowledgement, or a copy of any; with one
  retransmission the copy, the original and an answer to either meet.

The networks may stop when every frame has been handled and no one sends, and
fragment and reply flows are bounded, so deadlock is checked only in `TreeAnyUse`, where a
step is always possible.

Every property is also run against a slip in the code it speaks of (the operators marked
*Slip* in the modules: an increment left out, an own id not skipped, a reply compared with
its counter, a full vector that grows, ...), and is violated; a property that joins several parts, against one for most of its parts.

## 6. Fairness

No fairness is assumed for any safety property, refinement or theorem. The liveness
properties use the weakest that the code's scheduling gives:

* **Timers** (`WF` of `TimerElapsed`, `Daemon`, `TimePasses`, `OnTime`, `Timeout`, `SearchForARoute`,
  `RoutingPolling`): every handler of a periodic timer arms it
  again (`tree_routing.h:418`, `dsdv_routing.h:338`, `reliable_radio.h:422`, `packing_radio.h:145`), and the others are armed with
  what waits for them, so it fires.
* **Booting** (`WF(Enable)`): the start routine of an application calls `init()`. `LossSpec`
  does not assume it.
* **The radio**, tree and DSDV (`HearCurrent`): an announcement that its sender repeats for
  ever with every tick, because its content no longer changes, is heard in the end by
  a neighbour that would act on it. Anything that is sent only finitely often may be lost.
* **The radio**, DSR, the floods, the searches, clusters and convergecasts: what they send is sent once and never
  repeated, so no liveness
  holds over a lossy radio. `FairSpec` of `DsrRouting`, and `Fairness` of the others (`WF(Arriving)`, or `WF` of the next step), is a radio that loses
  nothing but delays and reorders, and a node that receives for ever while frames wait.
  Their safety properties hold whatever is lost.
* **CoAP** (`GoesOn`): timers fire, the application replies, and a frame that is not lost by one of the bounded faults
  arrives. `Answered` needs `setup.timely` besides, since a request that times out too early is given up.
* **Echo** (`GoesOn`): time goes by, timers fire. Dropping silent nodes needs no more; to find a neighbor a radio that
  loses nothing (`~setup.lossy`).
* **Data** (`NoDataLost`): a hypothesis inside `DataReachesGateway` and `DataArrives`, not a
  part of the specification: data frames are not repeated by the code, so a lost one
  is lost. The properties say that nothing else stops data.
* **The radio layers** (`ReliableRadio`, `ConnectionRadio`, `PackingRadio`) and the stack assume only their own timers: nothing of the radio below or of the
  application.

## 7. Proofs

| Module | Theorems | Assumes, besides the ASSUME of the module |
|---|---|---|
| `TreeRoutingProofs` | `TypeCorrect`, `NoLoops`, `DataAlwaysDescends`, `ImplementsGradientTree` (of `Spec`), `NeverTooCloseUnderChurn` (of `ChurnSpec`) | nothing; `Node` may be infinite |
| `DsdvRoutingProofs` | `TypeCorrect`, `NoRoutingLoops`, `DataAlwaysDescends`, `HopsNeverWrap`, `RoutesAreTrees` (of `Spec`) | at most `HopMod` nodes |
| `DsrRoutingProofs` | `TypeCorrect`, `PathsAreWalks` (of `ChurnSpec`) | nothing |
| | `KeepsToPath`, `GivenOnce` (of `Spec`) | `Orderly`: tables and paths have room for every node, the radio repeats nothing, no node that sends is sent to |
| `DsrUsesProofs` | `UsesTypeCorrect`, `UsesPathsAreWalks`; `OrderlyUse` (of `UseSpec`, as the run has it) | the last: `Orderly` |
| `FragmentingRadioProofs` | `TypeCorrect`, `OneMessageWhole`, `OrderlyIntact` (of `Spec`) | nothing |
| `ConnectionRadioProofs` | `TypeCorrect`, `AcknowledgedIsHeard`, `AgainIfOvertaken` (of `Spec`) | `ConnectionAssumption`, stated in the theorems |
| `ReliableRadioProofs` | `TypeCorrect`, `NoSilentRepeat` (of `Spec`), `CopiesWereHeard`, `DeliversOrReports` (of `TimelySpec`) | nothing |
| | `RadiosTypeCorrect` (all its parts), `RadiosAckMeansHeard`, `RadiosAgainOnlyIfOvertaken`, `RadiosDeliver`, `RadiosOneOwner` (of `PartSpec` of `MCRadios`, as the run has it) | nothing |
| | `RadiosPacketsIntact` (of the same) | `TagsDiffer`: no neighbour of the stack sends more packets than there are tags |
| | `RadiosCalls` (of the same; `CallSpec`) | `OnePartner`: a node that asks speaks to one other, and a node replies only in the callback unless its list of received messages is as long as the run |
| `SpreadingProofs` | `TypeCorrect` (all its parts), `FloodsHandedOnce`, `SearchesDoMakeTrees` (depth first, breadth first, convergecast), `ClustersAreTrees`, `NeighborsAreKnown` (of `Spec` of `MCSpreading`, as the run has it) | nothing |
| | `ParentsDoLeadHome` (of the same) | `TwoWay`: the links of the clusters are two-way |

They hold for any set of nodes, any links and flows, any sizes of tables, buffers, paths, windows and fragments, any
number of retries, and the true widths of the counters. Where a run puts several uses or parts side by
side, the theorem about the component is used through an instance of its proof module, and
the theorem about the run follows since the other parts leave its variables alone. Each follows from an
inductive invariant:

**Tree.** `NoParentCycle` is not inductive: whether a new parent closes a cycle depends on the
frames that may still arrive. `IInv` adds: what is in the air is never better than its
sender has become (`Honest`: counts only fall while the network runs), a parent is a member with a smaller
count unless it is the node itself (`Descending`), an orphan is at `INF` (`Orphans`), a node
that has not started has sent nothing (`Silent`), and `DataDescends`. A frame that
is adopted then leads to a node whose count is below the new one. `NoLoops` follows by taking
the node of a closed set with the smallest count (natural numbers are well-founded, the
set need not be finite). `ImplementsGradientTree`
maps every action to `Start`, `Join` or a stutter and uses `Honest` for the guard of `Join`.
Under churn counts rise again and `Honest` is false; what survives is that no potential is
undercut. `ChurnInv` says so of tables and frames (`Truthful`) together with who may be a
root (`Roles`).

**DSDV.** `RoutesLeadHome` rests on the same idea per destination (`Honest`), and on a full table
never replacing an entry, only refusing one. That counts do not wrap needs an argument
that spans nodes: a count of h towards d, in a table or in the air, is *carried* by h nodes other than its
owner, each d itself or with fewer hops to d (`Carried`, `TablesCarried`, `FramesCarried`);
so h is below the number of nodes, which is at most `HopMod`. The type invariant depends on it, which is why all five theorems have the
assumption: with 257 nodes in a line the counts do wrap. For `RoutesAreTrees` a booting node
starts as the root of its own tree and alone in the others (`EnableStarts`); a reception is `Join` for each destination
taken over, since by `Honest` the sender is closer now than the count it sent, and a stutter for the
others (`GainJoins`). A direct neighbour that is heard again stays one: a count of 1 leads to the destination itself.

**Source routing.** Two invariants. For any use, `IInv`: what is in a table, in a message
that waits and in a frame is well formed (`GoodTable`, `GoodMessage`, `GoodFrame`), that is a walk over
links from the node it begins with up to its index, as long as the vector has not cut it
off; no frame says more. For orderly use, `OInv`: the nodes that a
request has passed have noted its number and differ (`Noted`), so that its path is shorter than the number of nodes and is
never cut off; and the destination has noted the request too, or its source is still waiting
and no reply to it exists (`Sought`). So there is one reply for a busy source, it
goes back on the path by its index (`Indexed`), and a message is under way once or delivered once, not both
(`DataOnce`, `Begun`). Without the room one number forgotten is enough for a second reply, and a
repeated frame is delivered twice: the assumption is what the property needs, and the run
shows "full" and "churn" without it.

**Fragmenting radio.** What is handed up comes out of a slot, so the invariant is about slots
and what is under way: every frame is a part of a message that was sent, with the number of parts it has
(`Genuine`, `LinksGenuine`), a slot holds parts for its node, of its id, and none
twice (`Collected`). A slot that is complete by the count of its last part then holds
every number once (a pigeonhole argument: `AllNumbers`), and parts of one message if its id is its own.
On an orderly flow the parts under way ascend (`LinksAscend`), those in a slot ascend (`SlotsAscend`),
and whatever of a message has come, to any slot or callback, is before what is still to come
(`Past`); so no part comes twice, and the parts of a complete slot are in order
(ascending numbers below the total are all of them: `Ascending`).

**Connection radio.** A number in an acknowledgement or in a window must stand for one message. `NumbersUnique`
says when it does: within a connection numbers are below the next one and differ (`Counted`, `Apart`); without one,
because the map is full, every message goes out as number 1 and is marked (`Unconnected`).
`AcksTrue` and `WindowsTrue` then say that a number in either is of a message given to the
receivers. That a message is given again only if as many others came in
between needs the order of the window: it names the messages given last, each forgotten one was followed by
all it still knows, each known one by those after it (`WindowsLatest`, `Followed`), and a full window of different
numbers is that many messages (`NotEarly`). The bound `MaxSends <= SeqMod` is part of the assumption: after
2^16 messages a number is used again, and nothing tells the two apart.

**Reliable radio.** `AtMostOnce` alone does not say why a copy is recognised. `IInv` adds that every
message heard is either answered by an entry in the buffer or was forgotten (`Accounted`), and that the buffers are
finite sets (`Finite`), for their sizes to be counted. For the refinement, `TInv` adds what ties the two nodes
together: a receiver listens only when a callback is registered (`InTime`), ids in frames
are below the counter of their sender and unique (`FramesNumbered`, `IdsUnique`),
an entry has its frame in the air (`EntriesSent`), an entry and a frame of a reply stand for a
message heard (`RepliesHeard`, `RepliesTrue`). `DeliversOrReports` maps `Send` to
`Accept`, `ReceiveMessage` to `Hear`, `ReceiveReply` to `Confirm` or a stutter,
and a run of the daemon to `GiveUp` of the messages it exhausts.

**Packing radio.** `PInv`: a list, in a buffer or in a frame, holds successive messages, none of which ends behind the last
(`GoodList`), all for the receiver it goes to (`GoesTo`); the list in the buffer ends with the message handed over last
(`Buffers`). So appending the next keeps a list good (`AppendGood`), and `next()` reads a good list to its end (`UnpacksAll`). Every
message is in the buffer or in a frame (`Covered`), and in one list only (`Once`).

**The stack.** `Owned` counts the owners of each place of the pool: the manager, or a call that is under way, and the timers
of the routing. Every call that ends a packet or lets it wait keeps that (`SendOnEffect`, `ReceivedEffect`): so a timer
finds its own packet, and whatever the tags are, `OneOwner` holds. That what goes on is whole needs to know what a
full count means: the manager counts the units of the fragments it takes and compares with the size of the packet. With tags that differ,
all it has collected is of one packet, the one that sender and tag stand for (`Collects`), and each fragment brings
units that no other brings (`Apart`, `OneMore`); so when the units counted are as many as the packet has, every fragment
is there (`AllBrought`). With `SendFails` a tag is used twice and this is false: the proof is for radios that take every frame,
as is the run.

**Floods.** A node remembers one number per source, so what must be shown is that no copy of a message it
has handed up can beat that number (`AllSettled`). That needs: all copies of a message have one number (`OneNumber`), bodies
in the air or heard have been sent (`BodiesSent`), so that the next one is new to everybody; and a source of
which something was heard is unknown only where the table is full, which it then stays (`HeardKnown`). If sources are
paced, all copies in the air of a source are of its last message (`LastOnly`), and the number known is
just theirs, so that a number 0 is never taken for a new start either; in a hurry it may be, and
`rolledBack` says of whom.

**A flooding sink.** A query that a node other than the sink passed on is no later than
that node (`QueriesTrue`), since numbers of such nodes only grow; so a node is no later than its parent (`NoLater`). Two nodes may have the same
number, so this alone rules no circle out. But when a node takes a query, those that have it as parent were no later than it was,
hence are earlier than the query, while everybody on the way from the sender would be as late as the query: in a
new circle those as late as the query, without the node itself, would have been one before. The sink is left out: its own number
wraps, and it may even take an old query of its own; results end there all the same.

**Neighbors.** `EInv` says of each node who is in its neighborhood (`AreHeard`), what its last beacon names
(`BeaconTrue`: only whom it hears; so a beacon that names its receiver is proof of the other direction, however old it
is), that events and levels agree (`Tells`), and that once a timer of the round has fired nobody is older than the timeout
(`Swept`), which is what bounds the age.

**Clusters.** Hops wrap at one byte, so no count rules a circle out. What does: a node
sets `SID_`, `parent_` and `hops_` once, so a JOIN on its way still says of its sender what is
true of it (`JoinsTrue`), and its sender has joined; and who joins has not asked anybody yet (`Unasked`), so
nobody's parent is a node that has not joined, and a new link leads from a node outside
every chain of parents into the tree. A set of joined nodes closed under parents would need a node of it to have joined
last. That is `CInv`, with `OneFarther` and `NoCircle`. For `BranchesTrue`, `Under(n)` is stated without recursion, as
the nodes in every set that has n in it and takes in whose parent it has: so `Leads` is transitive and only
grows (`BranchesGrow`), nobody leads to a node but through its parent (`LeadsThrough`), and a parent does not lead to its
child (`ParentNotUnder`, from `NoCircle`), which is why a message about a member is never passed to that member. `BInv` adds that such messages
are true (`AcceptsTrue`), and that who joined has told its parent or is about to (`AllReported`): so a timer that
waited for the answers and saw none belongs to a node that has no child and, as no question of it is on the way, will
have none (`Done`). `AllReported` is where links must be two-way: an answer over a missing link is lost.

**Depth first.** The invariant says where the search is (`SRun`): at one node h, which has told its neighbours and waits
(`Halts`: for each neighbour flagged either the VISITED or its acknowledgement is on the way), or has sent it on to an undiscovered
neighbour (`Goes`), or is about to get it back from a child (`Comes`), or all is over (`IsOver`). In each case everything that
may be on the way is listed, so there is one search, and no second can start. `Up(P, n)` are n and its ancestors, again as
the nodes in all closed sets. The discovered nodes are a tree (`Grown`); those that are not
above h have no undiscovered neighbour any more, and of two neighbours one is above the other (`Joined`), which is the
depth first tree: a node that is discovered comes below h, and all its discovered neighbours are above h. A leaf would return
the search twice, which `Comes` excludes: `NoLeaf` enters where a node that is discovered is shown to have somebody to flag.
`unvisited` agrees with what was discovered but for nodes to which a VISITED is still on the way, and it is only read when
none is: the acknowledgements are what the proof needs at this place, too.

**Breadth first.** Neither levels, which wrap, nor frames say which round is running, so `WInv` has them as witnesses of an
existential formula: the number k of the wave, the depth h and a stage r of each node (a labeled node is before the wave, in it, after it, or at its
end for good), and the layers W. `BRun` then says whom a node in the wave waits for and what of it is on the way (`Expects`),
that every frame is awaited by its receiver (`Due`), and what has been labeled (`Covered`, `Placed`: depth h is layer h and not the
one before). `LevelIsDistance` is stated with the recursive function `Within`. Its value is a CHOOSE, so first a function
that satisfies the equation must be shown to exist, and to be the only one on the numbers:
both by taking the least number where it would fail (`WithinLayers`), which needs no induction theorem. When the wave does
not go on, the layers no longer grow; so depths stay below `LevelMod` where `Within[LevelMod - 1]` is closed, and the level is the depth.

**Convergecast.** In each convergecast a node is idle, asked, busy, has told its parent, or its result is there; the
frames on the way are those of the nodes asked and told, one each (`CastFrames`), and children are in step with their
parents (`DownInTurn`). What a node has collected are the true results of different children (`CollectedOf`), so when as many are in the buffer as it
has children, they are all (a pigeonhole argument), the branches of two children have no node in common (`BranchesApart`),
and the sum counts each node of its branch once (`CalculatedAll`).

**CoAP.** `KShape` is what holds in any use: pointers lead into the lists, timers belong to confirmable messages or to
requests. It gives the types. `KSays` is about what the messages say: who sends a request asks that of its receiver, a
response belongs to a request that was executed (`Truthful`, of lists, of frames: `FramesTrue`, of what was received: `GotTrue`);
numbers of different messages of a node differ (`NumbersDiffer`), a request is put into the list once (`AskedOnce`); what was executed or
answered is in the list of messages received (`ExecutedGot`, `AnswersGot`). With a list that is long enough nothing is forgotten, so a
copy is found and changes nothing, a request is answered once (`AnswersOnceSent`), and one that is still open has no answer (`OpenOnes`).
Where the list is short, a call may be executed again, and a response may come again and be handed up again: `RemoteCalls` allows
the first to a forgetful service and asks that an answer be that of its call all the same. A reset
carries the number of a response, so it never settles a request (`Refuses`). Each action is then `Execute`, `Answer` or a stutter of `RemoteCalls`.

`OnePartner` is what the code needs, and both halves of it: TLC finds `CallSpec` violated when either is dropped. A
place of a list is reused while a pointer to it is kept, and what goes out by that pointer goes to the new owner of the place.
(1) With room for one message sent, a node that is itself asked while its own request waits: the
place of the acknowledgement now has its request, and a copy of what it was asked sends that request to the node that asked, which executes it too. With one
partner it goes to the node it was for, which knows it already. (2) With room for one message received, a reply after the
callback answers whoever took the place. In the three setups of the run the hypothesis holds.

Only model-checked are the liveness properties, which depend on `ENABLED` and fairness, out of the provers' reach here:
`Converges` and `DataReachesGateway` of `TreeUses`, `Converges` and `DataArrives` of `DsdvUses`, `VerdictComes`, `AllSettled`,
`OrderlySendsEnd`, `AllReached`, `AllEnd`, `NeighborsSettle`. So are the four runs that end in a violation. Where a theorem has a hypothesis
that the run does not need (the last column), the rest of the property is only checked within the bounds of section 5.

## 8. Where code and comments disagree

Shown by a run:

* `TreeLoss`. `tree_routing.h:230-231` says of `work_period_` that a reconnection is started
  after it "if connection to tree got lost". `receive()` takes a new parent only for a
  smaller hop count, and nothing resets `parent_`: a node whose parent died keeps it.
* `DsrAnswer`. `dsr_routing_types.h:50` calls the member `path` "Path to destination".
  `update_seq_nr()` (`dsr_routing.h:490`) makes an entry with an empty path for the source
  of a request, and `send()` (275-279) takes any entry for a route: a node that was asked
  for a route cannot ask for one back, and sends to `path[1]`, memory never written.
* `DdfsLeaf`. `ddfs_graph.h:262` says of DISCOVER "I'm visited for the first time". A node
  whose only neighbour is the one that discovered it returns the search at once (274-281)
  and again when its VISITED is acknowledged (344-348); the parent sends the search on for
  each, so two run at the same time and discover nodes twice.
* `LowpanStuck`. `reassembling_manager.h:151-153` says a reassembly that is still there when its timer
  expires is cancelled. When a neighbour's radio refuses a fragment, `LoWPAN::send()` leaves
  without counting the tag up (`lowpan.h:981`, 1018), the next packet goes out under the
  same tag and is counted to the first; the count passes the datagram's size, after which
  neither completion nor `timeout()` (158) applies, and the node receives nothing more.

Met on the way, without a run of their own. The models keep to what the code does; where one of
these makes a promise fail, the promise is stated for the uses it holds for (sections 4, 5).

* **Tree routing.** A tree deeper than 254 hops is cut off there, although
  `tree_routing.h:145-146` says the whole network is covered.
* **Distance vector routing.** Never removes or ages a route; `doc/concepts/algorithm/routing.dox:22-24`
  says routes must be maintained and names DSDV. Learns routes over links that work one
  way only, from the side it hears: data sent on them is lost in the radio. `DataArrives`
  is therefore about a flow whose nodes hear each other, next to such a link.
* **Source routing.** `dsr_routing_types.h:52` calls `seq_nr` the number of the last request;
  the own number is stored under the destination (`dsr_routing.h:411`), whose first
  requests then look old.
* **Reliable radio.** `reliable_radio_default_values_config.h:4-5` asks for a reply buffer (retries + 1)
  times the message buffer. That fits one sender; with several the entries of one are
  reused for another, which is what `forgotten` in `AtMostOnce` is about.
* **Fragmenting radio.** A payload that is a multiple of the fragment size, or needs more
  than `FR_MAX_FRAGMENTS`, is never complete at the receiver; fragments are joined in the
  order they came, so `Intact` is stated for orderly flows only; slots go by the id alone,
  so all properties are for messages whose id is their own; a copied slot can hand a
  message up once more when frames are repeated, so that being handed up once too is for
  orderly flows.
* **Connection-based reliable radio** (`reliableradio.h`). Messages stamped in the last
  three units before the 16-bit clock wraps are never sent again (317). When the sequence
  number wraps to 0, `send()` reports success and sends nothing; the same when
  the list of pending messages is full. The full map of connections is asserted only after the
  receivers were told (552). The buffer for `set_ack_list` is half its size.
  `disable_radio()` unregisters with an id never written (172).
* **Flooding over a neighbor discovery.** The number of a query has 8 bits and only a greater
  one is taken; the condition that would let a wrapped number through is commented out
  (`flooding_nd.h:187`): after 255 queries no query is heard any more.
* **Searches.** A root without neighbours never finishes. One lost message ends a search
  for good (`ddfs_graph.h:346`, `dbfs_graph.h:376`): nothing is sent again.
* **Packing radio.** `next()` reads the byte behind a frame (`message_packer.h:86` does not
  exclude a position equal to the size) and discards what it makes of it. `timer_set_` is
  never used and `current_receiver_` never initialised; without the timer nothing flushes
  by itself.
* **Convergecast.** The root's `buffer_` is never cleared: a second `startConvergecast` on the
  same root never finishes or, when it overlaps the first, counts a child twice, although
  `doc/concepts/algorithm/convergecast/ccast.dox:88-89` says it "starts a new convergecast". A root without
  children, and any node with more than 16, never finishes. One lost frame ends it. Results are
  added in 16 bits.
* **6LoWPAN.** The test of `previous_frag_sender_` is inverted and `previous_*` are saved one packet
  late (`reassembling_manager.h:85-100`). Packets for routes that do not fit
  the table any more are polled for ever (`simple_queryable_routing.h:480`). The hop limit
  is never counted down.
* **CoAP.** Messages are found by peer and id alone (`coap_service_static.h:815`), so when both
  ends use the same id an acknowledgement is taken for a copy of a request, the response is sent again,
  and so on for ever. A deferred `reply()` (doc 480-488) to a reference whose place was reused
  answers another request. Storing the acknowledgement of a confirmable response may push
  the request out of a full `sent_` (1198-1210). A reset does not stop retransmission, and the
  application is not told that a request ran out of retries.
* **Echo.** Entries are never removed: after `ECHO_MAX_NODES` distinct nodes a dropped
  neighbor never returns (`echo.h:1006`, 1026-1033). `disable()` and `enable()` clear the table
  without telling anyone (298-301) and start a second chain of beacons. The loss
  of a bidirectional neighbor is not told as `LOST_NB_BIDI` when the neighbor is dropped (1157). A
  timeout as short as the beacon period makes neighbors come and go (default 9 : 1).
* **Tree and DSDV over a neighbor discovery** (not modelled). `tree_routing_ndis.h` says it
  "automatically readjusts to node failures", but a node that lost its parent may take its
  own child for one, and the circle stays; a parent never seen bidirectionally is
  kept for ever. The DSDV variant erases entries of the table it iterates over.
* **Clustering** (`bfsclustering.h`). Enabled again while a JOIN of its own child is still under way,
  a head can close a circle; a node that is no head and was enabled again has the broadcast address for a parent. A timer
  that is early makes CLUSTER_FORMED be told before a branch is finished. Ids travel as
  16 bits. `non_cluster_neighbhors_` is never written; `hops` is the depth in the tree of
  joins, not the distance.

## 9. What is not covered

Within the components that are modelled:

* Failing and restarting nodes in `DsdvRouting` and `ReliableRadio`: a sender that restarts
  numbers from 0 and its messages are taken for copies (`reliable_radio.h:51`), and no
  route ages (`dsdv_routing.h:430`). No code handles either.
* Callbacks that call back into the reliable radio from inside the loop of `daemon()` (403).
* Lost messages in `DdfsGraph` and `DbfsGraph`, where every search then stops.
* `LowpanStack`: routing below IP (Mesh Under), ICMPv6, the UART, extension headers, opening and closing of
  sockets. `CoapService`: a deferred reply while the list of received messages overflows, and a node that asks while it speaks to
  several others with short lists (the promise fails there: section 7); parse errors and
  their responses, the table of resources and its discovery, empty confirmable messages, a
  radio that refuses frames, observing; and that answers come at all when both ends use equal ids.
* `Echo` with a table that is full for good; the payloads of registered applications.
* The layout of frames, among them `buffer_size()` of `dsr_routing_msg.h:146`, which
  leaves out a byte, and `fragmenting_message.h:163`.
* Real time: periods, timeouts and delays are arbitrary but for the assumptions named in
  section 3. A property like "delivered within" cannot be stated.
* `MessagesArrive` of `DsrRouting` is for one node sending: with both ends sending it fails as
  `DsrAnswer` shows.

And the components of the second table in section 1. The library is very large, and most of it is
outside what a model of states and steps can say something about: variants of one protocol
that differ in few lines, numerical code (localization, tracking, signal processing), glue
to operating systems that are not in the repository, parsers and tables of constants. The
models cover the layers that the rest is built on and one representative of each kind of
protocol; the share of lines they map is small for that reason.
