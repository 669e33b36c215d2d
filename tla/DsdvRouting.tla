----------------------------- MODULE DsdvRouting -----------------------------
(***************************************************************************)
(* Distance-vector routing                                                 *)
(* (wiselib.stable/algorithms/routing/dsdv/dsdv_routing.h) over its        *)
(* fixed-size table (internal_interface/routing_table/                     *)
(* routing_table_static_array.h).  A node broadcasts its table from time   *)
(* to time; a receiver takes the sender as a neighbour and whatever it     *)
(* does not know or knows to be further away.  Routes are never removed.   *)
(*                                                                         *)
(* As in TreeRouting a handler is one step and `air' holds every frame     *)
(* ever sent: frames may be lost, delayed, reordered and duplicated.       *)
(***************************************************************************)
EXTENDS Integers, FiniteSets

CONSTANTS Node,
          Null,        \* Radio::NULL_NODE_ID
          Link,        \* pairs <<a, b>>: b is in communication range of a
          HopMod,      \* 2^8: hops is a uint8_t
          TableSize,   \* TABLE_SIZE of StaticArrayRoutingTable
          MaxEntries,  \* BroadcastMessage::MAX_ENTRIES
          Flow         \* pairs <<s, d>>: the application of s sends to d

ASSUME DsdvAssumption == /\ IsFiniteSet(Node)
                         /\ Null \notin Node
                         /\ Link \subseteq Node \X Node
                         /\ HopMod \in Nat /\ HopMod >= 2
                         /\ TableSize \in Nat
                         /\ MaxEntries \in Nat \ {0}
                         /\ Flow \subseteq Node \X Node

VARIABLES next,      \* next[n][d]: next_hop of the entry for d, Null if none
          hops,      \* hops[n][d]: its hop count
          up,        \* receive registered and the timer armed
          air,       \* every frame sent so far
          delivered  \* sources whose data a node has handed to its receivers

vars == <<next, hops, up, air, delivered>>

Known(n) == {d \in Node : next[n][d] # Null}

(***************************************************************************)
(* DsdvBroadcastMessage with the entries of D.  Of an entry the receiver   *)
(* reads the destination and the hop count, not the next hop.              *)
(***************************************************************************)
Broadcast(n, D) ==
  [type |-> "broadcast", from |-> n, adv |-> [d \in D |-> hops[n][d]]]

(***************************************************************************)
(* DsdvRoutingMessage as n passes it on.  `hops' is not in the frame: it   *)
(* remembers what n knew of the way to dst, for the properties.            *)
(***************************************************************************)
\* Slip: the table is asked for the source instead of the destination.
DataFrameToSource(n, s, d) ==
  [type |-> "routing", from |-> n, to |-> next[n][s], src |-> s, dst |-> d,
   hops |-> hops[n][d]]

DataFrame(n, s, d) ==
  [type |-> "routing", from |-> n, to |-> next[n][d], src |-> s, dst |-> d,
   hops |-> hops[n][d]]

Broadcasts == {f \in air : f.type = "broadcast"}
DataFrames == {f \in air : f.type = "routing"}

NoRoutes == /\ next = [n \in Node |-> [d \in Node |-> Null]]
            /\ hops = [n \in Node |-> [d \in Node |-> 0]]

Init == /\ NoRoutes
        /\ up = [n \in Node |-> FALSE]
        /\ air = {}
        /\ delivered = [n \in Node |-> {}]

ClearTable(n) == /\ next' = [next EXCEPT ![n] = [d \in Node |-> Null]]
                 /\ hops' = [hops EXCEPT ![n] = [d \in Node |-> 0]]

(***************************************************************************)
(* init(): the table is cleared, then enable_radio().                      *)
(***************************************************************************)
InitRouting(n) == /\ ClearTable(n)
                  /\ up' = [up EXCEPT ![n] = TRUE]
                  /\ UNCHANGED <<air, delivered>>

Enable(n) == ~up[n] /\ InitRouting(n)

(***************************************************************************)
(* send(): ERR_HOSTUNREACH without an entry for d.                         *)
(***************************************************************************)
Send(n, d) == /\ d \in Known(n)
              /\ air' = air \cup {DataFrame(n, n, d)}
              /\ UNCHANGED <<next, hops, up, delivered>>

(***************************************************************************)
(* timer_elapsed(): the table goes out in frames of MaxEntries entries,    *)
(* the last one taking the rest; an empty table as one empty frame.  The   *)
(* order of the entries is abstracted from.                                *)
(***************************************************************************)
Chunks(S) ==
  IF S = {} THEN {{{}}}
  ELSE {P \in SUBSET (SUBSET S \ {{}}) :
          /\ UNION P = S
          /\ \A x, y \in P : x # y => x \cap y = {}
          /\ \A x \in P : Cardinality(x) <= MaxEntries
          /\ Cardinality({x \in P : Cardinality(x) < MaxEntries}) <= 1}

TimerElapsed(n) ==
  /\ up[n]
  /\ \E P \in Chunks(Known(n)) : air' = air \cup {Broadcast(n, D) : D \in P}
  /\ UNCHANGED <<next, hops, up, delivered>>

(***************************************************************************)
(* receive() of a broadcast.  operator[] of the table makes an entry while *)
(* there is room and hands out a dummy otherwise, so `neighbour' may be    *)
(* empty and `new' is as many of the unknown destinations as fit.          *)
(***************************************************************************)
SomeOf(S, k) ==
  {A \in SUBSET S : Cardinality(A) = IF Cardinality(S) < k THEN Cardinality(S) ELSE k}

\* Slips the checks must catch: the last offer heard wins; the hop to the sender
\* is left out; the own id is taken like any other.
NearerAlways(n, f, d) == TRUE

Nearer(n, f, d) == hops[n][d] > f.adv[d] + 1

AdoptSameHops(n, f, neighbour, others) ==
  /\ next' = [next EXCEPT ![n] =
                [d \in Node |-> IF d \in neighbour \cup others THEN f.from ELSE @[d]]]
  /\ hops' = [hops EXCEPT ![n] =
                [d \in Node |-> IF d \in neighbour THEN 1
                                ELSE IF d \in others THEN f.adv[d] ELSE @[d]]]

OfferedWithSelf(n, f) == DOMAIN f.adv \ {f.from}

Offered(n, f) == DOMAIN f.adv \ {n, f.from}

Adopt(n, f, neighbour, others) ==
  /\ next' = [next EXCEPT ![n] =
                [d \in Node |-> IF d \in neighbour \cup others THEN f.from ELSE @[d]]]
  /\ hops' = [hops EXCEPT ![n] =
                [d \in Node |-> IF d \in neighbour THEN 1
                                ELSE IF d \in others THEN (f.adv[d] + 1) % HopMod
                                ELSE @[d]]]

ReceiveBroadcast(n, f) ==
  /\ up[n]
  /\ f.from # n
  /\ <<f.from, n>> \in Link
  /\ LET room      == TableSize - Cardinality(Known(n))
         neighbour == IF f.from \in Known(n) \/ room > 0 THEN {f.from} ELSE {}
         table     == Known(n) \cup neighbour
     IN \E new \in SomeOf(Offered(n, f) \ table, TableSize - Cardinality(table)) :
          Adopt(n, f, neighbour,
                new \cup {d \in Offered(n, f) \cap Known(n) : Nearer(n, f, d)})
  /\ UNCHANGED <<up, air, delivered>>

(***************************************************************************)
(* receive() of a routing message: hand it over, forward it, or drop it.   *)
(***************************************************************************)
Accepts(n, f) == /\ up[n]
                 /\ f.from # n
                 /\ f.to = n
                 /\ <<f.from, n>> \in Link

DeliverData(n, f) ==
  /\ Accepts(n, f)
  /\ f.dst = n
  /\ delivered' = [delivered EXCEPT ![n] = @ \cup {f.src}]
  /\ UNCHANGED <<next, hops, up, air>>

ForwardData(n, f) ==
  /\ Accepts(n, f)
  /\ f.dst # n
  /\ f.dst \in Known(n)
  /\ air' = air \cup {DataFrame(n, f.src, f.dst)}
  /\ UNCHANGED <<next, hops, up, delivered>>

Operate(n) == \/ Enable(n)
              \/ TimerElapsed(n)
              \/ \E f \in Broadcasts : ReceiveBroadcast(n, f)
              \/ \E f \in DataFrames : DeliverData(n, f) \/ ForwardData(n, f)
              \/ \E d \in Node : <<n, d>> \in Flow /\ Send(n, d)

(***************************************************************************)
(* init() is called once per node.                                         *)
(***************************************************************************)
Next == \E n \in Node : Operate(n)

Spec == Init /\ [][Next]_vars

(***************************************************************************)
(* Fairness: nodes boot, timers fire, and a broadcast that is repeated for *)
(* ever because the table of its sender no longer changes is heard.        *)
(***************************************************************************)
HearCurrent(n, p) ==
  \E f \in Broadcasts : f = Broadcast(p, DOMAIN f.adv) /\ ReceiveBroadcast(n, f)

Fairness == /\ \A n \in Node : WF_vars(TimerElapsed(n))
            /\ \A n, p \in Node : WF_vars(HearCurrent(n, p))

FairSpec == Spec /\ Fairness /\ \A n \in Node : WF_vars(Enable(n))

HandleFrom(n, p) ==
  \E f \in DataFrames : f.from = p /\ (DeliverData(n, f) \/ ForwardData(n, f))

NoDataLost == \A n, p \in Node : WF_vars(HandleFrom(n, p))
------------------------------------------------------------------------------
(***************************************************************************)
(* Type invariant of the table and the frames (dsdv_routing_types.h:33-53, *)
(* dsdv_broadcast_message.h, routing_table_static_array.h:71-90): the      *)
(* table never outgrows TABLE_SIZE and never holds an entry for its owner. *)
(***************************************************************************)
Hop == 0..(HopMod - 1)

BroadcastFrame == [type : {"broadcast"}, from : Node,
                   adv : UNION {[D -> Hop] : D \in SUBSET Node}]
RoutingFrame == [type : {"routing"}, from : Node, to : Node, src : Node,
                 dst : Node, hops : Hop]

TableFits ==
  \A n \in Node : Cardinality(Known(n)) <= TableSize /\ n \notin Known(n)

TypeOK == /\ next \in [Node -> [Node -> Node \cup {Null}]]
          /\ hops \in [Node -> [Node -> Hop]]
          /\ up \in [Node -> BOOLEAN]
          /\ air \subseteq BroadcastFrame \cup RoutingFrame
          /\ delivered \in [Node -> SUBSET Node]
          /\ TableFits

(***************************************************************************)
(* Routes lead home: the next hop of every entry is its destination, or    *)
(* has an entry for it that is strictly closer, also when tables are full  *)
(* and broadcasts arrive late or in any order (dsdv_routing.h:342-441).    *)
(* So following the tables never loops and never ends in a node that would *)
(* drop the message.                                                       *)
(***************************************************************************)
Downhill(m, d, h) == m = d \/ (d \in Known(m) /\ hops[m][d] < h)

RoutesLeadHome ==
  \A n \in Node : \A d \in Known(n) : Downhill(next[n][d], d, hops[n][d])

(***************************************************************************)
(* The same for messages under way, which may meet tables that changed     *)
(* since they were sent (dsdv_routing.h:352-391).                          *)
(***************************************************************************)
DataDescends == \A f \in DataFrames : Downhill(f.to, f.dst, f.hops)

(***************************************************************************)
(* The uint8_t hop count never wraps: hops + 1 fits when an entry is made  *)
(* (dsdv_routing.h:396-441): a count of h takes h nodes besides the owner, *)
(* whatever the delays, so 256 nodes are safe.                             *)
(***************************************************************************)
HopsBounded == \A f \in Broadcasts : \A d \in DOMAIN f.adv :
                 f.adv[d] \in 1..(Cardinality(Node) - 1)

(***************************************************************************)
(* For each destination the protocol builds a GradientTree rooted there:   *)
(* who takes a route over a neighbour, or changes to another, does so to   *)
(* be strictly farther than that neighbour is now, whatever was late, and  *)
(* strictly closer than before (dsdv_routing.h:396-441).                   *)
(***************************************************************************)
Parents(d) == [n \in Node |-> IF n = d /\ up[d] THEN d ELSE next[n][d]]
Levels(d) == [n \in Node |-> IF n = d \/ ~up[n] THEN 0
                             ELSE IF next[n][d] = Null THEN HopMod
                             ELSE hops[n][d]]
TreeTo(d) == INSTANCE GradientTree
               WITH INF <- HopMod, started <- up, parent <- Parents(d),
                    level <- Levels(d)
TreesInit == \A d \in Node : TreeTo(d)!Init
TreesStep == \A d \in Node : UNCHANGED TreeTo(d)!treeVars \/ TreeTo(d)!Next

RoutesMakeTrees == TreesInit /\ [][TreesStep]_vars
==============================================================================
