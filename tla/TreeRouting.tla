----------------------------- MODULE TreeRouting -----------------------------
(***************************************************************************)
(* Tree routing (wiselib.stable/algorithms/routing/tree/tree_routing.h).   *)
(* A gateway announces hop count 0; every node that hears an announcement  *)
(* better than what it has adopts the sender as its parent and announces   *)
(* its own count.  Application data travels from parent to parent until a  *)
(* gateway takes it.                                                       *)
(*                                                                         *)
(* A handler (radio callback, timer callback, method of the class) runs to *)
(* completion on its node, so each one is a single step.  The concurrency  *)
(* is between the nodes and the frames in the air: `air' holds every frame *)
(* ever sent, and a receiver may take any of them, at any time, any number *)
(* of times or never, which covers delay, reordering, duplication, loss.   *)
(*                                                                         *)
(* INF stands for the initial hop count 0xff of a node without a parent,   *)
(* the largest value of the uint8_t hops_.                                 *)
(***************************************************************************)
EXTENDS Integers

CONSTANTS Node,      \* the sensor nodes
          Null,      \* Radio::NULL_NODE_ID
          Link,      \* pairs <<a, b>>: b is in communication range of a
          INF,       \* 0xff
          Source     \* the nodes whose application calls send()

ASSUME TreeAssumption == /\ Null \notin Node
                         /\ INF \in Nat \ {0}
                         /\ Link \subseteq Node \X Node
                         /\ Source \subseteq Node

VARIABLES state,     \* state_
          parent,    \* parent_
          hops,      \* hops_
          up,        \* receive registered at the radio and the timer armed
          air,       \* every frame sent so far
          delivered  \* sources whose data a node has handed to its receivers

vars == <<state, parent, hops, up, air, delivered>>

State == {"Gateway", "Connected", "Unconnected"}

(***************************************************************************)
(* TreeBroadcastMessage; its gate_id field is written and never read.      *)
(***************************************************************************)
Announcement(n) == [type |-> "broadcast", from |-> n, hops |-> hops[n]]

(***************************************************************************)
(* TreeRoutingMessage of source s, sent by n to its parent.  `hops' is not *)
(* a field of the frame: it remembers the hop count of the sender at the   *)
(* time of sending, for the properties.                                    *)
(***************************************************************************)
DataFrame(n, s) ==
  [type |-> "routing", from |-> n, to |-> parent[n], src |-> s, hops |-> hops[n]]

Announcements == {m \in air : m.type = "broadcast"}
DataFrames    == {m \in air : m.type = "routing"}

(***************************************************************************)
(* The constructor.                                                        *)
(***************************************************************************)
Init == /\ state = [n \in Node |-> "Unconnected"]
        /\ parent = [n \in Node |-> Null]
        /\ hops = [n \in Node |-> 0]
        /\ up = [n \in Node |-> FALSE]
        /\ air = {}
        /\ delivered = [n \in Node |-> {}]

(***************************************************************************)
(* set_sink(sink): only state_ changes, whatever the node is doing.        *)
(***************************************************************************)
\* Slip: leaving the role of a gateway forgets the tree, as init() does.
SetSinkForgets(n, sink) ==
  /\ state' = [state EXCEPT ![n] = IF sink THEN "Gateway" ELSE "Unconnected"]
  /\ parent' = [parent EXCEPT ![n] = IF sink THEN @ ELSE Null]
  /\ hops' = [hops EXCEPT ![n] = IF sink THEN @ ELSE INF]
  /\ UNCHANGED <<up, air, delivered>>

SetSink(n, sink) ==
  /\ state' = [state EXCEPT ![n] = IF sink THEN "Gateway" ELSE "Unconnected"]
  /\ UNCHANGED <<parent, hops, up, air, delivered>>

(***************************************************************************)
(* enable_radio(), from a node in state s.                                 *)
(***************************************************************************)
\* Slip: a restart leaves the 0 that the constructor and init() write.
StartAtZero(n, s) ==
  /\ state' = [state EXCEPT ![n] = s]
  /\ parent' = [parent EXCEPT ![n] = IF s = "Gateway" THEN n ELSE Null]
  /\ hops' = [hops EXCEPT ![n] = 0]
  /\ up' = [up EXCEPT ![n] = TRUE]
  /\ UNCHANGED <<air, delivered>>

StartAs(n, s) ==
  /\ state' = [state EXCEPT ![n] = s]
  /\ parent' = [parent EXCEPT ![n] = IF s = "Gateway" THEN n ELSE Null]
  /\ hops' = [hops EXCEPT ![n] = IF s = "Gateway" THEN 0 ELSE INF]
  /\ up' = [up EXCEPT ![n] = TRUE]
  /\ UNCHANGED <<air, delivered>>

(***************************************************************************)
(* init() resets a connected node and calls enable_radio().                *)
(***************************************************************************)
InitRouting(n) ==
  StartAs(n, IF state[n] = "Connected" THEN "Unconnected" ELSE state[n])

Enable(n) == ~up[n] /\ InitRouting(n)

(***************************************************************************)
(* send(): a node with a parent sends to it; one without is ERR_NETDOWN.   *)
(***************************************************************************)
Send(n) ==
  /\ parent[n] # Null
  /\ air' = air \cup {DataFrame(n, n)}
  /\ UNCHANGED <<state, parent, hops, up, delivered>>

(***************************************************************************)
(* timer_elapsed(): announce the hop count; the timer is re-armed.         *)
(***************************************************************************)
TimerElapsed(n) ==
  /\ up[n]
  /\ state[n] \in {"Gateway", "Connected"}
  /\ air' = air \cup {Announcement(n)}
  /\ UNCHANGED <<state, parent, hops, up, delivered>>

(***************************************************************************)
(* receive() of an announcement; `from == id' is dropped.                  *)
(***************************************************************************)
\* Slips the checks must catch: no increment before the comparison; the
\* first parent kept.
ImprovesUnincremented(n, m) == m.hops <= hops[n]
ImprovesFirst(n, m) == m.hops + 1 < hops[n] /\ parent[n] = Null

Improves(n, m) == m.hops + 1 < hops[n]

\* Slip: the received count is stored without adding the own hop.
ReceiveSameCount(n, m) ==
  /\ up[n]
  /\ m.from # n
  /\ <<m.from, n>> \in Link
  /\ Improves(n, m)
  /\ hops' = [hops EXCEPT ![n] = m.hops]
  /\ parent' = [parent EXCEPT ![n] = m.from]
  /\ state' = [state EXCEPT ![n] = "Connected"]
  /\ UNCHANGED <<up, air, delivered>>

ReceiveBroadcast(n, m) ==
  /\ up[n]
  /\ m.from # n
  /\ <<m.from, n>> \in Link
  /\ Improves(n, m)
  /\ hops' = [hops EXCEPT ![n] = m.hops + 1]
  /\ parent' = [parent EXCEPT ![n] = m.from]
  /\ state' = [state EXCEPT ![n] = "Connected"]
  /\ UNCHANGED <<up, air, delivered>>

(***************************************************************************)
(* receive() of a routing frame: a gateway notifies its receivers, another *)
(* node with a parent forwards, a node without one drops the frame.        *)
(***************************************************************************)
Accepts(n, m) == /\ up[n]
                 /\ m.from # n
                 /\ m.to = n
                 /\ <<m.from, n>> \in Link

DeliverData(n, m) ==
  /\ Accepts(n, m)
  /\ state[n] = "Gateway"
  /\ delivered' = [delivered EXCEPT ![n] = @ \cup {m.src}]
  /\ UNCHANGED <<state, parent, hops, up, air>>

\* Slip: only a frame that its source sent is forwarded.
ForwardFirstHop(n, m) ==
  /\ Accepts(n, m)
  /\ state[n] # "Gateway"
  /\ parent[n] # Null
  /\ m.src = m.from
  /\ air' = air \cup {DataFrame(n, m.src)}
  /\ UNCHANGED <<state, parent, hops, up, delivered>>

ForwardData(n, m) ==
  /\ Accepts(n, m)
  /\ state[n] # "Gateway"
  /\ parent[n] # Null
  /\ air' = air \cup {DataFrame(n, m.src)}
  /\ UNCHANGED <<state, parent, hops, up, delivered>>

(***************************************************************************)
(* A crash loses the object; the node's start routine constructs it again  *)
(* and repeats the set_sink() call of its application before init().       *)
(***************************************************************************)
Constructed(n) ==
  /\ state' = [state EXCEPT ![n] = IF @ = "Gateway" THEN @ ELSE "Unconnected"]
  /\ parent' = [parent EXCEPT ![n] = Null]
  /\ hops' = [hops EXCEPT ![n] = 0]

Crash(n) ==
  /\ up[n]
  /\ Constructed(n)
  /\ up' = [up EXCEPT ![n] = FALSE]
  /\ UNCHANGED <<air, delivered>>

(***************************************************************************)
(* What every node may do once it is deployed.                             *)
(***************************************************************************)
Operate(n) == \/ Enable(n)
              \/ TimerElapsed(n)
              \/ \E m \in Announcements : ReceiveBroadcast(n, m)
              \/ \E m \in DataFrames : DeliverData(n, m) \/ ForwardData(n, m)
              \/ n \in Source /\ Send(n)

(***************************************************************************)
(* Any use of the class in which init() is called once per node: set_sink  *)
(* may come at any time, before or after init().                           *)
(***************************************************************************)
Next == \E n \in Node : Operate(n) \/ \E sink \in BOOLEAN : SetSink(n, sink)

Spec == Init /\ [][Next]_vars

(***************************************************************************)
(* The use the applications make of it: set_sink() before init().          *)
(***************************************************************************)
PlannedNext ==
  \E n \in Node : Operate(n) \/ \E sink \in BOOLEAN : ~up[n] /\ SetSink(n, sink)

(***************************************************************************)
(* Fairness.  Nodes are booted and timers fire.  Of the radio it is only   *)
(* asked that an announcement repeated for ever, being the current one of  *)
(* its sender, is heard eventually.                                        *)
(***************************************************************************)
HearCurrent(n, p) ==
  \E m \in Announcements : m = Announcement(p) /\ ReceiveBroadcast(n, m)

PlannedSpec ==
  /\ Init /\ [][PlannedNext]_vars
  /\ \A n \in Node : WF_vars(Enable(n)) /\ WF_vars(TimerElapsed(n))
  /\ \A n, p \in Node : WF_vars(HearCurrent(n, p))

(***************************************************************************)
(* No data frame is lost: each one is received at some time.               *)
(***************************************************************************)
HandleFrom(n, p, s) ==
  \E m \in DataFrames : /\ m.from = p /\ m.src = s
                        /\ DeliverData(n, m) \/ ForwardData(n, m)

NoDataLost == \A n, p, s \in Node : WF_vars(HandleFrom(n, p, s))

(***************************************************************************)
(* Networks with crashes and repeated init(): roles are fixed from the     *)
(* start.                                                                  *)
(***************************************************************************)
ChurnInit == /\ \E gateways \in SUBSET Node :
                   state = [n \in Node |-> IF n \in gateways THEN "Gateway"
                                           ELSE "Unconnected"]
             /\ parent = [n \in Node |-> Null]
             /\ hops = [n \in Node |-> 0]
             /\ up = [n \in Node |-> FALSE]
             /\ air = {}
             /\ delivered = [n \in Node |-> {}]

ChurnNext == \E n \in Node : \/ Operate(n)
                             \/ up[n] /\ InitRouting(n)
                             \/ Crash(n)

ChurnSpec == ChurnInit /\ [][ChurnNext]_vars

(***************************************************************************)
(* Nodes that may die for good, under the fairness of PlannedSpec for      *)
(* those that live.                                                        *)
(***************************************************************************)
LossNext == \E n \in Node : Operate(n) \/ Crash(n)

LossSpec == /\ ChurnInit /\ [][LossNext]_vars
            /\ \A n \in Node : WF_vars(TimerElapsed(n))
            /\ \A n, p \in Node : WF_vars(HearCurrent(n, p))
------------------------------------------------------------------------------
(***************************************************************************)
(* Type invariant of the members of the class and of the two frame formats *)
(* (tree_routing.h:225-234): hops_ stays in its range although the sum     *)
(* message->hops() + 1 is formed in int and stored in uint8_t.             *)
(***************************************************************************)
Frame == [type : {"broadcast"}, from : Node, hops : 0..INF]
           \cup [type : {"routing"}, from : Node, to : Node, src : Node,
                 hops : 0..INF]

TypeOK == /\ state \in [Node -> State]
          /\ parent \in [Node -> Node \cup {Null}]
          /\ hops \in [Node -> 0..INF]
          /\ up \in [Node -> BOOLEAN]
          /\ air \subseteq Frame
          /\ delivered \in [Node -> SUBSET Node]

Joined == {n \in Node : parent[n] # Null}

(***************************************************************************)
(* No routing loop: a set of joined nodes that is closed under parent_     *)
(* contains a root, the gateway that is its own parent.  receive()         *)
(* (tree_routing.h:436-444) adopts a parent from a frame of any age, so    *)
(* this rests on hop counts in the air never being below the sender's.     *)
(***************************************************************************)
NoParentCycle ==
  \A S \in SUBSET Joined :
    S # {} /\ (\A n \in S : parent[n] \in S) => \E r \in S : parent[r] = r

(***************************************************************************)
(* Every node named as a destination by a routing frame in the air is      *)
(* closer to the gateway than the node that sent the frame was, and has a  *)
(* parent (or is a gateway) itself: receive() (tree_routing.h:450-468)     *)
(* never forwards a frame back up or into a node that drops it.  The one   *)
(* exception is a gateway, whose send() addresses itself.                  *)
(***************************************************************************)
DataDescends ==
  \A m \in DataFrames :
    m.to # m.from => hops[m.to] < m.hops /\ m.to \in Joined

(***************************************************************************)
(* hops_ never claims a gateway closer than the topology has one.  A       *)
(* potential assigns 0 to every root and grows by at most one along a      *)
(* link; the largest potential is the true distance (or INF), and hops_ is *)
(* at least every potential, in spite of stale announcements, repeated     *)
(* init() and crashes (tree_routing.h:264-281, 294-328, 436-444).          *)
(***************************************************************************)
Roots == {n \in Node : parent[n] = n \/ (~up[n] /\ state[n] = "Gateway")}

Potentials ==
  {D \in [Node -> 0..INF] : \A l \in Link : D[l[2]] <= D[l[1]] + 1}

NeverTooClose ==
  \A D \in Potentials : (\A r \in Roots : D[r] = 0)
                         => \A n \in Node : up[n] => hops[n] >= D[n]

(***************************************************************************)
(* What the class promises, free of frames and timers: see GradientTree.   *)
(***************************************************************************)
Tree == INSTANCE GradientTree WITH level <- hops, started <- up
TreeSpec == Tree!Spec
==============================================================================
