------------------------------ MODULE DdfsGraph ------------------------------
(***************************************************************************)
(* Distributed depth first search, wiselib.testing/algorithms/graph/ddfs/  *)
(* ddfs_graph.h.  A node that is discovered tells all its neighbours, and  *)
(* only when all have acknowledged it sends the search on, so that nobody  *)
(* sends the search to a node that has been there.                         *)
(*                                                                         *)
(* A handler runs to completion.  The radio delivers each message once, in *)
(* any order.  MAX_NODES is at least the number of neighbours.             *)
(***************************************************************************)
EXTENDS Integers, Sequences, FiniteSets, SequencesExt, Bags

CONSTANTS Node, Null,  \* Null is the -1 that enable() writes to parent_
          Root,        \* the node with root_, set by the application
          Networks     \* each a symmetric set of links

VARIABLES link,        \* who is in range of whom; fixed at the start
          announced,   \* nodes whose timer0() has fired
          begun,       \* timer1() of the root has fired
          parent,      \* parent_
          children,    \* children_
          neighbours,  \* neighbours_
          unvisited,   \* unvisited_
          flagged,     \* the neighbours whose flag_ is set
          air,         \* a bag of messages on their way
          discovered,  \* how often DISCOVER was taken
          finished     \* calls of the finish callback

vars == <<link, announced, begun, parent, children, neighbours, unvisited, flagged,
          air, discovered, finished>>

NeighboursOf(n) == {m \in Node : <<n, m>> \in link}

DdfsAssumption ==
  /\ Null \notin Node /\ Root \in Node
  /\ \A l \in Networks : /\ l \subseteq {e \in Node \X Node : e[1] # e[2]}
                         /\ \A e \in l : <<e[2], e[1]>> \in l

Message(type, n, to) == {[type |-> type, from |-> n, to |-> m] : m \in to}

Sending(bag, frames) == bag (+) SetToBag(frames)
Taken(f) == air (-) SetToBag({f})

(***************************************************************************)
(* The last place of x in unvisited_ is erased, if it is there.            *)
(***************************************************************************)
ErasePosition(s, x) == CHOOSE i \in DOMAIN s : s[i] = x /\ \A j \in DOMAIN s : s[j] = x => j <= i

Without(s, x) == IF x \in ToSet(s) THEN RemoveAt(s, ErasePosition(s, x)) ELSE s

(***************************************************************************)
(* After enable() of every node.                                           *)
(***************************************************************************)
Init == /\ link \in Networks
        /\ announced = {}
        /\ begun = FALSE
        /\ parent = [n \in Node |-> Null]
        /\ children = [n \in Node |-> <<>>]
        /\ neighbours = [n \in Node |-> <<>>]
        /\ unvisited = [n \in Node |-> <<>>]
        /\ flagged = [n \in Node |-> {}]
        /\ air = EmptyBag
        /\ discovered = [n \in Node |-> 0]
        /\ finished = 0

Announce(n) ==
  /\ n \notin announced
  /\ announced' = announced \cup {n}
  /\ air' = Sending(air, Message("neighbourhood", n, NeighboursOf(n)))
  /\ UNCHANGED <<link, begun, parent, children, neighbours, unvisited, flagged,
                 discovered, finished>>

(***************************************************************************)
(* DISCOVER, given what is left in the air: a node whose only neighbour is *)
(* the one it comes from returns the search at once.                       *)
(***************************************************************************)
OnlyNeighbour(n, from) == neighbours[n] = <<from>>

WaitsFor(n) == ToSet(neighbours[n])

Discover(n, from, rest) ==
  /\ parent' = [parent EXCEPT ![n] = from]
  /\ flagged' = [flagged EXCEPT ![n] = WaitsFor(n)]
  /\ discovered' = [discovered EXCEPT ![n] = @ + 1]
  /\ air' = Sending(rest, Message("visited", n, ToSet(neighbours[n]))
                          \cup IF OnlyNeighbour(n, from) THEN Message("return", n, {from})
                                                         ELSE {})
  /\ UNCHANGED <<link, announced, children, neighbours, unvisited, finished>>

(***************************************************************************)
(* timer1() of the root.  The neighbourhood construction time is long      *)
(* enough for all nodes to announce themselves.                            *)
(***************************************************************************)
Begin ==
  /\ ~begun /\ announced = Node /\ air = EmptyBag
  /\ begun' = TRUE
  /\ Discover(Root, Root, air)

ReceiveNeighbourhood(n, f) ==
  /\ f.type = "neighbourhood"
  /\ neighbours' = [neighbours EXCEPT ![n] = Append(@, f.from)]
  /\ unvisited' = [unvisited EXCEPT ![n] = Append(@, f.from)]
  /\ air' = Taken(f)
  /\ UNCHANGED <<link, announced, begun, parent, children, flagged, discovered, finished>>

ReceiveDiscover(n, f) ==
  /\ f.type = "discover"
  /\ Discover(n, f.from, Taken(f))
  /\ UNCHANGED begun

(***************************************************************************)
(* RETURN: the search goes to the unvisited neighbour that was heard last, *)
(* or back.                                                                *)
(***************************************************************************)
Resume(n, rest) ==
  IF unvisited[n] # <<>>
  THEN /\ air' = Sending(rest, Message("discover", n, {Last(unvisited[n])}))
       /\ unvisited' = [unvisited EXCEPT ![n] = Front(@)]
       /\ UNCHANGED finished
  ELSE /\ air' = Sending(rest, Message("return", n, {parent[n]} \ {n}))
       /\ finished' = IF parent[n] = n THEN finished + 1 ELSE finished
       /\ UNCHANGED unvisited

ReceiveReturn(n, f) ==
  /\ f.type = "return"
  /\ children' = [children EXCEPT ![n] = Append(@, f.from)]
  /\ Resume(n, Taken(f))
  /\ UNCHANGED <<link, announced, begun, parent, neighbours, flagged, discovered>>

ReceiveVisited(n, f) ==
  /\ f.type = "visited"
  /\ unvisited' = [unvisited EXCEPT ![n] = Without(@, f.from)]
  /\ air' = Sending(Taken(f), Message("ack", n, {f.from}))
  /\ UNCHANGED <<link, announced, begun, parent, children, neighbours, flagged,
                 discovered, finished>>

\* Slip: a flag that is set is not looked at.
AcknowledgedOnce(n, f) == TRUE

AllAcknowledged(n, f) == flagged[n] \subseteq {f.from}

ReceiveAck(n, f) ==
  /\ f.type = "ack"
  /\ flagged' = [flagged EXCEPT ![n] = @ \ {f.from}]
  /\ IF AllAcknowledged(n, f) THEN Resume(n, Taken(f))
     ELSE air' = Taken(f) /\ UNCHANGED <<unvisited, finished>>
  /\ UNCHANGED <<link, announced, begun, parent, children, neighbours, discovered>>

Receive(n, f) == \/ ReceiveNeighbourhood(n, f) \/ ReceiveDiscover(n, f)
                 \/ ReceiveReturn(n, f) \/ ReceiveVisited(n, f) \/ ReceiveAck(n, f)

Next == \/ \E n \in Node : Announce(n)
        \/ Begin
        \/ \E f \in BagToSet(air) : Receive(f.to, f)

Spec == Init /\ [][Next]_vars

(***************************************************************************)
(* Each timer fires, and no message is lost.                               *)
(***************************************************************************)
Fairness == WF_vars(Next)

FairSpec == Spec /\ Fairness
------------------------------------------------------------------------------
Frame == [type : {"neighbourhood", "discover", "return", "visited", "ack"},
          from : Node, to : Node]

(***************************************************************************)
(* A node with one neighbour, the root apart, returns the search twice: at *)
(* once, and when its VISITED is acknowledged (ddfs_graph.h:274-281, 346). *)
(***************************************************************************)
NoLeaf == \A n \in Node \ {Root} : Cardinality(NeighboursOf(n)) # 1

(***************************************************************************)
(* The members of the class; parents and children are neighbours, and a    *)
(* neighbour is in neighbours_ once (ddfs_graph.h:60-153).                 *)
(***************************************************************************)
TypeOK ==
  /\ link \in Networks /\ announced \subseteq Node /\ begun \in BOOLEAN
  /\ \A n \in Node :
       /\ parent[n] \in NeighboursOf(n) \cup {Null, n}
       /\ \A s \in {children[n], neighbours[n], unvisited[n]} :
            ToSet(s) \subseteq NeighboursOf(n)
       /\ Len(neighbours[n]) = Cardinality(ToSet(neighbours[n]))
       /\ flagged[n] \subseteq NeighboursOf(n)
  /\ BagToSet(air) \subseteq Frame
  /\ discovered \in [Node -> Nat] /\ finished \in Nat

(***************************************************************************)
(* The search is in one place: in a message on its way, at a node that     *)
(* waits for acknowledgements, or finished, and then the callback has been *)
(* called once (ddfs_graph.h:262-349).                                     *)
(***************************************************************************)
Travelling == {f \in BagToSet(air) : f.type \in {"discover", "return"}}

OneSearch ==
  NoLeaf /\ NeighboursOf(Root) # {} /\ begun =>
    finished + Cardinality({n \in Node : flagged[n] # {}})
      + Cardinality({x \in Travelling \X (1..2) : x[2] <= air[x[1]]}) = 1

(***************************************************************************)
(* "I'm visited for the first time" (ddfs_graph.h:262), on DISCOVER.       *)
(***************************************************************************)
FirstTime == \A n \in Node : discovered[n] <= 1

(***************************************************************************)
(* When the callback is called all nodes in reach have been visited,       *)
(* children_ and parent_ agree, and every link there joins a node and one  *)
(* of its ancestors: the tree is one that depth first search builds        *)
(* (ddfs_graph.h:283-314).                                                 *)
(***************************************************************************)
Ascending(X) == \A n \in X : parent[n] \in X \cup {Null}

Above(n) == {m \in Node : \A X \in SUBSET Node : n \in X /\ Ascending(X) => m \in X}

Linked(X) == \A n \in X : NeighboursOf(n) \subseteq X

InReach(n) == \A X \in SUBSET Node : Root \in X /\ Linked(X) => n \in X

DepthFirstTree ==
  NoLeaf /\ finished > 0 =>
    /\ \A n \in Node : InReach(n) => Root \in Above(n)
    /\ \A n, m \in Node : m \in ToSet(children[n]) <=> parent[m] = n /\ m # n
    /\ \A n \in Node : Len(children[n]) = Cardinality(ToSet(children[n]))
    /\ \A e \in link : InReach(e[1]) => e[1] \in Above(e[2]) \/ e[2] \in Above(e[1])

(***************************************************************************)
(* The callback is called in the end, if the root has a neighbour          *)
(* (ddfs_graph.h:296-313).                                                 *)
(***************************************************************************)
Finishes == NeighboursOf(Root) # {} => <>(finished > 0)
==============================================================================
