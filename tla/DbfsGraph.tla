------------------------------ MODULE DbfsGraph ------------------------------
(***************************************************************************)
(* Distributed breadth first search, wiselib.testing/algorithms/graph/     *)
(* dbfs/dbfs_graph.h.  The root sends a wave of LABELs, once for each      *)
(* level of the tree: it goes down the tree to the nodes that were labeled *)
(* last, which label their neighbours, and comes back as ECHOs.            *)
(*                                                                         *)
(* A handler runs to completion.  The radio delivers each message once, in *)
(* any order.  MAX_NODES is at least the number of neighbours.             *)
(***************************************************************************)
EXTENDS Integers

CONSTANTS Node, Null,  \* Null is the -1 that enable() writes to parent_
          Root,        \* the node with root_, set by the application
          Networks,    \* each a symmetric set of links
          LevelMod     \* 2^8: level_ is a uint8_t

VARIABLES link,        \* who is in range of whom; fixed at the start
          announced,   \* nodes whose timer0() has fired
          labeled,     \* labeled_
          level,       \* level_
          parent,      \* parent_
          children,    \* children_
          neighbours,  \* neighbours_
          sendTo,      \* send_to_
          echoed,      \* those of send_to_ whose echoed_ is set
          air,         \* the messages on their way
          finished     \* calls of the finish callback

vars == <<link, announced, labeled, level, parent, children, neighbours, sendTo, echoed,
          air, finished>>

NeighboursOf(n) == {m \in Node : <<n, m>> \in link}

DbfsAssumption ==
  /\ Null \notin Node /\ Root \in Node
  /\ LevelMod \in Nat \ {0}
  /\ \A l \in Networks : /\ l \subseteq {e \in Node \X Node : e[1] # e[2]}
                         /\ \A e \in l : <<e[2], e[1]>> \in l

Announcement(n) == {[type |-> "neighbourhood", from |-> n, to |-> m] : m \in NeighboursOf(n)}
Label(n, k, to) == {[type |-> "label", from |-> n, to |-> m, level |-> k] : m \in to}
Echo(n, to, status) == {[type |-> "echo", from |-> n, to |-> to, status |-> status]}

(***************************************************************************)
(* After enable() of every node.                                           *)
(***************************************************************************)
Init == /\ link \in Networks
        /\ announced = {}
        /\ labeled = [n \in Node |-> FALSE]
        /\ level = [n \in Node |-> 0]
        /\ parent = [n \in Node |-> Null]
        /\ children = [n \in Node |-> {}]
        /\ neighbours = [n \in Node |-> {}]
        /\ sendTo = [n \in Node |-> {}]
        /\ echoed = [n \in Node |-> {}]
        /\ air = {}
        /\ finished = 0

Announce(n) ==
  /\ n \notin announced
  /\ announced' = announced \cup {n}
  /\ air' = air \cup Announcement(n)
  /\ UNCHANGED <<link, labeled, level, parent, children, neighbours, sendTo, echoed,
                 finished>>

(***************************************************************************)
(* timer1() of the root.  The neighbourhood construction time is long      *)
(* enough for all nodes to announce themselves.                            *)
(***************************************************************************)
Begin ==
  /\ ~labeled[Root] /\ announced = Node /\ air = {}
  /\ labeled' = [labeled EXCEPT ![Root] = TRUE]
  /\ parent' = [parent EXCEPT ![Root] = Root]
  /\ sendTo' = [sendTo EXCEPT ![Root] = neighbours[Root]]
  /\ air' = Label(Root, 0, neighbours[Root])
  /\ finished' = IF neighbours[Root] = {} THEN 1 ELSE 0
  /\ UNCHANGED <<link, announced, level, children, neighbours, echoed>>

ReceiveNeighbourhood(n, f) ==
  /\ f.type = "neighbourhood"
  /\ neighbours' = [neighbours EXCEPT ![n] = @ \cup {f.from}]
  /\ air' = air \ {f}
  /\ UNCHANGED <<link, announced, labeled, level, parent, children, sendTo, echoed, finished>>

(***************************************************************************)
(* LABEL.  The first one makes its sender the parent; the parent's later   *)
(* ones are passed on; others are told to stop.                            *)
(***************************************************************************)
FirstLabel(n, f) ==
  LET others == neighbours[n] \ {f.from}
  IN /\ f.type = "label" /\ ~labeled[n]
     /\ labeled' = [labeled EXCEPT ![n] = TRUE]
     /\ parent' = [parent EXCEPT ![n] = f.from]
     /\ level' = [level EXCEPT ![n] = (f.level + 1) % LevelMod]
     /\ sendTo' = [sendTo EXCEPT ![n] = others]
     /\ echoed' = [echoed EXCEPT ![n] = {}]
     /\ children' = [children EXCEPT ![n] = {}]
     /\ air' = (air \ {f}) \cup Echo(n, f.from, IF others = {} THEN "end" ELSE "keepon")
     /\ UNCHANGED <<link, announced, neighbours, finished>>

NextLevel(n, f) ==
  /\ f.type = "label" /\ labeled[n] /\ parent[n] = f.from
  /\ air' = (air \ {f}) \cup Label(n, level[n], sendTo[n])
  /\ echoed' = [echoed EXCEPT ![n] = {}]
  /\ UNCHANGED <<link, announced, labeled, level, parent, children, neighbours, sendTo,
                 finished>>

Stop(n, f) ==
  /\ f.type = "label" /\ labeled[n] /\ parent[n] # f.from
  /\ air' = (air \ {f}) \cup Echo(n, f.from, "stop")
  /\ UNCHANGED <<link, announced, labeled, level, parent, children, neighbours, sendTo,
                 echoed, finished>>

(***************************************************************************)
(* ECHO.  A neighbour that has nothing below it, or another parent, is not *)
(* sent to again; when all others have answered the node itself answers,   *)
(* or the root sends the next wave.                                        *)
(***************************************************************************)
\* Slip: a neighbour that ended is sent to again.
RemainingAsked(n, f) == sendTo[n] \ (IF f.status = "stop" THEN {f.from} ELSE {})

Remaining(n, f) == sendTo[n] \ (IF f.status \in {"stop", "end"} THEN {f.from} ELSE {})

\* Slip: a child is one that has others below it.
IsChildKeepingOn(f) == f.status = "keepon"

IsChild(f) == f.status \in {"keepon", "end"}

\* Slip: only send_to_ loses its element.
HeardAll(n, f) == echoed[n] \cup ({f.from} \cap sendTo[n])

Heard(n, f) == (echoed[n] \cup ({f.from} \cap sendTo[n])) \cap Remaining(n, f)

ReceiveEcho(n, f) ==
  LET waves == Remaining(n, f)
      heard == Heard(n, f)
      all   == waves \subseteq heard
  IN /\ f.type = "echo"
     /\ sendTo' = [sendTo EXCEPT ![n] = waves]
     /\ children' = [children EXCEPT ![n] = @ \cup (IF IsChild(f) THEN {f.from} ELSE {})]
     /\ echoed' = [echoed EXCEPT ![n] = IF all /\ n = Root THEN {} ELSE heard]
     /\ air' = (air \ {f}) \cup
               CASE ~all -> {}
                 [] all /\ n = Root -> Label(n, level[n], waves)
                 [] all /\ n # Root ->
                      Echo(n, parent[n], IF waves = {} THEN "end" ELSE "keepon")
     /\ finished' = IF n = Root /\ waves = {} THEN finished + 1 ELSE finished
     /\ UNCHANGED <<link, announced, labeled, level, parent, neighbours>>

Receive(n, f) == \/ ReceiveNeighbourhood(n, f) \/ FirstLabel(n, f) \/ NextLevel(n, f)
                 \/ Stop(n, f) \/ ReceiveEcho(n, f)

Next == \/ \E n \in Node : Announce(n)
        \/ Begin
        \/ \E f \in air : Receive(f.to, f)

Spec == Init /\ [][Next]_vars

(***************************************************************************)
(* Each timer fires, and no message is lost.                               *)
(***************************************************************************)
Fairness == WF_vars(Next)

FairSpec == Spec /\ Fairness
------------------------------------------------------------------------------
Frame == [type : {"neighbourhood"}, from : Node, to : Node]
         \cup [type : {"label"}, from : Node, to : Node, level : 0..LevelMod - 1]
         \cup [type : {"echo"}, from : Node, to : Node, status : {"keepon", "stop", "end"}]

(***************************************************************************)
(* The members of the class; the neighbours waited for are those that are  *)
(* sent to (dbfs_graph.h:60-156).                                          *)
(***************************************************************************)
TypeOK ==
  /\ link \in Networks /\ announced \subseteq Node
  /\ labeled \in [Node -> BOOLEAN] /\ level \in [Node -> 0..LevelMod - 1]
  /\ \A n \in Node :
       /\ parent[n] \in NeighboursOf(n) \cup {Null, n}
       /\ neighbours[n] \subseteq NeighboursOf(n)
       /\ children[n] \subseteq neighbours[n]
       /\ echoed[n] \subseteq sendTo[n] /\ sendTo[n] \subseteq neighbours[n]
  /\ air \subseteq Frame
  /\ finished \in 0..1

(***************************************************************************)
(* level_ is the distance to the root from the first, however the LABELs   *)
(* and ECHOs of different branches overtake each other, if no distance is  *)
(* too large for a uint8_t (dbfs_graph.h:287-327, 381-398).                *)
(***************************************************************************)
Within[k \in Nat] ==
  IF k = 0 THEN {Root}
  ELSE Within[k - 1] \cup UNION {NeighboursOf(n) : n \in Within[k - 1]}

Linked(X) == \A n \in X : NeighboursOf(n) \subseteq X

InReach(n) == \A X \in SUBSET Node : Root \in X /\ Linked(X) => n \in X

LevelIsDistance ==
  Linked(Within[LevelMod - 1]) => \A n \in Node : labeled[n] =>
    n \in Within[level[n]] /\ (level[n] > 0 => n \notin Within[level[n] - 1])

(***************************************************************************)
(* When the callback is called all nodes that can be reached are labeled,  *)
(* children_ and parent_ agree, nothing is on its way and nobody waits     *)
(* (dbfs_graph.h:367-380).                                                 *)
(***************************************************************************)
FinishedTree ==
  finished > 0 =>
    /\ finished = 1
    /\ air = {}
    /\ \A n \in Node : InReach(n) => labeled[n] /\ sendTo[n] = {}
    /\ \A n, m \in Node : m \in children[n] <=> parent[m] = n /\ m # n

(***************************************************************************)
(* The callback is called in the end (dbfs_graph.h:254-259, 367-374).      *)
(***************************************************************************)
Finishes == <>(finished > 0)
==============================================================================
