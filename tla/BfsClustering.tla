---------------------------- MODULE BfsClustering ----------------------------
(***************************************************************************)
(* BfsClustering (wiselib.testing/algorithms/cluster/bfscluster/           *)
(* bfsclustering.h): every node whose id is a multiple of theta_ is the    *)
(* head of a cluster and asks the others to join; a node joins the first   *)
(* cluster it hears of and asks on; who joined is told up to the head, and *)
(* a node that nobody joined in time tells the head that its branch is     *)
(* finished.                                                               *)
(*                                                                         *)
(* A handler runs to completion.  A frame in `air' is one copy on the way  *)
(* to one receiver; copies arrive in any order.  A node is enabled once.   *)
(***************************************************************************)
EXTENDS Naturals, FiniteSets

CONSTANTS Node, Null,
          Heads,      \* sets of nodes: who may be the heads
          Link,       \* pairs <<a, b>>: b is in communication range of a
          HopMod,     \* 2^8: the hops of a JOIN are one byte
          MaxMembers  \* the size of cluster_neighbhors_, 100

ClusteringAssumption ==
  /\ Null \notin Node /\ Heads \subseteq SUBSET Node
  /\ Link \subseteq {e \in Node \X Node : e[1] # e[2]}
  /\ HopMod \in Nat \ {0} /\ MaxMembers \in Nat

VARIABLES head,       \* the nodes with cluster_head_; fixed at the start by theta_
          prompt,     \* time_slice_ is long enough for an answer; fixed at the start
          enabled,    \* receive() is registered
          sid,        \* SID_, Null for -1
          parent,     \* parent_, Null for -1
          hops,       \* hops_
          anyJoined,  \* any_joined_
          members,    \* cluster_neighbhors_
          timer,      \* timer_expired() is still to come
          air,        \* the copies on their way
          formed      \* for each CLUSTER_FORMED of a head: the node that began it

vars == <<head, prompt, enabled, sid, parent, hops, anyJoined, members, timer, air, formed>>

InRange(n) == {m \in Node : <<n, m>> \in Link}

(***************************************************************************)
(* The three frames.  `origin' of a RESUME is no field of the frame.       *)
(***************************************************************************)
Join(n, s, h) == {[type |-> "join", to |-> m, from |-> n, sid |-> s, hops |-> h % HopMod] :
                    m \in InRange(n)}

Accept(n, p, m) == {[type |-> "accept", to |-> q, from |-> n, node |-> m] :
                      q \in {p} \cap InRange(n)}

Resume(n, p, o) == {[type |-> "resume", to |-> q, from |-> n, origin |-> o] :
                      q \in {p} \cap InRange(n)}

Init == /\ head \in Heads /\ prompt \in BOOLEAN
        /\ enabled = [n \in Node |-> FALSE]
        /\ sid = [n \in Node |-> Null]
        /\ parent = [n \in Node |-> Null]
        /\ hops = [n \in Node |-> 0]
        /\ anyJoined = [n \in Node |-> FALSE]
        /\ members = [n \in Node |-> {}]
        /\ timer = [n \in Node |-> FALSE]
        /\ air = {}
        /\ formed = [n \in Node |-> {}]

Enable(n) ==
  LET own == IF n \in head THEN n ELSE Null
  IN /\ ~enabled[n]
     /\ enabled' = [enabled EXCEPT ![n] = TRUE]
     /\ sid' = [sid EXCEPT ![n] = own]
     /\ parent' = [parent EXCEPT ![n] = own]
     /\ hops' = [hops EXCEPT ![n] = 0]
     /\ anyJoined' = [anyJoined EXCEPT ![n] = FALSE]
     /\ timer' = [timer EXCEPT ![n] = n \in head]
     /\ air' = IF n \in head THEN air \cup Join(n, n, 0) ELSE air
     /\ UNCHANGED <<head, prompt, members, formed>>

(***************************************************************************)
(* receive() of a JOIN that is taken.                                      *)
(***************************************************************************)
\* Slip: a node that has a cluster joins the next.
Anyone(n) == n \notin head

Unclustered(n) == n \notin head /\ sid[n] = Null

\* Slip: the hops are those of the sender.
HopsOf(f) == f.hops

HopsOver(f) == f.hops + 1

ReceiveJoin(n, f) ==
  /\ enabled[n] /\ f.type = "join" /\ f.to = n /\ Unclustered(n)
  /\ sid' = [sid EXCEPT ![n] = f.sid]
  /\ parent' = [parent EXCEPT ![n] = f.from]
  /\ hops' = [hops EXCEPT ![n] = HopsOver(f)]
  /\ air' = (air \ {f}) \cup Accept(n, f.from, n) \cup Join(n, f.sid, HopsOver(f))
  /\ timer' = [timer EXCEPT ![n] = TRUE]
  /\ UNCHANGED <<head, prompt, enabled, anyJoined, members, formed>>

(***************************************************************************)
(* receive() of a JOIN by a node that has a cluster, and a copy that comes *)
(* before enable().                                                        *)
(***************************************************************************)
Ignore(n, f) ==
  /\ f.to = n /\ (enabled[n] => f.type = "join" /\ ~Unclustered(n))
  /\ air' = air \ {f}
  /\ UNCHANGED <<head, prompt, enabled, sid, parent, hops, anyJoined, members, timer, formed>>

(***************************************************************************)
(* node_joined().                                                          *)
(***************************************************************************)
WithMember(known, m) == IF Cardinality(known) < MaxMembers THEN known \cup {m} ELSE known

\* Slip: a node keeps who joined under it to itself.
KeptBack(n, f) == {}

PassedOn(n, f) == IF n \in head THEN {} ELSE Accept(n, parent[n], f.node)

ReceiveAccept(n, f) ==
  /\ enabled[n] /\ f.type = "accept" /\ f.to = n
  /\ anyJoined' = [anyJoined EXCEPT ![n] = TRUE]
  /\ members' = [members EXCEPT ![n] = WithMember(@, f.node)]
  /\ air' = (air \ {f}) \cup PassedOn(n, f)
  /\ UNCHANGED <<head, prompt, enabled, sid, parent, hops, timer, formed>>

ReceiveResume(n, f) ==
  /\ enabled[n] /\ f.type = "resume" /\ f.to = n
  /\ IF n \in head
     THEN air' = air \ {f} /\ formed' = [formed EXCEPT ![n] = @ \cup {f.origin}]
     ELSE air' = (air \ {f}) \cup Resume(n, parent[n], f.origin) /\ UNCHANGED formed
  /\ UNCHANGED <<head, prompt, enabled, sid, parent, hops, anyJoined, members, timer>>

Receive(n, f) == \/ ReceiveJoin(n, f) \/ Ignore(n, f)
                 \/ ReceiveAccept(n, f) \/ ReceiveResume(n, f)

(***************************************************************************)
(* What a node sent and what comes back has arrived.                       *)
(***************************************************************************)
Answered(n) == \A f \in air : /\ f.type = "join" => f.from # n
                              /\ f.type = "accept" => f.to # n

\* Slip: the branch is reported although somebody joined.
FinishedAnyway(n) == TRUE

Finished(n) == ~anyJoined[n]

TimerExpired(n) ==
  /\ timer[n] /\ (prompt => Answered(n))
  /\ timer' = [timer EXCEPT ![n] = FALSE]
  /\ air' = air \cup IF Finished(n) /\ parent[n] # n THEN Resume(n, parent[n], n) ELSE {}
  /\ formed' = IF Finished(n) /\ parent[n] = n
               THEN [formed EXCEPT ![n] = @ \cup {n}] ELSE formed
  /\ UNCHANGED <<head, prompt, enabled, sid, parent, hops, anyJoined, members>>

Arriving == \E n \in Node : \E f \in air : Receive(n, f)

Next == \/ \E n \in Node : Enable(n) \/ TimerExpired(n)
        \/ Arriving

Spec == Init /\ [][Next]_vars

(***************************************************************************)
(* A radio that loses nothing, and timers.                                 *)
(***************************************************************************)
GoesOn == Arriving \/ \E n \in Node : TimerExpired(n)
------------------------------------------------------------------------------
Frame == [type : {"join"}, to : Node, from : Node, sid : Node, hops : 0..HopMod - 1]
         \cup [type : {"accept"}, to : Node, from : Node, node : Node]
         \cup [type : {"resume"}, to : Node, from : Node, origin : Node]

(***************************************************************************)
(* The members of the class; parent_ and SID_ are set together, and a head *)
(* is its own parent (bfsclustering.h:325-340, 401-409).                   *)
(***************************************************************************)
TypeOK ==
  /\ head \subseteq Node /\ prompt \in BOOLEAN
  /\ enabled \in [Node -> BOOLEAN]
  /\ sid \in [Node -> Node \cup {Null}]
  /\ parent \in [Node -> Node \cup {Null}]
  /\ hops \in [Node -> 0..HopMod]
  /\ anyJoined \in [Node -> BOOLEAN]
  /\ members \in [Node -> SUBSET Node]
  /\ timer \in [Node -> BOOLEAN]
  /\ air \subseteq Frame
  /\ formed \in [Node -> SUBSET Node]

Joined == {n \in Node : sid[n] # Null}

(***************************************************************************)
(* A node is in the cluster of its parent, one hop farther from the head,  *)
(* whatever clusters are asking at the same time (receive(),               *)
(* bfsclustering.h:399-409; hops are sent as one byte, :429).              *)
(***************************************************************************)
OneFarther ==
  \A n \in Joined :
    IF n \in head THEN sid[n] = n /\ parent[n] = n /\ hops[n] = 0
    ELSE /\ parent[n] \in Joined \ {n}
         /\ sid[n] = sid[parent[n]]
         /\ hops[n] = (hops[parent[n]] % HopMod) + 1

(***************************************************************************)
(* Parents never form a circle: from every member they lead to a head.     *)
(* Accepts and resumes would go round it for ever (bfsclustering.h:401-405,*)
(* 467-469, 493-499).                                                      *)
(***************************************************************************)
NoCircle ==
  \A S \in SUBSET (Joined \ head) : S # {} => \E n \in S : parent[n] \notin S

(***************************************************************************)
(* The nodes whose parents lead to n: those in every set that has n in it  *)
(* and all whose parent is.                                                *)
(***************************************************************************)
TakesIn(S) == \A m \in Node : parent[m] \in S => m \in S

Under(n) == {m \in Node \ {n} : \A S \in SUBSET Node : n \in S /\ TakesIn(S) => m \in S}

(***************************************************************************)
(* What a node knows of its branch is so, and with timers that are not     *)
(* early a branch is called finished by its last node only                 *)
(* (bfsclustering.h:451-481, 519-548).                                     *)
(***************************************************************************)
BranchesTrue ==
  /\ \A n \in Node : members[n] \subseteq Under(n)
  /\ prompt => /\ \A f \in air : f.type = "resume" => Under(f.origin) = {}
               /\ \A n \in Node : \A m \in formed[n] : Under(m) = {}

(***************************************************************************)
(* In the end a head knows its members, as far as there is room, and has   *)
(* been told that the cluster is formed; with timers that are not early,   *)
(* of every branch (bfsclustering.h:451-481, 482-511, 519-548).            *)
(***************************************************************************)
ClustersForm ==
  <>[](\A h \in head : enabled[h] =>
         /\ Cardinality(members[h]) < MaxMembers => members[h] = Under(h)
         /\ formed[h] # {}
         /\ prompt => formed[h] = {m \in Under(h) \cup {h} : Under(m) = {}})
==============================================================================
