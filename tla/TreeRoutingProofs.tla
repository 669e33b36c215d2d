-------------------------- MODULE TreeRoutingProofs --------------------------
(***************************************************************************)
(* Proofs about TreeRouting, for every set of nodes, topology and INF.     *)
(***************************************************************************)
EXTENDS TreeRouting, WellFoundedInduction, TLAPS

(***************************************************************************)
(* The inductive invariant: a node that is not enabled has no parent and   *)
(* has sent nothing; a parent is a member with a smaller hop count; and    *)
(* no announcement in the air is better than its sender is now.            *)
(***************************************************************************)
Silent == \A n \in Node : ~up[n] => parent[n] = Null /\ \A m \in air : m.from # n

Orphans == \A n \in Node : up[n] /\ parent[n] = Null => hops[n] = INF

Descending ==
  \A n \in Node :
    parent[n] \notin {n, Null} => /\ parent[n] \in Joined
                                  /\ hops[parent[n]] < hops[n]

Honest == \A m \in Announcements : hops[m.from] <= m.hops

IInv == TypeOK /\ Silent /\ Orphans /\ Descending /\ Honest /\ DataDescends

(***************************************************************************)
(* What an announcement that improves a node says about its sender.        *)
(***************************************************************************)
LEMMA GoodSender ==
  ASSUME IInv, NEW n \in Node, NEW m \in Announcements, ReceiveBroadcast(n, m)
  PROVE  /\ m.from \in Node /\ m.from # n /\ m.hops \in 0..INF
         /\ up[n] /\ up[m.from] /\ m.from \in Joined
         /\ hops[m.from] <= m.hops
         /\ m.hops + 1 \in 0..INF /\ m.hops + 1 < hops[n]
<1>1. m \in Frame /\ m.type = "broadcast"
  BY DEF IInv, TypeOK, Announcements
<1>2. m.from \in Node /\ m.hops \in 0..INF
  BY <1>1 DEF Frame
<1>3. m.from # n /\ up[n] /\ m.hops + 1 < hops[n] /\ hops[n] \in 0..INF
  BY DEF ReceiveBroadcast, Improves, IInv, TypeOK
<1>4. up[m.from]
  BY <1>2 DEF IInv, Silent, Announcements
<1>5. hops[m.from] <= m.hops
  BY DEF IInv, Honest
<1>6. m.from \in Joined
  BY <1>2, <1>3, <1>4, <1>5, TreeAssumption DEF IInv, Orphans, Joined, TypeOK
<1> QED
  BY <1>2, <1>3, <1>4, <1>5, <1>6, TreeAssumption

(***************************************************************************)
(* The type invariant is inductive given what GoodSender says.             *)
(***************************************************************************)
LEMMA TypeStep == IInv /\ [Next]_vars => TypeOK'
<1> SUFFICES ASSUME IInv, [Next]_vars PROVE TypeOK'
  OBVIOUS
<1> USE TreeAssumption DEF IInv, TypeOK
<1>1. ASSUME NEW n \in Node, NEW sink \in BOOLEAN, SetSink(n, sink) PROVE TypeOK'
  BY <1>1 DEF SetSink, State
<1>2. ASSUME NEW n \in Node, Enable(n) PROVE TypeOK'
  BY <1>2 DEF Enable, InitRouting, StartAs, State
<1>3. ASSUME NEW n \in Node, TimerElapsed(n) PROVE TypeOK'
  BY <1>3 DEF TimerElapsed, Announcement, Frame
<1>4. ASSUME NEW n \in Node, NEW m \in Announcements, ReceiveBroadcast(n, m)
      PROVE TypeOK'
  <2>1. m.from \in Node /\ m.hops + 1 \in 0..INF
    BY <1>4, GoodSender
  <2> QED BY <1>4, <2>1 DEF ReceiveBroadcast, State
<1>5. ASSUME NEW n \in Node, NEW m \in DataFrames, DeliverData(n, m) PROVE TypeOK'
  <2>1. m.src \in Node
    BY DEF DataFrames, Frame
  <2> QED BY <1>5, <2>1 DEF DeliverData
<1>6. ASSUME NEW n \in Node, NEW m \in DataFrames, ForwardData(n, m) PROVE TypeOK'
  <2>1. m.src \in Node
    BY DEF DataFrames, Frame
  <2> QED BY <1>6, <2>1 DEF ForwardData, DataFrame, Frame
<1>7. ASSUME NEW n \in Node, Send(n) PROVE TypeOK'
  BY <1>7 DEF Send, DataFrame, Frame
<1>8. CASE UNCHANGED vars
  BY <1>8 DEF vars
<1> QED
  BY <1>1, <1>2, <1>3, <1>4, <1>5, <1>6, <1>7, <1>8 DEF Next, Operate

(***************************************************************************)
(* A step that only adds frames keeps the invariant, if each one it adds   *)
(* is honest, comes from an enabled node, and descends.                    *)
(***************************************************************************)
LEMMA NewFrameStep ==
  ASSUME IInv, TypeOK', UNCHANGED <<state, parent, hops, up, delivered>>,
         NEW f, air' = air \cup {f}, up[f.from],
         f.type = "broadcast" => hops[f.from] <= f.hops,
         f.type = "routing" /\ f.to # f.from => hops[f.to] < f.hops /\ f.to \in Joined
  PROVE  IInv'
BY DEF IInv, Silent, Orphans, Descending, Honest, DataDescends, Announcements,
       DataFrames, Joined

(***************************************************************************)
(* Adopting a parent only lowers the hop count of the adopter.             *)
(***************************************************************************)
LEMMA ReceiveStep ==
  ASSUME IInv, TypeOK', NEW n \in Node, NEW m \in Announcements,
         ReceiveBroadcast(n, m)
  PROVE  IInv'
<1> USE TreeAssumption DEF IInv, TypeOK
<1>1. /\ m.from \in Node /\ m.from # n /\ up[n] /\ up[m.from]
      /\ m.from \in Joined /\ hops[m.from] <= m.hops
      /\ m.hops \in 0..INF /\ m.hops + 1 < hops[n]
  BY GoodSender
<1>2. /\ \A q \in Node : q # n => hops'[q] = hops[q] /\ parent'[q] = parent[q]
      /\ hops'[n] = m.hops + 1 /\ parent'[n] = m.from
      /\ UNCHANGED <<up, air>>
  BY DEF ReceiveBroadcast
<1>3. \A q \in Node : hops'[q] <= hops[q]
  BY <1>1, <1>2
<1>4. Joined' = Joined \cup {n}
  BY <1>1, <1>2 DEF Joined
<1>5. Silent'
  BY <1>1, <1>2 DEF Silent
<1>6. Orphans'
  BY <1>1, <1>2 DEF Orphans
<1>7. Descending'
  <2> SUFFICES ASSUME NEW q \in Node, parent'[q] \notin {q, Null}
               PROVE  parent'[q] \in Joined' /\ hops'[parent'[q]] < hops'[q]
    BY DEF Descending
  <2>1. CASE q = n
    BY <2>1, <1>1, <1>2, <1>4
  <2>2. CASE q # n
    <3>1. parent[q] \in Joined /\ hops[parent[q]] < hops[q] /\ parent[q] \in Node
      BY <2>2, <1>2 DEF Descending
    <3> QED BY <3>1, <2>2, <1>2, <1>3, <1>4
  <2> QED BY <2>1, <2>2
<1>8. Honest'
  <2> SUFFICES ASSUME NEW f \in Announcements' PROVE hops'[f.from] <= f.hops
    BY DEF Honest
  <2>1. f \in Announcements /\ f.from \in Node /\ f.hops \in 0..INF
    BY <1>2 DEF Announcements, Frame
  <2> QED BY <2>1, <1>3 DEF Honest
<1>9. DataDescends'
  <2> SUFFICES ASSUME NEW f \in DataFrames', f.to # f.from
               PROVE  hops'[f.to] < f.hops /\ f.to \in Joined'
    BY DEF DataDescends
  <2>1. f \in DataFrames /\ f.to \in Node /\ f.hops \in 0..INF
    BY <1>2 DEF DataFrames, Frame
  <2> QED BY <2>1, <1>3, <1>4 DEF DataDescends
<1> QED BY <1>5, <1>6, <1>7, <1>8, <1>9

LEMMA EnableStep ==
  ASSUME IInv, TypeOK', NEW n \in Node, Enable(n)
  PROVE  IInv'
<1> USE TreeAssumption DEF IInv, TypeOK
<1>1. /\ ~up[n] /\ parent[n] = Null
      /\ \A m \in air : m.from # n
  BY DEF Enable, Silent
<1>2. /\ \A q \in Node : q # n => /\ hops'[q] = hops[q] /\ parent'[q] = parent[q]
                                  /\ up'[q] = up[q]
      /\ \/ parent'[n] = n /\ hops'[n] = 0
         \/ parent'[n] = Null /\ hops'[n] = INF
      /\ up'[n] /\ UNCHANGED air
  BY DEF Enable, InitRouting, StartAs
<1>3. \A q \in Joined : q # n /\ q \in Joined' /\ hops'[q] = hops[q]
  BY <1>1, <1>2 DEF Joined
<1>4. Silent'
  BY <1>2 DEF Silent
<1>5. Orphans'
  BY <1>2 DEF Orphans
<1>6. Descending'
  BY <1>1, <1>2, <1>3 DEF Descending
<1>7. Honest'
  <2> SUFFICES ASSUME NEW f \in Announcements' PROVE hops'[f.from] <= f.hops
    BY DEF Honest
  <2>1. f \in Announcements /\ f.from \in Node /\ f.from # n
    BY <1>1, <1>2 DEF Announcements, Frame
  <2> QED BY <2>1, <1>2 DEF Honest
<1>8. DataDescends'
  <2> SUFFICES ASSUME NEW f \in DataFrames', f.to # f.from
               PROVE  hops'[f.to] < f.hops /\ f.to \in Joined'
    BY DEF DataDescends
  <2>1. f \in DataFrames /\ hops[f.to] < f.hops /\ f.to \in Joined
    BY <1>2 DEF DataFrames, DataDescends
  <2> QED BY <2>1, <1>3
<1> QED BY <1>4, <1>5, <1>6, <1>7, <1>8

LEMMA SameTreeStep ==
  ASSUME IInv, TypeOK', UNCHANGED <<parent, hops, up, air>>
  PROVE  IInv'
BY DEF IInv, Silent, Orphans, Descending, Honest, DataDescends, Announcements,
       DataFrames, Joined

LEMMA InductiveStep == IInv /\ [Next]_vars => IInv'
<1> SUFFICES ASSUME IInv, [Next]_vars PROVE IInv'
  OBVIOUS
<1>0. TypeOK'
  BY TypeStep
<1>1. ASSUME NEW n \in Node, NEW sink \in BOOLEAN, SetSink(n, sink) PROVE IInv'
  BY <1>0, <1>1, SameTreeStep DEF SetSink
<1>2. ASSUME NEW n \in Node, Enable(n) PROVE IInv'
  BY <1>0, <1>2, EnableStep
<1>3. ASSUME NEW n \in Node, TimerElapsed(n) PROVE IInv'
  <2>1. /\ Announcement(n).type = "broadcast" /\ Announcement(n).from = n
        /\ Announcement(n).hops = hops[n]
    BY DEF Announcement
  <2>2. hops[n] <= hops[n]
    BY DEF IInv, TypeOK
  <2> QED BY <1>0, <1>3, <2>1, <2>2, NewFrameStep DEF TimerElapsed
<1>4. ASSUME NEW n \in Node, NEW m \in Announcements, ReceiveBroadcast(n, m)
      PROVE IInv'
  BY <1>0, <1>4, ReceiveStep
<1>5. ASSUME NEW n \in Node, NEW m \in DataFrames, DeliverData(n, m) PROVE IInv'
  BY <1>0, <1>5, SameTreeStep DEF DeliverData
<1>6. ASSUME NEW n \in Node, NEW s \in Node, parent[n] # Null,
             air' = air \cup {DataFrame(n, s)},
             UNCHANGED <<state, parent, hops, up, delivered>>
      PROVE  IInv'
  <2>1. /\ DataFrame(n, s).type = "routing" /\ DataFrame(n, s).from = n
        /\ DataFrame(n, s).to = parent[n] /\ DataFrame(n, s).hops = hops[n]
    BY DEF DataFrame
  <2>2. up[n]
    BY <1>6 DEF IInv, Silent
  <2>3. parent[n] # n => hops[parent[n]] < hops[n] /\ parent[n] \in Joined
    BY <1>6 DEF IInv, Descending
  <2> QED BY <1>0, <1>6, <2>1, <2>2, <2>3, NewFrameStep
<1>7. ASSUME NEW n \in Node, NEW m \in DataFrames, ForwardData(n, m) PROVE IInv'
  <2>1. m.src \in Node
    BY DEF IInv, TypeOK, DataFrames, Frame
  <2> QED BY <1>6, <1>7, <2>1 DEF ForwardData
<1>8. ASSUME NEW n \in Node, Send(n) PROVE IInv'
  BY <1>6, <1>8 DEF Send
<1>9. CASE UNCHANGED vars
  BY <1>0, <1>9, SameTreeStep DEF vars
<1> QED
  BY <1>1, <1>2, <1>3, <1>4, <1>5, <1>7, <1>8, <1>9 DEF Next, Operate

LEMMA Initially == Init => IInv
BY TreeAssumption
   DEF Init, IInv, TypeOK, State, Frame, Silent, Orphans, Descending, Honest,
       DataDescends, Announcements, DataFrames

THEOREM Invariance == Spec => []IInv
BY Initially, InductiveStep, PTL DEF Spec

(***************************************************************************)
(* The members of the class stay in their types (tree_routing.h:225-234).  *)
(***************************************************************************)
THEOREM TypeCorrect == Spec => []TypeOK
<1>1. IInv => TypeOK
  BY DEF IInv
<1> QED BY <1>1, Invariance, PTL

(***************************************************************************)
(* A routing frame never climbs back up the tree and is never addressed to *)
(* a node that would drop it (tree_routing.h:450-468).                     *)
(***************************************************************************)
THEOREM DataAlwaysDescends == Spec => []DataDescends
<1>1. IInv => DataDescends
  BY DEF IInv
<1> QED BY <1>1, Invariance, PTL

(***************************************************************************)
(* No routing loop, however late, often or disordered announcements arrive *)
(* and whenever set_sink() is called: a closed set of joined nodes has a   *)
(* member with the least hop count, and only a root has no parent below    *)
(* itself (tree_routing.h:436-444).                                        *)
(***************************************************************************)
THEOREM NoLoops == Spec => []NoParentCycle
<1>1. IInv => NoParentCycle
  <2> SUFFICES ASSUME IInv, NEW S \in SUBSET Joined, S # {},
                      \A n \in S : parent[n] \in S
               PROVE  \E r \in S : parent[r] = r
    BY DEF NoParentCycle
  <2> DEFINE L == {hops[n] : n \in S}
  <2>1. L \subseteq Nat /\ L # {}
    BY DEF IInv, TypeOK, Joined
  <2>2. PICK l \in L : \A k \in L : ~(<<k, l>> \in OpToRel(<, Nat))
    BY <2>1, NatLessThanWellFounded, WFMin
  <2>3. \A k \in L : ~(k < l)
    BY <2>1, <2>2 DEF OpToRel
  <2>4. PICK r \in S : hops[r] = l
    OBVIOUS
  <2>5. parent[r] = r
    <3> SUFFICES ASSUME parent[r] # r PROVE FALSE
      OBVIOUS
    <3>1. r \in Node /\ parent[r] # Null /\ parent[r] \in S
      BY DEF Joined
    <3>2. hops[parent[r]] < hops[r]
      BY <3>1 DEF IInv, Descending
    <3> QED BY <3>1, <3>2, <2>3, <2>4
  <2> QED BY <2>5
<1> QED BY <1>1, Invariance, PTL

(***************************************************************************)
(* Tree routing implements GradientTree: enable_radio() is Start, adopting *)
(* a parent is Join, and everything else leaves the tree alone             *)
(* (tree_routing.h:294-328, 436-444).                                      *)
(***************************************************************************)
THEOREM ImplementsGradientTree == Spec => TreeSpec
<1>1. Init => Tree!Init
  BY DEF Init, Tree!Init
<1>2. IInv /\ [Next]_vars => [Tree!Next]_(Tree!treeVars)
  <2> SUFFICES ASSUME IInv, [Next]_vars
               PROVE  Tree!Next \/ UNCHANGED Tree!treeVars
    OBVIOUS
  <2> USE DEF Tree!treeVars
  <2>1. ASSUME NEW n \in Node, Enable(n) PROVE Tree!Next
    <3>1. CASE state[n] = "Gateway"
      <4>1. Tree!Start(n, n, 0)
        BY <2>1, <3>1 DEF Enable, InitRouting, StartAs, Tree!Start
      <4> QED BY <4>1 DEF Tree!Next
    <3>2. CASE state[n] # "Gateway"
      <4>1. Tree!Start(n, Null, INF)
        BY <2>1, <3>2 DEF Enable, InitRouting, StartAs, Tree!Start
      <4> QED BY <4>1 DEF Tree!Next
    <3> QED BY <3>1, <3>2
  <2>2. ASSUME NEW n \in Node, NEW m \in Announcements, ReceiveBroadcast(n, m)
        PROVE  Tree!Next
    <3>1. /\ m.from \in Node /\ m.from \in Joined /\ up[n]
          /\ hops[m.from] <= m.hops /\ m.hops \in 0..INF
          /\ m.hops + 1 \in 0..INF /\ m.hops + 1 < hops[n]
      BY <2>2, GoodSender
    <3>2. hops[m.from] < m.hops + 1
      BY <3>1 DEF IInv, TypeOK
    <3>3. Tree!Join(n, m.from, m.hops + 1)
      BY <2>2, <3>1, <3>2 DEF ReceiveBroadcast, Tree!Join, Tree!Member, Joined
    <3> QED BY <3>1, <3>3 DEF Tree!Next
  <2>3. ASSUME NEW n \in Node,
               \/ \E sink \in BOOLEAN : SetSink(n, sink)
               \/ TimerElapsed(n)
               \/ \E m \in DataFrames : DeliverData(n, m) \/ ForwardData(n, m)
               \/ Send(n)
        PROVE  UNCHANGED Tree!treeVars
    BY <2>3 DEF SetSink, TimerElapsed, DeliverData, ForwardData, Send
  <2>4. CASE UNCHANGED vars
    BY <2>4 DEF vars
  <2> QED BY <2>1, <2>2, <2>3, <2>4 DEF Next, Operate
<1> QED BY <1>1, <1>2, Invariance, PTL DEF Spec, TreeSpec, Tree!Spec
------------------------------------------------------------------------------
(***************************************************************************)
(* Crashes and repeated init().  The roles are fixed, so the roots are the *)
(* gateways, and what keeps hop counts above every potential is that the   *)
(* announcements in the air, old ones included, are above it.              *)
(***************************************************************************)
Above(D) == /\ \A n \in Node : up[n] => hops[n] >= D[n]
            /\ \A m \in Announcements : m.hops >= D[m.from]

Roles == \A n \in Node :
           /\ state[n] = "Gateway" /\ up[n] => parent[n] = n /\ hops[n] = 0
           /\ state[n] # "Gateway" => parent[n] # n
           /\ ~up[n] => parent[n] = Null

Truthful == \A D \in Potentials : (\A r \in Roots : D[r] = 0) => Above(D)

ChurnInv == TypeOK /\ Roles /\ Truthful

LEMMA RootsAreGateways ==
  ASSUME TypeOK, Roles PROVE Roots = {n \in Node : state[n] = "Gateway"}
BY TreeAssumption DEF Roots, Roles, TypeOK

LEMMA ChurnTypeStep == ChurnInv /\ [ChurnNext]_vars => TypeOK' /\ Roles'
<1> SUFFICES ASSUME ChurnInv, [ChurnNext]_vars PROVE TypeOK' /\ Roles'
  OBVIOUS
<1> USE TreeAssumption DEF ChurnInv, TypeOK, Roles
<1>1. ASSUME NEW n \in Node, Enable(n) \/ InitRouting(n) PROVE TypeOK' /\ Roles'
  <2>1. PICK s \in State : StartAs(n, s) /\ (s = "Gateway" <=> state[n] = "Gateway")
    BY <1>1 DEF Enable, InitRouting, State
  <2>2. TypeOK'
    BY <2>1 DEF StartAs
  <2>3. ASSUME NEW q \in Node
        PROVE  /\ state'[q] = "Gateway" /\ up'[q] => parent'[q] = q /\ hops'[q] = 0
               /\ state'[q] # "Gateway" => parent'[q] # q
               /\ ~up'[q] => parent'[q] = Null
    BY <2>1 DEF StartAs
  <2> QED BY <2>2, <2>3
<1>2. ASSUME NEW n \in Node, TimerElapsed(n) PROVE TypeOK' /\ Roles'
  BY <1>2 DEF TimerElapsed, Announcement, Frame
<1>3. ASSUME NEW n \in Node, NEW m \in Announcements, ReceiveBroadcast(n, m)
      PROVE TypeOK' /\ Roles'
  <2>1. m.from \in Node /\ m.hops \in 0..INF
    BY DEF Announcements, Frame
  <2>2. up[n] /\ m.from # n /\ m.hops + 1 < hops[n] /\ hops[n] \in 0..INF
    BY <1>3 DEF ReceiveBroadcast, Improves
  <2>3. state[n] # "Gateway"
    BY <2>1, <2>2
  <2> QED BY <1>3, <2>1, <2>2, <2>3 DEF ReceiveBroadcast, State
<1>4. ASSUME NEW n \in Node, NEW m \in DataFrames,
             DeliverData(n, m) \/ ForwardData(n, m)
      PROVE TypeOK' /\ Roles'
  <2>1. m.src \in Node
    BY DEF DataFrames, Frame
  <2> QED BY <1>4, <2>1 DEF DeliverData, ForwardData, DataFrame, Frame
<1>5. ASSUME NEW n \in Node, Send(n) PROVE TypeOK' /\ Roles'
  BY <1>5 DEF Send, DataFrame, Frame
<1>6. ASSUME NEW n \in Node, Crash(n) PROVE TypeOK' /\ Roles'
  BY <1>6 DEF Crash, Constructed, State
<1>7. CASE UNCHANGED vars
  BY <1>7 DEF vars
<1> QED
  BY <1>1, <1>2, <1>3, <1>4, <1>5, <1>6, <1>7 DEF ChurnNext, Operate

LEMMA SameGateways ==
  ASSUME ChurnInv, [ChurnNext]_vars PROVE Roots' = Roots
<1> USE TreeAssumption DEF ChurnInv, TypeOK
<1>1. \A n \in Node : (state'[n] = "Gateway") <=> (state[n] = "Gateway")
  <2>1. ASSUME NEW n \in Node, NEW m \in Announcements, ReceiveBroadcast(n, m)
        PROVE  \A q \in Node : (state'[q] = "Gateway") <=> (state[q] = "Gateway")
    <3>1. m.hops \in 0..INF
      BY DEF Announcements, Frame
    <3>2. state[n] # "Gateway"
      BY <2>1, <3>1 DEF ReceiveBroadcast, Improves, Roles
    <3> QED BY <2>1, <3>2 DEF ReceiveBroadcast
  <2>2. ASSUME NEW n \in Node, Enable(n) \/ InitRouting(n) \/ Crash(n)
        PROVE  \A q \in Node : (state'[q] = "Gateway") <=> (state[q] = "Gateway")
    BY <2>2 DEF Enable, InitRouting, StartAs, Crash, Constructed
  <2>3. ASSUME NEW n \in Node,
               \/ TimerElapsed(n)
               \/ \E m \in DataFrames : DeliverData(n, m) \/ ForwardData(n, m)
               \/ Send(n)
        PROVE  state' = state
    BY <2>3 DEF TimerElapsed, DeliverData, ForwardData, Send
  <2>4. CASE UNCHANGED vars
    BY <2>4 DEF vars
  <2> QED BY <2>1, <2>2, <2>3, <2>4 DEF ChurnNext, Operate
<1>2. TypeOK' /\ Roles'
  BY ChurnTypeStep
<1>3. Roots' = {n \in Node : state'[n] = "Gateway"}
  BY <1>2, TreeAssumption DEF Roots, Roles, TypeOK
<1> QED BY <1>1, <1>3, RootsAreGateways

LEMMA AboveStep ==
  ASSUME ChurnInv, [ChurnNext]_vars, NEW D \in Potentials,
         \A r \in Roots : D[r] = 0
  PROVE  Above(D)'
<1> USE TreeAssumption DEF ChurnInv, TypeOK, Potentials
<1>1. Above(D) /\ TypeOK'
  BY ChurnTypeStep DEF Truthful
<1>2. ASSUME NEW n \in Node, Enable(n) \/ InitRouting(n) PROVE Above(D)'
  <2>1. state[n] = "Gateway" => D[n] = 0
    BY RootsAreGateways
  <2> QED BY <1>1, <1>2, <2>1 DEF Above, Announcements, Enable, InitRouting, StartAs
<1>3. ASSUME NEW n \in Node, TimerElapsed(n) PROVE Above(D)'
  BY <1>1, <1>3 DEF Above, Announcements, TimerElapsed, Announcement
<1>4. ASSUME NEW n \in Node, NEW m \in Announcements, ReceiveBroadcast(n, m)
      PROVE Above(D)'
  <2>1. m.from \in Node /\ m.hops \in 0..INF /\ <<m.from, n>> \in Link
    BY <1>4 DEF ReceiveBroadcast, Announcements, Frame
  <2>2. D[n] <= D[m.from] + 1 /\ m.hops >= D[m.from]
    <3>1. \A l \in Link : D[l[2]] <= D[l[1]] + 1
      OBVIOUS
    <3> QED BY <3>1, <2>1, <1>1 DEF Above
  <2>3. m.hops + 1 >= D[n]
    BY <2>1, <2>2
  <2> QED BY <1>1, <1>4, <2>1, <2>3 DEF Above, Announcements, ReceiveBroadcast
<1>5. ASSUME NEW n \in Node, NEW m \in DataFrames,
             DeliverData(n, m) \/ ForwardData(n, m)
      PROVE Above(D)'
  BY <1>1, <1>5 DEF Above, Announcements, DeliverData, ForwardData, DataFrame
<1>6. ASSUME NEW n \in Node, Send(n) PROVE Above(D)'
  BY <1>1, <1>6 DEF Above, Announcements, Send, DataFrame
<1>7. ASSUME NEW n \in Node, Crash(n) PROVE Above(D)'
  BY <1>1, <1>7 DEF Above, Announcements, Crash, Constructed
<1>8. CASE UNCHANGED vars
  BY <1>1, <1>8 DEF Above, Announcements, vars
<1> QED
  BY <1>2, <1>3, <1>4, <1>5, <1>6, <1>7, <1>8 DEF ChurnNext, Operate

(***************************************************************************)
(* In a network with crashes, reboots and repeated init(), no node ever    *)
(* claims to be closer to a gateway than any potential on the topology     *)
(* allows, the true distance in particular (tree_routing.h:294-328,        *)
(* 436-444).                                                               *)
(***************************************************************************)
THEOREM NeverTooCloseUnderChurn == ChurnSpec => []NeverTooClose
<1>1. ChurnInit => ChurnInv
  BY TreeAssumption
     DEF ChurnInit, ChurnInv, TypeOK, State, Frame, Roles, Truthful, Above,
         Announcements
<1>2. ChurnInv /\ [ChurnNext]_vars => ChurnInv'
  <2> SUFFICES ASSUME ChurnInv, [ChurnNext]_vars PROVE Truthful'
    BY ChurnTypeStep DEF ChurnInv
  <2> SUFFICES ASSUME NEW D \in Potentials, \A r \in Roots' : D[r] = 0
               PROVE  Above(D)'
    BY DEF Truthful, Potentials
  <2> QED BY SameGateways, AboveStep
<1>3. ChurnInv => NeverTooClose
  BY DEF ChurnInv, Truthful, NeverTooClose, Above
<1> QED BY <1>1, <1>2, <1>3, PTL DEF ChurnSpec
==============================================================================
