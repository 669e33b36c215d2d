----------------------------- MODULE MCTreeUses ------------------------------
(***************************************************************************)
(* Two uses of TreeRouting for TLC, one of which is chosen at the start:   *)
(* "churn", a ring with a chord in which nodes crash and are initialised   *)
(* again, and "planned", a line (instance P) in which the gateways are     *)
(* named before init() and a source sends data.                            *)
(***************************************************************************)
EXTENDS TreeRouting, FiniteSets

CONSTANTS a, b, c, d

VARIABLE use

Symmetric(E) == E \cup {<<e[2], e[1]>> : e \in E}
Line  == Symmetric({<<a, b>>, <<b, c>>, <<c, d>>})
Chord == Symmetric({<<a, b>>, <<b, c>>, <<c, d>>, <<a, c>>})

P == INSTANCE TreeRouting WITH Link <- Line, Source <- {d}

UseInit == \/ use = "churn" /\ ChurnInit
           \/ use = "planned" /\ P!Init

UseNext == /\ \/ use = "churn" /\ ChurnNext
              \/ use = "planned" /\ P!PlannedNext
           /\ UNCHANGED use

(***************************************************************************)
(* The fairness of PlannedSpec, for the use that is planned.               *)
(***************************************************************************)
UseSpec ==
  /\ UseInit /\ [][UseNext]_<<vars, use>>
  /\ \A n \in Node : /\ WF_vars(use = "planned" /\ P!Enable(n))
                     /\ WF_vars(use = "planned" /\ P!TimerElapsed(n))
  /\ \A n, p \in Node : WF_vars(use = "planned" /\ P!HearCurrent(n, p))

(***************************************************************************)
(* Within[k]: the nodes at most k hops away from a gateway, on the line.   *)
(***************************************************************************)
Gateways == {n \in Node : state[n] = "Gateway"}

Within(k) ==
  LET ball[i \in 0..k] ==
        IF i = 0 THEN Gateways
        ELSE ball[i - 1] \cup {n \in Node : \E p \in ball[i - 1] : <<p, n>> \in Line}
  IN ball[k]

(***************************************************************************)
(* Every node ends up, for good, with the shortest hop count to a gateway, *)
(* as long as that count is below 0xff; a node further away stays alone    *)
(* (timer_elapsed(), receive(): tree_routing.h:386-444).                   *)
(***************************************************************************)
ShortestPaths ==
  \A n \in Node :
    /\ hops[n] < INF => n \in Within(hops[n]) /\ n \in Joined
    /\ \A k \in 0..(INF - 1) : n \in Within(k) => hops[n] <= k

Converges == use = "planned" => <>[]ShortestPaths

(***************************************************************************)
(* If the radio loses no data frame, what a node with a parent sends is    *)
(* handed to the receivers of some gateway, through however many changes   *)
(* of the tree (send(), receive(): tree_routing.h:358-384, 450-468).       *)
(***************************************************************************)
DataReachesGateway ==
  use = "planned" /\ P!NoDataLost =>
    \A s \in Node : (\E m \in DataFrames : m.src = s /\ m.to # s)
                      ~> (\E g \in Node : s \in delivered[g])
==============================================================================
