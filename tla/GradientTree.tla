---------------------------- MODULE GradientTree -----------------------------
(***************************************************************************)
(* What tree routing (tree_routing.h) promises, without frames and timers: *)
(* nodes start as a root at level 0 or alone at level Far, and a started   *)
(* node moves only below a neighbour that is a member already, to a level  *)
(* beyond that neighbour's and better than its own.                        *)
(***************************************************************************)
EXTENDS Integers

CONSTANTS Node, Null, Link, INF

VARIABLES started, parent, level

treeVars == <<started, parent, level>>

Member(n) == parent[n] # Null

Init == /\ started = [n \in Node |-> FALSE]
        /\ parent = [n \in Node |-> Null]
        /\ level = [n \in Node |-> 0]

Start(n, p, l) == /\ ~started[n]
                  /\ <<p, l>> \in {<<n, 0>>, <<Null, INF>>}
                  /\ started' = [started EXCEPT ![n] = TRUE]
                  /\ parent' = [parent EXCEPT ![n] = p]
                  /\ level' = [level EXCEPT ![n] = l]

Join(n, p, l) == /\ started[n] /\ Member(p)
                 /\ <<p, n>> \in Link
                 /\ level[p] < l /\ l < level[n]
                 /\ parent' = [parent EXCEPT ![n] = p]
                 /\ level' = [level EXCEPT ![n] = l]
                 /\ UNCHANGED started

Next == \E n \in Node : \/ \E p \in Node \cup {Null}, l \in {0, INF} : Start(n, p, l)
                        \/ \E p \in Node, l \in 0..INF : Join(n, p, l)

Spec == Init /\ [][Next]_treeVars
==============================================================================
