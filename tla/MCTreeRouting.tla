---------------------------- MODULE MCTreeRouting ----------------------------
(***************************************************************************)
(* Instances of TreeRouting for TLC: a triangle and a line.                *)
(***************************************************************************)
EXTENDS TreeRouting

CONSTANTS a, b, c

Symmetric(E) == E \cup {<<e[2], e[1]>> : e \in E}
Line3 == Symmetric({<<a, b>>, <<b, c>>})
Triangle == Symmetric({<<a, b>>, <<b, c>>, <<a, c>>})

(***************************************************************************)
(* tree_routing.h:230: a reconnection is started when the connection to    *)
(* the tree got lost: a node does not keep a parent that is gone for good. *)
(***************************************************************************)
ReconnectsAfterLoss ==
  \A n, p \in Node : n # p /\ <>[](~up[p]) => []<>(~up[n] \/ parent[n] # p)
==============================================================================
