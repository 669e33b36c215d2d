---------------------------- MODULE MCDsrRouting -----------------------------
(***************************************************************************)
(* An instance of DsrRouting for TLC.                                      *)
(***************************************************************************)
EXTENDS DsrRouting

CONSTANTS a, b, c

Symmetric(E) == E \cup {<<e[2], e[1]>> : e \in E}
Line3 == Symmetric({<<a, b>>, <<b, c>>})
EndToEnd == {<<a, c>>, <<c, a>>}

(***************************************************************************)
(* dsr_routing_types.h:50, "Path to destination": an entry of the table,   *)
(* which send() takes for a route, holds a path to its destination.        *)
(***************************************************************************)
EntryHoldsPath ==
  \A n \in Node : \A x \in DOMAIN table[n] : Leads(table[n][x].path, n, x)
==============================================================================
