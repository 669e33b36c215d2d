------------------------------ MODULE MCDsrUses ------------------------------
(***************************************************************************)
(* Three uses of DsrRouting for TLC, one of which is chosen at the start:  *)
(* "orderly", a ring whose radio neither loses nor repeats frames; "full", *)
(* the same with a table too small for it (instance F); and "churn", a     *)
(* line (instance U) whose radio does both, with a node that restarts and  *)
(* a table too small as well.                                              *)
(***************************************************************************)
EXTENDS DsrRouting

CONSTANTS a, b, c

ASSUME UseAssumption == {a, b, c} \subseteq Node /\ a # b /\ b # c

VARIABLE use

Symmetric(E) == E \cup {<<e[2], e[1]>> : e \in E}
Line3 == Symmetric({<<a, b>>, <<b, c>>})
Ring == Symmetric({<<a, b>>, <<b, c>>, <<a, c>>})
AtoBC == {<<a, b>>, <<a, c>>}

F == INSTANCE DsrRouting WITH TableSize <- 2

U == INSTANCE DsrRouting WITH Link <- Line3, Flow <- {<<a, c>>}, TableSize <- 2,
       PathSize <- 4, ByteMod <- 5, Restarting <- {b}, Duplicates <- TRUE, MaxSends <- 1

UseInit == Init /\ use \in {"orderly", "full", "churn"}

UseNext == /\ \/ use = "orderly" /\ Operate
              \/ use = "full" /\ F!Operate
              \/ use = "churn" /\ U!ChurnNext
           /\ UNCHANGED use

(***************************************************************************)
(* The fairness of FairSpec, for the uses that lose nothing.               *)
(***************************************************************************)
UseSpec ==
  /\ UseInit /\ [][UseNext]_<<vars, use>>
  /\ \A n \in Node :
       /\ WF_vars(use # "churn" /\ Enable(n))
       /\ WF_vars(use = "orderly" /\ \E f \in air : Receive(n, f))
       /\ WF_vars(use = "full" /\ \E f \in air : F!Receive(n, f))

(***************************************************************************)
(* The members of DsrRouting; the table and the paths within their sizes   *)
(* (dsr_routing.h:152-157, dsr_routing_types.h:50-52).                     *)
(***************************************************************************)
TypesOK == CASE use = "orderly" -> TypeOK
             [] use = "full"    -> F!TypeOK
             [] use = "churn"   -> U!TypeOK

(***************************************************************************)
(* A path in a table leads from its owner to the destination of the entry  *)
(* over links that exist, whatever is lost, repeated or restarted; one as  *)
(* long as its vector may have been cut off (handle_route_request(),       *)
(* handle_route_reply(): dsr_routing.h:333-439).                           *)
(***************************************************************************)
RoutesAreWalksEver == CASE use = "orderly" -> RoutesAreWalks
                        [] use = "full"    -> F!RoutesAreWalks
                        [] use = "churn"   -> U!RoutesAreWalks

(***************************************************************************)
(* Without repeated frames and restarts, and with room for every node in   *)
(* the table, the index that goes with a path always names the node the    *)
(* frame is on its way to, and no message is delivered twice               *)
(* (dsr_routing.h:333-471, 340-349, 473-506).                              *)
(***************************************************************************)
OrderlyDelivery == use = "orderly" => OnPath /\ DeliveredOnce

(***************************************************************************)
(* What send() accepts reaches its destination when nothing is lost, once  *)
(* and on its path even where the table is full, and the node is ready for *)
(* the next message (dsr_routing.h:262-471).                               *)
(***************************************************************************)
OrderlySendsEnd ==
  use # "churn" => MessagesArrive /\ NotBusyForever /\ [](OnPath /\ DeliveredOnce)
==============================================================================
