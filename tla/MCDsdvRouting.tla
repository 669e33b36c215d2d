---------------------------- MODULE MCDsdvRouting ----------------------------
(***************************************************************************)
(* Two networks of DsdvRouting for TLC, `part' being the one that runs:    *)
(* "any use", four nodes whose tables are too small, with the names of     *)
(* DsdvRouting, and "fair" (instance R), three nodes whose timers fire.    *)
(***************************************************************************)
EXTENDS DsdvRouting

CONSTANTS a, b, c, d

VARIABLES part, rNext, rHops, rUp, rAir, rDelivered

rVars == <<rNext, rHops, rUp, rAir, rDelivered>>

Symmetric(E) == E \cup {<<e[2], e[1]>> : e \in E}
Line3 == Symmetric({<<a, b>>, <<b, c>>})
Line4 == Symmetric({<<a, b>>, <<b, c>>, <<c, d>>})
Ends4 == {<<a, d>>}
Shortcut == Line4 \cup {<<a, c>>}
Shortcut3 == Line3 \cup {<<a, c>>}
Three == {a, b, c}

R == INSTANCE DsdvRouting WITH Node <- Three, Link <- Shortcut3, MaxEntries <- 1,
       Flow <- {<<a, c>>}, next <- rNext, hops <- rHops, up <- rUp, air <- rAir,
       delivered <- rDelivered

PartInit == part \in {"any use", "fair"} /\ Init /\ R!Init

PartNext == \/ part = "any use" /\ Next /\ UNCHANGED <<part, rVars>>
            \/ part = "fair" /\ R!Next /\ UNCHANGED <<part, vars>>

(***************************************************************************)
(* The fairness of FairSpec, for the part that is fair.                    *)
(***************************************************************************)
PartSpec ==
  /\ PartInit /\ [][PartNext]_<<part, vars, rVars>>
  /\ \A n \in Three : /\ WF_rVars(part = "fair" /\ R!Enable(n))
                      /\ WF_rVars(part = "fair" /\ R!TimerElapsed(n))
  /\ \A n, p \in Three : WF_rVars(part = "fair" /\ R!HearCurrent(n, p))

(***************************************************************************)
(* ball[i] : the nodes at most i hops from dest.                           *)
(***************************************************************************)
Within(dest, k) ==
  LET ball[i \in 0..k] ==
        IF i = 0 THEN {dest}
        ELSE ball[i - 1]
               \cup {n \in Three : \E p \in ball[i - 1] : <<p, n>> \in Shortcut3}
  IN ball[k]

(***************************************************************************)
(* With tables large enough, every table ends up complete and shortest     *)
(* (timer_elapsed(), receive(): dsdv_routing.h:292-441).                   *)
(***************************************************************************)
ShortestRoutes ==
  \A n, dest \in Three : n # dest =>
    \A k \in 1..Cardinality(Three) :
      n \in Within(dest, k) => dest \in R!Known(n) /\ rHops[n][dest] <= k

Converges == part = "fair" => <>[]ShortestRoutes

(***************************************************************************)
(* If the radio loses no routing message, what send() accepted reaches the *)
(* receivers at its destination, even while the tables still change        *)
(* (dsdv_routing.h:258-290, 352-391).                                      *)
(***************************************************************************)
DataArrives ==
  part = "fair" /\ R!NoDataLost => \A s, dest \in Three :
    (\E f \in R!DataFrames : f.src = s /\ f.dst = dest) ~> (s \in rDelivered[dest])
==============================================================================
