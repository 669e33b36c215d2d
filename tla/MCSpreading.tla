----------------------------- MODULE MCSpreading -----------------------------
(***************************************************************************)
(* The classes by which a message spreads over a network, the one that     *)
(* finds the neighbors, one that forms clusters and one that collects what *)
(* the nodes of a tree have, for TLC, each on networks of its own: `part'  *)
(* is the one that runs, chosen at the start.                              *)
(***************************************************************************)
EXTENDS Naturals, TLC

CONSTANTS a, b, c, d, All, Null,
          Small, Large,             \* the nodes of the floods and of Echo, of the others
          floodLink, floodFlow, floodTable, floodMod, floodResetting, floodSends, floodHasty,
          treeLink, treeSink, treeSource, treeAnswering, treeMod, treeFloods,
          echoSetups, echoNodes, echoTimeout, echoChains,
          clusterLink, clusterHeads, clusterMod, clusterMembers,
          searchRoot, depthNetworks, breadthNetworks, breadthMod,
          castTrees, castId, castBuffer

VARIABLES part,
          paced, seqNr, known, fAir, fSent, heard, again, rolledBack, behind,
          seq, parent, tAir, flooded, tSent, delivered,
          sLink, announced, begun, sParent, sChildren, neighbours, unvisited, flagged,
          sAir, discovered, sFinished,
          link, bAnnounced, labeled, level, bParent, children, bNeighbours, sendTo,
          echoed, bAir, finished,
          setup, searching, neighborhood, list, pending, chains, owed, told, forgotten,
          head, prompt, enabled, sid, cParent, hops, anyJoined, members, timer, cAir, formed,
          vParent, started, buffer, vAir, vFinished

fVars == <<paced, seqNr, known, fAir, fSent, heard, again, rolledBack, behind>>
tVars == <<seq, parent, tAir, flooded, tSent, delivered>>

sVars == <<sLink, announced, begun, sParent, sChildren, neighbours, unvisited, flagged,
           sAir, discovered, sFinished>>
bVars == <<link, bAnnounced, labeled, level, bParent, children, bNeighbours, sendTo,
           echoed, bAir, finished>>
eVars == <<setup, searching, neighborhood, list, pending, chains, owed, told, forgotten>>
cVars == <<head, prompt, enabled, sid, cParent, hops, anyJoined, members, timer, cAir, formed>>
vVars == <<vParent, started, buffer, vAir, vFinished>>

Line == {<<a, b>>, <<b, a>>, <<b, c>>, <<c, b>>}
Ring == Line \cup {<<a, c>>, <<c, a>>}

AtoAll == {<<a, All>>, <<c, b>>}
Paced  == a :> 4 @@ b :> 0 @@ c :> 1
Hasty  == a :> 3 @@ b :> 0 @@ c :> 0

F == INSTANCE Flooding WITH Node <- Small, Link <- floodLink, Flow <- floodFlow,
       TableSize <- floodTable, SeqMod <- floodMod, Resetting <- floodResetting,
       Sends <- floodSends, HastySends <- floodHasty, air <- fAir, sent <- fSent

T == INSTANCE FloodTree WITH Node <- Small, Sink <- treeSink, Link <- treeLink,
       Source <- treeSource, Answering <- treeAnswering, SeqMod <- treeMod,
       Floods <- treeFloods, air <- tAir, sent <- tSent

(***************************************************************************)
(* A square, one with a diagonal, a triangle behind the root, and a tree.  *)
(***************************************************************************)
Both(l) == l \cup {<<e[2], e[1]>> : e \in l}
Square == Both({<<a, b>>, <<b, c>>, <<c, d>>, <<d, a>>})
Shapes == {Square, Square \cup Both({<<a, c>>}),
           Both({<<a, b>>, <<b, c>>, <<c, d>>, <<d, b>>}),
           Both({<<a, b>>, <<a, c>>, <<c, d>>})}

ShapesAndNone == Shapes \cup {{}}

S == INSTANCE DdfsGraph WITH Node <- Large, Root <- searchRoot, Networks <- depthNetworks,
       link <- sLink, parent <- sParent, children <- sChildren, air <- sAir,
       finished <- sFinished

B == INSTANCE DbfsGraph WITH Node <- Large, Root <- searchRoot, Networks <- breadthNetworks,
       LevelMod <- breadthMod, announced <- bAnnounced, parent <- bParent,
       neighbours <- bNeighbours, air <- bAir

(***************************************************************************)
(* A pair of nodes, one of which is switched off and on and hears nobody   *)
(* else, with room for one neighbor, while a third is heard and no beacon  *)
(* is lost; the pair while beacons are lost; and a circle of one-way links,*)
(* with beacons lost.                                                      *)
(***************************************************************************)
Pair  == {<<a, b>>, <<b, a>>}
Cycle == {<<a, b>>, <<b, c>>, <<c, a>>}

Setup(l, y, s) == [link |-> l, lossy |-> y, switching |-> s]
ThreeSetups == {Setup(Pair \cup {<<c, a>>}, FALSE, {b}), Setup(Pair, TRUE, {b}),
                Setup(Cycle, TRUE, {})}

E == INSTANCE Echo WITH Node <- Small, Setups <- echoSetups, MaxNodes <- echoNodes,
       Timeout <- echoTimeout, MaxChains <- echoChains

(***************************************************************************)
(* A line with a head at each end: they compete for the nodes between.     *)
(***************************************************************************)
Line4 == Both({<<a, b>>, <<b, c>>, <<c, d>>})
Ends  == {{a, d}}

C == INSTANCE BfsClustering WITH Node <- Large, Heads <- clusterHeads, Link <- clusterLink,
       HopMod <- clusterMod, MaxMembers <- clusterMembers, parent <- cParent, air <- cAir

(***************************************************************************)
(* Trees: the one of the example application, a star, a line.              *)
(***************************************************************************)
ThreeTrees == {a :> Null @@ b :> a @@ c :> a @@ d :> c,
               a :> Null @@ b :> a @@ c :> a @@ d :> a,
               a :> Null @@ b :> a @@ c :> b @@ d :> c}

V == INSTANCE Convergecast WITH Node <- Large, Id <- castId, BufferSize <- castBuffer,
       Trees <- castTrees, parent <- vParent, air <- vAir, finished <- vFinished

ASSUME SpreadingAssumption ==
  /\ F!FloodingAssumption /\ T!FloodTreeAssumption /\ E!EchoAssumption
  /\ S!DdfsAssumption /\ B!DbfsAssumption /\ C!ClusteringAssumption
  /\ V!ConvergecastAssumption

(***************************************************************************)
(* Of a part that does not run one initial state is enough.                *)
(***************************************************************************)
Init == /\ part \in {"flooding", "tree", "depth first", "breadth first", "neighbors",
                    "clusters", "collecting"}
        /\ F!Init /\ T!Init /\ S!Init /\ B!Init /\ E!Init /\ C!Init /\ V!Init
        /\ part # "flooding" => paced
        /\ part # "depth first" => sLink = CHOOSE l \in depthNetworks : TRUE
        /\ part # "breadth first" => link = CHOOSE l \in breadthNetworks : TRUE
        /\ part # "neighbors" => ~setup.lossy
        /\ part # "clusters" => prompt
        /\ part # "collecting" => vParent = CHOOSE t \in castTrees : TRUE

Flooding     == part = "flooding" /\ F!Next /\ UNCHANGED <<part, tVars, sVars, bVars, eVars, cVars, vVars>>
FloodTree    == part = "tree" /\ T!Next /\ UNCHANGED <<part, fVars, sVars, bVars, eVars, cVars, vVars>>
DepthFirst   == part = "depth first" /\ S!Next /\ UNCHANGED <<part, fVars, tVars, bVars, eVars, cVars, vVars>>
BreadthFirst == part = "breadth first" /\ B!Next /\ UNCHANGED <<part, fVars, tVars, sVars, eVars, cVars, vVars>>
Discovery    == part = "neighbors" /\ E!Next /\ UNCHANGED <<part, fVars, tVars, sVars, bVars, cVars, vVars>>
Clusters     == part = "clusters" /\ C!Next /\ UNCHANGED <<part, fVars, tVars, sVars, bVars, eVars, vVars>>
Collecting   == part = "collecting" /\ V!Next /\ UNCHANGED <<part, fVars, tVars, sVars, bVars, eVars, cVars>>

vars == <<part, fVars, tVars, sVars, bVars, eVars, cVars, vVars>>

Next == \/ Flooding \/ FloodTree \/ DepthFirst \/ BreadthFirst \/ Discovery \/ Clusters
        \/ Collecting

(***************************************************************************)
(* Nothing is in the air of a flood that does not run.                     *)
(***************************************************************************)
Spec == /\ Init /\ [][Next]_vars
        /\ F!Fairness /\ T!Fairness /\ WF_vars(DepthFirst) /\ WF_vars(BreadthFirst)
        /\ WF_eVars(part = "neighbors" /\ E!GoesOn) /\ WF_cVars(C!GoesOn) /\ V!Fairness

(***************************************************************************)
(* Type correctness of all classes.                                        *)
(***************************************************************************)
TypesOK == /\ part = "flooding" => F!TypeOK
           /\ part = "tree" => T!TypeOK
           /\ part = "depth first" => S!TypeOK
           /\ part = "breadth first" => B!TypeOK
           /\ part = "neighbors" => E!TypeOK
           /\ part = "clusters" => C!TypeOK
           /\ part = "collecting" => V!TypeOK

(***************************************************************************)
(* A node hands a message up once, by whatever ways and in whatever order  *)
(* its copies come: see Flooding (flooding_algorithm.h:237-285).           *)
(***************************************************************************)
HandedOnce == part = "flooding" => F!HandedOnce

(***************************************************************************)
(* The parents that a flooding sink leaves behind never form a circle, and *)
(* results on their way never meet a node without a parent; nor do those   *)
(* of a cluster, and what a node knows of its branch is so: see FloodTree  *)
(* (flooding_nd.h:177-200, forward_on_directed_nd.h:123-148) and           *)
(* BfsClustering (bfsclustering.h:399-409, 451-481, 519-548).              *)
(***************************************************************************)
ParentsLeadHome ==
  /\ part = "tree" => T!NoCircle /\ T!ResultsAscend
  /\ part = "clusters" => C!OneFarther /\ C!NoCircle /\ C!BranchesTrue

(***************************************************************************)
(* A flood of a paced source and the last query of a sink reach all whom   *)
(* they are for, and results reach the sink: see Flooding and FloodTree    *)
(* (flooding_algorithm.h:237-285, flooding_nd.h:177-200,                   *)
(* forward_on_directed_nd.h:123-148).                                      *)
(***************************************************************************)
AllReached == /\ part = "flooding" => F!ReachesAll
              /\ part = "tree" => T!LastQueryReachesAll /\ T!ResultsArrive

(***************************************************************************)
(* A depth first search is in one place at a time and leaves a depth first *)
(* tree; a breadth first search gives each node its distance, and is over  *)
(* when the root says so; a convergecast counts each node of a tree once,  *)
(* and tells the root once: see DdfsGraph (ddfs_graph.h:262-349), DbfsGraph*)
(* (dbfs_graph.h:287-402), Convergecast (Convergecast.h:90-155).           *)
(***************************************************************************)
SearchesMakeTrees ==
  /\ part = "depth first" => S!OneSearch /\ S!DepthFirstTree
  /\ part = "breadth first" => B!LevelIsDistance /\ B!FinishedTree
  /\ part = "collecting" => V!CountedOnce

(***************************************************************************)
(* Neighbors are heard, bidirectional ones hear each other, and algorithms *)
(* are told of them and of their loss: see Echo (echo.h:704-829, 977-990,  *)
(* 1120-1193).                                                             *)
(***************************************************************************)
NeighborsKnown == part = "neighbors" => E!EventsTell /\ E!BidiBothWays

(***************************************************************************)
(* Nodes that fall silent are dropped, and neighbors are found: see Echo   *)
(* (echo.h:280-286, 917-1040, 1120-1193).                                  *)
(***************************************************************************)
NeighborsSettle == <>[](part = "neighbors" => E!SilentDropped /\ E!NeighborsFound)

(***************************************************************************)
(* Floods, both searches and convergecasts come to an end, clusters form   *)
(* (flooding_algorithm.h:270, ddfs_graph.h:296-313, dbfs_graph.h:367,      *)
(* bfsclustering.h:451-511, 519-548, Convergecast.h:73-155).               *)
(***************************************************************************)
AllEnd == /\ part = "flooding" => F!FloodsEnd
          /\ part = "depth first" => S!Finishes
          /\ part = "breadth first" => B!Finishes
          /\ part = "clusters" => C!ClustersForm
          /\ part = "collecting" => V!EndsAtRoot
==============================================================================
