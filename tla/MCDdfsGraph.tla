---------------------------- MODULE MCDdfsGraph ------------------------------
(***************************************************************************)
(* DdfsGraph for TLC, on a network with a node of one neighbour.           *)
(***************************************************************************)
EXTENDS DdfsGraph

CONSTANTS a, b, c, d

TriangleAndLeaf == {{<<a, b>>, <<b, c>>, <<c, a>>, <<a, d>>}
                    \cup {<<b, a>>, <<c, b>>, <<a, c>>, <<d, a>>}}
==============================================================================
