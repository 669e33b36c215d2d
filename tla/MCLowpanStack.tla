---------------------------- MODULE MCLowpanStack ---------------------------
(***************************************************************************)
(* LowpanStack for TLC, with a neighbour whose radio may refuse a frame.   *)
(***************************************************************************)
EXTENDS LowpanStack

CONSTANTS r, a, d

ThreeThenFour == [n \in Neighbour |-> <<[dst |-> d, size |-> 3, known |-> TRUE],
                                        [dst |-> r, size |-> 4, known |-> TRUE]>>]
=============================================================================
