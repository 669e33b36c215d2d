------------------------- MODULE MCFragmentingRadio --------------------------
(***************************************************************************)
(* Instances of FragmentingRadio for TLC.                                  *)
(***************************************************************************)
EXTENDS FragmentingRadio, TLC

CONSTANTS a, b, c, x, y, z

BothToC == {<<a, c>>, <<b, c>>}
FromA == {<<a, c>>}

\* Three fragments from a; from b one frame, two fragments, or a last fragment
\* that is full.
Lengths == [e \in BothToC |-> IF e[1] = a THEN {5} ELSE {1, 3, 4}]

TwoAndOne == [n \in Node |-> CASE n = a -> 2 [] n = b -> 1 [] OTHER -> 0]

\* Ids are only compared.
AnyId == Permutations(Id)
==============================================================================
