-------------------------- MODULE MCReliableRadio ----------------------------
(***************************************************************************)
(* ReliableRadio for TLC, in any use.                                      *)
(***************************************************************************)
EXTENDS ReliableRadio

CONSTANTS a, b

OneWay == {<<a, b>>}
==============================================================================
