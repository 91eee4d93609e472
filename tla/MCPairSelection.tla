-------------------------- MODULE MCPairSelection --------------------------
(* Instance of PairSelection for TLC.                                      *)
EXTENDS PairSelection
MCAmounts == {-1, 0, 1}
=============================================================================
