----------------------------- MODULE MCNodeCache -----------------------------
(* Instances of NodeCache for TLC.                                         *)
EXTENDS NodeCache
MCNoFaults == {}
MCAllFaults == PossibleFaults
=============================================================================
