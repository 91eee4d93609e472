---------------------------- MODULE MCMissionControl ----------------------------
(* Instances of MissionControl for TLC: routes through two of three nodes,   *)
(* the second of which takes a fee.                                          *)
EXTENDS MissionControl
CONSTANTS A, B, C
RoutesOver(x, y, amount, fee) ==
  {<<[node |-> x, forward |-> amount + fee],
     [node |-> y, forward |-> amount],
     [node |-> Me, forward |-> amount]>>}
\* 101 is within the tolerance of 100, and 105 is not; the others are what lnd
\* can build when fees changed or a probe found a smaller amount.
MCRoutes ==
  RoutesOver(A, B, 100, 1) \cup RoutesOver(A, B, 100, 5) \cup RoutesOver(A, B, 50, 1)
    \cup RoutesOver(A, C, 101, 0) \cup RoutesOver(C, B, 104, 1)
=============================================================================
