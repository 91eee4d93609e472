--------------------------- MODULE MCRapidRebalance ---------------------------
(* Instances of RapidRebalance for TLC.                                    *)
EXTENDS RapidRebalance
MCAmounts == {2, 3, 15}
MCMinAmounts == {0, 2}
MCRoutes == {<<0, 3>>, <<9, 5>>, <<9, 0>>, <<0, 0>>}
MCFees == {1, 2}
MCRooms == {0, 1, 2, 3, 5, 14, 40}
MCShifts == {1, 12}
MCSpares == {-1, 4}
=============================================================================
