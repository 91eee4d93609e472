------------------------------ MODULE MCFeeLimit ------------------------------
(* Instances of FeeLimit for TLC: sums of a few satoshi, so that no product *)
(* leaves 32 bits.                                                          *)
EXTENDS FeeLimit
MCAmounts == {1000, 15000}
MCPolicies == {[base |-> 0, rate |-> 300], [base |-> 3, rate |-> 100]}
MCSettings ==
  {[limitPPM |-> 200, ratio |-> 10, maxPPM |-> 0, lostProfit |-> TRUE]} \cup
  [limitPPM : {0}, ratio : {5, 13}, maxPPM : {0, 110}, lostProfit : BOOLEAN]
=============================================================================
