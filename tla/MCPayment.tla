------------------------------ MODULE MCPayment ------------------------------
(* Instance of Payment for TLC: routes below and above the fee limit.      *)
EXTENDS Payment
MCAmounts == {1, 2}
MCFees == {0, 2}
MCFeeLimit == [a \in Amounts |-> 1]
MCAllFaults == PossibleFaults
=============================================================================
