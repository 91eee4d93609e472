------------------------------ MODULE MCSession ------------------------------
(* Instances of Session for TLC: the fee limit grows with the amount, so    *)
(* that a fee may be too high for the smaller one only.                     *)
EXTENDS Session
MCAmounts == {2, 3}
MCFees == {1, 2}
MCFeeLimit == [a \in Amounts |-> a - 1]
MCNoFaults == {}
MCAllFaults == PossibleFaults
=============================================================================
