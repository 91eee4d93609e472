------------------------------- MODULE MCProbe -------------------------------
(* Instances of Probe for TLC: small amounts, and the powers of two that the *)
(* halvings of four steps start from; a minimum of 10 is within the tolerance *)
(* of 11.                                                                    *)
EXTENDS Probe
MCAmounts == 1 .. 11 \cup {16, 17, 32}
MCMinAmounts == {0, 1, 3, 10, 20}
=============================================================================
