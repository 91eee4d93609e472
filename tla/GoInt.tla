------------------------------- MODULE GoInt -------------------------------
(* Integer operations of Go that the program relies on.                    *)
EXTENDS Integers

Abs(a) == IF a < 0 THEN -a ELSE a

\* Division of Go integers truncates towards zero.  b is not zero.
Quot(a, b) == IF (a < 0) = (b < 0) THEN Abs(a) \div Abs(b)
                                   ELSE -(Abs(a) \div Abs(b))

\* absoluteDeltaPPM(base, amt) of helper.go, for a base other than zero.
absoluteDeltaPPM(base, amt) == Abs(Quot((base - amt) * 1000000, base))
=============================================================================
