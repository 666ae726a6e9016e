-------------------------------- MODULE CInt --------------------------------
(***************************************************************************)
(* The C int of the build, as wide as INT_MAX says: 2^31 - 1 there,        *)
(* smaller in the instances TLC checks.                                    *)
(***************************************************************************)
EXTENDS Integers

CONSTANT INT_MAX

ASSUME IntAssumption == INT_MAX \in Nat \ {0}

\* The int a value becomes that does not fit: what a cast yields, and what
\* the build (no optimisation, no -ftrapv) makes of an overflow, which C
\* leaves undefined.
Wrap(x) == ((x + INT_MAX + 1) % (2 * (INT_MAX + 1))) - INT_MAX - 1

\* C's / truncates towards zero.
CDiv(a, b) == IF a >= 0 THEN a \div b ELSE -((-a) \div b)
=============================================================================
