-------------------------------- MODULE Money --------------------------------
(***************************************************************************)
(* Money is counted in mills, a tenth of a cent, in every module.          *)
(***************************************************************************)
EXTENDS Integers

Dollars(n) == 1000 * n

Distance(a, b) == IF a < b THEN b - a ELSE a - b
=============================================================================
