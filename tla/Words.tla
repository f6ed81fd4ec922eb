------------------------------- MODULE Words --------------------------------
(***************************************************************************)
(* Data words of XLEN bits (32 in the code), read as unsigned numbers.     *)
(***************************************************************************)
EXTENDS Integers

CONSTANT XLEN

ASSUME XlenAssumption == XLEN \in Nat \ {0}

(* The powers of two up to the width, written as a recursive function: the *)
(* provers know nothing of the built-in exponentiation.                    *)
Pow2[n \in 0 .. XLEN] == IF n = 0 THEN 1 ELSE 2 * Pow2[n - 1]

Word == 0 .. Pow2[XLEN] - 1
=============================================================================
