-------------------------------- MODULE Sums --------------------------------
(***************************************************************************)
(* The sum of the values a function has on a finite set.                    *)
(***************************************************************************)
EXTENDS Integers, FiniteSets

FSX == INSTANCE FiniteSetsExt

SumOver(f, S) == FSX!MapThenSumSet(LAMBDA x : f[x], S)
=============================================================================
