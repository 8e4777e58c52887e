------------------------------ MODULE MCSigning ------------------------------
(* Instances of Signing for TLC: the CLI and the console's execute route.      *)
EXTENDS Signing

Both == {"cli", "console"}
=============================================================================
