--------------------------- MODULE MCDevnetConsole ---------------------------
(* A mint on a foreign chain, and a move from the native chain to it.         *)
EXTENDS DevnetConsole

MintAndMove == {<<"foreign">>, <<"native", "foreign">>}
=============================================================================
