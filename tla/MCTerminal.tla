----------------------------- MODULE MCTerminal -----------------------------
(***************************************************************************)
(* Terminal for TLC: a grid that can be wide or narrow, high or low.       *)
(***************************************************************************)
EXTENDS Terminal

MCSizes == {<<3, 2>>, <<2, 2>>, <<2, 3>>}

MCFirstSize == <<3, 2>>

=============================================================================
