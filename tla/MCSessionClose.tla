--------------------------- MODULE MCSessionClose ---------------------------
(* SessionClose for TLC: the constants are given in the .cfg files. *)
EXTENDS SessionClose

=============================================================================
