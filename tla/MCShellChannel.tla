--------------------------- MODULE MCShellChannel ---------------------------
(* Two sizes for TLC; ShellChannel. *)
EXTENDS ShellChannel

MCSizes == {1, 2}

=============================================================================
