---------------------------- MODULE MCRemotePane ----------------------------
(* RemotePane for TLC: the constants are given in the .cfg files. *)
EXTENDS RemotePane

=============================================================================
