------------------------- MODULE MCTransferManager -------------------------
(* TransferManager for TLC: the constants are given in the .cfg file. *)
EXTENDS TransferManager

=============================================================================
