--------------------------- MODULE MCTransaction ---------------------------
(* Transaction for TLC: what the block may run. *)
EXTENDS Transaction

BlockKinds == {"select", "copy_in", "copy_out"}
=============================================================================
