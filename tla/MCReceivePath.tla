---------------------------- MODULE MCReceivePath ----------------------------
(* A buffer of eight bytes with words of two, so that reads and writes wrap. *)
EXTENDS ReceivePath
=============================================================================
