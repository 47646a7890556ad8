------------------------------- MODULE MCTxApp -------------------------------
(* One session with a ring of 4 bytes and FIFOs of depth 2.                  *)
EXTENDS TxApp
=============================================================================
