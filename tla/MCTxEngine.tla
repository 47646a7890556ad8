----------------------------- MODULE MCTxEngine -----------------------------
(* One session, a buffer of 8 bytes, sequence numbers modulo 32 that wrap.   *)
EXTENDS TxEngine
=============================================================================
