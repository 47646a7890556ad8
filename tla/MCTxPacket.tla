------------------------------ MODULE MCTxPacket ------------------------------
(* Payloads around every boundary of a word: 24 to 92 bytes.                *)
EXTENDS TxPacket
=============================================================================
