----------------------------- MODULE MCStateTable -----------------------------
(* The state table with two sessions and FIFOs of depth 2.                   *)
EXTENDS StateTable
=============================================================================
