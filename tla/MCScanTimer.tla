----------------------------- MODULE MCScanTimer -----------------------------
(* Three sessions, an interval of two visits, FIFOs of one entry.           *)
EXTENDS ScanTimer
=============================================================================
