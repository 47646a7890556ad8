---------------------------- MODULE MCEventPath ----------------------------
(* EventPath on two sessions; a counter value fits the FIFO depths exactly.  *)
EXTENDS EventPath
=============================================================================
