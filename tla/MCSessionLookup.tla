---------------------------- MODULE MCSessionLookup ----------------------------
(* Two session ids for three tuples and one role: ids run out and are reused. *)
EXTENDS SessionLookup
=============================================================================
