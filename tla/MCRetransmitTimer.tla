------------------------- MODULE MCRetransmitTimer -------------------------
(* RetransmitTimer with short intervals.                                     *)
EXTENDS RetransmitTimer

MCRetransTime == [r \in 0 .. 4 |-> IF r = 0 THEN 0 ELSE 1]
=============================================================================
